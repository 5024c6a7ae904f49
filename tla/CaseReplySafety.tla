---------------------------- MODULE CaseReplySafety ----------------------------
(***************************************************************************)
(* What the reply ledger and the claim on a turn guarantee, on the types   *)
(* of CaseReplyProofs: no text is posted again but after a takeover,       *)
(* nothing is posted on a turn that has ended, the claim is a lease, the   *)
(* notice of a cancelled turn is shown again only blindly; a turn has one  *)
(* final answer, what the worker is told of it is true, and it keeps the   *)
(* means to give one.                                                      *)
(***************************************************************************)
EXTENDS CaseReplyProofs

One(b) == IF b THEN 1 ELSE 0

\* A thread that may still bring the text of its request to Slack, or give the row
\* of the ledger back for another try.
InHand(th) ==
    \/ th.at \in {"resolve", "check", "turn", "post", "release", "notice", "notice_post",
                  "notice_fail", "notice_record", "notice_mark"}
    \/ th.at = "fail" /\ th.retry

\* The ledger would hand the request out without a takeover.
Free(row) == row.status = "none" \/ (row.status = "failed" /\ row.retry)

Held(r) == {k \in 1..MaxDeliveries : InHand(thread[<<r, k>>])}

\* The ledger hands a text out once, and once more for every takeover: what has been
\* posted, what threads have in hand and what may be handed out make that up.
OnceEach ==
    \A r \in Texts :
        posts[r] + Cardinality(Held(r)) + One(Free(reply[r])) <= 1 + takeovers[r]

LEMMA HeldType == \A r \in Requests : IsFiniteSet(Held(r)) /\ Cardinality(Held(r)) \in Nat
<1>1. \A r \in Requests : Held(r) \subseteq 1..MaxDeliveries
  BY DEF Held
<1>2. IsFiniteSet(1..MaxDeliveries)
  BY ReplyAssumption, FS_Interval
<1>3. QED
  BY <1>1, <1>2, FS_Subset, FS_CardinalityType

\* One thread goes on: its request is in one hand more or less, the others as before.
LEMMA HeldStep ==
    ASSUME NEW d \in Deliveries, \A e \in Deliveries \ {d} : thread'[e] = thread[e]
    PROVE  /\ \A r \in Requests \ {d[1]} : Held(r)' = Held(r)
           /\ Cardinality(Held(d[1])') + One(InHand(thread[d]))
              = Cardinality(Held(d[1])) + One(InHand(thread'[d]))
           /\ Cardinality(Held(d[1])') \in Nat
<1>1. d[1] \in Requests /\ d[2] \in 1..MaxDeliveries /\ d = <<d[1], d[2]>>
  BY DeliveryType
<1>2. \A r \in Requests : \A k \in 1..MaxDeliveries :
         <<r, k>> # d => thread'[<<r, k>>] = thread[<<r, k>>]
  BY DEF Deliveries
<1>3. \A r \in Requests \ {d[1]} : Held(r)' = Held(r)
  BY <1>1, <1>2 DEF Held
<1> DEFINE S == Held(d[1])
           k == d[2]
<1>4. IsFiniteSet(S) /\ Cardinality(S) \in Nat
  BY <1>1, HeldType
<1>5. \A j \in 1..MaxDeliveries : j # k => (j \in S' <=> j \in S)
  BY <1>1, <1>2 DEF Held
<1>6. (k \in S <=> InHand(thread[d])) /\ (k \in S' <=> InHand(thread'[d]))
  BY <1>1 DEF Held
<1>7. S \subseteq 1..MaxDeliveries /\ S' \subseteq 1..MaxDeliveries
  BY DEF Held
<1> HIDE DEF S, k
<1>8. CASE k \in S /\ k \notin S'
  <2>1. S' = S \ {k}
    BY <1>5, <1>7, <1>8
  <2>2. Cardinality(S') = Cardinality(S) - 1 /\ Cardinality(S') \in Nat
    BY <1>4, <1>8, <2>1, FS_RemoveElement, FS_CardinalityType
  <2>3. QED
    BY <1>3, <1>4, <1>6, <1>8, <2>2 DEF One, S
<1>9. CASE k \notin S /\ k \in S'
  <2>1. S' = S \cup {k}
    BY <1>5, <1>7, <1>9
  <2>2. Cardinality(S') = Cardinality(S) + 1 /\ Cardinality(S') \in Nat
    BY <1>4, <1>9, <2>1, FS_AddElement, FS_CardinalityType
  <2>3. QED
    BY <1>3, <1>4, <1>6, <1>9, <2>2 DEF One, S
<1>10. CASE k \in S <=> k \in S'
  <2>1. S' = S
    <3>1. \A j \in 1..MaxDeliveries : j \in S' <=> j \in S
      BY <1>5, <1>10
    <3>2. QED
      BY <1>7, <3>1
  <2>2. One(InHand(thread[d])) = One(InHand(thread'[d]))
    BY <1>6, <1>10 DEF One
  <2>3. One(InHand(thread[d])) \in Nat
    BY DEF One
  <2>4. QED
    BY <1>3, <1>4, <2>1, <2>2, <2>3 DEF S
<1>11. QED
  BY <1>8, <1>9, <1>10

\* A step of one thread keeps the account if it keeps that of its own request.
LEMMA OnceKept ==
    ASSUME Typed, Typed', OnceEach, NEW d \in Deliveries,
           \A e \in Deliveries \ {d} : thread'[e] = thread[e],
           \A q \in Requests \ {d[1]} : /\ posts'[q] = posts[q]
                                        /\ takeovers'[q] = takeovers[q]
                                        /\ reply'[q] = reply[q],
           Action[d[1]] # "reaction" =>
               posts'[d[1]] + One(InHand(thread'[d])) + One(Free(reply'[d[1]])) + takeovers[d[1]]
               <= posts[d[1]] + One(InHand(thread[d])) + One(Free(reply[d[1]])) + takeovers'[d[1]]
    PROVE  OnceEach'
<1>1. /\ posts \in [Requests -> Nat] /\ posts' \in [Requests -> Nat]
      /\ takeovers \in [Requests -> Nat] /\ takeovers' \in [Requests -> Nat]
  BY DEF Typed, TypeOK, HistoryOK
<1>2. \A b : One(b) \in {0, 1}
  BY DEF One
<1>3. ASSUME NEW r \in Texts, r # d[1]
      PROVE  posts'[r] + Cardinality(Held(r)') + One(Free(reply'[r])) <= 1 + takeovers'[r]
  <2>1. r \in Requests /\ Held(r)' = Held(r)
    BY <1>3, HeldStep DEF Texts
  <2>2. QED
    BY <1>3, <2>1 DEF OnceEach
<1>4. ASSUME d[1] \in Texts
      PROVE  posts'[d[1]] + Cardinality(Held(d[1])') + One(Free(reply'[d[1]]))
             <= 1 + takeovers'[d[1]]
  <2> DEFINE r == d[1]
             p == posts[r]
             pp == posts'[r]
             n == takeovers[r]
             nn == takeovers'[r]
             c == Cardinality(Held(r))
             cc == Cardinality(Held(r)')
             i == One(InHand(thread[d]))
             ii == One(InHand(thread'[d]))
             f == One(Free(reply[r]))
             ff == One(Free(reply'[r]))
  <2>1. r \in Requests /\ Action[r] # "reaction"
    BY <1>4 DEF Texts
  <2>2. p \in Nat /\ pp \in Nat /\ n \in Nat /\ nn \in Nat /\ c \in Nat /\ cc \in Nat
    BY <1>1, <2>1, HeldType, HeldStep
  <2>3. i \in {0, 1} /\ ii \in {0, 1} /\ f \in {0, 1} /\ ff \in {0, 1}
    BY <1>2
  <2>4. cc + i = c + ii
    BY HeldStep
  <2>5. p + c + f <= 1 + n
    BY <1>4 DEF OnceEach
  <2>6. pp + ii + ff + n <= p + i + f + nn
    BY <2>1
  <2> HIDE DEF r, p, pp, n, nn, c, cc, i, ii, f, ff
  <2>7. pp + cc + ff <= 1 + nn
    BY <2>2, <2>3, <2>4, <2>5, <2>6
  <2>8. QED
    BY <2>7 DEF r, pp, nn, cc, ff
<1>5. QED
  BY <1>3, <1>4 DEF OnceEach

\* How a thread may go on, as far as its hand is concerned.
LEMMA Onward ==
    ASSUME Typed, NEW d \in Deliveries
    PROVE  /\ \A where \in Places : Goto(d, where) =>
                 thread'[d].at = where /\ \A e \in Deliveries \ {d} : thread'[e] = thread[e]
           /\ \A retry \in BOOLEAN : \A answer \in {"ok", "again", "no"} :
                 FailWith(d, retry, answer) =>
                 /\ thread'[d].at = "fail" /\ thread'[d].retry = retry
                 /\ \A e \in Deliveries \ {d} : thread'[e] = thread[e]
           /\ \A answer : Answer(d, answer) =>
                 thread'[d].at = "off" /\ \A e \in Deliveries \ {d} : thread'[e] = thread[e]
BY GotoStep, FailStep, EndStep

\* The steps that neither write the ledger row of their request nor post its text.
Quiet(d) ==
    \/ Resolve(d) \/ CheckTurn(d) \/ ClaimTurn(d) \/ PostSuppressed(d) \/ Release(d)
    \/ Settle(d) \/ Unclaim(d) \/ CompleteTurn(d) \/ Tidy(d) \/ ClaimNotice(d)
    \/ PostNotice(d) \/ NoticeRefused(d) \/ NoticeFails(d) \/ RecordNotice(d)
    \/ MarkNotified(d) \/ HandlerBreaks(d)

\* Such a step takes nothing in hand.
LEMMA QuietHands ==
    ASSUME Typed, NEW d \in Deliveries, Quiet(d)
    PROVE  /\ UNCHANGED <<posts, takeovers, reply>>
           /\ \A e \in Deliveries \ {d} : thread'[e] = thread[e]
           /\ InHand(thread'[d]) => InHand(thread[d])
<1>1. CASE Resolve(d)
  <2>1. \A e \in Deliveries \ {d} : thread'[e] = thread[e]
    BY <1>1, Onward DEF Resolve, Typed, TypeOK, ProcessesOK
  <2>2. QED
    BY <1>1, <2>1 DEF Resolve, At, InHand, history
<1>2. CASE CheckTurn(d)
  <2>1. /\ \A e \in Deliveries \ {d} : thread'[e] = thread[e]
        /\ thread'[d].at \in {"off", "fail", "post", "turn", "notice"}
    BY <1>2, Onward DEF CheckTurn, Places
  <2>2. QED
    BY <1>2, <2>1 DEF CheckTurn, At, InHand, history
<1>3. CASE ClaimTurn(d)
  BY <1>3, Onward DEF ClaimTurn, At, InHand, Places
<1>4. CASE PostSuppressed(d)
  BY <1>4, Onward DEF PostSuppressed, At, InHand, Places
<1>5. CASE Release(d)
  BY <1>5, Onward DEF Release, At, InHand, history
<1>6. CASE Settle(d) \/ Unclaim(d) \/ CompleteTurn(d) \/ Tidy(d)
  <2>1. /\ \A e \in Deliveries \ {d} : thread'[e] = thread[e]
        /\ thread'[d].at \in {"unclaim", "complete", "tidy", "off"}
    BY <1>6, Onward DEF Settle, Unclaim, CompleteTurn, Tidy, Places
  <2>2. QED
    BY <1>6, <2>1 DEF Settle, Unclaim, CompleteTurn, Tidy, InHand, history
<1>7. CASE ClaimNotice(d)
  <2>1. /\ \A e \in Deliveries \ {d} : thread'[e] = thread[e]
        /\ thread'[d].at \in {"notice_post", "fail"}
    BY <1>7, Onward DEF ClaimNotice, Places
  <2>2. QED
    BY <1>7, <2>1 DEF ClaimNotice, At, InHand
<1>8. CASE PostNotice(d) \/ NoticeRefused(d)
  <2>1. /\ \A e \in Deliveries \ {d} : thread'[e] = thread[e]
        /\ thread'[d].at \in {"notice_record", "notice_fail"}
    BY <1>8, Onward DEF PostNotice, NoticeRefused, Places
  <2>2. QED
    BY <1>8, <2>1 DEF PostNotice, NoticeRefused, At, InHand
<1>9. CASE NoticeFails(d) \/ RecordNotice(d) \/ MarkNotified(d)
  <2>1. /\ \A e \in Deliveries \ {d} : thread'[e] = thread[e]
        /\ thread'[d].at \in {"notice_mark", "fail"}
    BY <1>9, Onward DEF NoticeFails, RecordNotice, MarkNotified, Places
  <2>2. QED
    BY <1>9, <2>1 DEF NoticeFails, RecordNotice, MarkNotified, At, InHand, history
<1>11. CASE HandlerBreaks(d)
  BY <1>11, BreakStep DEF InHand
<1>10. QED
  BY <1>1, <1>2, <1>3, <1>4, <1>5, <1>6, <1>7, <1>8, <1>9, <1>11 DEF Quiet

\* The verdict of Slack and what the call has put there.
LEMMA OutcomeOfText ==
    ASSUME NEW d \in Deliveries, Action[d[1]] # "reaction"
    PROVE  Outcomes(d) = Posts
BY DEF Outcomes

LEMMA OnceHandler ==
    ASSUME Typed, Typed', OnceEach, NEW d \in Deliveries, Handler(d)
    PROVE  OnceEach'
<1> DEFINE r == d[1]
<1>1. /\ r \in Requests /\ posts \in [Requests -> Nat] /\ takeovers \in [Requests -> Nat]
      /\ reply \in [Requests -> Row] /\ reply[r] \in Row
  BY DeliveryType DEF Typed, TypeOK, HistoryOK, RowsOK
<1>2. \A b : One(b) \in {0, 1}
  BY DEF One
<1>3. CASE Quiet(d)
  <2>1. One(InHand(thread'[d])) <= One(InHand(thread[d]))
    BY <1>3, QuietHands DEF One
  <2>2. QED
    BY <1>1, <1>2, <1>3, <2>1, QuietHands, OnceKept
<1>4. CASE ClaimReply(d)
  <2>1. UNCHANGED posts /\ \A e \in Deliveries \ {d} : thread'[e] = thread[e]
    BY <1>4, Onward DEF ClaimReply, Places
  <2>2. /\ \A q \in Requests \ {r} : takeovers'[q] = takeovers[q] /\ reply'[q] = reply[q]
    BY <1>1, <1>4 DEF ClaimReply
  <2>3. CASE Claimable(reply[r], r)
    <3>1. One(InHand(thread'[d])) <= 1 /\ One(Free(reply'[r])) = 0
      BY <1>1, <1>2, <1>4, <2>3, ReceivedType DEF ClaimReply, Free, One
    <3>2. takeovers'[r] = takeovers[r] + One(TakesOver(reply[r]))
      BY <1>1, <1>4, <2>3 DEF ClaimReply, One
    <3>3. One(Free(reply[r])) + One(TakesOver(reply[r])) = 1
      BY <1>1, <2>3 DEF Claimable, Free, TakesOver, One, Row
    <3>4. One(InHand(thread[d])) = 0
      BY <1>4 DEF ClaimReply, At, InHand, One
    <3>5. QED
      BY <1>1, <1>2, <2>1, <2>2, <3>1, <3>2, <3>3, <3>4, OnceKept
  <2>4. CASE ~Claimable(reply[r], r)
    <3>1. UNCHANGED <<reply, takeovers>> /\ thread'[d].at = "off"
      BY <1>4, <2>4, Onward DEF ClaimReply
    <3>2. One(InHand(thread'[d])) = 0
      BY <3>1 DEF InHand, One
    <3>3. QED
      BY <1>1, <1>2, <2>1, <3>1, <3>2, OnceKept
  <2>5. QED
    BY <2>3, <2>4
<1>5. CASE PostReply(d) \/ PostRefused(d) \/ PostUnknown(d) \/ PostBreaks(d)
  <2>1. /\ UNCHANGED <<takeovers, reply>> /\ One(InHand(thread[d])) = 1
        /\ \A e \in Deliveries \ {d} : thread'[e] = thread[e]
    BY <1>5, Onward DEF PostReply, PostRefused, PostUnknown, PostBreaks, At, InHand, One, Places
  <2>2. \A q \in Requests \ {r} : posts'[q] = posts[q]
    BY <1>1, <1>5 DEF PostReply, PostRefused, PostUnknown, PostBreaks, Reached
  <2>3. ASSUME Action[r] # "reaction"
        PROVE  posts'[r] + One(InHand(thread'[d])) <= posts[r] + 1
    <3>1. CASE PostRefused(d)
      <4>1. posts' = [posts EXCEPT ![r] = posts[r] + 0]
        BY <1>1, <2>3, <3>1, OutcomeOfText, PostOutcome DEF PostRefused, Reached
      <4>2. QED
        BY <1>1, <1>2, <4>1
    <3>2. CASE ~PostRefused(d)
      <4>1. PICK n \in {0, 1} : posts' = [posts EXCEPT ![r] = posts[r] + n]
        BY <1>5, <2>3, <3>2, OutcomeOfText, PostOutcome
           DEF PostReply, PostUnknown, PostBreaks, Reached
      <4>2. thread'[d].at \in {"record", "record_unknown", "off"}
        BY <1>5, <2>3, <3>2, Onward DEF PostReply, PostUnknown, PostBreaks, Places
      <4>3. One(InHand(thread'[d])) = 0
        BY <4>2 DEF InHand, One
      <4>4. QED
        BY <1>1, <4>1, <4>3
    <3>3. QED
      BY <3>1, <3>2
  <2>4. QED
    BY <1>1, <1>2, <2>1, <2>2, <2>3, OnceKept DEF Typed, TypeOK, HistoryOK
<1>6. CASE Record(d) \/ RecordUnknown(d)
  <2>1. /\ UNCHANGED <<posts, takeovers>>
        /\ \A e \in Deliveries \ {d} : thread'[e] = thread[e]
        /\ \A q \in Requests \ {r} : reply'[q] = reply[q]
        /\ thread'[d].at = "settle"
    BY <1>1, <1>6, Onward DEF Record, RecordUnknown, Places
  <2>2. One(InHand(thread'[d])) = 0
    BY <2>1 DEF InHand, One
  <2>3. One(Free(reply'[r])) <= One(Free(reply[r]))
    <3>1. CASE UNCHANGED reply
      BY <1>2, <3>1
    <3>2. CASE \E status \in {"posted", "posted_unknown"} : reply'[r] = Marked(reply[r], status)
      <4>1. One(Free(reply'[r])) = 0
        BY <1>1, <3>2, MarkedType DEF Free, One
      <4>2. QED
        BY <1>2, <4>1
    <3>3. QED
      BY <1>1, <1>6, <3>1, <3>2 DEF Record, RecordUnknown
  <2>4. QED
    BY <1>1, <1>2, <2>1, <2>2, <2>3, OnceKept
<1>7. CASE Fail(d)
  <2>1. /\ UNCHANGED <<posts, takeovers>>
        /\ \A e \in Deliveries \ {d} : thread'[e] = thread[e]
        /\ \A q \in Requests \ {r} : reply'[q] = reply[q]
        /\ thread'[d].at = "off" /\ thread[d].at = "fail"
        /\ reply'[r] = Failed(reply[r], thread[d].retry)
    BY <1>1, <1>7, Onward DEF Fail, At, history
  <2>2. One(InHand(thread'[d])) = 0
    BY <2>1 DEF InHand, One
  <2>3. Free(reply'[r]) => Free(reply[r]) \/ InHand(thread[d])
    <3>1. thread[d].retry \in BOOLEAN
      BY DEF Typed, TypeOK, ProcessesOK, ThreadRow
    <3>2. CASE reply[r].status = "posted"
      BY <1>1, <2>1, <3>1, <3>2, FailedType
    <3>3. CASE reply[r].status # "posted"
      <4>1. reply'[r].status = "failed" /\ reply'[r].retry = thread[d].retry
        BY <1>1, <2>1, <3>1, <3>3, FailedType
      <4>2. QED
        BY <2>1, <4>1 DEF Free, InHand
    <3>4. QED
      BY <3>2, <3>3
  <2>4. One(Free(reply'[r])) <= One(Free(reply[r])) + One(InHand(thread[d]))
    BY <2>3 DEF One
  <2>5. QED
    BY <1>1, <1>2, <2>1, <2>2, <2>4, OnceKept
<1>8. QED
  BY <1>3, <1>4, <1>5, <1>6, <1>7 DEF Handler, SlackCall, Quiet

LEMMA OnceCommand ==
    ASSUME Typed, Typed', OnceEach, NEW r \in Requests, Command(r)
    PROVE  OnceEach'
<1>1. UNCHANGED <<posts, takeovers, reply>>
  BY DEF Command, RunCommand, SendRequest, GiveUpWaiting, history
<1>2. CASE thread' = thread
  BY <1>1, <1>2 DEF OnceEach, Held
<1>3. CASE SendRequest(r)
  <2> DEFINE where == IF Action[r] = "reaction" THEN "resolve" ELSE "claim"
  <2>1. where \in Places /\ Goto(<<r, script[r].last + 1>>, where)
    BY <1>3 DEF SendRequest, Places
  <2>2. ASSUME NEW d \in Deliveries, d = <<r, script[r].last + 1>>
        PROVE  OnceEach'
    <3>1. Goto(d, where) /\ d[1] = r
      BY <2>1, <2>2
    <3>2. /\ thread'[d].at = where
          /\ \A e \in Deliveries \ {d} : thread'[e] = thread[e]
      BY <2>1, <3>1, GotoStep
    <3>3. Action[r] # "reaction" => One(InHand(thread'[d])) = 0
      BY <3>2 DEF InHand, One
    <3>4. /\ posts[r] \in Nat /\ takeovers[r] \in Nat
          /\ One(InHand(thread[d])) \in {0, 1} /\ One(Free(reply[r])) \in {0, 1}
      BY DEF Typed, TypeOK, HistoryOK, One
    <3>5. QED
      BY <1>1, <3>1, <3>2, <3>3, <3>4, OnceKept
  <2>3. CASE <<r, script[r].last + 1>> \notin Deliveries
    <3>1. thread' = thread
      BY <2>1, <2>3 DEF Goto, Typed, TypeOK, ProcessesOK
    <3>2. QED
      BY <1>2, <3>1
  <2>4. QED
    BY <2>2, <2>3
<1>4. QED
  BY <1>2, <1>3 DEF Command, RunCommand, GiveUpWaiting

LEMMA OnceOutside ==
    ASSUME Typed, Typed', OnceEach, Ending \/ Outside
    PROVE  OnceEach'
<1>1. UNCHANGED <<posts, takeovers>>
  BY DEF Ending, Outside, MoveToEnd, Finalize, StartTurn, BeginEnding, Restart, LeaseEnds, history
<1>2. CASE Restart
  <2>1. reply' = reply /\ \A d \in Deliveries : thread'[d].at = "off"
    BY <1>2 DEF Restart, Off
  <2>2. ASSUME NEW r \in Texts
        PROVE  posts'[r] + Cardinality(Held(r)') + One(Free(reply'[r])) <= 1 + takeovers'[r]
    <3>1. \A k \in 1..MaxDeliveries : ~InHand(thread'[<<r, k>>])
      BY <2>1 DEF InHand, Deliveries, Texts
    <3>2. Held(r)' = {} /\ Cardinality(Held(r)') = 0
      BY <3>1, FS_EmptySet DEF Held
    <3>3. /\ posts[r] \in Nat /\ takeovers[r] \in Nat /\ Cardinality(Held(r)) \in Nat
          /\ One(Free(reply[r])) \in {0, 1}
      BY HeldType DEF Texts, Typed, TypeOK, HistoryOK, One
    <3>4. posts[r] + Cardinality(Held(r)) + One(Free(reply[r])) <= 1 + takeovers[r]
      BY DEF OnceEach
    <3>5. QED
      BY <1>1, <2>1, <3>2, <3>3, <3>4
  <2>3. QED
    BY <2>2 DEF OnceEach
<1>3. CASE LeaseEnds
  <2>1. thread' = thread /\ \A r \in Requests : Held(r)' = Held(r)
    BY <1>3 DEF LeaseEnds, Held
  <2>2. \A row \in Row : [row EXCEPT !.lapsed = TRUE].status = row.status
                         /\ [row EXCEPT !.lapsed = TRUE].retry = row.retry
    BY DEF Row
  <2>3. \A r \in Requests : reply'[r].status = reply[r].status /\ reply'[r].retry = reply[r].retry
    <3>1. ASSUME NEW q \in Requests, reply' = [reply EXCEPT ![q] = [reply[q] EXCEPT !.lapsed = TRUE]]
          PROVE  <2>3!:
      BY <2>2, <3>1 DEF Typed, TypeOK, RowsOK
    <3>2. QED
      BY <1>3, <3>1 DEF LeaseEnds
  <2>4. \A r \in Requests : One(Free(reply'[r])) = One(Free(reply[r]))
    BY <2>3 DEF Free
  <2>5. QED
    BY <1>1, <2>1, <2>4 DEF OnceEach, Texts
<1>4. CASE UNCHANGED <<reply, thread>>
  BY <1>1, <1>4 DEF OnceEach, Held
<1>5. QED
  BY <1>2, <1>3, <1>4 DEF Ending, Outside, MoveToEnd, Finalize, StartTurn, BeginEnding

LEMMA OnceInit == Init => OnceEach
<1> SUFFICES ASSUME Init, NEW r \in Texts
             PROVE  posts[r] + Cardinality(Held(r)) + One(Free(reply[r])) <= 1 + takeovers[r]
  BY DEF OnceEach
<1>1. \A k \in 1..MaxDeliveries : ~InHand(thread[<<r, k>>])
  BY DEF Init, InHand, Off, Deliveries, Texts
<1>2. Held(r) = {} /\ Cardinality(Held(r)) = 0
  BY <1>1, FS_EmptySet DEF Held
<1>3. posts[r] = 0 /\ takeovers[r] = 0 /\ One(Free(reply[r])) = 1
  BY DEF Init, Texts, Free, NoRow, One
<1>4. QED
  BY <1>2, <1>3

LEMMA OnceStep == Typed /\ Typed' /\ OnceEach /\ [Next]_vars => OnceEach'
<1>1. CASE UNCHANGED vars
  BY <1>1 DEF vars, state, history, OnceEach, Held
<1>2. QED
  BY <1>1, OnceHandler, OnceCommand, OnceOutside DEF Next

\* However a reply command is run again and its requests are retried, lost or handled at
\* once: claim_reply lets a text into Slack a second time only as a takeover, once each.
THEOREM NoSecondPost == Spec => []PostedAgainOnlyByTakeover
<1>1. Typed /\ OnceEach => PostedAgainOnlyByTakeover
  <2> SUFFICES ASSUME Typed, OnceEach, NEW r \in Texts
               PROVE  posts[r] <= 1 + takeovers[r]
    BY DEF PostedAgainOnlyByTakeover
  <2>1. /\ posts[r] \in Nat /\ takeovers[r] \in Nat /\ Cardinality(Held(r)) \in Nat
        /\ One(Free(reply[r])) \in Nat
    BY HeldType DEF Texts, Typed, TypeOK, HistoryOK, One
  <2>2. QED
    BY <2>1 DEF OnceEach
<1>2. Typed /\ OnceEach /\ [Next]_vars => (Typed /\ OnceEach)'
  BY TypedStep, OnceStep
<1>3. Spec => [](Typed /\ OnceEach)
  BY <1>2, TypedInit, OnceInit, PTL DEF Spec
<1>4. QED
  BY <1>1, <1>3, PTL

-----------------------------------------------------------------------------
(* The claim on a turn *)

SameClaim(u) == /\ attempt'[u].holder = attempt[u].holder
                /\ attempt'[u].lapsed = attempt[u].lapsed
NoClaim(u)   == attempt'[u].holder = NoRequest /\ ~attempt'[u].lapsed
Kept(u)      == SameClaim(u) /\ attempt'[u].action = attempt[u].action
KeptBut(t)   == /\ attempt'[t].action = attempt[t].action
                /\ \A u \in Turns \ {t} : Kept(u)

Claimed(t, r) == /\ ClaimableTurn(t, r) /\ KeptBut(t)
                 /\ attempt'[t].holder = r /\ ~attempt'[t].lapsed
Returned(t)   == KeptBut(t) /\ NoClaim(t)
RanOut(t)     == /\ attempt[t].holder # NoRequest /\ KeptBut(t)
                 /\ attempt'[t].holder = attempt[t].holder /\ attempt'[t].lapsed
\* Some turns have come to an end, with or without their claim.
Ended == \A u \in Turns :
            Kept(u) \/ (attempt'[u].action # "none" /\ (SameClaim(u) \/ NoClaim(u)))

\* Every way the claims and the ends of the turns can change in one step.
Moves ==
    \/ \A u \in Turns : Kept(u)
    \/ \E d \in Deliveries :
          /\ thread[d].at \in {"release", "unclaim"} /\ attempt[TurnOf[d[1]]].holder = d[1]
          /\ Returned(TurnOf[d[1]])
    \/ \E d \in Deliveries : ClaimTurn(d) /\ Claimed(TurnOf[d[1]], d[1])
    \/ \E t \in Turns : RanOut(t)
    \/ Ended

\* One row of turn_attempts is written.
LEMMA RowWritten ==
    ASSUME Typed, NEW t \in Turns, NEW a \in AttemptRow, attempt' = [attempt EXCEPT ![t] = a]
    PROVE  attempt'[t] = a /\ \A u \in Turns \ {t} : Kept(u)
BY DEF Typed, TypeOK, TablesOK, Kept, SameClaim

LEMMA MovesOfRelease ==
    ASSUME Typed, NEW d \in Deliveries, thread[d].at \in {"release", "unclaim"},
           attempt' = [attempt EXCEPT ![TurnOf[d[1]]] = Released(attempt[TurnOf[d[1]]], d[1])]
    PROVE  Moves
<1> DEFINE r == d[1]
           t == TurnOf[r]
<1>1. /\ r \in Requests /\ t \in Turns
      /\ attempt[t] \in AttemptRow /\ Released(attempt[t], r) \in AttemptRow
  BY DeliveryType, AttemptTypes DEF Typed, TypeOK, TablesOK
<1>2. attempt'[t] = Released(attempt[t], r) /\ \A u \in Turns \ {t} : Kept(u)
  BY <1>1, RowWritten
<1>3. CASE attempt[t].holder = r /\ ~attempt[t].completed
  <2>1. LET a == [attempt[t] EXCEPT !.holder = NoRequest, !.lapsed = FALSE] IN
        /\ Released(attempt[t], r) = a
        /\ a.holder = NoRequest /\ a.lapsed = FALSE /\ a.action = attempt[t].action
    BY <1>1, <1>3 DEF Released, AttemptRow
  <2>2. NoClaim(t) /\ attempt'[t].action = attempt[t].action
    BY <1>2, <2>1 DEF NoClaim
  <2>3. QED
    BY <1>2, <1>3, <2>2 DEF Moves, Returned, KeptBut
<1>4. CASE ~(attempt[t].holder = r /\ ~attempt[t].completed)
  BY <1>2, <1>4 DEF Released, Moves, Kept, SameClaim
<1>5. QED
  BY <1>3, <1>4

LEMMA MovesOfClosed ==
    ASSUME Typed, NEW t \in Turns, NEW action \in {"close", "reaction"},
           attempt' = [attempt EXCEPT ![t] = Closed(attempt[t], action)]
    PROVE  Moves /\ attempt'[t].action # "none"
<1>1. attempt[t] \in AttemptRow
  BY DEF Typed, TypeOK, TablesOK
<1>2. LET a == Closed(attempt[t], action) IN
      a \in AttemptRow /\ a.action # "none" /\ a.holder = NoRequest /\ ~a.lapsed
  BY <1>1 DEF Closed, AttemptRow
<1>3. /\ NoClaim(t) /\ attempt'[t].action # "none"
      /\ \A u \in Turns \ {t} : Kept(u)
  BY <1>2, RowWritten DEF NoClaim
<1>4. QED
  BY <1>3 DEF Moves, Ended

LEMMA MovesOfFinalized ==
    ASSUME Typed, NEW t, NEW action \in {"close", "cancelled", "stopped"},
           attempt' = Finalized(t, action)
    PROVE  Ended
<1> SUFFICES ASSUME NEW u \in Turns
             PROVE  \/ Kept(u)
                    \/ attempt'[u].action # "none" /\ (SameClaim(u) \/ NoClaim(u))
  BY DEF Ended
<1> DEFINE a == attempt[u]
<1>1. a \in AttemptRow
  BY DEF Typed, TypeOK, TablesOK
<1>2. /\ Closed(a, action).action = action /\ EndedRow(a, action).action = action
      /\ Closed(a, action).holder = NoRequest /\ ~Closed(a, action).lapsed
      /\ EndedRow(a, action).holder = a.holder /\ EndedRow(a, action).lapsed = a.lapsed
  BY <1>1 DEF Closed, EndedRow, AttemptRow
<1>3. attempt'[u] \in {a, Closed(a, action), EndedRow(a, action)}
  BY DEF Finalized, EndedRow
<1>4. QED
  BY <1>2, <1>3 DEF Kept, SameClaim, NoClaim

LEMMA MovesOfHandler ==
    ASSUME Typed, NEW d \in Deliveries, Handler(d)
    PROVE  Moves
<1> DEFINE r == d[1]
           t == TurnOf[r]
<1>1. r \in Requests /\ t \in Turns /\ attempt \in [Turns -> AttemptRow]
      /\ attempt[t] \in AttemptRow
  BY DeliveryType DEF Typed, TypeOK, TablesOK
<1>2. CASE attempt' = attempt
  BY <1>2 DEF Moves, Kept, SameClaim
<1>3. CASE Release(d) \/ Unclaim(d)
  BY <1>1, <1>3, MovesOfRelease DEF Release, Unclaim, At
<1>4. CASE ClaimTurn(d)
  <2>1. CASE ClaimableTurn(t, r)
    <3>1. [attempt[t] EXCEPT !.holder = r, !.lapsed = FALSE] \in AttemptRow
      BY <1>1 DEF AttemptRow
    <3>2. attempt' = [attempt EXCEPT ![t] = [attempt[t] EXCEPT !.holder = r, !.lapsed = FALSE]]
      BY <1>1, <1>4, <2>1 DEF ClaimTurn
    <3>3. Claimed(t, r)
      BY <1>1, <2>1, <3>1, <3>2, RowWritten DEF Claimed, KeptBut, AttemptRow
    <3>4. QED
      BY <1>4, <3>3 DEF Moves
  <2>2. CASE ~ClaimableTurn(t, r)
    BY <1>2, <1>4, <2>2 DEF ClaimTurn
  <2>3. QED
    BY <2>1, <2>2
<1>5. CASE Settle(d)
  <2>1. CASE Action[r] = "continue"
    <3>1. [attempt[t] EXCEPT !.completed = FALSE] \in AttemptRow
      BY <1>1 DEF AttemptRow
    <3>2. attempt' = [attempt EXCEPT ![t] = [attempt[t] EXCEPT !.completed = FALSE]]
      BY <1>1, <1>5, <2>1 DEF Settle
    <3>3. Kept(t) /\ \A u \in Turns \ {t} : Kept(u)
      BY <1>1, <3>1, <3>2, RowWritten DEF Kept, SameClaim, AttemptRow
    <3>4. QED
      BY <3>3 DEF Moves
  <2>2. CASE Action[r] # "continue"
    BY <1>1, <1>5, <2>2, MovesOfClosed DEF Settle
  <2>3. QED
    BY <2>1, <2>2
<1>6. CASE Tidy(d)
  <2>1. attempt' = [attempt EXCEPT ![t] = IF attempt[t].completed THEN attempt[t]
                                          ELSE Closed(attempt[t], "close")]
    BY <1>1, <1>6 DEF Tidy
  <2>2. CASE attempt[t].completed
    BY <1>1, <1>2, <2>1, <2>2
  <2>3. CASE ~attempt[t].completed
    BY <1>1, <2>1, <2>3, MovesOfClosed
  <2>4. QED
    BY <2>2, <2>3
<1>7. CASE MarkNotified(d)
  <2>1. [attempt[t] EXCEPT !.notified = TRUE] \in AttemptRow
    BY <1>1 DEF AttemptRow
  <2>2. attempt' = [attempt EXCEPT ![t] = [attempt[t] EXCEPT !.notified = TRUE]]
    BY <1>1, <1>7 DEF MarkNotified
  <2>3. Kept(t) /\ \A u \in Turns \ {t} : Kept(u)
    BY <1>1, <2>1, <2>2, RowWritten DEF Kept, SameClaim, AttemptRow
  <2>4. QED
    BY <2>3 DEF Moves
<1>8. QED
  BY <1>2, <1>3, <1>4, <1>5, <1>6, <1>7, BreakStep
     DEF Handler, SlackCall, ClaimReply, Resolve, CheckTurn, PostReply, PostSuppressed,
         PostRefused, PostUnknown, PostBreaks, PostNotice, NoticeRefused, Record,
         RecordUnknown, Fail, CompleteTurn, ClaimNotice, NoticeFails, RecordNotice

LEMMA MovesOfStep == Typed /\ [Next]_vars => Moves
<1> SUFFICES ASSUME Typed, [Next]_vars PROVE Moves
  OBVIOUS
<1>1. attempt \in [Turns -> AttemptRow]
  BY DEF Typed, TypeOK, TablesOK
<1>2. CASE attempt' = attempt
  BY <1>2 DEF Moves, Kept, SameClaim
<1>3. ASSUME NEW t \in Turns, StartTurn(t)
      PROVE  Moves
  <2>1. [attempt[t] EXCEPT !.opened = TRUE] \in AttemptRow
    BY <1>1 DEF AttemptRow
  <2>2. attempt' = [attempt EXCEPT ![t] = [attempt[t] EXCEPT !.opened = TRUE]]
    BY <1>1, <1>3 DEF StartTurn
  <2>3. Kept(t) /\ \A u \in Turns \ {t} : Kept(u)
    BY <1>1, <2>1, <2>2, RowWritten DEF Kept, SameClaim, AttemptRow
  <2>4. QED
    BY <2>3 DEF Moves
<1>4. CASE Finalize
  <2>1. control.action \in {"close", "cancelled", "stopped"}
    BY <1>4 DEF Finalize, Typed, TypeOK, ProcessesOK, ControlRow, EndingsNamed
  <2>2. QED
    BY <1>4, <2>1, MovesOfFinalized DEF Finalize, Moves
<1>5. CASE Restart
  BY <1>2, <1>5, MovesOfFinalized DEF Restart, Moves
<1>6. CASE LeaseEnds
  <2>1. ASSUME NEW t \in Turns, attempt[t].holder # NoRequest,
               attempt' = [attempt EXCEPT ![t] = [attempt[t] EXCEPT !.lapsed = TRUE]]
        PROVE  Moves
    <3>1. [attempt[t] EXCEPT !.lapsed = TRUE] \in AttemptRow
      BY <1>1 DEF AttemptRow
    <3>2. RanOut(t)
      BY <1>1, <2>1, <3>1, RowWritten DEF RanOut, KeptBut, AttemptRow
    <3>3. QED
      BY <3>2 DEF Moves
  <2>2. QED
    BY <1>1, <1>2, <1>6, <2>1 DEF LeaseEnds
<1>7. QED
  BY <1>2, <1>3, <1>4, <1>5, <1>6, MovesOfHandler
     DEF Next, Command, RunCommand, SendRequest, GiveUpWaiting, Ending, Outside, MoveToEnd,
         BeginEnding, vars, state

LEMMA EndKept ==
    ASSUME Moves, NEW t \in Turns, attempt[t].action # "none"
    PROVE  attempt'[t].action # "none"
BY DEF Moves, Ended, Kept, KeptBut, Returned, RanOut, Claimed

LEMMA HandlerLeaves ==
    ASSUME Typed, NEW e \in Deliveries, NEW d \in Deliveries, Handler(e), e # d
    PROVE  thread'[d] = thread[d]
<1>1. \/ \E where \in Places : Goto(e, where)
      \/ \E retry \in BOOLEAN : \E answer \in {"ok", "again", "no"} : FailWith(e, retry, answer)
      \/ \E answer : Answer(e, answer)
      \/ \E x : thread' = [thread EXCEPT ![e] = x]
  BY DEF Handler, SlackCall, ClaimReply, Resolve, CheckTurn, ClaimTurn, PostReply,
         PostSuppressed, PostRefused, PostUnknown, PostBreaks, PostNotice, NoticeRefused,
         Record, RecordUnknown, Release, Fail, Settle, Unclaim, CompleteTurn, Tidy,
         ClaimNotice, NoticeFails, RecordNotice, MarkNotified, HandlerBreaks, Goto, FailWith,
         Answer
<1>2. QED
  BY <1>1 DEF Goto, FailWith, Answer, Typed, TypeOK, ProcessesOK

\* Only its own handler takes a delivery beyond its first place.
LEMMA OwnSteps ==
    ASSUME Typed, [Next]_vars, NEW d \in Deliveries, thread'[d] # thread[d]
    PROVE  Handler(d) \/ thread'[d].at \in {"off", "claim", "resolve"}
<1>1. ASSUME NEW e \in Deliveries, Handler(e), e # d
      PROVE  FALSE
  BY <1>1, HandlerLeaves
<1>2. ASSUME NEW r \in Requests, Command(r)
      PROVE  thread'[d].at \in {"claim", "resolve"}
  <2>1. SendRequest(r)
    BY <1>2 DEF Command, RunCommand, GiveUpWaiting
  <2>2. \E where \in {"claim", "resolve"} : Goto(<<r, script[r].last + 1>>, where)
    BY <2>1 DEF SendRequest
  <2>3. QED
    BY <2>2 DEF Goto, Off, Typed, TypeOK, ProcessesOK
<1>3. CASE Ending \/ Outside
  BY <1>3 DEF Ending, Outside, MoveToEnd, Finalize, StartTurn, BeginEnding, Restart, LeaseEnds,
              Off
<1>4. QED
  BY <1>1, <1>2, <1>3 DEF Next, vars, state

\* A text comes to be posted by a claim on its turn and no other way.
LEMMA PostComes ==
    ASSUME Typed, [Next]_vars, NEW d \in Deliveries, d[1] \in Texts,
           thread'[d].at = "post", thread[d].at # "post"
    PROVE  ClaimTurn(d) /\ ClaimableTurn(TurnOf[d[1]], d[1])
<1>1. Handler(d) /\ Action[d[1]] # "reaction"
  BY OwnSteps DEF Texts
<1>2. ~Quiet(d) => thread'[d].at # "post"
  BY <1>1, Onward DEF Handler, SlackCall, Quiet, ClaimReply, PostReply, PostRefused, PostUnknown,
                 PostBreaks, Record, RecordUnknown, Fail, Places
<1>3. Quiet(d) => Resolve(d) \/ CheckTurn(d) \/ ClaimTurn(d)
  <2>1. PostSuppressed(d) \/ Release(d) \/ Settle(d) => thread'[d].at \in {"record", "fail", "unclaim", "complete"}
    BY Onward DEF PostSuppressed, Release, Settle, Places
  <2>2. Unclaim(d) \/ CompleteTurn(d) \/ Tidy(d) => thread'[d].at \in {"tidy", "off"}
    BY Onward DEF Unclaim, CompleteTurn, Tidy, Places
  <2>3. ClaimNotice(d) \/ PostNotice(d) \/ NoticeRefused(d)
        => thread'[d].at \in {"notice_post", "fail", "notice_record", "notice_fail"}
    BY Onward DEF ClaimNotice, PostNotice, NoticeRefused, Places
  <2>4. NoticeFails(d) \/ MarkNotified(d) => thread'[d].at = "fail"
    BY Onward DEF NoticeFails, MarkNotified
  <2>5. RecordNotice(d) => thread'[d].at = "notice_mark"
    BY Onward DEF RecordNotice, Places
  <2>7. HandlerBreaks(d) => thread'[d].at = "off"
    BY BreakStep
  <2>6. QED
    BY <2>1, <2>2, <2>3, <2>4, <2>5, <2>7 DEF Quiet
<1>4. ~Resolve(d)
  <2>1. Resolve(d) => thread'[d].at \in {"check", "fail", "off"}
    BY Onward DEF Resolve, Off, Typed, TypeOK, ProcessesOK
  <2>2. QED
    BY <2>1
<1>5. ~CheckTurn(d)
  <2>1. CheckTurn(d) => thread'[d].at \in {"turn", "fail", "off", "notice"}
    BY <1>1, Onward DEF CheckTurn, Places
  <2>2. QED
    BY <2>1
<1>6. ClaimTurn(d) /\ ~ClaimableTurn(TurnOf[d[1]], d[1]) => thread'[d].at = "fail"
  BY Onward DEF ClaimTurn
<1>7. QED
  BY <1>2, <1>3, <1>4, <1>5, <1>6

\* What ends a turn ends it for good: no post begins on it any more.
THEOREM EndIsFinal == Spec => NoPostAfterTheEnd
<1> DEFINE Final(d) ==
        attempt[TurnOf[d[1]]].action # "none" /\ d[1] \in Texts
        => /\ attempt'[TurnOf[d[1]]].action # "none"
           /\ thread'[d].at = "post" => thread[d].at = "post"
<1>1. ASSUME Typed, [Next]_vars, NEW d \in Deliveries
      PROVE  Final(d)
  <2>1. Moves /\ TurnOf[d[1]] \in Turns
    BY <1>1, MovesOfStep, DeliveryType
  <2>2. QED
    BY <1>1, <2>1, EndKept, PostComes DEF ClaimableTurn
<1>2. Typed /\ [Next]_vars => [\A d \in Deliveries : Final(d)]_vars
  BY <1>1
<1>3. Spec => [][\A d \in Deliveries : Final(d)]_vars
  BY <1>2, TypedInit, TypedStep, PTL DEF Spec
<1>4. QED
  BY <1>3 DEF NoPostAfterTheEnd

\* Only a claim that is held runs out.
LapsedIsHeld == \A t \in Turns : attempt[t].lapsed => attempt[t].holder # NoRequest

LEMMA LapsedStep == Typed /\ LapsedIsHeld /\ [Next]_vars => LapsedIsHeld'
<1> SUFFICES ASSUME Typed, LapsedIsHeld, Moves, NEW t \in Turns, attempt'[t].lapsed
             PROVE  attempt'[t].holder # NoRequest
  BY MovesOfStep DEF LapsedIsHeld
<1>1. SameClaim(t) \/ NoClaim(t) => attempt'[t].holder # NoRequest
  BY DEF LapsedIsHeld, SameClaim, NoClaim
<1>2. CASE \E d \in Deliveries : Claimed(TurnOf[d[1]], d[1])
  BY <1>1, <1>2 DEF Claimed, KeptBut, Kept
<1>3. CASE \E u \in Turns : RanOut(u) \/ Returned(u)
  BY <1>1, <1>3 DEF RanOut, Returned, KeptBut, Kept
<1>4. CASE Ended \/ \A u \in Turns : Kept(u)
  BY <1>1, <1>4 DEF Ended, Kept
<1>5. QED
  BY <1>2, <1>3, <1>4, DeliveryType DEF Moves

own == [t \in Turns |-> attempt[t].holder]
ran == {t \in Turns : attempt[t].lapsed}
over == {t \in Turns : attempt[t].action # "none"}

\* The claim on a turn is the lock it is meant to be: taken when it is free, the holder's
\* own or run out, and never on a turn that has ended.
THEOREM ClaimIsLease == Spec => TurnClaimIsLease
<1>1. Init => Lock!Init /\ LapsedIsHeld
  BY DEF Init, NoAttempt, Lock!Init, LapsedIsHeld
<1>2. ASSUME Typed, LapsedIsHeld, LapsedIsHeld', Typed', Moves
      PROVE  [Lock!Next]_(Lock!lvars)
  <2>1. /\ \A t \in Turns : /\ own[t] = attempt[t].holder /\ own'[t] = attempt'[t].holder
                            /\ own[t] \in Requests \cup {NoRequest}
                            /\ own'[t] \in Requests \cup {NoRequest}
        /\ own = [t \in Turns |-> own[t]] /\ own' = [t \in Turns |-> own'[t]]
    BY <1>2 DEF own, Typed, TypeOK, TablesOK, AttemptRow
  <2>2. \A t \in Turns : /\ t \in ran <=> attempt[t].lapsed
                         /\ t \in ran' <=> attempt'[t].lapsed
                         /\ t \in over <=> attempt[t].action # "none"
                         /\ t \in over' <=> attempt'[t].action # "none"
    BY DEF ran, over
  <2>3. ran \subseteq Turns /\ ran' \subseteq Turns /\ over \subseteq Turns /\ over' \subseteq Turns
    BY DEF ran, over
  <2>4. CASE \A u \in Turns : Kept(u)
    <3>1. own' = own /\ ran' = ran /\ over' = over
      BY <2>1, <2>2, <2>3, <2>4 DEF Kept, SameClaim
    <3>2. QED
      BY <3>1 DEF own, ran, over, Lock!lvars
  <2>5. ASSUME NEW t \in Turns, Returned(t)
        PROVE  Lock!Next
    <3>1. own' = [own EXCEPT ![t] = NoRequest]
      BY <2>1, <2>5 DEF Returned, NoClaim, KeptBut, Kept, SameClaim
    <3>2. ran' = ran \ {t} /\ over' = over
      BY <2>2, <2>3, <2>5 DEF Returned, NoClaim, KeptBut, Kept, SameClaim
    <3>3. Lock!Unlock(t)
      BY <3>1, <3>2 DEF own, ran, over, Lock!Unlock
    <3>4. QED
      BY <3>3 DEF Lock!Next
  <2>6. ASSUME NEW t \in Turns, RanOut(t)
        PROVE  Lock!Next
    <3>1. own[t] # NoRequest /\ own' = own
      BY <2>1, <2>6 DEF RanOut, KeptBut, Kept, SameClaim
    <3>2. ran' = ran \cup {t} /\ over' = over
      BY <2>2, <2>3, <2>6 DEF RanOut, KeptBut, Kept, SameClaim
    <3>3. Lock!Lapse(t)
      BY <3>1, <3>2 DEF own, ran, over, Lock!Lapse
    <3>4. QED
      BY <3>3 DEF Lock!Next
  <2>7. ASSUME NEW t \in Turns, NEW r \in Requests, Claimed(t, r)
        PROVE  Lock!Next
    <3>1. t \notin over /\ (own[t] \in {NoRequest, r} \/ t \in ran)
      BY <2>1, <2>2, <2>7 DEF Claimed, ClaimableTurn
    <3>2. own' = [own EXCEPT ![t] = r]
      BY <2>1, <2>7 DEF Claimed, KeptBut, Kept, SameClaim
    <3>3. ran' = ran \ {t} /\ over' = over
      BY <2>2, <2>3, <2>7 DEF Claimed, KeptBut, Kept, SameClaim
    <3>4. Lock!Lock(t, r)
      BY <3>1, <3>2, <3>3 DEF own, ran, over, Lock!Lock
    <3>5. QED
      BY <3>4 DEF Lock!Next
  <2>8. CASE Ended
    <3>1. \A u \in Turns : own'[u] = own[u] \/ (u \in over' /\ own'[u] = NoRequest)
      BY <2>1, <2>2, <2>8 DEF Ended, Kept, SameClaim, NoClaim
    <3>2. over' = over \cup over'
      BY <2>2, <2>3, <2>8 DEF Ended, Kept
    <3>3. ran' = {u \in ran : own'[u] # NoRequest}
      <4>1. \A u \in Turns : u \in ran' <=> u \in ran /\ own'[u] # NoRequest
        <5>1. ASSUME NEW u \in Turns
              PROVE  attempt'[u].lapsed <=> attempt[u].lapsed /\ attempt'[u].holder # NoRequest
          <6>1. attempt[u].lapsed \in BOOLEAN /\ attempt'[u].lapsed \in BOOLEAN
            BY <1>2 DEF Typed, TypeOK, TablesOK, AttemptRow
          <6>2. SameClaim(u) \/ NoClaim(u)
            BY <2>8 DEF Ended, Kept
          <6>3. QED
            BY <1>2, <6>1, <6>2 DEF SameClaim, NoClaim, LapsedIsHeld
        <5>2. QED
          BY <2>1, <2>2, <5>1
      <4>2. QED
        BY <2>3, <4>1
    <3>4. own' \in [Turns -> Requests \cup {NoRequest}]
      BY <2>1
    <3>5. PICK X \in SUBSET Turns : X = over'
      BY <2>3
    <3>6. Lock!Retire(X)
      BY <3>1, <3>2, <3>3, <3>4, <3>5 DEF own, ran, over, Lock!Retire
    <3>7. QED
      BY <3>6 DEF Lock!Next
  <2>9. QED
    BY <1>2, <2>4, <2>5, <2>6, <2>7, <2>8, DeliveryType DEF Moves
<1>3. Typed /\ LapsedIsHeld /\ [Next]_vars => (Typed /\ LapsedIsHeld)' /\ [Lock!Next]_(Lock!lvars)
  BY <1>2, TypedStep, LapsedStep, MovesOfStep
<1>4. QED
  BY <1>1, <1>3, TypedInit, PTL DEF Spec, TurnClaimIsLease, Lock!Spec

-----------------------------------------------------------------------------
(* The discard notice of a cancelled turn: its row of the ledger is shared by   *)
(* all requests of the turn, and an unknown delivery counts as failed.          *)


\* A thread that may still show the notice, or give its row back for another try.
ShowsNotice(th) == th.at \in {"notice_post", "notice_fail"}

Showing(t) == {d \in Deliveries : TurnOf[d[1]] = t /\ ShowsNotice(thread[d])}

\* The account of the notice of a turn, as that of a text (see OnceEach); no more than
\* finitely many threads are at work.
NoticeEach ==
    \A t \in Turns :
        /\ IsFiniteSet(Showing(t))
        /\ shown[t] + Cardinality(Showing(t)) + One(Free(notice[t]))
           <= 1 + retakes[t] + blind[t]

LEMMA ShowingStep ==
    ASSUME NEW d \in Deliveries, \A e \in Deliveries \ {d} : thread'[e] = thread[e],
           NEW t \in Turns, IsFiniteSet(Showing(t))
    PROVE  /\ IsFiniteSet(Showing(t)')
           /\ TurnOf[d[1]] # t => Showing(t)' = Showing(t)
           /\ TurnOf[d[1]] = t =>
                 Cardinality(Showing(t)') + One(ShowsNotice(thread[d]))
                 = Cardinality(Showing(t)) + One(ShowsNotice(thread'[d]))
<1> DEFINE S == Showing(t)
<1>1. \A e \in Deliveries : e # d => (e \in S' <=> e \in S)
  BY DEF Showing
<1>2. S \subseteq Deliveries /\ S' \subseteq Deliveries
  BY DEF Showing
<1>3. CASE TurnOf[d[1]] # t
  <2>1. d \notin S /\ d \notin S'
    BY <1>3 DEF Showing
  <2> HIDE DEF S
  <2>2. S' = S
    BY <1>1, <1>2, <2>1
  <2>3. QED
    BY <1>3, <2>2 DEF S
<1>4. CASE TurnOf[d[1]] = t
  <2>1. (d \in S <=> ShowsNotice(thread[d])) /\ (d \in S' <=> ShowsNotice(thread'[d]))
    BY <1>4 DEF Showing
  <2>2. IsFiniteSet(S) /\ Cardinality(S) \in Nat
    BY FS_CardinalityType
  <2> HIDE DEF S
  <2>3. CASE d \in S /\ d \notin S'
    <3>1. S' = S \ {d}
      BY <1>1, <1>2, <2>3
    <3>2. IsFiniteSet(S') /\ Cardinality(S') = Cardinality(S) - 1
      BY <2>2, <2>3, <3>1, FS_RemoveElement
    <3>3. QED
      BY <1>4, <2>1, <2>2, <2>3, <3>2 DEF One, S
  <2>4. CASE d \notin S /\ d \in S'
    <3>1. S' = S \cup {d}
      BY <1>1, <1>2, <2>4
    <3>2. IsFiniteSet(S') /\ Cardinality(S') = Cardinality(S) + 1
      BY <2>2, <2>4, <3>1, FS_AddElement
    <3>3. QED
      BY <1>4, <2>1, <2>2, <2>4, <3>2 DEF One, S
  <2>5. CASE d \in S <=> d \in S'
    <3>1. \A e \in Deliveries : e \in S' <=> e \in S
      BY <1>1, <2>5
    <3>2. S' = S
      BY <1>2, <3>1
    <3>3. One(ShowsNotice(thread[d])) = One(ShowsNotice(thread'[d]))
      BY <2>1, <2>5 DEF One
    <3>4. One(ShowsNotice(thread[d])) \in Nat
      BY DEF One
    <3>5. QED
      BY <1>4, <2>2, <3>2, <3>3, <3>4 DEF S
  <2>6. QED
    BY <2>3, <2>4, <2>5
<1>5. QED
  BY <1>3, <1>4

\* A step of one thread keeps the account if it keeps that of its own turn.
LEMMA NoticeKept ==
    ASSUME Typed, Typed', NoticeEach, NEW d \in Deliveries,
           \A e \in Deliveries \ {d} : thread'[e] = thread[e],
           NEW u \in Turns, u = TurnOf[d[1]],
           \A t \in Turns \ {u} : /\ shown'[t] = shown[t] /\ retakes'[t] = retakes[t]
                                  /\ blind'[t] = blind[t] /\ notice'[t] = notice[t],
           shown'[u] + One(ShowsNotice(thread'[d])) + One(Free(notice'[u])) + retakes[u] + blind[u]
           <= shown[u] + One(ShowsNotice(thread[d])) + One(Free(notice[u])) + retakes'[u] + blind'[u]
    PROVE  NoticeEach'
<1>1. /\ shown \in [Turns -> Nat] /\ shown' \in [Turns -> Nat]
      /\ retakes \in [Turns -> Nat] /\ retakes' \in [Turns -> Nat]
      /\ blind \in [Turns -> Nat] /\ blind' \in [Turns -> Nat]
  BY DEF Typed, TypeOK, HistoryOK
<1>2. \A b : One(b) \in {0, 1}
  BY DEF One
<1>3. \A t \in Turns : IsFiniteSet(Showing(t)) /\ IsFiniteSet(Showing(t)')
  BY ShowingStep DEF NoticeEach
<1>4. ASSUME NEW t \in Turns, t # u
      PROVE  shown'[t] + Cardinality(Showing(t)') + One(Free(notice'[t]))
             <= 1 + retakes'[t] + blind'[t]
  <2>1. Showing(t)' = Showing(t)
    BY <1>3, <1>4, ShowingStep
  <2>2. QED
    BY <1>4, <2>1 DEF NoticeEach
<1>5. shown'[u] + Cardinality(Showing(u)') + One(Free(notice'[u])) <= 1 + retakes'[u] + blind'[u]
  <2> DEFINE p == shown[u]
             pp == shown'[u]
             n == retakes[u] + blind[u]
             nn == retakes'[u] + blind'[u]
             c == Cardinality(Showing(u))
             cc == Cardinality(Showing(u)')
             i == One(ShowsNotice(thread[d]))
             ii == One(ShowsNotice(thread'[d]))
             f == One(Free(notice[u]))
             ff == One(Free(notice'[u]))
  <2>1. p \in Nat /\ pp \in Nat /\ n \in Nat /\ nn \in Nat
    BY <1>1
  <2>2. c \in Nat /\ cc \in Nat
    BY <1>3, FS_CardinalityType
  <2>3. i \in {0, 1} /\ ii \in {0, 1} /\ f \in {0, 1} /\ ff \in {0, 1}
    BY <1>2
  <2>4. cc + i = c + ii
    BY <1>3, ShowingStep
  <2>5. p + c + f <= 1 + n
    <3>1. p + c + f <= 1 + retakes[u] + blind[u]
      BY DEF NoticeEach
    <3>2. QED
      BY <1>1, <2>1, <2>2, <2>3, <3>1
  <2>6. pp + ii + ff + n <= p + i + f + nn
    BY <1>1, <2>1, <2>3
  <2>7. pp + cc + ff <= 1 + nn
    <3> HIDE DEF p, pp, n, nn, c, cc, i, ii, f, ff
    <3>1. QED
      BY <2>1, <2>2, <2>3, <2>4, <2>5, <2>6
  <2>8. QED
    BY <1>1, <2>2, <2>3, <2>7
<1>6. QED
  BY <1>3, <1>4, <1>5 DEF NoticeEach

\* The steps that are not about the notice.
OffNotice(d) ==
    \/ ClaimReply(d) \/ Resolve(d) \/ CheckTurn(d) \/ ClaimTurn(d) \/ PostReply(d)
    \/ PostSuppressed(d) \/ PostRefused(d) \/ PostUnknown(d) \/ PostBreaks(d) \/ Record(d)
    \/ RecordUnknown(d) \/ Release(d) \/ Fail(d) \/ Settle(d) \/ Unclaim(d)
    \/ CompleteTurn(d) \/ Tidy(d) \/ MarkNotified(d) \/ HandlerBreaks(d)

LEMMA OffNoticeStep ==
    ASSUME Typed, NEW d \in Deliveries, OffNotice(d)
    PROVE  /\ UNCHANGED <<shown, retakes, blind, notice>>
           /\ \A e \in Deliveries \ {d} : thread'[e] = thread[e]
           /\ ~ShowsNotice(thread'[d])
<1>1. CASE Resolve(d)
  <2>1. \A e \in Deliveries \ {d} : thread'[e] = thread[e]
    BY <1>1, Onward DEF Resolve, Typed, TypeOK, ProcessesOK
  <2>2. thread'[d].at \in {"check", "off", "fail"}
    <3>1. CASE session.status # "killed"
      <4>1. thread' = [thread EXCEPT ![d] = [Off EXCEPT !.at = "check", !.seen = session]]
        BY <1>1, <3>1 DEF Resolve
      <4>2. [Off EXCEPT !.at = "check", !.seen = session].at = "check"
        BY DEF Off
      <4>3. QED
        BY <4>1, <4>2 DEF Typed, TypeOK, ProcessesOK
    <3>2. CASE session.status = "killed"
      BY <1>1, <3>2, Onward DEF Resolve
    <3>3. QED
      BY <3>1, <3>2
  <2>3. QED
    BY <1>1, <2>1, <2>2 DEF Resolve, ShowsNotice, history
<1>2. CASE CheckTurn(d)
  <2>1. /\ \A e \in Deliveries \ {d} : thread'[e] = thread[e]
        /\ thread'[d].at \in {"off", "fail", "post", "turn", "notice"}
    BY <1>2, Onward DEF CheckTurn, Places
  <2>2. QED
    BY <1>2, <2>1 DEF CheckTurn, ShowsNotice, history
<1>3. CASE ClaimReply(d) \/ ClaimTurn(d)
  <2>1. /\ \A e \in Deliveries \ {d} : thread'[e] = thread[e]
        /\ thread'[d].at \in {"resolve", "off", "post", "fail"}
    BY <1>3, Onward DEF ClaimReply, ClaimTurn, Places
  <2>2. QED
    BY <1>3, <2>1 DEF ClaimReply, ClaimTurn, ShowsNotice
<1>4. CASE PostReply(d) \/ PostSuppressed(d) \/ PostRefused(d) \/ PostUnknown(d) \/ PostBreaks(d)
  <2>1. /\ \A e \in Deliveries \ {d} : thread'[e] = thread[e]
        /\ thread'[d].at \in {"settle", "record", "release", "off", "record_unknown"}
    BY <1>4, Onward DEF PostReply, PostSuppressed, PostRefused, PostUnknown, PostBreaks, Places
  <2>2. QED
    BY <1>4, <2>1
       DEF PostReply, PostSuppressed, PostRefused, PostUnknown, PostBreaks, ShowsNotice
<1>5. CASE Record(d) \/ RecordUnknown(d) \/ Release(d) \/ Fail(d)
  <2>1. /\ \A e \in Deliveries \ {d} : thread'[e] = thread[e]
        /\ thread'[d].at \in {"settle", "fail", "off"}
    BY <1>5, Onward DEF Record, RecordUnknown, Release, Fail, Places
  <2>2. QED
    BY <1>5, <2>1 DEF Record, RecordUnknown, Release, Fail, ShowsNotice, history
<1>6. CASE Settle(d) \/ Unclaim(d) \/ CompleteTurn(d) \/ Tidy(d) \/ MarkNotified(d)
  <2>1. /\ \A e \in Deliveries \ {d} : thread'[e] = thread[e]
        /\ thread'[d].at \in {"unclaim", "complete", "tidy", "off", "fail"}
    BY <1>6, Onward DEF Settle, Unclaim, CompleteTurn, Tidy, MarkNotified, Places
  <2>2. QED
    BY <1>6, <2>1 DEF Settle, Unclaim, CompleteTurn, Tidy, MarkNotified, ShowsNotice, history
<1>8. CASE HandlerBreaks(d)
  BY <1>8, BreakStep DEF ShowsNotice
<1>7. QED
  BY <1>1, <1>2, <1>3, <1>4, <1>5, <1>6, <1>8 DEF OffNotice

LEMMA NoticeHandler ==
    ASSUME Typed, Typed', NoticeEach, NEW d \in Deliveries, Handler(d)
    PROVE  NoticeEach'
<1>1. PICK u \in Turns : u = TurnOf[d[1]]
  BY DeliveryType
<1>2. /\ shown \in [Turns -> Nat] /\ retakes \in [Turns -> Nat] /\ blind \in [Turns -> Nat]
      /\ notice \in [Turns -> Row] /\ notice[u] \in Row /\ d[1] \in Requests
  BY DeliveryType DEF Typed, TypeOK, HistoryOK, RowsOK
<1>3. \A b : One(b) \in {0, 1}
  BY DEF One
<1>4. CASE OffNotice(d)
  <2>1. One(ShowsNotice(thread'[d])) = 0
    BY <1>4, OffNoticeStep DEF One
  <2>2. QED
    BY <1>1, <1>2, <1>3, <1>4, <2>1, OffNoticeStep, NoticeKept
<1>5. CASE ClaimNotice(d)
  <2>1. /\ UNCHANGED <<shown, blind>> /\ \A e \in Deliveries \ {d} : thread'[e] = thread[e]
        /\ thread[d].at = "notice"
    BY <1>5, Onward DEF ClaimNotice, At, Places
  <2>2. \A t \in Turns \ {u} : retakes'[t] = retakes[t] /\ notice'[t] = notice[t]
    BY <1>1, <1>2, <1>5 DEF ClaimNotice
  <2>3. One(ShowsNotice(thread[d])) = 0
    BY <2>1 DEF ShowsNotice, One
  <2>4. CASE Claimable(notice[u], d[1])
    <3>1. notice'[u] = Received(d[1]) /\ retakes'[u] = retakes[u] + One(TakesOver(notice[u]))
      BY <1>1, <1>2, <1>5, <2>4 DEF ClaimNotice, One
    <3>2. One(Free(notice'[u])) = 0
      BY <1>2, <3>1, ReceivedType DEF Free, One
    <3>3. One(Free(notice[u])) + One(TakesOver(notice[u])) = 1
      BY <1>2, <2>4 DEF Claimable, Free, TakesOver, One, Row
    <3>4. QED
      BY <1>1, <1>2, <1>3, <2>1, <2>2, <2>3, <3>1, <3>2, <3>3, NoticeKept
  <2>5. CASE ~Claimable(notice[u], d[1])
    <3>1. UNCHANGED <<notice, retakes>> /\ thread'[d].at = "fail"
      BY <1>1, <1>5, <2>5, Onward DEF ClaimNotice
    <3>2. One(ShowsNotice(thread'[d])) = 0
      BY <3>1 DEF ShowsNotice, One
    <3>3. QED
      BY <1>1, <1>2, <1>3, <2>1, <2>3, <3>1, <3>2, NoticeKept
  <2>6. QED
    BY <2>4, <2>5
<1>6. CASE PostNotice(d)
  <2>1. /\ UNCHANGED <<retakes, blind, notice>> /\ thread[d].at = "notice_post"
        /\ \A e \in Deliveries \ {d} : thread'[e] = thread[e]
        /\ thread'[d].at = "notice_record"
    BY <1>6, Onward DEF PostNotice, At, Places
  <2>2. shown' = [shown EXCEPT ![u] = shown[u] + 1]
    BY <1>1, <1>6, PostOutcome DEF PostNotice, Shown
  <2>3. One(ShowsNotice(thread[d])) = 1 /\ One(ShowsNotice(thread'[d])) = 0
    BY <2>1 DEF ShowsNotice, One
  <2>4. shown'[u] = shown[u] + 1 /\ \A t \in Turns \ {u} : shown'[t] = shown[t]
    BY <1>2, <2>2
  <2>5. QED
    BY <1>1, <1>2, <1>3, <2>1, <2>3, <2>4, NoticeKept
<1>7. CASE NoticeRefused(d)
  <2>1. /\ UNCHANGED <<retakes, notice>> /\ thread[d].at = "notice_post"
        /\ \A e \in Deliveries \ {d} : thread'[e] = thread[e]
        /\ thread'[d].at = "notice_fail"
    BY <1>7, Onward DEF NoticeRefused, At, Places
  <2>2. One(ShowsNotice(thread[d])) = 1 /\ One(ShowsNotice(thread'[d])) = 1
    BY <2>1 DEF ShowsNotice, One
  <2>3. PICK o \in Posts : /\ shown' = [shown EXCEPT ![u] = shown[u] + o.times]
                           /\ \/ o.verdict = "refused" /\ UNCHANGED blind
                              \/ o.verdict = "unknown" /\ blind' = [blind EXCEPT ![u] = blind[u] + 1]
    BY <1>1, <1>7 DEF NoticeRefused, Shown
  <2>4. /\ \A t \in Turns \ {u} : shown'[t] = shown[t] /\ blind'[t] = blind[t]
        /\ shown'[u] + blind[u] <= shown[u] + blind'[u]
    <3>1. PICK n \in {0, 1} : n = o.times /\ (o.verdict = "refused" => n = 0)
      BY PostOutcome
    <3>2. shown' = [shown EXCEPT ![u] = shown[u] + n]
      BY <2>3, <3>1
    <3>3. CASE o.verdict = "refused" /\ UNCHANGED blind
      BY <1>2, <3>1, <3>2, <3>3
    <3>4. CASE blind' = [blind EXCEPT ![u] = blind[u] + 1]
      BY <1>2, <3>2, <3>4
    <3>5. QED
      BY <2>3, <3>3, <3>4
  <2>5. shown'[u] \in Nat /\ blind'[u] \in Nat
    BY DEF Typed, TypeOK, HistoryOK
  <2>6. QED
    BY <1>1, <1>2, <1>3, <2>1, <2>2, <2>4, <2>5, NoticeKept
<1>8. CASE NoticeFails(d) \/ RecordNotice(d)
  <2>1. /\ UNCHANGED <<shown, retakes, blind>>
        /\ \A e \in Deliveries \ {d} : thread'[e] = thread[e]
        /\ thread'[d].at \in {"fail", "notice_mark"}
        /\ \A t \in Turns \ {u} : notice'[t] = notice[t]
    BY <1>1, <1>2, <1>8, Onward DEF NoticeFails, RecordNotice, Places, history
  <2>2. One(ShowsNotice(thread'[d])) = 0
    BY <2>1 DEF ShowsNotice, One
  <2>3. Free(notice'[u]) => ShowsNotice(thread[d])
    <3>1. CASE NoticeFails(d)
      BY <3>1 DEF NoticeFails, At, ShowsNotice
    <3>2. CASE RecordNotice(d)
      <4>1. notice'[u] = Marked(notice[u], "posted")
        BY <1>1, <1>2, <3>2 DEF RecordNotice
      <4>2. QED
        BY <1>2, <4>1, MarkedType DEF Free
    <3>3. QED
      BY <1>8, <3>1, <3>2
  <2>4. One(Free(notice'[u])) <= One(ShowsNotice(thread[d]))
    BY <2>3 DEF One
  <2>5. QED
    BY <1>1, <1>2, <1>3, <2>1, <2>2, <2>4, NoticeKept
<1>9. QED
  BY <1>4, <1>5, <1>6, <1>7, <1>8 DEF Handler, SlackCall, OffNotice

LEMMA NoticeCommand ==
    ASSUME Typed, Typed', NoticeEach, NEW r \in Requests, Command(r)
    PROVE  NoticeEach'
<1>1. UNCHANGED <<shown, retakes, blind, notice>>
  BY DEF Command, RunCommand, SendRequest, GiveUpWaiting, history
<1>2. CASE thread' = thread
  BY <1>1, <1>2 DEF NoticeEach, Showing
<1>3. CASE SendRequest(r)
  <2> DEFINE where == IF Action[r] = "reaction" THEN "resolve" ELSE "claim"
  <2>1. where \in Places /\ Goto(<<r, script[r].last + 1>>, where)
    BY <1>3 DEF SendRequest, Places
  <2>2. ASSUME NEW d \in Deliveries, d = <<r, script[r].last + 1>>
        PROVE  NoticeEach'
    <3>1. PICK u \in Turns : u = TurnOf[d[1]]
      BY DeliveryType
    <3>2. /\ thread'[d].at = where
          /\ \A e \in Deliveries \ {d} : thread'[e] = thread[e]
      BY <2>1, <2>2, GotoStep
    <3>3. One(ShowsNotice(thread'[d])) = 0
      BY <3>2 DEF ShowsNotice, One
    <3>4. /\ shown[u] \in Nat /\ retakes[u] \in Nat /\ blind[u] \in Nat
          /\ One(ShowsNotice(thread[d])) \in {0, 1} /\ One(Free(notice[u])) \in {0, 1}
      BY DEF Typed, TypeOK, HistoryOK, One
    <3>5. QED
      BY <1>1, <3>1, <3>2, <3>3, <3>4, NoticeKept
  <2>3. CASE <<r, script[r].last + 1>> \notin Deliveries
    <3>1. thread' = thread
      BY <2>1, <2>3 DEF Goto, Typed, TypeOK, ProcessesOK
    <3>2. QED
      BY <1>2, <3>1
  <2>4. QED
    BY <2>2, <2>3
<1>4. QED
  BY <1>2, <1>3 DEF Command, RunCommand, GiveUpWaiting

LEMMA NoticeOutside ==
    ASSUME Typed, Typed', NoticeEach, Ending \/ Outside
    PROVE  NoticeEach'
<1>1. UNCHANGED <<shown, retakes, blind>>
  BY DEF Ending, Outside, MoveToEnd, Finalize, StartTurn, BeginEnding, Restart, LeaseEnds, history
<1>2. CASE Restart
  <2>1. notice' = notice /\ \A d \in Deliveries : thread'[d].at = "off"
    BY <1>2 DEF Restart, Off
  <2>2. ASSUME NEW t \in Turns
        PROVE  /\ IsFiniteSet(Showing(t)')
               /\ shown'[t] + Cardinality(Showing(t)') + One(Free(notice'[t]))
                  <= 1 + retakes'[t] + blind'[t]
    <3>1. Showing(t)' = {}
      BY <2>1 DEF Showing, ShowsNotice
    <3>2. IsFiniteSet(Showing(t)') /\ Cardinality(Showing(t)') = 0
      BY <3>1, FS_EmptySet
    <3>3. /\ shown[t] \in Nat /\ retakes[t] \in Nat /\ blind[t] \in Nat
          /\ One(Free(notice[t])) \in {0, 1}
      BY DEF Typed, TypeOK, HistoryOK, One
    <3>4. /\ Cardinality(Showing(t)) \in Nat
          /\ shown[t] + Cardinality(Showing(t)) + One(Free(notice[t]))
             <= 1 + retakes[t] + blind[t]
      BY FS_CardinalityType DEF NoticeEach
    <3>5. QED
      BY <1>1, <2>1, <3>2, <3>3, <3>4
  <2>3. QED
    BY <2>2 DEF NoticeEach
<1>3. CASE LeaseEnds
  <2>1. thread' = thread /\ \A t \in Turns : Showing(t)' = Showing(t)
    BY <1>3 DEF LeaseEnds, Showing
  <2>2. \A row \in Row : [row EXCEPT !.lapsed = TRUE].status = row.status
                         /\ [row EXCEPT !.lapsed = TRUE].retry = row.retry
    BY DEF Row
  <2>3. \A t \in Turns : notice'[t].status = notice[t].status
                         /\ notice'[t].retry = notice[t].retry
    <3>1. ASSUME NEW u \in Turns,
                 notice' = [notice EXCEPT ![u] = [notice[u] EXCEPT !.lapsed = TRUE]]
          PROVE  <2>3!:
      BY <2>2, <3>1 DEF Typed, TypeOK, RowsOK
    <3>2. QED
      BY <1>3, <3>1 DEF LeaseEnds
  <2>4. \A t \in Turns : One(Free(notice'[t])) = One(Free(notice[t]))
    BY <2>3 DEF Free
  <2>5. QED
    BY <1>1, <2>1, <2>4 DEF NoticeEach
<1>4. CASE UNCHANGED <<notice, thread>>
  BY <1>1, <1>4 DEF NoticeEach, Showing
<1>5. QED
  BY <1>2, <1>3, <1>4 DEF Ending, Outside, MoveToEnd, Finalize, StartTurn, BeginEnding

LEMMA NoticeInit == Init => NoticeEach
<1> SUFFICES ASSUME Init, NEW t \in Turns
             PROVE  /\ IsFiniteSet(Showing(t))
                    /\ shown[t] + Cardinality(Showing(t)) + One(Free(notice[t]))
                       <= 1 + retakes[t] + blind[t]
  BY DEF NoticeEach
<1>1. Showing(t) = {}
  BY DEF Init, Showing, ShowsNotice, Off
<1>2. IsFiniteSet(Showing(t)) /\ Cardinality(Showing(t)) = 0
  BY <1>1, FS_EmptySet
<1>3. shown[t] = 0 /\ retakes[t] = 0 /\ blind[t] = 0 /\ One(Free(notice[t])) = 1
  BY DEF Init, Free, NoRow, One
<1>4. QED
  BY <1>2, <1>3

LEMMA NoticeAnyStep == Typed /\ Typed' /\ NoticeEach /\ [Next]_vars => NoticeEach'
<1>1. CASE UNCHANGED vars
  BY <1>1 DEF vars, state, history, NoticeEach, Showing
<1>2. QED
  BY <1>1, NoticeHandler, NoticeCommand, NoticeOutside DEF Next

\* Whichever requests of a cancelled turn share the row of its discard notice, the notice
\* is shown a second time only after a takeover of the row, or after a call of which it is
\* not known whether Slack took it: once for each of them.
THEOREM NoticeSeldomTwice == Spec => []NoticeShownAgainOnlyBlindly
<1>1. Typed /\ NoticeEach => NoticeShownAgainOnlyBlindly
  <2> SUFFICES ASSUME Typed, NoticeEach, NEW t \in Turns
               PROVE  shown[t] <= 1 + retakes[t] + blind[t]
    BY DEF NoticeShownAgainOnlyBlindly
  <2>1. /\ shown[t] \in Nat /\ retakes[t] \in Nat /\ blind[t] \in Nat
        /\ One(Free(notice[t])) \in Nat
    BY DEF Typed, TypeOK, HistoryOK, One
  <2>2. /\ Cardinality(Showing(t)) \in Nat
        /\ shown[t] + Cardinality(Showing(t)) + One(Free(notice[t]))
           <= 1 + retakes[t] + blind[t]
    BY FS_CardinalityType DEF NoticeEach
  <2>3. QED
    BY <2>1, <2>2
<1>2. Typed /\ NoticeEach /\ [Next]_vars => (Typed /\ NoticeEach)'
  BY TypedStep, NoticeAnyStep
<1>3. Spec => [](Typed /\ NoticeEach)
  BY <1>2, TypedInit, NoticeInit, PTL DEF Spec
<1>4. QED
  BY <1>1, <1>3, PTL

-----------------------------------------------------------------------------
(* The answers of a turn *)

\* Only a note gives the turn back once it has been posted.
NotesUnclaim == \A d \in Deliveries : thread[d].at = "unclaim" => Action[d[1]] = "continue"

LEMMA NotesUnclaimStep == Typed /\ NotesUnclaim /\ [Next]_vars => NotesUnclaim'
<1> SUFFICES ASSUME Typed, NotesUnclaim, [Next]_vars, NEW d \in Deliveries,
                    thread'[d].at = "unclaim", thread'[d] # thread[d]
             PROVE  Action[d[1]] = "continue"
  BY DEF NotesUnclaim
<1>1. Handler(d)
  BY OwnSteps
<1>2. Quiet(d) \/ ClaimReply(d) \/ Record(d) \/ RecordUnknown(d) \/ Fail(d)
      \/ PostReply(d) \/ PostRefused(d) \/ PostUnknown(d) \/ PostBreaks(d)
  BY <1>1 DEF Handler, SlackCall, Quiet
<1>3. ~(ClaimReply(d) \/ Record(d) \/ RecordUnknown(d) \/ Fail(d))
  BY Onward DEF ClaimReply, Record, RecordUnknown, Fail, Places
<1>4. ~(PostReply(d) \/ PostRefused(d) \/ PostUnknown(d) \/ PostBreaks(d))
  BY Onward DEF PostReply, PostRefused, PostUnknown, PostBreaks, Places
<1>5. ~(Resolve(d) \/ ClaimTurn(d) \/ PostSuppressed(d) \/ Release(d))
  BY Onward DEF Resolve, ClaimTurn, PostSuppressed, Release, Off, Places, Typed, TypeOK, ProcessesOK
<1>6. ~CheckTurn(d)
  BY Onward DEF CheckTurn, Places
<1>7. ~(Unclaim(d) \/ CompleteTurn(d) \/ Tidy(d) \/ ClaimNotice(d))
  BY Onward DEF Unclaim, CompleteTurn, Tidy, ClaimNotice, Places
<1>8. ~(PostNotice(d) \/ NoticeRefused(d) \/ NoticeFails(d) \/ RecordNotice(d) \/ MarkNotified(d))
  BY Onward DEF PostNotice, NoticeRefused, NoticeFails, RecordNotice, MarkNotified, Places
<1>11. ~HandlerBreaks(d)
  BY BreakStep
<1>9. Settle(d)
  BY <1>2, <1>3, <1>4, <1>5, <1>6, <1>7, <1>8, <1>11 DEF Quiet
<1>10. QED
  BY <1>9, Onward DEF Settle, Places

\* The counts only grow, and a text only by a thread that was about to post it.
LEMMA Counts ==
    ASSUME Typed, [Next]_vars
    PROVE  /\ \A r \in Requests :
                 /\ takeovers[r] <= takeovers'[r]
                 /\ posts'[r] # posts[r]
                    => \E k \in 1..MaxDeliveries : thread[<<r, k>>].at = "post"
           /\ \A t \in Turns : steals[t] <= steals'[t]
<1>1. /\ posts \in [Requests -> Nat] /\ takeovers \in [Requests -> Nat]
      /\ steals \in [Turns -> Nat]
  BY DEF Typed, TypeOK, HistoryOK
<1>2. ASSUME NEW d \in Deliveries, Handler(d)
      PROVE  /\ \A r \in Requests : takeovers[r] <= takeovers'[r]
             /\ \A r \in Requests : posts'[r] # posts[r] => r = d[1] /\ thread[d].at = "post"
             /\ \A t \in Turns : steals[t] <= steals'[t]
  <2>1. CASE ClaimReply(d)
    <3>1. UNCHANGED <<posts, steals>>
      BY <2>1 DEF ClaimReply
    <3>2. takeovers' = takeovers \/ \E n \in {0, 1} : takeovers' = [takeovers EXCEPT ![d[1]] = takeovers[d[1]] + n]
      BY <1>1, <2>1, DeliveryType DEF ClaimReply
    <3>3. QED
      BY <1>1, <3>1, <3>2
  <2>2. CASE ClaimTurn(d)
    <3>1. UNCHANGED <<posts, takeovers>>
      BY <2>2 DEF ClaimTurn
    <3>2. steals' = steals \/ \E n \in {0, 1} : steals' = [steals EXCEPT ![TurnOf[d[1]]] = steals[TurnOf[d[1]]] + n]
      BY <1>1, <2>2, DeliveryType DEF ClaimTurn
    <3>3. QED
      BY <1>1, <3>1, <3>2
  <2>3. CASE PostReply(d) \/ PostRefused(d) \/ PostUnknown(d) \/ PostBreaks(d)
    <3>1. UNCHANGED <<takeovers, steals>> /\ thread[d].at = "post"
      BY <2>3 DEF PostReply, PostRefused, PostUnknown, PostBreaks, At
    <3>2. \A r \in Requests : r # d[1] => posts'[r] = posts[r]
      BY <1>1, <2>3 DEF PostReply, PostRefused, PostUnknown, PostBreaks, Reached
    <3>3. QED
      BY <1>1, <3>1, <3>2
  <2>4. CASE UNCHANGED <<takeovers, posts, steals>>
    BY <1>1, <2>4
  <2>5. QED
    BY <1>2, <2>1, <2>2, <2>3, <2>4
       DEF Handler, SlackCall, Resolve, CheckTurn, PostSuppressed, PostNotice, NoticeRefused,
           Record, RecordUnknown, Release, Fail, Settle, Unclaim, CompleteTurn, Tidy,
           ClaimNotice, NoticeFails, RecordNotice, MarkNotified, HandlerBreaks, history
<1>3. CASE UNCHANGED <<takeovers, posts, steals>>
  BY <1>1, <1>3
<1>4. CASE \E d \in Deliveries : Handler(d)
  BY <1>2, <1>4, DeliveryType
<1>5. (\E d \in Deliveries : Handler(d)) \/ UNCHANGED <<takeovers, posts, steals>>
  BY DEF Next, Command, RunCommand, SendRequest, GiveUpWaiting, Ending, Outside, MoveToEnd,
         Finalize, StartTurn, BeginEnding, Restart, LeaseEnds, vars, history
<1>6. QED
  BY <1>3, <1>4, <1>5

-----------------------------------------------------------------------------
(* One answer *)

Posting(r) == \E k \in 1..MaxDeliveries : thread[<<r, k>>].at = "post"

\* The final answers of a turn that are in Slack or on their way there.
Answers(t) == {r \in Requests : /\ TurnOf[r] = t /\ Action[r] = "done" /\ takeovers[r] = 0
                                /\ posts[r] > 0 \/ Posting(r)}

\* Until the turn has ended its answer holds the claim on it.
OneAnswer ==
    \A t \in Turns : steals[t] = 0 =>
        \A r \in Answers(t) : /\ \A s \in Answers(t) : s = r
                              /\ attempt[t].action = "none" => attempt[t].holder = r

LEMMA AnswerComes ==
    ASSUME Typed, [Next]_vars, NEW t \in Turns, NEW r \in Answers(t)', r \notin Answers(t)
    PROVE  \E d \in Deliveries :
              d[1] = r /\ TurnOf[r] = t /\ ClaimTurn(d) /\ ClaimableTurn(t, r)
<1>1. /\ r \in Texts /\ TurnOf[r] = t /\ Action[r] = "done" /\ r \in Requests
      /\ takeovers'[r] = 0 /\ (posts'[r] > 0 \/ Posting(r)')
  BY DEF Answers, Texts
<1>2. takeovers[r] = 0
  <2>1. takeovers[r] \in Nat /\ takeovers[r] <= takeovers'[r]
    BY <1>1, Counts DEF Typed, TypeOK, HistoryOK
  <2>2. QED
    BY <1>1, <2>1
<1>3. ~(posts[r] > 0) /\ ~Posting(r)
  BY <1>1, <1>2 DEF Answers
<1>4. Posting(r)'
  <2>1. posts[r] \in Nat
    BY <1>1 DEF Typed, TypeOK, HistoryOK
  <2>2. posts'[r] = posts[r]
    BY <1>1, <1>3, Counts DEF Posting
  <2>3. QED
    BY <1>1, <1>3, <2>1, <2>2
<1>5. PICK k \in 1..MaxDeliveries : thread'[<<r, k>>].at = "post"
  BY <1>4 DEF Posting
<1>6. PICK d \in Deliveries : d = <<r, k>> /\ d[1] = r
  <2>1. <<r, k>> \in Deliveries /\ <<r, k>>[1] = r
    BY <1>1, <1>5 DEF Deliveries
  <2>2. QED
    BY <2>1
<1>7. thread[d].at # "post" /\ thread'[d].at = "post"
  BY <1>3, <1>5, <1>6 DEF Posting
<1>8. QED
  BY <1>1, <1>6, <1>7, PostComes

LEMMA TwoElements ==
    ASSUME NEW j, NEW k, j # k
    PROVE  Cardinality({j, k}) = 2
<1>1. IsFiniteSet({j}) /\ Cardinality({j}) = 1 /\ k \notin {j}
  BY FS_Singleton
<1>2. Cardinality({j} \cup {k}) = Cardinality({j}) + 1
  BY <1>1, FS_AddElement
<1>3. {j} \cup {k} = {j, k}
  OBVIOUS
<1>4. QED
  BY <1>1, <1>2, <1>3

\* A thread whose post was refused is the only one that has its text in hand, and the
\* text is not in Slack.
LEMMA ReleasedIsNoAnswer ==
    ASSUME Typed, OnceEach, NEW d \in Deliveries, thread[d].at = "release"
    PROVE  \A t \in Turns : d[1] \notin Answers(t)
<1> SUFFICES ASSUME NEW t \in Turns, d[1] \in Answers(t)
             PROVE  FALSE
  OBVIOUS
<1> DEFINE r == d[1]
           k == d[2]
           S == Held(r)
<1>1. r \in Requests /\ r \in Texts /\ takeovers[r] = 0 /\ (posts[r] > 0 \/ Posting(r))
  BY DEF Answers, Texts
<1>2. k \in S
  BY DeliveryType DEF Held, InHand
<1>3. posts[r] \in Nat /\ IsFiniteSet(S) /\ Cardinality(S) \in Nat
      /\ One(Free(reply[r])) \in Nat
  BY <1>1, HeldType DEF Typed, TypeOK, HistoryOK, One
<1>4. posts[r] + Cardinality(S) <= 1
  <2>1. posts[r] + Cardinality(S) + One(Free(reply[r])) <= 1
    BY <1>1, <1>3 DEF OnceEach
  <2> HIDE DEF S
  <2>2. QED
    BY <1>3, <2>1
<1>5. Cardinality(S) >= 1
  <2>1. S # {} /\ (Cardinality(S) = 0 <=> S = {})
    BY <1>2, <1>3, FS_EmptySet
  <2> HIDE DEF S
  <2>2. QED
    BY <1>3, <2>1
<1>6. PICK j \in 1..MaxDeliveries : thread[<<r, j>>].at = "post"
  <2>1. ~(posts[r] > 0)
    BY <1>3, <1>4, <1>5
  <2>2. QED
    BY <1>1, <2>1 DEF Posting
<1>7. j \in S /\ j # k
  BY <1>6, DeliveryType DEF Held, InHand
<1>8. Cardinality({j, k}) = 2
  BY <1>7, TwoElements
<1>9. Cardinality({j, k}) <= Cardinality(S)
  BY <1>2, <1>3, <1>7, FS_Subset
<1>10. QED
  BY <1>3, <1>4, <1>8, <1>9

LEMMA OneAnswerStep ==
    Typed /\ OnceEach /\ NotesUnclaim /\ OneAnswer /\ [Next]_vars => OneAnswer'
<1> SUFFICES ASSUME Typed, OnceEach, NotesUnclaim, OneAnswer, [Next]_vars,
                    NEW t \in Turns, steals'[t] = 0, NEW r \in Answers(t)'
             PROVE  /\ \A s \in Answers(t)' : s = r
                    /\ attempt'[t].action = "none" => attempt'[t].holder = r
  BY DEF OneAnswer
<1>1. steals[t] = 0
  <2>1. steals[t] \in Nat /\ steals[t] <= steals'[t]
    BY Counts DEF Typed, TypeOK, HistoryOK
  <2>2. QED
    BY <2>1
<1>2. \A s \in Answers(t) : /\ \A q \in Answers(t) : q = s
                            /\ attempt[t].action = "none" => attempt[t].holder = s
  BY <1>1 DEF OneAnswer
<1>3. CASE \E d \in Deliveries : ClaimTurn(d) /\ ClaimableTurn(t, d[1]) /\ TurnOf[d[1]] = t
  <2>1. PICK d \in Deliveries : ClaimTurn(d) /\ ClaimableTurn(t, d[1]) /\ TurnOf[d[1]] = t
    BY <1>3
  <2>2. \A e \in Deliveries : ClaimTurn(e) => e = d
    <3>1. ASSUME NEW e \in Deliveries, ClaimTurn(e), e # d
          PROVE  FALSE
      <4>1. thread[e].at = "turn" /\ thread'[e].at \in {"post", "fail"}
        BY <3>1, Onward DEF ClaimTurn, At, Places
      <4>2. thread'[e] = thread[e]
        BY <2>1, <3>1, Onward DEF ClaimTurn, Places
      <4>3. QED
        BY <4>1, <4>2
    <3>2. QED
      BY <3>1
  <2>3. attempt'[t].holder = d[1] /\ attempt[t].action = "none"
    <3>1. attempt \in [Turns -> AttemptRow] /\ attempt[t] \in AttemptRow
      BY DEF Typed, TypeOK, TablesOK
    <3>2. attempt' = [attempt EXCEPT ![t] = [attempt[t] EXCEPT !.holder = d[1], !.lapsed = FALSE]]
      BY <2>1, <3>1 DEF ClaimTurn
    <3>3. attempt[t].action = "none"
      BY <2>1 DEF ClaimableTurn
    <3>4. QED
      BY <3>1, <3>2, <3>3 DEF AttemptRow
  <2>4. \A s \in Answers(t) : s = d[1]
    <3>1. ASSUME NEW s \in Answers(t), s # d[1]
          PROVE  FALSE
      <4>1. attempt[t].holder = s /\ s # NoRequest
        <5>1. s \in Requests /\ NoRequest \notin Requests
          BY <3>1, ReplyAssumption DEF Answers
        <5>2. QED
          BY <1>2, <2>3, <3>1, <5>1
      <4>2. attempt[t].lapsed /\ attempt[t].holder # d[1]
        BY <2>1, <3>1, <4>1 DEF ClaimableTurn
      <4>3. steals'[t] = steals[t] + 1
        <5>1. steals \in [Turns -> Nat]
          BY DEF Typed, TypeOK, HistoryOK
        <5>2. steals' = [steals EXCEPT ![t] = steals[t] + 1]
          BY <2>1, <4>2, <5>1 DEF ClaimTurn
        <5>3. QED
          BY <5>1, <5>2
      <4>4. QED
        BY <1>1, <4>3
    <3>2. QED
      BY <3>1
  <2>5. \A s \in Answers(t)' : s = d[1]
    BY <2>2, <2>4, AnswerComes
  <2>6. QED
    BY <2>3, <2>5
<1>4. CASE ~\E d \in Deliveries : ClaimTurn(d) /\ ClaimableTurn(t, d[1]) /\ TurnOf[d[1]] = t
  <2>1. \A s \in Answers(t)' : s \in Answers(t)
    BY <1>4, AnswerComes
  <2>2. \A s \in Answers(t)' : s = r
    BY <1>2, <2>1
  <2>3. ASSUME attempt'[t].action = "none"
        PROVE  attempt'[t].holder = r
    <3>1. Moves
      BY MovesOfStep
    <3>2. attempt[t].action = "none"
      BY <2>3, <3>1, EndKept
    <3>3. attempt[t].holder = r
      BY <1>2, <2>1, <3>2
    <3>4. CASE SameClaim(t)
      BY <3>3, <3>4 DEF SameClaim
    <3>5. CASE \E u \in Turns : RanOut(u)
      BY <3>3, <3>5 DEF RanOut, KeptBut, Kept, SameClaim
    <3>6. CASE Ended
      BY <2>3, <3>4, <3>6 DEF Ended, Kept
    <3>7. ASSUME NEW d \in Deliveries, ClaimTurn(d), Claimed(TurnOf[d[1]], d[1])
          PROVE  SameClaim(t)
      BY <1>4, <3>7 DEF Claimed, KeptBut, Kept
    <3>8. ASSUME NEW d \in Deliveries, thread[d].at \in {"release", "unclaim"},
                 attempt[TurnOf[d[1]]].holder = d[1], Returned(TurnOf[d[1]])
          PROVE  SameClaim(t)
      <4>1. CASE TurnOf[d[1]] = t
        <5>1. d[1] = r /\ r \in Answers(t) /\ Action[r] = "done"
          BY <2>1, <3>3, <3>8, <4>1 DEF Answers
        <5>2. thread[d].at = "release"
          BY <3>8, <5>1 DEF NotesUnclaim
        <5>3. QED
          BY <5>1, <5>2, ReleasedIsNoAnswer
      <4>2. CASE TurnOf[d[1]] # t
        BY <3>8, <4>2 DEF Returned, KeptBut, Kept
      <4>3. QED
        BY <4>1, <4>2
    <3>9. QED
      BY <3>1, <3>4, <3>5, <3>6, <3>7, <3>8 DEF Moves, Kept
  <2>4. QED
    BY <2>2, <2>3
<1>5. QED
  BY <1>3, <1>4

LEMMA OneAnswerInit == Init => NotesUnclaim /\ OneAnswer
<1> SUFFICES ASSUME Init PROVE NotesUnclaim /\ OneAnswer
  OBVIOUS
<1>1. \A d \in Deliveries : thread[d].at = "off"
  BY DEF Init, Off
<1>2. \A r \in Requests : ~(posts[r] > 0) /\ ~Posting(r)
  <2>1. \A r \in Requests : \A k \in 1..MaxDeliveries : thread[<<r, k>>].at = "off"
    BY <1>1 DEF Deliveries
  <2>2. \A r \in Requests : ~Posting(r)
    BY <2>1 DEF Posting
  <2>3. posts = [r \in Requests |-> 0]
    BY DEF Init
  <2>4. QED
    BY <2>2, <2>3
<1>3. \A t \in Turns : Answers(t) = {}
  BY <1>2 DEF Answers
<1>4. NotesUnclaim
  BY <1>1 DEF NotesUnclaim
<1>5. QED
  BY <1>3, <1>4 DEF OneAnswer

\* A turn has one final answer, whichever texts the worker sends and however they race,
\* as long as no lease on the turn or on an answer runs out before its holder is done.
THEOREM TurnHasOneAnswer == Spec => []OneAnswerPerTurn
<1> DEFINE Inv == Typed /\ OnceEach /\ NotesUnclaim /\ OneAnswer
<1>1. Init => Inv
  BY TypedInit, OnceInit, OneAnswerInit
<1>2. Inv /\ [Next]_vars => Inv'
  BY TypedStep, OnceStep, NotesUnclaimStep, OneAnswerStep
<1>3. Inv => OneAnswerPerTurn
  <2> SUFFICES ASSUME Inv, NEW r \in Requests, NEW s \in Requests,
                      TurnOf[r] = TurnOf[s], Action[r] = "done", Action[s] = "done",
                      steals[TurnOf[r]] = 0, takeovers[r] = 0, takeovers[s] = 0,
                      posts[r] > 0, posts[s] > 0
               PROVE  r = s
    BY DEF OneAnswerPerTurn
  <2>1. TurnOf[r] \in Turns
    BY ReplyAssumption
  <2>2. r \in Answers(TurnOf[r]) /\ s \in Answers(TurnOf[r])
    BY DEF Answers
  <2>3. QED
    BY <2>1, <2>2 DEF OneAnswer
<1>4. QED
  <2> HIDE DEF Inv
  <2>1. QED
    BY <1>1, <1>2, <1>3, PTL DEF Spec

-----------------------------------------------------------------------------
(* What the worker's answer came to *)

\* A discard notice of the turn is in Slack, whichever of its texts it shows.
NoticeShown(t) == \E s \in discarded : TurnOf[s] = t

Given(r) ==
    \/ posts[r] > 0 \/ r \in doubts
    \/ r \in muted /\ Action[r] = "continue"
    \/ NoticeShown(TurnOf[r])

\* What a thread that is past its post knows.
Vouches(d) ==
    /\ thread[d].at \in {"record", "record_unknown", "settle", "unclaim", "complete", "tidy"}
       => Given(d[1])
    /\ thread[d].at = "fail" /\ thread[d].answer = "ok" => Given(d[1])
    /\ thread[d].at \in {"notice_record", "notice_mark"} => NoticeShown(TurnOf[d[1]])

Honest ==
    /\ \A r \in Requests : /\ script[r].at = "ok" => Given(r)
                           /\ reply[r].status \in {"posted", "posted_unknown"} => Given(r)
    /\ \A t \in Turns : notice[t].status = "posted" \/ attempt[t].notified => NoticeShown(t)
    /\ \A d \in Deliveries : Vouches(d)

\* What is in Slack, in doubt or kept back stays so.
LEMMA NothingUndone ==
    ASSUME Typed, [Next]_vars
    PROVE  /\ \A r \in Requests : Given(r) => Given(r)'
           /\ \A t \in Turns : NoticeShown(t) => NoticeShown(t)'
<1>1. posts \in [Requests -> Nat]
  BY DEF Typed, TypeOK, HistoryOK
<1>2. ASSUME NEW d \in Deliveries, Handler(d)
      PROVE  /\ \A r \in Requests : posts[r] > 0 => posts'[r] > 0
             /\ doubts \subseteq doubts' /\ muted \subseteq muted'
             /\ discarded \subseteq discarded'
  <2>1. CASE PostReply(d) \/ PostRefused(d) \/ PostUnknown(d) \/ PostBreaks(d)
    <3>1. UNCHANGED <<muted, discarded>> /\ doubts \subseteq doubts'
      BY <2>1 DEF PostReply, PostRefused, PostUnknown, PostBreaks
    <3>2. posts' = posts \/ \E o \in Outcomes(d) : Reached(d[1], o.times)
      BY <2>1 DEF PostReply, PostRefused, PostUnknown, PostBreaks
    <3>3. \A o \in Outcomes(d) : o.times \in {0, 1}
      BY PostOutcome, ReactionOutcome DEF Outcomes
    <3>4. posts' = posts \/ \E n \in {0, 1} : posts' = [posts EXCEPT ![d[1]] = posts[d[1]] + n]
      BY <1>1, <3>2, <3>3, DeliveryType DEF Reached
    <3>5. QED
      BY <1>1, <3>1, <3>4
  <2>2. CASE PostNotice(d) \/ NoticeRefused(d)
    <3>1. UNCHANGED <<posts, doubts, muted>>
      BY <2>2 DEF PostNotice, NoticeRefused
    <3>2. discarded \subseteq discarded'
      BY <2>2 DEF PostNotice, NoticeRefused, Shown
    <3>3. QED
      BY <3>1, <3>2
  <2>3. CASE UNCHANGED <<posts, discarded, doubts>> /\ muted \subseteq muted'
    BY <2>3
  <2>4. QED
    BY <1>2, <2>1, <2>2, <2>3
       DEF Handler, SlackCall, ClaimReply, Resolve, CheckTurn, ClaimTurn, PostSuppressed,
           Record, RecordUnknown, Release, Fail, Settle, Unclaim, CompleteTurn, Tidy,
           ClaimNotice, NoticeFails, RecordNotice, MarkNotified, HandlerBreaks, history
<1>3. (\E d \in Deliveries : Handler(d)) \/ UNCHANGED <<posts, doubts, muted, discarded>>
  BY DEF Next, Command, RunCommand, SendRequest, GiveUpWaiting, Ending, Outside, MoveToEnd,
         Finalize, StartTurn, BeginEnding, Restart, LeaseEnds, vars, history
<1>4. CASE UNCHANGED <<posts, doubts, muted, discarded>>
  BY <1>4 DEF Given, NoticeShown
<1>5. CASE \E d \in Deliveries : Handler(d)
  BY <1>2, <1>5, ReplyAssumption DEF Given, NoticeShown
<1>6. QED
  BY <1>3, <1>4, <1>5

\* A step of one thread stays honest if it vouches for what it writes.
LEMMA HonestKept ==
    ASSUME Typed, Honest, [Next]_vars, NEW d \in Deliveries,
           \A e \in Deliveries \ {d} : thread'[e] = thread[e],
           \A r \in Requests :
              /\ script'[r].at = "ok" => script[r].at = "ok" \/ Given(r)'
              /\ reply'[r].status \in {"posted", "posted_unknown"}
                 => reply[r].status \in {"posted", "posted_unknown"} \/ Given(r)',
           \A t \in Turns :
              /\ notice'[t].status = "posted" => notice[t].status = "posted" \/ NoticeShown(t)'
              /\ attempt'[t].notified => attempt[t].notified \/ NoticeShown(t)',
           Vouches(d)'
    PROVE  Honest'
<1>1. \A e \in Deliveries \ {d} : Vouches(e)'
  BY NothingUndone, DeliveryType DEF Honest, Vouches
<1>2. QED
  BY <1>1, NothingUndone DEF Honest

\* Who is told of turn_attempts.discard_notified: only MarkNotified writes it.
LEMMA NotifiedStep ==
    ASSUME Typed, NEW t \in Turns,
           \/ \E d \in Deliveries : Handler(d) /\ ~MarkNotified(d)
           \/ Ending \/ Outside
    PROVE  attempt'[t].notified = attempt[t].notified
<1>1. attempt \in [Turns -> AttemptRow]
  BY DEF Typed, TypeOK, TablesOK
<1>2. \A a \in AttemptRow : \A r, action :
         /\ Released(a, r).notified = a.notified
         /\ Closed(a, action).notified = a.notified
         /\ EndedRow(a, action).notified = a.notified
         /\ [a EXCEPT !.holder = r, !.lapsed = FALSE].notified = a.notified
         /\ [a EXCEPT !.completed = FALSE].notified = a.notified
         /\ [a EXCEPT !.opened = TRUE].notified = a.notified
         /\ [a EXCEPT !.lapsed = TRUE].notified = a.notified
  BY DEF Released, Closed, EndedRow, AttemptRow
<1>3. CASE attempt' = attempt
  BY <1>3
<1>4. ASSUME NEW d \in Deliveries, NEW x, attempt' = [attempt EXCEPT ![TurnOf[d[1]]] = x],
             x.notified = attempt[TurnOf[d[1]]].notified
      PROVE  attempt'[t].notified = attempt[t].notified
  BY <1>1, <1>4, DeliveryType
<1>5. ASSUME NEW d \in Deliveries,
             Release(d) \/ Unclaim(d) \/ ClaimTurn(d) \/ Settle(d) \/ Tidy(d)
      PROVE  attempt'[t].notified = attempt[t].notified
  <2> DEFINE u == TurnOf[d[1]]
  <2>1. attempt[u] \in AttemptRow
    BY <1>1, DeliveryType
  <2>2. CASE Release(d) \/ Unclaim(d)
    <3>1. attempt' = [attempt EXCEPT ![u] = Released(attempt[u], d[1])]
      BY <2>2 DEF Release, Unclaim
    <3>2. Released(attempt[u], d[1]).notified = attempt[u].notified
      BY <1>2, <2>1
    <3>3. QED
      BY <1>4, <3>1, <3>2
  <2>3. CASE ClaimTurn(d)
    <3>1. \/ attempt' = attempt
          \/ attempt' = [attempt EXCEPT ![u] = [attempt[u] EXCEPT !.holder = d[1], !.lapsed = FALSE]]
      BY <1>1, <2>3, DeliveryType DEF ClaimTurn
    <3>2. [attempt[u] EXCEPT !.holder = d[1], !.lapsed = FALSE].notified = attempt[u].notified
      BY <1>2, <2>1
    <3>3. QED
      BY <1>3, <1>4, <3>1, <3>2
  <2>4. CASE Settle(d)
    <3>1. \/ attempt' = [attempt EXCEPT ![u] = [attempt[u] EXCEPT !.completed = FALSE]]
          \/ \E action : attempt' = [attempt EXCEPT ![u] = Closed(attempt[u], action)]
      BY <1>1, <2>4, DeliveryType DEF Settle
    <3>2. /\ [attempt[u] EXCEPT !.completed = FALSE].notified = attempt[u].notified
          /\ \A action : Closed(attempt[u], action).notified = attempt[u].notified
      BY <1>2, <2>1
    <3>3. QED
      BY <1>4, <3>1, <3>2
  <2>5. CASE Tidy(d)
    <3>1. \/ attempt' = [attempt EXCEPT ![u] = attempt[u]]
          \/ attempt' = [attempt EXCEPT ![u] = Closed(attempt[u], "close")]
      BY <1>1, <2>5, DeliveryType DEF Tidy
    <3>2. Closed(attempt[u], "close").notified = attempt[u].notified
      BY <1>2, <2>1
    <3>3. QED
      BY <1>4, <3>1, <3>2
  <2>6. QED
    BY <1>5, <2>2, <2>3, <2>4, <2>5
<1>6. ASSUME NEW u, NEW action, attempt' = Finalized(u, action)
      PROVE  attempt'[t].notified = attempt[t].notified
  <2>1. attempt'[t] \in {attempt[t], Closed(attempt[t], action), EndedRow(attempt[t], action)}
    BY <1>6 DEF Finalized, EndedRow
  <2>2. QED
    BY <1>1, <1>2, <2>1
<1>7. ASSUME NEW u \in Turns, StartTurn(u)
      PROVE  attempt'[t].notified = attempt[t].notified
  <2>1. attempt' = [attempt EXCEPT ![u] = [attempt[u] EXCEPT !.opened = TRUE]]
    BY <1>1, <1>7 DEF StartTurn
  <2>2. QED
    BY <1>1, <1>2, <2>1
<1>8. CASE LeaseEnds
  <2>1. attempt' = attempt \/ \E u \in Turns :
           attempt' = [attempt EXCEPT ![u] = [attempt[u] EXCEPT !.lapsed = TRUE]]
    BY <1>1, <1>8 DEF LeaseEnds
  <2>2. QED
    BY <1>1, <1>2, <2>1
<1>9. QED
  BY <1>3, <1>5, <1>6, <1>7, <1>8, BreakStep
     DEF Handler, SlackCall, ClaimReply, Resolve, CheckTurn, PostReply, PostSuppressed,
         PostRefused, PostUnknown, PostBreaks, PostNotice, NoticeRefused, Record,
         RecordUnknown, Fail, CompleteTurn, ClaimNotice, NoticeFails, RecordNotice, Ending,
         Outside, MoveToEnd, Finalize, Restart, BeginEnding

\* A script is told "accepted" by the answer of its own thread only.
LEMMA ToldBy ==
    ASSUME Typed, NEW d \in Deliveries, NEW answer, Answer(d, answer)
    PROVE  /\ thread'[d].at = "off" /\ \A e \in Deliveries \ {d} : thread'[e] = thread[e]
           /\ \A r \in Requests :
                 script'[r].at = "ok" => script[r].at = "ok" \/ (r = d[1] /\ answer = "ok")
BY AnswerStep, EndStep

\* The steps before a post, and those of a failed one: nothing is vouched for.
LEMMA HonestChecks ==
    ASSUME Typed, Honest, [Next]_vars, NEW d \in Deliveries,
           Resolve(d) \/ ClaimTurn(d) \/ PostRefused(d) \/ Release(d) \/ NoticeRefused(d)
           \/ NoticeFails(d) \/ PostBreaks(d) \/ HandlerBreaks(d)
    PROVE  Honest'
<1>1. /\ \A e \in Deliveries \ {d} : thread'[e] = thread[e]
      /\ \A r \in Requests : script'[r].at = "ok" => script[r].at = "ok"
      /\ \/ thread'[d].at \in {"off", "check", "post", "release", "notice_fail"}
         \/ thread'[d].at = "fail" /\ thread'[d].answer # "ok"
  <2>1. CASE Resolve(d)
    <3>1. CASE session.status # "killed"
      <4>1. thread' = [thread EXCEPT ![d] = [Off EXCEPT !.at = "check", !.seen = session]]
            /\ script' = script
        BY <2>1, <3>1 DEF Resolve
      <4>2. [Off EXCEPT !.at = "check", !.seen = session].at = "check"
        BY DEF Off
      <4>3. QED
        BY <4>1, <4>2 DEF Typed, TypeOK, ProcessesOK
    <3>2. CASE session.status = "killed"
      <4>1. Answer(d, "no") \/ (FailWith(d, FALSE, "no") /\ script' = script)
        BY <2>1, <3>2 DEF Resolve
      <4>2. CASE Answer(d, "no")
        BY <4>2, ToldBy
      <4>3. CASE FailWith(d, FALSE, "no") /\ script' = script
        BY <4>3, FailStep
      <4>4. QED
        BY <4>1, <4>2, <4>3
    <3>3. QED
      BY <3>1, <3>2
  <2>2. CASE ClaimTurn(d)
    BY <2>2, GotoStep, FailStep DEF ClaimTurn, Places
  <2>3. CASE PostRefused(d) \/ PostBreaks(d)
    BY <2>3, ToldBy, GotoStep DEF PostRefused, PostBreaks, Places
  <2>4. CASE Release(d) \/ NoticeFails(d)
    BY <2>4, FailStep DEF Release, NoticeFails
  <2>5. CASE NoticeRefused(d)
    BY <2>5, GotoStep DEF NoticeRefused, Places
  <2>7. CASE HandlerBreaks(d)
    BY <2>7, BreakStep, ToldBy
  <2>6. QED
    BY <2>1, <2>2, <2>3, <2>4, <2>5, <2>7
<1>2. Vouches(d)'
  BY <1>1 DEF Vouches
<1>3. /\ reply' = reply
      /\ \A t \in Turns : notice'[t].status = "posted" => notice[t].status = "posted"
  <2>1. CASE NoticeFails(d)
    <3>1. notice' = [notice EXCEPT ![TurnOf[d[1]]] = Failed(notice[TurnOf[d[1]]], TRUE)]
          /\ reply' = reply
      BY <2>1 DEF NoticeFails
    <3>2. \A row \in Row : Failed(row, TRUE).status = "posted" => row.status = "posted"
      BY FailedType
    <3>3. notice \in [Turns -> Row]
      BY DEF Typed, TypeOK, RowsOK
    <3>4. QED
      BY <3>1, <3>2, <3>3, DeliveryType
  <2>2. CASE UNCHANGED <<notice, reply>>
    BY <2>2
  <2>3. QED
    BY <2>1, <2>2, BreakStep DEF Resolve, ClaimTurn, PostRefused, Release, NoticeRefused, PostBreaks
<1>4. \A t \in Turns : attempt'[t].notified = attempt[t].notified
  BY NotifiedStep DEF Handler, SlackCall, MarkNotified, Resolve, ClaimTurn, PostRefused, Release,
                      NoticeRefused, NoticeFails, PostBreaks, HandlerBreaks, At
<1>5. QED
  BY <1>1, <1>2, <1>3, <1>4, HonestKept

\* A claim that is refused because the request is done says so of a request that is.
LEMMA HonestClaim ==
    ASSUME Typed, Honest, [Next]_vars, NEW d \in Deliveries, ClaimReply(d)
    PROVE  Honest'
<1> DEFINE r == d[1]
<1>1. r \in Requests /\ UNCHANGED <<notice, attempt>> /\ reply \in [Requests -> Row]
  BY DeliveryType DEF ClaimReply, Typed, TypeOK, RowsOK
<1>2. CASE Claimable(reply[r], r)
  <2>1. /\ reply' = [reply EXCEPT ![r] = Received(r)] /\ Goto(d, "resolve") /\ script' = script
    BY <1>2 DEF ClaimReply
  <2>2. \A q \in Requests : reply'[q].status \in {"posted", "posted_unknown"}
                            => reply[q].status \in {"posted", "posted_unknown"}
    BY <1>1, <2>1, ReceivedType
  <2>3. /\ \A e \in Deliveries \ {d} : thread'[e] = thread[e]
        /\ Vouches(d)'
    BY <2>1, GotoStep DEF Vouches, Places
  <2>4. QED
    BY <1>1, <2>1, <2>2, <2>3, HonestKept
<1>3. CASE ~Claimable(reply[r], r)
  <2>1. Answer(d, Verdict(reply[r])) /\ reply' = reply
    BY <1>3 DEF ClaimReply
  <2>2. Verdict(reply[r]) = "ok" => Given(r)'
    BY <1>1, NothingUndone DEF Verdict, Honest
  <2>3. Vouches(d)' /\ \A e \in Deliveries \ {d} : thread'[e] = thread[e]
    BY <2>1, ToldBy DEF Vouches
  <2>4. QED
    BY <1>1, <2>1, <2>2, <2>3, ToldBy, HonestKept
<1>4. QED
  BY <1>2, <1>3

\* A discarded answer that has been shown counts as accepted.
LEMMA HonestTurnCheck ==
    ASSUME Typed, Honest, [Next]_vars, NEW d \in Deliveries, CheckTurn(d) \/ ClaimNotice(d)
    PROVE  Honest'
<1> DEFINE r == d[1]
           t == TurnOf[r]
           Fine == /\ \A e \in Deliveries \ {d} : thread'[e] = thread[e]
                   /\ \A q \in Requests : script'[q].at = "ok" => script[q].at = "ok"
                   /\ Vouches(d)'
<1>1. r \in Requests /\ t \in Turns /\ UNCHANGED <<reply, attempt>>
  BY DeliveryType DEF CheckTurn, ClaimNotice
<1>2. ASSUME NEW where \in {"post", "turn", "notice", "notice_post"}, Goto(d, where),
             script' = script
      PROVE  Fine
  BY <1>2, GotoStep DEF Vouches, Places
<1>3. ASSUME NEW retry \in BOOLEAN, NEW answer \in {"ok", "again", "no"},
             FailWith(d, retry, answer), script' = script,
             answer = "ok" => NoticeShown(t)
      PROVE  Fine
  <2>1. Given(r)' \/ answer # "ok"
    BY <1>1, <1>3, NothingUndone DEF Given
  <2>2. QED
    BY <1>3, <2>1, FailStep DEF Vouches
<1>4. ASSUME Answer(d, "no")
      PROVE  Fine
  BY <1>4, ToldBy DEF Vouches
<1>5. CASE CheckTurn(d)
  <2>1. attempt[t].notified => NoticeShown(t)
    BY <1>1 DEF Honest
  <2>2. Fine
    BY <1>2, <1>3, <1>4, <1>5, <2>1 DEF CheckTurn
  <2>3. notice' = notice
    BY <1>5 DEF CheckTurn
  <2>4. QED
    BY <1>1, <2>2, <2>3, HonestKept
<1>6. CASE ClaimNotice(d)
  <2>1. notice[t].status = "posted" => NoticeShown(t)
    BY <1>1 DEF Honest
  <2>2. Fine
    BY <1>2, <1>3, <1>6, <2>1 DEF ClaimNotice
  <2>3. \A u \in Turns : notice'[u].status = "posted" => notice[u].status = "posted"
    <3>1. notice' = notice \/ notice' = [notice EXCEPT ![t] = Received(r)]
      BY <1>6 DEF ClaimNotice
    <3>2. QED
      BY <1>1, <3>1, ReceivedType DEF Typed, TypeOK, RowsOK
  <2>4. QED
    BY <1>1, <2>2, <2>3, HonestKept
<1>7. QED
  BY <1>5, <1>6

\* A post that Slack took, or may have taken, is vouched for from then on.
LEMMA HonestPosts ==
    ASSUME Typed, Honest, [Next]_vars, NEW d \in Deliveries,
           PostReply(d) \/ PostSuppressed(d) \/ PostUnknown(d) \/ PostNotice(d)
    PROVE  Honest'
<1> DEFINE r == d[1]
           t == TurnOf[r]
<1>1. /\ r \in Requests /\ t \in Turns /\ UNCHANGED <<reply, notice, attempt, script>>
      /\ posts \in [Requests -> Nat]
  BY DeliveryType
     DEF PostReply, PostSuppressed, PostUnknown, PostNotice, Typed, TypeOK, HistoryOK
<1>2. CASE PostReply(d)
  <2>1. PICK o \in Outcomes(d) : o.verdict = "ok" /\ Reached(r, o.times)
    BY <1>2 DEF PostReply
  <2>2. o.times = 1
    BY <2>1, PostOutcome, ReactionOutcome DEF Outcomes
  <2>3. posts'[r] > 0
    BY <1>1, <2>1, <2>2 DEF Reached
  <2>4. PICK where \in {"settle", "record"} : Goto(d, where)
    BY <1>2 DEF PostReply
  <2>5. /\ \A e \in Deliveries \ {d} : thread'[e] = thread[e]
        /\ Vouches(d)'
    BY <2>3, <2>4, GotoStep DEF Vouches, Given, Places
  <2>6. QED
    BY <1>1, <2>5, HonestKept
<1>3. CASE PostSuppressed(d) \/ PostUnknown(d)
  <2>1. Given(r)'
    BY <1>3 DEF PostSuppressed, PostUnknown, Given
  <2>2. PICK where \in {"record", "record_unknown"} : Goto(d, where)
    BY <1>3 DEF PostSuppressed, PostUnknown
  <2>3. /\ \A e \in Deliveries \ {d} : thread'[e] = thread[e]
        /\ Vouches(d)'
    BY <2>1, <2>2, GotoStep DEF Vouches, Places
  <2>4. QED
    BY <1>1, <2>3, HonestKept
<1>4. CASE PostNotice(d)
  <2>1. PICK o \in Posts : o.verdict = "ok" /\ Shown(r, o.times)
    BY <1>4 DEF PostNotice
  <2>2. NoticeShown(t)'
    BY <1>1, <2>1, PostOutcome DEF Shown, NoticeShown
  <2>3. Goto(d, "notice_record")
    BY <1>4 DEF PostNotice
  <2>4. /\ \A e \in Deliveries \ {d} : thread'[e] = thread[e]
        /\ Vouches(d)'
    BY <2>2, <2>3, GotoStep DEF Vouches, Places
  <2>5. QED
    BY <1>1, <2>4, HonestKept
<1>5. QED
  BY <1>2, <1>3, <1>4

\* What is recorded in the ledgers was vouched for by the thread that records it.
LEMMA HonestRecords ==
    ASSUME Typed, Honest, [Next]_vars, NEW d \in Deliveries,
           Record(d) \/ RecordUnknown(d) \/ RecordNotice(d) \/ Fail(d)
    PROVE  Honest'
<1> DEFINE r == d[1]
           t == TurnOf[r]
<1>1. /\ r \in Requests /\ t \in Turns /\ attempt' = attempt /\ Vouches(d)
      /\ reply \in [Requests -> Row] /\ notice \in [Turns -> Row] /\ thread[d] \in ThreadRow
  BY DeliveryType DEF Record, RecordUnknown, RecordNotice, Fail, Typed, TypeOK, RowsOK,
                      ProcessesOK, Honest
<1>2. CASE Record(d) \/ RecordUnknown(d)
  <2>1. Given(r) /\ Given(r)'
    BY <1>1, <1>2, NothingUndone DEF Record, RecordUnknown, Vouches, At
  <2>2. /\ Goto(d, "settle") /\ UNCHANGED <<notice, script>>
    BY <1>2 DEF Record, RecordUnknown
  <2>3. \A q \in Requests \ {r} : reply'[q] = reply[q]
    BY <1>1, <1>2 DEF Record, RecordUnknown
  <2>4. /\ \A e \in Deliveries \ {d} : thread'[e] = thread[e]
        /\ Vouches(d)'
    BY <2>1, <2>2, GotoStep DEF Vouches, Places
  <2>5. QED
    BY <1>1, <2>1, <2>2, <2>3, <2>4, HonestKept
<1>3. CASE RecordNotice(d)
  <2>1. NoticeShown(t) /\ NoticeShown(t)'
    BY <1>1, <1>3, NothingUndone DEF RecordNotice, Vouches, At
  <2>2. /\ Goto(d, "notice_mark") /\ UNCHANGED <<reply, script>>
    BY <1>3 DEF RecordNotice
  <2>3. \A u \in Turns \ {t} : notice'[u] = notice[u]
    BY <1>1, <1>3 DEF RecordNotice
  <2>4. /\ \A e \in Deliveries \ {d} : thread'[e] = thread[e]
        /\ Vouches(d)'
    BY <2>1, <2>2, GotoStep DEF Vouches, Places
  <2>5. QED
    BY <1>1, <2>1, <2>2, <2>3, <2>4, HonestKept
<1>4. CASE Fail(d)
  <2>1. /\ Answer(d, thread[d].answer) /\ thread[d].at = "fail" /\ notice' = notice
        /\ reply' = [reply EXCEPT ![r] = Failed(reply[r], thread[d].retry)]
    BY <1>4 DEF Fail, At
  <2>2. thread[d].answer = "ok" => Given(r)'
    BY <1>1, <2>1, NothingUndone DEF Vouches
  <2>3. thread[d].retry \in BOOLEAN
    BY <1>1 DEF ThreadRow
  <2>4. \A q \in Requests : reply'[q].status \in {"posted", "posted_unknown"}
                            => reply[q].status \in {"posted", "posted_unknown"}
    <3>1. Failed(reply[r], thread[d].retry).status \in {"posted", "posted_unknown"}
          => reply[r].status \in {"posted", "posted_unknown"}
      BY <1>1, <2>3, FailedType
    <3>2. QED
      BY <1>1, <2>1, <3>1
  <2>5. Vouches(d)'
    BY <2>1, ToldBy DEF Vouches
  <2>6. QED
    BY <1>1, <2>1, <2>2, <2>4, <2>5, ToldBy, HonestKept
<1>5. QED
  BY <1>2, <1>3, <1>4

\* After the record the thread tells the worker what it knows.
LEMMA HonestEnds ==
    ASSUME Typed, Honest, [Next]_vars, NEW d \in Deliveries,
           Settle(d) \/ Unclaim(d) \/ CompleteTurn(d) \/ Tidy(d) \/ MarkNotified(d)
    PROVE  Honest'
<1> DEFINE r == d[1]
           t == TurnOf[r]
<1>1. /\ r \in Requests /\ t \in Turns /\ UNCHANGED <<reply, notice>> /\ Vouches(d)
  BY DeliveryType DEF Settle, Unclaim, CompleteTurn, Tidy, MarkNotified, Honest
<1>2. CASE Settle(d) \/ Unclaim(d) \/ CompleteTurn(d) \/ Tidy(d)
  <2>1. Given(r) /\ Given(r)'
    BY <1>1, <1>2, NothingUndone DEF Settle, Unclaim, CompleteTurn, Tidy, Vouches, At
  <2>2. \/ Answer(d, "ok")
        \/ script' = script /\ \E where \in {"unclaim", "complete", "tidy"} : Goto(d, where)
    BY <1>2 DEF Settle, Unclaim, CompleteTurn, Tidy
  <2>3. /\ \A e \in Deliveries \ {d} : thread'[e] = thread[e]
        /\ \A q \in Requests : script'[q].at = "ok" => script[q].at = "ok" \/ Given(q)'
        /\ Vouches(d)'
    <3>1. CASE Answer(d, "ok")
      BY <2>1, <3>1, ToldBy DEF Vouches
    <3>2. CASE script' = script /\ \E where \in {"unclaim", "complete", "tidy"} : Goto(d, where)
      BY <2>1, <3>2, GotoStep DEF Vouches, Places
    <3>3. QED
      BY <2>2, <3>1, <3>2
  <2>4. \A u \in Turns : attempt'[u].notified = attempt[u].notified
    BY <1>2, NotifiedStep DEF Handler, Settle, Unclaim, CompleteTurn, Tidy, MarkNotified, At
  <2>5. QED
    BY <1>1, <2>3, <2>4, HonestKept
<1>3. CASE MarkNotified(d)
  <2>1. NoticeShown(t) /\ NoticeShown(t)'
    BY <1>1, <1>3, NothingUndone DEF MarkNotified, Vouches, At
  <2>2. FailWith(d, FALSE, "ok") /\ script' = script
    BY <1>3 DEF MarkNotified
  <2>3. \A u \in Turns \ {t} : attempt'[u] = attempt[u]
    BY <1>1, <1>3 DEF MarkNotified, Typed, TypeOK, TablesOK
  <2>4. /\ \A e \in Deliveries \ {d} : thread'[e] = thread[e]
        /\ Vouches(d)'
    BY <1>1, <2>1, <2>2, FailStep DEF Vouches, Given
  <2>5. QED
    BY <1>1, <2>1, <2>2, <2>3, <2>4, HonestKept
<1>4. QED
  BY <1>2, <1>3

\* Nothing outside the handlers vouches for anything; a delivery begins before its post.
LEMMA HonestOutside ==
    ASSUME Typed, Honest, [Next]_vars, (\E r \in Requests : Command(r)) \/ Ending \/ Outside
    PROVE  Honest'
<1>1. \A d \in Deliveries : thread'[d] # thread[d] => thread'[d].at \in {"off", "claim", "resolve"}
  <2>1. CASE \E r \in Requests : Command(r)
    <3>1. PICK r \in Requests : Command(r)
      BY <2>1
    <3>2. thread' = thread \/ \E where \in {"claim", "resolve"} : Goto(<<r, script[r].last + 1>>, where)
      BY <3>1 DEF Command, RunCommand, SendRequest, GiveUpWaiting
    <3>3. QED
      BY <3>2 DEF Goto, Off, Typed, TypeOK, ProcessesOK
  <2>2. CASE Ending \/ Outside
    BY <2>2 DEF Ending, Outside, MoveToEnd, Finalize, StartTurn, BeginEnding, Restart, LeaseEnds,
                Off
  <2>3. QED
    BY <2>1, <2>2
<1>2. \A d \in Deliveries : Vouches(d)'
  <2>1. ASSUME NEW d \in Deliveries
        PROVE  Vouches(d)'
    <3>1. CASE thread'[d] = thread[d]
      BY <3>1, NothingUndone, DeliveryType DEF Honest, Vouches
    <3>2. CASE thread'[d] # thread[d]
      BY <1>1, <3>2 DEF Vouches
    <3>3. QED
      BY <3>1, <3>2
  <2>2. QED
    BY <2>1
<1>3. \A q \in Requests : script'[q].at = "ok" => script[q].at = "ok"
  <2>1. script \in [Requests -> ScriptRow]
    BY DEF Typed, TypeOK, ProcessesOK
  <2>2. ASSUME NEW r \in Requests, Command(r)
        PROVE  <1>3!:
    <3>1. Told(script[r], "again").at # "ok"
      BY <2>1 DEF Told, ScriptRow
    <3>2. CASE RunCommand(r)
      BY <2>1, <3>2 DEF RunCommand, ScriptRow
    <3>3. CASE SendRequest(r)
      BY <2>1, <3>3 DEF SendRequest
    <3>4. CASE GiveUpWaiting(r)
      BY <2>1, <3>1, <3>4 DEF GiveUpWaiting
    <3>5. QED
      BY <2>2, <3>2, <3>3, <3>4 DEF Command
  <2>3. CASE Restart
    BY <2>1, <2>3 DEF Restart, ScriptRow
  <2>4. QED
    BY <2>2, <2>3 DEF Ending, Outside, MoveToEnd, Finalize, StartTurn, BeginEnding, LeaseEnds
<1>4. /\ \A q \in Requests : reply'[q].status = reply[q].status
      /\ \A t \in Turns : notice'[t].status = notice[t].status
  <2>1. \A row \in Row : [row EXCEPT !.lapsed = TRUE].status = row.status
    BY DEF Row
  <2>2. CASE LeaseEnds
    <3>1. \/ UNCHANGED <<reply, notice>>
          \/ \E q \in Requests :
                reply' = [reply EXCEPT ![q] = [reply[q] EXCEPT !.lapsed = TRUE]] /\ notice' = notice
          \/ \E t \in Turns :
                notice' = [notice EXCEPT ![t] = [notice[t] EXCEPT !.lapsed = TRUE]] /\ reply' = reply
      BY <2>2 DEF LeaseEnds, Typed, TypeOK, RowsOK
    <3>2. reply \in [Requests -> Row] /\ notice \in [Turns -> Row]
      BY DEF Typed, TypeOK, RowsOK
    <3>3. ASSUME NEW q \in Requests, notice' = notice,
                 reply' = [reply EXCEPT ![q] = [reply[q] EXCEPT !.lapsed = TRUE]]
          PROVE  <1>4!:
      BY <2>1, <3>2, <3>3
    <3>4. ASSUME NEW t \in Turns, reply' = reply,
                 notice' = [notice EXCEPT ![t] = [notice[t] EXCEPT !.lapsed = TRUE]]
          PROVE  <1>4!:
      BY <2>1, <3>2, <3>4
    <3>5. QED
      BY <3>1, <3>3, <3>4
  <2>3. CASE UNCHANGED <<reply, notice>>
    BY <2>3
  <2>4. QED
    BY <2>2, <2>3 DEF Command, RunCommand, SendRequest, GiveUpWaiting, Ending, Outside, MoveToEnd,
                      Finalize, StartTurn, BeginEnding, Restart
<1>5. \A t \in Turns : attempt'[t].notified = attempt[t].notified
  BY NotifiedStep DEF Command, RunCommand, SendRequest, GiveUpWaiting
<1>6. QED
  BY <1>2, <1>3, <1>4, <1>5, NothingUndone DEF Honest

LEMMA HonestStep == Typed /\ Honest /\ [Next]_vars => Honest'
<1> SUFFICES ASSUME Typed, Honest, [Next]_vars PROVE Honest'
  OBVIOUS
<1>1. ASSUME NEW d \in Deliveries, Handler(d)
      PROVE  Honest'
  BY <1>1, HonestChecks, HonestClaim, HonestTurnCheck, HonestPosts, HonestRecords, HonestEnds
     DEF Handler, SlackCall
<1>2. CASE UNCHANGED vars
  BY <1>2 DEF vars, state, history, Honest, Vouches, Given, NoticeShown
<1>3. QED
  BY <1>1, <1>2, HonestOutside DEF Next

LEMMA HonestInit == Init => Honest
<1> SUFFICES ASSUME Init PROVE Honest
  OBVIOUS
<1>1. \A d \in Deliveries : Vouches(d)
  BY DEF Init, Off, Vouches
<1>2. \A r \in Requests : script[r].at = "idle" /\ reply[r].status = "none"
  BY DEF Init, NoRow
<1>3. \A t \in Turns : notice[t].status = "none" /\ attempt[t].notified = FALSE
  BY DEF Init, NoRow, NoAttempt
<1>4. QED
  BY <1>1, <1>2, <1>3 DEF Honest

\* However requests are lost, retried, taken over, cancelled or broken off: a reply command
\* tells the worker that its answer was accepted only if the text is in Slack, or Slack gave
\* no verdict on it; or if it is known not to be there, being a note beyond the daily limit,
\* or an answer to a cancelled turn of which a discard notice was shown, with this text or
\* with another one of the turn.
THEOREM AcceptedHasItsReason == Spec => []AcceptedIsExplained
<1>1. Spec => [](Typed /\ Honest)
  <2>1. Typed /\ Honest /\ [Next]_vars => (Typed /\ Honest)'
    BY TypedStep, HonestStep
  <2>2. QED
    BY <2>1, TypedInit, HonestInit, PTL DEF Spec
<1>2. Honest => AcceptedIsExplained
  BY DEF Honest, AcceptedIsExplained, Given, NoticeShown
<1>3. QED
  BY <1>1, <1>2, PTL

-----------------------------------------------------------------------------
(* The means to answer *)

\* How a row of turn_attempts goes on: an attempt stays opened, and none is completed
\* without an end.
Follows(a, b) == /\ a.opened => b.opened
                 /\ b.completed /\ b.action = "none" => a.completed /\ a.action = "none"

LEMMA RowsFollow ==
    ASSUME NEW a \in AttemptRow
    PROVE  /\ Follows(a, a)
           /\ \A r : Follows(a, Released(a, r))
           /\ \A action \in {"close", "reaction", "cancelled", "stopped"} :
                 Follows(a, Closed(a, action)) /\ Follows(a, EndedRow(a, action))
           /\ \A r : Follows(a, [a EXCEPT !.holder = r, !.lapsed = FALSE])
           /\ Follows(a, [a EXCEPT !.completed = FALSE])
           /\ Follows(a, [a EXCEPT !.opened = TRUE])
           /\ Follows(a, [a EXCEPT !.lapsed = TRUE])
           /\ Follows(a, [a EXCEPT !.notified = TRUE])
BY DEF Follows, Released, Closed, EndedRow, AttemptRow

LEMMA FollowsOne ==
    ASSUME Typed, NEW u \in Turns, NEW x, attempt' = [attempt EXCEPT ![u] = x],
           Follows(attempt[u], x)
    PROVE  \A t \in Turns : Follows(attempt[t], attempt'[t])
BY RowsFollow DEF Typed, TypeOK, TablesOK

LEMMA AttemptsFollow ==
    ASSUME Typed, [Next]_vars
    PROVE  \A t \in Turns : Follows(attempt[t], attempt'[t])
<1>1. attempt \in [Turns -> AttemptRow] /\ \A t \in Turns : attempt[t] \in AttemptRow
  BY DEF Typed, TypeOK, TablesOK
<1>2. CASE attempt' = attempt
  BY <1>1, <1>2, RowsFollow
<1>3. ASSUME NEW d \in Deliveries,
             Release(d) \/ Unclaim(d) \/ ClaimTurn(d) \/ Settle(d) \/ Tidy(d) \/ MarkNotified(d)
      PROVE  \A t \in Turns : Follows(attempt[t], attempt'[t])
  <2> DEFINE u == TurnOf[d[1]]
             a == attempt[u]
  <2>1. u \in Turns /\ a \in AttemptRow
    BY <1>1, DeliveryType
  <2>2. \E x : attempt' = [attempt EXCEPT ![u] = x] /\ Follows(a, x)
    <3>1. CASE Release(d) \/ Unclaim(d)
      BY <2>1, <3>1, RowsFollow DEF Release, Unclaim
    <3>2. CASE ClaimTurn(d)
      <4>1. CASE attempt' = attempt
        <5>1. attempt' = [attempt EXCEPT ![u] = a]
          BY <1>1, <2>1, <4>1
        <5>2. QED
          BY <2>1, <5>1, RowsFollow
      <4>2. CASE attempt' # attempt
        <5>1. attempt' = [attempt EXCEPT ![u] = [a EXCEPT !.holder = d[1], !.lapsed = FALSE]]
          BY <1>1, <2>1, <3>2, <4>2 DEF ClaimTurn
        <5>2. QED
          BY <2>1, <5>1, RowsFollow
      <4>3. QED
        BY <4>1, <4>2
    <3>3. CASE Settle(d)
      <4>1. \/ attempt' = [attempt EXCEPT ![u] = [a EXCEPT !.completed = FALSE]]
            \/ \E action \in {"close", "reaction"} :
                  attempt' = [attempt EXCEPT ![u] = Closed(a, action)]
        BY <1>1, <2>1, <3>3 DEF Settle
      <4>2. QED
        BY <2>1, <4>1, RowsFollow
    <3>4. CASE Tidy(d)
      <4>1. \/ attempt' = [attempt EXCEPT ![u] = a]
            \/ attempt' = [attempt EXCEPT ![u] = Closed(a, "close")]
        BY <3>4 DEF Tidy
      <4>2. QED
        BY <2>1, <4>1, RowsFollow
    <3>5. CASE MarkNotified(d)
      <4>1. attempt' = [attempt EXCEPT ![u] = [a EXCEPT !.notified = TRUE]]
        BY <1>1, <2>1, <3>5 DEF MarkNotified
      <4>2. QED
        BY <2>1, <4>1, RowsFollow
    <3>6. QED
      BY <1>3, <3>1, <3>2, <3>3, <3>4, <3>5
  <2>3. QED
    BY <2>1, <2>2, FollowsOne
<1>4. ASSUME NEW u, NEW action \in {"close", "cancelled", "stopped"},
             attempt' = Finalized(u, action)
      PROVE  \A t \in Turns : Follows(attempt[t], attempt'[t])
  <2>1. \A t \in Turns :
           attempt'[t] \in {attempt[t], Closed(attempt[t], action), EndedRow(attempt[t], action)}
    BY <1>4 DEF Finalized, EndedRow
  <2>2. QED
    BY <1>1, <2>1, RowsFollow
<1>5. CASE Finalize
  <2>1. control.action \in {"close", "cancelled", "stopped"}
    BY <1>5 DEF Finalize, Typed, TypeOK, ProcessesOK, ControlRow, EndingsNamed
  <2>2. QED
    BY <1>4, <1>5, <2>1 DEF Finalize
<1>6. CASE Restart
  BY <1>2, <1>4, <1>6 DEF Restart
<1>7. ASSUME NEW u \in Turns, StartTurn(u)
      PROVE  \A t \in Turns : Follows(attempt[t], attempt'[t])
  <2>1. attempt' = [attempt EXCEPT ![u] = [attempt[u] EXCEPT !.opened = TRUE]]
    BY <1>1, <1>7 DEF StartTurn
  <2>2. QED
    BY <1>1, <2>1, RowsFollow, FollowsOne
<1>8. CASE LeaseEnds
  <2>1. attempt' = attempt \/ \E u \in Turns :
           attempt' = [attempt EXCEPT ![u] = [attempt[u] EXCEPT !.lapsed = TRUE]]
    BY <1>1, <1>8 DEF LeaseEnds
  <2>2. QED
    BY <1>1, <1>2, <2>1, RowsFollow, FollowsOne
<1>9. ASSUME NEW d \in Deliveries, HandlerBreaks(d)
      PROVE  attempt' = attempt
  BY <1>9 DEF HandlerBreaks
<1>10. QED
  BY <1>2, <1>3, <1>5, <1>6, <1>7, <1>8, <1>9
     DEF Next, Handler, SlackCall, ClaimReply, Resolve, CheckTurn, PostReply, PostSuppressed,
         PostRefused, PostUnknown, PostBreaks, PostNotice, NoticeRefused, Record,
         RecordUnknown, Fail, CompleteTurn, ClaimNotice, NoticeFails, RecordNotice, Ending,
         Outside, MoveToEnd, BeginEnding, Command, RunCommand, SendRequest, GiveUpWaiting,
         vars, state

\* A turn that is over for its worker: it will not be answerable again.
Over(t) == attempt[t].opened /\ (~OnTurn(session, t) \/ attempt[t].action # "none")

LEMMA OnTurnComes ==
    ASSUME Typed, [Next]_vars, NEW t \in Turns, OnTurn(session', t), ~OnTurn(session, t)
    PROVE  StartTurn(t)
<1>1. CASE session' = session
  BY <1>1
<1>2. CASE \E u \in Turns : StartTurn(u)
  BY <1>2 DEF StartTurn, OnTurn
<1>3. CASE Restart \/ MoveToEnd \/ \E d \in Deliveries : CompleteTurn(d)
  <2>1. session' = session \/ session'.status # "busy"
    <3>1. session.status \in {"idle", "busy", "killed"} /\ session \in SessionRow
      BY DEF Typed, TypeOK, TablesOK, SessionRow
    <3>2. CASE Restart
      BY <3>1, <3>2 DEF Restart, SessionRow
    <3>3. CASE MoveToEnd
      BY <3>3 DEF MoveToEnd
    <3>4. CASE \E d \in Deliveries : CompleteTurn(d)
      BY <3>4 DEF CompleteTurn
    <3>5. QED
      BY <1>3, <3>2, <3>3, <3>4
  <2>2. QED
    BY <1>1, <2>1 DEF OnTurn
<1>4. QED
  BY <1>1, <1>2, <1>3
     DEF Next, Handler, SlackCall, ClaimReply, Resolve, CheckTurn, ClaimTurn, PostReply,
         PostSuppressed, PostRefused, PostUnknown, PostBreaks, PostNotice, NoticeRefused,
         Record, RecordUnknown, Release, Fail, Settle, Unclaim, Tidy, ClaimNotice,
         NoticeFails, RecordNotice, MarkNotified, HandlerBreaks, Ending, Outside, Finalize,
         BeginEnding, LeaseEnds, Command, RunCommand, SendRequest, GiveUpWaiting, vars, state

LEMMA OverStays ==
    ASSUME Typed, [Next]_vars, NEW t \in Turns, attempt[t].opened
    PROVE  /\ attempt'[t].opened
           /\ ~OnTurn(session, t) => ~OnTurn(session', t)
           /\ Over(t) => Over(t)'
<1>1. attempt'[t].opened
  BY AttemptsFollow DEF Follows
<1>2. ~OnTurn(session, t) => ~OnTurn(session', t)
  BY OnTurnComes DEF StartTurn
<1>3. QED
  BY <1>1, <1>2, MovesOfStep, EndKept DEF Over

\* What is known of a turn by those who work for it.
Known(d) ==
    LET t == TurnOf[d[1]] IN
    /\ thread[d].at # "off" => attempt[t].opened
    /\ thread[d].at = "check" /\ ~OnTurn(thread[d].seen, t) => Over(t)
    /\ thread[d].at = "tidy" => Over(t)
    /\ thread[d].at \in {"notice"} \cup NoticePlaces => attempt[t].action # "none"

TurnsKnown ==
    /\ session.status = "busy" => session.turn \in Turns /\ attempt[session.turn].opened
    /\ \A t \in Turns : /\ attempt[t].completed => attempt[t].action # "none"
                        /\ t \in command => attempt[t].opened
    /\ \A r \in Requests : script[r].at # "idle" => attempt[TurnOf[r]].opened
    /\ control.at # "off" => control.turn \in Turns /\ attempt[control.turn].opened
    /\ control.at = "finalize" => ~OnTurn(session, control.turn)

\* A reply command is gone only from a turn that is over, or on which requests crossed.
CommandKept ==
    \A t \in Turns : attempt[t].opened /\ t \notin command => Over(t) \/ t \in crossed

Means == TurnsKnown /\ CommandKept /\ \A d \in Deliveries : Known(d)

\* A thread that goes on knows what it knew; the others do anyway.
LEMMA KnownKept ==
    ASSUME Typed, Means, [Next]_vars, NEW d \in Deliveries, thread'[d] = thread[d]
    PROVE  Known(d)'
<1>1. TurnOf[d[1]] \in Turns /\ Known(d)
  BY DeliveryType DEF Means
<1>2. QED
  BY <1>1, OverStays, MovesOfStep, EndKept DEF Known, Over

\* One thread leaves a place of its own for the next one.
LEMMA KnownNext ==
    ASSUME Typed, Means, [Next]_vars, NEW d \in Deliveries, Handler(d)
    PROVE  Known(d)'
<1> DEFINE r == d[1]
           t == TurnOf[r]
<1>1. r \in Requests /\ t \in Turns /\ Known(d) /\ thread[d].at # "off" /\ attempt[t].opened
  <2>1. thread[d].at # "off"
    BY DEF Handler, SlackCall, ClaimReply, Resolve, CheckTurn, ClaimTurn, PostReply,
           PostSuppressed, PostRefused, PostUnknown, PostBreaks, PostNotice, NoticeRefused,
           Record, RecordUnknown, Release, Fail, Settle, Unclaim, CompleteTurn, Tidy,
           ClaimNotice, NoticeFails, RecordNotice, MarkNotified, HandlerBreaks, At
  <2>2. QED
    BY <2>1, DeliveryType DEF Means, Known
<1>2. attempt'[t].opened
  BY <1>1, OverStays
<1>3. attempt[t].action # "none" => attempt'[t].action # "none"
  BY <1>1, MovesOfStep, EndKept
<1>4. CASE thread'[d].at \notin {"check", "tidy", "notice"} \cup NoticePlaces
  BY <1>2, <1>4 DEF Known
<1>5. CASE Resolve(d)
  <2>1. CASE session.status # "killed"
    <3>1. thread' = [thread EXCEPT ![d] = [Off EXCEPT !.at = "check", !.seen = session]]
      BY <1>5, <2>1 DEF Resolve
    <3>2. LET x == [Off EXCEPT !.at = "check", !.seen = session] IN
          x.at = "check" /\ x.seen = session
      BY DEF Off
    <3>3. thread'[d].at = "check" /\ thread'[d].seen = session
      BY <3>1, <3>2 DEF Typed, TypeOK, ProcessesOK
    <3>4. ~OnTurn(session, t) => Over(t)'
      BY <1>1, OverStays DEF Over
    <3>5. QED
      BY <1>2, <3>3, <3>4 DEF Known, NoticePlaces
  <2>2. CASE session.status = "killed"
    <3>1. Answer(d, "no") \/ FailWith(d, FALSE, "no")
      BY <1>5, <2>2 DEF Resolve
    <3>2. thread'[d].at \in {"off", "fail"}
      BY <3>1, Onward
    <3>3. QED
      BY <1>4, <3>2 DEF NoticePlaces
  <2>3. QED
    BY <2>1, <2>2
<1>6. CASE CheckTurn(d)
  <2>1. \/ thread'[d].at \in {"turn", "post", "fail", "off"}
        \/ thread'[d].at = "notice" /\ attempt[t].action = "cancelled"
    BY <1>6, Onward DEF CheckTurn, Places
  <2>2. QED
    BY <1>2, <1>3, <1>4, <2>1 DEF Known, NoticePlaces
<1>7. CASE CompleteTurn(d)
  <2>1. CASE OnTurn(session, t)
    <3>1. thread'[d].at = "tidy" /\ session'.status = "idle"
      BY <1>7, <2>1, Onward DEF CompleteTurn, Places
    <3>2. Over(t)'
      BY <1>2, <3>1 DEF Over, OnTurn
    <3>3. QED
      BY <1>2, <3>1, <3>2 DEF Known, NoticePlaces
  <2>2. CASE ~OnTurn(session, t)
    <3>1. thread'[d].at = "off"
      BY <1>7, <2>2, Onward DEF CompleteTurn
    <3>2. QED
      BY <1>4, <3>1 DEF NoticePlaces
  <2>3. QED
    BY <2>1, <2>2
<1>8. CASE ClaimNotice(d) \/ PostNotice(d) \/ NoticeRefused(d) \/ NoticeFails(d)
           \/ RecordNotice(d) \/ MarkNotified(d)
  <2>1. attempt[t].action # "none"
    BY <1>1, <1>8 DEF Known, NoticePlaces, ClaimNotice, PostNotice, NoticeRefused, NoticeFails,
                      RecordNotice, MarkNotified, At
  <2>2. thread'[d].at \in NoticePlaces \cup {"fail"}
    <3>1. ClaimNotice(d) => thread'[d].at \in {"notice_post", "fail"}
      BY Onward DEF ClaimNotice, Places
    <3>2. PostNotice(d) \/ NoticeRefused(d) => thread'[d].at \in NoticePlaces
      BY Onward DEF PostNotice, NoticeRefused, Places, NoticePlaces
    <3>3. NoticeFails(d) \/ MarkNotified(d) => thread'[d].at = "fail"
      BY Onward DEF NoticeFails, MarkNotified
    <3>4. RecordNotice(d) => thread'[d].at = "notice_mark"
      BY Onward DEF RecordNotice, Places
    <3>5. QED
      BY <1>8, <3>1, <3>2, <3>3, <3>4 DEF NoticePlaces
  <2>3. QED
    BY <1>2, <1>3, <2>1, <2>2 DEF Known, NoticePlaces
<1>9. CASE ClaimReply(d) \/ ClaimTurn(d) \/ Release(d) \/ Fail(d) \/ Record(d) \/ RecordUnknown(d)
  <2>1. thread'[d].at \in {"resolve", "off", "post", "fail", "settle"}
    BY <1>9, Onward DEF ClaimReply, ClaimTurn, Release, Fail, Record, RecordUnknown, Places
  <2>2. QED
    BY <1>4, <2>1 DEF NoticePlaces
<1>10. CASE PostReply(d) \/ PostSuppressed(d) \/ PostRefused(d) \/ PostUnknown(d) \/ PostBreaks(d)
  <2>1. thread'[d].at \in {"settle", "record", "off", "release", "record_unknown"}
    BY <1>10, Onward DEF PostReply, PostSuppressed, PostRefused, PostUnknown, PostBreaks, Places
  <2>2. QED
    BY <1>4, <2>1 DEF NoticePlaces
<1>11. CASE Settle(d) \/ Unclaim(d) \/ Tidy(d)
  <2>1. thread'[d].at \in {"unclaim", "complete", "off"}
    BY <1>11, Onward DEF Settle, Unclaim, Tidy, Places
  <2>2. QED
    BY <1>4, <2>1 DEF NoticePlaces
<1>12. CASE HandlerBreaks(d)
  BY <1>4, <1>12, BreakStep DEF NoticePlaces
<1>13. QED
  BY <1>5, <1>6, <1>7, <1>8, <1>9, <1>10, <1>11, <1>12 DEF Handler, SlackCall

\* A delivery is sent for a script that runs for a turn that was given to the worker.
LEMMA KnownStart ==
    ASSUME Typed, Means, [Next]_vars, NEW d \in Deliveries, thread'[d] # thread[d], ~Handler(d)
    PROVE  Known(d)'
<1>1. thread'[d].at \in {"off", "claim", "resolve"}
  BY OwnSteps
<1>2. CASE thread'[d].at = "off"
  BY <1>2 DEF Known, NoticePlaces
<1>3. CASE thread'[d].at \in {"claim", "resolve"}
  <2>1. PICK r \in Requests : SendRequest(r)
    <3>1. ASSUME NEW e \in Deliveries, Handler(e)
          PROVE  FALSE
      <4>1. e # d
        BY <3>1
      <4>2. thread'[d] = thread[d]
        BY <3>1, <4>1, HandlerLeaves
      <4>3. QED
        BY <4>2
    <3>2. ~(Ending \/ Outside \/ UNCHANGED vars)
      BY <1>3 DEF Ending, Outside, MoveToEnd, Finalize, StartTurn, BeginEnding, Restart, LeaseEnds,
                  Off, vars, state
    <3>3. QED
      BY <3>1, <3>2 DEF Next, Command, RunCommand, GiveUpWaiting
  <2>2. d[1] = r
    <3>1. \E where : Goto(<<r, script[r].last + 1>>, where)
      BY <2>1 DEF SendRequest
    <3>2. d = <<r, script[r].last + 1>>
      BY <3>1 DEF Goto, Typed, TypeOK, ProcessesOK
    <3>3. QED
      BY <3>2
  <2>3. attempt[TurnOf[r]].opened /\ attempt' = attempt
    BY <2>1 DEF SendRequest, Means, TurnsKnown
  <2>4. QED
    BY <1>3, <2>2, <2>3 DEF Known, NoticePlaces
<1>4. QED
  BY <1>1, <1>2, <1>3

\* What no handler does: end a turn from outside, bring a reply command back, or go on
\* with a script but for an answer.
LEMMA HandlerFrame ==
    ASSUME NEW d \in Deliveries, Handler(d)
    PROVE  /\ control' = control /\ command' \subseteq command
           /\ script' = script \/ \E answer : Answer(d, answer)
<1>1. CASE ClaimReply(d) \/ Resolve(d) \/ CheckTurn(d) \/ ClaimTurn(d)
  BY <1>1 DEF ClaimReply, Resolve, CheckTurn, ClaimTurn
<1>2. CASE SlackCall(d)
  BY <1>2 DEF SlackCall, PostReply, PostSuppressed, PostRefused, PostUnknown, PostBreaks,
              PostNotice, NoticeRefused
<1>3. CASE Record(d) \/ RecordUnknown(d) \/ Release(d) \/ Fail(d) \/ Settle(d)
  BY <1>3 DEF Record, RecordUnknown, Release, Fail, Settle
<1>4. CASE Unclaim(d) \/ CompleteTurn(d) \/ Tidy(d) \/ ClaimNotice(d) \/ NoticeFails(d)
           \/ RecordNotice(d) \/ MarkNotified(d) \/ HandlerBreaks(d)
  BY <1>4 DEF Unclaim, CompleteTurn, Tidy, ClaimNotice, NoticeFails, RecordNotice,
              MarkNotified, HandlerBreaks
<1>5. QED
  BY <1>1, <1>2, <1>3, <1>4 DEF Handler

LEMMA TurnsKnownStep ==
    ASSUME Typed, Means, [Next]_vars
    PROVE  TurnsKnown'
<1>1. /\ session \in SessionRow /\ control \in ControlRow /\ script \in [Requests -> ScriptRow]
      /\ command \subseteq Turns /\ TurnsKnown
  BY DEF Typed, TypeOK, TablesOK, ProcessesOK, Means
<1>2. \A t \in Turns : attempt[t].opened =>
         attempt'[t].opened /\ (~OnTurn(session, t) => ~OnTurn(session', t))
  BY OverStays
<1>3. session'.status = "busy" => session'.turn \in Turns /\ attempt'[session'.turn].opened
  <2>1. CASE \E t \in Turns : StartTurn(t)
    <3>1. PICK t \in Turns : StartTurn(t)
      BY <2>1
    <3>2. session'.turn = t /\ attempt'[t].opened
      BY <3>1 DEF StartTurn, Typed, TypeOK, TablesOK, AttemptRow
    <3>3. QED
      BY <3>2
  <2>2. CASE ~\E t \in Turns : StartTurn(t)
    <3>1. ASSUME session'.status = "busy"
          PROVE  session' = session
      <4>1. CASE Restart
        BY <1>1, <3>1, <4>1 DEF Restart, SessionRow
      <4>2. CASE MoveToEnd
        BY <3>1, <4>2 DEF MoveToEnd
      <4>3. CASE \E d \in Deliveries : CompleteTurn(d)
        BY <3>1, <4>3 DEF CompleteTurn
      <4>4. ASSUME NEW d \in Deliveries, Handler(d), ~CompleteTurn(d) PROVE session' = session
        <5>1. CASE SlackCall(d)
          BY <5>1 DEF SlackCall, PostReply, PostSuppressed, PostRefused, PostUnknown,
                      PostBreaks, PostNotice, NoticeRefused
        <5>2. CASE ClaimReply(d) \/ Resolve(d) \/ CheckTurn(d) \/ ClaimTurn(d) \/ Record(d)
                   \/ RecordUnknown(d) \/ Release(d) \/ Fail(d) \/ Settle(d)
          BY <5>2 DEF ClaimReply, Resolve, CheckTurn, ClaimTurn, Record, RecordUnknown,
                      Release, Fail, Settle
        <5>3. CASE Unclaim(d) \/ Tidy(d) \/ ClaimNotice(d) \/ NoticeFails(d) \/ RecordNotice(d)
                   \/ MarkNotified(d) \/ HandlerBreaks(d)
          BY <5>3 DEF Unclaim, Tidy, ClaimNotice, NoticeFails, RecordNotice, MarkNotified,
                      HandlerBreaks
        <5>4. QED
          BY <4>4, <5>1, <5>2, <5>3 DEF Handler
      <4>5. ASSUME NEW r \in Requests, Command(r) PROVE session' = session
        BY <4>5 DEF Command, RunCommand, SendRequest, GiveUpWaiting
      <4>6. CASE Finalize \/ BeginEnding("cancelled") \/ BeginEnding("stopped") \/ LeaseEnds
                 \/ UNCHANGED vars
        BY <4>6 DEF Finalize, BeginEnding, LeaseEnds, vars, state
      <4>7. QED
        BY <2>2, <4>1, <4>2, <4>3, <4>4, <4>5, <4>6 DEF Next, Ending, Outside
    <3>2. QED
      BY <1>1, <1>2, <3>1 DEF TurnsKnown
  <2>3. QED
    BY <2>1, <2>2
<1>4. \A t \in Turns : attempt'[t].completed => attempt'[t].action # "none"
  BY <1>1, AttemptsFollow DEF Follows, TurnsKnown
<1>5. \A t \in Turns : t \in command' => attempt'[t].opened
  <2>1. ASSUME NEW t \in Turns, t \in command'
        PROVE  t \in command \/ StartTurn(t)
    BY <2>1, HandlerFrame
       DEF Next, Ending, Outside, MoveToEnd, Finalize, BeginEnding, LeaseEnds, StartTurn, Restart,
           Command, RunCommand, SendRequest, GiveUpWaiting, vars, state
  <2>2. ASSUME NEW t \in Turns, StartTurn(t)
        PROVE  attempt'[t].opened
    BY <2>2 DEF StartTurn, Typed, TypeOK, TablesOK, AttemptRow
  <2>3. QED
    BY <1>1, <1>2, <2>1, <2>2 DEF TurnsKnown
<1>6. \A r \in Requests : script'[r].at # "idle" => attempt'[TurnOf[r]].opened
  <2>1. ASSUME NEW r \in Requests, script'[r].at # "idle", script[r].at = "idle"
        PROVE  RunCommand(r)
    <3>1. ASSUME NEW d \in Deliveries, NEW answer, Answer(d, answer)
          PROVE  FALSE
      BY <2>1, <3>1, AnswerStep
    <3>2. CASE Restart
      BY <1>1, <2>1, <3>2 DEF Restart
    <3>3. CASE \E d \in Deliveries : Handler(d)
      <4>1. script' # script
        BY <2>1
      <4>2. \E d \in Deliveries : \E answer : Answer(d, answer)
        BY <3>3, <4>1, HandlerFrame
      <4>3. QED
        BY <3>1, <4>2
    <3>4. ASSUME NEW q \in Requests, Command(q)
          PROVE  RunCommand(r)
      <4>1. q = r
        BY <1>1, <2>1, <3>4 DEF Command, RunCommand, SendRequest, GiveUpWaiting
      <4>2. QED
        BY <2>1, <3>4, <4>1 DEF Command, SendRequest, GiveUpWaiting
    <3>5. QED
      BY <2>1, <3>2, <3>3, <3>4
         DEF Next, Ending, Outside, MoveToEnd, Finalize, BeginEnding, LeaseEnds, StartTurn,
             vars, state
  <2>2. ASSUME NEW r \in Requests, RunCommand(r)
        PROVE  attempt[TurnOf[r]].opened
    BY <1>1, <2>2 DEF RunCommand, TurnsKnown
  <2>3. QED
    BY <1>1, <1>2, <2>1, <2>2, ReplyAssumption DEF TurnsKnown
<1>7. /\ control'.at # "off" => control'.turn \in Turns /\ attempt'[control'.turn].opened
      /\ control'.at = "finalize" => ~OnTurn(session', control'.turn)
  <2>1. CASE control' = control
    BY <1>1, <1>2, <2>1 DEF TurnsKnown
  <2>2. CASE BeginEnding("cancelled") \/ BeginEnding("stopped")
    <3>1. control'.turn = session.turn /\ control'.at = "move" /\ session.status = "busy"
      BY <2>2 DEF BeginEnding
    <3>2. QED
      BY <1>1, <1>2, <3>1 DEF TurnsKnown
  <2>3. CASE MoveToEnd
    <3>1. control'.turn = control.turn /\ control.at = "move"
      BY <1>1, <2>3 DEF MoveToEnd, ControlRow
    <3>2. control'.at = "finalize" => session'.status # "busy"
      BY <1>1, <2>3 DEF MoveToEnd, ControlRow
    <3>3. QED
      BY <1>1, <1>2, <3>1, <3>2 DEF TurnsKnown, OnTurn
  <2>4. CASE Finalize \/ Restart
    BY <1>1, <2>4 DEF Finalize, Restart, ControlRow
  <2>5. QED
    BY <2>1, <2>2, <2>3, <2>4, HandlerFrame
       DEF Next, Ending, Outside, LeaseEnds, StartTurn, Command, RunCommand, SendRequest,
           GiveUpWaiting, vars, state
<1>8. QED
  BY <1>3, <1>4, <1>5, <1>6, <1>7 DEF TurnsKnown

LEMMA OnlyStartOpens ==
    ASSUME Typed, [Next]_vars, NEW t \in Turns, attempt'[t].opened, ~attempt[t].opened
    PROVE  StartTurn(t)
<1>1. attempt \in [Turns -> AttemptRow] /\ attempt[t] \in AttemptRow
  BY DEF Typed, TypeOK, TablesOK
<1>2. \A a \in AttemptRow : \A r, action :
         /\ Released(a, r).opened = a.opened
         /\ Closed(a, action).opened = a.opened
         /\ EndedRow(a, action).opened = a.opened
         /\ [a EXCEPT !.holder = r, !.lapsed = FALSE].opened = a.opened
         /\ [a EXCEPT !.completed = FALSE].opened = a.opened
         /\ [a EXCEPT !.notified = TRUE].opened = a.opened
         /\ [a EXCEPT !.lapsed = TRUE].opened = a.opened
  BY DEF Released, Closed, EndedRow, AttemptRow
<1>3. attempt' # attempt
  OBVIOUS
<1>4. ASSUME NEW d \in Deliveries, NEW x, attempt' = [attempt EXCEPT ![TurnOf[d[1]]] = x]
      PROVE  x.opened # attempt[TurnOf[d[1]]].opened
  BY <1>1, <1>4, DeliveryType
<1>5. ASSUME NEW d \in Deliveries, Handler(d)
      PROVE  FALSE
  <2> DEFINE u == TurnOf[d[1]]
             a == attempt[u]
  <2>1. a \in AttemptRow
    BY <1>1, DeliveryType
  <2>2. \/ \E r : attempt' = [attempt EXCEPT ![u] = Released(a, r)]
        \/ \E action : attempt' = [attempt EXCEPT ![u] = Closed(a, action)]
        \/ \E r : attempt' = [attempt EXCEPT ![u] = [a EXCEPT !.holder = r, !.lapsed = FALSE]]
        \/ attempt' = [attempt EXCEPT ![u] = [a EXCEPT !.completed = FALSE]]
        \/ attempt' = [attempt EXCEPT ![u] = [a EXCEPT !.notified = TRUE]]
        \/ attempt' = [attempt EXCEPT ![u] = a]
    <3>1. CASE Release(d) \/ Unclaim(d)
      BY <3>1 DEF Release, Unclaim
    <3>2. CASE ClaimTurn(d)
      BY <1>1, <1>3, <3>2, DeliveryType DEF ClaimTurn
    <3>3. CASE Settle(d) \/ MarkNotified(d)
      BY <1>1, <3>3, DeliveryType DEF Settle, MarkNotified
    <3>4. CASE Tidy(d)
      BY <3>4 DEF Tidy
    <3>5. QED
      BY <1>3, <1>5, <3>1, <3>2, <3>3, <3>4
         DEF Handler, SlackCall, ClaimReply, Resolve, CheckTurn, PostReply, PostSuppressed,
             PostRefused, PostUnknown, PostBreaks, PostNotice, NoticeRefused, Record,
             RecordUnknown, Fail, CompleteTurn, ClaimNotice, NoticeFails, RecordNotice,
             HandlerBreaks
  <2>3. /\ \A r : Released(a, r).opened = a.opened
        /\ \A action : Closed(a, action).opened = a.opened
        /\ \A r : [a EXCEPT !.holder = r, !.lapsed = FALSE].opened = a.opened
        /\ [a EXCEPT !.completed = FALSE].opened = a.opened
        /\ [a EXCEPT !.notified = TRUE].opened = a.opened
    BY <1>2, <2>1
  <2> HIDE DEF a
  <2>4. \E x : attempt' = [attempt EXCEPT ![u] = x] /\ x.opened = a.opened
    <3>1. ASSUME NEW r, attempt' = [attempt EXCEPT ![u] = Released(a, r)]
          PROVE  <2>4!:
      BY <2>3, <3>1
    <3>2. ASSUME NEW action, attempt' = [attempt EXCEPT ![u] = Closed(a, action)]
          PROVE  <2>4!:
      BY <2>3, <3>2
    <3>3. ASSUME NEW r, attempt' = [attempt EXCEPT ![u] = [a EXCEPT !.holder = r, !.lapsed = FALSE]]
          PROVE  <2>4!:
      BY <2>3, <3>3
    <3>4. CASE \/ attempt' = [attempt EXCEPT ![u] = [a EXCEPT !.completed = FALSE]]
               \/ attempt' = [attempt EXCEPT ![u] = [a EXCEPT !.notified = TRUE]]
               \/ attempt' = [attempt EXCEPT ![u] = a]
      BY <2>3, <3>4
    <3>5. QED
      BY <2>2, <3>1, <3>2, <3>3, <3>4
  <2>5. QED
    BY <1>4, <2>4 DEF a
<1>6. ASSUME NEW u, NEW action, attempt' = Finalized(u, action)
      PROVE  FALSE
  <2>1. attempt'[t] \in {attempt[t], Closed(attempt[t], action), EndedRow(attempt[t], action)}
    BY <1>6 DEF Finalized, EndedRow
  <2>2. QED
    BY <1>1, <1>2, <2>1
<1>7. ASSUME NEW u \in Turns, StartTurn(u)
      PROVE  u = t
  BY <1>1, <1>7 DEF StartTurn
<1>8. CASE LeaseEnds
  <2>1. PICK u \in Turns : attempt' = [attempt EXCEPT ![u] = [attempt[u] EXCEPT !.lapsed = TRUE]]
    BY <1>1, <1>3, <1>8 DEF LeaseEnds
  <2>2. QED
    BY <1>1, <1>2, <2>1
<1>9. QED
  BY <1>3, <1>5, <1>6, <1>7, <1>8
     DEF Next, Ending, Outside, MoveToEnd, Finalize, Restart, BeginEnding, Command, RunCommand,
         SendRequest, GiveUpWaiting, vars, state

\* What takes the command of a turn away is a request that the turn will not answer any
\* more: it is over, or another request of the same turn holds it.
LEMMA CommandKeptStep ==
    ASSUME Typed, Means, [Next]_vars
    PROVE  CommandKept'
<1> SUFFICES ASSUME NEW t \in Turns, attempt'[t].opened, t \notin command'
             PROVE  Over(t)' \/ t \in crossed'
  BY DEF CommandKept
<1>1. /\ TurnsKnown /\ CommandKept /\ session \in SessionRow
      /\ attempt \in [Turns -> AttemptRow]
  BY DEF Means, Typed, TypeOK, TablesOK
<1>2. crossed \subseteq crossed'
  <2>1. ASSUME NEW d \in Deliveries, Handler(d)
        PROVE  crossed \subseteq crossed'
    <3>1. CASE ClaimTurn(d)
      BY <3>1 DEF ClaimTurn
    <3>2. CASE SlackCall(d)
      BY <3>2 DEF SlackCall, PostReply, PostSuppressed, PostRefused, PostUnknown, PostBreaks,
                  PostNotice, NoticeRefused
    <3>3. CASE ~ClaimTurn(d) /\ ~SlackCall(d)
      BY <2>1, <3>3
         DEF Handler, ClaimReply, Resolve, CheckTurn, Record, RecordUnknown, Release, Fail, Settle,
             Unclaim, CompleteTurn, Tidy, ClaimNotice, NoticeFails, RecordNotice, MarkNotified,
             HandlerBreaks, history
    <3>4. QED
      BY <3>1, <3>2, <3>3
  <2>2. QED
    BY <2>1 DEF Next, Ending, Outside, MoveToEnd, Finalize, BeginEnding, LeaseEnds, StartTurn,
                Restart, Command, RunCommand, SendRequest, GiveUpWaiting, vars, history
<1>3. CASE attempt[t].opened /\ (Over(t) \/ t \in crossed)
  BY <1>2, <1>3, OverStays
<1>4. CASE ~attempt[t].opened
  <2>1. StartTurn(t)
    BY <1>4, OnlyStartOpens
  <2>2. t \in command'
    BY <2>1 DEF StartTurn
  <2>3. QED
    BY <2>2
<1>5. CASE attempt[t].opened /\ t \in command
  <2>1. CASE Finalize
    <3>1. t = control.turn /\ ~OnTurn(session, t)
      BY <1>1, <1>5, <2>1 DEF Finalize, TurnsKnown
    <3>2. QED
      BY <1>5, <3>1, OverStays DEF Over
  <2>2. CASE Restart
    <3>1. ~OnTurn(session', t)
      BY <1>1, <2>2 DEF Restart, OnTurn, SessionRow
    <3>2. QED
      BY <3>1 DEF Over
  <2>3. ASSUME NEW d \in Deliveries, Handler(d)
        PROVE  Over(t)' \/ t \in crossed'
    <3>1. t = TurnOf[d[1]]
      BY <1>5, <2>3
         DEF Handler, SlackCall, ClaimReply, Resolve, CheckTurn, ClaimTurn, PostReply,
             PostSuppressed, PostRefused, PostUnknown, PostBreaks, PostNotice, Release,
             NoticeRefused, Record, RecordUnknown, Fail, Settle, Unclaim, CompleteTurn, Tidy,
             ClaimNotice, NoticeFails, RecordNotice, MarkNotified, HandlerBreaks
    <3>2. Known(d)
      BY DEF Means
    <3>3. CASE CheckTurn(d)
      <4>1. \/ attempt[t].completed \/ ~OnTurn(thread[d].seen, t)
            \/ attempt[t].action = "cancelled"
        BY <1>5, <3>1, <3>3 DEF CheckTurn, Disowned
      <4>2. Over(t)
        BY <1>1, <1>5, <3>1, <3>2, <3>3, <4>1 DEF Over, Known, TurnsKnown, CheckTurn, At
      <4>3. QED
        BY <1>5, <4>2, OverStays
    <3>4. CASE ClaimTurn(d)
      <4>1. ~ClaimableTurn(t, d[1])
        BY <1>5, <3>1, <3>4 DEF ClaimTurn
      <4>2. CASE OnTurn(session, t) /\ attempt[t].action = "none"
        <5>1. attempt[t].holder \notin {NoRequest, d[1]}
          BY <1>1, <1>5, <4>1, <4>2 DEF ClaimableTurn, TurnsKnown
        <5>2. t \in crossed'
          BY <3>1, <3>4, <4>1, <5>1 DEF ClaimTurn
        <5>3. QED
          BY <5>2
      <4>3. CASE ~(OnTurn(session, t) /\ attempt[t].action = "none")
        BY <1>5, <4>3, OverStays DEF Over
      <4>4. QED
        BY <4>2, <4>3
    <3>5. CASE CompleteTurn(d)
      <4>1. ~OnTurn(session, t)
        BY <1>5, <3>1, <3>5 DEF CompleteTurn
      <4>2. QED
        BY <1>5, <4>1, OverStays DEF Over
    <3>6. CASE Tidy(d)
      <4>1. Over(t)
        BY <3>1, <3>2, <3>6 DEF Known, Tidy, At
      <4>2. QED
        BY <1>5, <4>1, OverStays
    <3>7. CASE ClaimNotice(d) \/ MarkNotified(d)
      <4>1. attempt[t].action # "none"
        BY <3>1, <3>2, <3>7 DEF Known, NoticePlaces, ClaimNotice, MarkNotified, At
      <4>2. QED
        BY <1>5, <4>1, OverStays DEF Over
    <3>8. QED
      BY <1>5, <2>3, <3>3, <3>4, <3>5, <3>6, <3>7
         DEF Handler, SlackCall, ClaimReply, Resolve, PostReply, PostSuppressed, PostRefused,
             PostUnknown, PostBreaks, PostNotice, Release, NoticeRefused, Record,
             RecordUnknown, Fail, Settle, Unclaim, NoticeFails, RecordNotice,
             HandlerBreaks
  <2>4. QED
    BY <1>5, <2>1, <2>2, <2>3
       DEF Next, Ending, Outside, MoveToEnd, BeginEnding, LeaseEnds, StartTurn, Command,
           RunCommand, SendRequest, GiveUpWaiting, vars, state
<1>6. QED
  BY <1>1, <1>3, <1>4, <1>5 DEF CommandKept

LEMMA MeansStep == Typed /\ Means /\ [Next]_vars => Means'
<1> SUFFICES ASSUME Typed, Means, [Next]_vars PROVE Means'
  OBVIOUS
<1>1. ASSUME NEW d \in Deliveries
      PROVE  Known(d)'
  BY KnownKept, KnownNext, KnownStart
<1>2. QED
  BY <1>1, TurnsKnownStep, CommandKeptStep DEF Means

LEMMA MeansInit == Init => Means
<1> SUFFICES ASSUME Init PROVE Means
  OBVIOUS
<1>1. \A d \in Deliveries : Known(d)
  BY DEF Init, Off, Known, NoticePlaces
<1>2. TurnsKnown
  BY DEF Init, TurnsKnown, NoAttempt
<1>3. CommandKept
  BY DEF Init, CommandKept, NoAttempt
<1>4. QED
  BY <1>1, <1>2, <1>3 DEF Means

\* A worker keeps the means to answer the turn it is on, whatever late, repeated or
\* refused requests of earlier turns do, unless two requests of this turn have crossed.
THEOREM TurnKeepsCommand == Spec => []OpenTurnHasCommand
<1>1. Spec => [](Typed /\ Means)
  <2>1. Typed /\ Means /\ [Next]_vars => (Typed /\ Means)'
    BY TypedStep, MeansStep
  <2>2. QED
    BY <2>1, TypedInit, MeansInit, PTL DEF Spec
<1>2. Means => OpenTurnHasCommand
  BY DEF Means, CommandKept, OpenTurnHasCommand, Answerable, Over
<1>3. QED
  BY <1>1, <1>2, PTL

=============================================================================
