-------------------------- MODULE CaseReplyProofs ---------------------------
(***************************************************************************)
(* Theorems about CaseReply, for every set of requests and turns, every    *)
(* number of tries and deliveries and every budget of failures: its types, *)
(* and what becomes of a long text, whatever its length.                   *)
(***************************************************************************)
EXTENDS CaseReply, FiniteSetTheorems, SequenceTheorems, WellFoundedInduction, TLAPS

\* What a call of chat.postMessage may come to: the text is in Slack at most once,
\* surely once when Slack took it and surely not when it was refused.  (Only a 429 is
\* tried again, so no attempt but the last one has an effect.)
LEMMA PostOutcome ==
    \A o \in Posts :
        /\ o.verdict \in {"ok", "unknown", "refused"}
        /\ o.times \in {0, 1}
        /\ o.verdict = "ok" => o.times = 1
        /\ o.verdict = "refused" => o.times = 0
<1> DEFINE Fine(o) == /\ o.verdict \in {"ok", "unknown", "refused"}
                      /\ o.times \in {0, 1}
                      /\ o.verdict = "ok" => o.times = 1
                      /\ o.verdict = "refused" => o.times = 0
<1>1. ASSUME NEW s \in Tries("chat_postMessage"), NEW A \in Effects(s)
      PROVE  Fine([verdict |-> Classify("chat_postMessage", s[Len(s)]), times |-> Cardinality(A)])
  <2>1. PICK n \in 1..MaxRetries : s \in [1..n -> Responses]
    BY <1>1 DEF Tries
  <2>2. n \in Nat /\ n > 0 /\ Len(s) = n /\ DOMAIN s = 1..n
    BY <2>1, ClientAssumption
  <2>3. \A i \in 1..(n - 1) : s[i] = "limited"
    BY <1>1, <2>2 DEF Tries, Retried
  <2>4. A \subseteq {n}
    BY <1>1, <2>2, <2>3 DEF Effects
  <2>5. A = {} \/ A = {n}
    BY <2>4
  <2>6. IF n \in A THEN Cardinality(A) = 1 ELSE Cardinality(A) = 0
    BY <2>5, FS_EmptySet, FS_Singleton
  <2>7. /\ n \in A => s[n] \in {"ok", "server", "transport"}
        /\ s[n] = "ok" => n \in A
        /\ s[n] \in Responses
    BY <1>1, <2>1, <2>2 DEF Effects
  <2>8. QED
    BY <2>2, <2>6, <2>7 DEF Classify, Responses
<1>2. \A o \in Calls("chat_postMessage") : Fine(o)
  BY <1>1 DEF Calls
<1>3. QED
  BY <1>2 DEF Posts

\* A reaction is taken or refused; twice is as good as once.
LEMMA ReactionOutcome ==
    \A o \in Reactions : o.verdict \in {"ok", "refused"} /\ o.times = 1
<1>1. \A o \in Calls("reactions_add") : o.verdict \in {"ok", "refused"}
  BY DEF Calls, Classify
<1>2. QED
  BY <1>1 DEF Reactions


-----------------------------------------------------------------------------
(* Types *)

NoticePlaces   == {"notice_post", "notice_fail", "notice_record", "notice_mark"}
ReactionPlaces == {"off", "resolve", "check", "post", "settle", "complete", "tidy"}

\* What the types rest on: a thread that goes on with a text has a ledger row, one that
\* posts a notice has the row of the notice, and a reaction never comes to the places
\* of a text.
InPlace(d) ==
    /\ Action[d[1]] = "reaction" => thread[d].at \in ReactionPlaces
    /\ Action[d[1]] # "reaction" /\ thread[d].at \notin {"off", "claim"}
       => reply[d[1]].status # "none"
    /\ thread[d].at \in NoticePlaces => notice[TurnOf[d[1]]].status # "none"

RowsInPlace == \A d \in Deliveries : InPlace(d)

EndingsNamed == control.at # "off" => control.action # "none"

Typed == TypeOK /\ RowsInPlace /\ EndingsNamed

LEMMA DeliveryType ==
    \A d \in Deliveries : /\ d[1] \in Requests
                          /\ d[2] \in 1..MaxDeliveries
                          /\ d = <<d[1], d[2]>>
                          /\ TurnOf[d[1]] \in Turns
BY ReplyAssumption DEF Deliveries

LEMMA OffType == Off \in [at: {"off"}, seen: SessionRow, retry: {FALSE}, answer: {"none"}]
BY DEF Off, SessionRow

\* A thread of the hook server goes from place to place; no other one is touched.
LEMMA ThreadStep ==
    ASSUME Typed, NEW d \in Deliveries, NEW x \in ThreadRow,
           thread' = [thread EXCEPT ![d] = x]
    PROVE  /\ thread' \in [Deliveries -> ThreadRow]
           /\ thread'[d] = x
           /\ \A e \in Deliveries \ {d} : thread'[e] = thread[e]
BY DEF Typed, TypeOK, ProcessesOK

\* The same of a thread that ends; the script hears of it if it still waits.
LEMMA AnswerStep ==
    ASSUME Typed, NEW d \in Deliveries, NEW answer, Answer(d, answer)
    PROVE  /\ thread' = [thread EXCEPT ![d] = Off] /\ Off \in ThreadRow
           /\ script' \in [Requests -> ScriptRow]
           /\ \A r \in Requests :
                 /\ script'[r].last = script[r].last
                 /\ script'[r].at # script[r].at =>
                       /\ r = d[1] /\ script[r].at = "wait"
                       /\ script'[r].at \in {"ok", "backoff", "failed"}
                       /\ script'[r].at = "ok" => answer = "ok"
<1>1. Off \in ThreadRow
  BY OffType DEF ThreadRow, Places
<1>2. ASSUME NEW w \in ScriptRow
      PROVE  /\ Told(w, answer) \in ScriptRow
             /\ Told(w, answer).last = w.last
             /\ Told(w, answer).at \in {"ok", "backoff", "failed"}
             /\ Told(w, answer).at = "ok" => answer = "ok"
  BY DEF Told, ScriptRow
<1>3. /\ d[1] \in Requests /\ script \in [Requests -> ScriptRow]
      /\ \A r \in Requests : script[r] \in ScriptRow
  BY DeliveryType DEF Typed, TypeOK, ProcessesOK
<1>4. \A r \in Requests \ {d[1]} : script'[r] = script[r]
  BY <1>3 DEF Answer
<1>5. script'[d[1]] = script[d[1]] \/
      (script[d[1]].at = "wait" /\ script'[d[1]] = Told(script[d[1]], answer))
  BY <1>3 DEF Answer
<1>6. script' \in [Requests -> ScriptRow]
  <2>1. \A r \in Requests : script'[r] \in ScriptRow
    BY <1>2, <1>3, <1>4, <1>5
  <2>2. QED
    BY <1>3, <2>1 DEF Answer
<1>7. QED
  BY <1>1, <1>2, <1>3, <1>4, <1>5, <1>6 DEF Answer

LEMMA GotoStep ==
    ASSUME Typed, NEW d \in Deliveries, NEW where \in Places, Goto(d, where)
    PROVE  /\ thread' \in [Deliveries -> ThreadRow]
           /\ thread'[d].at = where
           /\ \A e \in Deliveries \ {d} : thread'[e] = thread[e]
<1>1. [Off EXCEPT !.at = where] \in ThreadRow /\ [Off EXCEPT !.at = where].at = where
  BY OffType DEF ThreadRow
<1>2. QED
  BY <1>1, ThreadStep DEF Goto

LEMMA FailStep ==
    ASSUME Typed, NEW d \in Deliveries, NEW retry \in BOOLEAN,
           NEW answer \in {"ok", "again", "no"}, FailWith(d, retry, answer)
    PROVE  /\ thread' \in [Deliveries -> ThreadRow]
           /\ thread'[d].at = "fail" /\ thread'[d].retry = retry /\ thread'[d].answer = answer
           /\ \A e \in Deliveries \ {d} : thread'[e] = thread[e]
<1> DEFINE x == [Off EXCEPT !.at = "fail", !.retry = retry, !.answer = answer]
<1>1. x \in ThreadRow /\ x.at = "fail" /\ x.retry = retry /\ x.answer = answer
  BY OffType DEF ThreadRow, Places
<1>2. thread' = [thread EXCEPT ![d] = x]
  BY DEF FailWith
<1> HIDE DEF x
<1>3. QED
  BY <1>1, <1>2, ThreadStep

LEMMA EndStep ==
    ASSUME Typed, NEW d \in Deliveries, NEW answer, Answer(d, answer)
    PROVE  /\ thread' \in [Deliveries -> ThreadRow]
           /\ thread'[d].at = "off"
           /\ \A e \in Deliveries \ {d} : thread'[e] = thread[e]
           /\ script' \in [Requests -> ScriptRow]
BY AnswerStep, ThreadStep, OffType

\* The rows of the ledger: claimed, settled or failed, they keep their request.
LEMMA ReceivedType ==
    \A r \in Requests :
        Received(r) \in Row /\ Received(r).for = r /\ Received(r).status = "received"
BY DEF Row, Received, NoRow

LEMMA MarkedType ==
    \A row \in Row : \A status \in {"posted", "posted_unknown"} :
        /\ Marked(row, status) \in Row /\ Marked(row, status).for = row.for
        /\ Marked(row, status).status = status /\ Marked(row, status).retry = FALSE
BY DEF Row, Marked

LEMMA FailedType ==
    \A row \in Row : \A retry \in BOOLEAN :
        /\ Failed(row, retry) \in Row /\ Failed(row, retry).for = row.for
        /\ row.status = "posted" => Failed(row, retry) = row
        /\ row.status # "posted" => /\ Failed(row, retry).status = "failed"
                                    /\ Failed(row, retry).retry = retry
BY DEF Row, Marked, Failed

\* A step that leaves one group of the variables alone keeps its type.
LEMMA SameTypes ==
    ASSUME Typed
    PROVE  /\ UNCHANGED <<reply, notice>> => RowsOK'
           /\ UNCHANGED <<session, attempt, command>> => TablesOK'
           /\ UNCHANGED <<script, thread, control>> => ProcessesOK'
           /\ UNCHANGED <<history, budget>> => HistoryOK'
           /\ UNCHANGED <<reply, notice, thread>> => RowsInPlace'
           /\ UNCHANGED control => EndingsNamed'
BY DEF Typed, TypeOK, RowsOK, TablesOK, ProcessesOK, HistoryOK, RowsInPlace, EndingsNamed, history,
    InPlace

LEMMA SpendType ==
    ASSUME Typed, NEW k \in FaultKinds, Spend(k)
    PROVE  budget' \in [FaultKinds -> Nat]
BY DEF Typed, TypeOK, HistoryOK, Spend

\* One row of the ledger is written, with the same request and never back to nothing.
LEMMA ReplyStep ==
    ASSUME Typed, NEW r \in Requests, NEW row \in Row,
           row.status # "none", row.for = r,
           reply' = [reply EXCEPT ![r] = row], notice' = notice
    PROVE  RowsOK' /\ \A q \in Requests : reply[q].status # "none" => reply'[q].status # "none"
BY DEF Typed, TypeOK, RowsOK

LEMMA NoticeStep ==
    ASSUME Typed, NEW t \in Turns, NEW row \in Row,
           row.status # "none", row.for # NoRequest,
           notice' = [notice EXCEPT ![t] = row], reply' = reply
    PROVE  RowsOK' /\ \A u \in Turns : notice[u].status # "none" => notice'[u].status # "none"
BY DEF Typed, TypeOK, RowsOK

\* The places of the other threads stay what they are when one thread goes on.
LEMMA PlaceStep ==
    ASSUME Typed, NEW d \in Deliveries,
           \A e \in Deliveries \ {d} : thread'[e] = thread[e],
           \A q \in Requests : reply[q].status # "none" => reply'[q].status # "none",
           \A u \in Turns : notice[u].status # "none" => notice'[u].status # "none",
           InPlace(d)'
    PROVE  RowsInPlace'
BY DeliveryType DEF Typed, RowsInPlace, InPlace

\* The tables of the turns.
LEMMA AttemptStep ==
    ASSUME Typed, NEW t \in Turns, NEW a \in AttemptRow, attempt' = [attempt EXCEPT ![t] = a]
    PROVE  attempt' \in [Turns -> AttemptRow]
BY DEF Typed, TypeOK, TablesOK

LEMMA AttemptTypes ==
    ASSUME NEW a \in AttemptRow, NEW r \in Requests,
           NEW action \in {"close", "reaction", "cancelled", "stopped", "none"}
    PROVE  /\ Closed(a, action) \in AttemptRow
           /\ Released(a, r) \in AttemptRow
           /\ [a EXCEPT !.completed = TRUE, !.action = action] \in AttemptRow
BY DEF AttemptRow, Closed, Released

\* Every count of the history goes up by a number.
LEMMA CountStep ==
    ASSUME NEW S, NEW f \in [S -> Nat], NEW x \in S, NEW n \in Nat
    PROVE  /\ [f EXCEPT ![x] = f[x] + n] \in [S -> Nat]
           /\ [f EXCEPT ![x] = f[x] + n][x] = f[x] + n
           /\ \A y \in S \ {x} : [f EXCEPT ![x] = f[x] + n][y] = f[y]
OBVIOUS

-----------------------------------------------------------------------------

\* A step of one thread keeps the types if it keeps those of what it writes.
LEMMA HandlerTyped ==
    ASSUME Typed, NEW d \in Deliveries,
           thread' \in [Deliveries -> ThreadRow],
           \A e \in Deliveries \ {d} : thread'[e] = thread[e],
           script' \in [Requests -> ScriptRow], control' = control,
           RowsOK',
           \A q \in Requests : reply[q].status # "none" => reply'[q].status # "none",
           \A u \in Turns : notice[u].status # "none" => notice'[u].status # "none",
           InPlace(d)', TablesOK', HistoryOK'
    PROVE  Typed'
<1>1. RowsInPlace'
  BY PlaceStep
<1>2. ProcessesOK' /\ EndingsNamed'
  BY DEF Typed, TypeOK, ProcessesOK, EndingsNamed
<1>3. QED
  BY <1>1, <1>2 DEF Typed, TypeOK

LEMMA TypedClaimReply ==
    ASSUME Typed, NEW d \in Deliveries, ClaimReply(d)
    PROVE  Typed'
<1> DEFINE r == d[1]
<1>1. /\ r \in Requests /\ At(d, "claim") /\ Action[r] # "reaction"
      /\ reply[r] \in Row
  BY DeliveryType DEF Typed, TypeOK, RowsOK, RowsInPlace, InPlace, ReactionPlaces, ClaimReply, At
<1>2. TablesOK' /\ control' = control /\ notice' = notice
  BY SameTypes DEF ClaimReply
<1>3. CASE Claimable(reply[r], r)
  <2>1. /\ reply' = [reply EXCEPT ![r] = Received(r)] /\ Goto(d, "resolve")
        /\ UNCHANGED script
    BY <1>3 DEF ClaimReply
  <2>2. /\ RowsOK'
        /\ \A q \in Requests : reply[q].status # "none" => reply'[q].status # "none"
    BY <1>1, <1>2, <2>1, ReceivedType, ReplyStep
  <2>3. InPlace(d)'
    BY <1>1, <2>1, ReceivedType, GotoStep DEF InPlace, Places, NoticePlaces, Typed, TypeOK, RowsOK
  <2>4. takeovers' \in [Requests -> Nat]
    BY <1>1, <1>3 DEF ClaimReply, Typed, TypeOK, HistoryOK
  <2>5. HistoryOK'
    BY <2>4 DEF ClaimReply, Typed, TypeOK, HistoryOK
  <2>6. QED
    BY <1>2, <2>1, <2>2, <2>3, <2>5, GotoStep, HandlerTyped
       DEF Places, Typed, TypeOK, ProcessesOK
<1>4. CASE ~Claimable(reply[r], r)
  <2>1. Answer(d, Verdict(reply[r])) /\ UNCHANGED <<reply, history, budget>>
    BY <1>4 DEF ClaimReply, history
  <2>2. RowsOK' /\ HistoryOK'
    BY <1>2, <2>1, SameTypes
  <2>3. InPlace(d)'
    BY <2>1, EndStep DEF InPlace, ReactionPlaces, NoticePlaces
  <2>4. QED
    BY <1>2, <2>1, <2>2, <2>3, EndStep, HandlerTyped
<1>5. QED
  BY <1>3, <1>4

\* Resolve, CheckTurn and ClaimTurn read; they take a command away and claim a turn.
LEMMA TypedChecks ==
    ASSUME Typed, NEW d \in Deliveries, Resolve(d) \/ CheckTurn(d) \/ ClaimTurn(d)
    PROVE  Typed'
<1> DEFINE r == d[1]
           t == TurnOf[r]
<1>1. /\ r \in Requests /\ t \in Turns /\ InPlace(d)
      /\ attempt \in [Turns -> AttemptRow] /\ attempt[t] \in AttemptRow
      /\ session \in SessionRow /\ script \in [Requests -> ScriptRow]
  BY DeliveryType DEF Typed, TypeOK, TablesOK, RowsInPlace, ProcessesOK
<1>2. /\ UNCHANGED <<reply, notice, control>> /\ RowsOK'
  BY SameTypes DEF Resolve, CheckTurn, ClaimTurn
<1>3. CASE Resolve(d)
  <2>1. TablesOK' /\ HistoryOK' /\ At(d, "resolve")
    BY <1>3, SameTypes DEF Resolve
  <2>2. CASE session.status # "killed"
    <3> DEFINE x == [Off EXCEPT !.at = "check", !.seen = session]
    <3>1. x \in ThreadRow /\ x.at = "check"
      BY <1>1, OffType DEF ThreadRow, Places
    <3>2. thread' = [thread EXCEPT ![d] = x] /\ script' = script
      BY <1>3, <2>2 DEF Resolve
    <3> HIDE DEF x
    <3>3. InPlace(d)'
      BY <1>1, <1>2, <2>1, <3>1, <3>2, ThreadStep DEF InPlace, ReactionPlaces, NoticePlaces, At
    <3>4. QED
      BY <1>1, <1>2, <2>1, <3>1, <3>2, <3>3, ThreadStep, HandlerTyped
  <2>3. CASE session.status = "killed" /\ Action[r] = "reaction"
    <3>1. Answer(d, "no")
      BY <1>3, <2>3 DEF Resolve
    <3>2. InPlace(d)'
      BY <3>1, EndStep DEF InPlace, ReactionPlaces, NoticePlaces
    <3>3. QED
      BY <1>2, <2>1, <3>1, <3>2, EndStep, HandlerTyped
  <2>4. CASE session.status = "killed" /\ Action[r] # "reaction"
    <3>1. FailWith(d, FALSE, "no") /\ script' = script
      BY <1>3, <2>4 DEF Resolve
    <3>2. InPlace(d)'
      BY <1>1, <1>2, <2>1, <2>4, <3>1, FailStep DEF InPlace, NoticePlaces, At
    <3>3. QED
      BY <1>1, <1>2, <2>1, <3>1, <3>2, FailStep, HandlerTyped
  <2>5. QED
    BY <2>2, <2>3, <2>4
<1>4. CASE CheckTurn(d)
  <2>1. TablesOK' /\ HistoryOK' /\ At(d, "check")
    BY <1>4, SameTypes DEF CheckTurn, Typed, TypeOK, TablesOK
  <2>2. \/ Answer(d, "no") /\ Action[r] = "reaction"
        \/ Goto(d, "post") /\ script' = script
        \/ Goto(d, "turn") /\ script' = script /\ Action[r] # "reaction"
        \/ Goto(d, "notice") /\ script' = script /\ Action[r] # "reaction"
        \/ \E answer \in {"no", "ok"} :
               FailWith(d, FALSE, answer) /\ script' = script /\ Action[r] # "reaction"
    BY <1>4 DEF CheckTurn
  <2>3. CASE Answer(d, "no")
    <3>1. InPlace(d)'
      BY <2>3, EndStep DEF InPlace, ReactionPlaces, NoticePlaces
    <3>2. QED
      BY <1>2, <2>1, <2>3, <3>1, EndStep, HandlerTyped
  <2>4. ASSUME NEW where \in {"post", "turn", "notice"}, Goto(d, where), script' = script,
               where # "post" => Action[r] # "reaction"
        PROVE  Typed'
    <3>1. where \in Places
      BY DEF Places
    <3>2. InPlace(d)'
      BY <1>1, <1>2, <2>1, <2>4, <3>1, GotoStep DEF InPlace, ReactionPlaces, NoticePlaces, At
    <3>3. QED
      BY <1>1, <1>2, <2>1, <2>4, <3>1, <3>2, GotoStep, HandlerTyped
  <2>5. ASSUME NEW answer \in {"no", "ok"}, FailWith(d, FALSE, answer), script' = script,
               Action[r] # "reaction"
        PROVE  Typed'
    <3>1. InPlace(d)'
      BY <1>1, <1>2, <2>1, <2>5, FailStep DEF InPlace, NoticePlaces, At
    <3>2. QED
      BY <1>1, <1>2, <2>1, <2>5, <3>1, FailStep, HandlerTyped
  <2>6. QED
    BY <2>2, <2>3, <2>4, <2>5
<1>5. CASE ClaimTurn(d)
  <2>1. At(d, "turn") /\ script' = script /\ Action[r] # "reaction"
    BY <1>1, <1>5 DEF ClaimTurn, At, InPlace, ReactionPlaces
  <2>2. attempt' \in [Turns -> AttemptRow]
    <3> DEFINE a == [attempt[t] EXCEPT !.holder = r, !.lapsed = FALSE]
    <3>1. a \in AttemptRow
      BY <1>1 DEF AttemptRow
    <3>2. attempt' = attempt \/ attempt' = [attempt EXCEPT ![t] = a]
      BY <1>5 DEF ClaimTurn
    <3> HIDE DEF a
    <3>3. QED
      BY <1>1, <3>1, <3>2
  <2>3. TablesOK'
    BY <1>5, <2>2 DEF ClaimTurn, Typed, TypeOK, TablesOK
  <2>4. steals' \in [Turns -> Nat] /\ crossed' \subseteq Turns
    <3>1. steals \in [Turns -> Nat] /\ crossed \subseteq Turns
      BY DEF Typed, TypeOK, HistoryOK
    <3>2. crossed' \in {crossed, crossed \cup {t}}
      BY <1>5 DEF ClaimTurn
    <3>3. steals' = steals \/ steals' = [steals EXCEPT ![t] = steals[t]]
          \/ steals' = [steals EXCEPT ![t] = steals[t] + 1]
      BY <1>5 DEF ClaimTurn
    <3>4. QED
      BY <1>1, <3>1, <3>2, <3>3
  <2>5. HistoryOK'
    BY <1>5, <2>4 DEF ClaimTurn, Typed, TypeOK, HistoryOK
  <2>6. Goto(d, "post") \/ FailWith(d, FALSE, "no")
    BY <1>5 DEF ClaimTurn
  <2>7. CASE Goto(d, "post")
    <3>1. InPlace(d)'
      BY <1>1, <1>2, <2>1, <2>7, GotoStep DEF InPlace, Places, NoticePlaces, At
    <3>2. QED
      BY <1>1, <1>2, <2>1, <2>3, <2>5, <2>7, <3>1, GotoStep, HandlerTyped DEF Places
  <2>8. CASE FailWith(d, FALSE, "no")
    <3>1. InPlace(d)'
      BY <1>1, <1>2, <2>1, <2>8, FailStep DEF InPlace, NoticePlaces, At
    <3>2. QED
      BY <1>1, <1>2, <2>1, <2>3, <2>5, <2>8, <3>1, FailStep, HandlerTyped
  <2>9. QED
    BY <2>6, <2>7, <2>8
<1>6. QED
  BY <1>3, <1>4, <1>5

\* The Slack calls write nothing but the history and the budget.  What the call of a
\* post added to posts is a number.
LEMMA OutcomeOf ==
    ASSUME NEW d \in Deliveries, NEW o \in Outcomes(d)
    PROVE  /\ o.verdict \in {"ok", "unknown", "refused"}
           /\ o.times \in {0, 1}
           /\ o.verdict = "ok" => o.times = 1
           /\ Action[d[1]] # "reaction" /\ o.verdict = "refused" => o.times = 0
           /\ o.verdict = "unknown" => Action[d[1]] # "reaction"
BY PostOutcome, ReactionOutcome DEF Outcomes

LEMMA ReachedType ==
    ASSUME Typed, NEW r \in Requests, NEW n \in {0, 1}, Reached(r, n)
    PROVE  /\ posts' \in [Requests -> Nat]
           /\ posts'[r] = posts[r] + n
           /\ \A q \in Requests \ {r} : posts'[q] = posts[q]
BY DEF Typed, TypeOK, HistoryOK, Reached

LEMMA ShownType ==
    ASSUME Typed, NEW r \in Requests, TurnOf[r] \in Turns, NEW n \in {0, 1}, Shown(r, n)
    PROVE  /\ shown' \in [Turns -> Nat]
           /\ shown'[TurnOf[r]] = shown[TurnOf[r]] + n
           /\ \A u \in Turns \ {TurnOf[r]} : shown'[u] = shown[u]
           /\ discarded' \subseteq Requests /\ discarded \subseteq discarded'
           /\ n = 1 => r \in discarded'
BY DEF Typed, TypeOK, HistoryOK, Shown

LEMMA TypedPosts ==
    ASSUME Typed, NEW d \in Deliveries,
           \/ PostReply(d) \/ PostSuppressed(d) \/ PostRefused(d) \/ PostUnknown(d)
           \/ PostBreaks(d)
    PROVE  Typed'
<1> DEFINE r == d[1]
<1>1. /\ r \in Requests /\ InPlace(d) /\ At(d, "post") /\ script \in [Requests -> ScriptRow]
      /\ UNCHANGED <<session, attempt, reply, notice, command, control>>
  BY DeliveryType
     DEF Typed, TypeOK, RowsInPlace, ProcessesOK, PostReply, PostSuppressed, PostRefused,
         PostUnknown, PostBreaks
<1>2. RowsOK' /\ TablesOK'
  BY <1>1, SameTypes
<1>3. posts' \in [Requests -> Nat]
  <2>1. posts' = posts \/ \E o \in Outcomes(d) : Reached(r, o.times)
    BY DEF PostReply, PostSuppressed, PostRefused, PostUnknown, PostBreaks
  <2>2. QED
    BY <1>1, <2>1, OutcomeOf, ReachedType DEF Typed, TypeOK, HistoryOK
<1>4. budget' \in [FaultKinds -> Nat]
  <2>1. budget' = budget \/ \E k \in FaultKinds : Spend(k)
    BY DEF PostReply, PostSuppressed, PostRefused, PostUnknown, PostBreaks, FaultKinds
  <2>2. QED
    BY <2>1, SpendType DEF Typed, TypeOK, HistoryOK
<1>5. /\ doubts' \in {doubts, doubts \cup {r}} /\ broken' \in {broken, TRUE}
      /\ muted' \in {muted, muted \cup {r}}
      /\ UNCHANGED <<shown, takeovers, retakes, steals, discarded, blind, crossed>>
  BY DEF PostReply, PostSuppressed, PostRefused, PostUnknown, PostBreaks
<1>6. HistoryOK'
  BY <1>1, <1>3, <1>4, <1>5 DEF Typed, TypeOK, HistoryOK
<1>7. \/ Goto(d, "settle") /\ script' = script
      \/ Answer(d, "again")
      \/ /\ Action[r] # "reaction" /\ script' = script
         /\ \E where \in {"record", "release", "record_unknown"} : Goto(d, where)
  BY OutcomeOf DEF PostReply, PostSuppressed, PostRefused, PostUnknown, PostBreaks
<1>8. ASSUME NEW where \in {"settle", "record", "release", "record_unknown"},
             Goto(d, where), script' = script, where # "settle" => Action[r] # "reaction"
      PROVE  Typed'
  <2>1. where \in Places
    BY DEF Places
  <2>2. InPlace(d)'
    BY <1>1, <1>8, <2>1, GotoStep DEF InPlace, ReactionPlaces, NoticePlaces, At
  <2>3. QED
    BY <1>1, <1>2, <1>6, <1>8, <2>1, <2>2, GotoStep, HandlerTyped
<1>9. CASE Answer(d, "again")
  <2>1. InPlace(d)'
    BY <1>9, EndStep DEF InPlace, ReactionPlaces, NoticePlaces
  <2>2. QED
    BY <1>1, <1>2, <1>6, <1>9, <2>1, EndStep, HandlerTyped
<1>10. QED
  BY <1>7, <1>8, <1>9

LEMMA TypedRecords ==
    ASSUME Typed, NEW d \in Deliveries, Record(d) \/ RecordUnknown(d) \/ Fail(d)
    PROVE  Typed'
<1> DEFINE r == d[1]
<1>1. /\ r \in Requests /\ InPlace(d) /\ script \in [Requests -> ScriptRow]
      /\ reply[r] \in Row /\ reply[r].status # "none" /\ reply[r].for = r
      /\ thread[d].retry \in BOOLEAN
  BY DeliveryType
     DEF Typed, TypeOK, RowsInPlace, InPlace, ReactionPlaces, ProcessesOK, RowsOK, ThreadRow,
         At, Record, RecordUnknown, Fail
<1>2. /\ TablesOK' /\ control' = control /\ notice' = notice
  BY SameTypes DEF Record, RecordUnknown, Fail
<1>3. HistoryOK'
  <2>1. budget' = budget \/ Spend("ledger")
    BY DEF Record, RecordUnknown, Fail
  <2>2. budget' \in [FaultKinds -> Nat]
    BY <2>1, SpendType DEF FaultKinds, Typed, TypeOK, HistoryOK
  <2>3. /\ broken' \in {broken, TRUE}
        /\ UNCHANGED <<posts, shown, takeovers, retakes, steals, doubts, muted, discarded,
                       blind, crossed>>
    BY DEF Record, RecordUnknown, Fail, history
  <2>4. QED
    BY <2>2, <2>3 DEF Typed, TypeOK, HistoryOK
<1>4. \/ reply' = reply
      \/ \E row \in Row : row.status # "none" /\ row.for = r /\ reply' = [reply EXCEPT ![r] = row]
  <2>1. \/ reply' = reply
        \/ \E status \in {"posted", "posted_unknown"} :
              reply' = [reply EXCEPT ![r] = Marked(reply[r], status)]
        \/ reply' = [reply EXCEPT ![r] = Failed(reply[r], thread[d].retry)]
    BY <1>1 DEF Record, RecordUnknown, Fail
  <2>2. QED
    BY <1>1, <2>1, MarkedType, FailedType
<1>5. /\ RowsOK'
      /\ \A q \in Requests : reply[q].status # "none" => reply'[q].status # "none"
  BY <1>1, <1>2, <1>4, ReplyStep, SameTypes
<1>6. CASE Goto(d, "settle") /\ script' = script
  <2>1. InPlace(d)'
    BY <1>1, <1>5, <1>6, GotoStep DEF InPlace, ReactionPlaces, NoticePlaces, Places
  <2>2. QED
    BY <1>1, <1>2, <1>3, <1>5, <1>6, <2>1, GotoStep, HandlerTyped DEF Places
<1>7. CASE Answer(d, thread[d].answer)
  <2>1. InPlace(d)'
    BY <1>7, EndStep DEF InPlace, ReactionPlaces, NoticePlaces
  <2>2. QED
    BY <1>2, <1>3, <1>5, <1>7, <2>1, EndStep, HandlerTyped
<1>8. QED
  BY <1>6, <1>7 DEF Record, RecordUnknown, Fail

LEMMA TypedEnds ==
    ASSUME Typed, NEW d \in Deliveries,
           Release(d) \/ Settle(d) \/ Unclaim(d) \/ CompleteTurn(d) \/ Tidy(d)
    PROVE  Typed'
<1> DEFINE r == d[1]
           t == TurnOf[r]
<1>1. /\ r \in Requests /\ t \in Turns /\ InPlace(d) /\ script \in [Requests -> ScriptRow]
      /\ attempt \in [Turns -> AttemptRow] /\ attempt[t] \in AttemptRow
      /\ session \in SessionRow /\ command \subseteq Turns
  BY DeliveryType DEF Typed, TypeOK, RowsInPlace, ProcessesOK, TablesOK
<1>2. /\ RowsOK' /\ HistoryOK' /\ UNCHANGED <<reply, notice, control>>
  BY SameTypes DEF Release, Settle, Unclaim, CompleteTurn, Tidy
<1>3. attempt' \in [Turns -> AttemptRow]
  <2>1. \/ attempt' = attempt
        \/ attempt' = [attempt EXCEPT ![t] = Released(attempt[t], r)]
        \/ attempt' = [attempt EXCEPT ![t] = Closed(attempt[t], "close")]
        \/ attempt' = [attempt EXCEPT ![t] = Closed(attempt[t], "reaction")]
        \/ attempt' = [attempt EXCEPT ![t] = attempt[t]]
        \/ attempt' = [attempt EXCEPT ![t] = [attempt[t] EXCEPT !.completed = FALSE]]
    BY DEF Release, Settle, Unclaim, CompleteTurn, Tidy
  <2>2. [attempt[t] EXCEPT !.completed = FALSE] \in AttemptRow
    BY <1>1 DEF AttemptRow
  <2>3. /\ Released(attempt[t], r) \in AttemptRow
        /\ Closed(attempt[t], "close") \in AttemptRow
        /\ Closed(attempt[t], "reaction") \in AttemptRow
    BY <1>1, AttemptTypes
  <2>4. QED
    BY <1>1, <2>1, <2>2, <2>3, AttemptStep
<1>4. TablesOK'
  <2>1. session' \in {session, [status |-> "idle", turn |-> NoTurn]}
        /\ command' \in {command, command \ {t}}
    BY DEF Release, Settle, Unclaim, CompleteTurn, Tidy
  <2>2. QED
    BY <1>1, <1>3, <2>1 DEF TablesOK, SessionRow
<1>5. CASE Release(d)
  <2>1. FailWith(d, TRUE, "again") /\ script' = script /\ At(d, "release")
    BY <1>5 DEF Release
  <2>2. InPlace(d)'
    BY <1>1, <1>2, <2>1, FailStep DEF InPlace, ReactionPlaces, NoticePlaces, At
  <2>3. QED
    BY <1>1, <1>2, <1>4, <2>1, <2>2, FailStep, HandlerTyped
<1>6. CASE Answer(d, "ok")
  <2>1. InPlace(d)'
    BY <1>6, EndStep DEF InPlace, ReactionPlaces, NoticePlaces
  <2>2. QED
    BY <1>2, <1>4, <1>6, <2>1, EndStep, HandlerTyped
<1>7. ASSUME NEW where \in {"unclaim", "complete", "tidy"}, Goto(d, where), script' = script,
             where = "unclaim" => Action[r] # "reaction",
             At(d, "settle") \/ At(d, "complete")
      PROVE  Typed'
  <2>1. where \in Places
    BY DEF Places
  <2>2. InPlace(d)'
    BY <1>1, <1>2, <1>7, <2>1, GotoStep DEF InPlace, ReactionPlaces, NoticePlaces, At
  <2>3. QED
    BY <1>1, <1>2, <1>4, <1>7, <2>1, <2>2, GotoStep, HandlerTyped
<1>8. CASE Settle(d)
  BY <1>7, <1>8 DEF Settle
<1>9. CASE CompleteTurn(d)
  BY <1>6, <1>7, <1>9 DEF CompleteTurn
<1>10. QED
  BY <1>5, <1>6, <1>8, <1>9 DEF Unclaim, Tidy

LEMMA TypedNotices ==
    ASSUME Typed, NEW d \in Deliveries,
           \/ ClaimNotice(d) \/ PostNotice(d) \/ NoticeRefused(d) \/ NoticeFails(d)
           \/ RecordNotice(d) \/ MarkNotified(d)
    PROVE  Typed'
<1> DEFINE r == d[1]
           t == TurnOf[r]
<1>1. /\ r \in Requests /\ t \in Turns /\ InPlace(d) /\ script \in [Requests -> ScriptRow]
      /\ attempt \in [Turns -> AttemptRow] /\ attempt[t] \in AttemptRow
      /\ session \in SessionRow /\ command \subseteq Turns /\ notice[t] \in Row
  BY DeliveryType DEF Typed, TypeOK, RowsInPlace, ProcessesOK, TablesOK, RowsOK
<1>2. /\ Action[r] # "reaction" /\ reply[r].status # "none"
      /\ At(d, "notice") \/ notice[t].status # "none"
  BY <1>1 DEF InPlace, ReactionPlaces, NoticePlaces, At, ClaimNotice, PostNotice, NoticeRefused,
              NoticeFails, RecordNotice, MarkNotified
<1>3. UNCHANGED <<reply, script, control>>
  BY DEF ClaimNotice, PostNotice, NoticeRefused, NoticeFails, RecordNotice, MarkNotified
<1>4. TablesOK'
  <2>1. attempt' = attempt \/ attempt' = [attempt EXCEPT ![t].notified = TRUE]
    BY DEF ClaimNotice, PostNotice, NoticeRefused, NoticeFails, RecordNotice, MarkNotified
  <2>2. [attempt[t] EXCEPT !.notified = TRUE] \in AttemptRow
    BY <1>1 DEF AttemptRow
  <2>3. attempt' \in [Turns -> AttemptRow]
    BY <1>1, <2>1, <2>2
  <2>4. session' = session /\ command' \in {command, command \ {t}}
    BY DEF ClaimNotice, PostNotice, NoticeRefused, NoticeFails, RecordNotice, MarkNotified
  <2>5. QED
    BY <1>1, <2>3, <2>4 DEF TablesOK
<1>5. \/ notice' = notice
      \/ \E row \in Row : /\ row.status # "none" /\ row.for # NoRequest
                          /\ notice' = [notice EXCEPT ![t] = row]
  <2>1. \/ notice' = notice
        \/ notice' = [notice EXCEPT ![t] = Received(r)]
        \/ notice[t].status # "none" /\ notice' = [notice EXCEPT ![t] = Failed(notice[t], TRUE)]
        \/ notice[t].status # "none" /\ notice' = [notice EXCEPT ![t] = Marked(notice[t], "posted")]
    BY <1>1, <1>2 DEF ClaimNotice, PostNotice, NoticeRefused, NoticeFails, RecordNotice,
                      MarkNotified, At
  <2>2. notice[t].status # "none" => notice[t].for # NoRequest
    BY <1>1 DEF Typed, TypeOK, RowsOK
  <2>3. r # NoRequest
    BY <1>1, ReplyAssumption
  <2>4. CASE notice' = [notice EXCEPT ![t] = Failed(notice[t], TRUE)] /\ notice[t].status # "none"
    BY <1>1, <2>2, <2>4, FailedType
  <2>5. CASE notice' = [notice EXCEPT ![t] = Marked(notice[t], "posted")]
             /\ notice[t].status # "none"
    BY <1>1, <2>2, <2>5, MarkedType
  <2>6. CASE notice' = [notice EXCEPT ![t] = Received(r)]
    BY <1>1, <2>3, <2>6, ReceivedType
  <2>7. QED
    BY <2>1, <2>4, <2>5, <2>6
<1>6. /\ RowsOK'
      /\ \A u \in Turns : notice[u].status # "none" => notice'[u].status # "none"
  BY <1>1, <1>3, <1>5, NoticeStep, SameTypes
<1>7. HistoryOK'
  <2>1. shown' \in [Turns -> Nat] /\ discarded' \subseteq Requests
    <3>1. UNCHANGED <<shown, discarded>> \/ \E o \in Posts : Shown(r, o.times)
      BY DEF ClaimNotice, PostNotice, NoticeRefused, NoticeFails, RecordNotice, MarkNotified,
             history
    <3>2. QED
      BY <1>1, <3>1, PostOutcome, ShownType DEF Typed, TypeOK, HistoryOK
  <2>2. budget' \in [FaultKinds -> Nat]
    <3>1. budget' = budget \/ Spend("refuse") \/ Spend("unknown")
      BY DEF ClaimNotice, PostNotice, NoticeRefused, NoticeFails, RecordNotice, MarkNotified
    <3>2. QED
      BY <3>1, SpendType DEF FaultKinds, Typed, TypeOK, HistoryOK
  <2>3. retakes' \in [Turns -> Nat]
    <3>1. retakes' = retakes \/ retakes' = [retakes EXCEPT ![t] = retakes[t] + 1]
          \/ retakes' = [retakes EXCEPT ![t] = retakes[t]]
      BY DEF ClaimNotice, PostNotice, NoticeRefused, NoticeFails, RecordNotice, MarkNotified,
             history
    <3>2. QED
      BY <1>1, <3>1 DEF Typed, TypeOK, HistoryOK
  <2>4. blind' \in [Turns -> Nat]
    <3>1. blind' = blind \/ blind' = [blind EXCEPT ![t] = blind[t] + 1]
      BY DEF ClaimNotice, PostNotice, NoticeRefused, NoticeFails, RecordNotice, MarkNotified,
             history
    <3>2. QED
      BY <1>1, <3>1 DEF Typed, TypeOK, HistoryOK
  <2>5. UNCHANGED <<posts, takeovers, steals, doubts, muted, crossed, broken>>
    BY DEF ClaimNotice, PostNotice, NoticeRefused, NoticeFails, RecordNotice, MarkNotified, history
  <2>6. QED
    BY <2>1, <2>2, <2>3, <2>4, <2>5 DEF Typed, TypeOK, HistoryOK
<1>8. \/ \E retry \in BOOLEAN, answer \in {"ok", "again"} : FailWith(d, retry, answer)
      \/ \E where \in NoticePlaces : Goto(d, where) /\ notice'[t].status # "none"
  <2>1. ClaimNotice(d) /\ Goto(d, "notice_post") => notice'[t].status # "none"
    <3>1. ASSUME ClaimNotice(d), Goto(d, "notice_post")
          PROVE  notice'[t].status # "none"
      <4>1. CASE Claimable(notice[t], r)
        BY <1>1, <3>1, <4>1, ReceivedType DEF ClaimNotice, Typed, TypeOK, RowsOK
      <4>2. CASE ~Claimable(notice[t], r)
        <5>1. thread' = [thread EXCEPT ![d] = [Off EXCEPT !.at = "notice_post"]]
          BY <3>1 DEF Goto
        <5>2. \E retry \in BOOLEAN, answer \in {"ok", "again"} : FailWith(d, retry, answer)
          BY <3>1, <4>2 DEF ClaimNotice
        <5>3. thread'[d].at = "notice_post" /\ thread'[d].at = "fail"
          BY <3>1, <5>2, FailStep, GotoStep DEF Places
        <5>4. QED
          BY <5>3
      <4>3. QED
        BY <4>1, <4>2
    <3>2. QED
      BY <3>1
  <2>2. ~At(d, "notice") => notice'[t].status # "none"
    BY <1>1, <1>2, <1>6
  <2>3. QED
    BY <2>1, <2>2 DEF ClaimNotice, PostNotice, NoticeRefused, NoticeFails, RecordNotice,
                      MarkNotified, NoticePlaces, At
<1>9. ASSUME NEW retry \in BOOLEAN, NEW answer \in {"ok", "again"}, FailWith(d, retry, answer)
      PROVE  Typed'
  <2>1. InPlace(d)'
    BY <1>2, <1>3, <1>9, FailStep DEF InPlace, NoticePlaces
  <2>2. QED
    BY <1>1, <1>3, <1>4, <1>6, <1>7, <1>9, <2>1, FailStep, HandlerTyped
<1>10. ASSUME NEW where \in NoticePlaces, Goto(d, where), notice'[t].status # "none"
       PROVE  Typed'
  <2>1. where \in Places
    BY DEF Places, NoticePlaces
  <2>2. InPlace(d)'
    BY <1>2, <1>3, <1>10, <2>1, GotoStep DEF InPlace
  <2>3. QED
    BY <1>1, <1>3, <1>4, <1>6, <1>7, <1>10, <2>1, <2>2, GotoStep, HandlerTyped
<1>11. QED
  BY <1>8, <1>9, <1>10

\* A handler that breaks off writes nothing.
LEMMA BreakStep ==
    ASSUME Typed, NEW d \in Deliveries, HandlerBreaks(d)
    PROVE  /\ Answer(d, "again") /\ thread'[d].at = "off"
           /\ \A e \in Deliveries \ {d} : thread'[e] = thread[e]
           /\ script' \in [Requests -> ScriptRow]
           /\ UNCHANGED <<session, attempt, reply, notice, command, control>>
           /\ UNCHANGED <<posts, shown, takeovers, retakes, steals, doubts, muted, discarded,
                          blind, crossed>>
BY EndStep DEF HandlerBreaks

LEMMA TypedBreaks ==
    ASSUME Typed, NEW d \in Deliveries, HandlerBreaks(d)
    PROVE  Typed'
<1>1. RowsOK' /\ TablesOK'
  BY BreakStep, SameTypes
<1>2. HistoryOK'
  <2>1. budget' \in [FaultKinds -> Nat] /\ broken' = TRUE
    BY SpendType DEF HandlerBreaks, FaultKinds, Typed, TypeOK, HistoryOK
  <2>2. QED
    BY <2>1, BreakStep DEF Typed, TypeOK, HistoryOK
<1>3. InPlace(d)'
  BY BreakStep DEF InPlace, ReactionPlaces, NoticePlaces
<1>4. QED
  BY <1>1, <1>2, <1>3, BreakStep, EndStep, HandlerTyped

\* SendRequest may name a delivery beyond the bound: then no thread is touched.
LEMMA TypedCommand ==
    ASSUME Typed, NEW r \in Requests, Command(r)
    PROVE  Typed'
<1>1. /\ script \in [Requests -> ScriptRow] /\ script[r] \in ScriptRow
      /\ thread \in [Deliveries -> ThreadRow] /\ control \in ControlRow
  BY DEF Typed, TypeOK, ProcessesOK
<1>2. /\ UNCHANGED <<session, attempt, reply, notice, command, control, history>>
      /\ RowsOK' /\ TablesOK' /\ EndingsNamed'
  BY SameTypes DEF Command, RunCommand, SendRequest, GiveUpWaiting
<1>3. budget' \in [FaultKinds -> Nat]
  <2>1. budget' = budget \/ Spend("run") \/ Spend("giveup")
    BY DEF Command, RunCommand, SendRequest, GiveUpWaiting
  <2>2. QED
    BY <2>1, SpendType DEF FaultKinds, Typed, TypeOK, HistoryOK
<1>4. HistoryOK'
  BY <1>2, <1>3 DEF Typed, TypeOK, HistoryOK, history
<1>5. script' \in [Requests -> ScriptRow]
  <2>1. CASE RunCommand(r)
    <3>1. [script[r] EXCEPT !.at = "backoff", !.try = 0] \in ScriptRow
      BY <1>1 DEF ScriptRow
    <3>2. script' = [script EXCEPT ![r] = [script[r] EXCEPT !.at = "backoff", !.try = 0]]
      BY <1>1, <2>1 DEF RunCommand
    <3>3. QED
      BY <1>1, <3>1, <3>2
  <2>2. CASE SendRequest(r)
    <3>1. [at |-> "wait", try |-> script[r].try + 1, last |-> script[r].last + 1] \in ScriptRow
      BY <1>1 DEF ScriptRow
    <3>2. QED
      BY <1>1, <2>2, <3>1 DEF SendRequest
  <2>3. CASE GiveUpWaiting(r)
    <3>1. Told(script[r], "again") \in ScriptRow
      BY <1>1 DEF Told, ScriptRow
    <3>2. QED
      BY <1>1, <2>3, <3>1 DEF GiveUpWaiting
  <2>4. QED
    BY <2>1, <2>2, <2>3 DEF Command
<1>6. CASE ~SendRequest(r)
  <2>1. thread' = thread
    BY <1>6 DEF Command, RunCommand, GiveUpWaiting
  <2>2. QED
    BY <1>1, <1>2, <1>4, <1>5, <2>1, SameTypes DEF Typed, TypeOK, ProcessesOK
<1>7. CASE SendRequest(r)
  <2> DEFINE where == IF Action[r] = "reaction" THEN "resolve" ELSE "claim"
  <2>1. where \in Places /\ Goto(<<r, script[r].last + 1>>, where)
    BY <1>7 DEF SendRequest, Places
  <2>2. ASSUME NEW d \in Deliveries, d = <<r, script[r].last + 1>>
        PROVE  Typed'
    <3>1. Goto(d, where) /\ d[1] = r
      BY <2>1, <2>2
    <3>2. InPlace(d)'
      BY <2>1, <3>1, GotoStep DEF InPlace, ReactionPlaces, NoticePlaces
    <3> HIDE DEF where
    <3>3. /\ thread' \in [Deliveries -> ThreadRow]
          /\ \A e \in Deliveries \ {d} : thread'[e] = thread[e]
      BY <2>1, <3>1, GotoStep
    <3>4. QED
      BY <1>2, <1>4, <1>5, <3>2, <3>3, HandlerTyped
  <2>3. CASE <<r, script[r].last + 1>> \notin Deliveries
    <3>1. thread' = thread
      BY <1>1, <2>1, <2>3 DEF Goto
    <3>2. QED
      BY <1>1, <1>2, <1>4, <1>5, <3>1, SameTypes DEF Typed, TypeOK, ProcessesOK
  <2>4. QED
    BY <2>2, <2>3
<1>8. QED
  BY <1>6, <1>7

\* An attempt that is ended with its conversation, its claim left as it is.
EndedRow(a, action) == [a EXCEPT !.completed = TRUE, !.action = action]

LEMMA FinalizedType ==
    ASSUME Typed, NEW t, NEW action \in {"close", "cancelled", "stopped", "none"}
    PROVE  Finalized(t, action) \in [Turns -> AttemptRow]
<1>1. \A u \in Turns : attempt[u] \in AttemptRow
  BY DEF Typed, TypeOK, TablesOK
<1>2. \A a \in AttemptRow :
         Closed(a, action) \in AttemptRow /\ EndedRow(a, action) \in AttemptRow
  BY DEF Closed, EndedRow, AttemptRow
<1>3. QED
  BY <1>1, <1>2 DEF Finalized, EndedRow

LEMMA TypedOutside ==
    ASSUME Typed, Ending \/ Outside
    PROVE  Typed'
<1>1. /\ session \in SessionRow /\ attempt \in [Turns -> AttemptRow] /\ command \subseteq Turns
      /\ script \in [Requests -> ScriptRow] /\ thread \in [Deliveries -> ThreadRow]
      /\ control \in ControlRow
  BY DEF Typed, TypeOK, TablesOK, ProcessesOK
<1>2. ASSUME NEW t \in Turns, StartTurn(t)
      PROVE  Typed'
  <2>1. [attempt[t] EXCEPT !.opened = TRUE] \in AttemptRow
    BY <1>1 DEF AttemptRow
  <2>2. attempt' \in [Turns -> AttemptRow]
    BY <1>1, <1>2, <2>1 DEF StartTurn
  <2>3. TablesOK'
    BY <1>1, <1>2, <2>2 DEF StartTurn, TablesOK, SessionRow
  <2>4. QED
    BY <1>2, <2>3, SameTypes DEF StartTurn, Typed, TypeOK
<1>3. ASSUME NEW action \in {"cancelled", "stopped"}, BeginEnding(action)
      PROVE  Typed'
  <2>1. control' \in ControlRow /\ control'.action # "none"
    BY <1>1, <1>3 DEF BeginEnding, ControlRow, SessionRow
  <2>2. budget' \in [FaultKinds -> Nat]
    BY <1>3, SpendType DEF BeginEnding, FaultKinds
  <2>3. QED
    BY <1>1, <1>3, <2>1, <2>2, SameTypes
       DEF BeginEnding, Typed, TypeOK, ProcessesOK, EndingsNamed, HistoryOK, history
<1>4. CASE MoveToEnd
  <2>1. session' \in SessionRow
    BY <1>1, <1>4 DEF MoveToEnd, SessionRow
  <2>2. control' \in ControlRow /\ EndingsNamed'
    BY <1>1, <1>4 DEF MoveToEnd, ControlRow, EndingsNamed, Typed
  <2>3. QED
    BY <1>1, <1>4, <2>1, <2>2, SameTypes DEF MoveToEnd, Typed, TypeOK, ProcessesOK, TablesOK
<1>5. CASE Finalize
  <2>1. control.action \in {"cancelled", "stopped", "none"}
    BY <1>1 DEF ControlRow
  <2>2. TablesOK'
    BY <1>1, <1>5, <2>1, FinalizedType DEF Finalize, TablesOK
  <2>3. control' \in ControlRow /\ EndingsNamed'
    BY <1>1, <1>5 DEF Finalize, ControlRow, EndingsNamed
  <2>4. QED
    BY <1>1, <1>5, <2>2, <2>3, SameTypes DEF Finalize, Typed, TypeOK, ProcessesOK
<1>6. CASE Restart
  <2>1. session' \in SessionRow
    BY <1>1, <1>6 DEF Restart, SessionRow
  <2>2. attempt' \in [Turns -> AttemptRow] /\ command' \subseteq Turns
    BY <1>1, <1>6, FinalizedType DEF Restart
  <2>3. Off \in ThreadRow /\ Off.at = "off"
    BY OffType DEF ThreadRow, Places
  <2>4. thread' \in [Deliveries -> ThreadRow] /\ \A d \in Deliveries : thread'[d].at = "off"
    BY <1>6, <2>3 DEF Restart
  <2>5. \A r \in Requests : [script[r] EXCEPT !.at = "failed"] \in ScriptRow
    BY <1>1 DEF ScriptRow
  <2>6. script' \in [Requests -> ScriptRow]
    BY <1>1, <1>6, <2>5 DEF Restart
  <2>7. control' \in ControlRow /\ EndingsNamed'
    BY <1>1, <1>6 DEF Restart, ControlRow, EndingsNamed
  <2>8. RowsOK' /\ RowsInPlace'
    BY <1>6, <2>4, SameTypes DEF Restart, RowsInPlace, InPlace, ReactionPlaces, NoticePlaces
  <2>9. HistoryOK'
    BY <1>6, SpendType DEF Restart, FaultKinds, Typed, TypeOK, HistoryOK
  <2>10. QED
    BY <2>1, <2>2, <2>4, <2>6, <2>7, <2>8, <2>9 DEF Typed, TypeOK, TablesOK, ProcessesOK
<1>7. CASE LeaseEnds
  <2>1. \A row \in Row :
           LET out == [row EXCEPT !.lapsed = TRUE] IN
           out \in Row /\ out.status = row.status /\ out.for = row.for
    BY DEF Row
  <2>2. /\ RowsOK'
        /\ \A q \in Requests : reply'[q].status = reply[q].status
        /\ \A u \in Turns : notice'[u].status = notice[u].status
    <3>1. ASSUME NEW q \in Requests, UNCHANGED notice,
                 reply' = [reply EXCEPT ![q] = [reply[q] EXCEPT !.lapsed = TRUE]]
          PROVE  <2>2!:
      BY <2>1, <3>1 DEF Typed, TypeOK, RowsOK
    <3>2. ASSUME NEW t \in Turns, UNCHANGED reply,
                 notice' = [notice EXCEPT ![t] = [notice[t] EXCEPT !.lapsed = TRUE]]
          PROVE  <2>2!:
      BY <2>1, <3>2 DEF Typed, TypeOK, RowsOK
    <3>3. CASE UNCHANGED <<reply, notice>>
      BY <3>3, SameTypes
    <3>4. QED
      BY <1>7, <3>1, <3>2, <3>3 DEF LeaseEnds
  <2>3. \A t \in Turns : [attempt[t] EXCEPT !.lapsed = TRUE] \in AttemptRow
    BY <1>1 DEF AttemptRow
  <2>4. attempt' \in [Turns -> AttemptRow]
    BY <1>1, <1>7, <2>3 DEF LeaseEnds
  <2>5. TablesOK'
    BY <1>1, <1>7, <2>4 DEF LeaseEnds, TablesOK
  <2>6. RowsInPlace'
    BY <1>7, <2>2, DeliveryType DEF LeaseEnds, Typed, RowsInPlace, InPlace
  <2>7. HistoryOK'
    BY <1>7, SpendType DEF LeaseEnds, FaultKinds, Typed, TypeOK, HistoryOK, history
  <2>8. QED
    BY <1>7, <2>2, <2>5, <2>6, <2>7, SameTypes DEF LeaseEnds, Typed, TypeOK
<1>8. QED
  BY <1>2, <1>3, <1>4, <1>5, <1>6, <1>7 DEF Ending, Outside

LEMMA TypedInit == Init => Typed
<1> SUFFICES ASSUME Init PROVE Typed
  OBVIOUS
<1>1. NoRow \in Row /\ NoRow.status = "none" /\ NoRow.for = NoRequest
  BY DEF NoRow, Row
<1>2. NoAttempt \in AttemptRow
  BY DEF NoAttempt, AttemptRow
<1>3. Off \in ThreadRow /\ Off.at = "off"
  BY OffType DEF ThreadRow, Places
<1>4. RowsOK /\ TablesOK
  BY <1>1, <1>2 DEF Init, RowsOK, TablesOK, SessionRow
<1>5. ProcessesOK
  BY <1>3 DEF Init, ProcessesOK, ScriptRow, ControlRow
<1>6. HistoryOK
  BY ReplyAssumption DEF Init, HistoryOK
<1>7. RowsInPlace /\ EndingsNamed
  BY <1>3, DeliveryType DEF Init, RowsInPlace, InPlace, ReactionPlaces, NoticePlaces, EndingsNamed
<1>8. QED
  BY <1>4, <1>5, <1>6, <1>7 DEF Typed, TypeOK

LEMMA TypedStep == Typed /\ [Next]_vars => Typed'
<1> SUFFICES ASSUME Typed, [Next]_vars PROVE Typed'
  OBVIOUS
<1>1. ASSUME NEW d \in Deliveries, Handler(d)
      PROVE  Typed'
  BY <1>1, TypedClaimReply, TypedChecks, TypedPosts, TypedRecords, TypedEnds, TypedNotices,
     TypedBreaks
     DEF Handler, SlackCall
<1>2. CASE UNCHANGED vars
  BY <1>2, SameTypes DEF vars, state, Typed, TypeOK
<1>3. QED
  BY <1>1, <1>2, TypedCommand, TypedOutside DEF Next

\* The tables, the threads of the hook server and the reply commands always have their
\* shape; in particular a row of the ledger belongs to the request it was made for.
THEOREM ReplyTypes == Spec => []TypeOK
<1>1. Spec => []Typed
  BY TypedInit, TypedStep, PTL DEF Spec
<1>2. QED
  BY <1>1, PTL DEF Typed

-----------------------------------------------------------------------------
(* Functions defined by recursion on the size of their argument *)

\* A set of numbers has a least one.
LEMMA LeastOf ==
    ASSUME NEW S \in SUBSET Nat, NEW R, \E x \in S : \A y \in S : ~(<<y, x>> \in R),
           \A y, x \in Nat : y < x => <<y, x>> \in R
    PROVE  \E m \in S : \A n \in S : m <= n
<1>1. PICK x \in S : \A y \in S : ~(<<y, x>> \in R)
  OBVIOUS
<1>2. x \in Nat /\ \A y \in S : y \in Nat /\ ~(y < x)
  BY <1>1
<1>3. QED
  BY <1>2

LEMMA Least ==
    ASSUME NEW S \in SUBSET Nat, S # {} PROVE \E m \in S : \A n \in S : m <= n
<1>1. \A y, x \in Nat : y < x => <<y, x>> \in OpToRel(<, Nat)
  BY DEF OpToRel
<1>2. \E x \in S : \A y \in S : ~(<<y, x>> \in OpToRel(<, Nat))
  BY WFMin, NatLessThanWellFounded, Zenon
<1>3. QED
  BY <1>1, <1>2, LeastOf, Zenon

\* Induction over the size of the members of a set.
LEMMA BySize ==
    ASSUME NEW T, NEW size \in [T -> Nat], NEW P,
           \A t \in T : (\A u \in T : size[u] < size[t] => u \in P) => t \in P
    PROVE  T \subseteq P
<1> DEFINE S == {size[t] : t \in T \ P}
<1>1. SUFFICES ASSUME S # {} PROVE FALSE
  OBVIOUS
<1>2. S \in SUBSET Nat
  OBVIOUS
<1>3. PICK m \in S : \A n \in S : m <= n
  BY <1>1, <1>2, Least
<1>4. PICK t \in T \ P : m = size[t]
  BY <1>3
<1>5. \A u \in T : size[u] < size[t] => u \in P
  BY <1>2, <1>3, <1>4
<1>6. QED
  BY <1>4, <1>5

\* A function that is defined by what it is for a smaller member of its domain exists.
Solves(f, D, down, B, b, h) ==
    \A t \in D : f[t] = IF t \in B THEN b[t] ELSE h[<<t, f[down[t]]>>]

UpTo(T, size, n) == {t \in T : size[t] <= n}

\* There is one for the members up to any size, and they agree where they meet.
LEMMA SolvedUpTo ==
    ASSUME NEW T, NEW size \in [T -> Nat], NEW down \in [T -> T], NEW B, NEW b, NEW h,
           \A t \in T \ B : size[down[t]] < size[t]
    PROVE  \A n \in Nat : \E f : Solves(f, UpTo(T, size, n), down, B, b, h)
<1> DEFINE S == {n \in Nat : ~\E f : Solves(f, UpTo(T, size, n), down, B, b, h)}
<1>1. SUFFICES ASSUME S # {} PROVE FALSE
  OBVIOUS
<1>2. PICK m \in S : \A n \in S : m <= n
  BY <1>1, Least
<1>3. PICK f : \A t \in UpTo(T, size, m) : t \notin B =>
                  f[down[t]] = IF down[t] \in B THEN b[down[t]] ELSE h[<<down[t], f[down[down[t]]]>>]
  <2>1. CASE m = 0
    <3>1. \A t \in UpTo(T, size, m) : t \in B
      BY <2>1 DEF UpTo
    <3>2. QED
      BY <3>1
  <2>2. CASE m # 0
    <3>1. m - 1 \in Nat /\ m - 1 \notin S
      BY <1>2, <2>2
    <3>2. PICK f : Solves(f, UpTo(T, size, m - 1), down, B, b, h)
      BY <3>1
    <3>3. \A t \in UpTo(T, size, m) : t \notin B => down[t] \in UpTo(T, size, m - 1)
      BY <1>2 DEF UpTo
    <3>4. QED
      BY <3>2, <3>3 DEF Solves
  <2>3. QED
    BY <2>1, <2>2
<1> DEFINE g == [t \in T |-> IF t \in B THEN b[t] ELSE h[<<t, f[down[t]]>>]]
<1>4. ASSUME NEW t \in UpTo(T, size, m)
      PROVE  g[t] = IF t \in B THEN b[t] ELSE h[<<t, g[down[t]]>>]
  <2>1. t \in T
    BY DEF UpTo
  <2>2. CASE t \in B
    BY <2>1, <2>2
  <2>3. CASE t \notin B
    <3>1. g[down[t]] = f[down[t]]
      BY <1>3, <2>1, <2>3
    <3>2. QED
      BY <2>1, <2>3, <3>1
  <2>4. QED
    BY <2>2, <2>3
<1> HIDE DEF g
<1>5. Solves(g, UpTo(T, size, m), down, B, b, h)
  BY <1>4 DEF Solves
<1>6. QED
  BY <1>2, <1>5

LEMMA SolutionsAgree ==
    ASSUME NEW T, NEW size \in [T -> Nat], NEW down \in [T -> T], NEW B, NEW b, NEW h,
           \A t \in T \ B : size[down[t]] < size[t],
           NEW n \in Nat, NEW f, Solves(f, UpTo(T, size, n), down, B, b, h),
           NEW m \in Nat, NEW g, Solves(g, UpTo(T, size, m), down, B, b, h)
    PROVE  \A t \in UpTo(T, size, n) \cap UpTo(T, size, m) : f[t] = g[t]
<1> DEFINE P == {t \in T : size[t] <= n /\ size[t] <= m => f[t] = g[t]}
<1>1. ASSUME NEW t \in T, \A u \in T : size[u] < size[t] => u \in P, size[t] <= n, size[t] <= m
      PROVE  f[t] = g[t]
  <2>1. /\ f[t] = IF t \in B THEN b[t] ELSE h[<<t, f[down[t]]>>]
        /\ g[t] = IF t \in B THEN b[t] ELSE h[<<t, g[down[t]]>>]
    BY <1>1 DEF Solves, UpTo
  <2>2. CASE t \in B
    BY <2>1, <2>2
  <2>3. CASE t \notin B
    <3>1. down[t] \in T /\ size[down[t]] < size[t] /\ size[down[t]] \in Nat /\ size[t] \in Nat
      BY <2>3
    <3>2. f[down[t]] = g[down[t]]
      BY <1>1, <3>1
    <3>3. QED
      BY <2>1, <2>3, <3>2
  <2>4. QED
    BY <2>2, <2>3
<1>2. \A t \in T : (\A u \in T : size[u] < size[t] => u \in P) => t \in P
  BY <1>1
<1> HIDE DEF P
<1>3. T \subseteq P
  BY <1>2, BySize
<1>4. QED
  BY <1>3 DEF P, UpTo

\* So there is one for all.
LEMMA Solved ==
    ASSUME NEW T, NEW size \in [T -> Nat], NEW down \in [T -> T], NEW B, NEW b, NEW h,
           \A t \in T \ B : size[down[t]] < size[t]
    PROVE  \E f : Solves(f, T, down, B, b, h)
<1> DEFINE F(n) == CHOOSE f : Solves(f, UpTo(T, size, n), down, B, b, h)
           G == [t \in T |-> F(size[t])[t]]
<1>1. \A n \in Nat : Solves(F(n), UpTo(T, size, n), down, B, b, h)
  BY SolvedUpTo
<1> HIDE DEF F
<1>2. ASSUME NEW t \in T
      PROVE  G[t] = IF t \in B THEN b[t] ELSE h[<<t, G[down[t]]>>]
  <2>1. size[t] \in Nat /\ t \in UpTo(T, size, size[t])
    BY DEF UpTo
  <2>2. F(size[t])[t] = IF t \in B THEN b[t] ELSE h[<<t, F(size[t])[down[t]]>>]
    BY <1>1, <2>1 DEF Solves
  <2>3. CASE t \in B
    BY <2>2, <2>3
  <2>4. CASE t \notin B
    <3>1. down[t] \in T /\ size[down[t]] < size[t] /\ size[down[t]] \in Nat
      BY <2>4
    <3>2. down[t] \in UpTo(T, size, size[t]) \cap UpTo(T, size, size[down[t]])
      BY <2>1, <3>1 DEF UpTo
    <3>3. /\ Solves(F(size[t]), UpTo(T, size, size[t]), down, B, b, h)
          /\ Solves(F(size[down[t]]), UpTo(T, size, size[down[t]]), down, B, b, h)
      BY <1>1, <2>1, <3>1
    <3>4. F(size[t])[down[t]] = F(size[down[t]])[down[t]]
      BY <2>1, <3>1, <3>2, <3>3, SolutionsAgree
    <3>5. G[t] = F(size[t])[t] /\ G[down[t]] = F(size[down[t]])[down[t]]
      BY <3>1
    <3>6. QED
      BY <2>2, <2>4, <3>4, <3>5
  <2>5. QED
    BY <2>3, <2>4
<1> HIDE DEF G
<1>3. QED
  BY <1>2 DEF Solves

\* Its values stay within V, if every step does.
LEMMA SolvedWithin ==
    ASSUME NEW T, NEW size \in [T -> Nat], NEW down \in [T -> T], NEW B, NEW b, NEW h, NEW V,
           \A t \in T \ B : size[down[t]] < size[t],
           \A t \in T \cap B : b[t] \in V, \A t \in T \ B, v \in V : h[<<t, v>>] \in V
    PROVE  \E f \in [T -> V] : Solves(f, T, down, B, b, h)
<1>1. PICK g : Solves(g, T, down, B, b, h)
  BY Solved
<1> DEFINE P == {t \in T : g[t] \in V}
<1>2. ASSUME NEW t \in T, \A u \in T : size[u] < size[t] => u \in P
      PROVE  t \in P
  BY <1>1, <1>2 DEF Solves
<1> HIDE DEF P
<1>3. T \subseteq P
  BY <1>2, BySize
<1>4. \A t \in T : g[t] \in V
  BY <1>3 DEF P
<1> DEFINE f == [t \in T |-> g[t]]
<1>5. f \in [T -> V] /\ \A t \in T : f[t] = g[t]
  BY <1>4
<1> HIDE DEF f
<1>6. QED
  BY <1>1, <1>5 DEF Solves

-----------------------------------------------------------------------------
(* Long texts *)

\* The cut is behind the first MaxLen characters, or after a newline among one more.
LEMMA CutFits ==
    ASSUME NEW rest \in Seq(Chars), ~(Len(rest) <= MaxLen)
    PROVE  /\ CutAt(rest) \in 1..Len(rest)
           /\ CutAt(rest) <= IF rest[CutAt(rest)] = "newline" THEN MaxLen + 1 ELSE MaxLen
<1> DEFINE ends == {i \in 2..(MaxLen + 1) : i \in DOMAIN rest /\ rest[i] = "newline"}
<1>1. MaxLen \in Nat /\ MaxLen >= 1 /\ Len(rest) \in Nat
  BY ClientAssumption, LenProperties
<1>2. CASE ends = {}
  <2>1. CutAt(rest) = MaxLen
    BY <1>2 DEF CutAt
  <2>2. QED
    BY <1>1, <2>1
<1>3. CASE ends # {}
  <2> DEFINE left == {MaxLen + 1 - i : i \in ends}
  <2>1. left \in SUBSET Nat /\ left # {}
    BY <1>1, <1>3
  <2>2. PICK n \in left : \A m \in left : n <= m
    BY <2>1, Least
  <2>3. PICK i \in ends : n = MaxLen + 1 - i
    BY <2>2
  <2>4. \A j \in ends : j <= i
    <3> SUFFICES ASSUME NEW j \in ends PROVE j <= i
      OBVIOUS
    <3>1. MaxLen + 1 - i <= MaxLen + 1 - j
      BY <2>2, <2>3
    <3>2. QED
      BY <1>1, <3>1
  <2>5. CutAt(rest) = CHOOSE k \in ends : \A j \in ends : j <= k
    BY <1>3 DEF CutAt
  <2>6. CutAt(rest) \in ends
    BY <2>4, <2>5
  <2>7. QED
    BY <1>1, <2>6, LenProperties
<1>4. QED
  BY <1>2, <1>3

\* What is cut off, and what is left.
First(rest)  == SubSeq(rest, 1, CutAt(rest))
Behind(rest) == SubSeq(rest, CutAt(rest) + 1, Len(rest))

\* What is cut off is not empty, and with what is left it makes up the text.
LEMMA CutLosesNothing ==
    ASSUME NEW rest \in Seq(Chars), ~(Len(rest) <= MaxLen)
    PROVE  /\ First(rest) \in Seq(Chars) /\ Behind(rest) \in Seq(Chars)
           /\ First(rest) \o Behind(rest) = rest
           /\ Len(Behind(rest)) < Len(rest)
           /\ First(rest) # <<>>
           /\ Len(First(rest)) <= IF EndsLine(First(rest)) THEN MaxLen + 1 ELSE MaxLen
<1> DEFINE c == CutAt(rest)
           n == Len(rest)
<1>1. n \in Nat /\ \A i \in 1..n : rest[i] \in Chars
  BY LenProperties, ElementOfSeq
<1>2. /\ c \in 1..n
      /\ c <= IF rest[c] = "newline" THEN MaxLen + 1 ELSE MaxLen
  BY CutFits
<1> HIDE DEF c, n
<1>3. /\ SubSeq(rest, 1, c) \in Seq(Chars) /\ Len(SubSeq(rest, 1, c)) = c
      /\ SubSeq(rest, 1, c)[c] = rest[c]
  <2>1. \A i \in 1..c : rest[i] \in Chars
    BY <1>1, <1>2
  <2>2. /\ SubSeq(rest, 1, c) \in Seq(Chars)
        /\ Len(SubSeq(rest, 1, c)) = IF 1 <= c THEN c - 1 + 1 ELSE 0
        /\ \A i \in 1..(c - 1 + 1) : SubSeq(rest, 1, c)[i] = rest[1 + i - 1]
    BY <1>2, <2>1, SubSeqProperties
  <2>3. QED
    BY <1>1, <1>2, <2>2
<1>4. SubSeq(rest, c + 1, n) \in Seq(Chars) /\ Len(SubSeq(rest, c + 1, n)) = n - c
  <2>1. \A i \in (c + 1)..n : rest[i] \in Chars
    BY <1>1, <1>2
  <2>2. /\ SubSeq(rest, c + 1, n) \in Seq(Chars)
        /\ Len(SubSeq(rest, c + 1, n)) = IF c + 1 <= n THEN n - (c + 1) + 1 ELSE 0
    BY <1>1, <1>2, <2>1, SubSeqProperties
  <2>3. QED
    BY <1>1, <1>2, <2>2
<1>5. SubSeq(rest, 1, c) \o SubSeq(rest, c + 1, n) = rest
  <2>1. SubSeq(rest, 1, c) \o SubSeq(rest, c + 1, n) = SubSeq(rest, 1, n)
    <3>1. 1 \in 1..(Len(rest) + 1) /\ c \in (1 - 1)..Len(rest) /\ n \in c..Len(rest)
      BY <1>1, <1>2 DEF n
    <3>2. QED
      BY <3>1, ConcatAdjacentSubSeq
  <2>2. QED
    BY <2>1, SubSeqFull DEF n
<1>6. /\ First(rest) = SubSeq(rest, 1, c) /\ Behind(rest) = SubSeq(rest, c + 1, n)
      /\ Len(rest) = n
  BY DEF First, Behind, c, n
<1>7. First(rest) # <<>>
  <2>1. Len(First(rest)) # 0
    BY <1>2, <1>3, <1>6
  <2>2. QED
    BY <2>1
<1>8. Len(First(rest)) = c /\ First(rest)[c] = rest[c]
  BY <1>3, <1>6
<1>9. Len(First(rest)) <= IF EndsLine(First(rest)) THEN MaxLen + 1 ELSE MaxLen
  BY <1>2, <1>8 DEF EndsLine
<1>10. Len(Behind(rest)) < Len(rest)
  BY <1>1, <1>2, <1>4, <1>6
<1>11. QED
  BY <1>3, <1>4, <1>5, <1>6, <1>7, <1>9, <1>10

\* The recursive definitions are what they say.
LEMMA SplitIs ==
    \A rest \in Seq(Chars) :
        Split[rest] = IF Len(rest) <= MaxLen THEN IF rest = <<>> THEN <<>> ELSE <<rest>>
                      ELSE <<First(rest)>> \o Split[Behind(rest)]
<1> DEFINE T    == Seq(Chars)
           V    == Seq(Seq(Chars))
           B    == {t \in T : Len(t) <= MaxLen}
           size == [t \in T |-> Len(t)]
           down == [t \in T |-> IF t \in B THEN t ELSE Behind(t)]
           b    == [t \in T |-> IF t = <<>> THEN <<>> ELSE <<t>>]
           h    == [x \in T \X V |-> <<First(x[1])>> \o x[2]]
<1>1. size \in [T -> Nat] /\ down \in [T -> T] /\ \A t \in T \ B : size[down[t]] < size[t]
  BY CutLosesNothing, LenProperties
<1>2. \A t \in T \cap B : b[t] \in V
  OBVIOUS
<1>3. ASSUME NEW t \in T \ B, NEW v \in V
      PROVE  h[<<t, v>>] \in V /\ h[<<t, v>>] = <<First(t)>> \o v
  <2>1. h[<<t, v>>] = <<First(t)>> \o v
    OBVIOUS
  <2>2. First(t) \in Seq(Chars)
    BY CutLosesNothing
  <2>3. <<First(t)>> \in V
    BY <2>2
  <2>4. QED
    BY <2>1, <2>3, ConcatProperties
<1>4. PICK f \in [T -> V] : Solves(f, T, down, B, b, h)
  <2> HIDE DEF h, b, size, down, B, T, V
  <2>1. QED
    BY <1>1, <1>2, <1>3, SolvedWithin
<1> HIDE DEF h, b, size
<1>5. \A t \in T : f[t] = IF Len(t) <= MaxLen THEN IF t = <<>> THEN <<>> ELSE <<t>>
                          ELSE <<First(t)>> \o f[Behind(t)]
  <2> SUFFICES ASSUME NEW t \in T
               PROVE  f[t] = IF Len(t) <= MaxLen THEN IF t = <<>> THEN <<>> ELSE <<t>>
                             ELSE <<First(t)>> \o f[Behind(t)]
    OBVIOUS
  <2>1. CASE t \in B
    BY <1>4, <2>1 DEF b, Solves
  <2>2. CASE t \notin B
    <3>1. down[t] = Behind(t) /\ f[Behind(t)] \in V
      BY <1>1, <2>2
    <3>2. QED
      BY <1>3, <1>4, <2>2, <3>1 DEF Solves
  <2>3. QED
    BY <2>1, <2>2
<1>6. f = [rest \in Seq(Chars) |->
             IF Len(rest) <= MaxLen THEN IF rest = <<>> THEN <<>> ELSE <<rest>>
             ELSE <<SubSeq(rest, 1, CutAt(rest))>>
                  \o f[SubSeq(rest, CutAt(rest) + 1, Len(rest))]]
  <2>1. f = [rest \in Seq(Chars) |-> f[rest]]
    OBVIOUS
  <2>2. QED
    BY <1>5, <2>1 DEF First, Behind
<1>7. Split = [rest \in Seq(Chars) |->
                 IF Len(rest) <= MaxLen THEN IF rest = <<>> THEN <<>> ELSE <<rest>>
                 ELSE <<SubSeq(rest, 1, CutAt(rest))>>
                      \o Split[SubSeq(rest, CutAt(rest) + 1, Len(rest))]]
  BY <1>6, Zenon DEF Split
<1>8. QED
  BY <1>7 DEF First, Behind

LEMMA JoinedIs ==
    \A parts \in Seq(Seq(Chars)) :
        Joined[parts] = IF parts = <<>> THEN <<>> ELSE Head(parts) \o Joined[Tail(parts)]
<1> DEFINE T    == Seq(Seq(Chars))
           V    == Seq(Chars)
           B    == {<<>>}
           size == [t \in T |-> Len(t)]
           down == [t \in T |-> IF t \in B THEN t ELSE Tail(t)]
           b    == [t \in T |-> <<>>]
           h    == [x \in T \X V |-> Head(x[1]) \o x[2]]
<1>1. size \in [T -> Nat] /\ down \in [T -> T] /\ \A t \in T \ B : size[down[t]] < size[t]
  BY HeadTailProperties, LenProperties
<1>2. \A t \in T \cap B : b[t] \in V
  OBVIOUS
<1>3. ASSUME NEW t \in T \ B, NEW v \in V
      PROVE  h[<<t, v>>] \in V /\ h[<<t, v>>] = Head(t) \o v
  <2>1. h[<<t, v>>] = Head(t) \o v
    OBVIOUS
  <2>2. Head(t) \in Seq(Chars)
    BY HeadTailProperties
  <2>3. QED
    BY <2>1, <2>2, ConcatProperties
<1>4. PICK f \in [T -> V] : Solves(f, T, down, B, b, h)
  <2> HIDE DEF h, b, size, down, B, T, V
  <2>1. QED
    BY <1>1, <1>2, <1>3, SolvedWithin
<1> HIDE DEF h, b, size
<1>5. \A t \in T : f[t] = IF t = <<>> THEN <<>> ELSE Head(t) \o f[Tail(t)]
  <2> SUFFICES ASSUME NEW t \in T
               PROVE  f[t] = IF t = <<>> THEN <<>> ELSE Head(t) \o f[Tail(t)]
    OBVIOUS
  <2>1. CASE t \in B
    BY <1>4, <2>1 DEF b, Solves
  <2>2. CASE t \notin B
    <3>1. down[t] = Tail(t) /\ f[Tail(t)] \in V
      BY <1>1, <2>2
    <3>2. QED
      BY <1>3, <1>4, <2>2, <3>1 DEF Solves
  <2>3. QED
    BY <2>1, <2>2
<1>6. f = [parts \in Seq(Seq(Chars)) |->
             IF parts = <<>> THEN <<>> ELSE Head(parts) \o f[Tail(parts)]]
  <2>1. f = [parts \in Seq(Seq(Chars)) |-> f[parts]]
    OBVIOUS
  <2>2. QED
    BY <1>5, <2>1
<1>7. Joined = [parts \in Seq(Seq(Chars)) |->
                  IF parts = <<>> THEN <<>> ELSE Head(parts) \o Joined[Tail(parts)]]
  BY <1>6, Zenon DEF Joined
<1>8. QED
  BY <1>7

\* A part in front of others is in front of what they make up.
LEMMA JoinedFirst ==
    ASSUME NEW p \in Seq(Chars), NEW ps \in Seq(Seq(Chars))
    PROVE  Joined[<<p>> \o ps] = p \o Joined[ps]
<1>1. <<p>> \in Seq(Seq(Chars)) /\ Len(<<p>>) = 1 /\ <<p>>[1] = p
  OBVIOUS
<1> DEFINE all == <<p>> \o ps
<1>2. /\ all \in Seq(Seq(Chars)) /\ Len(all) = 1 + Len(ps) /\ Len(ps) \in Nat
      /\ \A i \in 1..(1 + Len(ps)) : all[i] = IF i <= 1 THEN p ELSE ps[i - 1]
  BY <1>1, ConcatProperties, LenProperties
<1> HIDE DEF all
<1>3. all # <<>>
  <2>1. Len(all) # 0
    BY <1>2
  <2>2. QED
    BY <2>1
<1>4. Head(all) = p
  BY <1>2, <1>3
<1>5. Tail(all) = ps
  <2>1. /\ Tail(all) \in Seq(Seq(Chars)) /\ Len(Tail(all)) = Len(all) - 1
        /\ \A i \in 1..Len(Tail(all)) : Tail(all)[i] = all[i + 1]
    BY <1>2, <1>3, HeadTailProperties
  <2>2. Len(Tail(all)) = Len(ps)
    BY <1>2, <2>1
  <2>3. ASSUME NEW i \in 1..Len(ps) PROVE Tail(all)[i] = ps[i]
    BY <1>2, <2>1, <2>2
  <2>4. QED
    BY <2>1, <2>2, <2>3, SeqEqual
<1>6. QED
  BY <1>2, <1>3, <1>4, <1>5, JoinedIs DEF all

\* A part that Slack takes.
Postable(part) == part # <<>> /\ Len(part) <= IF EndsLine(part) THEN MaxLen + 1 ELSE MaxLen

\* Whatever the text and the limit: its parts make up the text, and Slack takes each.
LEMMA SplitCutsWell ==
    \A text \in Seq(Chars) :
        /\ Split[text] \in Seq(Seq(Chars))
        /\ Joined[Split[text]] = text
        /\ \A k \in DOMAIN Split[text] : Postable(Split[text][k])
<1> DEFINE T    == Seq(Chars)
           size == [t \in T |-> Len(t)]
           P    == {t \in T : /\ Split[t] \in Seq(Seq(Chars))
                              /\ Joined[Split[t]] = t
                              /\ \A k \in DOMAIN Split[t] : Postable(Split[t][k])}
<1>1. ASSUME NEW t \in T, \A u \in T : size[u] < size[t] => u \in P
      PROVE  t \in P
  <2>0. <<>> \in Seq(Seq(Chars)) /\ Joined[<<>>] = <<>> /\ Len(t) \in Nat /\ t \o <<>> = t
    <3>1. <<>> \in Seq(Seq(Chars))
      BY EmptySeq
    <3>2. Joined[<<>>] = <<>>
      BY <3>1, JoinedIs
    <3>3. t \o <<>> = t
      BY ConcatEmptySeq
    <3>4. QED
      BY <3>1, <3>2, <3>3, LenProperties
  <2>1. CASE t = <<>>
    <3>1. Len(t) <= MaxLen
      <4>1. Len(t) = 0
        BY <2>1
      <4>2. QED
        BY <4>1, ClientAssumption
    <3>2. Split[t] = <<>>
      BY <2>1, <3>1, SplitIs
    <3>3. \A k \in DOMAIN Split[t] : FALSE
      BY <3>2
    <3>4. Split[t] \in Seq(Seq(Chars)) /\ Joined[Split[t]] = t
      BY <2>0, <2>1, <3>2
    <3>5. QED
      BY <3>3, <3>4
  <2>2. CASE t # <<>> /\ Len(t) <= MaxLen
    <3>1. Split[t] = <<t>>
      BY <2>2, SplitIs
    <3>2. Joined[<<t>>] = t
      <4>1. <<t>> = <<t>> \o <<>> /\ Joined[<<t>> \o <<>>] = t \o Joined[<<>>]
        <5>1. <<t>> \in Seq(Seq(Chars))
          OBVIOUS
        <5>2. QED
          BY <2>0, <5>1, JoinedFirst, ConcatEmptySeq
      <4>2. QED
        BY <2>0, <4>1
    <3>3. Postable(t)
      BY <2>0, <2>2, ClientAssumption DEF Postable
    <3>4. <<t>> \in Seq(Seq(Chars)) /\ \A k \in DOMAIN <<t>> : <<t>>[k] = t
      OBVIOUS
    <3>5. QED
      BY <3>1, <3>2, <3>3, <3>4
  <2>3. CASE ~(Len(t) <= MaxLen)
    <3> DEFINE p  == First(t)
               u  == Behind(t)
               ps == Split[u]
    <3>1. Split[t] = <<p>> \o ps
      BY <2>3, SplitIs
    <3>2. /\ p \in Seq(Chars) /\ u \in Seq(Chars) /\ p \o u = t /\ Len(u) < Len(t)
          /\ Postable(p)
      BY <2>3, CutLosesNothing DEF Postable
    <3> HIDE DEF p, u
    <3>3. ps \in Seq(Seq(Chars)) /\ Joined[ps] = u /\ \A k \in DOMAIN ps : Postable(ps[k])
      BY <1>1, <3>2
    <3> HIDE DEF ps
    <3>4. <<p>> \in Seq(Seq(Chars)) /\ Len(<<p>>) = 1 /\ <<p>>[1] = p
      BY <3>2
    <3>5. /\ <<p>> \o ps \in Seq(Seq(Chars)) /\ Len(<<p>> \o ps) = 1 + Len(ps)
          /\ \A i \in 1..(1 + Len(ps)) : (<<p>> \o ps)[i] = IF i <= 1 THEN p ELSE ps[i - 1]
      BY <3>3, <3>4, ConcatProperties
    <3>6. DOMAIN (<<p>> \o ps) = 1..(1 + Len(ps)) /\ DOMAIN ps = 1..Len(ps) /\ Len(ps) \in Nat
      BY <3>3, <3>5, LenProperties
    <3>7. ASSUME NEW k \in DOMAIN (<<p>> \o ps) PROVE Postable((<<p>> \o ps)[k])
      <4>1. CASE k = 1
        BY <3>2, <3>5, <3>6, <4>1
      <4>2. CASE k # 1
        <5>1. k - 1 \in DOMAIN ps /\ (<<p>> \o ps)[k] = ps[k - 1]
          BY <3>5, <3>6, <4>2
        <5>2. QED
          BY <3>3, <5>1
      <4>3. QED
        BY <4>1, <4>2
    <3>8. Joined[<<p>> \o ps] = t
      BY <3>2, <3>3, JoinedFirst
    <3>9. QED
      BY <3>1, <3>5, <3>7, <3>8
  <2>4. QED
    BY <2>1, <2>2, <2>3
<1>2. size \in [T -> Nat]
  BY LenProperties
<1> HIDE DEF P, size, T
<1>3. \A t \in T : (\A u \in T : size[u] < size[t] => u \in P) => t \in P
  BY <1>1
<1>4. T \subseteq P
  BY <1>2, <1>3, BySize
<1>5. QED
  BY <1>4 DEF P, T

\* In particular every text of the instance.
LEMMA TextsAreCutWell == CutsWell
<1>1. \A text \in SomeTexts : text \in Seq(Chars)
  BY ClientAssumption DEF SomeTexts
<1>2. QED
  BY <1>1, SplitCutsWell DEF CutsWell, Postable

\* A long text is in Slack as the worker wrote it: nothing is lost where it is cut, and
\* every part is one that Slack takes.
THEOREM TextsStayWhole == Spec => []PostLosesNothing
<1>1. PostLosesNothing
  BY TextsAreCutWell DEF PostLosesNothing
<1>2. QED
  BY <1>1, PTL

=============================================================================
