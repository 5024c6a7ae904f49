-------------------------- MODULE EventQueueProofs --------------------------
(***************************************************************************)
(* Theorems about EventQueue, for every set of events, texts and           *)
(* conversations and every bound on the rows.                              *)
(***************************************************************************)
EXTENDS EventQueue, TLAPS

\* A step leaves the table longer by at most one row and rewrites statuses in
\* place: SetRows keeps the length and the payloads.
LEMMA SetRowsType ==
    ASSUME TypeOK, NEW Q, NEW status \in QueueStatus, SetRows(Q, status)
    PROVE  /\ queue' \in Seq(Row)
           /\ Len(queue') = Len(queue)
           /\ DOMAIN queue' = DOMAIN queue
           /\ \A q \in DOMAIN queue :
                 /\ queue'[q].item = queue[q].item
                 /\ queue'[q].status = IF q \in Q THEN status ELSE queue[q].status
<1>1. /\ DOMAIN queue = 1..Len(queue)
      /\ Len(queue) \in Nat
      /\ \A q \in DOMAIN queue : queue[q] \in Row
  BY DEF TypeOK
<1>2. \A q \in DOMAIN queue :
        (IF q \in Q THEN [queue[q] EXCEPT !.status = status] ELSE queue[q]) \in Row
  BY <1>1 DEF Row
<1>3. queue' \in [1..Len(queue) -> Row]
  BY <1>1, <1>2 DEF SetRows
<1>4. queue' \in Seq(Row) /\ Len(queue') = Len(queue)
  BY <1>1, <1>3
<1>5. \A q \in DOMAIN queue :
         /\ queue'[q].item = queue[q].item
         /\ queue'[q].status = IF q \in Q THEN status ELSE queue[q].status
  BY <1>1 DEF SetRows, Row
<1>6. QED
  BY <1>1, <1>3, <1>4, <1>5

LEMMA InsertType ==
    ASSUME TypeOK, NEW item \in Items, NEW status \in QueueStatus, Insert(item, status)
    PROVE  /\ queue' \in Seq(Row)
           /\ Len(queue') = Len(queue) + 1
           /\ DOMAIN queue' = DOMAIN queue \cup {Len(queue) + 1}
           /\ \A q \in DOMAIN queue : queue'[q] = queue[q]
           /\ queue'[Len(queue) + 1] = [item |-> item, status |-> status]
BY DEF TypeOK, Insert, Row

LEMMA MarkType ==
    ASSUME TypeOK, NEW E, NEW status \in LedgerStatus, NEW kept, Mark(E, status, kept)
    PROVE  /\ ledger' \in [Events -> LedgerStatus]
           /\ \A e \in Events : ledger[e] \in kept => ledger'[e] = ledger[e]
BY DEF TypeOK, Mark

-----------------------------------------------------------------------------
(* The shape of a queue operation. *)

\* A queue operation appends one row, claims the head of a conversation, or
\* moves live rows back to waiting or to a verdict: none touches a settled row.
InsertRow ==
    \E item \in Items, status \in {"queued", "dispatching"} :
        /\ item \in Events => RowsOf(item) = {}
        /\ Insert(item, status)

ClaimHead ==
    \E t \in Threads, q \in DOMAIN queue : IsHead(q, t) /\ SetRows({q}, "dispatching")

ReleaseRows ==
    \E Q \in SUBSET DOMAIN queue, status \in Visible \cup Settled :
        /\ \A q \in Q : queue[q].status \in Live
        /\ SetRows(Q, status)

RowStep == InsertRow \/ ClaimHead \/ ReleaseRows

\* It writes the ledger with one UPDATE that keeps the verdicts.
MarkStep ==
    \E E \in SUBSET Items, status \in QueueStatus, kept \in {Settled, {"done"}} :
        /\ Mark(E, status, kept)
        /\ kept = {"done"} => status = "failed"

LEMMA QueueStepShape ==
    ASSUME TypeOK, QueueStep
    PROVE  RowStep /\ MarkStep
<1>a. \A q \in DOMAIN queue : queue[q] \in Row
  BY DEF TypeOK
<1>0. \A q \in DOMAIN queue : queue[q].item \in Items /\ queue[q].status \in QueueStatus
  BY <1>a DEF Row
<1> USE DEF QueueStatus, Live, Settled, Visible, RowStep, Items
<1>1. ASSUME NEW item \in Items, CreateInitialQueue(item)
      PROVE  RowStep /\ MarkStep
  BY <1>1 DEF CreateInitialQueue, InsertRow, MarkStep
<1>2. ASSUME NEW item \in Items, AppendEventQueue(item)
      PROVE  RowStep /\ MarkStep
  <2>1. MarkStep
    BY <1>2 DEF AppendEventQueue, MarkStep
  <2>2. CASE item \in Events /\ RowsOf(item) # {}
    <3> DEFINE Q == {q \in RowsOf(item) : queue[q].status \in Live}
    <3>1. Q \in SUBSET DOMAIN queue /\ SetRows(Q, "queued")
      BY <1>2, <2>2 DEF AppendEventQueue, RowsOf
    <3>2. RowStep
      BY <3>1 DEF ReleaseRows
    <3>3. QED
      BY <3>2, <2>1
  <2>3. CASE ~(item \in Events /\ RowsOf(item) # {})
    BY <1>2, <2>1, <2>3 DEF AppendEventQueue, InsertRow
  <2>4. QED
    BY <2>2, <2>3
<1>3. ASSUME NEW t \in Threads, NEW q \in DOMAIN queue, NEW expected \in Items,
             ClaimEventQueueHead(t, q, expected)
      PROVE  RowStep /\ MarkStep
  <2>1. RowStep
    BY <1>3 DEF ClaimEventQueueHead, ClaimHead
  <2>2. MarkStep
    BY <1>3 DEF ClaimEventQueueHead, MarkStep
  <2>3. QED
    BY <2>1, <2>2
<1>4. ASSUME NEW t \in Threads, NEW q \in DOMAIN queue, ConsumeEventQueueHead(t, q)
      PROVE  RowStep /\ MarkStep
  BY <1>4 DEF ConsumeEventQueueHead, IsHead, VisibleRows, ReleaseRows, MarkStep, EventsOf
<1>5. ASSUME NEW q \in DOMAIN queue, ConsumeEventQueueRow(q)
      PROVE  RowStep /\ MarkStep
  BY <1>0, <1>5 DEF ConsumeEventQueueRow, ReleaseRows, MarkStep, EventsOf
<1>6. ASSUME NEW q \in DOMAIN queue, MarkEventQueueRetryable(q)
      PROVE  RowStep /\ MarkStep
  BY <1>6 DEF MarkEventQueueRetryable, ReleaseRows, MarkStep, EventsOf
<1>7. ASSUME NEW q \in DOMAIN queue, FailEventQueueRow(q)
      PROVE  RowStep /\ MarkStep
  <2> DEFINE Q == IF queue[q].status \in Live THEN {q} ELSE {}
  <2>1. Q \in SUBSET DOMAIN queue /\ SetRows(Q, "failed")
    BY <1>7 DEF FailEventQueueRow
  <2>2. RowStep
    BY <2>1 DEF ReleaseRows
  <2>3. MarkStep
    BY <1>7 DEF FailEventQueueRow, MarkStep, EventsOf
  <2>4. QED
    BY <2>2, <2>3
<1>8. ASSUME NEW t \in Threads, FailEventQueueForSession(t)
      PROVE  RowStep /\ MarkStep
  <2>1. LiveRows(t) \in SUBSET DOMAIN queue /\ SetRows(LiveRows(t), "failed")
    BY <1>8 DEF FailEventQueueForSession, LiveRows
  <2>2. RowStep
    BY <2>1 DEF ReleaseRows, LiveRows
  <2>3. MarkStep
    BY <1>8 DEF FailEventQueueForSession, MarkStep, EventsOf
  <2>4. QED
    BY <2>2, <2>3
<1>9. ASSUME NEW Q \in SUBSET DispatchingRows, ResetLeases(Q)
      PROVE  RowStep /\ MarkStep
  <2>1. RowStep
    BY <1>9 DEF ResetLeases, DispatchingRows, ReleaseRows
  <2>2. MarkStep
    BY <1>9 DEF ResetLeases, MarkStep, EventsOf
  <2>3. QED
    BY <2>1, <2>2
<1>10. QED
  BY <1>1, <1>2, <1>3, <1>4, <1>5, <1>6, <1>7, <1>8, <1>9 DEF QueueStep

\* A rewrite of live rows keeps the payloads and the settled rows.
LEMMA RewriteEffect ==
    ASSUME TypeOK, NEW Q \in SUBSET DOMAIN queue, NEW status \in QueueStatus,
           \A q \in Q : queue[q].status \in Live,
           SetRows(Q, status)
    PROVE  /\ queue' \in Seq(Row)
           /\ DOMAIN queue' = DOMAIN queue
           /\ \A q \in DOMAIN queue :
                 /\ queue'[q].item = queue[q].item
                 /\ queue[q].status \in Settled => queue'[q].status = queue[q].status
           /\ OneRowPerEvent => OneRowPerEvent'
<1>1. /\ queue' \in Seq(Row)
      /\ DOMAIN queue' = DOMAIN queue
      /\ \A q \in DOMAIN queue :
            /\ queue'[q].item = queue[q].item
            /\ queue'[q].status = IF q \in Q THEN status ELSE queue[q].status
  BY SetRowsType
<1>2. QED
  BY <1>1 DEF OneRowPerEvent, Settled, Live, Visible

\* What RowStep means for the table.
LEMMA RowStepEffect ==
    ASSUME TypeOK, RowStep
    PROVE  /\ queue' \in Seq(Row)
           /\ DOMAIN queue \subseteq DOMAIN queue'
           /\ \A q \in DOMAIN queue :
                 /\ queue'[q].item = queue[q].item
                 /\ queue[q].status \in Settled => queue'[q].status = queue[q].status
           /\ OneRowPerEvent => OneRowPerEvent'
<1>1. CASE InsertRow
  <2>1. PICK item \in Items, status \in {"queued", "dispatching"} :
          /\ item \in Events => RowsOf(item) = {}
          /\ Insert(item, status)
    BY <1>1 DEF InsertRow
  <2>2. status \in QueueStatus
    BY DEF QueueStatus, Live, Visible
  <2>3. /\ queue' \in Seq(Row)
        /\ DOMAIN queue' = DOMAIN queue \cup {Len(queue) + 1}
        /\ \A q \in DOMAIN queue : queue'[q] = queue[q]
        /\ queue'[Len(queue) + 1] = [item |-> item, status |-> status]
    BY <2>1, <2>2, InsertType
  <2>4. ASSUME OneRowPerEvent,
               NEW p \in DOMAIN queue', NEW q \in DOMAIN queue',
               queue'[p].item \in Events, queue'[p].item = queue'[q].item
        PROVE  p = q
    BY <2>1, <2>3, <2>4 DEF OneRowPerEvent, RowsOf
  <2>5. QED
    BY <2>3, <2>4 DEF OneRowPerEvent
<1>2. CASE ClaimHead
  <2>1. PICK t \in Threads, q \in DOMAIN queue : IsHead(q, t) /\ SetRows({q}, "dispatching")
    BY <1>2 DEF ClaimHead
  <2>2. queue[q].status \in Live /\ "dispatching" \in QueueStatus
    BY <2>1 DEF IsHead, VisibleRows, Live, QueueStatus
  <2>3. QED
    BY <2>1, <2>2, RewriteEffect
<1>3. CASE ReleaseRows
  BY <1>3, RewriteEffect DEF ReleaseRows, QueueStatus, Live, Visible, Settled
<1>4. QED
  BY <1>1, <1>2, <1>3 DEF RowStep

LEMMA MarkStepEffect ==
    ASSUME TypeOK, MarkStep
    PROVE  /\ ledger' \in [Events -> LedgerStatus]
           /\ \A e \in Events : ledger[e] \in Settled => ledger'[e] = ledger[e]
BY DEF TypeOK, MarkStep, Mark, LedgerStatus, Settled

\* A step never shortens the table, and keeps it within its bound.
LEMMA TablesStep ==
    ASSUME TypeOK, Len(queue) <= MaxRows, [Next]_vars
    PROVE  /\ TypeOK'
           /\ Len(queue) <= Len(queue')
           /\ Len(queue') <= MaxRows
<1>1. CASE LedgerStep \/ UNCHANGED vars
  <2>1. UNCHANGED queue
    BY <1>1 DEF vars, LedgerStep, ClaimEvent, UpdateEvent, PruneEventLedger
  <2>2. ledger' \in [Events -> LedgerStatus]
    BY <1>1 DEF vars, TypeOK, LedgerStep, ClaimEvent, UpdateEvent, PruneEventLedger, Mark,
                CallerStatus, LedgerStatus, QueueStatus, Live, Visible, Settled
  <2>3. QED
    BY <2>1, <2>2 DEF TypeOK
<1>2. CASE QueueStep
  <2>1. RowStep /\ MarkStep
    BY <1>2, QueueStepShape
  <2>2. TypeOK'
    BY <2>1, RowStepEffect, MarkStepEffect DEF TypeOK
  <2>3. CASE \E item \in Items : CreateInitialQueue(item) \/ AppendEventQueue(item)
    <3>1. PICK item \in Items : CreateInitialQueue(item) \/ AppendEventQueue(item)
      BY <2>3
    <3>2. \/ /\ Len(queue) < MaxRows
             /\ \E status \in {"queued", "dispatching"} : Insert(item, status)
          \/ \E Q : SetRows(Q, "queued")
      BY <3>1 DEF CreateInitialQueue, AppendEventQueue
    <3>3. QED
      <4>1. CASE \E Q : SetRows(Q, "queued")
        BY <2>2, <4>1, SetRowsType DEF TypeOK, QueueStatus, Live, Visible
      <4>2. CASE /\ Len(queue) < MaxRows
                 /\ \E status \in {"queued", "dispatching"} : Insert(item, status)
        <5>1. Len(queue') = Len(queue) + 1 /\ Len(queue) < MaxRows
          BY <4>2, InsertType DEF QueueStatus, Live, Visible
        <5>2. QED
          BY <2>2, <5>1, BoundAssumption DEF TypeOK
      <4>3. QED
        BY <3>2, <4>1, <4>2
  <2>4. CASE ~\E item \in Items : CreateInitialQueue(item) \/ AppendEventQueue(item)
    <3>1. \E Q : \E status \in QueueStatus : SetRows(Q, status)
      <4> USE DEF QueueStatus, Live, Visible, Settled
      <4>1. QED
        BY <1>2, <2>4 DEF QueueStep, ClaimEventQueueHead, ConsumeEventQueueHead,
              ConsumeEventQueueRow, MarkEventQueueRetryable, FailEventQueueRow,
              FailEventQueueForSession, ResetLeases
    <3>2. QED
      BY <2>2, <3>1, SetRowsType DEF TypeOK
  <2>5. QED
    BY <2>3, <2>4
<1>3. QED
  BY <1>1, <1>2 DEF Next

-----------------------------------------------------------------------------
(* The invariants. *)

Inv == TypeOK /\ OneRowPerEvent

LEMMA LedgerStepInv ==
    ASSUME Inv, LedgerStep
    PROVE  Inv' /\ UNCHANGED queue
<1> USE DEF Inv, TypeOK, OneRowPerEvent, LedgerStatus, QueueStatus, Live, Visible, Settled
<1>1. ASSUME NEW e \in Events, ClaimEvent(e)
      PROVE  Inv' /\ UNCHANGED queue
  BY <1>1 DEF ClaimEvent
<1>2. ASSUME NEW e \in Events, NEW status \in CallerStatus, UpdateEvent(e, status)
      PROVE  Inv' /\ UNCHANGED queue
  BY <1>2 DEF UpdateEvent, Mark, CallerStatus
<1>3. ASSUME NEW old \in SUBSET Events, PruneEventLedger(old)
      PROVE  Inv' /\ UNCHANGED queue
  BY <1>3 DEF PruneEventLedger
<1>4. QED
  BY <1>1, <1>2, <1>3 DEF LedgerStep

LEMMA InvStep == Inv /\ [Next]_vars => Inv'
<1> SUFFICES ASSUME Inv, [Next]_vars PROVE Inv'
  OBVIOUS
<1>1. CASE LedgerStep
  BY <1>1, LedgerStepInv
<1>2. CASE QueueStep
  <2>1. RowStep /\ MarkStep
    BY <1>2, QueueStepShape DEF Inv
  <2>2. /\ queue' \in Seq(Row)
        /\ OneRowPerEvent => OneRowPerEvent'
    BY <2>1, RowStepEffect DEF Inv
  <2>3. ledger' \in [Events -> LedgerStatus]
    BY <2>1, MarkStepEffect DEF Inv
  <2>4. QED
    BY <2>2, <2>3 DEF Inv, TypeOK
<1>3. CASE UNCHANGED vars
  BY <1>3 DEF vars, Inv, TypeOK, OneRowPerEvent
<1>4. QED
  BY <1>1, <1>2, <1>3 DEF Next

LEMMA InvInit == Init => Inv
BY DEF Init, Inv, TypeOK, OneRowPerEvent, LedgerStatus

LEMMA InvAlways == Spec => []Inv
BY InvInit, InvStep, PTL DEF Spec

\* The tables hold only rows and statuses the code writes.
THEOREM TypeCorrect == Spec => []TypeOK
<1>1. Inv => TypeOK
  BY DEF Inv
<1>2. QED
  BY <1>1, InvAlways, PTL

\* An event never has two rows, whatever is appended, re-appended or replayed.
THEOREM EventHasOneRow == Spec => []OneRowPerEvent
<1>1. Inv => OneRowPerEvent
  BY DEF Inv
<1>2. QED
  BY <1>1, InvAlways, PTL

\* A settled row stays settled with the same verdict.
THEOREM RowsSettleForGood == Spec => SettledForGood
<1>1. Inv /\ [Next]_vars =>
        [\A q \in DOMAIN queue :
            queue[q].status \in Settled => queue'[q].status = queue[q].status]_vars
  <2> SUFFICES ASSUME Inv, Next,
                      NEW q \in DOMAIN queue, queue[q].status \in Settled
               PROVE  queue'[q].status = queue[q].status
    BY DEF vars
  <2>1. CASE LedgerStep
    BY <2>1, LedgerStepInv
  <2>2. CASE QueueStep
    <3>1. RowStep
      BY <2>2, QueueStepShape DEF Inv
    <3>2. QED
      BY <3>1, RowStepEffect DEF Inv
  <2>3. QED
    BY <2>1, <2>2 DEF Next
<1>2. QED
  BY <1>1, InvAlways, PTL DEF Spec, SettledForGood

\* No queue operation overwrites a verdict of the ledger.
THEOREM QueueKeepsVerdicts == Spec => VerdictKeptByQueue
<1>1. Inv /\ [Next]_vars =>
        [queue' # queue
         => \A e \in Events : ledger[e] \in Settled => ledger'[e] = ledger[e]]_vars
  <2> SUFFICES ASSUME Inv, Next, queue' # queue,
                      NEW e \in Events, ledger[e] \in Settled
               PROVE  ledger'[e] = ledger[e]
    BY DEF vars
  <2>1. ~LedgerStep
    BY LedgerStepInv
  <2>2. MarkStep
    BY <2>1, QueueStepShape DEF Next, Inv
  <2>3. QED
    BY <2>2, MarkStepEffect DEF Inv
<1>2. QED
  BY <1>1, InvAlways, PTL DEF Spec, VerdictKeptByQueue

-----------------------------------------------------------------------------
(* The order of claims, and the refinement of TicketQueue. *)

\* A row is claimed only when it is the first waiting one of its conversation.
THEOREM RowsAreClaimedInOrder == Spec => ClaimedInOrder
<1>1. Inv /\ [Next]_vars =>
        [\A q \in DOMAIN queue :
            queue[q].status \in Visible /\ queue'[q].status = "dispatching"
            => \A p \in VisibleRows(ThreadOf[queue[q].item]) : q <= p]_vars
  <2> SUFFICES ASSUME Inv, Next,
                      NEW q \in DOMAIN queue,
                      queue[q].status \in Visible, queue'[q].status = "dispatching",
                      NEW p \in VisibleRows(ThreadOf[queue[q].item])
               PROVE  q <= p
    BY DEF vars
  <2>1. RowStep
    <3>1. ~LedgerStep
      BY LedgerStepInv DEF Visible
    <3>2. QED
      BY <3>1, QueueStepShape DEF Next, Inv
  <2>2. ~InsertRow
    BY InsertType DEF InsertRow, Inv, QueueStatus, Live, Visible
  <2>3. ~ReleaseRows
    BY SetRowsType DEF ReleaseRows, Inv, QueueStatus, Live, Visible, Settled
  <2>4. PICK t \in Threads, h \in DOMAIN queue : IsHead(h, t) /\ SetRows({h}, "dispatching")
    BY <2>1, <2>2, <2>3 DEF RowStep, ClaimHead
  <2>5. q = h
    BY <2>4, SetRowsType DEF Inv, QueueStatus, Live, Visible
  <2>6. QED
    BY <2>4, <2>5 DEF IsHead, VisibleRows
<1>2. QED
  BY <1>1, InvAlways, PTL DEF Spec, ClaimedInOrder

\* The tickets' conversations, as the refinement mapping computes them.
Owner == [q \in DOMAIN queue |-> ThreadOf[queue[q].item]]

LEMMA OwnerType ==
    ASSUME TypeOK
    PROVE  /\ Owner \in Seq(Threads)
           /\ Len(Owner) = Len(queue)
<1>0. \A q \in DOMAIN queue : queue[q] \in Row
  BY DEF TypeOK
<1>1. \A q \in DOMAIN queue : ThreadOf[queue[q].item] \in Threads
  BY <1>0, PayloadAssumption DEF Row
<1>2. DOMAIN queue = 1..Len(queue) /\ Len(queue) \in Nat
  BY DEF TypeOK
<1>3. Owner \in [1..Len(queue) -> Threads]
  BY <1>1, <1>2 DEF Owner
<1>4. QED
  BY <1>2, <1>3

\* The table implements the ticket queue.
THEOREM QueueImplementsTickets == Spec => ImplementsTickets
<1>1. Init => Tickets!Init
  BY DEF Init, Tickets!Init, WithStatus
<1>2. Inv /\ [Next]_vars => [Tickets!Next]_(Tickets!tvars)
  <2> SUFFICES ASSUME Inv, [Next]_vars
               PROVE  [Tickets!Next]_(Tickets!tvars)
    OBVIOUS
  <2>1. ASSUME UNCHANGED queue
        PROVE  UNCHANGED Tickets!tvars
    BY <2>1 DEF Tickets!tvars, WithStatus
  <2>2. ASSUME InsertRow
        PROVE  Tickets!Next
    <3>1. PICK item \in Items, status \in {"queued", "dispatching"} : Insert(item, status)
      BY <2>2 DEF InsertRow
    <3>2. /\ DOMAIN queue' = DOMAIN queue \cup {Len(queue) + 1}
          /\ \A q \in DOMAIN queue : queue'[q] = queue[q]
          /\ queue'[Len(queue) + 1] = [item |-> item, status |-> status]
          /\ Len(queue') = Len(queue) + 1
          /\ queue' \in Seq(Row)
      BY <3>1, InsertType DEF Inv, QueueStatus, Live, Visible
    <3>3. /\ Owner \in Seq(Threads)
          /\ Len(Owner) = Len(queue)
          /\ ThreadOf[item] \in Threads
      BY OwnerType, PayloadAssumption DEF Inv
    <3>4. DOMAIN queue = 1..Len(queue) /\ Len(queue) \in Nat
      BY DEF Inv, TypeOK
    <3>5. Owner' = Append(Owner, ThreadOf[item])
      BY <3>2, <3>3, <3>4 DEF Owner
    <3>6. CASE status = "queued"
      <4>1. /\ WithStatus(Visible)' = WithStatus(Visible) \cup {Len(Owner) + 1}
            /\ WithStatus({"dispatching"})' = WithStatus({"dispatching"})
            /\ WithStatus(Settled)' = WithStatus(Settled)
        BY <3>2, <3>3, <3>4, <3>6 DEF WithStatus, Visible, Settled
      <4>2. Tickets!Arrive(ThreadOf[item])
        BY <3>5, <4>1 DEF Tickets!Arrive, Tickets!NextTicket, Owner
      <4>3. QED
        BY <3>3, <4>2 DEF Tickets!Next
    <3>7. CASE status = "dispatching"
      <4>1. /\ WithStatus(Visible)' = WithStatus(Visible)
            /\ WithStatus({"dispatching"})' = WithStatus({"dispatching"}) \cup {Len(Owner) + 1}
            /\ WithStatus(Settled)' = WithStatus(Settled)
        BY <3>2, <3>3, <3>4, <3>7 DEF WithStatus, Visible, Settled
      <4>2. Tickets!ArriveTaken(ThreadOf[item])
        BY <3>5, <4>1 DEF Tickets!ArriveTaken, Tickets!NextTicket, Owner
      <4>3. QED
        BY <3>3, <4>2 DEF Tickets!Next
    <3>8. QED
      BY <3>6, <3>7
  <2>3. ASSUME NEW Q, NEW status \in QueueStatus, SetRows(Q, status)
        PROVE  /\ DOMAIN queue' = DOMAIN queue
               /\ \A q \in DOMAIN queue :
                     queue'[q].status = IF q \in Q THEN status ELSE queue[q].status
               /\ Owner' = Owner
    BY <2>3, SetRowsType DEF Inv, Owner
  <2>4. ASSUME ClaimHead
        PROVE  Tickets!Next
    <3>1. PICK t \in Threads, h \in DOMAIN queue : IsHead(h, t) /\ SetRows({h}, "dispatching")
      BY <2>4 DEF ClaimHead
    <3>2. /\ DOMAIN queue' = DOMAIN queue
          /\ \A q \in DOMAIN queue :
                queue'[q].status = IF q = h THEN "dispatching" ELSE queue[q].status
          /\ Owner' = Owner
      BY <3>1, <2>3 DEF QueueStatus, Live
    <3>3. /\ h \in WithStatus(Visible)
          /\ \A m \in WithStatus(Visible) : Owner[m] = Owner[h] => h <= m
      BY <3>1 DEF IsHead, VisibleRows, WithStatus, Owner
    <3>4. /\ WithStatus(Visible)' = WithStatus(Visible) \ {h}
          /\ WithStatus({"dispatching"})' = WithStatus({"dispatching"}) \cup {h}
          /\ WithStatus(Settled)' = WithStatus(Settled)
      BY <3>2, <3>3 DEF WithStatus, Visible, Settled
    <3>5. Tickets!Take(h)
      BY <3>2, <3>3, <3>4 DEF Tickets!Take, Owner
    <3>6. QED
      BY <3>3, <3>5 DEF Tickets!Next
  <2>5. ASSUME ReleaseRows
        PROVE  Tickets!Next
    <3>1. PICK Q \in SUBSET DOMAIN queue, status \in Visible \cup Settled :
            /\ \A q \in Q : queue[q].status \in Live
            /\ SetRows(Q, status)
      BY <2>5 DEF ReleaseRows
    <3>2. /\ DOMAIN queue' = DOMAIN queue
          /\ \A q \in DOMAIN queue :
                queue'[q].status = IF q \in Q THEN status ELSE queue[q].status
          /\ Owner' = Owner
      BY <3>1, <2>3 DEF QueueStatus, Live, Visible, Settled
    <3>3. CASE status \in Visible
      <4> DEFINE N == {q \in Q : queue[q].status = "dispatching"}
      <4>1. /\ N \in SUBSET WithStatus({"dispatching"})
            /\ WithStatus(Visible)' = WithStatus(Visible) \cup N
            /\ WithStatus({"dispatching"})' = WithStatus({"dispatching"}) \ N
            /\ WithStatus(Settled)' = WithStatus(Settled)
        BY <3>1, <3>2, <3>3 DEF WithStatus, Visible, Settled, Live
      <4>2. Tickets!PutBack(N)
        BY <3>2, <4>1 DEF Tickets!PutBack, Owner
      <4>3. QED
        BY <4>1, <4>2 DEF Tickets!Next
    <3>4. CASE status \in Settled
      <4>1. /\ Q \in SUBSET (WithStatus(Visible) \cup WithStatus({"dispatching"}))
            /\ WithStatus(Visible)' = WithStatus(Visible) \ Q
            /\ WithStatus({"dispatching"})' = WithStatus({"dispatching"}) \ Q
            /\ WithStatus(Settled)' = WithStatus(Settled) \cup Q
        BY <3>1, <3>2, <3>4 DEF WithStatus, Visible, Settled, Live
      <4>2. Tickets!Settle(Q)
        BY <3>2, <4>1 DEF Tickets!Settle, Owner
      <4>3. QED
        BY <4>1, <4>2 DEF Tickets!Next
    <3>5. QED
      BY <3>3, <3>4
  <2>6. CASE LedgerStep \/ UNCHANGED vars
    BY <2>1, <2>6, LedgerStepInv DEF vars
  <2>7. CASE QueueStep
    BY <2>2, <2>4, <2>5, <2>7, QueueStepShape DEF RowStep, Inv
  <2>8. QED
    BY <2>6, <2>7 DEF Next
<1>3. QED
  BY <1>1, <1>2, InvAlways, PTL DEF Spec, ImplementsTickets, Tickets!Spec

=============================================================================
