-------------------------- MODULE ConversationProofs --------------------------
(***************************************************************************)
(* Theorems about Conversation, for every finite set of messages, every    *)
(* bound and every budget of faults: the types, that the tables only move  *)
(* as EventQueue lets them, with what follows from it, and that a message  *)
(* is typed into a pane once in the life of the process.                   *)
(***************************************************************************)
EXTENDS Conversation, FiniteSetTheorems, WellFoundedInduction, TLAPS

QP == INSTANCE EventQueueProofs WITH
    Texts <- {}, Threads <- {"conversation"},
    ThreadOf <- [e \in Events |-> "conversation"]

-----------------------------------------------------------------------------
(* The inductive invariant *)

Attempt == [event: Events, attempt: {"none", "open", "closed", "cancelled"}]

\* A copy of the session row names a turn and a queue row that there are; so does
\* what a thread holds.  Neither table loses a row, so that copies stay good.
Known == [status: Status \cup {"absent"}, turn: 0..Len(turns), row: 0..Len(queue),
          pane: Nat, last: Events \cup {NoEvent}, why: Reasons]

Places ==
    {"off", "create", "refused", "cursor", "recover", "route", "mark", "answer", "append",
     "active", "race", "send", "requeue", "rollback", "answer_send", "answer_undo",
     "answer_save",
     "post", "record", "close", "check", "identity", "finish", "rest", "wait", "verdict",
     "drain", "drain_busy", "drain_send", "drain_undo", "drain_retry",
     "start", "launch", "window", "load", "prepare", "allocate", "pane", "ready", "dispatch",
     "first", "timeout", "fail", "fail_load", "fail_error", "suspend_load", "fail_suspend",
     "fail_event", "fail_row",
     "cancel", "cancel_load", "cancel_force", "cancelled", "kill", "orphaned", "suspend",
     "shutdown", "put_back", "closed", "clear_pane", "exit", "detected", "notify"}

Hand == [at: Places, snap: Known, turn: 0..Len(turns), row: 0..Len(queue), pane: Nat]

\* Where a thread uses its queue row, or its turn, without a look whether it has one.
RowInHand  == {"drain", "drain_busy", "drain_send", "drain_undo", "drain_retry", "put_back"}
TurnInHand == {"send", "drain_send", "first", "answer_send"}

Needy(p) == RowInHand \cup TurnInHand
            \cup (IF p = Control("cleanup") THEN {"fail_row"} ELSE {})

Holds(p, r) ==
    /\ r.at \in RowInHand => r.row # NoRow
    /\ r.at \in TurnInHand => r.turn # NoTurn
    /\ p = Control("cleanup") /\ r.at = "fail_row" => r.row # NoRow

TablesOK  == EQ!TypeOK /\ Len(queue) <= MaxRows
TurnsOK   == turns \in Seq(Attempt) /\ Len(turns) <= MaxTurns
ThreadsOK == thread \in [Processes -> Hand] /\ \A p \in Processes : Holds(p, thread[p])

PanesOK ==
    /\ panes \subseteq Nat \ {NoPane} /\ IsFiniteSet(panes)
    /\ inbox \subseteq [turn: 1..Len(turns), pane: panes]

BooksOK ==
    /\ posted \subseteq 1..Len(turns)
    /\ sent \in [Events -> Nat]
    /\ backlog \subseteq 1..Len(queue) /\ dropped \subseteq 1..Len(queue)
    /\ stale \subseteq Lapses /\ lost \subseteq Nat /\ IsFiniteSet(lost)
    /\ budget \in [FaultKinds -> Nat]

IInv == TablesOK /\ TurnsOK /\ session \in Known /\ ThreadsOK /\ PanesOK /\ BooksOK

QueueMove == [EQ!Next]_(EQ!vars)

-----------------------------------------------------------------------------
(* The queue under its two names *)

\* What this module's instance says of the tables is what SessionStore's says.
LEMMA SameTables ==
    /\ EQ!TypeOK <=> QP!TypeOK
    /\ EQ!TypeOK' <=> QP!TypeOK'
    /\ EQ!Init <=> QP!Init
    /\ QueueMove <=> [QP!Next]_(QP!vars)
<1> USE DEF EQ!Items, QP!Items, EQ!Visible, QP!Visible, EQ!Live, QP!Live, EQ!Settled,
        QP!Settled, EQ!QueueStatus, QP!QueueStatus, EQ!LedgerStatus, QP!LedgerStatus,
        EQ!Row, QP!Row, EQ!RowsOf, QP!RowsOf, EQ!VisibleRows, QP!VisibleRows, EQ!LiveRows,
        QP!LiveRows, EQ!IsHead, QP!IsHead, EQ!EventsOf, QP!EventsOf, EQ!DispatchingRows,
        QP!DispatchingRows, EQ!CallerStatus, QP!CallerStatus
<1>1. /\ \A Q, s : EQ!SetRows(Q, s) = QP!SetRows(Q, s)
      /\ \A item, s : EQ!Insert(item, s) = QP!Insert(item, s)
      /\ \A E, s, k : EQ!Mark(E, s, k) = QP!Mark(E, s, k)
  BY Zenon DEF EQ!SetRows, QP!SetRows, EQ!Insert, QP!Insert, EQ!Mark, QP!Mark
<1>2. EQ!LedgerStep <=> QP!LedgerStep
  BY <1>1, Zenon
     DEF EQ!LedgerStep, QP!LedgerStep, EQ!ClaimEvent, QP!ClaimEvent, EQ!UpdateEvent,
         QP!UpdateEvent, EQ!PruneEventLedger, QP!PruneEventLedger
<1>3. \A item : EQ!CreateInitialQueue(item) <=> QP!CreateInitialQueue(item)
  BY <1>1, Zenon DEF EQ!CreateInitialQueue, QP!CreateInitialQueue
<1>4. \A item : EQ!AppendEventQueue(item) <=> QP!AppendEventQueue(item)
  BY <1>1, Zenon DEF EQ!AppendEventQueue, QP!AppendEventQueue
<1>5. \A t, q, item : EQ!ClaimEventQueueHead(t, q, item) <=> QP!ClaimEventQueueHead(t, q, item)
  BY <1>1, Zenon DEF EQ!ClaimEventQueueHead, QP!ClaimEventQueueHead
<1>6. \A t, q : EQ!ConsumeEventQueueHead(t, q) <=> QP!ConsumeEventQueueHead(t, q)
  BY <1>1, Zenon DEF EQ!ConsumeEventQueueHead, QP!ConsumeEventQueueHead
<1>7. \A q : EQ!ConsumeEventQueueRow(q) <=> QP!ConsumeEventQueueRow(q)
  BY <1>1, Zenon DEF EQ!ConsumeEventQueueRow, QP!ConsumeEventQueueRow
<1>8. \A q : EQ!MarkEventQueueRetryable(q) <=> QP!MarkEventQueueRetryable(q)
  BY <1>1, Zenon DEF EQ!MarkEventQueueRetryable, QP!MarkEventQueueRetryable
<1>9. \A q : EQ!FailEventQueueRow(q) <=> QP!FailEventQueueRow(q)
  BY <1>1, Zenon DEF EQ!FailEventQueueRow, QP!FailEventQueueRow
<1>10. \A t : EQ!FailEventQueueForSession(t) <=> QP!FailEventQueueForSession(t)
  BY <1>1, Zenon DEF EQ!FailEventQueueForSession, QP!FailEventQueueForSession
<1>11. \A Q : EQ!ResetLeases(Q) <=> QP!ResetLeases(Q)
  BY <1>1, Zenon DEF EQ!ResetLeases, QP!ResetLeases
<1>12. EQ!QueueStep <=> QP!QueueStep
  BY <1>3, <1>4, <1>5, <1>6, <1>7, <1>8, <1>9, <1>10, <1>11, Zenon
     DEF EQ!QueueStep, QP!QueueStep
<1>13. QueueMove <=> [QP!Next]_(QP!vars)
  BY <1>2, <1>12 DEF QueueMove, EQ!Next, QP!Next, EQ!vars, QP!vars
<1>14. (EQ!TypeOK <=> QP!TypeOK) /\ (EQ!TypeOK' <=> QP!TypeOK')
  BY DEF EQ!TypeOK, QP!TypeOK
<1>15. EQ!Init <=> QP!Init
  BY DEF EQ!Init, QP!Init
<1>16. QED
  BY <1>13, <1>14, <1>15

LEMMA QueueAssumptions == QP!PayloadAssumption /\ QP!BoundAssumption
BY StoreAssumption DEF QP!PayloadAssumption, QP!BoundAssumption, QP!Items

\* A step of the queue keeps its tables' types and shortens nothing.
LEMMA TablesGrow ==
    ASSUME TablesOK, QueueMove
    PROVE  TablesOK' /\ Len(queue) <= Len(queue')
<1>1. QP!TypeOK /\ [QP!Next]_(QP!vars)
  BY SameTables DEF TablesOK
<1>2. /\ QP!TypeOK'
      /\ Len(queue) <= Len(queue')
      /\ Len(queue') <= MaxRows
  BY <1>1, QueueAssumptions, QP!TablesStep DEF TablesOK
<1>3. QED
  BY <1>2, SameTables DEF TablesOK

LEMMA TablesFacts ==
    ASSUME TablesOK
    PROVE  /\ Len(queue) \in Nat /\ DOMAIN queue = 1..Len(queue)
           /\ \A q \in DOMAIN queue : /\ queue[q].item \in Events
                                      /\ queue[q].status \in EQ!QueueStatus
           /\ ledger \in [Events -> EQ!LedgerStatus]
<1>1. queue \in Seq(EQ!Row)
  BY DEF TablesOK, EQ!TypeOK
<1>2. \A q \in DOMAIN queue : queue[q] \in EQ!Row
  BY <1>1
<1>3. QED
  BY <1>1, <1>2 DEF EQ!Row, EQ!Items, TablesOK, EQ!TypeOK

-----------------------------------------------------------------------------
(* What a step leaves to be shown *)

LEMMA ProcessNames ==
    /\ \A e \in Events : /\ Slack(e) \in Processes /\ Slack(e) # Control("cleanup")
                         /\ Launch(e) \in Processes /\ Launch(e) # Control("cleanup")
                         /\ Slack(e) # Launch(e)
    /\ \A t \in Turns : Reply(t) \in Processes /\ Reply(t) # Control("cleanup")
    /\ Detector \in Processes /\ Detector # Control("cleanup")
    /\ \A k \in Controls : Control(k) \in Processes
    /\ \A k \in Controls : Control(k) = Control("cleanup") => k = "cleanup"
BY DEF Processes, Slack, Launch, Reply, Detector, Control

LEMMA TurnsFacts ==
    ASSUME TurnsOK
    PROVE  /\ Len(turns) \in Nat /\ DOMAIN turns = 1..Len(turns)
           /\ \A t \in DOMAIN turns : turns[t] \in Attempt /\ turns[t].event \in Events
           /\ DOMAIN turns \subseteq Turns
<1>1. /\ Len(turns) \in Nat /\ DOMAIN turns = 1..Len(turns)
      /\ \A t \in DOMAIN turns : turns[t] \in Attempt
  BY DEF TurnsOK
<1>2. MaxTurns \in Nat
  BY StoreAssumption
<1>3. QED
  BY <1>1, <1>2 DEF TurnsOK, Turns, Attempt

LEMMA HandFacts ==
    ASSUME IInv, NEW p \in Processes
    PROVE  /\ thread[p] \in Hand /\ Holds(p, thread[p])
           /\ Snap(p) \in Known
           /\ thread[p].turn \in 0..Len(turns)
           /\ thread[p].row \in 0..Len(queue)
           /\ thread[p].pane \in Nat
           /\ thread[p].at \in Places
BY DEF IInv, ThreadsOK, Hand, Snap

LEMMA OffIsHand == ASSUME IInv PROVE Off \in Hand /\ Absent \in Known
<1>1. Len(turns) \in Nat /\ Len(queue) \in Nat
  BY TurnsFacts, TablesFacts DEF IInv
<1>2. 0 \in 0..Len(turns) /\ 0 \in 0..Len(queue) /\ 0 \in Nat
  BY <1>1
<1>3. Absent \in Known
  BY <1>2 DEF Absent, Known, NoTurn, NoRow, NoPane, Reasons
<1>4. Off \in Hand
  BY <1>2, <1>3 DEF Off, Hand, Places, NoTurn, NoRow, NoPane
<1>5. QED
  BY <1>3, <1>4

\* The rows that are written over a copy that is good.
LEMMA KnownRows ==
    ASSUME IInv, NEW s \in Known
    PROVE  /\ s.status \in Status \cup {"absent"} /\ s.turn \in 0..Len(turns)
           /\ s.row \in 0..Len(queue) /\ s.pane \in Nat
           /\ \A x \in Status : Clear(s, x) \in Known
           /\ \A x \in Reasons : Suspend(s, x) \in Known
           /\ \A x \in Status : [s EXCEPT !.status = x] \in Known
           /\ \A n \in Nat : [s EXCEPT !.pane = n] \in Known
           /\ \A e \in Events : [s EXCEPT !.last = e] \in Known
<1>1. Len(turns) \in Nat /\ Len(queue) \in Nat
  BY TurnsFacts, TablesFacts DEF IInv
<1>2. /\ s.status \in Status \cup {"absent"} /\ s.turn \in 0..Len(turns)
      /\ s.row \in 0..Len(queue) /\ s.pane \in Nat
  BY DEF Known
<1>3. \A x \in Status : Clear(s, x) \in Known
  <2>1. 0 \in 0..Len(turns) /\ 0 \in 0..Len(queue)
    BY <1>1
  <2>2. QED
    BY <2>1 DEF Known, Clear, NoTurn, NoRow
<1>4. \A x \in Reasons : Suspend(s, x) \in Known
  <2>1. "suspended" \in Status
    BY DEF Status
  <2>2. Clear(s, "suspended") \in Known
    BY <1>3, <2>1
  <2>3. QED
    BY <2>2 DEF Known, Suspend
<1>5. /\ \A x \in Status : [s EXCEPT !.status = x] \in Known
      /\ \A n \in Nat : [s EXCEPT !.pane = n] \in Known
      /\ \A e \in Events : [s EXCEPT !.last = e] \in Known
  BY DEF Known
<1>6. QED
  BY <1>2, <1>3, <1>4, <1>5

\* What was good stays good when the tables have grown.
LEMMA GoodStaysGood ==
    ASSUME IInv, QueueMove, TurnsOK', Len(turns) <= Len(turns')
    PROVE  /\ TablesOK' /\ Known \subseteq Known' /\ Hand \subseteq Hand'
           /\ 1..Len(queue) \subseteq 1..Len(queue)'
           /\ 1..Len(turns) \subseteq 1..Len(turns)'
<1>1. TablesOK' /\ Len(queue) <= Len(queue')
  BY TablesGrow DEF IInv
<1>2. /\ Len(queue) \in Nat /\ Len(queue') \in Nat
      /\ Len(turns) \in Nat /\ Len(turns') \in Nat
  BY <1>1 DEF IInv, TurnsOK, TablesOK, EQ!TypeOK
<1>3. 0..Len(queue) \subseteq 0..Len(queue)' /\ 0..Len(turns) \subseteq 0..Len(turns)'
  BY <1>1, <1>2
<1>4. Known \subseteq Known'
  BY <1>3 DEF Known
<1>5. Hand \subseteq Hand'
  BY <1>3, <1>4 DEF Hand
<1>6. QED
  BY <1>1, <1>2, <1>4, <1>5

\* One thread goes on with something good in hand.
LEMMA OneThread ==
    ASSUME IInv, Hand \subseteq Hand', NEW p \in Processes, NEW r \in Hand',
           Holds(p, r), thread' = [thread EXCEPT ![p] = r]
    PROVE  ThreadsOK'
BY DEF IInv, ThreadsOK, Holds

\* It goes where nothing is taken for granted, by one of the operators of the model.
LEMMA ThreadGoesOn ==
    ASSUME IInv, Hand \subseteq Hand', Known \subseteq Known', NEW p \in Processes,
           NEW where \in Places \ Needy(p), NEW s \in Known',
           \/ Enter(p, where, s) \/ Goto(p, where) \/ Keep(p, where)
           \/ Pass(p, where) \/ End(p)
    PROVE  ThreadsOK'
<1>1. thread[p] \in Hand' /\ Off \in Hand' /\ Absent \in Known'
  BY HandFacts, OffIsHand
<1>2. ASSUME NEW r \in Hand', thread' = [thread EXCEPT ![p] = r], r.at \in {where, "off"}
      PROVE  ThreadsOK'
  <2>1. Holds(p, r)
    BY <1>2 DEF Holds, Needy, RowInHand, TurnInHand
  <2>2. QED
    BY <1>2, <2>1, OneThread
<1>3. CASE Enter(p, where, s)
  <2>1. [thread[p] EXCEPT !.at = where, !.snap = s] \in Hand'
    BY <1>1 DEF Hand
  <2>2. [thread[p] EXCEPT !.at = where, !.snap = s].at = where
    BY <1>1 DEF Hand
  <2>3. QED
    BY <1>2, <1>3, <2>1, <2>2 DEF Enter, Become
<1>4. CASE Goto(p, where)
  <2>1. [thread[p] EXCEPT !.at = where, !.snap = Absent] \in Hand'
    BY <1>1 DEF Hand
  <2>2. [thread[p] EXCEPT !.at = where, !.snap = Absent].at = where
    BY <1>1 DEF Hand
  <2>3. QED
    BY <1>2, <1>4, <2>1, <2>2 DEF Goto, Become
<1>5. CASE Keep(p, where)
  <2>1. [thread[p] EXCEPT !.at = where] \in Hand'
    BY <1>1 DEF Hand
  <2>2. [thread[p] EXCEPT !.at = where].at = where
    BY <1>1 DEF Hand
  <2>3. QED
    BY <1>2, <1>5, <2>1, <2>2 DEF Keep, Become
<1>6. CASE Pass(p, where)
  <2>1. [Off EXCEPT !.at = where] \in Hand' /\ [Off EXCEPT !.at = where].at = where
    BY <1>1 DEF Hand
  <2>2. QED
    BY <1>2, <1>6, <2>1 DEF Pass, Become
<1>7. CASE End(p)
  BY <1>1, <1>2, <1>7 DEF End, Become, Off
<1>8. QED
  BY <1>3, <1>4, <1>5, <1>6, <1>7

\* A step that leaves tables, turns, panes and the books alone.
LEMMA QuietStep ==
    ASSUME IInv,
           UNCHANGED <<queue, ledger, turns, panes, inbox, posted, sent, backlog>>,
           session' \in Known, ThreadsOK', stale' \subseteq Lapses,
           dropped' \subseteq 1..Len(queue), UNCHANGED lost, budget' \in [FaultKinds -> Nat]
    PROVE  IInv' /\ QueueMove
BY DEF IInv, TablesOK, EQ!TypeOK, TurnsOK, PanesOK, BooksOK, QueueMove, EQ!vars, Known, Hand

LEMMA QuietKeeps ==
    ASSUME UNCHANGED <<queue, turns>> PROVE Known' = Known /\ Hand' = Hand
BY DEF Known, Hand

LEMMA SpendTyped ==
    ASSUME IInv, NEW k \in FaultKinds, Spend(k) PROVE budget' \in [FaultKinds -> Nat]
BY DEF IInv, BooksOK, Spend

LEMMA RowWritten ==
    ASSUME IInv
    PROVE  /\ \A from, row : Move(from, row) => session' = row /\ stale' \subseteq Lapses
           /\ \A read, row : Save(read, row) => session' = row /\ stale' \subseteq Lapses
BY DEF IInv, BooksOK, Move, Save, Lapses

\* A step that moves the tables and nothing below the threads.
LEMMA TableStep ==
    ASSUME IInv, QueueMove, UNCHANGED <<turns, panes, inbox, posted, sent>>,
           session' \in Known', ThreadsOK', stale' \subseteq Lapses,
           backlog' \subseteq 1..Len(queue'), dropped' \subseteq 1..Len(queue'),
           UNCHANGED lost, budget' \in [FaultKinds -> Nat]
    PROVE  IInv' /\ QueueMove
<1>1. TurnsOK' /\ Len(turns) <= Len(turns')
  BY TurnsFacts DEF IInv, TurnsOK
<1>2. TablesOK'
  BY <1>1, GoodStaysGood
<1>3. PanesOK' /\ BooksOK'
  BY DEF IInv, PanesOK, BooksOK
<1>4. QED
  BY <1>1, <1>2, <1>3 DEF IInv

\* What a step of the tables leaves of the rest, when it leaves the turns alone.
LEMMA AfterQueueMove ==
    ASSUME IInv, QueueMove, UNCHANGED turns
    PROVE  /\ Known \subseteq Known' /\ Hand \subseteq Hand'
           /\ backlog \subseteq 1..Len(queue') /\ dropped \subseteq 1..Len(queue')
<1>1. TurnsOK' /\ Len(turns) <= Len(turns')
  BY TurnsFacts DEF IInv, TurnsOK
<1>2. QED
  BY <1>1, GoodStaysGood DEF IInv, BooksOK

\* The operations of the queue that the conversation uses.
LEMMA ClaimMove == ASSUME NEW e \in Events, EQ!ClaimEvent(e) PROVE QueueMove
BY DEF QueueMove, EQ!Next, EQ!LedgerStep

LEMMA UpdateMove ==
    ASSUME IInv, NEW e \in Events \cup {NoEvent}, NEW status \in {"queued", "done", "failed"},
           EQ!UpdateEvent(e, status)
    PROVE  QueueMove
<1>1. CASE e \in Events
  <2>1. status \in EQ!CallerStatus
    BY DEF EQ!CallerStatus
  <2>2. QED
    BY <1>1, <2>1 DEF QueueMove, EQ!Next, EQ!LedgerStep
<1>2. CASE e = NoEvent
  <2>1. ledger \in [Events -> EQ!LedgerStatus]
    BY TablesFacts DEF IInv
  <2>2. UNCHANGED <<queue, ledger>>
    BY <1>2, <2>1, StoreAssumption DEF EQ!UpdateEvent, EQ!Mark
  <2>3. QED
    BY <2>2 DEF QueueMove, EQ!vars
<1>3. QED
  BY <1>1, <1>2

LEMMA InsertMoves ==
    ASSUME NEW e \in Events, EQ!CreateInitialQueue(e) \/ EQ!AppendEventQueue(e)
    PROVE  QueueMove
BY DEF QueueMove, EQ!Next, EQ!QueueStep, EQ!Items

LEMMA RowMoves ==
    ASSUME NEW q \in 1..Len(queue), TablesOK,
           \/ EQ!ConsumeEventQueueRow(q) \/ EQ!MarkEventQueueRetryable(q)
           \/ EQ!FailEventQueueRow(q)
    PROVE  QueueMove
BY TablesFacts DEF QueueMove, EQ!Next, EQ!QueueStep

LEMMA HeadMoves ==
    ASSUME NEW q, EQ!ClaimEventQueueHead("conversation", q, queue[q].item), TablesOK
    PROVE  QueueMove /\ q \in 1..Len(queue)
<1>1. q \in DOMAIN queue
  BY DEF EQ!ClaimEventQueueHead, EQ!IsHead, EQ!VisibleRows
<1>2. queue[q].item \in EQ!Items
  BY <1>1, TablesFacts DEF EQ!Items
<1>3. QED
  BY <1>1, <1>2, TablesFacts DEF QueueMove, EQ!Next, EQ!QueueStep

-----------------------------------------------------------------------------
(* Every step, part by part *)

LEMMA ReceiveKeeps ==
    ASSUME IInv, NEW e \in Events, Receive(e) PROVE IInv' /\ QueueMove
<1>1. QueueMove
  BY ClaimMove DEF Receive
<1>2. /\ Known \subseteq Known' /\ Hand \subseteq Hand'
      /\ backlog' \subseteq 1..Len(queue') /\ dropped' \subseteq 1..Len(queue')
  BY <1>1, AfterQueueMove DEF Receive
<1>3. ThreadsOK'
  <2>1. PICK where \in {"create", "refused", "cursor"} : Enter(Slack(e), where, session)
    BY DEF Receive
  <2>2. where \in Places \ Needy(Slack(e)) /\ Slack(e) \in Processes
    BY ProcessNames DEF Places, Needy, RowInHand, TurnInHand
  <2>3. session \in Known'
    BY <1>2 DEF IInv
  <2>4. QED
    BY <1>2, <2>1, <2>2, <2>3, ThreadGoesOn
<1>4. budget' \in [FaultKinds -> Nat]
  BY SpendTyped DEF Receive, FaultKinds
<1>5. session' \in Known' /\ stale' \subseteq Lapses
  BY <1>2 DEF Receive, IInv, BooksOK
<1>6. UNCHANGED <<turns, panes, inbox, posted, sent, lost>>
  BY DEF Receive
<1>7. QED
  BY <1>1, <1>2, <1>3, <1>4, <1>5, <1>6, TableStep

\* The usual step: one thread goes on, turns and panes stay.
Free == Places \ (RowInHand \cup TurnInHand \cup {"fail_row"})

LEMMA GoesOn ==
    ASSUME IInv, QueueMove,
           UNCHANGED <<turns, panes, inbox, posted, sent, backlog, dropped, lost>>,
           session' \in Known, stale' \subseteq Lapses,
           budget' = budget \/ \E k \in FaultKinds : Spend(k),
           NEW p \in Processes, NEW where \in Places \ Needy(p), NEW s \in Known,
           \/ Enter(p, where, s) \/ Goto(p, where) \/ Keep(p, where)
           \/ Pass(p, where) \/ End(p)
    PROVE  IInv' /\ QueueMove
<1>1. /\ Known \subseteq Known' /\ Hand \subseteq Hand'
      /\ backlog' \subseteq 1..Len(queue') /\ dropped' \subseteq 1..Len(queue')
  BY AfterQueueMove
<1>2. ThreadsOK'
  BY <1>1, ThreadGoesOn
<1>3. budget' \in [FaultKinds -> Nat]
  BY SpendTyped DEF IInv, BooksOK
<1>4. QED
  BY <1>1, <1>2, <1>3, TableStep

LEMMA Goes ==
    ASSUME IInv, QueueMove,
           UNCHANGED <<turns, panes, inbox, posted, sent, backlog, dropped, lost>>,
           session' \in Known, stale' \subseteq Lapses,
           budget' = budget \/ \E k \in FaultKinds : Spend(k),
           NEW p \in Processes, NEW where \in Free, NEW s \in Known,
           \/ Enter(p, where, s) \/ Goto(p, where) \/ Keep(p, where)
           \/ Pass(p, where) \/ End(p)
    PROVE  IInv' /\ QueueMove
<1>1. where \in Places \ Needy(p)
  BY DEF Free, Needy
<1>2. QED
  BY <1>1, GoesOn

LEMMA Unmoved ==
    ASSUME IInv
    PROVE  /\ UNCHANGED <<queue, ledger>> => QueueMove
           /\ UNCHANGED session => session' \in Known
           /\ UNCHANGED stale => stale' \subseteq Lapses
BY DEF IInv, BooksOK, QueueMove, EQ!vars

LEMMA SlackStepKeeps ==
    ASSUME IInv, NEW e \in Events, SlackStep(e) \/ RefuseCreate(e) PROVE IInv' /\ QueueMove
<1> DEFINE p == Slack(e)
<1>p. p \in Processes /\ Launch(e) \in Processes /\ p # Launch(e)
  BY ProcessNames
<1>f. {"recover", "route", "refused", "cursor", "start", "off"} \subseteq Free
  BY DEF Free, Places, RowInHand, TurnInHand
<1>s. session \in Known /\ Snap(p) \in Known
  BY <1>p, HandFacts DEF IInv
<1> HIDE DEF p
<1>1. CASE UpdateCursor(e)
  <2>1. session' \in Known /\ stale' \subseteq Lapses
    BY <1>1, <1>s, KnownRows, RowWritten DEF UpdateCursor, p
  <2>2. Enter(p, "recover", session') \/ Pass(p, "route")
    BY <1>1 DEF UpdateCursor, p
  <2>3. QED
    BY <1>1, <1>p, <1>f, <2>1, <2>2, Goes, Unmoved DEF UpdateCursor
<1>2. CASE RefuseCreate(e)
  <2>1. Pass(p, "refused") /\ Spend("refuse") /\ "refuse" \in FaultKinds
    BY <1>2 DEF RefuseCreate, p, FaultKinds
  <2>2. QED
    BY <1>2, <1>p, <1>f, <1>s, <2>1, Goes, Unmoved DEF RefuseCreate
<1>3. CASE CreateSession(e)
  <2>1. CASE session.status = "absent"
    <3>1. EQ!CreateInitialQueue(e) /\ session' = [Absent EXCEPT !.status = "creating", !.last = e]
          /\ thread' = [thread EXCEPT
                ![p] = Off,
                ![Launch(e)] = [Off EXCEPT !.at = "start", !.snap = session',
                                           !.row = Len(queue) + 1]]
          /\ UNCHANGED <<turns, panes, inbox, posted, sent, backlog, stale, budget, dropped, lost>>
      BY <1>3, <2>1 DEF CreateSession, p
    <3>2. QueueMove
      BY <3>1, InsertMoves
    <3>3. /\ Known \subseteq Known' /\ Hand \subseteq Hand'
          /\ backlog' \subseteq 1..Len(queue') /\ dropped' \subseteq 1..Len(queue')
      BY <3>1, <3>2, AfterQueueMove
    <3>4. Absent \in Known /\ Off \in Hand
      BY OffIsHand
    <3>5. session' \in Known'
      BY <3>1, <3>3, <3>4 DEF Known, Absent, Status
    <3>6. Len(queue) + 1 \in 0..Len(queue')
      <4>1. queue \in Seq(EQ!Row) /\ Len(queue) \in Nat
        BY DEF IInv, TablesOK, EQ!TypeOK
      <4>2. Len(queue') = Len(queue) + 1
        BY <3>1, <4>1 DEF EQ!CreateInitialQueue, EQ!Insert
      <4>3. QED
        BY <4>1, <4>2
    <3> DEFINE r == [Off EXCEPT !.at = "start", !.snap = session', !.row = Len(queue) + 1]
    <3>7. r \in Hand' /\ r.at = "start"
      BY <1>f, <3>3, <3>4, <3>5, <3>6 DEF Hand, Free
    <3> HIDE DEF r
    <3>8. thread' = [thread EXCEPT ![p] = Off, ![Launch(e)] = r]
      BY <3>1 DEF r
    <3>9. Holds(p, Off) /\ Holds(Launch(e), r)
      BY <3>7 DEF Holds, RowInHand, TurnInHand, Off
    <3>10. ThreadsOK'
      BY <1>p, <3>3, <3>4, <3>7, <3>8, <3>9 DEF IInv, ThreadsOK, Holds
    <3>11. QED
      BY <3>1, <3>2, <3>3, <3>5, <3>10, TableStep DEF IInv, BooksOK
  <2>2. CASE session.status # "absent"
    <3>1. Enter(p, "refused", session) \/ Enter(p, "cursor", session)
      BY <1>3, <2>2 DEF CreateSession, p
    <3>2. QED
      BY <1>3, <2>2, <1>p, <1>f, <1>s, <3>1, Goes, Unmoved DEF CreateSession
  <2>3. QED
    BY <2>1, <2>2
<1>4. CASE MarkRefused(e) \/ MarkQueued(e)
  <2>1. QueueMove
    BY <1>4, UpdateMove DEF MarkRefused, MarkQueued
  <2>2. QED
    BY <1>4, <1>p, <1>f, <1>s, <2>1, Goes, Unmoved DEF MarkRefused, MarkQueued, p
<1>5. QED
  BY <1>1, <1>2, <1>3, <1>4 DEF SlackStep

-----------------------------------------------------------------------------
(* Turns and panes *)

LEMMA WholeStep ==
    ASSUME IInv, QueueMove, TurnsOK', Len(turns) <= Len(turns'), session' \in Known',
           ThreadsOK', PanesOK', BooksOK'
    PROVE  IInv' /\ QueueMove
BY GoodStaysGood DEF IInv

\* The attempts may be rewritten, not taken away.
LEMMA AttemptsTyped ==
    ASSUME TurnsOK, NEW ts \in Seq(Attempt), Len(ts) = Len(turns)
    PROVE  /\ \A t \in 1..Len(ts) :
                /\ Opened(ts, t) \in Seq(Attempt)
                /\ Len(Opened(ts, t)) = Len(turns)
                /\ Completed(ts, t, "closed") \in Seq(Attempt)
                /\ Len(Completed(ts, t, "closed")) = Len(turns)
           /\ \A t : \A action \in {"closed", "cancelled"} :
                /\ Finalized(ts, t, action) \in Seq(Attempt)
                /\ Len(Finalized(ts, t, action)) = Len(turns)
<1>1. /\ Len(ts) \in Nat /\ DOMAIN ts = 1..Len(ts) /\ ts \in [1..Len(ts) -> Attempt]
      /\ \A u \in 1..Len(ts) : ts[u] \in Attempt
  OBVIOUS
<1>2. \A r \in Attempt : \A x \in {"none", "open", "closed", "cancelled"} :
         [r EXCEPT !.attempt = x] \in Attempt /\ r.attempt \in {"none", "open", "closed", "cancelled"}
  BY DEF Attempt
<1>3. \A f : f \in [1..Len(ts) -> Attempt] => f \in Seq(Attempt) /\ Len(f) = Len(turns)
  BY <1>1
<1>4. ASSUME NEW t \in 1..Len(ts)
      PROVE  /\ Opened(ts, t) \in [1..Len(ts) -> Attempt]
             /\ Completed(ts, t, "closed") \in [1..Len(ts) -> Attempt]
  <2>1. /\ [ts[t] EXCEPT !.attempt = IF @ = "none" THEN "open" ELSE @] \in Attempt
        /\ [ts[t] EXCEPT !.attempt = IF @ = "none" THEN "none" ELSE "closed"] \in Attempt
    BY <1>1, <1>2
  <2>2. QED
    BY <1>1, <2>1 DEF Opened, Completed
<1>5. ASSUME NEW t, NEW action \in {"closed", "cancelled"}
      PROVE  Finalized(ts, t, action) \in [1..Len(ts) -> Attempt]
  BY <1>1, <1>2, <1>5 DEF Finalized
<1>6. QED
  BY <1>3, <1>4, <1>5

LEMMA NewTurnFacts ==
    ASSUME IInv, NEW e \in Events, NewTurn(e)
    PROVE  /\ TurnsOK' /\ Len(turns') = Len(turns) + 1 /\ Len(turns) \in Nat
           /\ NextTurn \in 1..Len(turns') /\ NextTurn # NoTurn
<1>1. Len(turns) \in Nat /\ turns \in Seq(Attempt) /\ MaxTurns \in Nat
  BY TurnsFacts, StoreAssumption DEF IInv, TurnsOK
<1>2. [event |-> e, attempt |-> "none"] \in Attempt
  BY DEF Attempt
<1>3. QED
  BY <1>1, <1>2 DEF NewTurn, NextTurn, TurnsOK, NoTurn

\* A conversation takes up a turn: it is new, and so is what the thread has in hand.
LEMMA TakesTurn ==
    ASSUME IInv, NEW e \in Events, NewTurn(e),
           UNCHANGED <<queue, ledger, panes, inbox, posted, sent, backlog, budget, dropped, lost>>,
           stale' \subseteq Lapses, session' \in Known',
           NEW p \in Processes, NEW r, r \in Hand', Holds(p, r),
           thread' = [thread EXCEPT ![p] = r]
    PROVE  IInv' /\ QueueMove
<1>1. /\ QueueMove /\ TurnsOK' /\ Len(turns) <= Len(turns')
      /\ Len(turns) \in Nat /\ Len(turns') \in Nat
  BY NewTurnFacts, Unmoved
<1>2. Hand \subseteq Hand' /\ 1..Len(turns) \subseteq 1..Len(turns')
  BY <1>1, GoodStaysGood
<1>3. ThreadsOK'
  BY <1>2, OneThread
<1>4. PanesOK' /\ BooksOK'
  BY <1>2 DEF IInv, PanesOK, BooksOK
<1>5. QED
  BY <1>1, <1>3, <1>4, WholeStep

\* A row that has the new turn is good.
LEMMA ActivatedKnown ==
    ASSUME IInv, NEW e \in Events, NewTurn(e), UNCHANGED queue, NEW q \in 0..Len(queue)
    PROVE  Activate(session, NextTurn, q) \in Known'
<1>1. session \in Known
  BY DEF IInv
<1>2. NextTurn \in 0..Len(turns')
  BY NewTurnFacts
<1>3. QED
  BY <1>1, <1>2 DEF Activate, Known, Status

\* A text is typed into a pane, or it is not; the attempt is marked.
SendsOrNot(t, e, pane) ==
    \/ Send(t, e, pane)
    \/ /\ SendFails(t, pane)
       /\ turns' \in {turns, Opened(turns, t), Completed(Opened(turns, t), t, "closed")}

LEMMA SendKeepsLength ==
    ASSUME IInv, NEW t \in 1..Len(turns), NEW e, NEW pane, SendsOrNot(t, e, pane),
           UNCHANGED queue
    PROVE  /\ turns' \in Seq(Attempt) /\ Len(turns') = Len(turns) /\ Len(turns) \in Nat
           /\ Known' = Known /\ Hand' = Hand
<1>1. turns \in Seq(Attempt) /\ Len(turns) \in Nat
  BY TurnsFacts DEF IInv, TurnsOK
<1>2. Opened(turns, t) \in Seq(Attempt) /\ Len(Opened(turns, t)) = Len(turns)
  BY <1>1, AttemptsTyped DEF IInv
<1>3. /\ Completed(Opened(turns, t), t, "closed") \in Seq(Attempt)
      /\ Len(Completed(Opened(turns, t), t, "closed")) = Len(turns)
  BY <1>2, AttemptsTyped DEF IInv
<1>4. turns' \in Seq(Attempt) /\ Len(turns') = Len(turns)
  BY <1>1, <1>2, <1>3 DEF SendsOrNot, Send
<1>5. QED
  BY <1>1, <1>4 DEF Known, Hand

LEMMA Sends ==
    ASSUME IInv, NEW t \in 1..Len(turns), NEW e \in Events, NEW pane, SendsOrNot(t, e, pane),
           UNCHANGED <<queue, ledger, session, posted, backlog, dropped, lost>>,
           ThreadsOK'
    PROVE  IInv' /\ QueueMove
<1>1. QueueMove
  BY Unmoved
<1>2. turns' \in Seq(Attempt) /\ Len(turns') = Len(turns) /\ Len(turns) \in Nat
  BY SendKeepsLength
<1>3. TurnsOK' /\ Len(turns) <= Len(turns')
  BY <1>2 DEF IInv, TurnsOK
<1>4. session' \in Known'
  BY <1>1, <1>3, GoodStaysGood DEF IInv
<1>5. PanesOK'
  <2>1. CASE Send(t, e, pane)
    BY <2>1, <1>2 DEF Send, Alive, IInv, PanesOK
  <2>2. CASE SendFails(t, pane)
    BY <2>2, <1>2 DEF SendFails, PastedUnseen, Alive, IInv, PanesOK
  <2>3. QED
    BY <2>1, <2>2 DEF SendsOrNot
<1>6. BooksOK'
  <2>1. /\ sent' \in [Events -> Nat] /\ budget' \in [FaultKinds -> Nat]
        /\ stale' \subseteq Lapses
    <3>1. CASE Send(t, e, pane)
      BY <3>1 DEF Send, IInv, BooksOK
    <3>2. CASE SendFails(t, pane)
      <4>1. /\ UNCHANGED sent /\ (UNCHANGED budget \/ Spend("send"))
            /\ stale' \in {stale, stale \cup {"text"}}
        BY <3>2 DEF SendFails, PastedUnseen
      <4>2. QED
        BY <4>1, SpendTyped DEF FaultKinds, IInv, BooksOK, Lapses
    <3>3. QED
      BY <3>1, <3>2 DEF SendsOrNot
  <2>2. QED
    BY <1>2, <2>1 DEF IInv, BooksOK
<1>7. QED
  BY <1>1, <1>3, <1>4, <1>5, <1>6, WholeStep

-----------------------------------------------------------------------------
(* MessageDispatch *)

LEMMA ReleaseTyped ==
    ASSUME IInv, ReleaseBusy PROVE session' \in Known /\ stale' \subseteq Lapses
<1>1. session \in Known /\ Clear(session, "idle") \in Known
  BY KnownRows DEF IInv, Status
<1>2. QED
  BY <1>1, RowWritten, Unmoved DEF ReleaseBusy

LEMMA RouteStepKeeps ==
    ASSUME IInv, NEW e \in Events, RouteStep(e) \/ RefuseRecover(e) PROVE IInv' /\ QueueMove
<1> DEFINE p == Slack(e)
<1>p. p \in Processes /\ Launch(e) \in Processes /\ p # Launch(e)
  BY ProcessNames
<1>f. /\ {"answer", "append", "mark", "recover", "active", "race", "route", "requeue",
          "rollback", "launch"} \subseteq Free
      /\ "send" \in Places
  BY DEF Free, Places, RowInHand, TurnInHand
<1>s. session \in Known /\ Snap(p) \in Known /\ Off \in Hand /\ thread[p] \in Hand
  BY <1>p, HandFacts, OffIsHand DEF IInv
<1> HIDE DEF p
<1>1. CASE Route(e)
  <2>1. session.status \in Status \cup {"absent"}
    BY <1>s, KnownRows
  <2>2. \E branch \in {"answer", "append", "mark", "recover", "active"} :
           Enter(p, branch, session)
    BY <1>1, <2>1 DEF Route, Branches, Status, p
  <2>3. QED
    BY <1>1, <1>p, <1>f, <1>s, <2>2, Goes, Unmoved DEF Route
<1>2. CASE RouteQueue(e)
  <2>1. QueueMove
    BY <1>2, InsertMoves DEF RouteQueue
  <2>2. QED
    BY <1>2, <1>p, <1>f, <1>s, <2>1, Goes, Unmoved DEF RouteQueue, p
<1>3. CASE RouteActive(e)
  <2>1. CASE ~(Keep(p, "race") /\ UNCHANGED <<session, turns, stale>>)
    <3> DEFINE r == [Off EXCEPT !.at = "send", !.turn = NextTurn, !.pane = session.pane]
    <3>1. Move({"idle"}, Activate(session, NextTurn, NoRow)) /\ NewTurn(e) /\ Become(p, r)
      BY <1>3, <2>1 DEF RouteActive, p
    <3>2. NextTurn \in 1..Len(turns') /\ NextTurn # NoTurn /\ NextTurn \in 0..Len(turns')
      BY <3>1, NewTurnFacts
    <3>3. NoRow \in 0..Len(queue) /\ session.pane \in Nat
      BY <1>s, TablesFacts, KnownRows DEF IInv, NoRow
    <3>4. session' \in Known' /\ stale' \subseteq Lapses
      BY <1>3, <3>1, <3>3, ActivatedKnown, Unmoved DEF RouteActive, Move
    <3>5. Hand \subseteq Hand'
      BY <1>3, <3>1, GoodStaysGood, NewTurnFacts, Unmoved DEF RouteActive
    <3>6. r \in Hand' /\ r.at = "send" /\ r.turn # NoTurn
      BY <1>f, <1>s, <3>2, <3>3, <3>5 DEF Hand
    <3> HIDE DEF r
    <3>7. Holds(p, r)
      BY <3>6 DEF Holds, RowInHand
    <3>8. QED
      BY <1>3, <1>p, <3>1, <3>4, <3>6, <3>7, TakesTurn DEF RouteActive, Become
  <2>2. CASE Keep(p, "race") /\ UNCHANGED <<session, turns, stale>>
    BY <1>3, <1>p, <1>f, <1>s, <2>2, Goes, Unmoved DEF RouteActive
  <2>3. QED
    BY <2>1, <2>2
<1>4. CASE RouteRace(e)
  <2>1. Pass(p, "route") \/ Pass(p, "mark")
    BY <1>4 DEF RouteRace, p
  <2>2. QED
    BY <1>4, <1>p, <1>f, <1>s, <2>1, Goes, Unmoved DEF RouteRace
<1>5. CASE SendActive(e)
  <2>1. thread[p].turn \in 1..Len(turns)
    <3>1. thread[p].turn # NoTurn /\ thread[p].turn \in 0..Len(turns)
      BY <1>5, <1>p, HandFacts DEF SendActive, p, At, Holds, TurnInHand
    <3>2. QED
      BY <3>1, TurnsFacts DEF NoTurn, IInv
  <2>2. Pass(p, "mark") \/ Goto(p, "requeue") \/ UNCHANGED thread
    BY <1>5 DEF SendActive, p
  <2>3. SendsOrNot(thread[p].turn, e, thread[p].pane)
    BY <1>5 DEF SendActive, SendsOrNot, SendsAgain, SendFailsAndCloses, p
  <2>4. Known' = Known /\ Hand' = Hand
    BY <1>5, <2>1, <2>3, SendKeepsLength DEF SendActive
  <2>5. ThreadsOK'
    <3>1. CASE UNCHANGED thread
      BY <2>4, <3>1 DEF IInv, ThreadsOK
    <3>2. QED
      BY <1>p, <1>f, <1>s, <2>2, <2>4, <3>1, ThreadGoesOn DEF Free, Needy
  <2>6. QED
    BY <1>5, <2>1, <2>3, <2>5, Sends DEF SendActive
<1>6. CASE Requeue(e)
  <2>1. QueueMove
    BY <1>6, InsertMoves DEF Requeue
  <2>2. QED
    BY <1>6, <1>p, <1>f, <1>s, <2>1, Goes, Unmoved DEF Requeue, p
<1>7. CASE Rollback(e)
  BY <1>7, <1>p, <1>f, <1>s, ReleaseTyped, Goes, Unmoved DEF Rollback, p
<1>8. CASE RefuseRecover(e)
  <2>1. Pass(p, "mark") /\ Spend("refuse") /\ "refuse" \in FaultKinds
    BY <1>8 DEF RefuseRecover, p, FaultKinds
  <2>2. QED
    BY <1>8, <1>p, <1>f, <1>s, <2>1, Goes, Unmoved DEF RefuseRecover
<1>9. CASE RecoverSession(e)
  <2>1. CASE Pass(p, "mark") /\ UNCHANGED <<session, stale>>
    BY <1>9, <1>p, <1>f, <1>s, <2>1, Goes, Unmoved DEF RecoverSession
  <2>2. CASE ~(Pass(p, "mark") /\ UNCHANGED <<session, stale>>)
    <3> DEFINE s == [Clear(session, "starting") EXCEPT !.why = "none", !.pane = NoPane]
               r == [Off EXCEPT !.at = "mark"]
               n == [Off EXCEPT !.at = "launch", !.snap = session']
    <3>1. /\ Move({"suspended", "killed"}, s)
          /\ thread' = [thread EXCEPT ![p] = r, ![Launch(e)] = n]
      BY <1>9, <2>2 DEF RecoverSession, p
    <3>2. s \in Known
      <4>1. Clear(session, "starting") \in Known
        BY <1>s, KnownRows DEF Status
      <4>2. QED
        BY <4>1 DEF Known, Reasons, NoPane
    <3> HIDE DEF s
    <3>3. session' \in Known /\ stale' \subseteq Lapses
      BY <3>1, <3>2, Unmoved DEF Move
    <3>4. r \in Hand /\ r.at = "mark" /\ n \in Hand /\ n.at = "launch"
      BY <1>f, <1>s, <3>3 DEF Hand, Free
    <3> HIDE DEF r, n
    <3>5. Holds(p, r) /\ Holds(Launch(e), n)
      BY <3>4 DEF Holds, RowInHand, TurnInHand
    <3>6. Hand' = Hand
      BY <1>9, QuietKeeps DEF RecoverSession
    <3>7. ThreadsOK'
      BY <1>p, <3>1, <3>4, <3>5, <3>6 DEF IInv, ThreadsOK, Holds
    <3>8. QED
      BY <1>9, <3>3, <3>7, QuietStep DEF RecoverSession, IInv, BooksOK
  <2>3. QED
    BY <2>1, <2>2
<1>10. QED
  BY <1>1, <1>2, <1>3, <1>4, <1>5, <1>6, <1>7, <1>8, <1>9 DEF RouteStep

-----------------------------------------------------------------------------
(* The first of several rows *)

LEMMA LeastOf ==
    ASSUME NEW S \in SUBSET Nat, NEW R, \E x \in S : \A y \in S : ~(<<y, x>> \in R),
           \A y, x \in Nat : y < x => <<y, x>> \in R
    PROVE  \E m \in S : \A n \in S : m <= n
<1>1. PICK x \in S : \A y \in S : ~(<<y, x>> \in R)
  OBVIOUS
<1>2. x \in Nat /\ \A y \in S : y \in Nat /\ ~(y < x)
  BY <1>1
<1>3. QED
  BY <1>2

LEMMA Least ==
    ASSUME NEW S \in SUBSET Nat, S # {} PROVE \E m \in S : \A n \in S : m <= n
<1>1. \A y, x \in Nat : y < x => <<y, x>> \in OpToRel(<, Nat)
  BY DEF OpToRel
<1>2. \E x \in S : \A y \in S : ~(<<y, x>> \in OpToRel(<, Nat))
  BY WFMin, NatLessThanWellFounded, Zenon
<1>3. QED
  BY <1>1, <1>2, LeastOf, Zenon

LEMMA HeadFacts ==
    ASSUME TablesOK, Pending
    PROVE  /\ QueueHead \in 1..Len(queue) /\ QueueHead # NoRow
           /\ queue[QueueHead].item \in Events
<1> DEFINE S == EQ!VisibleRows("conversation")
<1>1. S \in SUBSET Nat /\ S \subseteq DOMAIN queue /\ S # {}
  BY TablesFacts DEF EQ!VisibleRows, Pending
<1>2. \E q \in S : EQ!IsHead(q, "conversation")
  BY <1>1, Least DEF EQ!IsHead
<1>3. QueueHead \in S
  BY <1>2 DEF QueueHead
<1>4. QED
  BY <1>1, <1>3, TablesFacts DEF NoRow

LEMMA NextRowFacts ==
    ASSUME IInv, backlog # {} PROVE NextRow \in 1..Len(queue)
<1>1. backlog \in SUBSET Nat /\ backlog \subseteq 1..Len(queue)
  BY DEF IInv, BooksOK
<1>2. \E q \in backlog : \A r \in backlog : q <= r
  BY <1>1, Least
<1>3. NextRow \in backlog
  BY <1>2 DEF NextRow
<1>4. QED
  BY <1>1, <1>3

LEMMA CompleteStepKeeps ==
    ASSUME IInv, NEW t \in DOMAIN turns, CompleteStep(t) PROVE IInv' /\ QueueMove
<1> DEFINE p == Reply(t)
           q == thread[p].row
<1>p. p \in Processes /\ Needy(p) = RowInHand \cup TurnInHand
  BY ProcessNames, TurnsFacts DEF IInv, Needy
<1>f. /\ {"rest", "verdict", "wait", "drain", "drain_busy", "drain_send", "drain_undo",
          "drain_retry"} \subseteq Places
      /\ {"rest", "verdict", "wait"} \subseteq Free
  BY DEF Free, Places, RowInHand, TurnInHand
<1>s. /\ session \in Known /\ Snap(p) \in Known /\ Off \in Hand /\ thread[p] \in Hand
      /\ Absent \in Known
      /\ Holds(p, thread[p]) /\ q \in 0..Len(queue)
  BY <1>p, HandFacts, OffIsHand DEF IInv
<1>r. session.row \in 0..Len(queue) /\ session.pane \in Nat
  BY <1>s, KnownRows
<1>n. Len(queue) \in Nat
  BY TablesFacts DEF IInv
<1>q. At(p, "drain") \/ At(p, "drain_busy") \/ At(p, "drain_send") \/ At(p, "drain_undo")
      \/ At(p, "drain_retry") => q \in 1..Len(queue) /\ queue[q].item \in Events
  <2>1. At(p, "drain") \/ At(p, "drain_busy") \/ At(p, "drain_send") \/ At(p, "drain_undo")
        \/ At(p, "drain_retry") => q \in 1..Len(queue)
    BY <1>s, <1>n DEF At, Holds, RowInHand, NoRow
  <2>2. QED
    BY <2>1, TablesFacts DEF IInv
<1> HIDE DEF p, q
<1>1. CASE BeginComplete(t)
  <2>1. QueueMove
    <3>1. CASE UNCHANGED <<queue, ledger>>
      BY <3>1, Unmoved
    <3>2. CASE ~UNCHANGED <<queue, ledger>>
      <4>1. session.row # NoRow /\ EQ!ConsumeEventQueueRow(session.row)
        BY <1>1, <3>2 DEF BeginComplete, Consume, Claimed
      <4>2. session.row \in 1..Len(queue)
        BY <1>r, <1>n, <4>1 DEF NoRow
      <4>3. QED
        BY <4>1, <4>2, RowMoves DEF IInv
    <3>3. QED
      BY <3>1, <3>2
  <2>2. \E where \in {"rest", "verdict", "wait"} : Enter(p, where, session) \/ End(p)
    BY <1>1 DEF BeginComplete, p
  <2>3. QED
    BY <1>1, <1>p, <1>f, <1>s, <2>1, <2>2, Goes, Unmoved DEF BeginComplete
<1>2. CASE CompleteWait(t)
  <2>1. Clear(session, "waiting") \in Known
    BY <1>s, KnownRows DEF Status
  <2>2. session' \in Known /\ stale' \subseteq Lapses
    BY <1>2, <2>1, RowWritten, Unmoved DEF CompleteWait
  <2>3. Pass(p, "verdict") \/ End(p)
    BY <1>2 DEF CompleteWait, p
  <2>4. QED
    BY <1>2, <1>p, <1>f, <1>s, <2>2, <2>3, Goes, Unmoved DEF CompleteWait
<1>3. CASE CompleteTurn(t)
  <2>1. Clear(session, "idle") \in Known
    BY <1>s, KnownRows DEF Status
  <2>2. session' \in Known /\ stale' \subseteq Lapses
    BY <1>3, <2>1, RowWritten, Unmoved DEF CompleteTurn
  <2>3. CASE Pass(p, "verdict") \/ End(p)
    BY <1>3, <1>p, <1>f, <1>s, <2>2, <2>3, Goes, Unmoved DEF CompleteTurn
  <2>4. CASE ~(Pass(p, "verdict") \/ End(p))
    <3> DEFINE r == [Off EXCEPT !.at = "drain", !.row = QueueHead]
    <3>1. Pending /\ Become(p, r)
      BY <1>3, <2>4 DEF CompleteTurn, p
    <3>2. QueueHead \in 1..Len(queue) /\ QueueHead # NoRow /\ QueueHead \in 0..Len(queue)
      BY <3>1, <1>n, HeadFacts DEF IInv
    <3>3. r \in Hand /\ r.at = "drain" /\ r.row # NoRow
      BY <1>f, <1>s, <3>2 DEF Hand
    <3> HIDE DEF r
    <3>4. Holds(p, r)
      BY <3>3 DEF Holds, TurnInHand
    <3>5. Hand' = Hand
      BY <1>3, QuietKeeps DEF CompleteTurn
    <3>6. ThreadsOK'
      BY <1>p, <3>1, <3>3, <3>4, <3>5, OneThread DEF Become
    <3>7. QED
      BY <1>3, <2>2, <3>6, QuietStep DEF CompleteTurn, IInv, BooksOK
  <2>5. QED
    BY <2>3, <2>4
<1>4. CASE DrainClaim(t)
  <2>1. CASE Pass(p, "verdict") /\ UNCHANGED <<queue, ledger>>
    BY <1>4, <1>p, <1>f, <1>s, <2>1, Goes, Unmoved DEF DrainClaim
  <2>2. CASE ~(Pass(p, "verdict") /\ UNCHANGED <<queue, ledger>>)
    <3>1. EQ!ClaimEventQueueHead("conversation", q, queue[q].item) /\ Goto(p, "drain_busy")
      BY <1>4, <2>2 DEF DrainClaim, p, q
    <3>2. QueueMove
      BY <3>1, HeadMoves DEF IInv
    <3>3. /\ Known \subseteq Known' /\ Hand \subseteq Hand'
          /\ backlog' \subseteq 1..Len(queue') /\ dropped' \subseteq 1..Len(queue')
      BY <1>4, <3>2, AfterQueueMove DEF DrainClaim
    <3> DEFINE r == [thread[p] EXCEPT !.at = "drain_busy", !.snap = Absent]
    <3>4. r \in Hand /\ r.at = "drain_busy" /\ r.row = q
      BY <1>f, <1>s DEF Hand, q
    <3> HIDE DEF r
    <3>5. Holds(p, r)
      BY <1>4, <1>q, <3>4 DEF Holds, TurnInHand, NoRow, DrainClaim, p
    <3>6. ThreadsOK'
      BY <1>p, <3>1, <3>3, <3>4, <3>5, OneThread DEF Goto, Become, r
    <3>7. QED
      BY <1>4, <1>s, <3>2, <3>3, <3>6, TableStep DEF DrainClaim, IInv, BooksOK
  <2>3. QED
    BY <2>1, <2>2
<1>5. CASE DrainBusy(t)
  <2>0. q \in 1..Len(queue) /\ queue[q].item \in Events /\ q \in 0..Len(queue)
    BY <1>5, <1>q, <1>s DEF DrainBusy, p
  <2>1. CASE EQ!MarkEventQueueRetryable(q) /\ Pass(p, "verdict") /\ UNCHANGED <<session, turns, stale>>
    <3>1. QueueMove
      BY <2>0, <2>1, RowMoves DEF IInv
    <3>2. QED
      BY <1>5, <1>p, <1>f, <1>s, <2>1, <3>1, Goes, Unmoved DEF DrainBusy
  <2>2. CASE ~(EQ!MarkEventQueueRetryable(q) /\ Pass(p, "verdict")
               /\ UNCHANGED <<session, turns, stale>>)
    <3> DEFINE r == [thread[p] EXCEPT !.at = "drain_send", !.turn = NextTurn,
                                      !.pane = session.pane]
    <3>1. /\ Move({"idle"}, Activate(session, NextTurn, q)) /\ NewTurn(queue[q].item)
          /\ Become(p, r) /\ UNCHANGED <<queue, ledger>>
      BY <1>5, <2>2 DEF DrainBusy, p, q
    <3>2. NextTurn \in 1..Len(turns') /\ NextTurn # NoTurn /\ NextTurn \in 0..Len(turns')
      BY <2>0, <3>1, NewTurnFacts
    <3>3. session' \in Known' /\ stale' \subseteq Lapses
      BY <2>0, <3>1, ActivatedKnown, Unmoved DEF Move
    <3>4. Hand \subseteq Hand'
      BY <2>0, <3>1, GoodStaysGood, NewTurnFacts, Unmoved
    <3>5. r \in Hand' /\ r.at = "drain_send" /\ r.turn # NoTurn /\ r.row = q
      BY <1>f, <1>s, <1>r, <3>2, <3>4 DEF Hand, q
    <3> HIDE DEF r
    <3>6. Holds(p, r)
      BY <2>0, <3>5 DEF Holds, NoRow
    <3>7. QED
      BY <1>5, <1>p, <2>0, <3>1, <3>3, <3>5, <3>6, TakesTurn DEF DrainBusy, Become
  <2>3. QED
    BY <2>1, <2>2
<1>6. CASE DrainSend(t)
  <2>0. q \in 1..Len(queue) /\ queue[q].item \in Events
    BY <1>6, <1>q DEF DrainSend, p
  <2>1. thread[p].turn \in 1..Len(turns)
    <3>1. thread[p].turn # NoTurn /\ thread[p].turn \in 0..Len(turns)
      BY <1>6, <1>p, HandFacts DEF DrainSend, p, At, Holds, TurnInHand
    <3>2. QED
      BY <3>1, TurnsFacts DEF NoTurn, IInv
  <2>2. SendsOrNot(thread[p].turn, queue[q].item, thread[p].pane)
    BY <1>6 DEF DrainSend, SendsOrNot, SendsAgain, SendFailsAndCloses, p, q
  <2>3. Known' = Known /\ Hand' = Hand
    BY <1>6, <2>1, <2>2, SendKeepsLength DEF DrainSend
  <2>4. ThreadsOK'
    <3>1. CASE Pass(p, "verdict")
      BY <1>p, <1>f, <1>s, <2>3, <3>1, ThreadGoesOn DEF Free
    <3>2. CASE Goto(p, "drain_undo")
      <4> DEFINE r == [thread[p] EXCEPT !.at = "drain_undo", !.snap = Absent]
      <4>1. r \in Hand' /\ r.at = "drain_undo" /\ r.row = q
        <5>1. r \in Hand /\ r.at = "drain_undo" /\ r.row = q
          BY <1>f, <1>s DEF Hand, q
        <5> HIDE DEF r
        <5>2. QED
          BY <2>3, <5>1
      <4> HIDE DEF r
      <4>2. Holds(p, r)
        BY <2>0, <4>1 DEF Holds, TurnInHand, NoRow
      <4>3. QED
        BY <1>p, <2>3, <3>2, <4>1, <4>2, OneThread DEF Goto, Become, r
    <3>3. CASE UNCHANGED thread
      BY <2>3, <3>3 DEF IInv, ThreadsOK
    <3>4. QED
      BY <1>6, <3>1, <3>2, <3>3 DEF DrainSend, p
  <2>5. QED
    BY <1>6, <2>0, <2>1, <2>2, <2>4, Sends DEF DrainSend
<1>7. CASE DrainUndo(t)
  <2>0. q \in 1..Len(queue)
    BY <1>7, <1>q DEF DrainUndo, p
  <2>1. session' \in Known /\ stale' \subseteq Lapses
    BY <1>7, ReleaseTyped DEF DrainUndo
  <2> DEFINE r == [thread[p] EXCEPT !.at = "drain_retry", !.snap = Absent]
  <2>2. r \in Hand /\ r.at = "drain_retry" /\ r.row = q
    BY <1>f, <1>s DEF Hand, q
  <2>3. thread' = [thread EXCEPT ![p] = r]
    BY <1>7 DEF DrainUndo, Goto, Become, p
  <2> HIDE DEF r
  <2>4. Holds(p, r)
    BY <2>0, <2>2 DEF Holds, TurnInHand, NoRow
  <2>5. ThreadsOK'
    BY <1>7, <1>p, <2>2, <2>3, <2>4, OneThread, QuietKeeps DEF DrainUndo
  <2>6. QED
    BY <1>7, <2>1, <2>5, QuietStep DEF DrainUndo, IInv, BooksOK
<1>8. CASE DrainRetry(t)
  <2>1. q \in 1..Len(queue)
    BY <1>8, <1>q DEF DrainRetry, p
  <2>2. QueueMove
    BY <1>8, <2>1, RowMoves, Unmoved DEF DrainRetry, p, q, IInv
  <2>3. QED
    BY <1>8, <1>p, <1>f, <1>s, <2>2, Goes, Unmoved DEF DrainRetry, p
<1>9. QED
  BY <1>1, <1>2, <1>3, <1>4, <1>5, <1>6, <1>7, <1>8 DEF CompleteStep

-----------------------------------------------------------------------------
(* TurnReply *)

\* A step below the tables: one thread goes on, no turn is added.
LEMMA InnerStep ==
    ASSUME IInv, UNCHANGED <<queue, ledger>>,
           turns' \in Seq(Attempt), Len(turns') = Len(turns), session' \in Known,
           NEW p \in Processes, NEW where \in Places \ Needy(p), NEW s \in Known,
           \/ Enter(p, where, s) \/ Goto(p, where) \/ Keep(p, where)
           \/ Pass(p, where) \/ End(p) \/ UNCHANGED thread,
           PanesOK', BooksOK'
    PROVE  IInv' /\ QueueMove
<1>1. Known' = Known /\ Hand' = Hand
  BY DEF Known, Hand
<1>2. ThreadsOK'
  <2>1. CASE UNCHANGED thread
    BY <1>1, <2>1 DEF IInv, ThreadsOK, Holds
  <2>2. CASE ~UNCHANGED thread
    BY <1>1, <2>2, ThreadGoesOn
  <2>3. QED
    BY <2>1, <2>2
<1>3. TurnsOK' /\ Len(turns) <= Len(turns')
  BY TurnsFacts DEF IInv, TurnsOK
<1>4. QED
  BY <1>1, <1>2, <1>3, Unmoved, WholeStep

LEMMA PanesKept ==
    ASSUME IInv, Len(turns') = Len(turns), UNCHANGED panes, inbox' \subseteq inbox
    PROVE  PanesOK'
BY DEF IInv, PanesOK

LEMMA BooksKept ==
    ASSUME IInv, UNCHANGED <<queue, backlog, dropped, lost, sent>>, Len(turns') = Len(turns),
           posted' \subseteq 1..Len(turns), stale' \subseteq Lapses,
           budget' = budget \/ \E k \in FaultKinds : Spend(k)
    PROVE  BooksOK'
<1>1. budget' \in [FaultKinds -> Nat]
  BY SpendTyped DEF IInv, BooksOK
<1>2. QED
  BY <1>1 DEF IInv, BooksOK

LEMMA ReplyStepKeeps ==
    ASSUME IInv, NEW t \in DOMAIN turns, ReplyStep(t) PROVE IInv' /\ QueueMove
<1> DEFINE p == Reply(t)
<1>p. p \in Processes
  BY ProcessNames, TurnsFacts DEF IInv
<1>f. /\ {"post", "record", "close", "check", "identity", "finish", "off"} \subseteq Free
      /\ {"post", "record", "close", "check", "identity", "finish", "off"}
            \subseteq Places \ Needy(p)
  BY DEF Free, Places, RowInHand, TurnInHand, Needy
<1>s. session \in Known /\ Snap(p) \in Known
  BY <1>p, HandFacts DEF IInv
<1>t. /\ turns \in Seq(Attempt) /\ t \in 1..Len(turns) /\ turns[t].event \in Events
      /\ posted \subseteq 1..Len(turns)
  BY TurnsFacts DEF IInv, TurnsOK, BooksOK
<1> HIDE DEF p
<1>1. CASE BeginReply(t)
  <2>1. inbox' \subseteq inbox /\ (Goto(p, "post") \/ UNCHANGED thread)
    BY <1>1 DEF BeginReply, Without, p
  <2>2. PanesOK' /\ BooksOK'
    BY <1>1, <1>t, <2>1, PanesKept, BooksKept, Unmoved DEF BeginReply
  <2>3. QED
    BY <1>1, <1>p, <1>f, <1>s, <1>t, <2>1, <2>2, InnerStep DEF BeginReply
<1>2. CASE PostReply(t)
  <2>1. /\ inbox' \subseteq inbox /\ posted' \subseteq 1..Len(turns)
        /\ Enter(p, "record", session) \/ End(p)
        /\ budget' = budget \/ Spend("post")
    BY <1>2, <1>t DEF PostReply, Without, p
  <2>2. PanesOK' /\ BooksOK'
    <3>1. "post" \in FaultKinds
      BY DEF FaultKinds
    <3>2. QED
      BY <1>2, <2>1, <3>1, PanesKept, BooksKept, Unmoved DEF PostReply
  <2>3. QED
    BY <1>2, <1>p, <1>f, <1>s, <1>t, <2>1, <2>2, InnerStep DEF PostReply
<1>3. CASE RecordReply(t) \/ SaveIdentity(t)
  <2>1. session' \in Known /\ stale' \subseteq Lapses
    BY <1>3, <1>s, RowWritten DEF RecordReply, SaveIdentity, p
  <2>2. Goto(p, "close") \/ Goto(p, "finish")
    BY <1>3 DEF RecordReply, SaveIdentity, p
  <2>3. QED
    BY <1>3, <1>p, <1>f, <1>s, <2>1, <2>2, Goes, Unmoved DEF RecordReply, SaveIdentity
<1>4. CASE CloseAttempt(t)
  <2>1. turns' \in Seq(Attempt) /\ Len(turns') = Len(turns)
    BY <1>4, <1>t, AttemptsTyped DEF CloseAttempt, IInv
  <2>2. Goto(p, "check")
    BY <1>4 DEF CloseAttempt, p
  <2>3. PanesOK' /\ BooksOK'
    BY <1>4, <1>t, <2>1, PanesKept, BooksKept, Unmoved DEF CloseAttempt
  <2>4. QED
    BY <1>4, <1>p, <1>f, <1>s, <2>1, <2>2, <2>3, InnerStep DEF CloseAttempt
<1>5. CASE CheckTurn(t)
  <2>1. Enter(p, "identity", session) \/ End(p)
    BY <1>5 DEF CheckTurn, p
  <2>2. QED
    BY <1>5, <1>p, <1>f, <1>s, <2>1, Goes, Unmoved DEF CheckTurn
<1>6. CASE MarkDone(t)
  <2>1. QueueMove
    BY <1>6, <1>t, UpdateMove DEF MarkDone
  <2>2. QED
    BY <1>6, <1>p, <1>f, <1>s, <2>1, Goes, Unmoved DEF MarkDone, p
<1>7. QED
  BY <1>1, <1>2, <1>3, <1>4, <1>5, <1>6 DEF ReplyStep

-----------------------------------------------------------------------------
(* Panes: an id that nothing mentions always exists *)

LEMMA ImageFinite ==
    ASSUME NEW S, IsFiniteSet(S), NEW T, NEW f \in [S -> T]
    PROVE  IsFiniteSet({f[x] : x \in S})
<1> DEFINE I == {f[x] : x \in S}
<1>1. f \in Surjection(S, I)
  BY DEF Surjection
<1>2. QED
  BY <1>1, FS_Surjection

LEMMA ProcessesFinite == IsFiniteSet(Processes)
<1>1. IsFiniteSet(Events) /\ MaxTurns \in Nat
  BY StoreAssumption
<1>2. IsFiniteSet({Slack(e) : e \in Events})
  <2> DEFINE f == [e \in Events |-> Slack(e)]
  <2>1. f \in [Events -> {Slack(e) : e \in Events}]
    OBVIOUS
  <2>2. {f[e] : e \in Events} = {Slack(e) : e \in Events}
    OBVIOUS
  <2> HIDE DEF f
  <2>3. IsFiniteSet({f[e] : e \in Events})
    BY <1>1, <2>1, ImageFinite
  <2>4. QED
    BY <2>2, <2>3
<1>3. IsFiniteSet({Launch(e) : e \in Events})
  <2> DEFINE f == [e \in Events |-> Launch(e)]
  <2>1. f \in [Events -> {Launch(e) : e \in Events}]
    OBVIOUS
  <2>2. {f[e] : e \in Events} = {Launch(e) : e \in Events}
    OBVIOUS
  <2> HIDE DEF f
  <2>3. IsFiniteSet({f[e] : e \in Events})
    BY <1>1, <2>1, ImageFinite
  <2>4. QED
    BY <2>2, <2>3
<1>4. IsFiniteSet({Reply(t) : t \in Turns})
  <2> DEFINE f == [t \in Turns |-> Reply(t)]
  <2>1. f \in [Turns -> {Reply(t) : t \in Turns}] /\ IsFiniteSet(Turns)
    BY <1>1, FS_Interval DEF Turns
  <2>2. {f[t] : t \in Turns} = {Reply(t) : t \in Turns}
    OBVIOUS
  <2> HIDE DEF f
  <2>3. IsFiniteSet({f[t] : t \in Turns})
    BY <1>1, <2>1, ImageFinite
  <2>4. QED
    BY <2>2, <2>3
<1>5. IsFiniteSet({Control(k) : k \in Controls})
  <2>1. {Control(k) : k \in Controls}
        = (({Control("cancel")} \cup {Control("kill")}) \cup {Control("cleanup")})
          \cup {Control("shutdown")}
    BY DEF Controls
  <2>2. IsFiniteSet({Control("cancel")})
    BY FS_Singleton
  <2>3. IsFiniteSet({Control("cancel")} \cup {Control("kill")})
    BY <2>2, FS_AddElement
  <2>4. IsFiniteSet(({Control("cancel")} \cup {Control("kill")}) \cup {Control("cleanup")})
    BY <2>3, FS_AddElement
  <2>5. IsFiniteSet((({Control("cancel")} \cup {Control("kill")}) \cup {Control("cleanup")})
                    \cup {Control("shutdown")})
    BY <2>4, FS_AddElement
  <2>6. QED
    BY <2>1, <2>5
<1>6. IsFiniteSet({Detector})
  BY FS_Singleton
<1>7. QED
  BY <1>2, <1>3, <1>4, <1>5, <1>6, FS_Union DEF Processes

LEMMA MentionedFinite == ASSUME IInv PROVE IsFiniteSet(Mentioned)
<1> DEFINE f == [p \in Processes |-> thread[p].pane]
           g == [p \in Processes |-> Snap(p).pane]
           F == {f[p] : p \in Processes}
           G == {g[p] : p \in Processes}
<1>1. f \in [Processes -> Nat] /\ g \in [Processes -> Nat]
  <2>1. \A p \in Processes : thread[p].pane \in Nat /\ Snap(p).pane \in Nat
    BY HandFacts, KnownRows
  <2>2. QED
    BY <2>1
<1>2. Mentioned = ((F \cup G) \cup lost) \cup {session.pane}
  BY DEF Mentioned
<1> HIDE DEF f, g
<1>3. IsFiniteSet(F) /\ IsFiniteSet(G)
  BY <1>1, ProcessesFinite, ImageFinite
<1> HIDE DEF F, G
<1>4. IsFiniteSet((F \cup G) \cup lost)
  BY <1>3, FS_Union DEF IInv, BooksOK
<1>5. QED
  BY <1>2, <1>4, FS_AddElement

LEMMA NewPaneFacts ==
    ASSUME IInv PROVE NewPane \in Nat \ {NoPane} /\ NewPane \notin panes
<1> DEFINE S == panes \cup Mentioned
           n == Cardinality(S) + 1
<1>1. IsFiniteSet(S)
  BY MentionedFinite, FS_Union DEF IInv, PanesOK
<1>2. Cardinality(S) \in Nat
  BY <1>1, FS_CardinalityType
<1> HIDE DEF S
<1>3. \E m \in 1..n : m \notin S
  <2>1. IsFiniteSet(1..n) /\ Cardinality(1..n) = n
    BY <1>2, FS_Interval
  <2>2. ~(1..n \subseteq S)
    <3>1. SUFFICES ASSUME 1..n \subseteq S PROVE FALSE
      OBVIOUS
    <3>2. Cardinality(1..n) <= Cardinality(S)
      BY <1>1, <3>1, FS_Subset
    <3>3. QED
      BY <1>2, <2>1, <3>2
  <2>3. QED
    BY <2>2
<1>4. NewPane \in 1..n /\ NewPane \notin S
  BY <1>3 DEF NewPane, S
<1>5. QED
  BY <1>2, <1>4 DEF S, NoPane

\* A pane is removed with what was typed into it.
LEMMA PaneKilled ==
    ASSUME IInv, NEW pane, KillPane(pane), Len(turns') = Len(turns) PROVE PanesOK'
<1>1. IsFiniteSet(panes \ {pane})
  BY FS_RemoveElement DEF IInv, PanesOK
<1>2. QED
  BY <1>1 DEF IInv, PanesOK, KillPane

-----------------------------------------------------------------------------
(* WorkerLaunch *)

LEMMA LaunchStepKeeps ==
    ASSUME IInv, NEW e \in Events, LaunchStep(e) PROVE IInv' /\ QueueMove
<1> DEFINE p == Launch(e)
           q == thread[p].row
           n == thread[p].pane
<1>p. p \in Processes /\ Needy(p) = RowInHand \cup TurnInHand
  BY ProcessNames DEF Needy
<1>f. /\ {"launch", "window", "fail", "load", "prepare", "fail_error", "fail_suspend",
          "allocate", "pane", "ready", "dispatch", "timeout", "fail_load", "suspend_load",
          "fail_event", "off"} \subseteq Free
      /\ Free \subseteq Places \ Needy(p)
      /\ "fail_row" \in Places \ Needy(p) /\ "first" \in Places
  BY <1>p DEF Free, Places, RowInHand, TurnInHand
<1>s. /\ session \in Known /\ Snap(p) \in Known /\ Off \in Hand /\ thread[p] \in Hand
      /\ Absent \in Known /\ n \in Nat
      /\ q \in 0..Len(queue) /\ thread[p].turn \in 0..Len(turns)
  BY <1>p, HandFacts, OffIsHand DEF IInv
<1>n. Len(queue) \in Nat /\ Len(turns) \in Nat /\ turns \in Seq(Attempt)
  BY TablesFacts, TurnsFacts DEF IInv, TurnsOK
<1>q. q # NoRow => q \in 1..Len(queue)
  BY <1>s, <1>n DEF NoRow
<1>t. thread[p].turn # NoTurn => thread[p].turn \in 1..Len(turns)
  BY <1>s, <1>n DEF NoTurn
<1>k. "launch" \in FaultKinds
  BY DEF FaultKinds
<1> HIDE DEF p, q, n
<1>1. CASE StartWorker(e)
  <2>1. [session EXCEPT !.status = "starting"] \in Known
    BY <1>s, KnownRows DEF Status
  <2>2. session' \in Known /\ stale' \subseteq Lapses
    BY <1>1, <2>1, RowWritten, Unmoved DEF StartWorker
  <2>3. /\ Goto(p, "launch") \/ End(p)
        /\ dropped' = dropped \/ dropped' = dropped \cup ({q} \ {NoRow})
    BY <1>1 DEF StartWorker, p, q
  <2>4. dropped' \subseteq 1..Len(queue)
    <3>1. dropped \subseteq 1..Len(queue)
      BY DEF IInv, BooksOK
    <3>2. {q} \ {NoRow} \subseteq 1..Len(queue)
      BY <1>q
    <3>3. dropped' = dropped \/ dropped' = dropped \cup ({q} \ {NoRow})
      BY <2>3
    <3>4. QED
      BY <3>1, <3>2, <3>3, Zenon
  <2>5. Known' = Known /\ Hand' = Hand
    BY <1>1, QuietKeeps DEF StartWorker
  <2>6. ThreadsOK'
    BY <1>p, <1>f, <1>s, <2>3, <2>5, ThreadGoesOn
  <2>7. QED
    BY <1>1, <2>2, <2>4, <2>6, QuietStep DEF StartWorker, IInv, BooksOK
<1>2. CASE BeginLaunch(e)
  <2>1. End(p) \/ Goto(p, "window")
    BY <1>2 DEF BeginLaunch, p
  <2>2. QED
    BY <1>2, <1>p, <1>f, <1>s, <2>1, Goes, Unmoved DEF BeginLaunch
<1>3. CASE PrepareWindow(e)
  <2>1. Goto(p, "fail") \/ Goto(p, "load")
    BY <1>3 DEF PrepareWindow, p
  <2>2. QED
    BY <1>3, <1>p, <1>f, <1>s, <2>1, Goes, Unmoved DEF PrepareWindow
<1>4. CASE LoadForUpdate(e)
  <2>1. \E where \in {"prepare", "fail_error", "fail_suspend"} : Enter(p, where, session)
    BY <1>4 DEF LoadForUpdate, p
  <2>2. QED
    BY <1>4, <1>p, <1>f, <1>s, <2>1, Goes, Unmoved DEF LoadForUpdate
<1>5. CASE SaveStarting(e)
  <2>1. [Snap(p) EXCEPT !.status = "starting"] \in Known
    BY <1>s, KnownRows DEF Status
  <2>2. session' \in Known /\ stale' \subseteq Lapses /\ Goto(p, "allocate")
    BY <1>5, <2>1, RowWritten DEF SaveStarting, p
  <2>3. QED
    BY <1>5, <1>p, <1>f, <1>s, <2>2, Goes, Unmoved DEF SaveStarting
<1>6. CASE AllocatePane(e)
  <2>1. CASE Goto(p, "fail") /\ UNCHANGED panes /\ Spend("launch")
    BY <1>6, <1>p, <1>f, <1>s, <1>k, <2>1, Goes, Unmoved DEF AllocatePane
  <2>2. CASE ~(Goto(p, "fail") /\ UNCHANGED panes /\ Spend("launch"))
    <3> DEFINE r == [thread[p] EXCEPT !.at = "pane", !.snap = session, !.pane = NewPane]
    <3>1. panes' = panes \cup {NewPane} /\ Become(p, r) /\ UNCHANGED budget
      BY <1>6, <2>2 DEF AllocatePane, p
    <3>2. NewPane \in Nat \ {NoPane}
      BY NewPaneFacts
    <3>3. r \in Hand /\ r.at = "pane"
      BY <1>f, <1>s, <3>2 DEF Hand, Free
    <3> HIDE DEF r
    <3>4. Holds(p, r)
      BY <3>3 DEF Holds, RowInHand, TurnInHand
    <3>5. Known' = Known /\ Hand' = Hand
      BY <1>6, QuietKeeps DEF AllocatePane
    <3>6. ThreadsOK'
      BY <1>p, <3>1, <3>3, <3>4, <3>5, OneThread DEF Become
    <3>7. PanesOK'
      <4>1. IsFiniteSet(panes \cup {NewPane})
        BY FS_AddElement DEF IInv, PanesOK
      <4>2. QED
        BY <1>6, <3>1, <3>2, <4>1 DEF AllocatePane, IInv, PanesOK
    <3>8. BooksOK'
      BY <1>6, <3>1 DEF AllocatePane, IInv, BooksOK
    <3>9. TurnsOK' /\ Len(turns) <= Len(turns') /\ QueueMove /\ session' \in Known'
      BY <1>6, <1>n, <1>s, <3>5, Unmoved DEF AllocatePane, IInv, TurnsOK
    <3>10. QED
      BY <3>6, <3>7, <3>8, <3>9, WholeStep
  <2>3. QED
    BY <2>1, <2>2
<1>7. CASE SavePane(e)
  <2>1. [Snap(p) EXCEPT !.pane = n] \in Known
    BY <1>s, KnownRows
  <2>2. /\ session' \in Known /\ stale' \subseteq Lapses
        /\ Goto(p, "ready") \/ LosePane(e)
    BY <1>7, <1>s, <2>1, RowWritten DEF SavePane, p, n, IInv, BooksOK
  <2>3. CASE Goto(p, "ready") /\ UNCHANGED <<budget, lost>>
    BY <1>7, <1>p, <1>f, <1>s, <2>2, <2>3, Goes, Unmoved DEF SavePane
  <2>4. CASE LosePane(e)
    <3> DEFINE r == [thread[p] EXCEPT !.at = "fail", !.snap = Absent, !.pane = NoPane]
    <3>1. Become(p, r) /\ Spend("launch") /\ lost' = lost \cup {n}
      BY <2>4 DEF LosePane, p, n
    <3>2. r \in Hand /\ r.at = "fail"
      BY <1>f, <1>s DEF Hand, NoPane, Free
    <3> HIDE DEF r
    <3>3. Holds(p, r)
      BY <3>2 DEF Holds, RowInHand, TurnInHand
    <3>4. Known' = Known /\ Hand' = Hand
      BY <1>7, QuietKeeps DEF SavePane
    <3>5. ThreadsOK'
      BY <1>p, <3>1, <3>2, <3>3, <3>4, OneThread DEF Become
    <3>6. PanesOK'
      BY <1>7 DEF SavePane, IInv, PanesOK
    <3>7. BooksOK'
      <4>1. lost' \subseteq Nat /\ IsFiniteSet(lost')
        BY <1>s, <3>1, FS_AddElement DEF IInv, BooksOK
      <4>2. budget' \in [FaultKinds -> Nat]
        BY <1>k, <3>1, SpendTyped
      <4>3. QED
        BY <1>7, <2>2, <4>1, <4>2 DEF SavePane, IInv, BooksOK
    <3>8. TurnsOK' /\ Len(turns) <= Len(turns') /\ QueueMove /\ session' \in Known'
      BY <1>7, <1>n, <2>2, <3>4, Unmoved DEF SavePane, IInv, TurnsOK
    <3>9. QED
      BY <3>5, <3>6, <3>7, <3>8, WholeStep
  <2>5. QED
    BY <1>7, <2>2, <2>3, <2>4 DEF SavePane, p
<1>8. CASE WaitForReady(e)
  <2>1. /\ \E where \in {"dispatch", "timeout", "fail"} : Goto(p, where)
        /\ budget' = budget \/ Spend("launch")
    BY <1>8 DEF WaitForReady, p
  <2>2. QED
    BY <1>8, <1>p, <1>f, <1>s, <1>k, <2>1, Goes, Unmoved DEF WaitForReady
<1>9. CASE DispatchFirst(e)
  <2>1. CASE Goto(p, "fail") /\ UNCHANGED <<session, turns, stale>>
    BY <1>9, <1>p, <1>f, <1>s, <2>1, Goes, Unmoved DEF DispatchFirst
  <2>2. CASE ~(Goto(p, "fail") /\ UNCHANGED <<session, turns, stale>>)
    <3> DEFINE r == [thread[p] EXCEPT !.at = "first", !.turn = NextTurn]
    <3>1. Move({"starting"}, Activate(session, NextTurn, q)) /\ NewTurn(e) /\ Become(p, r)
      BY <1>9, <2>2 DEF DispatchFirst, p, q
    <3>2. NextTurn \in 1..Len(turns') /\ NextTurn # NoTurn /\ NextTurn \in 0..Len(turns')
      BY <3>1, NewTurnFacts
    <3>3. session' \in Known' /\ stale' \subseteq Lapses
      BY <1>9, <1>s, <3>1, ActivatedKnown, Unmoved DEF Move, DispatchFirst
    <3>4. Hand \subseteq Hand'
      BY <1>9, <3>1, GoodStaysGood, NewTurnFacts, Unmoved DEF DispatchFirst
    <3>5. r \in Hand' /\ r.at = "first" /\ r.turn # NoTurn
      BY <1>f, <1>s, <3>2, <3>4 DEF Hand
    <3> HIDE DEF r
    <3>6. Holds(p, r)
      BY <3>5 DEF Holds, RowInHand
    <3>7. QED
      BY <1>9, <1>p, <3>1, <3>3, <3>5, <3>6, TakesTurn DEF DispatchFirst, Become
  <2>3. QED
    BY <2>1, <2>2
<1>10. CASE SendFirst(e)
  <2>1. thread[p].turn \in 1..Len(turns)
    BY <1>10, <1>p, <1>t, HandFacts DEF SendFirst, p, At, Holds, TurnInHand
  <2>2. SendsOrNot(thread[p].turn, e, n) /\ (End(p) \/ Goto(p, "fail"))
    BY <1>10 DEF SendFirst, SendsOrNot, p, n
  <2>3. Known' = Known /\ Hand' = Hand
    BY <1>10, <2>1, <2>2, SendKeepsLength DEF SendFirst
  <2>4. ThreadsOK'
    BY <1>p, <1>f, <1>s, <2>2, <2>3, ThreadGoesOn
  <2>5. QED
    BY <1>10, <2>1, <2>2, <2>4, Sends DEF SendFirst
<1>11. CASE BeginFail(e)
  <2>1. CASE End(p) /\ UNCHANGED <<panes, inbox>>
    BY <1>11, <1>p, <1>f, <1>s, <2>1, Goes, Unmoved DEF BeginFail
  <2>2. CASE ~(End(p) /\ UNCHANGED <<panes, inbox>>)
    <3> DEFINE left == IF Alive(n) THEN NoPane ELSE n
               r(where) == [thread[p] EXCEPT !.at = where, !.pane = left]
    <3>1. /\ \E where \in {"fail_load", "suspend_load"} :
               thread' = [thread EXCEPT ![p] = r(where)]
          /\ KillPane(n)
      BY <1>11, <2>2 DEF BeginFail, Become, p, n
    <3>2. ASSUME NEW where \in {"fail_load", "suspend_load"}
          PROVE  r(where) \in Hand /\ Holds(p, r(where))
      <4>1. left \in Nat
        BY <1>s DEF NoPane
      <4> HIDE DEF left
      <4>2. r(where) \in Hand /\ r(where).at = where
        BY <1>f, <1>s, <4>1 DEF Hand, Free
      <4>3. QED
        BY <4>2 DEF Holds, RowInHand, TurnInHand
    <3> HIDE DEF r
    <3>3. Known' = Known /\ Hand' = Hand
      BY <1>11, QuietKeeps DEF BeginFail
    <3>4. ThreadsOK'
      BY <1>p, <3>1, <3>2, <3>3, OneThread
    <3>5. PanesOK'
      BY <1>11, <3>1, PaneKilled DEF BeginFail
    <3>6. BooksOK'
      BY <1>11 DEF BeginFail, IInv, BooksOK
    <3>7. TurnsOK' /\ Len(turns) <= Len(turns') /\ QueueMove /\ session' \in Known'
      BY <1>11, <1>n, <1>s, <3>3, Unmoved DEF BeginFail, IInv, TurnsOK
    <3>8. QED
      BY <3>4, <3>5, <3>6, <3>7, WholeStep
  <2>3. QED
    BY <2>1, <2>2
<1>12. CASE SaveFailed(e)
  <2> DEFINE s == [Snap(p) EXCEPT !.pane = n]
  <2>1. s \in Known
    BY <1>s, KnownRows
  <2>2. Clear(s, "error") \in Known /\ Suspend(s, "other") \in Known
    BY <2>1, KnownRows DEF Status, Reasons
  <2>3. session' \in {Clear(s, "error"), Suspend(s, "other")} /\ stale' \subseteq Lapses
    BY <1>12, RowWritten DEF SaveFailed, p, n
  <2> HIDE DEF s
  <2>4. Keep(p, "fail_event")
    BY <1>12 DEF SaveFailed, p
  <2>5. QED
    BY <1>12, <1>p, <1>f, <1>s, <2>2, <2>3, <2>4, Goes, Unmoved DEF SaveFailed
<1>13. CASE FailLastEvent(e)
  <2>1. Snap(p).last \in Events \cup {NoEvent}
    BY <1>s DEF Known
  <2>2. QueueMove /\ Goto(p, "fail_row")
    BY <1>13, <2>1, UpdateMove DEF FailLastEvent, p
  <2>3. QED
    BY <1>13, <1>p, <1>f, <1>s, <2>2, GoesOn, Unmoved DEF FailLastEvent
<1>14. CASE FailRow(e)
  <2>1. QueueMove
    BY <1>14, <1>q, RowMoves, Unmoved DEF FailRow, p, q, IInv
  <2>2. turns' \in Seq(Attempt) /\ Len(turns') = Len(turns) /\ End(p)
    BY <1>14, <1>n, <1>t, AttemptsTyped DEF FailRow, p, IInv
  <2>3. TurnsOK' /\ Len(turns) <= Len(turns')
    BY <1>n, <2>2 DEF IInv, TurnsOK
  <2>4. /\ Known \subseteq Known' /\ Hand \subseteq Hand'
        /\ 1..Len(queue) \subseteq 1..Len(queue')
    BY <2>1, <2>3, GoodStaysGood
  <2>5. ThreadsOK'
    BY <1>p, <1>f, <1>s, <2>2, <2>4, ThreadGoesOn
  <2>6. PanesOK' /\ BooksOK'
    BY <1>14, <2>2, <2>4 DEF FailRow, IInv, PanesOK, BooksOK
  <2>7. QED
    BY <1>14, <1>s, <2>1, <2>3, <2>4, <2>5, <2>6, WholeStep DEF FailRow
<1>15. QED
  BY <1>1, <1>2, <1>3, <1>4, <1>5, <1>6, <1>7, <1>8, <1>9, <1>10, <1>11, <1>12, <1>13, <1>14
     DEF LaunchStep

-----------------------------------------------------------------------------
(* SessionLifecycle *)

\* A step that may take a pane away, and leaves tables and turns alone.
LEMMA PaneStep ==
    ASSUME IInv, UNCHANGED <<queue, ledger, turns, posted, sent, backlog, dropped, lost>>,
           session' \in Known, stale' \subseteq Lapses, ThreadsOK',
           UNCHANGED <<panes, inbox>> \/ \E pane : KillPane(pane),
           budget' = budget \/ \E k \in FaultKinds : Spend(k)
    PROVE  IInv' /\ QueueMove
<1>1. PanesOK'
  BY PaneKilled, PanesKept
<1>2. BooksOK'
  <2>1. posted' \subseteq 1..Len(turns)
    BY DEF IInv, BooksOK
  <2>2. QED
    BY <2>1, BooksKept
<1>3. TurnsOK' /\ Len(turns) <= Len(turns') /\ Known' = Known
  BY TurnsFacts, QuietKeeps DEF IInv, TurnsOK
<1>4. QED
  BY <1>1, <1>2, <1>3, Unmoved, WholeStep

LEMMA BeginKeeps ==
    ASSUME IInv, NEW k \in Controls,
           NEW where \in {"cancel", "kill", "orphaned", "timeout", "shutdown"},
           Begin(k, where),
           UNCHANGED <<panes, inbox>> \/ \E pane : KillPane(pane),
           budget' = budget \/ \E f \in FaultKinds : Spend(f)
    PROVE  IInv' /\ QueueMove
<1> DEFINE p == Control(k)
           r == [Off EXCEPT !.at = where, !.snap = session, !.turn = session.turn]
<1>1. p \in Processes /\ Off \in Hand /\ session \in Known /\ session.turn \in 0..Len(turns)
  BY ProcessNames, OffIsHand, KnownRows DEF IInv
<1>2. r \in Hand /\ r.at = where
  <2>1. where \in Places
    BY DEF Places
  <2>2. QED
    BY <1>1, <2>1 DEF Hand
<1>3. thread' = [thread EXCEPT ![p] = r] /\ UNCHANGED <<queue, turns, session, stale>>
  BY DEF Begin, Become
<1> HIDE DEF p, r
<1>4. Holds(p, r)
  BY <1>2 DEF Holds, RowInHand, TurnInHand
<1>5. ThreadsOK'
  BY <1>1, <1>2, <1>3, <1>4, OneThread, QuietKeeps
<1>6. QED
  BY <1>1, <1>5, PaneStep, Unmoved DEF Begin

LEMMA CommandKeeps == ASSUME IInv, Command PROVE IInv' /\ QueueMove
<1> USE DEF FaultKinds, Controls
<1>1. CASE BeginCancel
  BY <1>1, BeginKeeps DEF BeginCancel
<1>2. CASE BeginKill
  BY <1>2, BeginKeeps DEF BeginKill
<1>3. CASE BeginCleanup
  BY <1>3, BeginKeeps DEF BeginCleanup
<1>4. CASE BeginShutdown
  BY <1>4, BeginKeeps DEF BeginShutdown
<1>5. QED
  BY <1>1, <1>2, <1>3, <1>4 DEF Command

\* A move of the lifecycle: what goes on has in hand what was there.
LEMMA MovesTyped ==
    ASSUME IInv, NEW p \in Processes, NEW from, NEW row \in Known, NEW where,
           Moves(p, from, row, where), UNCHANGED <<queue, turns>>,
           \/ where \in {"cancelled", "closed"}
           \/ where \in {"fail_row", "put_back"} /\ Snap(p).row # NoRow
    PROVE  session' \in Known /\ stale' \subseteq Lapses /\ ThreadsOK'
<1> DEFINE q == IF where \in {"fail_row", "put_back"} THEN Snap(p).row ELSE NoRow
           r == [Off EXCEPT !.at = where, !.pane = session.pane, !.turn = thread[p].turn,
                            !.row = q]
<1>1. session' \in Known /\ stale' \subseteq Lapses
  BY RowWritten DEF Moves
<1>2. /\ Off \in Hand /\ session.pane \in Nat /\ thread[p].turn \in 0..Len(turns)
      /\ Snap(p).row \in 0..Len(queue) /\ Len(queue) \in Nat
  BY OffIsHand, KnownRows, HandFacts, TablesFacts DEF IInv
<1>3. q \in 0..Len(queue) /\ (where \in {"fail_row", "put_back"} => q # NoRow)
  BY <1>2 DEF NoRow
<1>4. thread' = [thread EXCEPT ![p] = r]
  BY DEF Moves, Become
<1> HIDE DEF q
<1>5. r \in Hand /\ r.at = where /\ r.row = q
  <2>1. where \in Places
    BY DEF Places
  <2>2. QED
    BY <1>2, <1>3, <2>1 DEF Hand
<1> HIDE DEF r
<1>6. Holds(p, r)
  BY <1>3, <1>5 DEF Holds, RowInHand, TurnInHand
<1>7. QED
  BY <1>1, <1>4, <1>5, <1>6, OneThread, QuietKeeps

LEMMA TooLateTyped ==
    ASSUME IInv, NEW p, NEW from, TooLate(p, from)
    PROVE  session' \in Known /\ stale' \subseteq Lapses
BY Unmoved DEF TooLate

LEMMA ControlStepKeeps == ASSUME IInv, ControlStep PROVE IInv' /\ QueueMove
<1>p. \A k \in Controls : Control(k) \in Processes
  BY ProcessNames
<1>c. {"cancel", "kill", "cleanup", "shutdown"} \subseteq Controls
  BY DEF Controls
<1>f. {"cancel_load", "cancel_force", "cancelled", "suspend", "exit", "closed", "clear_pane",
       "off"} \subseteq Free
  BY DEF Free, Places, RowInHand, TurnInHand
<1>g. \A p : Free \subseteq Places \ Needy(p)
  BY DEF Free, Needy
<1>s. /\ session \in Known /\ Clear(session, "idle") \in Known
      /\ [Clear(session, "killed") EXCEPT !.pane = NoPane] \in Known
      /\ \A why \in Reasons : Suspend(session, why) \in Known
      /\ Off \in Hand /\ Absent \in Known
  <2>1. session \in Known /\ Off \in Hand /\ Absent \in Known
    BY OffIsHand DEF IInv
  <2>2. Clear(session, "idle") \in Known /\ Clear(session, "killed") \in Known
    BY <2>1, KnownRows DEF Status
  <2>3. [Clear(session, "killed") EXCEPT !.pane = NoPane] \in Known
    BY <2>2 DEF Known, NoPane
  <2>4. QED
    BY <2>1, <2>2, <2>3, KnownRows
<1>h. \A k \in Controls :
        /\ Snap(Control(k)) \in Known /\ thread[Control(k)] \in Hand
        /\ thread[Control(k)].row \in 0..Len(queue) /\ Holds(Control(k), thread[Control(k)])
  BY <1>p, HandFacts
<1>n. Len(queue) \in Nat /\ Len(turns) \in Nat /\ turns \in Seq(Attempt)
  BY TablesFacts, TurnsFacts DEF IInv, TurnsOK
<1>1. CASE CancelMove
  <2> DEFINE p == Control("cancel")
  <2>1. CASE Moves(p, Cancellable, Clear(session, "idle"), "cancelled")
    <3>1. session' \in Known /\ stale' \subseteq Lapses /\ ThreadsOK'
      BY <1>1, <1>p, <1>c, <1>s, <2>1, MovesTyped DEF CancelMove
    <3>2. QED
      BY <1>1, <3>1, PaneStep DEF CancelMove
  <2>2. CASE TooLate(p, Cancellable) /\ (Goto(p, "cancel_load") \/ End(p))
    BY <1>1, <1>p, <1>c, <1>f, <1>s, <2>2, TooLateTyped, Goes, Unmoved DEF CancelMove
  <2>3. QED
    BY <1>1, <2>1, <2>2 DEF CancelMove
<1>2. CASE CancelLoad
  BY <1>2, <1>p, <1>c, <1>f, <1>s, Goes, Unmoved DEF CancelLoad
<1>3. CASE CancelForce
  <2>1. Clear(Snap(Control("cancel")), "idle") \in Known
    BY <1>c, <1>h, KnownRows DEF Status
  <2>2. session' \in Known /\ stale' \subseteq Lapses
    BY <1>3, <2>1, RowWritten DEF CancelForce
  <2>3. QED
    BY <1>3, <1>p, <1>c, <1>f, <1>s, <2>2, Goes, Unmoved DEF CancelForce
<1>4. CASE KillMove
  <2> DEFINE p == Control("kill")
             s == [Clear(session, "killed") EXCEPT !.pane = NoPane]
  <2>1. CASE Moves(p, Killable, s, "closed")
    <3>1. session' \in Known /\ stale' \subseteq Lapses /\ ThreadsOK'
      BY <1>4, <1>p, <1>c, <1>s, <2>1, MovesTyped DEF KillMove
    <3>2. QED
      BY <1>4, <3>1, PaneStep DEF KillMove
  <2>2. CASE TooLate(p, Killable) /\ End(p)
    BY <1>4, <1>p, <1>c, <1>f, <1>s, <2>2, TooLateTyped, Goes, Unmoved DEF KillMove
  <2>3. QED
    BY <1>4, <2>1, <2>2 DEF KillMove
<1>g2. ASSUME NEW k \in Controls, NEW from, NEW why \in Reasons, NEW where,
             GivesUp(Control(k), from, why, where),
             UNCHANGED <<queue, ledger, turns, posted, sent, backlog, budget, dropped, lost>>,
             \/ where = "closed"
             \/ where \in {"fail_row", "put_back"} /\ Snap(Control(k)).row # NoRow
      PROVE  IInv' /\ QueueMove
  <2>1. session' \in Known /\ stale' \subseteq Lapses /\ ThreadsOK'
    BY <1>p, <1>s, <1>g2, MovesTyped DEF GivesUp
  <2>2. QED
    BY <1>g2, <2>1, PaneStep DEF GivesUp
<1>5. CASE OrphanedMove
  <2> DEFINE p == Control("cleanup")
             from == {Snap(p).status}
  <2>1. CASE GivesUp(p, from, "other", "closed")
    BY <1>5, <1>c, <1>g2, <2>1 DEF OrphanedMove, Reasons
  <2>2. CASE TooLate(p, from) /\ End(p) /\ UNCHANGED <<panes, inbox>>
    BY <1>5, <1>p, <1>c, <1>f, <1>s, <2>2, TooLateTyped, Goes, Unmoved DEF OrphanedMove
  <2>3. QED
    BY <1>5, <2>1, <2>2 DEF OrphanedMove
<1>6. CASE TimeoutMove
  <2> DEFINE p == Control("cleanup")
             from == {Snap(p).status}
             where == IF Snap(p).row # NoRow THEN "fail_row" ELSE "closed"
  <2>1. CASE GivesUp(p, from, "other", where)
    BY <1>6, <1>c, <1>g2, <2>1 DEF TimeoutMove, Reasons
  <2>2. CASE /\ TooLate(p, from) /\ UNCHANGED <<panes, inbox>>
             /\ Enter(p, "suspend", session) \/ End(p)
    BY <1>6, <1>p, <1>c, <1>f, <1>s, <2>2, TooLateTyped, Goes, Unmoved DEF TimeoutMove
  <2>3. QED
    BY <1>6, <2>1, <2>2 DEF TimeoutMove
<1>7. CASE SuspendMove
  <2> DEFINE p == Control("cleanup")
             from == {"idle", "waiting", "busy"}
  <2>1. CASE GivesUp(p, from, "none", "closed")
    BY <1>7, <1>c, <1>g2, <2>1 DEF SuspendMove, Reasons
  <2>2. CASE TooLate(p, from) /\ End(p) /\ UNCHANGED <<panes, inbox>>
    BY <1>7, <1>p, <1>c, <1>f, <1>s, <2>2, TooLateTyped, Goes, Unmoved DEF SuspendMove
  <2>3. QED
    BY <1>7, <2>1, <2>2 DEF SuspendMove
<1>8. CASE ShutdownMove
  <2> DEFINE p == Control("shutdown")
             where == IF Snap(p).row # NoRow THEN "put_back" ELSE "closed"
  <2>1. CASE GivesUp(p, Active, "graceful_shutdown", where)
    BY <1>8, <1>c, <1>g2, <2>1 DEF ShutdownMove, Reasons
  <2>2. CASE TooLate(p, Active) /\ Pass(p, "exit") /\ UNCHANGED <<panes, inbox>>
    BY <1>8, <1>p, <1>c, <1>f, <1>s, <2>2, TooLateTyped, Goes, Unmoved DEF ShutdownMove
  <2>3. QED
    BY <1>8, <2>1, <2>2 DEF ShutdownMove
<1>9. CASE TimeoutFailRow \/ ShutdownPutBack
  <2>1. PICK k \in {"cleanup", "shutdown"} :
          /\ thread[Control(k)].row # NoRow
          /\ LET q == thread[Control(k)].row IN
                \/ EQ!FailEventQueueRow(q) \/ EQ!MarkEventQueueRetryable(q)
                \/ UNCHANGED <<queue, ledger>>
          /\ Become(Control(k), [thread[Control(k)] EXCEPT !.at = "closed", !.row = NoRow])
          /\ UNCHANGED <<session, turns, panes, inbox, posted, sent, backlog, stale,
                         budget, dropped, lost>>
    <3>1. CASE TimeoutFailRow
      BY <3>1, <1>c, <1>h DEF TimeoutFailRow, At, Holds
    <3>2. CASE ShutdownPutBack
      BY <3>2, <1>c, <1>h DEF ShutdownPutBack, At, Holds, RowInHand
    <3>3. QED
      BY <1>9, <3>1, <3>2
  <2> DEFINE p == Control(k)
             q == thread[p].row
             r == [thread[p] EXCEPT !.at = "closed", !.row = NoRow]
  <2>2. QueueMove
    <3>1. q \in 1..Len(queue)
      BY <1>c, <1>h, <1>n, <2>1 DEF NoRow
    <3>2. QED
      BY <2>1, <3>1, RowMoves, Unmoved DEF IInv
  <2>3. /\ Known \subseteq Known' /\ Hand \subseteq Hand'
        /\ backlog' \subseteq 1..Len(queue') /\ dropped' \subseteq 1..Len(queue')
    BY <2>1, <2>2, AfterQueueMove
  <2>4. p \in Processes /\ r \in Hand' /\ r.at = "closed"
    <3>1. thread[p] \in Hand /\ NoRow \in 0..Len(queue)
      BY <1>c, <1>h, <1>n DEF NoRow
    <3>2. r \in Hand /\ r.at = "closed"
      BY <1>f, <3>1 DEF Hand, Free
    <3>3. QED
      BY <1>c, <1>p, <2>3, <3>2
  <2> HIDE DEF r, p
  <2>5. Holds(p, r)
    BY <2>4 DEF Holds, RowInHand, TurnInHand
  <2>6. ThreadsOK'
    BY <2>1, <2>3, <2>4, <2>5, OneThread DEF Become, p, r
  <2>7. QED
    BY <1>s, <2>1, <2>2, <2>3, <2>6, TableStep DEF IInv, BooksOK
<1>10. ASSUME NEW k \in Controls, Finalize(k) PROVE IInv' /\ QueueMove
  <2> DEFINE p == Control(k)
  <2>1. turns' \in Seq(Attempt) /\ Len(turns') = Len(turns)
    BY <1>10, <1>n, AttemptsTyped DEF Finalize, IInv
  <2>2. Enter(p, "clear_pane", session) \/ Pass(p, "exit") \/ End(p)
    BY <1>10 DEF Finalize, Ended
  <2>3. PanesOK' /\ BooksOK'
    <3>1. posted' \subseteq 1..Len(turns)
      BY <1>10 DEF Finalize, IInv, BooksOK
    <3>2. QED
      BY <1>10, <2>1, <3>1, PanesKept, BooksKept, Unmoved DEF Finalize
  <2>4. QED
    BY <1>10, <1>p, <1>f, <1>g, <1>s, <2>1, <2>2, <2>3, InnerStep DEF Finalize
<1>11. ASSUME NEW k \in Controls, ClearPane(k) PROVE IInv' /\ QueueMove
  <2> DEFINE p == Control(k)
  <2>1. [Snap(p) EXCEPT !.pane = NoPane] \in Known
    BY <1>h, KnownRows DEF NoPane
  <2>2. session' \in Known /\ stale' \subseteq Lapses
    BY <1>11, <2>1, RowWritten DEF ClearPane
  <2>3. Pass(p, "exit") \/ End(p)
    BY <1>11 DEF ClearPane, Ended
  <2>4. QED
    BY <1>11, <1>p, <1>f, <1>s, <2>2, <2>3, Goes, Unmoved DEF ClearPane
<1>12. QED
  BY <1>1, <1>2, <1>3, <1>4, <1>5, <1>6, <1>7, <1>8, <1>9, <1>10, <1>11 DEF ControlStep

-----------------------------------------------------------------------------
(* InputWait *)

LEMMA DetectorKeeps ==
    ASSUME IInv, Detect \/ DetectorStep PROVE IInv' /\ QueueMove
<1>p. Detector \in Processes
  BY ProcessNames
<1>f. {"detected", "notify", "off"} \subseteq Free
  BY DEF Free, Places, RowInHand, TurnInHand
<1>s. session \in Known /\ Snap(Detector) \in Known
  BY <1>p, HandFacts DEF IInv
<1>t. \A status \in Status :
        [session EXCEPT !.status = status, !.turn = Snap(Detector).turn] \in Known
  BY <1>s DEF Known
<1>k. "detect" \in FaultKinds /\ "post" \in FaultKinds
  BY DEF FaultKinds
<1>1. CASE Detect
  BY <1>1, <1>p, <1>f, <1>s, <1>k, Goes, Unmoved DEF Detect
<1>2. CASE EnterWaiting
  <2>1. session' \in Known /\ stale' \subseteq Lapses
    BY <1>2, <1>s, <1>t, RowWritten, Unmoved DEF EnterWaiting, Status
  <2>2. Keep(Detector, "notify") \/ End(Detector)
    BY <1>2 DEF EnterWaiting
  <2>3. QED
    BY <1>2, <1>p, <1>f, <1>s, <2>1, <2>2, Goes, Unmoved DEF EnterWaiting
<1>3. CASE NotifyQuestion
  <2>1. session' \in Known /\ stale' \subseteq Lapses
    BY <1>3, <1>s, <1>t, RowWritten, Unmoved DEF NotifyQuestion, Status
  <2>2. budget' = budget \/ Spend("post")
    BY <1>3 DEF NotifyQuestion
  <2>3. QED
    BY <1>3, <1>p, <1>f, <1>s, <1>k, <2>1, <2>2, Goes, Unmoved DEF NotifyQuestion
<1>4. QED
  BY <1>1, <1>2, <1>3 DEF DetectorStep

LEMMA AnswerStepKeeps ==
    ASSUME IInv, NEW e \in Events, AnswerStep(e) PROVE IInv' /\ QueueMove
<1> DEFINE p == Slack(e)
<1>p. p \in Processes /\ Needy(p) = RowInHand \cup TurnInHand
  BY ProcessNames DEF Needy
<1>f. /\ {"mark", "answer_save", "answer_undo"} \subseteq Free
      /\ {"mark", "answer_save", "answer_undo"} \subseteq Places \ Needy(p)
      /\ "answer_send" \in Places
  BY <1>p DEF Free, Places, RowInHand, TurnInHand
<1>s. /\ session \in Known /\ Snap(p) \in Known /\ Off \in Hand /\ thread[p] \in Hand
      /\ Snap(p).pane \in Nat
  BY <1>p, HandFacts, KnownRows, OffIsHand DEF IInv
<1> HIDE DEF p
<1>1. CASE Answer(e)
  <2>1. CASE Pass(p, "mark") /\ UNCHANGED <<session, turns, stale>>
    BY <1>1, <1>p, <1>f, <1>s, <2>1, Goes, Unmoved DEF Answer
  <2>2. CASE ~(Pass(p, "mark") /\ UNCHANGED <<session, turns, stale>>)
    <3> DEFINE r == [Off EXCEPT !.at = "answer_send", !.turn = NextTurn, !.snap = session']
    <3>1. Move({"waiting"}, Activate(session, NextTurn, NoRow)) /\ NewTurn(e) /\ Become(p, r)
      BY <1>1, <2>2 DEF Answer, p
    <3>2. NextTurn \in 1..Len(turns') /\ NextTurn # NoTurn /\ NextTurn \in 0..Len(turns')
      BY <3>1, NewTurnFacts
    <3>3. NoRow \in 0..Len(queue)
      BY TablesFacts DEF IInv, NoRow
    <3>4. session' \in Known' /\ stale' \subseteq Lapses
      BY <1>1, <3>1, <3>3, ActivatedKnown, Unmoved DEF Answer, Move
    <3>5. Hand \subseteq Hand'
      BY <1>1, <3>1, GoodStaysGood, NewTurnFacts, Unmoved DEF Answer
    <3>6. r \in Hand' /\ r.at = "answer_send" /\ r.turn # NoTurn
      BY <1>f, <1>s, <3>2, <3>4, <3>5 DEF Hand
    <3> HIDE DEF r
    <3>7. Holds(p, r)
      BY <3>6 DEF Holds, RowInHand
    <3>8. QED
      BY <1>1, <1>p, <3>1, <3>4, <3>6, <3>7, TakesTurn DEF Answer, Become
  <2>3. QED
    BY <2>1, <2>2
<1>2. CASE SendAnswer(e)
  <2>1. thread[p].turn \in 1..Len(turns)
    <3>1. thread[p].turn # NoTurn /\ thread[p].turn \in 0..Len(turns)
      BY <1>2, <1>p, HandFacts DEF SendAnswer, p, At, Holds, TurnInHand
    <3>2. QED
      BY <3>1, TurnsFacts DEF NoTurn, IInv
  <2>2. Keep(p, "answer_save") \/ Goto(p, "answer_undo")
    BY <1>2 DEF SendAnswer, p
  <2>3. SendsOrNot(thread[p].turn, e, Snap(p).pane)
    BY <1>2 DEF SendAnswer, SendsOrNot, p
  <2>4. Known' = Known /\ Hand' = Hand
    BY <1>2, <2>1, <2>3, SendKeepsLength DEF SendAnswer
  <2>5. ThreadsOK'
    BY <1>p, <1>f, <1>s, <2>2, <2>4, ThreadGoesOn
  <2>6. QED
    BY <1>2, <2>1, <2>3, <2>5, Sends DEF SendAnswer
<1>3. CASE AnswerUndo(e)
  <2>1. Clear(session, "waiting") \in Known
    BY <1>s, KnownRows DEF Status
  <2>2. session' \in Known /\ stale' \subseteq Lapses
    BY <1>3, <2>1, RowWritten, Unmoved DEF AnswerUndo
  <2>3. QED
    BY <1>3, <1>p, <1>f, <1>s, <2>2, Goes, Unmoved DEF AnswerUndo, p
<1>4. CASE SaveAnswered(e)
  <2>1. session' \in Known /\ stale' \subseteq Lapses
    BY <1>4, <1>s, RowWritten DEF SaveAnswered, p
  <2>2. QED
    BY <1>4, <1>p, <1>f, <1>s, <2>1, Goes, Unmoved DEF SaveAnswered, p
<1>5. QED
  BY <1>1, <1>2, <1>3, <1>4 DEF AnswerStep

-----------------------------------------------------------------------------
(* Restart *)

LEMMA RebootKeeps ==
    ASSUME IInv, Reboot, budget' = budget \/ Spend("crash") PROVE IInv' /\ QueueMove
<1>1. QueueMove
  <2>1. EQ!ResetLeases(EQ!DispatchingRows)
    BY DEF Reboot, EQ!ResetDispatchingEventQueueLeases
  <2>2. QED
    BY <2>1 DEF QueueMove, EQ!Next, EQ!QueueStep
<1>2. turns \in Seq(Attempt) /\ Len(turns) \in Nat /\ session \in Known
  BY TurnsFacts DEF IInv, TurnsOK
<1>3. turns' \in Seq(Attempt) /\ Len(turns') = Len(turns)
  BY <1>2, AttemptsTyped DEF Reboot, IInv
<1>4. TurnsOK' /\ Len(turns) <= Len(turns')
  BY <1>2, <1>3 DEF IInv, TurnsOK
<1>5. TablesOK' /\ Known \subseteq Known' /\ Hand \subseteq Hand'
  BY <1>1, <1>4, GoodStaysGood
<1>6. session' \in Known'
  <2>1. /\ Suspend(session, "startup_cleanup") \in Known
        /\ Clear(session, "suspended") \in Known
    BY <1>2, KnownRows DEF Status, Reasons
  <2>2. /\ [Suspend(session, "startup_cleanup") EXCEPT !.pane = NoPane] \in Known
        /\ [Clear(session, "suspended") EXCEPT !.pane = NoPane] \in Known
    BY <2>1, KnownRows DEF NoPane
  <2>3. AfterCleanup \in Known
    BY <1>2, <2>2 DEF AfterCleanup
  <2>4. QED
    BY <1>5, <2>3 DEF Reboot
<1>7. ThreadsOK'
  <2>1. thread' \in [Processes -> Hand'] /\ \A p \in Processes : thread'[p] = Off
    BY <1>5, OffIsHand DEF Reboot
  <2>2. \A p \in Processes : Holds(p, Off)
    BY DEF Holds, RowInHand, TurnInHand, Off
  <2>3. QED
    BY <2>1, <2>2 DEF ThreadsOK, Holds
<1>8. PanesOK'
  BY FS_EmptySet DEF Reboot, PanesOK
<1>9. BooksOK'
  <2>1. budget' \in [FaultKinds -> Nat]
    BY SpendTyped DEF FaultKinds, IInv, BooksOK
  <2>2. backlog' \subseteq 1..Len(queue')
    BY <1>5 DEF Reboot, TablesOK, EQ!TypeOK
  <2>3. IsFiniteSet(lost') /\ lost' \subseteq Nat
    BY FS_EmptySet DEF Reboot
  <2>4. QED
    BY <1>3, <2>1, <2>2, <2>3 DEF Reboot, IInv, BooksOK
<1>10. QED
  BY <1>1, <1>4, <1>6, <1>7, <1>8, <1>9, WholeStep

\* The boot loop starts a worker while the tables move.
LEMMA StartsWorker ==
    ASSUME IInv, QueueMove, session' \in Known, stale' \subseteq Lapses,
           NEW p \in Processes, NEW r \in Hand, Holds(p, r),
           thread' = [thread EXCEPT ![p] = r],
           Looked, UNCHANGED <<turns, panes, inbox, posted, sent, budget, dropped, lost>>
    PROVE  IInv' /\ QueueMove
<1>1. /\ Known \subseteq Known' /\ Hand \subseteq Hand'
      /\ backlog \subseteq 1..Len(queue') /\ dropped \subseteq 1..Len(queue')
  BY AfterQueueMove
<1>2. ThreadsOK'
  BY <1>1, OneThread
<1>3. QED
  BY <1>1, <1>2, TableStep DEF Looked, IInv, BooksOK

LEMMA HeadInHand ==
    ASSUME IInv, Pending
    PROVE  QueueHead \in 0..Len(queue) /\ Launch(queue[QueueHead].item) \in Processes
BY HeadFacts, TablesFacts, ProcessNames DEF IInv

LEMMA ReplayKeeps == ASSUME IInv, Replay PROVE IInv' /\ QueueMove
<1>s. session \in Known /\ "start" \in Places
  BY DEF IInv, Places
<1>1. CASE ReplayCreating
  <2> DEFINE p == Launch(queue[QueueHead].item)
             r == [Off EXCEPT !.at = "start", !.snap = session, !.row = QueueHead]
  <2>1. /\ thread' = [thread EXCEPT ![p] = r] /\ Pending /\ Looked /\ QueueMove
        /\ UNCHANGED <<session, turns, panes, inbox, posted, sent, stale, budget, dropped, lost>>
    BY <1>1, HeadMoves, Zenon DEF ReplayCreating, IInv
  <2>2. r \in Hand /\ r.at = "start" /\ p \in Processes
    <3>1. Off \in Hand /\ QueueHead \in 0..Len(queue) /\ p \in Processes
      BY <2>1, HeadInHand, OffIsHand
    <3> HIDE DEF p
    <3>2. QED
      BY <1>s, <3>1 DEF Hand
  <2> HIDE DEF p, r
  <2>3. Holds(p, r)
    BY <2>2 DEF Holds, RowInHand, TurnInHand
  <2>4. QED
    BY <1>s, <2>1, <2>2, <2>3, StartsWorker, Unmoved
<1>2. CASE ReplayShutdown
  <2> DEFINE s == [Clear(session, "starting") EXCEPT !.why = "none", !.pane = NoPane]
             p == Launch(queue[QueueHead].item)
             r == [Off EXCEPT !.at = "start", !.snap = session', !.row = QueueHead]
  <2>1. /\ Move({"suspended"}, s) /\ thread' = [thread EXCEPT ![p] = r]
        /\ Pending /\ Looked /\ QueueMove
        /\ UNCHANGED <<turns, panes, inbox, posted, sent, budget, dropped, lost>>
    BY <1>2, HeadMoves, Zenon DEF ReplayShutdown, IInv
  <2>2. s \in Known
    <3>1. Clear(session, "starting") \in Known
      BY <1>s, KnownRows DEF Status
    <3>2. QED
      BY <3>1 DEF Known, Reasons, NoPane
  <2> HIDE DEF s
  <2>3. session' \in Known /\ stale' \subseteq Lapses
    BY <2>1, <2>2, RowWritten
  <2>4. r \in Hand /\ r.at = "start" /\ p \in Processes
    <3>1. Off \in Hand /\ QueueHead \in 0..Len(queue) /\ p \in Processes
      BY <2>1, HeadInHand, OffIsHand
    <3> HIDE DEF p
    <3>2. QED
      BY <1>s, <2>3, <3>1 DEF Hand
  <2> HIDE DEF p, r
  <2>5. Holds(p, r)
    BY <2>4 DEF Holds, RowInHand, TurnInHand
  <2>6. QED
    BY <2>1, <2>3, <2>4, <2>5, StartsWorker
<1>3. CASE ReplayFail \/ ReplayDefer
  <2>1. QueueMove
    BY <1>3, NextRowFacts, RowMoves, Unmoved DEF ReplayFail, ReplayDefer, IInv
  <2>2. /\ Known \subseteq Known' /\ Hand \subseteq Hand'
        /\ backlog \subseteq 1..Len(queue') /\ dropped \subseteq 1..Len(queue')
    BY <1>3, <2>1, AfterQueueMove DEF ReplayFail, ReplayDefer
  <2>3. ThreadsOK'
    BY <1>3, <2>2 DEF ReplayFail, ReplayDefer, IInv, ThreadsOK, Holds
  <2>4. QED
    BY <1>3, <1>s, <2>1, <2>2, <2>3, TableStep
       DEF ReplayFail, ReplayDefer, Looked, IInv, BooksOK
<1>4. QED
  BY <1>1, <1>2, <1>3 DEF Replay

-----------------------------------------------------------------------------
(* The theorems *)

LEMMA WorkerExitsKeeps == ASSUME IInv, WorkerExits PROVE IInv' /\ QueueMove
<1>1. ThreadsOK'
  BY QuietKeeps DEF WorkerExits, IInv, ThreadsOK, Holds
<1>2. QED
  BY <1>1, PaneStep, Unmoved DEF WorkerExits, FaultKinds

LEMMA NextKeeps == IInv /\ [Next]_vars => IInv' /\ QueueMove
<1> SUFFICES ASSUME IInv, [Next]_vars PROVE IInv' /\ QueueMove
  OBVIOUS
<1>1. CASE Outside
  <2>1. ASSUME NEW e \in Events, Receive(e) \/ RefuseCreate(e) \/ RefuseRecover(e)
        PROVE  IInv' /\ QueueMove
    BY <2>1, ReceiveKeeps, SlackStepKeeps, RouteStepKeeps
  <2>2. CASE Crash
    BY <2>2, RebootKeeps DEF Crash
  <2>3. QED
    BY <1>1, <2>1, <2>2, CommandKeeps, DetectorKeeps, WorkerExitsKeeps DEF Outside
<1>2. ASSUME NEW e \in Events, Listener(e) \/ LaunchStep(e) PROVE IInv' /\ QueueMove
  BY <1>2, SlackStepKeeps, RouteStepKeeps, AnswerStepKeeps, LaunchStepKeeps DEF Listener
<1>3. ASSUME NEW t \in DOMAIN turns, HookServer(t) PROVE IInv' /\ QueueMove
  BY <1>3, ReplyStepKeeps, CompleteStepKeeps DEF HookServer
<1>4. CASE DetectorStep \/ ControlStep \/ Replay
  BY <1>4, DetectorKeeps, ControlStepKeeps, ReplayKeeps
<1>5. CASE Exit
  BY <1>5, RebootKeeps DEF Exit
<1>6. CASE UNCHANGED vars
  <2>1. ThreadsOK'
    BY <1>6, QuietKeeps DEF vars, IInv, ThreadsOK, Holds
  <2>2. QED
    BY <1>6, <2>1, QuietStep, Unmoved DEF vars, IInv, BooksOK
<1>7. QED
  BY <1>1, <1>2, <1>3, <1>4, <1>5, <1>6 DEF Next

LEMMA InitKeeps == Init => IInv /\ EQ!Init
<1> SUFFICES ASSUME Init PROVE IInv
  BY DEF Init
<1>1. queue = <<>> /\ turns = <<>> /\ Len(queue) = 0 /\ Len(turns) = 0
  BY DEF Init, EQ!Init
<1>2. TablesOK
  BY <1>1, StoreAssumption DEF TablesOK, EQ!TypeOK, Init, EQ!Init, EQ!LedgerStatus
<1>3. TurnsOK
  BY <1>1, StoreAssumption DEF TurnsOK
<1>4. Absent \in Known
  BY <1>1 DEF Absent, Known, NoTurn, NoRow, NoPane, Reasons
<1>5. Off \in Hand
  BY <1>1, <1>4 DEF Off, Hand, Places, NoTurn, NoRow, NoPane
<1>6. \A p \in Processes : Holds(p, Off)
  BY DEF Holds, RowInHand, TurnInHand, Off
<1>7. ThreadsOK
  BY <1>5, <1>6 DEF Init, ThreadsOK
<1>8. PanesOK
  BY FS_EmptySet DEF Init, PanesOK
<1>9. BooksOK
  BY StoreAssumption, FS_EmptySet DEF Init, BooksOK
<1>10. QED
  BY <1>2, <1>3, <1>4, <1>7, <1>8, <1>9 DEF Init, IInv

\* Two facts of every behaviour: the invariant, and that the tables move by the
\* operations of the queue.
LEMMA Always == Spec => []IInv /\ [][EQ!Next]_(EQ!vars)
<1>1. IInv /\ [Next]_vars => IInv' /\ [EQ!Next]_(EQ!vars)
  BY NextKeeps DEF QueueMove
<1>2. QED
  BY <1>1, InitKeeps, PTL DEF Spec

LEMMA TypesFollow == IInv => TypeOK
<1> SUFFICES ASSUME IInv PROVE TypeOK
  OBVIOUS
<1>1. /\ Len(queue) \in Nat /\ DOMAIN queue = 1..Len(queue)
      /\ Len(turns) \in Nat /\ DOMAIN turns = 1..Len(turns)
      /\ MaxRows \in Nat /\ MaxTurns \in Nat
      /\ Len(queue) <= MaxRows /\ Len(turns) <= MaxTurns
  BY TablesFacts, TurnsFacts, StoreAssumption DEF IInv, TablesOK, TurnsOK
<1>2. 0..Len(queue) \subseteq 0..MaxRows /\ 0..Len(turns) \subseteq 0..MaxTurns
  BY <1>1
<1>3. Known \subseteq Session
  BY <1>2 DEF Known, Session
<1>4. /\ DOMAIN thread = Processes
      /\ \A p \in Processes : thread[p].snap \in Session /\ thread[p].row \in 0..MaxRows
  BY <1>2, <1>3, HandFacts DEF IInv, ThreadsOK, Snap
<1>5. QED
  BY <1>1, <1>3, <1>4
     DEF TypeOK, IInv, TablesOK, TurnsOK, Attempt, PanesOK, BooksOK

\* The types of the whole composite, for every finite set of messages: no thread
\* ever holds a turn or a queue row that is not there, however old its copy.
THEOREM ConversationTypes == Spec => []TypeOK
<1>1. QED
  BY Always, TypesFollow, PTL

\* Every behaviour of the threads, with all their failures, interventions and
\* restarts, is one of the queue of bridge_state.py.
THEOREM ConversationKeepsTheQueue == Spec => QueueIsEventQueue
<1>1. QED
  BY Always, InitKeeps, PTL DEF Spec, QueueIsEventQueue, EQ!Spec

\* What is proved of the queue holds of the conversation: in a conversation too an
\* event has one row, the rows are claimed in their order, and a row that is
\* settled stays settled, whichever threads race for it and whatever fails.
THEOREM ConversationHasQueueLaws ==
    Spec => []EQ!OneRowPerEvent /\ EQ!ClaimedInOrder /\ EQ!SettledForGood
<1>1. Spec => QP!Spec
  <2>1. EQ!Init => QP!Init
    BY SameTables
  <2>2. [EQ!Next]_(EQ!vars) => [QP!Next]_(QP!vars)
    BY SameTables DEF QueueMove
  <2>3. Init => EQ!Init
    BY InitKeeps
  <2>4. QED
    BY <2>1, <2>2, <2>3, Always, PTL DEF Spec, QP!Spec
<1>2. QP!Spec => []QP!OneRowPerEvent
  BY QueueAssumptions, QP!EventHasOneRow
<1>3. QP!Spec => QP!ClaimedInOrder
  BY QueueAssumptions, QP!RowsAreClaimedInOrder
<1>4. QP!Spec => QP!SettledForGood
  BY QueueAssumptions, QP!RowsSettleForGood
<1>5. QP!OneRowPerEvent => EQ!OneRowPerEvent
  BY DEF QP!OneRowPerEvent, EQ!OneRowPerEvent
<1>6. QP!ClaimedInOrder => EQ!ClaimedInOrder
  <2> DEFINE A == \A q \in DOMAIN queue :
          queue[q].status \in QP!Visible /\ queue'[q].status = "dispatching"
          => \A p \in QP!VisibleRows([e \in Events |-> "conversation"][queue[q].item]) : q <= p
             B == \A q \in DOMAIN queue :
          queue[q].status \in EQ!Visible /\ queue'[q].status = "dispatching"
          => \A p \in EQ!VisibleRows([e \in Events |-> "conversation"][queue[q].item]) : q <= p
  <2>1. [A]_(QP!vars) => [B]_(EQ!vars)
    BY DEF QP!vars, EQ!vars, QP!Visible, EQ!Visible, QP!VisibleRows, EQ!VisibleRows
  <2>2. QED
    BY <2>1, PTL DEF QP!ClaimedInOrder, EQ!ClaimedInOrder
<1>7. QP!SettledForGood => EQ!SettledForGood
  <2> DEFINE A == \A q \in DOMAIN queue :
          queue[q].status \in QP!Settled => queue'[q].status = queue[q].status
             B == \A q \in DOMAIN queue :
          queue[q].status \in EQ!Settled => queue'[q].status = queue[q].status
  <2>1. [A]_(QP!vars) => [B]_(EQ!vars)
    BY DEF QP!vars, EQ!vars, QP!Settled, EQ!Settled
  <2>2. QED
    BY <2>1, PTL DEF QP!SettledForGood, EQ!SettledForGood
<1>8. QED
  BY <1>1, <1>2, <1>3, <1>4, <1>5, <1>6, <1>7, PTL

-----------------------------------------------------------------------------
(* A text is typed once *)

Ways(e) == {p \in Processes : Bears(p, e)} \cup {<<"row", q>> : q \in Waiting(e)}

\* There is one way at most, and none when the text was typed.  What is not in the
\* ledger has none; what a listener has before it has no row yet.
OneWay(e) ==
    /\ sent[e] \in {0, 1}
    /\ \A v, w \in Ways(e) : v = w
    /\ sent[e] = 1 \/ ledger[e] = "absent" => Ways(e) = {}
    /\ ledger[e] = "absent" => sent[e] = 0
    /\ thread[Slack(e)].at \in Early => RowsOn(e) = {}

Introduced(e) == ledger[e] = "absent" => RowsOn(e) = {} /\ At(Slack(e), "off")

\* The shutdown puts the row of the turn back: until the process ends it may be claimed again.
ShuttingDown == ~At(Control("shutdown"), "off")

TypedOnce == /\ \A e \in Events : Introduced(e)
             /\ ShuttingDown \/ \A e \in Events : OneWay(e)

\* What a step may do to an event: its ways only become fewer, one gives way to another,
\* or the text is typed; or the event comes in.
Fate(e) ==
    \/ sent'[e] = sent[e] /\ Ways(e)' \subseteq Ways(e)
    \/ sent'[e] = sent[e] /\ \E w \in Ways(e) : \E v : Ways(e)' \subseteq (Ways(e) \ {w}) \cup {v}
    \/ sent'[e] = sent[e] + 1 /\ \E w \in Ways(e) : Ways(e)' \subseteq Ways(e) \ {w}
    \/ sent'[e] = sent[e] /\ ledger[e] = "absent" /\ ledger'[e] # "absent"
       /\ \E v : Ways(e)' \subseteq Ways(e) \cup {v}

Entry(e) ==
    /\ ledger'[e] = "absent" => ledger[e] = "absent"
    /\ RowsOn(e)' \subseteq RowsOn(e) \/ (ledger[e] # "absent" /\ thread'[Slack(e)].at \notin Early)
    /\ thread'[Slack(e)].at \in Early => thread[Slack(e)].at \in Early \/ ledger[e] = "absent"
    /\ thread'[Slack(e)].at # "off" => thread[Slack(e)].at # "off" \/ ledger'[e] # "absent"

LEMMA FateDecides ==
    ASSUME NEW e \in Events, OneWay(e), Introduced(e), Entry(e), Fate(e)
    PROVE  OneWay(e)'
<1>1. sent'[e] \in {0, 1} /\ (ledger'[e] = "absent" => sent'[e] = 0)
  BY DEF OneWay, Fate, Entry
<1>2. \A v, w \in Ways(e)' : v = w
  BY DEF OneWay, Fate
<1>3. sent'[e] = 1 \/ ledger'[e] = "absent" => Ways(e)' = {}
  BY DEF OneWay, Fate, Entry
<1>4. thread'[Slack(e)].at \in Early => RowsOn(e)' = {}
  BY DEF OneWay, Entry, Introduced, Early, At
<1>5. QED
  BY <1>1, <1>2, <1>3, <1>4 DEF OneWay

LEMMA EntryDecides ==
    ASSUME NEW e \in Events, Introduced(e), Entry(e)
    PROVE  Introduced(e)'
BY DEF Introduced, Entry, At

\* Which thread is whose.
LEMMA ThreadsApart ==
    /\ \A e, f \in Events : /\ Slack(e) = Slack(f) => e = f
                            /\ Launch(e) = Launch(f) => e = f
                            /\ Slack(e) # Launch(f)
    /\ \A e \in Events, t \in Turns : Reply(t) # Slack(e) /\ Reply(t) # Launch(e)
    /\ \A e \in Events, k \in Controls : Control(k) # Slack(e) /\ Control(k) # Launch(e)
    /\ \A t \in Turns, k \in Controls : Control(k) # Reply(t)
    /\ \A e \in Events : Detector # Slack(e) /\ Detector # Launch(e)
    /\ \A t \in Turns : Detector # Reply(t)
    /\ \A p \in Processes : \A q : p # <<"row", q>>
BY DEF Processes, Slack, Launch, Reply, Detector, Control

\* One thread takes a step.
StepsTo(p, where) ==
    /\ thread'[p].at = where
    /\ where \in Draining => thread'[p].row = thread[p].row
    /\ \A n \in Processes \ {p} : thread'[n] = thread[n]

LEMMA Walks ==
    ASSUME IInv, NEW p \in Processes, NEW where, NEW s,
           \/ Enter(p, where, s) \/ Goto(p, where) \/ Keep(p, where)
           \/ where \notin Draining /\ Pass(p, where)
           \/ where = "off" /\ End(p)
    PROVE  StepsTo(p, where)
<1>1. thread \in [Processes -> Hand] /\ thread[p] \in Hand
  BY HandFacts DEF IInv, ThreadsOK
<1>2. ASSUME NEW r, thread' = [thread EXCEPT ![p] = r], r.at = where,
             where \in Draining => r.row = thread[p].row
      PROVE  StepsTo(p, where)
  BY <1>1, <1>2 DEF StepsTo
<1>3. CASE Enter(p, where, s)
  <2> DEFINE r == [thread[p] EXCEPT !.at = where, !.snap = s]
  <2>1. r.at = where /\ r.row = thread[p].row
    BY <1>1 DEF Hand
  <2>2. QED
    BY <1>2, <1>3, <2>1 DEF Enter, Become
<1>4. CASE Goto(p, where)
  <2> DEFINE r == [thread[p] EXCEPT !.at = where, !.snap = Absent]
  <2>1. r.at = where /\ r.row = thread[p].row
    BY <1>1 DEF Hand
  <2>2. QED
    BY <1>2, <1>4, <2>1 DEF Goto, Become
<1>5. CASE Keep(p, where)
  <2> DEFINE r == [thread[p] EXCEPT !.at = where]
  <2>1. r.at = where /\ r.row = thread[p].row
    BY <1>1 DEF Hand
  <2>2. QED
    BY <1>2, <1>5, <2>1 DEF Keep, Become
<1>6. CASE where \notin Draining /\ Pass(p, where)
  <2> DEFINE r == [Off EXCEPT !.at = where]
  <2>1. r.at = where
    BY DEF Off
  <2>2. QED
    BY <1>2, <1>6, <2>1 DEF Pass, Become
<1>7. CASE where = "off" /\ End(p)
  <2>1. Off.at = "off" /\ "off" \notin Draining
    BY DEF Off, Draining
  <2>2. QED
    BY <1>2, <1>7, <2>1 DEF End, Become
<1>8. QED
  BY <1>3, <1>4, <1>5, <1>6, <1>7

LEMMA Becomes ==
    ASSUME IInv, NEW p \in Processes, NEW r, Become(p, r), NEW where, r.at = where,
           where \in Draining => r.row = thread[p].row
    PROVE  StepsTo(p, where)
BY DEF Become, StepsTo, IInv, ThreadsOK

\* What a step may do to the tables without giving an event a way.
Introduces == \A e \in Events : ledger'[e] = "absent" => ledger[e] = "absent"

SameItems ==
    \A q \in DOMAIN queue : q \in DOMAIN queue' /\ queue'[q].item = queue[q].item

Settling ==
    /\ Introduces
    /\ DOMAIN queue' = DOMAIN queue
    /\ \A q \in DOMAIN queue :
          /\ queue'[q].item = queue[q].item
          /\ queue'[q].status \in EQ!Visible => queue[q].status \in EQ!Visible

LEMMA MarkIntroduces ==
    ASSUME IInv, NEW E, NEW status, status # "absent", NEW kept, EQ!Mark(E, status, kept)
    PROVE  Introduces
BY TablesFacts DEF IInv, EQ!Mark, Introduces

LEMMA RowsSet ==
    ASSUME IInv, NEW Q, NEW status, EQ!SetRows(Q, status)
    PROVE  /\ DOMAIN queue' = DOMAIN queue
           /\ \A q \in DOMAIN queue : /\ queue'[q].item = queue[q].item
                                      /\ queue'[q].status = IF q \in Q THEN status ELSE queue[q].status
<1>1. \A q \in DOMAIN queue : queue[q] \in EQ!Row
  BY DEF IInv, TablesOK, EQ!TypeOK
<1>2. QED
  BY <1>1 DEF EQ!SetRows, EQ!Row

LEMMA Settles ==
    ASSUME IInv,
           \/ UNCHANGED <<queue, ledger>>
           \/ \E e, status : status # "absent" /\ EQ!UpdateEvent(e, status)
           \/ \E q : EQ!ConsumeEventQueueRow(q) \/ EQ!FailEventQueueRow(q)
           \/ \E t, q, item : EQ!ClaimEventQueueHead(t, q, item)
    PROVE  Settling
<1>1. CASE UNCHANGED <<queue, ledger>>
  BY <1>1 DEF Settling, Introduces
<1>2. ASSUME NEW e, NEW status, status # "absent", EQ!UpdateEvent(e, status)
      PROVE  Settling
  BY <1>2, MarkIntroduces DEF EQ!UpdateEvent, Settling
<1>3. ASSUME NEW Q, NEW status, status \notin EQ!Visible, EQ!SetRows(Q, status), Introduces
      PROVE  Settling
  BY <1>3, RowsSet DEF Settling
<1>4. ASSUME NEW q, EQ!ConsumeEventQueueRow(q) \/ EQ!FailEventQueueRow(q)
      PROVE  Settling
  <2>1. \E status \in {"done", "failed"} : \E Q : EQ!SetRows(Q, status)
    BY <1>4 DEF EQ!ConsumeEventQueueRow, EQ!FailEventQueueRow
  <2>2. \E status \in {"done", "failed"} : \E E, kept : EQ!Mark(E, status, kept)
    BY <1>4 DEF EQ!ConsumeEventQueueRow, EQ!FailEventQueueRow
  <2>3. QED
    BY <1>3, <2>1, <2>2, MarkIntroduces DEF EQ!Visible
<1>5. ASSUME NEW t, NEW q, NEW item, EQ!ClaimEventQueueHead(t, q, item)
      PROVE  Settling
  BY <1>3, <1>5, MarkIntroduces DEF EQ!ClaimEventQueueHead, EQ!Visible
<1>6. QED
  BY <1>1, <1>2, <1>4, <1>5

\* The ways of the threads that the step leaves alone, and of the rows.
LEMMA WaysOfOthers ==
    ASSUME IInv, SameItems, NEW S, \A n \in Processes \ S : thread'[n] = thread[n],
           NEW e \in Events, NEW p \in Processes \ S
    PROVE  Bears(p, e)' <=> Bears(p, e)
<1>1. thread[p].at \in Draining => thread[p].row \in DOMAIN queue
  <2>1. thread[p].row \in 0..Len(queue) /\ (thread[p].at \in Draining => thread[p].row # 0)
    BY HandFacts DEF Holds, Draining, RowInHand, NoRow
  <2>2. QED
    BY <2>1, TablesFacts DEF IInv
<1>2. QED
  BY <1>1 DEF Bears, SameItems

LEMMA SettlingWays ==
    ASSUME Settling, NEW e
    PROVE  SameItems /\ RowsOn(e)' \subseteq RowsOn(e) /\ Waiting(e)' \subseteq Waiting(e)
BY DEF Settling, SameItems, RowsOn, Waiting

\* The usual step: a thread goes on with the text it has, or has none afterwards.
GoesOnWithIt(p, where) ==
    \/ where \notin Early \cup Underway \cup Draining
    \/ where \notin Underway \cup Draining /\ thread[p].at \in Early
    \/ where \notin Early \cup Draining /\ thread[p].at \in Underway
    \/ where \notin Early \cup Underway /\ thread[p].at \in Draining

LEMMA PlainStep ==
    ASSUME IInv, Settling, UNCHANGED sent, NEW p \in Processes, NEW where, StepsTo(p, where),
           GoesOnWithIt(p, where), thread[p].at # "off" \/ \A e \in Events : p # Slack(e),
           NEW e \in Events
    PROVE  Entry(e) /\ Fate(e)
<1>1. SameItems /\ RowsOn(e)' \subseteq RowsOn(e) /\ Waiting(e)' \subseteq Waiting(e)
  BY SettlingWays
<1>2. \A n \in Processes \ {p} : Bears(n, e)' <=> Bears(n, e)
  BY <1>1, WaysOfOthers DEF StepsTo
<1>3. Bears(p, e)' => Bears(p, e)
  <2>1. SUFFICES ASSUME Bears(p, e)'
                 PROVE  Bears(p, e)
    OBVIOUS
  <2>2. thread'[p].at = where
    BY DEF StepsTo
  <2>3. CASE p = Slack(e) /\ where \in Early
    BY <2>2, <2>3 DEF GoesOnWithIt, Bears
  <2>4. CASE p = Launch(e) /\ where \in Underway
    BY <2>2, <2>4 DEF GoesOnWithIt, Bears
  <2>5. CASE (\E t \in Turns : p = Reply(t)) /\ where \in Draining
             /\ queue'[thread'[p].row].item = e
    <3>1. thread[p].at \in Draining /\ thread'[p].row = thread[p].row
      BY <2>5 DEF GoesOnWithIt, StepsTo
    <3>2. thread[p].row \in DOMAIN queue
      <4>1. thread[p].row \in 0..Len(queue) /\ thread[p].row # 0
        BY <3>1, HandFacts DEF Holds, Draining, RowInHand, NoRow
      <4>2. QED
        BY <4>1, TablesFacts DEF IInv
    <3>3. QED
      BY <1>1, <2>5, <3>1, <3>2 DEF Bears, SameItems
  <2>6. QED
    BY <2>1, <2>2, <2>3, <2>4, <2>5 DEF Bears
<1>4. Ways(e)' \subseteq Ways(e)
  BY <1>1, <1>2, <1>3 DEF Ways
<1>5. Fate(e)
  BY <1>4 DEF Fate
<1>6. CASE p # Slack(e)
  <2>1. thread'[Slack(e)] = thread[Slack(e)]
    BY <1>6, ProcessNames DEF StepsTo
  <2>2. QED
    BY <1>1, <1>5, <2>1 DEF Entry, Settling, Introduces
<1>7. CASE p = Slack(e)
  <2>1. thread'[p].at = where /\ thread[p].at # "off"
    BY <1>7 DEF StepsTo
  <2>2. where \in Early => thread[p].at \in Early
    BY DEF GoesOnWithIt, Early, Underway, Draining
  <2>3. QED
    BY <1>1, <1>5, <1>7, <2>1, <2>2 DEF Entry, Settling, Introduces
<1>8. QED
  BY <1>6, <1>7

\* What becomes of an event in a step that is not about it.
LEMMA NotAboutIt ==
    ASSUME IInv, SameItems, Introduces, NEW S, \A n \in Processes \ S : thread'[n] = thread[n],
           NEW e \in Events, Slack(e) \notin S, sent'[e] = sent[e],
           \A p \in S : Bears(p, e)' => Bears(p, e),
           Waiting(e)' \subseteq Waiting(e), RowsOn(e)' \subseteq RowsOn(e)
    PROVE  Entry(e) /\ Fate(e)
<1>1. Ways(e)' \subseteq Ways(e)
  BY WaysOfOthers DEF Ways
<1>2. thread'[Slack(e)] = thread[Slack(e)]
  BY ProcessNames
<1>3. QED
  BY <1>1, <1>2 DEF Entry, Fate, Introduces

\* The same when it is about it: what its ways are afterwards.
LEMMA WaysOfIt ==
    ASSUME IInv, SameItems, NEW S, \A n \in Processes \ S : thread'[n] = thread[n],
           NEW e \in Events, NEW T, \A p \in S : Bears(p, e)' => p \in T,
           NEW W, Waiting(e)' \subseteq W
    PROVE  Ways(e)' \subseteq (Ways(e) \ (S \cup {<<"row", q>> : q \in Waiting(e)}))
                              \cup T \cup {<<"row", q>> : q \in W}
<1> SUFFICES ASSUME NEW w \in Ways(e)', w \notin T, w \notin {<<"row", q>> : q \in W}
             PROVE  w \in Ways(e) \ (S \cup {<<"row", q>> : q \in Waiting(e)})
  OBVIOUS
<1>1. w \in Processes /\ Bears(w, e)'
  BY DEF Ways
<1>2. w \notin S
  BY <1>1
<1>3. Bears(w, e)
  BY <1>1, <1>2, WaysOfOthers
<1>4. QED
  BY <1>1, <1>2, <1>3, ThreadsApart DEF Ways

LEMMA Appended ==
    ASSUME IInv, NEW x \in Events, EQ!AppendEventQueue(x) \/ EQ!CreateInitialQueue(x)
    PROVE  /\ Introduces /\ SameItems
           /\ \A e \in Events \ {x} : RowsOn(e)' \subseteq RowsOn(e) /\ Waiting(e)' \subseteq Waiting(e)
           /\ RowsOn(x) = {} => Waiting(x)' \subseteq {Len(queue) + 1}
           /\ EQ!CreateInitialQueue(x) => RowsOn(x) = {} /\ Waiting(x)' = {}
<1>1. Introduces
  BY MarkIntroduces DEF EQ!AppendEventQueue, EQ!CreateInitialQueue
<1>2. ASSUME NEW status, EQ!Insert(x, status)
      PROVE  /\ SameItems
             /\ \A e \in Events \ {x} : RowsOn(e)' \subseteq RowsOn(e) /\ Waiting(e)' \subseteq Waiting(e)
             /\ RowsOn(x) = {} => Waiting(x)' \subseteq {Len(queue) + 1}
             /\ RowsOn(x) = {} /\ status \notin EQ!Visible => Waiting(x)' = {}
  <2>1. queue \in Seq(EQ!Row) /\ DOMAIN queue = 1..Len(queue) /\ Len(queue) \in Nat
    BY DEF IInv, TablesOK, EQ!TypeOK
  <2>2. /\ DOMAIN queue' = DOMAIN queue \cup {Len(queue) + 1}
        /\ \A q \in DOMAIN queue : queue'[q] = queue[q]
        /\ queue'[Len(queue) + 1] = [item |-> x, status |-> status]
    BY <1>2, <2>1 DEF EQ!Insert
  <2>3. QED
    BY <2>2 DEF SameItems, RowsOn, Waiting
<1>3. ASSUME NEW Q, EQ!SetRows(Q, "queued"), Q \subseteq RowsOn(x), RowsOn(x) # {}
      PROVE  /\ SameItems
             /\ \A e \in Events \ {x} : RowsOn(e)' \subseteq RowsOn(e) /\ Waiting(e)' \subseteq Waiting(e)
  <2>1. /\ DOMAIN queue' = DOMAIN queue
        /\ \A q \in DOMAIN queue : queue'[q].item = queue[q].item
                 /\ queue'[q].status = IF q \in Q THEN "queued" ELSE queue[q].status
    BY <1>3, RowsSet
  <2>2. QED
    BY <1>3, <2>1 DEF SameItems, RowsOn, Waiting
<1>4. CASE EQ!CreateInitialQueue(x)
  <2>1. EQ!Insert(x, "dispatching") /\ RowsOn(x) = {}
    BY <1>4 DEF EQ!CreateInitialQueue, EQ!RowsOf, RowsOn
  <2>2. QED
    BY <1>1, <1>2, <2>1 DEF EQ!Visible
<1>5. CASE EQ!AppendEventQueue(x) /\ ~EQ!CreateInitialQueue(x)
  <2>1. \/ RowsOn(x) # {} /\ EQ!SetRows({q \in RowsOn(x) : queue[q].status \in EQ!Live}, "queued")
        \/ RowsOn(x) = {} /\ EQ!Insert(x, "queued")
    BY <1>5 DEF EQ!AppendEventQueue, EQ!RowsOf, RowsOn
  <2>2. CASE RowsOn(x) = {} /\ EQ!Insert(x, "queued")
    BY <1>1, <1>2, <1>5, <2>2
  <2>3. CASE RowsOn(x) # {} /\ EQ!SetRows({q \in RowsOn(x) : queue[q].status \in EQ!Live}, "queued")
    BY <1>1, <1>3, <1>5, <2>3
  <2>4. QED
    BY <2>1, <2>2, <2>3
<1>6. QED
  BY <1>4, <1>5

LEMMA Retried ==
    ASSUME IInv, NEW q \in DOMAIN queue, EQ!MarkEventQueueRetryable(q)
    PROVE  /\ Introduces /\ SameItems
           /\ \A e \in Events : /\ RowsOn(e)' \subseteq RowsOn(e)
                                /\ Waiting(e)' \subseteq Waiting(e) \cup {q}
                                /\ e # queue[q].item => Waiting(e)' \subseteq Waiting(e)
<1>1. Introduces
  BY MarkIntroduces DEF EQ!MarkEventQueueRetryable
<1>2. /\ DOMAIN queue' = DOMAIN queue
      /\ \A r \in DOMAIN queue : queue'[r].item = queue[r].item
               /\ queue'[r].status = IF r \in {q} THEN "retryable" ELSE queue[r].status
  BY RowsSet DEF EQ!MarkEventQueueRetryable
<1>3. QED
  BY <1>1, <1>2 DEF SameItems, RowsOn, Waiting

LEMMA HeadClaimed ==
    ASSUME IInv, NEW q, NEW x, x = queue[q].item,
           EQ!ClaimEventQueueHead("conversation", q, x)
    PROVE  /\ Settling /\ q \in DOMAIN queue /\ x \in Events
           /\ q \in Waiting(x) /\ q \notin Waiting(x)'
<1>1. q \in DOMAIN queue /\ queue[q].status \in EQ!Visible /\ EQ!SetRows({q}, "dispatching")
  BY DEF EQ!ClaimEventQueueHead, EQ!IsHead, EQ!VisibleRows
<1>2. queue'[q].status = "dispatching"
  BY <1>1, RowsSet
<1>3. x \in Events
  BY <1>1, TablesFacts DEF IInv
<1>4. QED
  BY <1>1, <1>2, <1>3, Settles DEF Waiting, RowsOn, EQ!Visible

\* What a step must be shown to do to an event.
Fares(e) == Entry(e) /\ (OneWay(e) => Fate(e))

\* An event whose ways no thread of S is on after the step; and one of which the way w
\* becomes the way v.
Spared(e, S) ==
    /\ Slack(e) \notin S /\ \A p \in S : ~Bears(p, e)'
    /\ Waiting(e)' \subseteq Waiting(e) /\ RowsOn(e)' \subseteq RowsOn(e)

Turned(e, S, w, v) ==
    /\ w \in Ways(e) /\ (w \in S \/ w \notin Processes)
    /\ \A p \in S : Bears(p, e)' => p = v
    /\ \A q \in Waiting(e)' : <<"row", q>> = v \/ (q \in Waiting(e) /\ <<"row", q>> # w)

\* The text goes from one hand to the next.
LEMMA GivesWay ==
    ASSUME IInv, SameItems, Introduces, UNCHANGED sent, NEW S,
           \A n \in Processes \ S : thread'[n] = thread[n],
           NEW x \in Events, Entry(x),
           \A e \in Events \ {x} : Spared(e, S),
           NEW w, NEW v, OneWay(x) => Turned(x, S, w, v)
    PROVE  \A e \in Events : Fares(e)
<1>1. ASSUME NEW e \in Events, e # x
      PROVE  Fares(e)
  <2>1. sent'[e] = sent[e]
    OBVIOUS
  <2>2. QED
    BY <1>1, <2>1, NotAboutIt DEF Fares, Spared
<1>2. ASSUME OneWay(x)
      PROVE  Fate(x)
  <2>1. Ways(x)' \subseteq (Ways(x) \ {w}) \cup {v}
    <3> SUFFICES ASSUME NEW u \in Ways(x)', u # v
                 PROVE  u \in Ways(x) \ {w}
      OBVIOUS
    <3>1. CASE u \in Processes /\ Bears(u, x)'
      <4>1. u \notin S
        BY <1>2, <3>1 DEF Turned
      <4>2. Bears(u, x)
        BY <3>1, <4>1, WaysOfOthers
      <4>3. QED
        BY <1>2, <3>1, <4>1, <4>2 DEF Ways, Turned
    <3>2. CASE \E q \in Waiting(x)' : u = <<"row", q>>
      BY <1>2, <3>2 DEF Ways, Turned
    <3>3. QED
      BY <3>1, <3>2 DEF Ways
  <2>2. QED
    BY <1>2, <2>1 DEF Fate, Turned
<1>3. QED
  BY <1>1, <1>2 DEF Fares

\* The text is typed: the thread that had it does not have it any more.
LEMMA Typed ==
    ASSUME IInv, UNCHANGED <<queue, ledger>>, NEW p \in Processes, NEW x \in Events,
           Bears(p, x), \A e \in Events \ {x} : p # Slack(e),
           NEW where, StepsTo(p, where), where \notin Early \cup Underway \cup Draining,
           sent' = [sent EXCEPT ![x] = @ + 1]
    PROVE  \A e \in Events : Fares(e)
<1>1. Settling
  BY Settles
<1>2. \A e \in Events : SameItems /\ RowsOn(e)' \subseteq RowsOn(e)
                        /\ Waiting(e)' \subseteq Waiting(e)
  BY <1>1, SettlingWays
<1>3. \A e \in Events : ~Bears(p, e)'
  BY DEF Bears, StepsTo
<1>4. \A n \in Processes \ {p} : thread'[n] = thread[n]
  BY DEF StepsTo
<1>5. ASSUME NEW e \in Events, e # x
      PROVE  Fares(e)
  <2>1. sent'[e] = sent[e] /\ Slack(e) \notin {p}
    BY <1>5 DEF IInv, BooksOK
  <2>2. QED
    BY <1>1, <1>2, <1>3, <1>4, <2>1, NotAboutIt DEF Fares, Settling
<1>6. Fate(x)
  <2>1. sent'[x] = sent[x] + 1
    BY DEF IInv, BooksOK
  <2>2. Ways(x)' \subseteq Ways(x) \ {p}
    <3> SUFFICES ASSUME NEW u \in Ways(x)'
                 PROVE  u \in Ways(x) /\ u # p
      OBVIOUS
    <3>1. CASE u \in Processes /\ Bears(u, x)'
      <4>1. u # p
        BY <1>3, <3>1
      <4>2. Bears(u, x)
        BY <1>2, <1>4, <3>1, <4>1, WaysOfOthers
      <4>3. QED
        BY <3>1, <4>1, <4>2 DEF Ways
    <3>2. CASE \E q \in Waiting(x)' : u = <<"row", q>>
      BY <1>2, <3>2, ThreadsApart DEF Ways
    <3>3. QED
      BY <3>1, <3>2 DEF Ways
  <2>3. p \in Ways(x)
    BY DEF Ways
  <2>4. QED
    BY <2>1, <2>2, <2>3 DEF Fate
<1>7. Entry(x)
  <2>1. thread[p].at # "off"
    BY DEF Bears, Early, Underway, Draining
  <2>2. thread'[Slack(x)].at \notin Early \/ thread'[Slack(x)] = thread[Slack(x)]
    BY <1>4, ProcessNames DEF StepsTo
  <2>3. thread'[Slack(x)] = thread[Slack(x)] \/ thread[Slack(x)].at # "off"
    BY <1>4, <2>1, ProcessNames
  <2>4. QED
    BY <1>2, <2>2, <2>3 DEF Entry
<1>8. QED
  BY <1>5, <1>6, <1>7 DEF Fares

\* The usual step once more, for all events at a time.
LEMMA Plain ==
    ASSUME IInv, Settling, UNCHANGED sent, NEW p \in Processes, NEW where, StepsTo(p, where),
           GoesOnWithIt(p, where), thread[p].at # "off" \/ \A e \in Events : p # Slack(e)
    PROVE  \A e \in Events : Fares(e)
BY PlainStep DEF Fares

\* No thread moves at all.
LEMMA NoThreadMoves ==
    ASSUME IInv, Settling, UNCHANGED <<sent, thread>>
    PROVE  \A e \in Events : Fares(e)
<1> SUFFICES ASSUME NEW e \in Events
             PROVE  Fares(e)
  OBVIOUS
<1>1. SameItems /\ RowsOn(e)' \subseteq RowsOn(e) /\ Waiting(e)' \subseteq Waiting(e)
  BY SettlingWays
<1>2. PICK S : S = {}
  OBVIOUS
<1>3. /\ \A n \in Processes \ S : thread'[n] = thread[n]
      /\ Slack(e) \notin S /\ \A p \in S : Bears(p, e)' => Bears(p, e)
  BY <1>2
<1>4. sent'[e] = sent[e] /\ Introduces
  BY DEF Settling
<1>5. QED
  BY <1>1, <1>3, <1>4, NotAboutIt DEF Fares

\* Each part of the system, step by step.  First the listeners.
LEMMA ReceiveFares ==
    ASSUME IInv, NEW x \in Events, Receive(x) PROVE \A e \in Events : Fares(e)
<1> DEFINE p == Slack(x)
<1>1. /\ p \in Processes /\ UNCHANGED <<queue, sent>>
      /\ ledger[x] = "absent" /\ ledger' = [ledger EXCEPT ![x] = "received"]
  BY ProcessNames DEF Receive, EQ!ClaimEvent
<1>2. \A n \in Processes \ {p} : thread'[n] = thread[n]
  BY DEF Receive, Enter, Become, IInv, ThreadsOK
<1>3. /\ Introduces /\ SameItems
      /\ \A e \in Events : Waiting(e)' = Waiting(e) /\ RowsOn(e)' = RowsOn(e)
      /\ ledger'[x] # "absent"
  BY <1>1, TablesFacts DEF IInv, Introduces, SameItems, Waiting, RowsOn
<1>4. ASSUME NEW e \in Events, e # x
      PROVE  Fares(e)
  <2>1. sent'[e] = sent[e] /\ Slack(e) \notin {p}
    BY <1>1, <1>4, ThreadsApart
  <2>2. ~Bears(p, e)'
    BY <1>4, ThreadsApart DEF Bears
  <2>3. QED
    BY <1>2, <1>3, <2>1, <2>2, NotAboutIt DEF Fares
<1>5. Entry(x)
  BY <1>1, <1>3 DEF Entry
<1>6. Fate(x)
  <2>1. Ways(x)' \subseteq Ways(x) \cup {p}
    <3> SUFFICES ASSUME NEW u \in Ways(x)', u # p
                 PROVE  u \in Ways(x)
      OBVIOUS
    <3>1. CASE u \in Processes /\ Bears(u, x)'
      BY <1>2, <1>3, <3>1, WaysOfOthers DEF Ways
    <3>2. CASE \E q \in Waiting(x)' : u = <<"row", q>>
      BY <1>3, <3>2 DEF Ways
    <3>3. QED
      BY <3>1, <3>2 DEF Ways
  <2>2. QED
    BY <1>1, <1>3, <2>1 DEF Fate
<1>7. QED
  BY <1>4, <1>5, <1>6 DEF Fares

\* A row is added or queued again for the text that a listener has: what it has then
\* goes to the row, or with the row to a launch.
LEMMA RowAdded ==
    ASSUME IInv, NEW x \in Events, Introduced(x), At(Slack(x), "append") \/ At(Slack(x), "requeue"),
           EQ!AppendEventQueue(x), UNCHANGED sent,
           NEW where, StepsTo(Slack(x), where), where \notin Early
    PROVE  \A e \in Events : Fares(e)
<1> DEFINE p == Slack(x)
           S == {p}
           v == <<"row", Len(queue) + 1>>
<1>1. /\ p \in Processes /\ thread[p].at \in Early /\ thread[p].at # "off" /\ thread'[p].at = where
      /\ \A n \in Processes \ S : thread'[n] = thread[n]
  BY ProcessNames DEF StepsTo, At, Early
<1>2. /\ Introduces /\ SameItems
      /\ \A e \in Events \ {x} : RowsOn(e)' \subseteq RowsOn(e) /\ Waiting(e)' \subseteq Waiting(e)
      /\ RowsOn(x) = {} => Waiting(x)' \subseteq {Len(queue) + 1}
  BY Appended
<1>3. Entry(x)
  BY <1>1, <1>2 DEF Entry, Introduced, Introduces, At
<1>4. \A e \in Events \ {x} : Slack(e) \notin S /\ \A n \in S : ~Bears(n, e)'
  BY ThreadsApart DEF Bears
<1>5. ~Bears(p, x)'
  BY <1>1, ThreadsApart DEF Bears
<1>6. ASSUME OneWay(x)
      PROVE  Turned(x, S, p, v)
  <2>1. p \in Ways(x)
    BY <1>1 DEF Ways, Bears
  <2>2. Waiting(x)' \subseteq {Len(queue) + 1}
    BY <1>1, <1>2, <1>6 DEF OneWay
  <2>3. QED
    BY <1>5, <2>1, <2>2 DEF Turned
<1>7. \A e \in Events \ {x} : Spared(e, S)
  BY <1>2, <1>4 DEF Spared
<1> HIDE DEF p, S, v
<1>8. QED
  BY <1>1, <1>2, <1>3, <1>6, <1>7, GivesWay

LEMMA LaunchMade ==
    ASSUME IInv, NEW x \in Events, Introduced(x), UNCHANGED sent,
           thread[Slack(x)].at \in Early,
           NEW r, NEW n, thread' = [thread EXCEPT ![Slack(x)] = r, ![Launch(x)] = n],
           r.at \notin Early,
           Settling \/ EQ!CreateInitialQueue(x)
    PROVE  \A e \in Events : Fares(e)
<1> DEFINE p == Slack(x)
           v == Launch(x)
           S == {p, v}
<1>1. /\ p \in Processes /\ v \in Processes /\ p # v /\ thread[p].at # "off"
      /\ thread'[p] = r /\ \A m \in Processes \ S : thread'[m] = thread[m]
  BY ProcessNames DEF IInv, ThreadsOK, Early
<1>2. /\ Introduces /\ SameItems
      /\ \A e \in Events \ {x} : RowsOn(e)' \subseteq RowsOn(e) /\ Waiting(e)' \subseteq Waiting(e)
      /\ Waiting(x)' \subseteq Waiting(x)
  <2>1. CASE Settling
    BY <2>1, SettlingWays DEF Settling
  <2>2. CASE EQ!CreateInitialQueue(x)
    BY <2>2, Appended
  <2>3. QED
    BY <2>1, <2>2
<1>3. Entry(x)
  BY <1>1, <1>2 DEF Entry, Introduced, Introduces, At
<1>4. \A e \in Events \ {x} : Slack(e) \notin S /\ \A m \in S : ~Bears(m, e)'
  BY ThreadsApart DEF Bears
<1>5. Turned(x, S, p, v)
  <2>1. p \in Ways(x)
    BY <1>1 DEF Ways, Bears
  <2>2. ~Bears(p, x)'
    BY <1>1, ThreadsApart DEF Bears
  <2>3. QED
    BY <1>1, <1>2, <2>1, <2>2, ThreadsApart DEF Turned
<1>6. \A e \in Events \ {x} : Spared(e, S)
  BY <1>2, <1>4 DEF Spared
<1> HIDE DEF p, S, v
<1>7. QED
  BY <1>1, <1>2, <1>3, <1>5, <1>6, GivesWay

\* Where a listener may go on to, seen from where it is.
LEMMA ListenerGoes ==
    ASSUME IInv, NEW x \in Events, NEW where, Settling, UNCHANGED sent,
           StepsTo(Slack(x), where), thread[Slack(x)].at # "off",
           \/ where \in {"off", "refused", "mark", "rollback", "answer_undo", "answer_save"}
           \/ where \in Early /\ thread[Slack(x)].at \in Early
    PROVE  \A e \in Events : Fares(e)
<1>1. GoesOnWithIt(Slack(x), where)
  BY DEF GoesOnWithIt, Early, Underway, Draining
<1>2. Slack(x) \in Processes
  BY ProcessNames
<1>3. QED
  BY <1>1, <1>2, Plain

LEMMA SlackStepFares ==
    ASSUME IInv, NEW x \in Events, Introduced(x), SlackStep(x) \/ RefuseCreate(x)
    PROVE  \A e \in Events : Fares(e)
<1> DEFINE p == Slack(x)
<1>p. p \in Processes
  BY ProcessNames
<1>w. {"cursor", "create", "recover", "route"} \subseteq Early
      /\ \A where \in {"cursor", "recover", "route", "refused", "off"} : where \notin Draining
  BY DEF Early, Draining
<1>1. CASE UpdateCursor(x)
  <2>1. PICK where \in {"recover", "route"} : Enter(p, where, session') \/ Pass(p, where)
    BY <1>1 DEF UpdateCursor
  <2>2. StepsTo(p, where) /\ where \in Early
    BY <1>p, <1>w, <2>1, Walks
  <2>3. thread[p].at \in Early /\ thread[p].at # "off" /\ UNCHANGED <<queue, ledger, sent>>
    BY <1>1, <1>w DEF UpdateCursor, At
  <2>4. QED
    BY <2>2, <2>3, Settles, ListenerGoes
<1>2. CASE RefuseCreate(x)
  <2>1. StepsTo(p, "refused")
    BY <1>2, <1>p, <1>w, Walks DEF RefuseCreate
  <2>2. QED
    BY <1>2, <2>1, Settles, ListenerGoes DEF RefuseCreate, At
<1>3. CASE CreateSession(x) /\ session.status = "absent"
  <2> DEFINE n == [Off EXCEPT !.at = "start", !.snap = session', !.row = Len(queue) + 1]
  <2>1. /\ EQ!CreateInitialQueue(x) /\ UNCHANGED sent /\ At(p, "create")
        /\ thread' = [thread EXCEPT ![Slack(x)] = Off, ![Launch(x)] = n]
    BY <1>3 DEF CreateSession
  <2> HIDE DEF n
  <2>2. thread[Slack(x)].at \in Early /\ Off.at \notin Early
    BY <2>1 DEF At, Early, Off
  <2>3. QED
    BY <2>1, <2>2, LaunchMade
<1>4. CASE CreateSession(x) /\ session.status # "absent"
  <2>1. PICK where \in {"refused", "cursor"} : Enter(p, where, session)
    BY <1>4 DEF CreateSession
  <2>2. StepsTo(p, where)
    BY <1>p, <2>1, Walks
  <2>3. thread[p].at = "create" /\ UNCHANGED <<queue, ledger, sent>>
    BY <1>4 DEF CreateSession, At
  <2>4. QED
    BY <1>w, <2>2, <2>3, Settles, ListenerGoes
<1>5. CASE MarkRefused(x) \/ MarkQueued(x)
  <2>1. StepsTo(p, "off")
    BY <1>5, <1>p, Walks DEF MarkRefused, MarkQueued
  <2>2. Settling
    BY <1>5, Settles DEF MarkRefused, MarkQueued
  <2>3. QED
    BY <1>5, <2>1, <2>2, ListenerGoes DEF MarkRefused, MarkQueued, At
<1>6. QED
  BY <1>1, <1>2, <1>3, <1>4, <1>5 DEF SlackStep

LEMMA RouteStepFares ==
    ASSUME IInv, NEW x \in Events, Introduced(x), RouteStep(x) \/ RefuseRecover(x)
    PROVE  \A e \in Events : Fares(e)
<1> DEFINE p == Slack(x)
<1>p. p \in Processes
  BY ProcessNames
<1>w. /\ {"route", "append", "answer", "recover", "active", "race", "send", "requeue"} \subseteq Early
      /\ \A where \in {"route", "append", "answer", "recover", "active", "race", "send", "requeue",
                       "mark", "rollback"} : where \notin Draining
      /\ {"mark", "rollback"} \cap (Early \cup Underway \cup Draining) = {}
  BY DEF Early, Draining, Underway
<1>1. CASE Route(x)
  <2>1. PICK where \in {"answer", "append", "mark", "recover", "active"} :
               Enter(p, where, session)
    <3>1. session.status \in Status \cup {"absent"}
      BY KnownRows DEF IInv
    <3>2. QED
      BY <1>1, <3>1 DEF Route, Branches, Status
  <2>2. StepsTo(p, where)
    BY <1>p, <2>1, Walks
  <2>3. thread[p].at = "route" /\ UNCHANGED <<queue, ledger, sent>>
    BY <1>1 DEF Route, At
  <2>4. QED
    BY <1>w, <2>2, <2>3, Settles, ListenerGoes
<1>2. CASE RouteQueue(x)
  <2>1. StepsTo(p, "mark") /\ "mark" \notin Early
    BY <1>2, <1>p, <1>w, Walks DEF RouteQueue
  <2>2. QED
    BY <1>2, <2>1, RowAdded DEF RouteQueue
<1>3. CASE RouteActive(x)
  <2>1. PICK where \in {"send", "race"} : StepsTo(p, where)
    <3>1. CASE Keep(p, "race")
      BY <1>p, <3>1, Walks
    <3>2. CASE ~Keep(p, "race")
      <4> DEFINE r == [Off EXCEPT !.at = "send", !.turn = NextTurn, !.pane = session.pane]
      <4>1. Become(p, r)
        BY <1>3, <3>2 DEF RouteActive
      <4>2. r.at = "send"
        BY DEF Off
      <4> HIDE DEF r
      <4>3. StepsTo(p, "send")
        BY <1>p, <1>w, <4>1, <4>2, Becomes
      <4>4. QED
        BY <4>3
    <3>3. QED
      BY <3>1, <3>2
  <2>2. thread[p].at = "active" /\ UNCHANGED <<queue, ledger, sent>>
    BY <1>3 DEF RouteActive, At
  <2>3. QED
    BY <1>w, <2>1, <2>2, Settles, ListenerGoes
<1>4. CASE RouteRace(x)
  <2>1. PICK where \in {"route", "mark"} : Pass(p, where)
    BY <1>4 DEF RouteRace
  <2>2. StepsTo(p, where)
    BY <1>p, <1>w, <2>1, Walks
  <2>3. thread[p].at = "race" /\ UNCHANGED <<queue, ledger, sent>>
    BY <1>4 DEF RouteRace, At
  <2>4. QED
    BY <1>w, <2>2, <2>3, Settles, ListenerGoes
<1>5. CASE SendActive(x) /\ SendFailsAndCloses(thread[p].turn, thread[p].pane) /\ Goto(p, "requeue")
  <2>1. StepsTo(p, "requeue")
    BY <1>5, <1>p, <1>w, Walks DEF SendActive
  <2>2. thread[p].at = "send" /\ UNCHANGED <<queue, ledger, sent>>
    BY <1>5 DEF SendActive, At, SendFailsAndCloses, SendFails
  <2>3. QED
    BY <1>w, <2>1, <2>2, Settles, ListenerGoes
<1>6. CASE SendActive(x) /\ Send(thread[p].turn, x, thread[p].pane) /\ Pass(p, "mark")
  <2>1. /\ thread[p].at = "send" /\ UNCHANGED <<queue, ledger>>
        /\ sent' = [sent EXCEPT ![x] = @ + 1] /\ Pass(p, "mark")
    BY <1>6 DEF SendActive, At, Send
  <2>2. StepsTo(p, "mark")
    BY <1>p, <1>w, <2>1, Walks
  <2>3. Bears(p, x) /\ \A e \in Events \ {x} : p # Slack(e)
    BY <1>w, <2>1, ThreadsApart DEF Bears
  <2>4. QED
    BY <1>p, <1>w, <2>1, <2>2, <2>3, Typed
<1>7. CASE Requeue(x)
  <2>1. StepsTo(p, "rollback") /\ "rollback" \notin Early
    BY <1>7, <1>p, <1>w, Walks DEF Requeue
  <2>2. QED
    BY <1>7, <2>1, RowAdded DEF Requeue
<1>8. CASE Rollback(x) \/ RefuseRecover(x)
  <2>1. StepsTo(p, "mark")
    BY <1>8, <1>p, <1>w, Walks DEF Rollback, RefuseRecover
  <2>2. thread[p].at # "off" /\ UNCHANGED <<queue, ledger, sent>>
    BY <1>8 DEF Rollback, RefuseRecover, At
  <2>3. QED
    BY <2>1, <2>2, Settles, ListenerGoes
<1>9. CASE RecoverSession(x)
  <2>1. At(p, "recover") /\ UNCHANGED <<queue, ledger, sent>>
    BY <1>9 DEF RecoverSession
  <2>2. CASE Pass(p, "mark")
    <3>1. StepsTo(p, "mark")
      BY <1>p, <1>w, <2>2, Walks
    <3>2. QED
      BY <2>1, <3>1, Settles, ListenerGoes DEF At
  <2>3. CASE ~Pass(p, "mark")
    <3> DEFINE r == [Off EXCEPT !.at = "mark"]
               n == [Off EXCEPT !.at = "launch", !.snap = session']
    <3>1. thread' = [thread EXCEPT ![Slack(x)] = r, ![Launch(x)] = n]
      BY <1>9, <2>3 DEF RecoverSession
    <3>2. r.at \notin Early /\ thread[Slack(x)].at \in Early
      BY <2>1 DEF Early, Off, At
    <3> HIDE DEF r, n
    <3>3. QED
      BY <2>1, <3>1, <3>2, Settles, LaunchMade
  <2>4. QED
    BY <2>2, <2>3
<1>10. CASE SendActive(x) /\ SendsAgain(thread[p].turn, thread[p].pane) /\ UNCHANGED thread
  <2>1. UNCHANGED <<queue, ledger, sent>>
    BY <1>10 DEF SendActive, SendsAgain, SendFails
  <2>2. QED
    BY <1>10, <2>1, Settles, NoThreadMoves
<1>11. QED
  BY <1>1, <1>2, <1>3, <1>4, <1>5, <1>6, <1>7, <1>8, <1>9, <1>10 DEF RouteStep, SendActive

LEMMA AnswerStepFares ==
    ASSUME IInv, NEW x \in Events, AnswerStep(x)
    PROVE  \A e \in Events : Fares(e)
<1> DEFINE p == Slack(x)
<1>p. p \in Processes
  BY ProcessNames
<1>w. /\ {"answer", "answer_send"} \subseteq Early
      /\ \A where \in {"answer_send", "mark"} : where \notin Draining
      /\ "answer_save" \notin Early \cup Underway \cup Draining
  BY DEF Early, Draining, Underway
<1>1. CASE Answer(x)
  <2>1. PICK where \in {"answer_send", "mark"} : StepsTo(p, where)
    <3>1. CASE Pass(p, "mark")
      BY <1>p, <1>w, <3>1, Walks
    <3>2. CASE ~Pass(p, "mark")
      <4> DEFINE r == [Off EXCEPT !.at = "answer_send", !.turn = NextTurn, !.snap = session']
      <4>1. Become(p, r)
        BY <1>1, <3>2 DEF Answer
      <4>2. r.at = "answer_send"
        BY DEF Off
      <4> HIDE DEF r
      <4>3. StepsTo(p, "answer_send")
        BY <1>p, <1>w, <4>1, <4>2, Becomes
      <4>4. QED
        BY <4>3
    <3>3. QED
      BY <3>1, <3>2
  <2>2. thread[p].at = "answer" /\ UNCHANGED <<queue, ledger, sent>>
    BY <1>1 DEF Answer, At
  <2>3. QED
    BY <1>w, <2>1, <2>2, Settles, ListenerGoes
<1>2. CASE SendAnswer(x) /\ Send(thread[p].turn, x, Snap(p).pane) /\ Keep(p, "answer_save")
  <2>1. /\ thread[p].at = "answer_send" /\ UNCHANGED <<queue, ledger>>
        /\ sent' = [sent EXCEPT ![x] = @ + 1]
    BY <1>2 DEF SendAnswer, At, Send
  <2>2. StepsTo(p, "answer_save")
    BY <1>2, <1>p, Walks
  <2>3. Bears(p, x) /\ \A e \in Events \ {x} : p # Slack(e)
    BY <1>w, <2>1, ThreadsApart DEF Bears
  <2>4. QED
    BY <1>p, <1>w, <2>1, <2>2, <2>3, Typed
<1>3. CASE SendAnswer(x) /\ SendFails(thread[p].turn, Snap(p).pane) /\ Goto(p, "answer_undo")
  <2>1. StepsTo(p, "answer_undo")
    BY <1>3, <1>p, Walks
  <2>2. thread[p].at # "off" /\ UNCHANGED <<queue, ledger, sent>>
    BY <1>3 DEF SendAnswer, At, SendFails
  <2>3. QED
    BY <2>1, <2>2, Settles, ListenerGoes
<1>4. CASE AnswerUndo(x) \/ SaveAnswered(x)
  <2>1. StepsTo(p, "mark")
    BY <1>4, <1>p, <1>w, Walks DEF AnswerUndo, SaveAnswered
  <2>2. thread[p].at # "off" /\ UNCHANGED <<queue, ledger, sent>>
    BY <1>4 DEF AnswerUndo, SaveAnswered, At
  <2>3. QED
    BY <2>1, <2>2, Settles, ListenerGoes
<1>5. CASE SendAnswer(x)
  BY <1>2, <1>3, <1>5 DEF SendAnswer
<1>6. QED
  BY <1>1, <1>4, <1>5 DEF AnswerStep

\* The hook server.
LEMMA HookGoes ==
    ASSUME IInv, NEW t \in Turns, NEW where, Settling, UNCHANGED sent,
           StepsTo(Reply(t), where),
           \/ where \notin Early \cup Underway \cup Draining
           \/ where \in Draining /\ thread[Reply(t)].at \in Draining
    PROVE  \A e \in Events : Fares(e)
<1>1. GoesOnWithIt(Reply(t), where)
  BY DEF GoesOnWithIt, Early, Underway, Draining
<1>2. Reply(t) \in Processes /\ \A e \in Events : Reply(t) # Slack(e)
  BY ProcessNames, ThreadsApart
<1>3. QED
  BY <1>1, <1>2, Plain

LEMMA ReplyStepFares ==
    ASSUME IInv, NEW t \in DOMAIN turns, ReplyStep(t)
    PROVE  \A e \in Events : Fares(e)
<1> DEFINE p == Reply(t)
<1>p. t \in Turns /\ p \in Processes
  BY ProcessNames, TurnsFacts DEF IInv
<1>w. {"post", "record", "close", "check", "identity", "finish", "off"}
         \cap (Early \cup Underway \cup Draining) = {}
  BY DEF Early, Draining, Underway
<1>1. CASE BeginReply(t)
  <2>1. UNCHANGED <<queue, ledger, sent>>
    BY <1>1 DEF BeginReply
  <2>2. CASE Goto(p, "post")
    <3>1. StepsTo(p, "post")
      BY <1>p, <2>2, Walks
    <3>2. QED
      BY <1>p, <1>w, <2>1, <3>1, Settles, HookGoes
  <2>3. CASE UNCHANGED thread
    BY <2>1, <2>3, Settles, NoThreadMoves
  <2>4. QED
    BY <1>1, <2>2, <2>3 DEF BeginReply
<1>2. CASE PostReply(t) \/ RecordReply(t) \/ CloseAttempt(t) \/ CheckTurn(t) \/ SaveIdentity(t)
  <2>1. UNCHANGED <<queue, ledger, sent>>
    BY <1>2 DEF PostReply, RecordReply, CloseAttempt, CheckTurn, SaveIdentity
  <2>2. PICK where \in {"record", "close", "check", "identity", "finish", "off"} :
               Enter(p, where, session) \/ Goto(p, where) \/ (where = "off" /\ End(p))
    BY <1>2 DEF PostReply, RecordReply, CloseAttempt, CheckTurn, SaveIdentity
  <2>3. StepsTo(p, where)
    BY <1>p, <2>2, Walks
  <2>4. QED
    BY <1>p, <1>w, <2>1, <2>2, <2>3, Settles, HookGoes
<1>3. CASE MarkDone(t)
  <2>1. StepsTo(p, "off")
    BY <1>3, <1>p, Walks DEF MarkDone
  <2>2. Settling
    BY <1>3, Settles DEF MarkDone
  <2>3. QED
    BY <1>3, <1>p, <1>w, <2>1, <2>2, HookGoes DEF MarkDone
<1>4. QED
  BY <1>1, <1>2, <1>3 DEF ReplyStep

\* A drain that has claimed a row puts it back.
LEMMA PutBack ==
    ASSUME IInv, NEW t \in Turns, thread[Reply(t)].at \in Draining,
           EQ!MarkEventQueueRetryable(thread[Reply(t)].row), UNCHANGED sent,
           StepsTo(Reply(t), "verdict")
    PROVE  \A e \in Events : Fares(e)
<1> DEFINE p == Reply(t)
           S == {p}
<1>1. p \in Processes /\ \A n \in Processes \ S : thread'[n] = thread[n]
  BY ProcessNames DEF StepsTo
<1>2. PICK q \in DOMAIN queue, x \in Events : q = thread[p].row /\ x = queue[q].item
  <2>1. thread[p].row \in 0..Len(queue) /\ thread[p].row # 0
    BY <1>1, HandFacts DEF Holds, Draining, RowInHand, NoRow
  <2>2. thread[p].row \in DOMAIN queue
    BY <2>1, TablesFacts DEF IInv
  <2>3. QED
    BY <2>2, TablesFacts DEF IInv
<1> DEFINE v == <<"row", q>>
<1>3. /\ Introduces /\ SameItems
      /\ \A e \in Events : /\ RowsOn(e)' \subseteq RowsOn(e)
                           /\ Waiting(e)' \subseteq Waiting(e) \cup {q}
                           /\ e # x => Waiting(e)' \subseteq Waiting(e)
  BY <1>2, Retried
<1>4. \A e \in Events : ~Bears(p, e)' /\ Slack(e) \notin S
  BY ThreadsApart DEF Bears, StepsTo, Draining
<1>5. Entry(x)
  <2>1. thread'[Slack(x)] = thread[Slack(x)]
    BY <1>1, <1>2, <1>4, ProcessNames
  <2>2. QED
    BY <1>2, <1>3, <2>1 DEF Entry, Introduces
<1>6. \A e \in Events \ {x} : Spared(e, S)
  BY <1>3, <1>4 DEF Spared
<1>7. Turned(x, S, p, v)
  <2>1. p \in Ways(x)
    BY <1>1, <1>2 DEF Ways, Bears
  <2>2. \A r \in Waiting(x)' : r = q \/ (r \in Waiting(x) /\ <<"row", r>> # p)
    BY <1>1, <1>2, <1>3, ThreadsApart
  <2>3. QED
    BY <1>2, <1>4, <2>1, <2>2 DEF Turned
<1> HIDE DEF p, S, v
<1>8. QED
  BY <1>1, <1>2, <1>3, <1>5, <1>6, <1>7, GivesWay

LEMMA CompleteStepFares ==
    ASSUME IInv, NEW t \in DOMAIN turns, CompleteStep(t)
    PROVE  \A e \in Events : Fares(e)
<1> DEFINE p == Reply(t)
           q == thread[p].row
<1>p. t \in Turns /\ p \in Processes
  BY ProcessNames, TurnsFacts DEF IInv
<1>w. /\ {"rest", "verdict", "wait", "drain", "off"} \cap (Early \cup Underway \cup Draining) = {}
      /\ {"drain_busy", "drain_send", "drain_undo", "drain_retry"} = Draining
  BY DEF Early, Draining, Underway
<1>q. thread[p].at \in {"drain", "drain_busy", "drain_send", "drain_undo", "drain_retry"}
      => q \in DOMAIN queue /\ queue[q].item \in Events
  <2>1. thread[p].at \in {"drain", "drain_busy", "drain_send", "drain_undo", "drain_retry"}
        => q \in 0..Len(queue) /\ q # 0
    BY <1>p, HandFacts DEF Holds, RowInHand, NoRow
  <2>2. QED
    BY <2>1, TablesFacts DEF IInv
<1>1. CASE BeginComplete(t)
  <2>1. PICK where \in {"rest", "verdict", "wait", "off"} :
               Enter(p, where, session) \/ (where = "off" /\ End(p))
    BY <1>1 DEF BeginComplete
  <2>2. StepsTo(p, where)
    BY <1>p, <2>1, Walks
  <2>3. Settling
    BY <1>1, Settles DEF BeginComplete, Consume
  <2>4. QED
    BY <1>1, <1>p, <1>w, <2>1, <2>2, <2>3, HookGoes DEF BeginComplete
<1>2. CASE CompleteWait(t)
  <2>1. PICK where \in {"verdict", "off"} : Pass(p, where) \/ (where = "off" /\ End(p))
    BY <1>2 DEF CompleteWait
  <2>2. StepsTo(p, where)
    BY <1>p, <1>w, <2>1, Walks
  <2>3. QED
    BY <1>2, <1>p, <1>w, <2>1, <2>2, Settles, HookGoes DEF CompleteWait
<1>3. CASE CompleteTurn(t)
  <2>1. UNCHANGED <<queue, ledger, sent>>
    BY <1>3 DEF CompleteTurn
  <2>2. CASE Pass(p, "verdict") \/ End(p)
    <3>1. PICK where \in {"verdict", "off"} : Pass(p, where) \/ (where = "off" /\ End(p))
      BY <2>2
    <3>2. StepsTo(p, where)
      BY <1>p, <1>w, <3>1, Walks
    <3>3. QED
      BY <1>p, <1>w, <2>1, <3>1, <3>2, Settles, HookGoes
  <2>3. CASE ~(Pass(p, "verdict") \/ End(p))
    <3> DEFINE r == [Off EXCEPT !.at = "drain", !.row = QueueHead]
    <3>1. Become(p, r) /\ r.at = "drain"
      BY <1>3, <2>3 DEF CompleteTurn, Off
    <3> HIDE DEF r
    <3>2. StepsTo(p, "drain")
      BY <1>p, <1>w, <3>1, Becomes
    <3>3. QED
      BY <1>p, <1>w, <2>1, <3>2, Settles, HookGoes
  <2>4. QED
    BY <2>2, <2>3
<1>4. CASE DrainClaim(t)
  <2>1. CASE Pass(p, "verdict") /\ UNCHANGED <<queue, ledger>>
    <3>1. StepsTo(p, "verdict")
      BY <1>p, <1>w, <2>1, Walks
    <3>2. QED
      BY <1>4, <1>p, <1>w, <2>1, <3>1, Settles, HookGoes DEF DrainClaim
  <2>2. CASE ~(Pass(p, "verdict") /\ UNCHANGED <<queue, ledger>>)
    <3>1. PICK r, x : /\ r = thread[p].row /\ x = queue[r].item
                      /\ EQ!ClaimEventQueueHead("conversation", r, x)
      BY <1>4, <2>2 DEF DrainClaim
    <3>2. Goto(p, "drain_busy") /\ UNCHANGED sent
      BY <1>4, <2>2 DEF DrainClaim
    <3> DEFINE S == {p}
               w == <<"row", r>>
    <3>3. StepsTo(p, "drain_busy")
      BY <1>p, <3>2, Walks
    <3>4. /\ \A n \in Processes \ S : thread'[n] = thread[n]
          /\ thread'[p].at = "drain_busy" /\ thread'[p].row = r
      BY <1>w, <3>1, <3>3 DEF StepsTo
    <3>5. Settling /\ r \in DOMAIN queue /\ r \in Waiting(x) /\ r \notin Waiting(x)' /\ x \in Events
      BY <3>1, HeadClaimed
    <3>6. /\ Introduces /\ SameItems
          /\ \A e \in Events : RowsOn(e)' \subseteq RowsOn(e) /\ Waiting(e)' \subseteq Waiting(e)
      BY <3>5, SettlingWays DEF Settling
    <3>7. \A e \in Events : e # x => ~Bears(p, e)'
      BY <1>w, <3>1, <3>4, <3>5, ThreadsApart, <1>p DEF Bears, Settling
    <3>8. \A e \in Events : Slack(e) \notin S
      BY <1>p, ThreadsApart
    <3>9. Entry(x)
      <4>1. thread'[Slack(x)] = thread[Slack(x)]
        BY <3>4, <3>5, <3>8, ProcessNames
      <4>2. QED
        BY <3>5, <3>6, <4>1 DEF Entry, Introduces
    <3>10. \A e \in Events \ {x} : Spared(e, S)
      BY <3>6, <3>7, <3>8 DEF Spared
    <3>11. Turned(x, S, w, p)
      <4>1. w \in Ways(x) /\ w \notin Processes
        BY <3>5, ThreadsApart DEF Ways
      <4>2. \A m \in Waiting(x)' : m \in Waiting(x) /\ <<"row", m>> # w
        BY <3>5, <3>6
      <4>3. QED
        BY <4>1, <4>2 DEF Turned
    <3> HIDE DEF p, S, w
    <3>12. QED
      BY <3>2, <3>4, <3>5, <3>6, <3>9, <3>10, <3>11, GivesWay
  <2>3. QED
    BY <2>1, <2>2
<1>5. CASE DrainBusy(t)
  <2>1. thread[p].at = "drain_busy" /\ UNCHANGED sent
    BY <1>5 DEF DrainBusy, At
  <2>2. CASE Pass(p, "verdict") /\ EQ!MarkEventQueueRetryable(q)
    <3>1. StepsTo(p, "verdict")
      BY <1>p, <1>w, <2>2, Walks
    <3>2. QED
      BY <1>p, <1>w, <1>q, <2>1, <2>2, <3>1, PutBack
  <2>3. CASE ~(Pass(p, "verdict") /\ EQ!MarkEventQueueRetryable(q))
    <3> DEFINE r == [thread[p] EXCEPT !.at = "drain_send", !.turn = NextTurn,
                                      !.pane = session.pane]
    <3>1. Become(p, r) /\ UNCHANGED <<queue, ledger>>
      BY <1>5, <2>3 DEF DrainBusy
    <3>2. r.at = "drain_send" /\ r.row = thread[p].row
      <4>1. thread[p] \in Hand
        BY <1>p, HandFacts
      <4>2. QED
        BY <4>1 DEF Hand
    <3> HIDE DEF r
    <3>3. StepsTo(p, "drain_send")
      BY <1>p, <3>1, <3>2, Becomes
    <3>4. QED
      BY <1>p, <1>w, <2>1, <3>1, <3>3, Settles, HookGoes
  <2>4. QED
    BY <2>2, <2>3
<1>6. CASE DrainSend(t)
  <2>1. thread[p].at = "drain_send" /\ UNCHANGED <<queue, ledger>>
    BY <1>6 DEF DrainSend, At
  <2>2. CASE Send(thread[p].turn, queue[q].item, thread[p].pane) /\ Pass(p, "verdict")
    <3>1. PICK x \in Events : x = queue[q].item
      BY <1>q, <2>1
    <3>2. StepsTo(p, "verdict") /\ sent' = [sent EXCEPT ![x] = @ + 1]
      BY <1>p, <1>w, <2>2, <3>1, Walks DEF Send
    <3>3. /\ Bears(p, x) /\ \A e \in Events \ {x} : p # Slack(e)
          /\ "verdict" \notin Early \cup Underway \cup Draining
      BY <1>p, <1>w, <2>1, <3>1, ThreadsApart DEF Bears
    <3> HIDE DEF p, q
    <3>4. QED
      BY <1>p, <2>1, <3>2, <3>3, Typed
  <2>3. CASE SendFailsAndCloses(thread[p].turn, thread[p].pane) /\ Goto(p, "drain_undo")
    <3>1. StepsTo(p, "drain_undo") /\ UNCHANGED sent
      BY <1>p, <2>3, Walks DEF SendFailsAndCloses, SendFails
    <3>2. QED
      BY <1>p, <1>w, <2>1, <3>1, Settles, HookGoes
  <2>4. CASE SendsAgain(thread[p].turn, thread[p].pane) /\ UNCHANGED thread
    <3>1. UNCHANGED sent
      BY <2>4 DEF SendsAgain, SendFails
    <3>2. QED
      BY <2>1, <2>4, <3>1, Settles, NoThreadMoves
  <2>5. QED
    BY <1>6, <2>2, <2>3, <2>4 DEF DrainSend
<1>7. CASE DrainUndo(t)
  <2>1. StepsTo(p, "drain_retry") /\ thread[p].at = "drain_undo" /\ UNCHANGED <<queue, ledger, sent>>
    BY <1>7, <1>p, Walks DEF DrainUndo, At
  <2>2. QED
    BY <1>p, <1>w, <2>1, Settles, HookGoes
<1>8. CASE DrainRetry(t)
  <2>1. StepsTo(p, "verdict") /\ thread[p].at = "drain_retry" /\ UNCHANGED sent
    BY <1>8, <1>p, <1>w, Walks DEF DrainRetry, At
  <2>2. CASE EQ!MarkEventQueueRetryable(q)
    BY <1>p, <1>w, <1>q, <2>1, <2>2, PutBack
  <2>3. CASE UNCHANGED <<queue, ledger>>
    BY <1>p, <1>w, <2>1, <2>3, Settles, HookGoes
  <2>4. QED
    BY <1>8, <2>2, <2>3 DEF DrainRetry
<1>9. QED
  BY <1>1, <1>2, <1>3, <1>4, <1>5, <1>6, <1>7, <1>8 DEF CompleteStep

\* The launches.
LEMMA LaunchGoes ==
    ASSUME IInv, NEW x \in Events, NEW where, Settling, UNCHANGED sent,
           StepsTo(Launch(x), where),
           \/ where \notin Early \cup Underway \cup Draining
           \/ where \in Underway /\ thread[Launch(x)].at \in Underway
    PROVE  \A e \in Events : Fares(e)
<1>1. GoesOnWithIt(Launch(x), where)
  BY DEF GoesOnWithIt, Early, Underway, Draining
<1>2. Launch(x) \in Processes /\ \A e \in Events : Launch(x) # Slack(e)
  BY ProcessNames, ThreadsApart
<1>3. QED
  BY <1>1, <1>2, Plain

LEMMA LaunchStepFares ==
    ASSUME IInv, NEW x \in Events, LaunchStep(x)
    PROVE  \A e \in Events : Fares(e)
<1> DEFINE p == Launch(x)
<1>p. p \in Processes /\ thread[p] \in Hand
  BY ProcessNames, HandFacts
<1>w. /\ {"timeout", "fail", "fail_load", "fail_error", "suspend_load", "fail_suspend", "fail_event",
          "fail_row", "off"} \cap (Early \cup Underway \cup Draining) = {}
      /\ {"start", "launch", "window", "load", "prepare", "allocate", "pane", "ready", "dispatch",
          "first"} = Underway
      /\ Underway \cap Draining = {}
  BY DEF Early, Draining, Underway
<1>1. CASE StartWorker(x) \/ BeginLaunch(x) \/ PrepareWindow(x) \/ SaveStarting(x)
           \/ WaitForReady(x)
  <2>1. UNCHANGED <<queue, ledger, sent>> /\ thread[p].at \in Underway
    BY <1>1, <1>w DEF At, StartWorker, BeginLaunch, PrepareWindow, SaveStarting, WaitForReady
  <2>2. PICK where \in {"off", "launch", "window", "fail", "load", "allocate", "ready", "dispatch",
                        "timeout"} :
               Goto(p, where) \/ (where = "off" /\ End(p))
    BY <1>1 DEF StartWorker, BeginLaunch, PrepareWindow, SaveStarting, WaitForReady
  <2>3. StepsTo(p, where)
    BY <1>p, <2>2, Walks
  <2>4. QED
    BY <1>w, <2>1, <2>3, Settles, LaunchGoes
<1>2. CASE LoadForUpdate(x)
  <2>1. UNCHANGED <<queue, ledger, sent>>
    BY <1>2 DEF LoadForUpdate
  <2>2. PICK where : /\ Enter(p, where, session)
                     /\ \/ thread[p].at = "load" /\ where = "prepare"
                        \/ where \in {"fail_error", "fail_suspend"}
    BY <1>2 DEF LoadForUpdate
  <2>3. StepsTo(p, where)
    BY <1>p, <2>2, Walks
  <2>4. QED
    BY <1>w, <2>1, <2>2, <2>3, Settles, LaunchGoes
<1>3. CASE AllocatePane(x)
  <2>1. UNCHANGED <<queue, ledger, sent>> /\ thread[p].at \in Underway
    BY <1>3, <1>w DEF At, AllocatePane
  <2>2. PICK where \in {"pane", "fail"} : StepsTo(p, where)
    <3>1. CASE Goto(p, "fail")
      BY <1>p, <3>1, Walks
    <3>2. CASE ~Goto(p, "fail")
      <4> DEFINE r == [thread[p] EXCEPT !.at = "pane", !.snap = session, !.pane = NewPane]
      <4>1. Become(p, r) /\ r.at = "pane"
        BY <1>3, <1>p, <3>2 DEF AllocatePane, Hand
      <4> HIDE DEF r
      <4>2. StepsTo(p, "pane")
        BY <1>p, <1>w, <4>1, Becomes
      <4>3. QED
        BY <4>2
    <3>3. QED
      BY <3>1, <3>2
  <2>3. QED
    BY <1>w, <2>1, <2>2, Settles, LaunchGoes
<1>s. CASE SavePane(x)
  <2>1. UNCHANGED <<queue, ledger, sent>> /\ thread[p].at \in Underway
    BY <1>s, <1>w DEF At, SavePane
  <2>2. PICK where \in {"ready", "fail"} : StepsTo(p, where)
    <3>1. CASE Goto(p, "ready")
      BY <1>p, <3>1, Walks
    <3>2. CASE LosePane(x)
      <4> DEFINE r == [thread[p] EXCEPT !.at = "fail", !.snap = Absent, !.pane = NoPane]
      <4>1. Become(p, r) /\ r.at = "fail"
        BY <1>p, <3>2 DEF LosePane, Hand
      <4> HIDE DEF r
      <4>2. StepsTo(p, "fail")
        BY <1>p, <1>w, <4>1, Becomes
      <4>3. QED
        BY <4>2
    <3>3. QED
      BY <1>s, <3>1, <3>2 DEF SavePane
  <2>3. QED
    BY <1>w, <2>1, <2>2, Settles, LaunchGoes
<1>4. CASE DispatchFirst(x)
  <2>1. UNCHANGED <<queue, ledger, sent>> /\ thread[p].at \in Underway
    BY <1>4, <1>w DEF At, DispatchFirst
  <2>2. PICK where \in {"first", "fail"} : StepsTo(p, where)
    <3>1. CASE Goto(p, "fail")
      BY <1>p, <3>1, Walks
    <3>2. CASE ~Goto(p, "fail")
      <4> DEFINE r == [thread[p] EXCEPT !.at = "first", !.turn = NextTurn]
      <4>1. Become(p, r) /\ r.at = "first"
        BY <1>4, <1>p, <3>2 DEF DispatchFirst, Hand
      <4> HIDE DEF r
      <4>2. StepsTo(p, "first")
        BY <1>p, <1>w, <4>1, Becomes
      <4>3. QED
        BY <4>2
    <3>3. QED
      BY <3>1, <3>2
  <2>3. QED
    BY <1>w, <2>1, <2>2, Settles, LaunchGoes
<1>5. CASE SendFirst(x)
  <2>1. UNCHANGED <<queue, ledger>> /\ thread[p].at = "first"
    BY <1>5 DEF At, SendFirst
  <2>2. CASE Send(thread[p].turn, x, thread[p].pane) /\ End(p)
    <3>1. StepsTo(p, "off") /\ sent' = [sent EXCEPT ![x] = @ + 1]
      BY <1>p, <2>2, Walks DEF Send
    <3>2. Bears(p, x) /\ \A e \in Events \ {x} : p # Slack(e)
      BY <1>w, <2>1, ThreadsApart DEF Bears
    <3>3. QED
      BY <1>p, <1>w, <2>1, <3>1, <3>2, Typed
  <2>3. CASE SendFails(thread[p].turn, thread[p].pane) /\ Goto(p, "fail")
    <3>1. StepsTo(p, "fail") /\ UNCHANGED sent
      BY <1>p, <2>3, Walks DEF SendFails
    <3>2. QED
      BY <1>w, <2>1, <3>1, Settles, LaunchGoes
  <2>4. QED
    BY <1>5, <2>2, <2>3 DEF SendFirst
<1>6. CASE BeginFail(x)
  <2>1. UNCHANGED <<queue, ledger, sent>>
    BY <1>6 DEF BeginFail
  <2>2. PICK where \in {"off", "fail_load", "suspend_load"} : StepsTo(p, where)
    <3>1. CASE End(p)
      BY <1>p, <3>1, Walks
    <3>2. CASE ~End(p)
      <4> DEFINE left == IF Alive(thread[p].pane) THEN NoPane ELSE thread[p].pane
                 r == [thread[p] EXCEPT
                         !.at = IF At(p, "fail") THEN "fail_load" ELSE "suspend_load",
                         !.pane = left]
      <4>1. Become(p, r)
        BY <1>6, <3>2 DEF BeginFail
      <4>2. PICK where \in {"fail_load", "suspend_load"} : r.at = where
        BY <1>p DEF Hand
      <4> HIDE DEF r
      <4>3. StepsTo(p, where)
        BY <1>p, <1>w, <4>1, <4>2, Becomes
      <4>4. QED
        BY <4>3
    <3>3. QED
      BY <3>1, <3>2
  <2>3. QED
    BY <1>w, <2>1, <2>2, Settles, LaunchGoes
<1>7. CASE SaveFailed(x)
  <2>1. StepsTo(p, "fail_event")
    BY <1>7, <1>p, Walks DEF SaveFailed
  <2>2. QED
    BY <1>7, <1>w, <2>1, Settles, LaunchGoes DEF SaveFailed
<1>8. CASE FailLastEvent(x)
  <2>1. StepsTo(p, "fail_row")
    BY <1>8, <1>p, Walks DEF FailLastEvent
  <2>2. Settling
    BY <1>8, Settles DEF FailLastEvent
  <2>3. QED
    BY <1>8, <1>w, <2>1, <2>2, LaunchGoes DEF FailLastEvent
<1>9. CASE FailRow(x)
  <2>1. StepsTo(p, "off")
    BY <1>9, <1>p, Walks DEF FailRow
  <2>2. Settling
    BY <1>9, Settles DEF FailRow
  <2>3. QED
    BY <1>9, <1>w, <2>1, <2>2, LaunchGoes DEF FailRow
<1>10. QED
  BY <1>1, <1>2, <1>3, <1>s, <1>4, <1>5, <1>6, <1>7, <1>8, <1>9 DEF LaunchStep

\* Commands, cleanup, shutdown and the detector have no text; only the row of the
\* shutdown comes back.
Textless == {Control(k) : k \in Controls} \cup {Detector}

Resting ==
    {"off", "cancel", "cancel_load", "cancel_force", "cancelled", "kill", "orphaned", "timeout",
     "suspend", "shutdown", "put_back", "closed", "clear_pane", "fail_row", "exit", "detected",
     "notify"}

Rests(p) == \E where \in Resting : StepsTo(p, where)

LEMMA TextlessStep ==
    ASSUME IInv, Settling, UNCHANGED sent, NEW p \in Textless, Rests(p)
    PROVE  \A e \in Events : Fares(e)
<1>1. p \in Processes /\ \A e \in Events : p # Slack(e)
  BY ProcessNames, ThreadsApart DEF Textless
<1>2. PICK where \in Resting : StepsTo(p, where)
  BY DEF Rests
<1>3. GoesOnWithIt(p, where)
  BY DEF GoesOnWithIt, Resting, Early, Underway, Draining
<1>4. QED
  BY <1>1, <1>2, <1>3, Plain

\* What the operators of the model come to for such a thread.
LEMMA ComesToRest ==
    ASSUME IInv, NEW p \in Textless
    PROVE  /\ \A where \in Resting : /\ \A s : Enter(p, where, s) => Rests(p)
                                     /\ Goto(p, where) => Rests(p)
                                     /\ Keep(p, where) => Rests(p)
                                     /\ Pass(p, where) => Rests(p)
                                     /\ \A from, row : Moves(p, from, row, where) => Rests(p)
           /\ End(p) => Rests(p)
<1>1. p \in Processes /\ \A where \in Resting : where \notin Draining
  BY ProcessNames DEF Textless, Resting, Draining
<1>2. ASSUME NEW where \in Resting, NEW s, Enter(p, where, s)
      PROVE  Rests(p)
  BY <1>1, <1>2, Walks DEF Rests
<1>3. ASSUME NEW where \in Resting, Goto(p, where) \/ Keep(p, where)
      PROVE  Rests(p)
  BY <1>1, <1>3, Walks DEF Rests
<1>4. ASSUME NEW where \in Resting, Pass(p, where)
      PROVE  Rests(p)
  BY <1>1, <1>4, Walks DEF Rests
<1>5. ASSUME NEW where \in Resting, NEW from, NEW row, Moves(p, from, row, where)
      PROVE  Rests(p)
  <2> DEFINE r == [Off EXCEPT !.at = where, !.pane = session.pane, !.turn = thread[p].turn,
                   !.row = IF where \in {"fail_row", "put_back"} THEN Snap(p).row ELSE NoRow]
  <2>1. Become(p, r) /\ r.at = where
    BY <1>5 DEF Moves, Off
  <2> HIDE DEF r
  <2>2. StepsTo(p, where)
    BY <1>1, <2>1, Becomes
  <2>3. QED
    BY <2>2 DEF Rests
<1>6. CASE End(p)
  <2>1. StepsTo(p, "off")
    BY <1>1, <1>6, Walks
  <2>2. QED
    BY <2>1 DEF Rests, Resting
<1>7. QED
  BY <1>2, <1>3, <1>4, <1>5, <1>6

LEMMA CommandFares ==
    ASSUME IInv, Command PROVE \A e \in Events : Fares(e)
<1>1. UNCHANGED <<queue, ledger, sent>>
  BY DEF Command, BeginCancel, BeginKill, BeginCleanup, BeginShutdown, Begin
<1>2. PICK k \in Controls : \E where \in Resting : Begin(k, where)
  BY DEF Command, BeginCancel, BeginKill, BeginCleanup, BeginShutdown, Controls, Resting
<1>3. PICK where \in Resting : Begin(k, where)
  BY <1>2
<1> DEFINE p == Control(k)
           r == [Off EXCEPT !.at = where, !.snap = session, !.turn = session.turn]
<1>4. Become(p, r) /\ r.at = where
  BY <1>3 DEF Begin, Off
<1>5. p \in Textless /\ p \in Processes /\ where \notin Draining
  BY ProcessNames DEF Textless, Resting, Draining
<1> HIDE DEF p, r
<1>6. Rests(p)
  BY <1>4, <1>5, Becomes DEF Rests
<1>7. QED
  BY <1>1, <1>5, <1>6, Settles, TextlessStep

LEMMA DetectorFares ==
    ASSUME IInv, Detect \/ DetectorStep PROVE \A e \in Events : Fares(e)
<1>1. UNCHANGED <<queue, ledger, sent>>
  BY DEF Detect, DetectorStep, EnterWaiting, NotifyQuestion
<1>2. Detector \in Textless
  BY DEF Textless
<1>3. {"detected", "notify"} \subseteq Resting
  BY DEF Resting
<1>4. Rests(Detector)
  BY <1>2, <1>3, ComesToRest DEF Detect, DetectorStep, EnterWaiting, NotifyQuestion
<1>5. QED
  BY <1>1, <1>2, <1>4, Settles, TextlessStep

LEMMA ControlStepFares ==
    ASSUME IInv, ControlStep, ~ShutdownPutBack PROVE \A e \in Events : Fares(e)
<1>k. \A k \in Controls : Control(k) \in Textless
  BY DEF Textless
<1>c. {"cancel", "kill", "cleanup", "shutdown"} \subseteq Controls
  BY DEF Controls
<1>r. {"cancel_load", "cancel_force", "cancelled", "closed", "fail_row", "suspend", "put_back",
       "exit", "clear_pane"} \subseteq Resting
  BY DEF Resting
<1>1. CASE CancelMove \/ CancelLoad \/ CancelForce
  <2>1. Rests(Control("cancel"))
    BY <1>1, <1>k, <1>c, <1>r, ComesToRest DEF CancelMove, CancelLoad, CancelForce
  <2>2. UNCHANGED <<queue, ledger, sent>>
    BY <1>1 DEF CancelMove, CancelLoad, CancelForce
  <2>3. QED
    BY <1>k, <1>c, <2>1, <2>2, Settles, TextlessStep
<1>2. CASE KillMove
  <2>1. Rests(Control("kill"))
    BY <1>2, <1>k, <1>c, <1>r, ComesToRest DEF KillMove
  <2>2. UNCHANGED <<queue, ledger, sent>>
    BY <1>2 DEF KillMove
  <2>3. QED
    BY <1>k, <1>c, <2>1, <2>2, Settles, TextlessStep
<1>3. CASE OrphanedMove \/ TimeoutMove \/ SuspendMove
  <2>1. Rests(Control("cleanup"))
    BY <1>3, <1>k, <1>c, <1>r, ComesToRest DEF OrphanedMove, TimeoutMove, SuspendMove, GivesUp
  <2>2. UNCHANGED <<queue, ledger, sent>>
    BY <1>3 DEF OrphanedMove, TimeoutMove, SuspendMove
  <2>3. QED
    BY <1>k, <1>c, <2>1, <2>2, Settles, TextlessStep
<1>4. CASE TimeoutFailRow
  <2>1. Rests(Control("cleanup"))
    <3> DEFINE p == Control("cleanup")
               r == [thread[p] EXCEPT !.at = "closed", !.row = NoRow]
    <3>1. p \in Textless /\ p \in Processes
      BY <1>k, <1>c, ProcessNames
    <3>2. Become(p, r) /\ r.at = "closed"
      BY <1>4, <3>1, HandFacts DEF TimeoutFailRow, Hand
    <3> HIDE DEF r
    <3>3. StepsTo(p, "closed")
      BY <3>1, <3>2, Becomes DEF Draining
    <3>4. QED
      BY <3>3, <1>r DEF Rests
  <2>2. Settling /\ UNCHANGED sent
    BY <1>4, Settles DEF TimeoutFailRow
  <2>3. QED
    BY <1>k, <1>c, <2>1, <2>2, TextlessStep
<1>5. CASE ShutdownMove
  <2>1. Rests(Control("shutdown"))
    BY <1>5, <1>k, <1>c, <1>r, ComesToRest DEF ShutdownMove, GivesUp
  <2>2. UNCHANGED <<queue, ledger, sent>>
    BY <1>5 DEF ShutdownMove
  <2>3. QED
    BY <1>k, <1>c, <2>1, <2>2, Settles, TextlessStep
<1>6. ASSUME NEW k \in Controls, Finalize(k) \/ ClearPane(k)
      PROVE  \A e \in Events : Fares(e)
  <2>1. Rests(Control(k))
    BY <1>6, <1>k, <1>r, ComesToRest DEF Finalize, ClearPane, Ended
  <2>2. UNCHANGED <<queue, ledger, sent>>
    BY <1>6 DEF Finalize, ClearPane
  <2>3. QED
    BY <1>k, <2>1, <2>2, Settles, TextlessStep
<1>7. QED
  BY <1>1, <1>2, <1>3, <1>4, <1>5, <1>6 DEF ControlStep

\* The boot loop, and the process that ends.
LEMMA LaunchReplayed ==
    ASSUME IInv, NEW q, NEW x, x = queue[q].item,
           EQ!ClaimEventQueueHead("conversation", q, x), UNCHANGED sent,
           NEW r, Become(Launch(x), r), r.at \in Underway
    PROVE  \A e \in Events : Fares(e)
<1> DEFINE p == Launch(x)
           S == {p}
           w == <<"row", q>>
<1>1. Settling /\ q \in DOMAIN queue /\ q \in Waiting(x) /\ q \notin Waiting(x)' /\ x \in Events
  BY HeadClaimed
<1>2. /\ Introduces /\ SameItems
      /\ \A e \in Events : RowsOn(e)' \subseteq RowsOn(e) /\ Waiting(e)' \subseteq Waiting(e)
  BY <1>1, SettlingWays DEF Settling
<1>3. p \in Processes /\ \A n \in Processes \ S : thread'[n] = thread[n]
  BY <1>1, ProcessNames DEF Become, IInv, ThreadsOK
<1>4. \A e \in Events : Slack(e) \notin S /\ (e # x => ~Bears(p, e)')
  BY <1>1, ThreadsApart DEF Bears
<1>5. Entry(x)
  <2>1. thread'[Slack(x)] = thread[Slack(x)]
    BY <1>1, <1>3, <1>4, ProcessNames
  <2>2. QED
    BY <1>1, <1>2, <2>1 DEF Entry, Introduces
<1>6. \A e \in Events \ {x} : Spared(e, S)
  BY <1>2, <1>4 DEF Spared
<1>7. Turned(x, S, w, p)
  <2>1. w \in Ways(x) /\ w \notin Processes
    BY <1>1, ThreadsApart DEF Ways
  <2>2. \A m \in Waiting(x)' : m \in Waiting(x) /\ <<"row", m>> # w
    BY <1>1, <1>2
  <2>3. QED
    BY <2>1, <2>2 DEF Turned
<1> HIDE DEF p, S, w
<1>8. QED
  BY <1>1, <1>2, <1>3, <1>5, <1>6, <1>7, GivesWay

LEMMA ReplayFares ==
    ASSUME IInv, Replay PROVE \A e \in Events : Fares(e)
<1>1. CASE ReplayCreating
  <2>1. PICK q, x : /\ q = QueueHead /\ x = queue[q].item
                    /\ EQ!ClaimEventQueueHead("conversation", q, x)
    BY <1>1 DEF ReplayCreating
  <2> DEFINE r == [Off EXCEPT !.at = "start", !.snap = session, !.row = QueueHead]
  <2>2. Become(Launch(x), r) /\ UNCHANGED sent
    BY <1>1, <2>1 DEF ReplayCreating, Become
  <2>3. r.at \in Underway
    BY DEF Off, Underway
  <2> HIDE DEF r
  <2>4. QED
    BY <2>1, <2>2, <2>3, LaunchReplayed
<1>2. CASE ReplayShutdown
  <2>1. PICK q, x : /\ q = QueueHead /\ x = queue[q].item
                    /\ EQ!ClaimEventQueueHead("conversation", q, x)
    BY <1>2 DEF ReplayShutdown
  <2> DEFINE r == [Off EXCEPT !.at = "start", !.snap = session', !.row = QueueHead]
  <2>2. Become(Launch(x), r) /\ UNCHANGED sent
    BY <1>2, <2>1 DEF ReplayShutdown, Become
  <2>3. r.at \in Underway
    BY DEF Off, Underway
  <2> HIDE DEF r
  <2>4. QED
    BY <2>1, <2>2, <2>3, LaunchReplayed
<1>3. CASE ReplayFail
  <2>1. Settling
    BY <1>3, Settles DEF ReplayFail
  <2>2. QED
    BY <1>3, <2>1, NoThreadMoves DEF ReplayFail
<1>4. CASE ReplayDefer
  BY <1>4, Settles, NoThreadMoves DEF ReplayDefer
<1>5. QED
  BY <1>1, <1>2, <1>3, <1>4 DEF Replay

LEMMA PutBackIntroduces ==
    ASSUME IInv, ShutdownPutBack PROVE \A e \in Events : Entry(e)
<1> DEFINE p == Control("shutdown")
<1>1. p \in Processes /\ p \in Textless
  BY ProcessNames DEF Textless, Controls
<1>2. thread[p].row \in DOMAIN queue
  <2>1. thread[p].row \in 0..Len(queue) /\ thread[p].row # 0
    BY <1>1, HandFacts DEF ShutdownPutBack, At, Holds, RowInHand, NoRow
  <2>2. QED
    BY <2>1, TablesFacts DEF IInv
<1>3. /\ Introduces
      /\ \A e \in Events : RowsOn(e)' \subseteq RowsOn(e)
  <2>1. CASE EQ!MarkEventQueueRetryable(thread[p].row)
    BY <1>2, <2>1, Retried
  <2>2. CASE UNCHANGED <<queue, ledger>>
    BY <2>2 DEF Introduces, RowsOn
  <2>3. QED
    BY <2>1, <2>2 DEF ShutdownPutBack
<1>4. \A e \in Events : thread'[Slack(e)] = thread[Slack(e)]
  BY <1>1, ProcessNames, ThreadsApart DEF Textless, Controls, ShutdownPutBack, Become, IInv,
      ThreadsOK
<1>5. QED
  BY <1>3, <1>4 DEF Entry, Introduces

\* Every step but the end of the process.
LEMMA StepFares ==
    ASSUME IInv, \A e \in Events : Introduced(e), [Next]_vars, ~Crash, ~Exit
    PROVE  \A e \in Events : Entry(e) /\ (ShutdownPutBack \/ (OneWay(e) => Fate(e)))
<1>1. ASSUME NEW x \in Events, Receive(x) \/ RefuseCreate(x) \/ RefuseRecover(x)
      PROVE  \A e \in Events : Fares(e)
  BY <1>1, ReceiveFares, SlackStepFares, RouteStepFares
<1>2. ASSUME Command \/ Detect PROVE \A e \in Events : Fares(e)
  BY <1>2, CommandFares, DetectorFares
<1>3. ASSUME WorkerExits PROVE \A e \in Events : Fares(e)
  BY <1>3, Settles, NoThreadMoves DEF WorkerExits
<1>4. ASSUME NEW x \in Events, Listener(x) \/ LaunchStep(x) PROVE \A e \in Events : Fares(e)
  BY <1>4, SlackStepFares, RouteStepFares, AnswerStepFares, LaunchStepFares DEF Listener
<1>5. ASSUME NEW t \in DOMAIN turns, HookServer(t) PROVE \A e \in Events : Fares(e)
  BY <1>5, ReplyStepFares, CompleteStepFares DEF HookServer
<1>6. ASSUME DetectorStep \/ Replay PROVE \A e \in Events : Fares(e)
  BY <1>6, DetectorFares, ReplayFares
<1>7. ASSUME ControlStep, ~ShutdownPutBack PROVE \A e \in Events : Fares(e)
  BY <1>7, ControlStepFares
<1>8. ASSUME UNCHANGED vars PROVE \A e \in Events : Fares(e)
  BY <1>8, Settles, NoThreadMoves DEF vars
<1>9. ASSUME \A e \in Events : Fares(e)
      PROVE  \A e \in Events : Entry(e) /\ (OneWay(e) => Fate(e))
  BY <1>9 DEF Fares
<1>10. QED
  BY <1>1, <1>2, <1>3, <1>4, <1>5, <1>6, <1>7, <1>8, <1>9, PutBackIntroduces
     DEF Next, Outside, ControlStep

\* The shutdown goes on until the process ends.
LEMMA ShutdownGoesOn ==
    ASSUME IInv, [Next]_vars, ~Crash, ~Exit, ShuttingDown
    PROVE  ShuttingDown'
<1> DEFINE s == Control("shutdown")
<1>1. /\ s \in Processes /\ thread[s].at # "off"
      /\ \A e \in Events : Slack(e) # s /\ Launch(e) # s
      /\ \A t \in Turns : Reply(t) # s
      /\ Detector # s /\ \A k \in Controls : Control(k) = s => k = "shutdown"
  <2>1. "shutdown" \in Controls
    BY DEF Controls
  <2>2. \A k \in Controls : Control(k) = s => k = "shutdown"
    BY DEF Control
  <2>3. Detector # s
    BY DEF Detector, Control
  <2>4. QED
    BY <2>1, <2>2, <2>3, ProcessNames, ThreadsApart DEF ShuttingDown, At
<1>2. SUFFICES thread'[s].at # "off"
  BY DEF ShuttingDown, At
<1>3. ASSUME NEW p, p # s, NEW r, Become(p, r)
      PROVE  thread'[s] = thread[s]
  BY <1>1, <1>3 DEF Become, IInv, ThreadsOK
<1>4. ASSUME NEW p, p # s,
             \/ \E where, snap : Enter(p, where, snap)
             \/ \E where : Goto(p, where) \/ Keep(p, where) \/ Pass(p, where)
             \/ End(p)
      PROVE  thread'[s] = thread[s]
  <2>1. \E r : Become(p, r)
    BY <1>4, Zenon DEF Enter, Goto, Keep, Pass, End
  <2>2. QED
    BY <1>3, <1>4, <2>1
<1>5. ASSUME NEW where, where # "off", NEW r, r.at = where, Become(s, r)
      PROVE  thread'[s].at # "off"
  BY <1>1, <1>5 DEF Become, IInv, ThreadsOK
<1> HIDE DEF s
<1>6. ASSUME NEW x \in Events,
             Receive(x) \/ RefuseCreate(x) \/ RefuseRecover(x) \/ Listener(x)
      PROVE  thread'[s] = thread[s]
  <2>1. CASE \E r, n : thread' = [thread EXCEPT ![Slack(x)] = r, ![Launch(x)] = n]
    BY <1>1, <2>1 DEF IInv, ThreadsOK
  <2>2. CASE SlackStep(x) \/ Receive(x) \/ RefuseCreate(x) \/ RefuseRecover(x)
    BY <1>1, <1>4, <2>1, <2>2 DEF SlackStep, Receive, RefuseCreate, RefuseRecover, UpdateCursor,
       CreateSession, MarkRefused, MarkQueued
  <2>3. CASE RouteStep(x)
    BY <1>1, <1>3, <1>4, <2>1, <2>3 DEF RouteStep, Route, RouteQueue, RouteActive, RouteRace,
        SendActive,
       Requeue, Rollback, RecoverSession
  <2>4. CASE AnswerStep(x)
    BY <1>1, <1>3, <1>4, <2>4 DEF AnswerStep, Answer, SendAnswer, AnswerUndo, SaveAnswered
  <2>5. QED
    BY <1>6, <2>2, <2>3, <2>4 DEF Listener
<1>7. ASSUME NEW x \in Events, LaunchStep(x)
      PROVE  thread'[s] = thread[s]
  BY <1>1, <1>3, <1>4, <1>7 DEF LaunchStep, StartWorker, BeginLaunch, PrepareWindow, LoadForUpdate,
     SaveStarting, AllocatePane, SavePane, LosePane, WaitForReady, DispatchFirst, SendFirst,
     BeginFail, SaveFailed, FailLastEvent, FailRow
<1>8. ASSUME NEW t \in DOMAIN turns, HookServer(t)
      PROVE  thread'[s] = thread[s]
  <2>1. t \in Turns
    BY TurnsFacts DEF IInv
  <2>2. CASE ReplyStep(t)
    BY <1>1, <1>4, <2>1, <2>2 DEF ReplyStep, BeginReply, PostReply, RecordReply, CloseAttempt,
        CheckTurn,
       SaveIdentity, MarkDone
  <2>3. CASE CompleteStep(t)
    BY <1>1, <1>3, <1>4, <2>1, <2>3 DEF CompleteStep, BeginComplete, CompleteWait, CompleteTurn,
       DrainClaim, DrainBusy, DrainSend, DrainUndo, DrainRetry
  <2>4. QED
    BY <1>8, <2>2, <2>3 DEF HookServer
<1>9. CASE DetectorStep \/ Detect
  BY <1>1, <1>4, <1>9 DEF DetectorStep, Detect, EnterWaiting, NotifyQuestion
<1>10. CASE Command
  <2>1. PICK k \in Controls : \E where \in {"cancel", "kill", "orphaned", "timeout", "shutdown"} :
                                 Begin(k, where)
    BY <1>10 DEF Command, BeginCancel, BeginKill, BeginCleanup, BeginShutdown, Controls
  <2>2. Control(k) # s
    BY <1>1, <2>1 DEF Begin, At
  <2>3. QED
    BY <1>1, <1>3, <2>1, <2>2 DEF Begin
<1>11. CASE CancelMove \/ CancelLoad \/ CancelForce \/ KillMove \/ OrphanedMove \/ TimeoutMove
            \/ TimeoutFailRow \/ SuspendMove
  <2>1. Control("cancel") # s /\ Control("kill") # s /\ Control("cleanup") # s
    BY <1>1 DEF Controls
  <2>2. QED
    BY <1>1, <1>3, <1>4, <1>11, <2>1 DEF CancelMove, CancelLoad, CancelForce, KillMove,
        OrphanedMove,
       TimeoutMove, TimeoutFailRow, SuspendMove, GivesUp, Moves
<1>12. CASE ShutdownMove \/ ShutdownPutBack
  <2>1. PICK where \in {"put_back", "closed", "exit"} : \E r : r.at = where /\ Become(s, r)
    <3>1. CASE Pass(s, "exit")
      BY <3>1 DEF Pass, Off
    <3>2. CASE ShutdownPutBack
      BY <1>1, <3>2, HandFacts DEF ShutdownPutBack, s, Hand
    <3>3. CASE ~Pass(s, "exit") /\ ShutdownMove
      BY <3>3 DEF ShutdownMove, GivesUp, Moves, Off, s
    <3>4. QED
      BY <1>12, <3>1, <3>2, <3>3
  <2>2. QED
    BY <1>5, <2>1
<1>13. ASSUME NEW k \in Controls, Finalize(k) \/ ClearPane(k)
       PROVE  thread'[s].at # "off"
  <2>1. CASE Control(k) # s
    BY <1>1, <1>4, <1>13, <2>1 DEF Finalize, ClearPane, Ended
  <2>2. CASE Control(k) = s
    <3>1. Pass(s, "exit") \/ Enter(s, "clear_pane", session)
      BY <1>1, <1>13, <2>2 DEF Finalize, ClearPane, Ended
    <3>2. \E where \in {"exit", "clear_pane"} : \E r : r.at = where /\ Become(s, r)
      <4>1. CASE Pass(s, "exit")
        BY <4>1 DEF Pass, Off
      <4>2. CASE Enter(s, "clear_pane", session)
        BY <1>1, <4>2, HandFacts DEF Enter, Hand
      <4>3. QED
        BY <3>1, <4>1, <4>2
    <3>3. QED
      BY <1>5, <3>2
  <2>3. QED
    BY <2>1, <2>2
<1>14. CASE WorkerExits \/ ReplayFail \/ ReplayDefer \/ UNCHANGED vars
  BY <1>1, <1>14 DEF WorkerExits, ReplayFail, ReplayDefer, vars
<1>15. CASE ReplayCreating \/ ReplayShutdown
  <2>1. queue[QueueHead].item \in Events
    BY <1>15, HeadFacts DEF ReplayCreating, ReplayShutdown, IInv
  <2>2. \E r : Become(Launch(queue[QueueHead].item), r)
    BY <1>15 DEF ReplayCreating, ReplayShutdown, Become
  <2>3. QED
    BY <1>1, <1>3, <2>1, <2>2
<1>16. QED
  BY <1>1, <1>6, <1>7, <1>8, <1>9, <1>10, <1>11, <1>12, <1>13, <1>14, <1>15
     DEF Next, Outside, ControlStep, Replay

\* The process starts anew: the threads and what they had are gone, and of the rows
\* that can be claimed there is one for an event.
LEMMA RebootTypedOnce ==
    ASSUME IInv, EQ!OneRowPerEvent, \A e \in Events : Introduced(e), Reboot
    PROVE  TypedOnce'
<1> SUFFICES ASSUME NEW e \in Events
             PROVE  Introduced(e)' /\ OneWay(e)'
  BY DEF TypedOnce
<1>1. /\ Introduces
      /\ DOMAIN queue' = DOMAIN queue
      /\ \A q \in DOMAIN queue : queue'[q].item = queue[q].item
  BY RowsSet, MarkIntroduces
     DEF Reboot, EQ!ResetDispatchingEventQueueLeases, EQ!ResetLeases
<1>2. \A p \in Processes : thread'[p].at = "off"
  BY DEF Reboot, Off
<1>3. RowsOn(e)' = RowsOn(e) /\ Waiting(e)' \subseteq RowsOn(e)
  BY <1>1 DEF RowsOn, Waiting
<1>4. Introduced(e)'
  BY <1>1, <1>2, <1>3, ProcessNames DEF Introduced, Introduces, At
<1>5. Ways(e)' = {<<"row", q>> : q \in Waiting(e)'}
  BY <1>2 DEF Ways, Bears, Early, Underway, Draining
<1>6. sent'[e] = 0
  BY DEF Reboot
<1>7. \A q, r \in RowsOn(e) : q = r
  BY DEF RowsOn, EQ!OneRowPerEvent
<1>8. ledger'[e] = "absent" => Waiting(e)' = {}
  BY <1>1, <1>3 DEF Introduced, Introduces
<1>9. thread'[Slack(e)].at \notin Early
  BY <1>2, ProcessNames DEF Early
<1>10. \A v, w \in Ways(e)' : v = w
  BY <1>3, <1>5, <1>7
<1>11. QED
  BY <1>4, <1>5, <1>6, <1>8, <1>9, <1>10 DEF OneWay

LEMMA TypedOnceStep ==
    ASSUME IInv, EQ!OneRowPerEvent, TypedOnce, [Next]_vars
    PROVE  TypedOnce'
<1>1. CASE Crash \/ Exit
  BY <1>1, RebootTypedOnce DEF TypedOnce, Crash, Exit
<1>2. CASE ~Crash /\ ~Exit
  <2>1. \A e \in Events : Entry(e) /\ (ShutdownPutBack \/ (OneWay(e) => Fate(e)))
    BY <1>2, StepFares DEF TypedOnce
  <2>2. \A e \in Events : Introduced(e)'
    BY <2>1, EntryDecides DEF TypedOnce
  <2>3. CASE ShuttingDown
    BY <1>2, <2>2, <2>3, ShutdownGoesOn DEF TypedOnce
  <2>4. CASE ~ShuttingDown
    <3>1. ~ShutdownPutBack
      BY <2>4 DEF ShuttingDown, ShutdownPutBack, At
    <3>2. \A e \in Events : OneWay(e)'
      BY <2>1, <2>4, <3>1, FateDecides DEF TypedOnce
    <3>3. QED
      BY <2>2, <3>2 DEF TypedOnce
  <2>5. QED
    BY <2>3, <2>4
<1>3. QED
  BY <1>1, <1>2

LEMMA TypedOnceInit == Init => TypedOnce
<1> SUFFICES ASSUME Init, NEW e \in Events
             PROVE  Introduced(e) /\ OneWay(e)
  BY DEF TypedOnce
<1>1. queue = <<>> /\ sent[e] = 0 /\ \A p \in Processes : thread[p].at = "off"
  BY DEF Init, EQ!Init, Off
<1>2. RowsOn(e) = {} /\ Waiting(e) = {}
  BY <1>1 DEF RowsOn, Waiting
<1>3. Ways(e) = {}
  BY <1>1, <1>2 DEF Ways, Bears, Early, Underway, Draining
<1>4. QED
  BY <1>1, <1>2, <1>3, ProcessNames DEF OneWay, Introduced, At, Early

LEMMA TypesOnce == Spec => []TypedOnce
<1>1. IInv /\ EQ!OneRowPerEvent /\ TypedOnce /\ [Next]_vars => TypedOnce'
  BY TypedOnceStep
<1>2. Spec => []EQ!OneRowPerEvent
  BY ConversationHasQueueLaws
<1>3. QED
  BY <1>1, <1>2, TypedOnceInit, Always, PTL DEF Spec

\* A message is sent with success at most once in the life of the process, and when it
\* was, no thread and no row of the queue is left on whose account it could be sent
\* again: whatever way it took, whoever ends the turn meanwhile, cancels, kills or loses
\* the worker, and however often the process has crashed before.  A worker gets a text
\* twice only from sends that were reported as failed.  Only from the moment the signal
\* handler puts the row of the turn back, until the process has ended, a launch that
\* is still under way may claim that row and send the text once more.
THEOREM TypedOncePerLife == Spec => [](ShuttingDown \/ SentOncePerLife)
<1>1. ASSUME NEW e \in Events, OneWay(e)
      PROVE  /\ sent[e] <= 1
             /\ sent[e] = 1 => Waiting(e) = {} /\ \A p \in Processes : ~Bears(p, e)
  <2>1. sent[e] = 1 => Ways(e) = {}
    BY <1>1 DEF OneWay
  <2>2. Ways(e) = {} => Waiting(e) = {} /\ \A p \in Processes : ~Bears(p, e)
    BY DEF Ways
  <2>3. sent[e] <= 1
    BY <1>1 DEF OneWay
  <2>4. QED
    BY <2>1, <2>2, <2>3
<1>2. TypedOnce => ShuttingDown \/ SentOncePerLife
  BY <1>1 DEF TypedOnce, SentOncePerLife
<1>3. QED
  BY <1>2, TypesOnce, PTL

=============================================================================
