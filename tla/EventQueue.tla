----------------------------- MODULE EventQueue -----------------------------
(***************************************************************************)
(* The durable queue of Slack events and the event ledger beside it: the   *)
(* event_queue and event_ledger tables of bridge_state.py.  Every method   *)
(* is one BEGIN IMMEDIATE transaction, hence one action here.              *)
(*                                                                         *)
(* A row's queue_id is its position: AUTOINCREMENT only grows, and no      *)
(* statement deletes a row.  The lease columns are set by the statements   *)
(* that set status to 'dispatching' and cleared by those that set another  *)
(* status, and lease_owner is never compared: "leased" is "dispatching".   *)
(* retry_count, last_error and the timestamps steer no decision.           *)
(***************************************************************************)
EXTENDS Naturals, Sequences, FiniteSets

CONSTANTS
    Events,     \* Slack events: payloads that carry an event_id
    Texts,      \* payloads without an event_id (plain strings)
    Threads,    \* conversations
    ThreadOf,   \* the conversation each payload belongs to
    MaxRows     \* bound on the rows of the table (a model bound, not the code's)

Items == Events \cup Texts

ASSUME PayloadAssumption ==
    /\ Events \cap Texts = {}
    /\ ThreadOf \in [Items -> Threads]

ASSUME BoundAssumption == MaxRows \in Nat \ {0}

VARIABLES
    queue,      \* event_queue, in the order of queue_id
    ledger      \* event_ledger: event_id -> status

vars == <<queue, ledger>>

Visible     == {"queued", "retryable"}
Live        == Visible \cup {"dispatching"}
Settled     == {"done", "failed"}
QueueStatus == Live \cup Settled

\* "absent": the ledger has no row for the event.
LedgerStatus == {"absent", "received", "context_ready"} \cup QueueStatus

Row == [item: Items, status: QueueStatus]

TypeOK ==
    /\ queue \in Seq(Row)
    /\ ledger \in [Events -> LedgerStatus]

Init ==
    /\ queue = <<>>
    /\ ledger = [e \in Events |-> "absent"]

-----------------------------------------------------------------------------
(* Reading the tables *)

RowsOf(item) == {q \in DOMAIN queue : queue[q].item = item}

VisibleRows(t) ==
    {q \in DOMAIN queue : queue[q].status \in Visible /\ ThreadOf[queue[q].item] = t}

LiveRows(t) ==
    {q \in DOMAIN queue : queue[q].status \in Live /\ ThreadOf[queue[q].item] = t}

\* ORDER BY queue_id ASC LIMIT 1
IsHead(q, t) == q \in VisibleRows(t) /\ \A p \in VisibleRows(t) : q <= p

EventsOf(Q) == {queue[q].item : q \in Q} \cap Events

(* Writing the tables *)

SetRows(Q, status) ==
    queue' = [q \in DOMAIN queue |->
                IF q \in Q THEN [queue[q] EXCEPT !.status = status] ELSE queue[q]]

Insert(item, status) == queue' = Append(queue, [item |-> item, status |-> status])

\* UPDATE event_ledger ... WHERE event_id IN E AND status NOT IN (kept): a row
\* that is not there is not created.
Mark(E, status, kept) ==
    ledger' = [e \in Events |->
                 IF e \in E /\ ledger[e] \notin kept \cup {"absent"}
                 THEN status ELSE ledger[e]]

-----------------------------------------------------------------------------
(* The ledger *)

\* A plausible slip: INSERT OR REPLACE; every delivery of the event goes on.
ClaimEventAgain(e) ==
    /\ ledger' = [ledger EXCEPT ![e] = "received"]
    /\ UNCHANGED queue

\* claim_event: INSERT OR IGNORE; only the delivery that inserts goes on.
ClaimEvent(e) ==
    /\ ledger[e] = "absent"
    /\ ledger' = [ledger EXCEPT ![e] = "received"]
    /\ UNCHANGED queue

\* update_event writes the status its caller gives, whatever the old one was.
UpdateEvent(e, status) ==
    /\ Mark({e}, status, {})
    /\ UNCHANGED queue

\* prune_event_ledger: the entries not updated for the retention time.
PruneEventLedger(old) ==
    /\ ledger' = [e \in Events |-> IF e \in old THEN "absent" ELSE ledger[e]]
    /\ UNCHANGED queue

-----------------------------------------------------------------------------
(* The queue *)

\* The first row of a conversation, inserted with the session row, already
\* claimed.  A second row of the same event violates UNIQUE(event_id) and
\* rolls the transaction back.
CreateInitialQueue(item) ==
    /\ Len(queue) < MaxRows
    /\ item \in Events => RowsOf(item) = {}
    /\ Insert(item, "dispatching")
    /\ Mark({item}, "dispatching", Settled)

\* A plausible slip: a plain INSERT instead of the upsert.
AppendAlwaysInserts(item) ==
    /\ Len(queue) < MaxRows /\ Insert(item, "queued")
    /\ Mark({item}, "queued", Settled)

\* append_event_queue: an event that has a row keeps it; a settled row keeps
\* its status, a live one is queued again and loses its lease.
AppendEventQueue(item) ==
    /\ IF item \in Events /\ RowsOf(item) # {}
       THEN SetRows({q \in RowsOf(item) : queue[q].status \in Live}, "queued")
       ELSE Len(queue) < MaxRows /\ Insert(item, "queued")
    /\ Mark({item}, "queued", Settled)

\* A plausible slip: the row is found by its payload instead of as the head.
ClaimByPayload(t, q, expected) ==
    /\ q \in VisibleRows(t)
    /\ queue[q].item = expected
    /\ SetRows({q}, "dispatching")
    /\ Mark({expected}, "dispatching", Settled)

\* claim_event_queue_head: the head of the conversation, if its payload is the
\* one the caller saw at the head.
ClaimEventQueueHead(t, q, expected) ==
    /\ IsHead(q, t)
    /\ queue[q].item = expected
    /\ SetRows({q}, "dispatching")
    /\ Mark({expected}, "dispatching", Settled)

\* consume_event_queue_head without an expected payload.
ConsumeEventQueueHead(t, q) ==
    /\ IsHead(q, t)
    /\ SetRows({q}, "done")
    /\ Mark(EventsOf({q}), "done", Settled)

\* consume_event_queue_row on a claimed row.  A row already done is reported
\* as consumed, any other one as not consumed; neither changes anything.
ConsumeEventQueueRow(q) ==
    /\ queue[q].status = "dispatching"
    /\ SetRows({q}, "done")
    /\ Mark(EventsOf({q}), "done", Settled)

\* A plausible slip: no status condition, as a late failure handler might write.
MarkRetryableAnyStatus(q) ==
    /\ SetRows({q}, "retryable")
    /\ Mark(EventsOf({q}), "retryable", Settled)

\* mark_event_queue_retryable
MarkEventQueueRetryable(q) ==
    /\ queue[q].status \in Live
    /\ SetRows({q}, "retryable")
    /\ Mark(EventsOf({q}), "retryable", Settled)

\* A plausible slip: the ledger of a settled row is overwritten as well.
FailRowAndVerdict(q) ==
    /\ SetRows(IF queue[q].status \in Live THEN {q} ELSE {}, "failed")
    /\ Mark(EventsOf({q}), "failed", {})

\* fail_event_queue_row: the ledger is written even when the row is settled.
FailEventQueueRow(q) ==
    /\ SetRows(IF queue[q].status \in Live THEN {q} ELSE {}, "failed")
    /\ Mark(EventsOf({q}), "failed", {"done"})

\* fail_event_queue_for_session
FailEventQueueForSession(t) ==
    /\ SetRows(LiveRows(t), "failed")
    /\ Mark(EventsOf(LiveRows(t)), "failed", {"done"})

DispatchingRows == {q \in DOMAIN queue : queue[q].status = "dispatching"}

\* A plausible slip: the reset's WHERE clause is lost.
ResetAllRows(Q) ==
    /\ Q \subseteq DispatchingRows
    /\ SetRows(DOMAIN queue, "retryable")
    /\ Mark(EventsOf(Q), "retryable", Settled)

\* reset_dispatching_event_queue_leases (start of the process), and
\* reset_expired_event_queue_leases for the rows whose lease has expired.
ResetLeases(Q) ==
    /\ Q \subseteq DispatchingRows
    /\ SetRows(Q, "retryable")
    /\ Mark(EventsOf(Q), "retryable", Settled)

ResetDispatchingEventQueueLeases == ResetLeases(DispatchingRows)

-----------------------------------------------------------------------------
\* The statuses callers hand to update_event.
CallerStatus == {"context_ready", "queued", "done", "failed"}

LedgerStep ==
    \/ \E e \in Events : ClaimEvent(e)
    \/ \E e \in Events, status \in CallerStatus : UpdateEvent(e, status)
    \/ \E old \in SUBSET Events : PruneEventLedger(old)

QueueStep ==
    \/ \E item \in Items : CreateInitialQueue(item)
    \/ \E item \in Items : AppendEventQueue(item)
    \/ \E t \in Threads, q \in DOMAIN queue, expected \in Items :
          ClaimEventQueueHead(t, q, expected)
    \/ \E t \in Threads, q \in DOMAIN queue : ConsumeEventQueueHead(t, q)
    \/ \E q \in DOMAIN queue : ConsumeEventQueueRow(q)
    \/ \E q \in DOMAIN queue : MarkEventQueueRetryable(q)
    \/ \E q \in DOMAIN queue : FailEventQueueRow(q)
    \/ \E t \in Threads : FailEventQueueForSession(t)
    \/ \E Q \in SUBSET DispatchingRows : ResetLeases(Q)

Next == LedgerStep \/ QueueStep

Spec == Init /\ [][Next]_vars

-----------------------------------------------------------------------------
(* The tickets this queue implements *)

WithStatus(S) == {q \in DOMAIN queue : queue[q].status \in S}

Tickets == INSTANCE TicketQueue WITH
    owner   <- [q \in DOMAIN queue |-> ThreadOf[queue[q].item]],
    waiting <- WithStatus(Visible),
    taken   <- WithStatus({"dispatching"}),
    settled <- WithStatus(Settled)

-----------------------------------------------------------------------------
(* Properties *)

\* The table is a first-come queue of tickets per conversation: whatever order
\* claims, re-appends, failures, resets and restarts come in, a row is taken
\* only as the first waiting one and is settled once.
ImplementsTickets == Tickets!Spec

\* An event has at most one row, so that a re-appended or replayed event is
\* never dispatched from two rows (bridge_state.py, UNIQUE(event_id) and the
\* upsert of append_event_queue).
OneRowPerEvent ==
    \A p, q \in DOMAIN queue :
        queue[p].item \in Events /\ queue[p].item = queue[q].item => p = q

\* Within a conversation rows are claimed in queue_id order: a row that goes
\* from waiting to dispatching has no waiting row before it.
ClaimedInOrder ==
    [][\A q \in DOMAIN queue :
          queue[q].status \in Visible /\ queue'[q].status = "dispatching"
          => \A p \in VisibleRows(ThreadOf[queue[q].item]) : q <= p]_vars

\* A settled row never becomes live again and never changes its verdict: a
\* late failure, retry mark or re-append of an answered event is harmless.
SettledForGood ==
    [][\A q \in DOMAIN queue :
          queue[q].status \in Settled => queue'[q].status = queue[q].status]_vars

\* No step that moves a queue row overwrites the verdict the ledger already
\* has for an event; only update_event and pruning do.
VerdictKeptByQueue ==
    [][queue' # queue
       => \A e \in Events : ledger[e] \in Settled => ledger'[e] = ledger[e]]_vars

=============================================================================
