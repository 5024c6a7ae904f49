---------------------------- MODULE SessionStore ----------------------------
(***************************************************************************)
(* The session row of one conversation, the turn attempts beside it and    *)
(* the threads of the bridge that work on them (session.py,                *)
(* session_store.py, the turn_attempts table of bridge_state.py).          *)
(*                                                                         *)
(* Every store method opens its own connection, so a handler is a series   *)
(* of transactions and every other thread may run between two of them.     *)
(* A handler keeps Session objects across its transactions: thread[p].snap *)
(* is the copy thread p holds, which may be stale.  Two kinds of write:    *)
(*   Move   SessionStore.transition: read, compare the status and write in *)
(*          one transaction;                                               *)
(*   Save   save and update_fields: the whole row is written from a copy   *)
(*          read in an earlier transaction.                                *)
(*                                                                         *)
(* The columns kept are those that steer control: status, the active turn  *)
(* and its queue row, pane_id, last_event_id and failure_reason.  The queue and the *)
(* event ledger are those of EventQueue, restricted to one conversation.   *)
(***************************************************************************)
EXTENDS Naturals, Sequences, FiniteSets

CONSTANTS
    Events,     \* the Slack messages of the conversation
    NoEvent,    \* last_event_id of a conversation that has none
    MaxTurns,   \* bound on the turns (a model bound)
    MaxRows,    \* bound on the queue rows (a model bound)
    Budgets     \* how often each fault or outside intervention may happen, and how many
                \* messages come: one of these is chosen at the start (a model bound)

\* Outcomes and interventions the environment chooses; the budget bounds each.
FaultKinds == {"send", "post", "refuse", "launch", "exit", "orphan", "timeout", "cancel",
               "kill", "detect", "crash", "shutdown", "message"}

ASSUME StoreAssumption ==
    /\ IsFiniteSet(Events) /\ NoEvent \notin Events
    /\ MaxTurns \in Nat \ {0} /\ MaxRows \in Nat \ {0}
    /\ Budgets \subseteq [FaultKinds -> Nat]

VARIABLES
    queue, ledger,  \* the tables of EventQueue
    session,        \* the row of the sessions table
    turns,          \* turn_attempts in the order of the turn ids
    thread,         \* the threads: where they are and what they hold
    panes,          \* the live tmux panes of the conversation
    inbox,          \* texts in a live pane, unanswered: [turn, pane]
    posted,         \* turns whose answer is in Slack
    sent,           \* history: how often each event's text was sent with success
                    \* since the process was started
    backlog,        \* rows the boot loop has yet to look at
    stale,          \* history: of what the bridge has a wrong picture (Lapses)
    dropped,        \* history: rows claimed for a launch that another one made
                    \* superfluous, since the process was started
    lost,           \* history: panes split off for a launch that failed before it
                    \* was told of them, since the process was started
    budget          \* what is left of the budget

vars == <<queue, ledger, session, turns, thread, panes, inbox, posted, sent,
          backlog, stale, dropped, lost, budget>>

EQ == INSTANCE EventQueue WITH
    Texts <- {}, Threads <- {"conversation"},
    ThreadOf <- [e \in Events |-> "conversation"]

-----------------------------------------------------------------------------
(* session.py *)

Status == {"creating", "starting", "busy", "idle", "waiting", "suspended", "error",
           "killed"}
\* "ready" is left out: no statement of the program sets it.
Active == {"creating", "starting", "busy", "idle", "waiting"}

Allowed ==
    [creating  |-> {"starting", "suspended", "error", "killed"},
     starting  |-> {"busy", "suspended", "error", "killed"},
     busy      |-> {"idle", "waiting", "suspended", "killed", "error"},
     idle      |-> {"busy", "suspended", "killed", "error"},
     waiting   |-> {"busy", "idle", "suspended", "killed", "error"},
     suspended |-> {"starting", "killed", "error"},
     error     |-> {},
     killed    |-> {"starting"}]

Turns  == 1..MaxTurns
NoTurn == 0
NoRow  == 0
NoPane == 0

\* failure_reason, as far as the boot loop tells the reasons apart.
Reasons == {"none", "startup_cleanup", "graceful_shutdown", "other"}

Session == [status: Status \cup {"absent"}, turn: 0..MaxTurns, row: 0..MaxRows,
            pane: Nat, last: Events \cup {NoEvent}, why: Reasons]

Absent == [status |-> "absent", turn |-> NoTurn, row |-> NoRow, pane |-> NoPane,
           last |-> NoEvent, why |-> "none"]

Activate(s, t, q) == [s EXCEPT !.status = "busy", !.turn = t, !.row = q]
Clear(s, status)  == [s EXCEPT !.status = status, !.turn = NoTurn, !.row = NoRow]
Suspend(s, why)   == [Clear(s, "suspended") EXCEPT !.why = why]

-----------------------------------------------------------------------------
(* Threads *)

Slack(e)  == <<"slack", e>>      \* the listener thread of an event
Launch(e) == <<"launch", e>>     \* worker.start or worker.recover for an event
Reply(t)  == <<"reply", t>>      \* the hook server's thread for a turn's answer
Detector  == <<"detector", 0>>   \* the input-wait poll loop
Control(k) == <<"control", k>>   \* a user's command, the cleanup loop, the signal handler
Controls  == {"cancel", "kill", "cleanup", "shutdown"}

Processes ==
    {Slack(e) : e \in Events} \cup {Launch(e) : e \in Events}
    \cup {Reply(t) : t \in Turns} \cup {Detector} \cup {Control(k) : k \in Controls}

\* row is the queue row a thread has claimed, or the head it is about to claim.
Off == [at |-> "off", snap |-> Absent, turn |-> NoTurn, row |-> NoRow, pane |-> NoPane]

At(p, where)   == thread[p].at = where
Snap(p)        == thread[p].snap
Become(p, r)   == thread' = [thread EXCEPT ![p] = r]
End(p)         == Become(p, Off)
Pass(p, where) == Become(p, [Off EXCEPT !.at = where])          \* with nothing in hand
Goto(p, where) == Become(p, [thread[p] EXCEPT !.at = where, !.snap = Absent])
Keep(p, where) == Become(p, [thread[p] EXCEPT !.at = where])    \* with its snapshot
Enter(p, where, snap) == Become(p, [thread[p] EXCEPT !.at = where, !.snap = snap])

\* The bridge has a wrong picture of its own row once a full-row save has undone another
\* thread's write, and of the worker once a send it takes for failed left its text there.
Lapses == {"row", "text"}

\* The listeners and the hook server start after the boot loop has ended.
Listening == backlog = {}

Spend(k) == budget[k] > 0 /\ budget' = [budget EXCEPT ![k] = @ - 1]

-----------------------------------------------------------------------------
(* The session row *)

\* A plausible slip: the expected status is not compared.
CanMoveFromAny(from, to) == to \in Allowed[session.status] \cup {session.status}

\* The test of SessionStore.transition, made inside the writing transaction.
CanMove(from, to) ==
    session.status \in from /\ to \in Allowed[session.status]

Move(from, row) ==
    /\ CanMove(from, row.status)
    /\ session' = row
    /\ UNCHANGED stale

\* save, update_fields: the copy replaces the row, whatever the row is by now.
\* A save is stale if another thread has changed status, turn, queue row
\* or pane since the copy was read.
Steering(s) == <<s.status, s.turn, s.row, s.pane>>

Save(read, written) ==
    /\ session' = written
    /\ stale' = IF Steering(session) = Steering(read) THEN stale ELSE stale \cup {"row"}

-----------------------------------------------------------------------------
(* The queue of the conversation, as a Session object carries it *)

Pending   == EQ!VisibleRows("conversation") # {}
QueueHead == CHOOSE q \in EQ!VisibleRows("conversation") : EQ!IsHead(q, "conversation")

-----------------------------------------------------------------------------
(* Turn attempts *)

NextTurn == Len(turns) + 1

\* uuid4().hex: a fresh turn id; its attempt is opened by a later transaction.
NewTurn(e) ==
    /\ NextTurn <= MaxTurns
    /\ turns' = Append(turns, [event |-> e, attempt |-> "none"])

\* open_turn_attempt: INSERT OR IGNORE.
Opened(ts, t) ==
    [ts EXCEPT ![t].attempt = IF @ = "none" THEN "open" ELSE @]

\* mark_turn_attempt_completed: no condition on the old value.
Completed(ts, t, action) ==
    [ts EXCEPT ![t].attempt = IF @ = "none" THEN "none" ELSE action]

\* finalize_session_turns: the given turn, then every open attempt.
Finalized(ts, t, action) ==
    [u \in DOMAIN ts |->
        IF (u = t /\ ts[u].attempt # "none") \/ ts[u].attempt = "open"
        THEN [ts[u] EXCEPT !.attempt = action] ELSE ts[u]]

-----------------------------------------------------------------------------
(* Panes *)

Alive(pane) == pane \in panes

\* tmux gives every pane a new id; here an id that nothing mentions is new.
Mentioned == {session.pane} \cup lost \cup UNION {{thread[p].pane, Snap(p).pane} : p \in Processes}
NewPane   == CHOOSE n \in 1..(Cardinality(panes \cup Mentioned) + 1) :
                n \notin panes \cup Mentioned

\* kill-pane: the worker is gone, with the turns it was working on.
KillPane(pane) ==
    /\ panes' = panes \ {pane}
    /\ inbox' = {m \in inbox : m.pane # pane}

InWork(t) == \E m \in inbox : m.turn = t
Without(t) == {m \in inbox : m.turn # t}

\* send_text_and_enter pastes the text into the pane and sends Enter by a second
\* call of tmux: with both the worker has the turn, whose attempt was opened first.
Send(t, e, pane) ==
    /\ Alive(pane)
    /\ turns' = Opened(turns, t)
    /\ inbox' = inbox \cup {[turn |-> t, pane |-> pane]}
    /\ sent' = [sent EXCEPT ![e] = @ + 1]
    /\ UNCHANGED <<panes, stale, budget>>

\* Either call may fail, or take effect and run into its time limit.  A text that was
\* pasted stays in the pane: the worker has it with this Enter or with the next one,
\* whoever sends that, and the bridge takes it for not sent.
PastedUnseen(t, pane) ==
    /\ inbox' = inbox \cup {[turn |-> t, pane |-> pane]}
    /\ stale' = stale \cup {"text"}

\* Without a live pane a send fails at once.
SendFails(t, pane) ==
    /\ \/ ~Alive(pane) /\ UNCHANGED <<inbox, stale, budget>>
       \/ /\ Alive(pane) /\ Spend("send")
          /\ UNCHANGED <<inbox, stale>> \/ PastedUnseen(t, pane)
    /\ UNCHANGED <<panes, sent>>

-----------------------------------------------------------------------------

TypeOK ==
    /\ EQ!TypeOK
    /\ session \in Session
    /\ turns \in Seq([event: Events, attempt: {"none", "open", "closed", "cancelled"}])
    /\ Len(turns) <= MaxTurns
    /\ DOMAIN thread = Processes
    /\ \A p \in Processes : thread[p].snap \in Session /\ thread[p].row \in 0..MaxRows
    /\ panes \subseteq Nat \ {NoPane}
    /\ inbox \subseteq [turn: DOMAIN turns, pane: panes] /\ posted \subseteq DOMAIN turns
    /\ sent \in [Events -> Nat]
    /\ backlog \subseteq DOMAIN queue
    /\ stale \subseteq Lapses
    /\ dropped \subseteq DOMAIN queue /\ lost \subseteq Nat
    /\ budget \in [FaultKinds -> Nat]

Init ==
    /\ EQ!Init
    /\ session = Absent
    /\ turns = <<>>
    /\ thread = [p \in Processes |-> Off]
    /\ panes = {} /\ inbox = {} /\ posted = {}
    /\ sent = [e \in Events |-> 0]
    /\ backlog = {}
    /\ stale = {}
    /\ dropped = {} /\ lost = {}
    /\ budget \in Budgets

=============================================================================
