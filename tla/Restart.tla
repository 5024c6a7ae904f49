------------------------------ MODULE Restart -------------------------------
(***************************************************************************)
(* The process ends and starts again: startup_cleanup and                  *)
(* drain_durable_event_queue of slack_bridge.py.  Nothing else runs until  *)
(* the boot loop has ended, except the workers it launches.                *)
(***************************************************************************)
EXTENDS SessionStore

\* startup_cleanup: every live conversation but a CREATING one is suspended and
\* its pane removed.
AfterCleanup ==
    CASE session.status \in Active \ {"creating"} ->
            [Suspend(session, "startup_cleanup") EXCEPT !.pane = NoPane]
      [] session.status = "suspended" -> [Clear(session, "suspended") EXCEPT !.pane = NoPane]
      [] OTHER -> session

\* The threads are gone; then the cleanup, which also removes every pane that no
\* session has, the reset of the dispatching rows and the list of the rows to
\* look at, before anything else runs.
Reboot ==
    /\ session' = AfterCleanup
    /\ turns' = IF session.status \in (Active \ {"creating"}) \cup {"suspended"}
                THEN Finalized(turns, session.turn, "closed") ELSE turns
    /\ EQ!ResetDispatchingEventQueueLeases
    /\ backlog' = {q \in DOMAIN queue' : queue'[q].status \in EQ!Visible}
    /\ thread' = [p \in Processes |-> Off]
    /\ panes' = {}
    /\ inbox' = {}
    /\ sent' = [e \in Events |-> 0]
    /\ dropped' = {} /\ lost' = {}
    /\ UNCHANGED <<posted, stale>>

Crash == Spend("crash") /\ Reboot

\* SystemExit at the end of shutdown_all.
Exit == At(Control("shutdown"), "exit") /\ Reboot /\ UNCHANGED budget

\* One row of the boot loop.
NextRow == CHOOSE q \in backlog : \A r \in backlog : q <= r
Looked == backlog' = backlog \ {NextRow}

\* A worker that has not begun: it is started for the head, with the head's row.
ReplayCreating ==
    /\ backlog # {} /\ session.status = "creating" /\ Pending
    /\ EQ!ClaimEventQueueHead("conversation", QueueHead, queue[QueueHead].item)
    /\ thread' = [thread EXCEPT ![Launch(queue[QueueHead].item)] =
                    [Off EXCEPT !.at = "start", !.snap = session, !.row = QueueHead]]
    /\ Looked
    /\ UNCHANGED <<session, turns, panes, inbox, posted, sent, stale, budget, dropped, lost>>

\* A plausible slip: the row is looked at, but its worker is left to a message.
ReplayShutdownLater ==
    /\ backlog # {} /\ session.status = "suspended"
    /\ session.why = "graceful_shutdown" /\ Pending
    /\ Looked
    /\ UNCHANGED <<queue, ledger, session, turns, thread, panes, inbox, posted, sent,
                   stale, budget, dropped, lost>>

\* A conversation shut down in order: claim the head and move it to STARTING.
ReplayShutdown ==
    /\ backlog # {} /\ session.status = "suspended"
    /\ session.why = "graceful_shutdown" /\ Pending
    /\ EQ!ClaimEventQueueHead("conversation", QueueHead, queue[QueueHead].item)
    /\ Move({"suspended"},
            [Clear(session, "starting") EXCEPT !.why = "none", !.pane = NoPane])
    /\ thread' = [thread EXCEPT ![Launch(queue[QueueHead].item)] =
                    [Off EXCEPT !.at = "start", !.snap = session', !.row = QueueHead]]
    /\ Looked
    /\ UNCHANGED <<turns, panes, inbox, posted, sent, budget, dropped, lost>>

\* A conversation that is over, or was suspended for another reason.
ReplayFail ==
    /\ backlog # {}
    /\ \/ session.status \in {"absent", "error", "killed"}
       \/ session.status = "suspended" /\ session.why \in {"none", "other"}
       \/ /\ ~Pending
          /\ \/ session.status = "creating"
             \/ session.status = "suspended" /\ session.why = "graceful_shutdown"
    /\ EQ!FailEventQueueRow(NextRow)
    /\ Looked
    /\ UNCHANGED <<session, turns, thread, panes, inbox, posted, sent, stale, budget,
                   dropped, lost>>

\* Left in the queue: the cleanup suspended the conversation, or a worker this
\* loop has launched is on its way.
ReplayDefer ==
    /\ backlog # {}
    /\ \/ session.status = "suspended" /\ session.why = "startup_cleanup"
       \/ session.status \in {"starting", "busy"}
    /\ Looked
    /\ UNCHANGED <<queue, ledger, session, turns, thread, panes, inbox, posted, sent,
                   stale, budget, dropped, lost>>

Replay == ReplayCreating \/ ReplayShutdown \/ ReplayFail \/ ReplayDefer

=============================================================================
