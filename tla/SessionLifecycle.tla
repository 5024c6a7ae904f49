-------------------------- MODULE SessionLifecycle --------------------------
(***************************************************************************)
(* session_lifecycle.py: a user cancels the turn or ends the conversation, *)
(* the cleanup loop gives up on it, the signal handler shuts it down.      *)
(* Each reads the row, moves it and settles turn and queue row afterwards, *)
(* by what it read first.                                                  *)
(*                                                                         *)
(* SessionLifecycle.transition reads the row again before it compares and  *)
(* writes: a move succeeds on any status it accepts, and may fail whenever *)
(* the status has changed since the first read.                            *)
(***************************************************************************)
EXTENDS SessionStore

\* The move succeeds or comes too late.  What goes on has in hand the pane of the
\* moved row, the turn that was read first, and its queue row if it settles it.
Moves(p, from, row, where) ==
    /\ Move(from, row)
    /\ Become(p, [Off EXCEPT !.at = where, !.pane = session.pane, !.turn = thread[p].turn,
                   !.row = IF where \in {"fail_row", "put_back"} THEN Snap(p).row ELSE NoRow])

TooLate(p, from) ==
    /\ session.status # Snap(p).status \/ session.status \notin from
    /\ UNCHANGED <<session, stale>>

\* The row a command, the cleanup pass or the signal handler starts from.
Begin(k, where) ==
    /\ Listening /\ At(Control(k), "off")
    /\ Become(Control(k), [Off EXCEPT !.at = where, !.snap = session, !.turn = session.turn])
    /\ UNCHANGED <<queue, ledger, session, turns, posted, sent, backlog, stale,
                   dropped, lost>>

-----------------------------------------------------------------------------
(* cancel *)

Cancellable == {"busy", "waiting"}

BeginCancel ==
    /\ session.status \in Cancellable
    /\ Spend("cancel") /\ Begin("cancel", "cancel")
    /\ UNCHANGED <<panes, inbox>>

\* Two plausible slips: the cancelled row is put back, or taken for delivered.
CancelMovePutsBack ==
    LET p == Control("cancel") IN
    /\ At(p, "cancel")
    /\ \/ /\ Moves(p, Cancellable, Clear(session, "idle"), "cancelled")
          /\ IF session.row # NoRow THEN EQ!MarkEventQueueRetryable(session.row)
             ELSE UNCHANGED <<queue, ledger>>
       \/ TooLate(p, Cancellable) /\ End(p) /\ UNCHANGED <<queue, ledger>>
    /\ UNCHANGED <<turns, panes, inbox, posted, sent, backlog, budget, dropped, lost>>

CancelMoveConsumes ==
    LET p == Control("cancel") IN
    /\ At(p, "cancel")
    /\ \/ /\ Moves(p, Cancellable, Clear(session, "idle"), "cancelled")
          /\ IF session.row # NoRow THEN EQ!ConsumeEventQueueRow(session.row)
             ELSE UNCHANGED <<queue, ledger>>
       \/ TooLate(p, Cancellable) /\ End(p) /\ UNCHANGED <<queue, ledger>>
    /\ UNCHANGED <<turns, panes, inbox, posted, sent, backlog, budget, dropped, lost>>

\* BUSY or WAITING -> IDLE; if that came too late for a conversation that still
\* is BUSY or WAITING, its row is overwritten.  The claimed queue row is left.
CancelMove ==
    LET p == Control("cancel") IN
    /\ At(p, "cancel")
    /\ \/ Moves(p, Cancellable, Clear(session, "idle"), "cancelled")
       \/ /\ TooLate(p, Cancellable)
          /\ IF session.status \in Cancellable
             THEN Goto(p, "cancel_load") ELSE End(p)
    /\ UNCHANGED <<queue, ledger, turns, panes, inbox, posted, sent, backlog, budget,
                   dropped, lost>>

\* _manual_transition: the row is loaded once more and saved as IDLE.
CancelLoad ==
    /\ At(Control("cancel"), "cancel_load")
    /\ Enter(Control("cancel"), "cancel_force", session)
    /\ UNCHANGED <<queue, ledger, session, turns, panes, inbox, posted, sent,
                   backlog, stale, budget, dropped, lost>>

CancelForce ==
    LET p == Control("cancel") IN
    /\ At(p, "cancel_force")
    /\ Save(Snap(p), Clear(Snap(p), "idle"))
    /\ Goto(p, "cancelled")
    /\ UNCHANGED <<queue, ledger, turns, panes, inbox, posted, sent, backlog, budget,
                   dropped, lost>>

-----------------------------------------------------------------------------
(* kill *)

Killable == Active \cup {"suspended"}

\* The pane goes first; a pane that is gone already makes the command fail.
BeginKill ==
    /\ session.status \in Killable
    /\ session.pane # NoPane => Alive(session.pane)
    /\ Spend("kill") /\ Begin("kill", "kill")
    /\ KillPane(session.pane)

KillMove ==
    LET p == Control("kill") IN
    /\ At(p, "kill")
    /\ \/ Moves(p, Killable, [Clear(session, "killed") EXCEPT !.pane = NoPane], "closed")
       \/ TooLate(p, Killable) /\ End(p)
    /\ UNCHANGED <<queue, ledger, turns, panes, inbox, posted, sent, backlog, budget,
                   dropped, lost>>

-----------------------------------------------------------------------------
(* cleanup_stale, on the rows list_all returned *)

Orphaned(s) == s.status \in Active /\ s.pane # NoPane /\ ~Alive(s.pane)

BeginCleanup ==
    /\ \/ Orphaned(session) /\ Spend("orphan") /\ Begin("cleanup", "orphaned")
       \/ /\ session.status \in {"busy", "waiting"} /\ ~Orphaned(session)
          /\ Spend("timeout") /\ Begin("cleanup", "timeout")
    /\ UNCHANGED <<panes, inbox>>

\* -> SUSPENDED; the pane of the moved row is removed right after.
GivesUp(p, from, why, where) ==
    /\ Moves(p, from, Suspend(session, why), where)
    /\ KillPane(session.pane)

\* _handle_orphaned: the pane has gone by itself.
OrphanedMove ==
    LET p == Control("cleanup") IN
    /\ At(p, "orphaned")
    /\ \/ GivesUp(p, {Snap(p).status}, "other", "closed")
       \/ TooLate(p, {Snap(p).status}) /\ End(p) /\ UNCHANGED <<panes, inbox>>
    /\ UNCHANGED <<queue, ledger, turns, posted, sent, backlog, budget, dropped, lost>>

\* _handle_busy_timeout, _handle_wait_timeout: the claimed row fails.  A wait
\* timeout that comes too late falls through to _handle_suspend_timeout.
TimeoutMove ==
    LET p == Control("cleanup")
        from == {Snap(p).status}
    IN
    /\ At(p, "timeout")
    /\ \/ GivesUp(p, from, "other", IF Snap(p).row # NoRow THEN "fail_row" ELSE "closed")
       \/ /\ TooLate(p, from)
          /\ IF Snap(p).status = "waiting" THEN Enter(p, "suspend", session) ELSE End(p)
          /\ UNCHANGED <<panes, inbox>>
    /\ UNCHANGED <<queue, ledger, turns, posted, sent, backlog, budget, dropped, lost>>

\* A plausible slip: the row is kept for another try.
TimeoutKeepsRow ==
    LET p == Control("cleanup") IN
    /\ At(p, "fail_row")
    /\ \/ EQ!MarkEventQueueRetryable(thread[p].row)
       \/ queue[thread[p].row].status \in EQ!Settled /\ UNCHANGED <<queue, ledger>>
    /\ Become(p, [thread[p] EXCEPT !.at = "closed", !.row = NoRow])
    /\ UNCHANGED <<session, turns, panes, inbox, posted, sent, backlog, stale,
                   budget, dropped, lost>>

TimeoutFailRow ==
    LET p == Control("cleanup") IN
    /\ At(p, "fail_row")
    /\ EQ!FailEventQueueRow(thread[p].row)
    /\ Become(p, [thread[p] EXCEPT !.at = "closed", !.row = NoRow])
    /\ UNCHANGED <<session, turns, panes, inbox, posted, sent, backlog, stale,
                   budget, dropped, lost>>

\* suspend: -> SUSPENDED from whatever the status is by now.
SuspendMove ==
    LET p == Control("cleanup")
        from == {"idle", "waiting", "busy"}
    IN
    /\ At(p, "suspend")
    /\ \/ GivesUp(p, from, "none", "closed")
       \/ TooLate(p, from) /\ End(p) /\ UNCHANGED <<panes, inbox>>
    /\ UNCHANGED <<queue, ledger, turns, posted, sent, backlog, budget, dropped, lost>>

-----------------------------------------------------------------------------
(* terminate_for_restart, called by the signal handler *)

BeginShutdown ==
    /\ session.status \in Active
    /\ Spend("shutdown") /\ Begin("shutdown", "shutdown")
    /\ UNCHANGED <<panes, inbox>>

\* -> SUSPENDED, then the claimed row is put back.
ShutdownMove ==
    LET p == Control("shutdown") IN
    /\ At(p, "shutdown")
    /\ \/ GivesUp(p, Active, "graceful_shutdown",
                  IF Snap(p).row # NoRow THEN "put_back" ELSE "closed")
       \/ TooLate(p, Active) /\ Pass(p, "exit") /\ UNCHANGED <<panes, inbox>>
    /\ UNCHANGED <<queue, ledger, turns, posted, sent, backlog, budget, dropped, lost>>

ShutdownPutBack ==
    LET p == Control("shutdown") IN
    /\ At(p, "put_back")
    /\ \/ EQ!MarkEventQueueRetryable(thread[p].row)
       \/ queue[thread[p].row].status \in EQ!Settled /\ UNCHANGED <<queue, ledger>>
    /\ Become(p, [thread[p] EXCEPT !.at = "closed", !.row = NoRow])
    /\ UNCHANGED <<session, turns, panes, inbox, posted, sent, backlog, stale,
                   budget, dropped, lost>>

-----------------------------------------------------------------------------
(* What follows a move *)

Ended(k) == IF k = "shutdown" THEN Pass(Control(k), "exit") ELSE End(Control(k))

\* finalize_session_turns: the turn that was read first, and every open one.
\* Then the row is read from which clear_pane_after_teardown takes the pane.
Finalize(k) ==
    LET p == Control(k) IN
    /\ thread[p].at \in {"cancelled", "closed"}
    /\ turns' = Finalized(turns, thread[p].turn,
                          IF At(p, "cancelled") THEN "cancelled" ELSE "closed")
    /\ IF k \in {"cleanup", "shutdown"} /\ thread[p].pane # NoPane
       THEN Enter(p, "clear_pane", session) ELSE Ended(k)
    /\ UNCHANGED <<queue, ledger, session, panes, inbox, posted, sent, backlog,
                   stale, budget, dropped, lost>>

ClearPane(k) ==
    LET p == Control(k) IN
    /\ At(p, "clear_pane")
    /\ Save(Snap(p), [Snap(p) EXCEPT !.pane = NoPane])
    /\ Ended(k)
    /\ UNCHANGED <<queue, ledger, turns, panes, inbox, posted, sent, backlog, budget,
                   dropped, lost>>

\* What starts a command or a shutdown; and the steps it goes on with.
Command == BeginCancel \/ BeginKill \/ BeginCleanup \/ BeginShutdown

ControlStep ==
    \/ CancelMove \/ CancelLoad \/ CancelForce \/ KillMove \/ OrphanedMove
    \/ TimeoutMove \/ TimeoutFailRow \/ SuspendMove \/ ShutdownMove \/ ShutdownPutBack
    \/ \E k \in Controls : Finalize(k) \/ ClearPane(k)

=============================================================================
