---------------------------- MODULE WorkerLaunch ----------------------------
(***************************************************************************)
(* worker_process.py: a thread starts an AI worker in a tmux pane for an   *)
(* event and hands it the text.  start comes from create_session and the   *)
(* boot loop, with the claimed queue row of the event; recover comes from  *)
(* recover_session, without one.  Of the pane it counts whether it is      *)
(* there; the dialogs before the prompt are left out.                      *)
(***************************************************************************)
EXTENDS SessionStore

\* start: CREATING -> STARTING, or the row is STARTING already because the
\* boot loop moved it there (_is_preclaimed_durable_queue_start).  If another launch
\* has begun, this one ends, and leaves the row it was given as it is.
StartWorker(e) ==
    LET p == Launch(e)
        preclaimed == /\ Snap(p).status = "starting" /\ session.status = "starting"
                      /\ Snap(p).turn = NoTurn /\ session.turn = NoTurn
                      /\ Snap(p).row = NoRow /\ session.row = NoRow
                      /\ Snap(p).pane = NoPane /\ session.pane = NoPane
    IN
    /\ At(p, "start")
    /\ \/ /\ Move({"creating"}, [session EXCEPT !.status = "starting"])
          /\ Goto(p, "launch")
          /\ UNCHANGED dropped
       \/ /\ ~CanMove({"creating"}, "starting")
          /\ IF preclaimed THEN Goto(p, "launch") /\ UNCHANGED dropped
             ELSE End(p) /\ dropped' = dropped \cup ({thread[p].row} \ {NoRow})
          /\ UNCHANGED <<session, stale>>
    /\ UNCHANGED <<queue, ledger, turns, panes, inbox, posted, sent, backlog, budget, lost>>

\* _launch: nothing is launched for a conversation that is over.
BeginLaunch(e) ==
    LET p == Launch(e) IN
    /\ At(p, "launch")
    /\ IF session.status \in {"killed", "error"} THEN End(p) ELSE Goto(p, "window")
    /\ UNCHANGED <<queue, ledger, session, turns, panes, inbox, posted, sent,
                   backlog, stale, budget, dropped, lost>>

\* _PANE_LAUNCH_LOCK: one launch at a time is between its window and its pane.
LaunchLocked ==
    \E f \in Events : thread[Launch(f)].at \in {"load", "prepare", "allocate", "pane"}

\* _prepare_window checks again, now under the lock; this time it is a failure.
PrepareWindow(e) ==
    LET p == Launch(e) IN
    /\ At(p, "window") /\ ~LaunchLocked
    /\ Goto(p, IF session.status \in {"killed", "error"} THEN "fail" ELSE "load")
    /\ UNCHANGED <<queue, ledger, session, turns, panes, inbox, posted, sent,
                   backlog, stale, budget, dropped, lost>>

\* _update_session loads the row anew before it saves it.
LoadForUpdate(e) ==
    LET p == Launch(e)
        after == [load |-> "prepare", fail_load |-> "fail_error",
                  suspend_load |-> "fail_suspend"]
    IN
    /\ thread[p].at \in DOMAIN after
    /\ Enter(p, after[thread[p].at], session)
    /\ UNCHANGED <<queue, ledger, session, turns, panes, inbox, posted, sent,
                   backlog, stale, budget, dropped, lost>>

\* _update_session(status=STARTING) asks for no status: it also overwrites a conversation that
\* was suspended or killed since the check.
SaveStarting(e) ==
    LET p == Launch(e) IN
    /\ At(p, "prepare")
    /\ Save(Snap(p), [Snap(p) EXCEPT !.status = "starting"])
    /\ Goto(p, "allocate")
    /\ UNCHANGED <<queue, ledger, turns, panes, inbox, posted, sent, backlog, budget,
                   dropped, lost>>

\* A pane is split off, which takes a while and may fail; then the row is read
\* that _update_session(pane_id=...) is going to write back.
AllocatePane(e) ==
    LET p == Launch(e) IN
    /\ At(p, "allocate")
    /\ \/ /\ panes' = panes \cup {NewPane}
          /\ Become(p, [thread[p] EXCEPT !.at = "pane", !.snap = session, !.pane = NewPane])
          /\ UNCHANGED budget
       \/ Spend("launch") /\ Goto(p, "fail") /\ UNCHANGED panes
    /\ UNCHANGED <<queue, ledger, session, turns, inbox, posted, sent, backlog,
                   stale, dropped, lost>>

\* _prepare_window raises with the pane in hand: it belongs to another conversation by
\* its row, or the row is not saved, or the pane is not marked.  _launch has not been
\* told of the pane and will not remove it.
LosePane(e) ==
    LET p == Launch(e) IN
    /\ Spend("launch")
    /\ lost' = lost \cup {thread[p].pane}
    /\ Become(p, [thread[p] EXCEPT !.at = "fail", !.snap = Absent, !.pane = NoPane])

SavePane(e) ==
    LET p == Launch(e)
        Saved == Save(Snap(p), [Snap(p) EXCEPT !.pane = thread[p].pane])
    IN
    /\ At(p, "pane")
    /\ \/ Saved /\ Goto(p, "ready") /\ UNCHANGED <<budget, lost>>
       \/ LosePane(e) /\ (Saved \/ UNCHANGED <<session, stale>>)
    /\ UNCHANGED <<queue, ledger, turns, panes, inbox, posted, sent, backlog, dropped>>

\* _start_command and _wait_for_ready: the prompt appears, or it does not in
\* time; the command cannot be typed into a pane that is gone.
WaitForReady(e) ==
    LET p == Launch(e)
        alive == Alive(thread[p].pane)
    IN
    /\ At(p, "ready")
    /\ \/ alive /\ Goto(p, "dispatch") /\ UNCHANGED budget
       \/ alive /\ Spend("launch") /\ Goto(p, "timeout")
       \/ ~alive /\ (\E to \in {"fail", "timeout"} : Goto(p, to)) /\ UNCHANGED budget
    /\ UNCHANGED <<queue, ledger, session, turns, panes, inbox, posted, sent,
                   backlog, stale, dropped, lost>>

\* _dispatch_message: STARTING -> BUSY with the turn; the assertion that the
\* move succeeded is caught by _launch as a failure.
DispatchFirst(e) ==
    LET p == Launch(e) IN
    /\ At(p, "dispatch")
    /\ \/ /\ Move({"starting"}, Activate(session, NextTurn, thread[p].row))
          /\ NewTurn(e)
          /\ Become(p, [thread[p] EXCEPT !.at = "first", !.turn = NextTurn])
       \/ /\ ~CanMove({"starting"}, "busy")
          /\ Goto(p, "fail")
          /\ UNCHANGED <<session, turns, stale>>
    /\ UNCHANGED <<queue, ledger, panes, inbox, posted, sent, backlog, budget, dropped, lost>>

\* The attempt is opened and the text sent, once.
SendFirst(e) ==
    LET p == Launch(e)
        t == thread[p].turn
    IN
    /\ At(p, "first")
    /\ \/ Send(t, e, thread[p].pane) /\ End(p)
       \/ SendFails(t, thread[p].pane) /\ turns' = Opened(turns, t) /\ Goto(p, "fail")
    /\ UNCHANGED <<queue, ledger, session, posted, backlog, dropped, lost>>

\* A plausible slip: the pane of the failed launch is forgotten.
BeginFailKeepsPane(e) ==
    LET p == Launch(e) IN
    /\ thread[p].at \in {"fail", "timeout"}
    /\ IF session.status = "killed"
       THEN End(p)
       ELSE Become(p, [thread[p] EXCEPT
                !.at = IF At(p, "fail") THEN "fail_load" ELSE "suspend_load",
                !.pane = NoPane])
    /\ UNCHANGED <<queue, ledger, session, turns, panes, inbox, posted, sent,
                   backlog, stale, budget, dropped, lost>>

\* _fail_session: a killed conversation is left alone, otherwise the pane goes;
\* kill_pane does not confirm a pane that was gone already.
BeginFail(e) ==
    LET p == Launch(e)
        left == IF Alive(thread[p].pane) THEN NoPane ELSE thread[p].pane
    IN
    /\ thread[p].at \in {"fail", "timeout"}
    /\ IF session.status = "killed"
       THEN End(p) /\ UNCHANGED <<panes, inbox>>
       ELSE /\ Become(p, [thread[p] EXCEPT
                  !.at = IF At(p, "fail") THEN "fail_load" ELSE "suspend_load",
                  !.pane = left])
            /\ KillPane(thread[p].pane)
    /\ UNCHANGED <<queue, ledger, session, turns, posted, sent, backlog, stale,
                   budget, dropped, lost>>

\* The row becomes ERROR, or SUSPENDED after a ready timeout, whatever it was.
SaveFailed(e) ==
    LET p == Launch(e)
        s == [Snap(p) EXCEPT !.pane = thread[p].pane]
    IN
    /\ thread[p].at \in {"fail_error", "fail_suspend"}
    /\ Save(Snap(p), IF At(p, "fail_error") THEN Clear(s, "error") ELSE Suspend(s, "other"))
    /\ Keep(p, "fail_event")
    /\ UNCHANGED <<queue, ledger, turns, panes, inbox, posted, sent, backlog, budget,
                   dropped, lost>>

\* The event of the message that came last is marked failed: not always e.
FailLastEvent(e) ==
    LET p == Launch(e) IN
    /\ At(p, "fail_event")
    /\ EQ!UpdateEvent(Snap(p).last, "failed")
    /\ Goto(p, "fail_row")
    /\ UNCHANGED <<session, turns, panes, inbox, posted, sent, backlog, stale,
                   budget, dropped, lost>>

\* A plausible slip: the claimed row is forgotten.
FailRowForgotten(e) ==
    LET p == Launch(e) IN
    /\ At(p, "fail_row")
    /\ turns' = IF thread[p].turn # NoTurn
                THEN Completed(turns, thread[p].turn, "closed") ELSE turns
    /\ End(p)
    /\ UNCHANGED <<queue, ledger, session, panes, inbox, posted, sent, backlog,
                   stale, budget, dropped, lost>>

\* The claimed row fails, and the attempt if the turn had begun.
FailRow(e) ==
    LET p == Launch(e) IN
    /\ At(p, "fail_row")
    /\ IF thread[p].row # NoRow THEN EQ!FailEventQueueRow(thread[p].row)
       ELSE UNCHANGED <<queue, ledger>>
    /\ turns' = IF thread[p].turn # NoTurn
                THEN Completed(turns, thread[p].turn, "closed") ELSE turns
    /\ End(p)
    /\ UNCHANGED <<session, panes, inbox, posted, sent, backlog, stale, budget,
                   dropped, lost>>

LaunchStep(e) ==
    \/ StartWorker(e) \/ BeginLaunch(e) \/ PrepareWindow(e) \/ LoadForUpdate(e)
    \/ SaveStarting(e) \/ AllocatePane(e) \/ SavePane(e) \/ WaitForReady(e)
    \/ DispatchFirst(e) \/ SendFirst(e) \/ BeginFail(e) \/ SaveFailed(e) \/ FailLastEvent(e) \/ FailRow(e)

=============================================================================
