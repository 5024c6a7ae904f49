----------------------------- MODULE InputWait ------------------------------
(***************************************************************************)
(* The worker asks a question in its pane: the poll loop of                *)
(* input_detector.py notices, interactive_handler.py moves the             *)
(* conversation to WAITING and posts the question; the user's next message *)
(* is typed into the pane as the answer.                                   *)
(***************************************************************************)
EXTENDS SessionStore

\* _check_all_busy_sessions: the row as list_all returned it; the capture of
\* the pane that follows takes a while.
Detect ==
    /\ Listening /\ At(Detector, "off")
    /\ session.status = "busy" /\ Alive(session.pane)
    /\ Spend("detect")
    /\ Enter(Detector, "detected", session)
    /\ UNCHANGED <<queue, ledger, session, turns, panes, inbox, posted, sent,
                   backlog, stale, dropped, lost>>

\* on_input_wait_detected: BUSY -> WAITING, with the turn of the row listed.
EnterWaiting ==
    /\ At(Detector, "detected")
    /\ \/ /\ Move({"busy"}, [session EXCEPT !.status = "waiting",
                                            !.turn = Snap(Detector).turn])
          /\ Keep(Detector, "notify")
       \/ /\ ~CanMove({"busy"}, "waiting")
          /\ End(Detector)
          /\ UNCHANGED <<session, stale>>
    /\ UNCHANGED <<queue, ledger, turns, panes, inbox, posted, sent, backlog, budget,
                   dropped, lost>>

\* The question is posted, or the move is undone.  A post that the daily limit keeps
\* back counts as posted, and one that raises undoes nothing: the row stays WAITING.
NotifyQuestion ==
    /\ At(Detector, "notify")
    /\ \/ UNCHANGED <<session, stale, budget>>
       \/ /\ Spend("post")
          /\ \/ Move({"waiting"}, [session EXCEPT !.status = "busy",
                                                  !.turn = Snap(Detector).turn])
             \/ ~CanMove({"waiting"}, "busy") /\ UNCHANGED <<session, stale>>
    /\ End(Detector)
    /\ UNCHANGED <<queue, ledger, turns, panes, inbox, posted, sent, backlog, dropped, lost>>

\* handle_user_reply: WAITING -> BUSY with a fresh turn and no queue row; a
\* message that comes second, or that saw no pane, is dropped.
Answer(e) ==
    LET p == Slack(e) IN
    /\ At(p, "answer")
    /\ \/ /\ Snap(p).pane # NoPane
          /\ Move({"waiting"}, Activate(session, NextTurn, NoRow))
          /\ NewTurn(e)
          /\ Become(p, [Off EXCEPT !.at = "answer_send", !.turn = NextTurn, !.snap = session'])
       \/ /\ Snap(p).pane = NoPane \/ ~CanMove({"waiting"}, "busy")
          /\ Pass(p, "mark")
          /\ UNCHANGED <<session, turns, stale>>
    /\ UNCHANGED <<queue, ledger, panes, inbox, posted, sent, backlog, budget, dropped, lost>>

\* The answer is sent, in one or two steps; one that fails ends it.
SendAnswer(e) ==
    LET p == Slack(e)
        t == thread[p].turn
        pane == Snap(p).pane
    IN
    /\ At(p, "answer_send")
    /\ \/ Send(t, e, pane) /\ Keep(p, "answer_save")
       \/ /\ SendFails(t, pane)
          /\ turns' = IF pane = NoPane THEN turns ELSE Opened(turns, t)
          /\ Goto(p, "answer_undo")
    /\ UNCHANGED <<queue, ledger, session, posted, backlog, dropped, lost>>

\* If that fails the conversation waits again and the message is dropped; the
\* attempt stays open, if there was a pane to try.
AnswerUndo(e) ==
    LET p == Slack(e) IN
    /\ At(p, "answer_undo")
    /\ \/ Move({"busy"}, Clear(session, "waiting"))
       \/ ~CanMove({"busy"}, "waiting") /\ UNCHANGED <<session, stale>>
    /\ Pass(p, "mark")
    /\ UNCHANGED <<queue, ledger, turns, panes, inbox, posted, sent, backlog, budget,
                   dropped, lost>>

\* updated.touch(); store.save(updated): the row of the move, again.
SaveAnswered(e) ==
    LET p == Slack(e) IN
    /\ At(p, "answer_save")
    /\ Save(Snap(p), Snap(p))
    /\ Pass(p, "mark")
    /\ UNCHANGED <<queue, ledger, turns, panes, inbox, posted, sent, backlog, budget,
                   dropped, lost>>

AnswerStep(e) == Answer(e) \/ SendAnswer(e) \/ AnswerUndo(e) \/ SaveAnswered(e)

=============================================================================
