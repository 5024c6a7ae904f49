-------------------------- MODULE MessageDispatch ---------------------------
(***************************************************************************)
(* message_dispatch.py and recover_session: what happens to a message of   *)
(* an existing conversation, how a turn is completed and how the queue is  *)
(* drained.  route runs in the listener thread Slack(e), complete_turn in  *)
(* the hook server's thread Reply(t) of the turn whose answer came in.     *)
(***************************************************************************)
EXTENDS SessionStore

\* _send_payload: after a failed send the whole text is sent once more.  Three sends
\* are made at most; here it is left open with which of them it gives up.
SendsAgain(t, pane) ==
    /\ SendFails(t, pane)
    /\ turns' = Opened(turns, t)

\* When it has given up the attempt is closed.
SendFailsAndCloses(t, pane) ==
    /\ SendFails(t, pane)
    /\ turns' = Completed(Opened(turns, t), t, "closed")

-----------------------------------------------------------------------------
(* route *)

\* The status read here decides the branch; the branch acts on it later.
\* In a WAITING conversation a text is the answer, a message without text is
\* dropped and any other event (a reaction) is queued.
Branches ==
    [waiting |-> {"answer", "append", "mark"}, suspended |-> {"recover"},
     idle |-> {"active"}, busy |-> {"append"}, creating |-> {"append"},
     starting |-> {"append"}, error |-> {"mark"}, killed |-> {"mark"},
     absent |-> {"mark"}]

Route(e) ==
    /\ At(Slack(e), "route")
    /\ \E branch \in Branches[session.status] : Enter(Slack(e), branch, session)
    /\ UNCHANGED <<queue, ledger, session, turns, panes, inbox, posted, sent,
                   backlog, stale, budget, dropped, lost>>

\* _route_queue: the row is appended whatever the status is by now.
RouteQueue(e) ==
    /\ At(Slack(e), "append")
    /\ EQ!AppendEventQueue(e)
    /\ Pass(Slack(e), "mark")
    /\ UNCHANGED <<session, turns, panes, inbox, posted, sent, backlog, stale,
                   budget, dropped, lost>>

\* _route_active: IDLE -> BUSY with a fresh turn that has no queue row.
RouteActive(e) ==
    LET p == Slack(e) IN
    /\ At(p, "active")
    /\ \/ /\ Move({"idle"}, Activate(session, NextTurn, NoRow))
          /\ NewTurn(e)
          /\ Become(p, [Off EXCEPT !.at = "send", !.turn = NextTurn, !.pane = session.pane])
       \/ /\ ~CanMove({"idle"}, "busy")
          /\ Keep(p, "race")
          /\ UNCHANGED <<session, turns, stale>>
    /\ UNCHANGED <<queue, ledger, panes, inbox, posted, sent, backlog, budget, dropped, lost>>

\* _handle_route_race: route again if the status has changed, else give up.
RouteRace(e) ==
    LET p == Slack(e) IN
    /\ At(p, "race")
    /\ Pass(p, IF session.status # Snap(p).status THEN "route" ELSE "mark")
    /\ UNCHANGED <<queue, ledger, session, turns, panes, inbox, posted, sent,
                   backlog, stale, budget, dropped, lost>>

SendActive(e) ==
    LET p == Slack(e)
        r == thread[p]
    IN
    /\ At(p, "send")
    /\ \/ Send(r.turn, e, r.pane) /\ Pass(p, "mark")
       \/ SendsAgain(r.turn, r.pane) /\ UNCHANGED thread
       \/ SendFailsAndCloses(r.turn, r.pane) /\ Goto(p, "requeue")
    /\ UNCHANGED <<queue, ledger, session, posted, backlog, dropped, lost>>

\* _rollback_active_message: the message joins the queue, then BUSY -> IDLE.
Requeue(e) ==
    /\ At(Slack(e), "requeue")
    /\ EQ!AppendEventQueue(e)
    /\ Goto(Slack(e), "rollback")
    /\ UNCHANGED <<session, turns, panes, inbox, posted, sent, backlog, stale,
                   budget, dropped, lost>>

\* BUSY -> IDLE if it still is BUSY, with whatever turn it has.
ReleaseBusy ==
    \/ Move({"busy"}, Clear(session, "idle"))
    \/ ~CanMove({"busy"}, "idle") /\ UNCHANGED <<session, stale>>

\* A plausible slip: the message is queued again but the session stays BUSY.
RollbackNothing(e) ==
    /\ At(Slack(e), "rollback")
    /\ Pass(Slack(e), "mark")
    /\ UNCHANGED <<queue, ledger, session, turns, panes, inbox, posted, sent,
                   backlog, stale, budget, dropped, lost>>

Rollback(e) ==
    /\ At(Slack(e), "rollback")
    /\ ReleaseBusy
    /\ Pass(Slack(e), "mark")
    /\ UNCHANGED <<queue, ledger, turns, panes, inbox, posted, sent, backlog, budget,
                   dropped, lost>>

\* recover_session: no pane or slot is left (the message is dropped), ...
RefuseRecover(e) ==
    /\ At(Slack(e), "recover") /\ Spend("refuse")
    /\ Pass(Slack(e), "mark")
    /\ UNCHANGED <<queue, ledger, session, turns, panes, inbox, posted, sent,
                   backlog, stale, dropped, lost>>

\* ... or one caller moves the conversation to STARTING and launches a worker
\* with its own message; a caller that comes second, or whose move is overtaken
\* by another change of status, drops its message.
RecoverSession(e) ==
    LET p == Slack(e) IN
    /\ At(p, "recover")
    /\ \/ /\ Move({"suspended", "killed"},
                  [Clear(session, "starting") EXCEPT !.why = "none", !.pane = NoPane])
          /\ thread' = [thread EXCEPT
                ![p] = [Off EXCEPT !.at = "mark"],
                ![Launch(e)] = [Off EXCEPT !.at = "launch", !.snap = session']]
       \/ /\ session.status # Snap(p).status \/ ~CanMove({"suspended", "killed"}, "starting")
          /\ Pass(p, "mark")
          /\ UNCHANGED <<session, stale>>
    /\ UNCHANGED <<queue, ledger, turns, panes, inbox, posted, sent, backlog, budget,
                   dropped, lost>>

RouteStep(e) ==
    \/ Route(e) \/ RouteQueue(e) \/ RouteActive(e) \/ RouteRace(e) \/ SendActive(e)
    \/ Requeue(e) \/ Rollback(e) \/ RecoverSession(e)

-----------------------------------------------------------------------------
(* complete_turn and _drain_queue *)

\* _complete_claimed_queue on the row that is current when it is read.
Claimed(q, statuses) == q # NoRow /\ queue[q].status \in statuses

Consume(q) ==
    \/ Claimed(q, {"dispatching"}) /\ EQ!ConsumeEventQueueRow(q)
    \/ (q = NoRow \/ Claimed(q, {"done"})) /\ UNCHANGED <<queue, ledger>>

CannotConsume(q) == Claimed(q, EQ!QueueStatus \ {"dispatching", "done"})

\* complete_turn reads the current row.  An answer that ends a turn of a
\* WAITING conversation consumes nothing; "wait" then changes nothing.  A row
\* that cannot be consumed ends the completion.
BeginComplete(t) ==
    LET p == Reply(t) IN
    /\ At(p, "finish")
    /\ \/ /\ session.status = "waiting"
          /\ \E to \in {"rest", "verdict"} : Enter(p, to, session)
          /\ UNCHANGED <<queue, ledger>>
       \/ /\ session.status # "waiting"
          /\ Consume(session.row)
          /\ \E to \in {"rest", "wait"} : Enter(p, to, session)
       \/ /\ session.status # "waiting"
          /\ CannotConsume(session.row)
          /\ End(p)
          /\ UNCHANGED <<queue, ledger>>
    /\ UNCHANGED <<session, turns, panes, inbox, posted, sent, backlog, stale,
                   budget, dropped, lost>>

\* action "wait": BUSY -> WAITING.
CompleteWait(t) ==
    LET p == Reply(t) IN
    /\ At(p, "wait")
    /\ \/ Move({"busy"}, Clear(session, "waiting")) /\ Pass(p, "verdict")
       \/ ~CanMove({"busy"}, "waiting") /\ End(p) /\ UNCHANGED <<session, stale>>
    /\ UNCHANGED <<queue, ledger, turns, panes, inbox, posted, sent, backlog, budget,
                   dropped, lost>>

\* The other actions: WAITING or BUSY -> IDLE, as it was read; the queue is seen
\* inside that transaction.  If the move fails, a conversation at rest by now counts as completed.
CompleteTurn(t) ==
    LET p == Reply(t)
        from == IF Snap(p).status = "waiting" THEN "waiting" ELSE "busy"
    IN
    /\ At(p, "rest")
    /\ \/ /\ Move({from}, Clear(session, "idle"))
          /\ IF Pending
             THEN Become(p, [Off EXCEPT !.at = "drain", !.row = QueueHead])
             ELSE Pass(p, "verdict")
       \/ /\ ~CanMove({from}, "idle")
          /\ IF session.status = "idle" /\ session.turn = NoTurn
             THEN Pass(p, "verdict") ELSE End(p)
          /\ UNCHANGED <<session, stale>>
    /\ UNCHANGED <<queue, ledger, turns, panes, inbox, posted, sent, backlog, budget,
                   dropped, lost>>

\* _drain_queue: claim the head if it is the message seen.
DrainClaim(t) ==
    LET p == Reply(t)
        q == thread[p].row
    IN
    /\ At(p, "drain")
    /\ \/ /\ EQ!ClaimEventQueueHead("conversation", q, queue[q].item)
          /\ Goto(p, "drain_busy")
       \/ /\ ~EQ!IsHead(q, "conversation")
          /\ Pass(p, "verdict")
          /\ UNCHANGED <<queue, ledger>>
    /\ UNCHANGED <<session, turns, panes, inbox, posted, sent, backlog, stale,
                   budget, dropped, lost>>

\* IDLE -> BUSY with a fresh turn for the row, or the row becomes retryable.
DrainBusy(t) ==
    LET p == Reply(t)
        q == thread[p].row
    IN
    /\ At(p, "drain_busy")
    /\ \/ /\ Move({"idle"}, Activate(session, NextTurn, q))
          /\ NewTurn(queue[q].item)
          /\ Become(p, [thread[p] EXCEPT !.at = "drain_send", !.turn = NextTurn,
                                         !.pane = session.pane])
          /\ UNCHANGED <<queue, ledger>>
       \/ /\ ~CanMove({"idle"}, "busy")
          /\ EQ!MarkEventQueueRetryable(q)
          /\ Pass(p, "verdict")
          /\ UNCHANGED <<session, turns, stale>>
    /\ UNCHANGED <<panes, inbox, posted, sent, backlog, budget, dropped, lost>>

\* A plausible slip: the turn is completed once more after the next was sent.
DrainSendThenComplete(t) ==
    LET p == Reply(t)
        r == thread[p]
    IN
    /\ At(p, "drain_send")
    /\ \/ Send(r.turn, queue[r.row].item, r.pane) /\ Enter(p, "rest", session)
       \/ SendsAgain(r.turn, r.pane) /\ UNCHANGED thread
       \/ SendFailsAndCloses(r.turn, r.pane) /\ Goto(p, "drain_undo")
    /\ UNCHANGED <<queue, ledger, session, posted, backlog, dropped, lost>>

DrainSend(t) ==
    LET p == Reply(t)
        r == thread[p]
    IN
    /\ At(p, "drain_send")
    /\ \/ Send(r.turn, queue[r.row].item, r.pane) /\ Pass(p, "verdict")
       \/ SendsAgain(r.turn, r.pane) /\ UNCHANGED thread
       \/ SendFailsAndCloses(r.turn, r.pane) /\ Goto(p, "drain_undo")
    /\ UNCHANGED <<queue, ledger, session, posted, backlog, dropped, lost>>

DrainUndo(t) ==
    /\ At(Reply(t), "drain_undo")
    /\ ReleaseBusy
    /\ Goto(Reply(t), "drain_retry")
    /\ UNCHANGED <<queue, ledger, turns, panes, inbox, posted, sent, backlog, budget,
                   dropped, lost>>

\* A plausible slip: the row is written and the ledger forgotten.
DrainRetryRowOnly(t) ==
    /\ At(Reply(t), "drain_retry")
    /\ EQ!SetRows({thread[Reply(t)].row}, "retryable") /\ UNCHANGED ledger
    /\ Pass(Reply(t), "verdict")
    /\ UNCHANGED <<session, turns, panes, inbox, posted, sent, backlog, stale,
                   budget, dropped, lost>>

DrainRetry(t) ==
    /\ At(Reply(t), "drain_retry")
    /\ \/ EQ!MarkEventQueueRetryable(thread[Reply(t)].row)
       \/ queue[thread[Reply(t)].row].status \in EQ!Settled /\ UNCHANGED <<queue,
                                                                           ledger>>
    /\ Pass(Reply(t), "verdict")
    /\ UNCHANGED <<session, turns, panes, inbox, posted, sent, backlog, stale,
                   budget, dropped, lost>>

CompleteStep(t) ==
    \/ BeginComplete(t) \/ CompleteWait(t) \/ CompleteTurn(t) \/ DrainClaim(t)
    \/ DrainBusy(t) \/ DrainSend(t) \/ DrainUndo(t) \/ DrainRetry(t)

=============================================================================
