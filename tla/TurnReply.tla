----------------------------- MODULE TurnReply ------------------------------
(***************************************************************************)
(* The worker's answer to a turn: _handle_case_reply of hook_server.py     *)
(* with claim_turn_reply of bridge_state.py, and handle_turn_complete of   *)
(* slack_bridge.py.  The hook server runs every request in a thread of its *)
(* own.  Here a turn has one request, which is retried after a failed      *)
(* post; its answer ends the turn (done, close, error) or waits for input. *)
(***************************************************************************)
EXTENDS SessionStore

\* claim_turn_reply: checked and claimed in one transaction.
Answerable(t) ==
    /\ session.status \in {"busy", "waiting"}
    /\ session.turn = t
    /\ turns[t].attempt = "open"

\* The worker answers a turn whose text it has.  An answer that is not (or no
\* longer) wanted is refused as stale, or discarded if the turn was cancelled.
BeginReply(t) ==
    LET p == Reply(t) IN
    /\ Listening /\ At(p, "off") /\ InWork(t)
    /\ \/ Answerable(t) /\ Goto(p, "post") /\ UNCHANGED inbox
       \/ ~Answerable(t) /\ inbox' = Without(t) /\ UNCHANGED thread
    /\ UNCHANGED <<queue, ledger, session, turns, panes, posted, sent, backlog,
                   stale, budget, dropped, lost>>

\* A plausible slip: the result of the Slack call is not looked at.
PostReplyUnseen(t) ==
    LET p == Reply(t) IN
    /\ At(p, "post")
    /\ \/ posted' = posted \cup {t} /\ UNCHANGED budget
       \/ Spend("post") /\ UNCHANGED posted
    /\ inbox' = Without(t)
    /\ Enter(p, "record", session)
    /\ UNCHANGED <<queue, ledger, session, turns, panes, sent, backlog, stale, dropped, lost>>

\* The Slack call: nothing is locked meanwhile.  After it update_fields reads
\* the row it is going to write back.  A failed post releases the claim and
\* the worker's reply command tries again.
PostReply(t) ==
    LET p == Reply(t) IN
    /\ At(p, "post")
    /\ \/ /\ posted' = posted \cup {t}
          /\ inbox' = Without(t)
          /\ Enter(p, "record", session)
          /\ UNCHANGED budget
       \/ /\ Spend("post")
          /\ End(p)
          /\ UNCHANGED <<panes, inbox, posted>>
    /\ UNCHANGED <<queue, ledger, session, turns, panes, sent, backlog, stale, dropped, lost>>

\* _update_session_fields: last_reply_ts and others, with the whole row.
RecordReply(t) ==
    /\ At(Reply(t), "record")
    /\ Save(Snap(Reply(t)), Snap(Reply(t)))
    /\ Goto(Reply(t), "close")
    /\ UNCHANGED <<queue, ledger, turns, panes, inbox, posted, sent, backlog, budget,
                   dropped, lost>>

\* mark_turn_attempt_completed, also on an attempt cancelled meanwhile.
CloseAttempt(t) ==
    /\ At(Reply(t), "close")
    /\ turns' = Completed(turns, t, "closed")
    /\ Goto(Reply(t), "check")
    /\ UNCHANGED <<queue, ledger, session, panes, inbox, posted, sent, backlog,
                   stale, budget, dropped, lost>>

\* handle_turn_complete: the row must still have the turn.
CheckTurn(t) ==
    LET p == Reply(t) IN
    /\ At(p, "check")
    /\ \/ /\ session.status \notin {"absent", "error", "killed"} /\ session.turn = t
          /\ Enter(p, "identity", session)
       \/ /\ session.status \in {"absent", "error", "killed"} \/ session.turn # t
          /\ End(p)
    /\ UNCHANGED <<queue, ledger, session, turns, panes, inbox, posted, sent,
                   backlog, stale, budget, dropped, lost>>

\* update_fields(worker_session_id): the whole row again.  complete_turn is next.
SaveIdentity(t) ==
    /\ At(Reply(t), "identity")
    /\ Save(Snap(Reply(t)), Snap(Reply(t)))
    /\ Goto(Reply(t), "finish")
    /\ UNCHANGED <<queue, ledger, turns, panes, inbox, posted, sent, backlog, budget,
                   dropped, lost>>

\* update_event(status="done") for the event of the turn, after complete_turn.
MarkDone(t) ==
    /\ At(Reply(t), "verdict")
    /\ EQ!UpdateEvent(turns[t].event, "done")
    /\ End(Reply(t))
    /\ UNCHANGED <<session, turns, panes, inbox, posted, sent, backlog, stale,
                   budget, dropped, lost>>

ReplyStep(t) ==
    \/ BeginReply(t) \/ PostReply(t) \/ RecordReply(t) \/ CloseAttempt(t)
    \/ CheckTurn(t) \/ SaveIdentity(t) \/ MarkDone(t)

=============================================================================
