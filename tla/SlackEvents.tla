---------------------------- MODULE SlackEvents -----------------------------
(***************************************************************************)
(* A Slack message from its delivery to the dispatcher: handle_inbound,    *)
(* route_envelope and create_session of slack_bridge.py.  Slack Bolt runs  *)
(* the listener of each event in a thread of its own.                      *)
(***************************************************************************)
EXTENDS SessionStore

\* handle_inbound and the first read of route_envelope: only the delivery that
\* claims the event goes on.
Receive(e) ==
    LET p == Slack(e) IN
    /\ Listening /\ At(p, "off") /\ Spend("message")
    /\ EQ!ClaimEvent(e)
    /\ Enter(p, CASE session.status = "absent" -> "create"
                  [] session.status = "error"  -> "refused"
                  [] OTHER                     -> "cursor",
             session)
    /\ UNCHANGED <<session, turns, panes, inbox, posted, sent, backlog, stale, dropped, lost>>

\* update_session_message_cursor: update_fields writes back the row it read.
\* A killed conversation is revived by the message, any other one routed.
UpdateCursor(e) ==
    LET p == Slack(e) IN
    /\ At(p, "cursor")
    /\ Save(Snap(p), [Snap(p) EXCEPT !.last = e])
    /\ IF Snap(p).status = "killed" THEN Enter(p, "recover", session') ELSE Pass(p, "route")
    /\ UNCHANGED <<queue, ledger, turns, panes, inbox, posted, sent, backlog, budget,
                   dropped, lost>>

\* create_session: no pane or no session slot is left.
RefuseCreate(e) ==
    LET p == Slack(e) IN
    /\ At(p, "create") /\ Spend("refuse")
    /\ Pass(p, "refused")
    /\ UNCHANGED <<queue, ledger, session, turns, panes, inbox, posted, sent,
                   backlog, stale, dropped, lost>>

\* A plausible slip: the row is replaced instead of created if absent.
CreateSessionAnyway(e) ==
    LET p == Slack(e) IN
    /\ At(p, "create")
    /\ session' = [Absent EXCEPT !.status = "creating", !.last = e]
    /\ EQ!CreateInitialQueue(e)
    /\ thread' = [thread EXCEPT
          ![p] = Off,
          ![Launch(e)] = [Off EXCEPT !.at = "start", !.snap = session', !.row = Len(queue) + 1]]
    /\ UNCHANGED <<turns, panes, inbox, posted, sent, backlog, stale, budget, dropped, lost>>

\* create_session: the row and its first queue row in one transaction, then the
\* worker thread; or the race is lost and the event goes to the winner's row
\* (route_after_session_create_race).
CreateSession(e) ==
    LET p == Slack(e) IN
    /\ At(p, "create")
    /\ \/ /\ session.status = "absent"
          /\ session' = [Absent EXCEPT !.status = "creating", !.last = e]
          /\ EQ!CreateInitialQueue(e)
          /\ thread' = [thread EXCEPT
                ![p] = Off,
                ![Launch(e)] = [Off EXCEPT !.at = "start", !.snap = session',
                                           !.row = Len(queue) + 1]]
       \/ /\ session.status # "absent"
          /\ Enter(p, IF session.status = "error" THEN "refused" ELSE "cursor", session)
          /\ UNCHANGED <<queue, ledger, session>>
    /\ UNCHANGED <<turns, panes, inbox, posted, sent, backlog, stale, budget, dropped, lost>>

\* update_event(status="failed"): the session is in error, or was not created.
MarkRefused(e) ==
    /\ At(Slack(e), "refused")
    /\ EQ!UpdateEvent(e, "failed")
    /\ End(Slack(e))
    /\ UNCHANGED <<session, turns, panes, inbox, posted, sent, backlog, stale,
                   budget, dropped, lost>>

\* update_event(status="queued") after the dispatcher has returned, whatever it
\* did with the message.
MarkQueued(e) ==
    /\ At(Slack(e), "mark")
    /\ EQ!UpdateEvent(e, "queued")
    /\ End(Slack(e))
    /\ UNCHANGED <<session, turns, panes, inbox, posted, sent, backlog, stale,
                   budget, dropped, lost>>

SlackStep(e) ==
    \/ UpdateCursor(e) \/ CreateSession(e) \/ MarkRefused(e) \/ MarkQueued(e)

=============================================================================
