---------------------------- MODULE Conversation ----------------------------
(***************************************************************************)
(* One conversation with all the threads that work on it: listeners,       *)
(* worker launches, the hook server, the input-wait detector, the          *)
(* interventions and the restart of the process.                           *)
(***************************************************************************)
EXTENDS SlackEvents, MessageDispatch, TurnReply, WorkerLaunch, SessionLifecycle,
        InputWait, Restart

Listener(e) == SlackStep(e) \/ RouteStep(e) \/ AnswerStep(e)

HookServer(t) == ReplyStep(t) \/ CompleteStep(t)

DetectorStep == EnterWaiting \/ NotifyQuestion

\* The worker's process ends by itself and its pane goes with it.
WorkerExits ==
    /\ Spend("exit")
    /\ \E p \in panes : KillPane(p)
    /\ UNCHANGED <<queue, ledger, session, turns, thread, posted, sent, backlog,
                   stale, dropped, lost>>

\* Chosen by the outside: users, timers, failures.
Outside ==
    \/ \E e \in Events : Receive(e) \/ RefuseCreate(e) \/ RefuseRecover(e)
    \/ Command \/ Detect \/ WorkerExits \/ Crash

Next ==
    \/ Outside
    \/ \E e \in Events : Listener(e) \/ LaunchStep(e)
    \/ \E t \in DOMAIN turns : HookServer(t)
    \/ DetectorStep \/ ControlStep \/ Exit \/ Replay

Spec == Init /\ [][Next]_vars

\* Every thread of the process keeps running, and the worker answers the turns
\* it has.  Messages, failures and interventions are under no obligation.
Fairness ==
    /\ \A e \in Events : WF_vars(Listener(e)) /\ WF_vars(LaunchStep(e))
    /\ \A t \in Turns : WF_vars(t \in DOMAIN turns /\ HookServer(t))
    /\ WF_vars(DetectorStep) /\ WF_vars(ControlStep) /\ WF_vars(Exit) /\ WF_vars(Replay)

FairSpec == Spec /\ Fairness

-----------------------------------------------------------------------------
(* What holds *)

(* Some properties fail once a thread has undone the write of another one   *)
(* by saving a row it had read before, some also once a send that the       *)
(* bridge takes for failed has left its text in the pane.  They are stated  *)
(* for what comes before that:                                              *)

RowTrue == "row" \notin stale
AllTrue == stale = {}

\* Where a listener, a launch and a drain still have the text of a message before them.
Early    == {"cursor", "create", "recover", "route", "append", "active", "race", "send",
             "requeue", "answer", "answer_send"}
Underway == {"start", "launch", "window", "load", "prepare", "allocate", "pane", "ready",
             "dispatch", "first"}
Draining == {"drain_busy", "drain_send", "drain_undo", "drain_retry"}

\* The ways on which a text may still come to a pane: a thread that has it, a row of
\* the queue that can be claimed.
Bears(p, e) ==
    \/ thread[p].at \in Early /\ p = Slack(e)
    \/ thread[p].at \in Underway /\ p = Launch(e)
    \/ /\ thread[p].at \in Draining /\ \E t \in Turns : p = Reply(t)
       /\ queue[thread[p].row].item = e

RowsOn(e)  == {q \in DOMAIN queue : queue[q].item = e}
Waiting(e) == {q \in RowsOn(e) : queue[q].status \in EQ!Visible}

\* Once a message was sent with success, nothing will send it again in the life of the
\* process, whichever way it took (directly, through the queue, as an answer, as the
\* first message of a worker) and however the ways race: a worker gets a text
\* twice only from sends that were reported as failed.
SentOncePerLife ==
    \A e \in Events :
        /\ sent[e] <= 1
        /\ sent[e] = 1 => Waiting(e) = {} /\ \A p \in Processes : ~Bears(p, e)

Leased(q) == q \in DOMAIN queue /\ queue[q].status = "dispatching"

\* A queue row that is claimed is the session's row, or in the hands of a thread
\* that will settle it or put it back: no failure on the way leaves it behind, but
\* for the row that the boot loop claims once more for a worker that is on its way.
RowHasOwner ==
    AllTrue => \A q \in DOMAIN queue :
        Leased(q) => \/ session.row = q \/ q \in dropped
                     \/ \E p \in Processes : thread[p].row = q /\ ~At(p, "off")

\* Where a thread that has a turn in hand can still end it.
HasTurnInHand == {"send", "requeue", "rollback", "drain_send", "drain_undo", "first",
                  "answer_send", "answer_undo", "fail", "fail_load", "fail_error"}

\* A BUSY conversation never hangs: the worker has the turn, or a thread of the
\* bridge is on its way to end it, or its pane is gone, which cleanup_stale sees.
BusyHasEnder ==
    RowTrue /\ session.status = "busy"
    => \/ InWork(session.turn)
       \/ \E p \in Processes : thread[p].turn = session.turn /\ thread[p].at \in HasTurnInHand
       \/ \E t \in Turns : t = session.turn /\ ~At(Reply(t), "off")
       \/ Orphaned(session)

\* The worker is given the next text only when it has answered the last one:
\* what it works on is the turn of the session.
WorkerOnOneTurn == AllTrue => \A m \in inbox : session.turn = m.turn

\* Where a launch has the conversation to itself.
Launching(e) ==
    thread[Launch(e)].at \in {"launch", "window", "load", "prepare", "allocate", "pane",
                              "ready", "dispatch", "first", "timeout", "fail", "fail_load",
                              "suspend_load", "fail_error", "fail_suspend"}

\* A conversation never has two workers on the way, although messages, commands
\* and the boot loop may all start one.
OneLaunch == RowTrue => \A e, f \in Events : Launching(e) /\ Launching(f) => e = f

\* A live pane is the session's, or a thread has it in hand, or the launch it was
\* split off for failed before it was told of it: no worker is left running that
\* nobody knows of.
PaneHasOwner ==
    RowTrue => \A n \in panes : \/ n = session.pane \/ n \in lost
                               \/ \E p \in Processes : thread[p].pane = n

\* A queue row is settled as done only if a turn for its message was answered.
DoneWasAnswered ==
    AllTrue => \A q \in DOMAIN queue : queue[q].status = "done"
        => \E t \in posted : turns[t].event = queue[q].item

\* The answer to a turn moves the conversation on only while that is its turn:
\* a late completion does not end the turn of another message.
EndsOwnTurn ==
    [][\A t \in Turns :
          /\ AllTrue /\ thread[Reply(t)].at \in {"rest", "wait"}
          /\ thread'[Reply(t)] # thread[Reply(t)] /\ session' # session
          => session.turn = t]_vars

\* A BUSY conversation comes to rest: whatever fails on the way, the turn is
\* answered, rolled back or given up.
TurnEnds == ([]RowTrue) => ((session.status = "busy") ~> (session.status # "busy"))

\* A claimed queue row is settled or becomes claimable again, whatever fails.
ClaimEnds == ([]AllTrue) => \A q \in 1..MaxRows : Leased(q) ~> ~Leased(q)

\* The row of the turn that a shutdown in order interrupts is handed to a new
\* worker after the restart, unless the answer came in the end.
Interrupted(q) ==
    /\ At(Control("shutdown"), "put_back") /\ thread[Control("shutdown")].row = q
    /\ Leased(q) /\ \A e \in Events : At(Launch(e), "off")

InterruptedTurnResumes ==
    ([]RowTrue) => \A q \in 1..MaxRows :
        Interrupted(q) ~> \/ q \in DOMAIN queue /\ queue[q].status = "done"
                          \/ \E e \in Events : thread[Launch(e)].row = q

\* Whatever the threads do, the two tables only move as EventQueue lets them: every
\* write of the conversation to them is one operation of bridge_state.py on a row
\* that is there, so that what holds of the queue holds of the conversation.
QueueIsEventQueue == EQ!Spec

-----------------------------------------------------------------------------
(* What the repository says and the code does not do *)

\* Every message that came in reaches the worker, or waits for a worker to ask.
FollowUpDelivered ==
    ([]RowTrue) => \A e \in Events :
        ledger[e] = "received" ~> sent[e] > 0 \/ session.status = "waiting"

\* A message whose answer was posted is not given to a worker again.
NoRepeatedAnswer ==
    [][AllTrue => \A e \in Events : sent'[e] > sent[e] => ledger[e] # "done"]_vars

\* The assertion of _dispatch_message: STARTING -> BUSY succeeds.
LaunchAssertion ==
    [][\A e \in Events :
          At(Launch(e), "dispatch") => thread'[Launch(e)].at # "fail"]_vars

=============================================================================
