----------------------------- MODULE Admission ------------------------------
(***************************************************************************)
(* The first messages of several conversations, or messages to ended ones, *)
(* that come at once: how slack_bridge.py admits them to the pane pool,    *)
(* acknowledges them and how worker_process.py brings their workers up.    *)
(*                                                                         *)
(* Each message has a listener thread, each launch a thread, an `end` of   *)
(* the user or the cleanup loop another.  What one conversation does with  *)
(* its turns and its queue is the subject of Conversation; here its row    *)
(* counts for its status and its pane.  A load of _update_session and the  *)
(* save after it are one step, WorkerLaunch takes them apart; the cursor   *)
(* save of a message, whose copy is older, is a step of its own.           *)
(* A notice and what the ledger records of it are one step: the Slack call *)
(* takes a while, but nobody else looks at what it changes; the time of    *)
(* activity that post_to_slack then writes into the row is left out.       *)
(***************************************************************************)
EXTENDS PanePool

CONSTANTS
    MaxMessages,    \* messages per conversation (a model bound)
    DailyLimit      \* NOTIFICATION_DAILY_LIMIT of the channel

ASSUME AdmissionAssumption == MaxMessages \in Nat \ {0} /\ DailyLimit \in Nat

VARIABLES
    session,    \* the rows: status and pane
    ledger,     \* event_ledger: the status of each message
    ack,        \* ack_ledger
    slots,      \* runtime_counters: the channel's notifications of the day
    listen,     \* the listener threads
    launch,     \* the launch threads
    ending,     \* the thread that ends a conversation
    budget,     \* what is left of the faults and interventions
    notices,    \* history: the notifications that are in Slack
    stale,      \* history: a cursor save undid another thread's write
    closed,     \* history: a window went with its last worker
    cut,        \* history: conversations that were killed during a launch
    stranded,   \* history: messages whose listener died of an exception
    lost,       \* history: panes whose marking failed
    robbed      \* history: conversations whose pane was taken for an orphan though
                \* it had been theirs since before the check

vars == <<setup, panes, opening, session, ledger, ack, slots, listen, launch, ending, budget,
          notices, stale, cut, closed, stranded, lost, robbed>>

rowVars    == <<session, stale, cut>>
noticeVars == <<ack, slots, notices>>
faultVars  == <<closed, stranded, lost, robbed>>

Messages == Conversations \X (1..MaxMessages)
Of(m)    == m[1]

-----------------------------------------------------------------------------
(* The rows *)

Statuses == {"absent", "creating", "starting", "busy", "idle", "suspended", "error", "killed"}
Terminal == {"error", "killed"}

ACTIVE_CAPACITY_STATUSES == {"creating", "starting", "busy", "idle"}
\* PANE_CLAIM_STATUSES has the same members.
RECOVERABLE_TMUX_STATUSES == ACTIVE_CAPACITY_STATUSES \cup {"suspended"}

Row(status, pane) == [status |-> status, pane |-> pane]
Status(c)    == session[c].status
SetRow(c, r) == session' = [session EXCEPT ![c] = r]
Counted      == {c \in Conversations : Status(c) \in ACTIVE_CAPACITY_STATUSES}

-----------------------------------------------------------------------------
(* Threads *)

\* for: what the capacity is checked for.  seen, todo, next, live: the panes that rows
\* name, the orphans still to kill, the window looked at and the panes counted.
\* before: the panes in use when the rows were read (history).
Idle == [at |-> "off", snap |-> Row("absent", NoPane), for |-> "create", seen |-> {},
         before |-> {}, todo |-> {}, next |-> 1, live |-> 0]
Off  == [at |-> "off", pane |-> NoPane]

Nobody == [at |-> "off", conv |-> "none", pane |-> NoPane]

Listens(m, where)   == listen[m].at = where
Listen(m, r)        == listen' = [listen EXCEPT ![m] = r]
ListenAt(m, where)  == Listen(m, [listen[m] EXCEPT !.at = where])
Launches(m, where)  == launch[m].at = where
Launch(m, where, p) == launch' = [launch EXCEPT ![m] = [at |-> where, pane |-> p]]
LaunchAt(m, where)  == Launch(m, where, launch[m].pane)
Record(m, verdict)  == ledger' = [ledger EXCEPT ![m] = verdict]

\* The threads that kill panes: a listener reaps, a launch fails, a conversation is ended.
Reaper(m)   == <<"reap", m>>
Launcher(m) == <<"launch", m>>
Ender       == <<"end">>
Killers     == {Reaper(m) : m \in Messages} \cup {Launcher(m) : m \in Messages} \cup {Ender}

Spend(k) == budget[k] > 0 /\ budget' = [budget EXCEPT ![k] = @ - 1]

\* tmux does not give an id again: here one that nothing mentions is new.
Mentioned ==
    DOMAIN panes \cup lost \cup {session[c].pane : c \in Conversations} \cup {ending.pane}
    \cup {launch[m].pane : m \in Messages}
    \cup UNION {listen[m].seen \cup listen[m].todo \cup {listen[m].snap.pane} : m \in Messages}
NewId == CHOOSE n \in 1..(Cardinality(Mentioned) + 1) : n \notin Mentioned

-----------------------------------------------------------------------------
(* Notifications: post_to_slack of slack_api.py without substantive *)

\* A plausible slip: the limit itself is given away too.
SlotLeftAtLimit == slots <= DailyLimit
\* claim_runtime_counter_slot reads, compares and counts in one transaction.
SlotLeft == slots < DailyLimit

\* A slot is taken before the call and kept if the call fails; a call that timed
\* out may have been accepted all the same.
Notify(result) ==
    \/ /\ ~SlotLeft /\ result = "suppressed_daily_limit"
       /\ UNCHANGED <<slots, notices, budget>>
    \/ /\ SlotLeft /\ result = "posted"
       /\ slots' = slots + 1 /\ notices' = notices + 1
       /\ UNCHANGED budget
    \/ /\ SlotLeft /\ result = "timed_out" /\ Spend("slack")
       /\ slots' = slots + 1 /\ notices' \in {notices, notices + 1}

Results == {"posted", "timed_out", "suppressed_daily_limit"}
Say == \E result \in Results : Notify(result)

-----------------------------------------------------------------------------
(* A listener *)

\* handle_inbound and the first read of route_envelope; update_fields reads the row
\* once more right after it, which is the same read here.
Receive(m) ==
    LET c == Of(m) IN
    /\ ledger[m] = "none" /\ Spend(IF m[2] = 1 THEN "message" ELSE "more")
    /\ \A n \in 1..(m[2] - 1) : ledger[<<c, n>>] # "none"
    /\ Record(m, "received")
    /\ Listen(m, [Idle EXCEPT
          !.at = CASE Status(c) = "absent" -> "rows"
                   [] Status(c) = "error"  -> "refuse"
                   [] OTHER                -> "cursor",
          !.snap = session[c]])
    /\ UNCHANGED <<poolVars, rowVars, noticeVars, faultVars, launch, ending>>

\* The conversation is in error, or the pool is full: a notice and the verdict.
\* recover_session only says so; its caller marks the message queued.
Refuse(m) ==
    /\ Listens(m, "refuse")
    /\ Say
    /\ Record(m, IF listen[m].for = "recover" THEN "queued" ELSE "failed")
    /\ Listen(m, Idle)
    /\ UNCHANGED <<poolVars, rowVars, faultVars, ack, launch, ending>>

\* update_session_message_cursor: the row as it was read is written back.
UpdateCursor(m) ==
    LET c == Of(m) IN
    /\ Listens(m, "cursor")
    /\ SetRow(c, listen[m].snap)
    /\ stale' = (stale \/ session[c] # listen[m].snap)
    /\ ListenAt(m, "ack")
    /\ UNCHANGED <<poolVars, noticeVars, faultVars, cut, ledger, launch, ending, budget>>

\* maybe_post_fixed_ack: for a conversation that is new or idle.  A created
\* conversation's worker thread is started next.
Acknowledge(m) ==
    LET created == listen[m].snap.status = "absent" IN
    /\ Listens(m, "ack")
    /\ IF created \/ listen[m].snap.status = "idle"
       THEN \E result \in Results :
               Notify(result) /\ ack' = [ack EXCEPT ![m] = result]
       ELSE /\ ack' = [ack EXCEPT ![m] = "suppressed_busy"]
            /\ UNCHANGED <<slots, notices, budget>>
    /\ IF created
       THEN Listen(m, Idle) /\ Launch(m, "start", NoPane)
       ELSE ListenAt(m, "route") /\ UNCHANGED launch
    /\ UNCHANGED <<poolVars, rowVars, faultVars, ledger, ending>>

\* recover_fn for an ended conversation; else dispatch.route, which reads the row
\* again: the text is sent to an idle worker, queued or refused.
Route(m) ==
    LET c == Of(m)
        recovers == listen[m].snap.status = "killed" \/ Status(c) = "suspended"
    IN
    /\ Listens(m, "route")
    /\ IF recovers
       THEN Listen(m, [Idle EXCEPT !.at = "rows", !.for = "recover"]) /\ UNCHANGED ledger
       ELSE Record(m, "queued") /\ Listen(m, Idle)
    /\ IF ~recovers /\ Status(c) = "idle"
       THEN SetRow(c, Row("busy", session[c].pane)) ELSE UNCHANGED session
    /\ IF ~recovers /\ Status(c) = "error" THEN Say ELSE UNCHANGED <<slots, notices, budget>>
    /\ UNCHANGED <<poolVars, faultVars, stale, cut, ack, launch, ending>>

-----------------------------------------------------------------------------
(* has_tmux_pane_capacity and has_session_capacity *)

\* A launch has taken the pane and is bringing a worker up in it.
Holding(m) == launch[m].at \in {"mark", "type", "boot", "dispatch"}

\* A conversation that may go on has a pane in its row, or in a launch.  One that was
\* killed during a launch is left out: the launch goes on and nobody waits for it.
UsesPane(c, p) ==
    /\ Status(c) \in RECOVERABLE_TMUX_STATUSES /\ c \notin cut
    /\ \/ session[c].pane = p
       \/ \E m \in Messages : Of(m) = c /\ Holding(m) /\ launch[m].pane = p

InUse(p) == panes[p].mark \in Conversations /\ UsesPane(panes[p].mark, p)

\* The sessions are listed once, before any pane is.
ReadRows(m) ==
    /\ Listens(m, "rows")
    /\ Listen(m, [listen[m] EXCEPT
          !.at = "list", !.next = 1, !.live = 0,
          !.seen = {session[c].pane : c \in {d \in Conversations :
                        Status(d) \in RECOVERABLE_TMUX_STATUSES}} \ {NoPane},
          !.before = {p \in DOMAIN panes : InUse(p)}])
    /\ UNCHANGED <<poolVars, rowVars, noticeVars, faultVars, ledger, launch, ending, budget>>

\* A query of a window that is gone raises; the listener dies of it.
Strand(m) ==
    /\ stranded' = stranded \cup {m}
    /\ Listen(m, Idle)

\* safe_list_panes and bridge_owned_pane_ids: the panes marked with an identity
\* that no listed session names are orphans.
ListWindow(m) ==
    LET w == Windows[listen[m].next] IN
    /\ Listens(m, "list")
    /\ IF WindowGone(w) THEN Strand(m)
       ELSE /\ Listen(m, [listen[m] EXCEPT !.at = "reap",
                  !.todo = {p \in ListPanes(w) :
                     panes[p].mark \in Conversations /\ p \notin listen[m].seen}])
            /\ UNCHANGED stranded
    /\ UNCHANGED <<poolVars, rowVars, noticeVars, closed, lost, robbed, ledger, launch, ending, budget>>

\* kill_pane asks once more whether the pane is ours, not whose it is.
ReapOrphan(m, p) ==
    /\ Listens(m, "reap") /\ p \in listen[m].todo /\ ~InKill(Reaper(m))
    /\ Listen(m, [listen[m] EXCEPT !.todo = @ \ {p}])
    /\ ClosePane(Reaper(m), p) \/ (~IsOwned(p) /\ UNCHANGED <<panes, opening>>)
    /\ robbed' = IF LivePane(p) /\ InUse(p) /\ p \in listen[m].before
                 THEN robbed \cup {panes[p].mark} ELSE robbed
    /\ UNCHANGED <<setup, rowVars, noticeVars, closed, stranded, lost, ledger, launch, ending, budget>>

\* kill_pane goes on; an exception is logged.
ReopenAfterReap(m) ==
    /\ Listens(m, "reap")
    /\ EnsureWindow(Reaper(m), NewId) \/ NoSession(Reaper(m))
    /\ UNCHANGED <<setup, rowVars, noticeVars, faultVars, ledger, listen, launch, ending, budget>>

\* A plausible slip: the last window is not taken for the last one.
AnotherWindowAtLast(m) == listen[m].next <= Len(Windows)
AnotherWindow(m)       == listen[m].next < Len(Windows)

CountWindow(m) ==
    LET w    == Windows[listen[m].next]
        live == listen[m].live + Cardinality(ListPanes(w))
    IN
    /\ Listens(m, "reap") /\ listen[m].todo = {} /\ ~InKill(Reaper(m))
    /\ \/ WindowGone(w) /\ Strand(m)
       \/ /\ ~WindowGone(w) /\ AnotherWindow(m)
          /\ Listen(m, [listen[m] EXCEPT !.at = "list", !.next = @ + 1, !.live = live])
          /\ UNCHANGED stranded
       \/ /\ ~WindowGone(w) /\ ~AnotherWindow(m)
          /\ Listen(m, [Idle EXCEPT !.at = IF live < PoolMax THEN "count" ELSE "refuse",
                                    !.for = listen[m].for])
          /\ UNCHANGED stranded
    /\ UNCHANGED <<poolVars, rowVars, noticeVars, closed, lost, robbed, ledger, launch, ending, budget>>

CountSessions(m) ==
    /\ Listens(m, "count")
    /\ ListenAt(m, IF Cardinality(Counted) < PoolMax THEN listen[m].for ELSE "refuse")
    /\ UNCHANGED <<poolVars, rowVars, noticeVars, faultVars, ledger, launch, ending, budget>>

-----------------------------------------------------------------------------

\* create_initial_queue_if_absent, or the race is lost
\* (route_after_session_create_race).
CreateSession(m) ==
    LET c == Of(m) IN
    /\ Listens(m, "create")
    /\ IF Status(c) = "absent"
       THEN /\ SetRow(c, Row("creating", NoPane))
            /\ Listen(m, [Idle EXCEPT !.at = "ack"])
            /\ Record(m, "dispatching")
       ELSE /\ UNCHANGED session
            /\ IF Status(c) = "error"
               THEN Record(m, "failed") /\ Listen(m, Idle)
               ELSE /\ Listen(m, [Idle EXCEPT !.at = "cursor", !.snap = session[c]])
                    /\ UNCHANGED ledger
    /\ UNCHANGED <<poolVars, noticeVars, faultVars, stale, cut, launch, ending, budget>>

\* recover_session: SUSPENDED or KILLED -> STARTING and a launch, or a notice that it
\* could not be resumed.
RecoverSession(m) ==
    LET c == Of(m) IN
    /\ Listens(m, "recover")
    /\ IF Status(c) \in {"suspended", "killed"}
       THEN SetRow(c, Row("starting", NoPane)) /\ Launch(m, "launch", NoPane)
       ELSE UNCHANGED <<session, launch>>
    /\ Say
    /\ Record(m, "queued")
    /\ Listen(m, Idle)
    /\ UNCHANGED <<poolVars, faultVars, stale, cut, ack, ending>>

-----------------------------------------------------------------------------
(* A launch *)

\* start: CREATING -> STARTING, else somebody else has begun.
StartWorker(m) ==
    LET c == Of(m) IN
    /\ Launches(m, "start")
    /\ IF Status(c) = "creating"
       THEN SetRow(c, Row("starting", session[c].pane)) /\ LaunchAt(m, "launch")
       ELSE LaunchAt(m, "off") /\ UNCHANGED session
    /\ UNCHANGED <<poolVars, noticeVars, faultVars, stale, cut, ledger, listen, ending, budget>>

BeginLaunch(m) ==
    /\ Launches(m, "launch")
    /\ LaunchAt(m, IF Status(Of(m)) \in Terminal THEN "off" ELSE "window")
    /\ UNCHANGED <<poolVars, rowVars, noticeVars, faultVars, ledger, listen, ending, budget>>

\* _PANE_LAUNCH_LOCK: from the window to the command that starts the worker.
LaunchLocked == \E n \in Messages : launch[n].at \in {"allocate", "attach", "mark", "type"}

\* _prepare_window checks under the lock and saves STARTING.
PrepareWindow(m) ==
    LET c == Of(m) IN
    /\ Launches(m, "window") /\ ~LaunchLocked
    /\ IF Status(c) \in Terminal
       THEN LaunchAt(m, "fail") /\ UNCHANGED session
       ELSE SetRow(c, Row("starting", session[c].pane)) /\ LaunchAt(m, "allocate")
    /\ UNCHANGED <<poolVars, noticeVars, faultVars, stale, cut, ledger, listen, ending, budget>>

\* allocate_pane, which may also fail because tmux or the geometry does not allow it.
AllocatePane(m) ==
    /\ Launches(m, "allocate")
    /\ \/ /\ CanAllocate
          /\ panes' = Allocated(NewId).panes
          /\ Launch(m, "attach", Allocated(NewId).pane)
          /\ UNCHANGED budget
       \/ ~CanAllocate /\ LaunchAt(m, "fail") /\ UNCHANGED <<panes, budget>>
       \/ CanAllocate /\ Spend("launch") /\ LaunchAt(m, "fail") /\ UNCHANGED panes
    /\ UNCHANGED <<setup, opening, rowVars, noticeVars, faultVars, ledger, listen, ending>>

\* A plausible slip: whose pane it is already is not asked.
NeverClaimed(c, p) == FALSE
\* _pane_claim_conflict
ClaimedByOther(c, p) ==
    \E d \in Conversations \ {c} :
        Status(d) \in RECOVERABLE_TMUX_STATUSES /\ session[d].pane = p

\* A plausible slip: the row does not learn of the pane.
AttachUnsaved(m) ==
    LET c == Of(m)
        p == launch[m].pane
    IN
    /\ Launches(m, "attach")
    /\ IF ClaimedByOther(c, p) THEN Launch(m, "fail", NoPane) ELSE LaunchAt(m, "mark")
    /\ UNCHANGED <<poolVars, rowVars, noticeVars, faultVars, ledger, listen, ending, budget>>

\* The pane goes into the row, before it is marked.  pane_id of _launch is not set
\* until _prepare_window has returned: a failure up to there leaves the pane.
AttachPane(m) ==
    LET c == Of(m)
        p == launch[m].pane
    IN
    /\ Launches(m, "attach")
    /\ IF ClaimedByOther(c, p)
       THEN Launch(m, "fail", NoPane) /\ UNCHANGED session
       ELSE SetRow(c, Row(Status(c), p)) /\ LaunchAt(m, "mark")
    /\ UNCHANGED <<poolVars, noticeVars, faultVars, stale, cut, ledger, listen, ending, budget>>

\* A plausible slip: a pane that has no marks is not ours to mark.
MarkOnlyOurs(m) ==
    LET p == launch[m].pane IN
    /\ Launches(m, "mark")
    /\ IF IsOwned(p)
       THEN panes' = [panes EXCEPT ![p].mark = Of(m)] /\ LaunchAt(m, "type")
       ELSE Launch(m, IF LivePane(p) THEN "type" ELSE "fail", p) /\ UNCHANGED panes
    /\ UNCHANGED <<setup, opening, rowVars, noticeVars, faultVars, ledger, listen, ending, budget>>

\* mark_bridge_pane: several tmux calls, the identity late; each may fail and leaves
\* what the earlier ones have set.
MarkPane(m) ==
    LET p == launch[m].pane IN
    /\ Launches(m, "mark")
    /\ \/ /\ LivePane(p)
          /\ panes' = [panes EXCEPT ![p].mark = Of(m)] /\ LaunchAt(m, "type")
          /\ UNCHANGED <<lost, budget>>
       \/ /\ LivePane(p) /\ Spend("launch")
          /\ panes' \in {[panes EXCEPT ![p].mark = k] : k \in {panes[p].mark, "bridge", Of(m)}}
          /\ lost' = lost \cup {p} /\ Launch(m, "fail", NoPane)
       \/ /\ ~LivePane(p) /\ Launch(m, "fail", NoPane)
          /\ UNCHANGED <<panes, lost, budget>>
    /\ UNCHANGED <<setup, opening, rowVars, noticeVars, closed, stranded, robbed, ledger, listen, ending>>

\* _start_command, the last step under the lock.
StartCommand(m) ==
    /\ Launches(m, "type")
    /\ LaunchAt(m, IF LivePane(launch[m].pane) THEN "boot" ELSE "fail")
    /\ UNCHANGED <<poolVars, rowVars, noticeVars, faultVars, ledger, listen, ending, budget>>

\* The command of the pane replaces its shell by the worker.
WorkerComesUp(m) ==
    LET p == launch[m].pane IN
    /\ Launches(m, "boot") /\ LivePane(p) /\ panes[p].shell
    /\ panes' = [panes EXCEPT ![p].shell = FALSE]
    /\ UNCHANGED <<setup, opening, rowVars, noticeVars, faultVars, ledger, listen, launch, ending, budget>>

\* _wait_for_ready
WaitForReady(m) ==
    LET p == launch[m].pane IN
    /\ Launches(m, "boot")
    /\ \/ LivePane(p) /\ ~panes[p].shell /\ LaunchAt(m, "dispatch") /\ UNCHANGED budget
       \/ LivePane(p) /\ Spend("launch") /\ LaunchAt(m, "suspend")
       \/ ~LivePane(p) /\ (\E to \in {"fail", "suspend"} : LaunchAt(m, to)) /\ UNCHANGED budget
    /\ UNCHANGED <<poolVars, rowVars, noticeVars, faultVars, ledger, listen, ending>>

\* _dispatch_message: STARTING -> BUSY, and the text is sent.
DispatchMessage(m) ==
    LET c == Of(m) IN
    /\ Launches(m, "dispatch")
    /\ IF Status(c) = "starting"
       THEN /\ SetRow(c, Row("busy", session[c].pane))
            /\ IF LivePane(launch[m].pane) THEN Launch(m, "off", NoPane) ELSE LaunchAt(m, "fail")
       ELSE LaunchAt(m, "fail") /\ UNCHANGED session
    /\ UNCHANGED <<poolVars, noticeVars, faultVars, stale, cut, ledger, listen, ending, budget>>

\* _fail_session: a killed conversation is left alone, its pane too.
FailLaunch(m) ==
    LET p == launch[m].pane
        after == [fail |-> "fail_error", suspend |-> "fail_suspend"]
    IN
    /\ launch[m].at \in DOMAIN after
    /\ IF Status(Of(m)) = "killed"
       THEN Launch(m, "off", NoPane) /\ UNCHANGED <<panes, opening>>
       ELSE /\ ClosePane(Launcher(m), p) \/ (~IsOwned(p) /\ UNCHANGED <<panes, opening>>)
            /\ LaunchAt(m, after[launch[m].at])
    /\ UNCHANGED <<setup, rowVars, noticeVars, faultVars, ledger, listen, ending, budget>>

\* kill_pane goes on; after an exception the pane counts as not killed.
ReopenAfterLaunch(m) ==
    /\ launch[m].at \in {"fail_error", "fail_suspend"}
    /\ \/ EnsureWindow(Launcher(m), NewId) /\ Launch(m, launch[m].at, NoPane)
       \/ NoSession(Launcher(m)) /\ UNCHANGED launch
    /\ UNCHANGED <<setup, rowVars, noticeVars, faultVars, ledger, listen, ending, budget>>

\* The row is saved, whatever it is by now, with the pane that could not be killed;
\* the user is told.
SaveFailed(m) ==
    /\ launch[m].at \in {"fail_error", "fail_suspend"} /\ ~InKill(Launcher(m))
    /\ SetRow(Of(m), Row(IF Launches(m, "fail_error") THEN "error" ELSE "suspended",
                         launch[m].pane))
    /\ Record(m, "failed")
    /\ Launch(m, "off", NoPane)
    /\ Say
    /\ UNCHANGED <<poolVars, faultVars, stale, cut, ack, listen, ending>>

-----------------------------------------------------------------------------
(* The worker, and the end of a conversation *)

\* complete_turn
TurnEnds(c) ==
    /\ Status(c) = "busy"
    /\ SetRow(c, Row("idle", session[c].pane))
    /\ UNCHANGED <<poolVars, noticeVars, faultVars, stale, cut, ledger, listen, launch, ending, budget>>

\* The worker ends by itself; nobody looks after its window.
WorkerExits(p) ==
    /\ LivePane(p) /\ ~panes[p].shell /\ Spend("exit")
    /\ panes' = Closed(panes, p)
    /\ closed' = (closed \/ PanesOf(panes', panes[p].window) = {})
    /\ UNCHANGED <<setup, opening, rowVars, noticeVars, stranded, lost, robbed, ledger, listen, launch, ending>>

\* SessionLifecycle.kill by the user's `end` or by the cleanup loop.
BeginKill(c) ==
    /\ ending.at = "off" /\ Spend("kill")
    /\ Status(c) \in RECOVERABLE_TMUX_STATUSES
    /\ ending' = [at |-> IF session[c].pane = NoPane THEN "move" ELSE "kill",
                  conv |-> c, pane |-> session[c].pane]
    /\ UNCHANGED <<poolVars, rowVars, noticeVars, faultVars, ledger, listen, launch>>

Finish == ending' = Nobody

KillPane ==
    LET p == ending.pane IN
    /\ ending.at = "kill" /\ ~InKill(Ender)
    /\ \/ ClosePane(Ender, p) /\ UNCHANGED ending
       \/ ~IsOwned(p) /\ Finish /\ UNCHANGED <<panes, opening>>
    /\ UNCHANGED <<setup, rowVars, noticeVars, faultVars, ledger, listen, launch, budget>>

\* kill_pane goes on; after an exception the conversation is left as it is.
ReopenAfterKill ==
    /\ ending.at = "kill"
    /\ \/ EnsureWindow(Ender, NewId) /\ ending' = [ending EXCEPT !.at = "move"]
       \/ NoSession(Ender) /\ Finish
    /\ UNCHANGED <<setup, rowVars, noticeVars, faultVars, ledger, listen, launch, budget>>

\* The transition expects an active or suspended conversation.
MoveKilled ==
    LET c == ending.conv IN
    /\ ending.at = "move"
    /\ IF Status(c) \in RECOVERABLE_TMUX_STATUSES
       THEN SetRow(c, Row("killed", NoPane)) ELSE UNCHANGED session
    /\ cut' = IF \E m \in Messages : Of(m) = c /\ ~Launches(m, "off")
              THEN cut \cup {c} ELSE cut
    /\ Finish
    /\ UNCHANGED <<poolVars, noticeVars, faultVars, stale, ledger, listen, launch, budget>>

-----------------------------------------------------------------------------

Init ==
    /\ PoolInit
    /\ session = [c \in Conversations |-> Row("absent", NoPane)]
    /\ ledger = [m \in Messages |-> "none"]
    /\ ack = [m \in Messages |-> "none"]
    /\ slots = 0 /\ notices = 0
    /\ listen = [m \in Messages |-> Idle]
    /\ launch = [m \in Messages |-> Off]
    /\ ending = Nobody
    /\ budget = setup.budget
    /\ stale = FALSE /\ cut = {} /\ closed = FALSE /\ stranded = {} /\ lost = {} /\ robbed = {}

ListenerStep(m) ==
    \/ Receive(m) \/ Refuse(m) \/ UpdateCursor(m) \/ Acknowledge(m) \/ Route(m)
    \/ ReadRows(m) \/ ListWindow(m) \/ CountWindow(m) \/ CountSessions(m)
    \/ (\E p \in listen[m].todo : ReapOrphan(m, p)) \/ ReopenAfterReap(m)
    \/ CreateSession(m) \/ RecoverSession(m)

LaunchStep(m) ==
    \/ StartWorker(m) \/ BeginLaunch(m) \/ PrepareWindow(m) \/ AllocatePane(m)
    \/ AttachPane(m) \/ MarkPane(m) \/ StartCommand(m) \/ WorkerComesUp(m)
    \/ WaitForReady(m) \/ DispatchMessage(m) \/ FailLaunch(m) \/ ReopenAfterLaunch(m)
    \/ SaveFailed(m)

\* Every thread has returned: the only way the system may stop.
AtRest ==
    /\ \A m \in Messages : Listens(m, "off") /\ Launches(m, "off")
    /\ ending.at = "off" /\ \A c \in Conversations : Status(c) # "busy"
    /\ UNCHANGED vars

Next ==
    \/ \E m \in Messages : ListenerStep(m) \/ LaunchStep(m)
    \/ \E c \in Conversations : TurnEnds(c) \/ BeginKill(c)
    \/ \E p \in DOMAIN panes : WorkerExits(p)
    \/ KillPane \/ ReopenAfterKill \/ MoveKilled \/ AtRest

Spec == Init /\ [][Next]_vars

-----------------------------------------------------------------------------

PaneIds == Nat \ {NoPane}

SessionRow == [status: Statuses, pane: Nat]

PaneRow == [window: {Windows[i] : i \in DOMAIN Windows}, shell: BOOLEAN, mark: Marks]

ListenRow ==
    [at: {"off", "cursor", "refuse", "ack", "route", "rows", "list", "reap", "count",
          "create", "recover"},
     snap: SessionRow, for: {"create", "recover"}, seen: SUBSET PaneIds,
     before: SUBSET PaneIds, todo: SUBSET PaneIds, next: DOMAIN Windows, live: Nat]

LaunchRow ==
    [at: {"off", "start", "launch", "window", "allocate", "attach", "mark", "type", "boot",
          "dispatch", "fail", "suspend", "fail_error", "fail_suspend"}, pane: Nat]

EndingRow == [at: {"off", "kill", "move"}, conv: Conversations \cup {"none"}, pane: Nat]

RowsOK ==
    /\ session \in [Conversations -> SessionRow]
    /\ ledger \in [Messages -> {"none", "received", "dispatching", "queued", "failed"}]
    /\ cut \subseteq Conversations /\ stale \in BOOLEAN

NoticesOK ==
    /\ ack \in [Messages -> {"none", "suppressed_busy"} \cup Results]
    /\ slots \in Nat /\ notices \in Nat

PoolOK ==
    /\ setup \in Setups
    /\ DOMAIN panes \subseteq PaneIds /\ panes \in [DOMAIN panes -> PaneRow]
    /\ DOMAIN opening \subseteq Killers
    /\ opening \in [DOMAIN opening -> {Windows[i] : i \in DOMAIN Windows}]

ThreadsOK ==
    /\ listen \in [Messages -> ListenRow]
    /\ launch \in [Messages -> LaunchRow]
    /\ ending \in EndingRow /\ (ending.at = "off" \/ ending.conv \in Conversations)

HistoryOK ==
    /\ closed \in BOOLEAN /\ stranded \subseteq Messages /\ robbed \subseteq Conversations
    /\ lost \subseteq PaneIds
    /\ budget \in [FaultKinds -> Nat]

\* The types of the variables.
TypeOK == PoolOK /\ RowsOK /\ NoticesOK /\ ThreadsOK /\ HistoryOK

\* No window of the pool has more panes than it may have, however many messages
\* passed the capacity checks together: create_session checks and creates in several
\* steps, new_pane has the last word.
WindowsWithinLimit ==
    \A i \in DOMAIN Windows : Cardinality(ListPanes(Windows[i])) <= WindowMax

\* No two conversations use the same pane, in their rows or in a launch that has taken
\* it: a shell that is being given to one worker is not given to another
\* (_reusable_shell_pane), unless a cursor save has undone a row.
NoSharedPane ==
    stale \/ \A p \in DOMAIN panes, c, d \in Conversations :
                 UsesPane(c, p) /\ UsesPane(d, p) => c = d

\* The orphan reaper of a capacity check does not take a pane that its conversation
\* had in use when the check read the rows and still has, unless a cursor save has
\* undone a row.  (A pane that is attached and marked later is taken.)
ReaperSparesOwned == stale \/ robbed = {}

\* A pane without markers is in the hands of the launch that asked for it: nobody could
\* reap or reuse another one, which takes a place of the pool for good.  Only a launch
\* whose marking failed leaves one behind (its pane_id is not set yet).
NoPaneOutOfReach ==
    \A p \in DOMAIN panes : panes[p].mark = "none" =>
        \/ p \in lost
        \/ \E m \in Messages : launch[m].at \in {"attach", "mark"} /\ launch[m].pane = p

\* A window that a thread in kill_pane is going to open again; the tmux session has ended.
BeingOpened(w) == \E t \in DOMAIN opening : opening[t] = w
SessionGone    == DOMAIN panes = {}

\* A capacity check raises, and its message is lost, for one of three reasons only: a
\* worker that ended by itself took a window along; the check came while a kill_pane had
\* closed the last pane of a window and not yet opened it again; or the last panes of all
\* windows went together and the tmux session with them.  Otherwise kill_pane leaves
\* every window as it should be, whoever else kills or launches meanwhile.
IntakeStopsOnlyWithWindow ==
    [][stranded' # stranded =>
          \E i \in DOMAIN Windows :
              /\ WindowGone(Windows[i])
              /\ closed \/ BeingOpened(Windows[i]) \/ SessionGone]_vars

\* A channel gets no more notices a day than its limit, and an acknowledgement is held
\* back for the limit only if it is used up.
NotificationsWithinLimit ==
    /\ notices <= DailyLimit
    /\ \A m \in Messages : ack[m] = "suppressed_daily_limit" => slots = DailyLimit

=============================================================================
