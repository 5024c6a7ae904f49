# The Slack bridge in TLA+

The bridge takes Slack messages, runs an AI worker in a tmux pane for every
conversation (a Slack thread), hands the worker one message at a time and posts
its answers. This project models the parts in which it can go wrong without
anybody noticing: the durable queue, the session row and the threads that work
on it, the way of an answer to Slack, the panes that conversations compete for,
and the detector of questions.

## 1. Inventory

| Component | State | Operations | What makes it correct |
| --- | --- | --- | --- |
| Event ledger, event queue (`bridge_state.py`) | `event_ledger`, `event_queue` in SQLite | claim an event; append, claim head, consume, mark retryable, fail, reset leases | an event goes on once and has one row; rows of a conversation are taken in order and settled once |
| Session rows (`session.py`, `session_store.py`) | `sessions`: status, active turn and its queue row, pane, reason | `transition` (compare and write), `save` / `update_fields` (whole row from a copy) | no write of another thread is undone |
| Turn attempts (`bridge_state.py`) | `turn_attempts` | open, complete, close all open ones, claim and release for a reply | only the current, open turn is answered |
| Reply ledger (`bridge_state.py`, `hook_server.py`, `case_reply.sh`) | `reply_ledger`, leases | claim, mark posted / unknown / failed, discard notice; the reply command's retries | a text is in Slack once; a turn has one final answer; the command does not lie |
| Intake (`slack_bridge.py`) | - | `handle_inbound`, `route_envelope`, `create_session`, capacity checks | one session per thread, no message lost or doubled |
| Acknowledgements (`bridge_state.py`, `slack_bridge.py`) | `ack_ledger`, `runtime_counters` | reserve a slot, acknowledge, suppress | no more notices a day than the limit |
| Dispatch (`message_dispatch.py`) | - | `route`, `complete_turn`, `_drain_queue`, rollback | one turn at a time; what is queued gets its turn |
| Worker launch (`worker_process.py`) | a tmux pane | `start`, `recover`, `_fail_session` | one worker per conversation; a failed launch leaves nothing behind |
| Panes (`tmux_gateway.py`, `pane_pool.py`) | tmux windows, panes and their markers | allocate, mark, kill, reap orphans, count | no window above its limit; no pane shared, out of reach or reaped while in use |
| Lifecycle (`session_lifecycle.py`) | - | cancel, kill, cleanup of stale sessions, shutdown | claimed row, attempt and pane of an interrupted turn are settled |
| Input wait (`input_detector.py`, `interactive_handler.py`) | per conversation: turn marker, counter, last capture, prompts told | detect, notify, answer, forget | a prompt is asked once; nobody waits for a user who was not asked |
| Start (`slack_bridge.py`) | - | `startup_cleanup`, `drain_durable_event_queue` | rows survive a crash and are given to one worker |
| Slack client (`slack_api.py`) | - | retried calls, texts in parts | retry only what may be retried; no part of a text is lost |
| The rest | - | envelopes, prompts, configuration, extensions, scripts | conversions and set-up |

**How they interact.** Slack Bolt runs a listener thread per event, the hook
server a thread per request; each launch is a thread; the detector, the cleanup
loop and the signal handler have one each. They share SQLite, where *every store
method opens its own connection and is one transaction*, and tmux, where every
call is a process. A handler is a series of transactions with Slack and tmux
calls between them, which take from milliseconds to minutes. There is no lock
around a handler (`_PANE_LAUNCH_LOCK` and `_PANE_ALLOCATION_LOCK` cover parts of
a launch). The worker talks back through a script, `case_reply.sh`, that it may
run again and that gives up waiting before the hook server has finished.

**What is hard.** Session objects are copies: a status read before a call decides
what is written after it. Some writes compare the status, others replace the
row. A turn is spread over four tables that are written one after the other.
A claim has a lease (`REPLY_CLAIM_TIMEOUT`, 30 seconds) that is shorter than a
Slack call may last. A Slack call may have been carried out though nobody knows.
Capacity is checked in several steps before a pane is taken in others. A restart
takes up whatever was left in between. `hazards` in `PROJECT.json` lists each
place with the properties that look at it.

## 2. Modules

| Module | Models | Source |
| --- | --- | --- |
| `TicketQueue` | what the queue promises: tickets wait, are taken in order, are settled once | (abstract) |
| `EventQueue` | the two queue tables, one action per store method | `bridge_state.py` |
| `SessionStore` | session row, turn attempts, panes and the frame of the threads; the two kinds of write | `session.py`, `session_store.py`, `bridge_state.py`, `tmux_gateway.py` |
| `SlackEvents` | a message from delivery to the dispatcher | `slack_bridge.py` |
| `MessageDispatch` | routing, completion, drain, recovery | `message_dispatch.py`, `slack_bridge.py` |
| `TurnReply` | the worker's answer to a turn, as one request | `hook_server.py`, `slack_bridge.py` |
| `WorkerLaunch` | start and recovery of a worker and their failures | `worker_process.py` |
| `SessionLifecycle` | cancel, kill, cleanup, shutdown | `session_lifecycle.py` |
| `InputWait` | a question of the worker and its answer | `interactive_handler.py`, `input_detector.py` |
| `Restart` | the end of the process and the boot loop | `slack_bridge.py` |
| `Conversation` | the last eight on one conversation; its properties | |
| `LeaseLock` | what the claim on a turn promises: a lock with a lease | (abstract) |
| `SlackClient` | calls with retries as the callers see them, texts in parts | `slack_api.py` |
| `CaseReply` | reply command, hook server, reply ledger and the claim on a turn, several requests and deliveries at once; reactions; discard notices | `case_reply.sh`, `hook_server.py`, `bridge_state.py`, `turn_context.py` |
| `PanePool` | windows, panes, markers, allocation | `tmux_gateway.py`, `pane_pool.py` |
| `Admission` | several conversations on one pool: capacity checks with the orphan reaper, creation, launch, ending; acknowledgements and their limit | `slack_bridge.py`, `worker_process.py`, `session_lifecycle.py`, `bridge_state.py` |
| `InputDetector` | the memory of the poll loop over one conversation with its turns, answers and late resets | `input_detector.py`, `interactive_handler.py`, `message_dispatch.py` |
| `MCEventQueue`, `MCConversation`, `MCCaseReply`, `MCAdmission` | instances for TLC; the fault budgets | |
| `EventQueueProofs`; `ConversationProofs`, `ConversationSafety`; `CaseReplyProofs`, `CaseReplySafety`; `AdmissionProofs`, `AdmissionSafety`; `InputDetectorProofs` | theorems and proofs | |

The system is covered by four compositions that overlap where they meet.
`Conversation` has one conversation with all its threads, `CaseReply` one
conversation seen from its answers, `Admission` many conversations seen from
their panes, `InputDetector` one conversation seen by the poll loop. What is a
step in one of them is several in another: a reply is one request in
`TurnReply`, a whole protocol in `CaseReply`; a detection has no memory in
`InputWait`, and is all memory in `InputDetector`; a launch always finds a pane
in `WorkerLaunch` or fails, and competes for it in `Admission`. `EventQueue`
stands on its own and is instantiated as `EQ` by `SessionStore`, so that the
composite uses the very operators the theorems are about, and every step of the
composite is shown to be one of its operations, or to leave the tables alone.

**Correspondence.** One action is one transaction, or one call to Slack or tmux,
with the reads that belong to it. A thread is a record that says where it is,
which copy of the row it holds and what it has in local variables. Definitions
carry the names of the code where they can; `PROJECT.json` maps each to its
lines. A definition that is introduced as *a plausible slip* is a mutated form of
the definition after it. No specification uses it; it serves to see that a
property notices the slip.

History variables say what happened, where a property needs to know. `stale` tells
that the bridge has a wrong picture of things. In `Admission` and `InputDetector`
it becomes TRUE when a full-row save undoes what another thread has written since
the copy was read; the code allows this in several places (finding
`launch_assertion`), and after it nearly nothing can be said of the row. In
`Conversation` it is a set: `"row"` is in it after such a save, `"text"` after a
send that the bridge takes for failed has left its text in the pane (section 5).
Properties that are lost are stated for what comes before:

* `RowTrue` (no `"row"`): `OneLaunch`, `BusyHasEnder`, `PaneHasOwner`, `TurnEnds`,
  `InterruptedTurnResumes`. They hold through every failed send.
* `AllTrue` (neither): `WorkerOnOneTurn`, `EndsOwnTurn`, `RowHasOwner`, `ClaimEnds`,
  `DoneWasAnswered`. These a text left behind does break: the worker has two texts;
  or it answers a first text whose send counts as failed, the completing turn claims
  the next row, and the failing launch then clears the session's row, so that the
  claimed one stays until the next start.
* `SentOncePerLife` and the limits of `Admission` are stated for all behaviours.

## 3. Runs

`Budgets` (in `Admission` `Setups`) bounds only what comes from outside:
messages, failures, commands, crashes. A run with several budgets explores each.

| Run | Instance | Shows |
| --- | --- | --- |
| `queue` | two events, a text without event id, two conversations, three rows | one row per event, order of claims, settled rows and verdicts are kept, the queue implements `TicketQueue` |
| `conversation` | three messages undisturbed; two with two failing sends and one each of failing post, capacity check, launch and a worker's exit; two with two crashes and failures | a text that was sent is not sent again, one launch, one turn at a time; no claimed row, BUSY row or pane without a keeper; a row is done only if answered; a completion ends its own turn; the tables move only as `EventQueue` says |
| `interventions` | two messages; a cancel and a question | no text that was sent again, also after stale writes; no row done unanswered |
| `endings` | two messages; a timeout, or a worker that exits and is found missing, or a kill and revival | no text that was sent again, also after stale writes |
| `progress` | two messages with a failing send and launch, or a failing post and capacity check; one with a shutdown in order and a failing send, post and launch; fair | BUSY ends, claims end, an interrupted turn gets a new worker |
| `reply` | two rival answers, a note and a reaction of one turn, an answer of the next; seven budgets: slow, refused, unclear and broken calls, exceptions between any two steps, ended turns, crashes | texts and notices are in Slack again only after a takeover or a blind call; one answer per turn; why a command was told that all is well; the worker keeps its means to answer; nothing is posted after the end; the claim on a turn implements `LeaseLock` |
| `settling` | an answer and a note of one turn; fair | a claim on a turn ends, a request leaves "received" |
| `admission` | three conversations at once for two panes or four; two with failing launches and exits, or kills, in two windows; the same in a single window, so that the session may end; one with two messages and everything | windows within their limit, no pane shared, out of reach or reaped while in use; the intake stops only while a window is gone or being opened again; notices within the day's limit |
| `questions` | two turns, a menu and the free input, one failure; fair | a prompt once per turn; who waits was asked, or the note to him was kept back or lost; a menu that stays is told |

**Why the bounds are enough.** Three rows in two conversations are the least in
which order within a conversation, independence between them and a second row of
one event can be told apart. Two messages give every race of one conversation
between a message and the turn of another; three add a queue behind the drained
row. Two failing sends are a first text that stays in the pane and one that follows
it. `MaxTurns` and `MaxRows` of the conversation runs cut nothing off: with
larger ones they have the same number of states. In `reply` two runs of a command
with two tries each give four deliveries of a request (`MaxDeliveries`), so that a
first delivery may still run when a second has taken over and a third comes. In
`admission` two windows of two panes have a full window beside one with room, and
three messages one more than a window takes; a limit of two notices is reached
by three messages. In `questions` `stable_count` is 2 instead of 10: that is a
first capture, one that repeats it, and all that follow. The theorems of section 4 hold for every
value.

`CHECK_DEADLOCK FALSE` is said where the system may stop: a conversation at rest
may have no message left to come. `Admission` has its rest as a step (`AtRest`)
and is checked for deadlock: no thread waits for another.

**Fairness.** `Conversation!Fairness`: weak fairness of each thread's next step;
they are OS threads that block only on calls with timeouts. The worker answers
a turn it has (`BeginReply` is the hook server's step): a worker that never does
is what the busy timeout is for, which is not part of the fair runs.
`CaseReply!Fairness`: some thread of the hook server goes on; every Slack call
has a timeout and a bound on its tries. `InputDetector!FairSpec`: the poll loop
goes on whatever one pass raises (`_poll_loop` catches it). No fairness for
messages, failures, commands, leases or the user.

### Where the code does something else

Three runs end in a violation. Each states what a document or an assertion of
the repository says.

| Run | What happens |
| --- | --- |
| `lost_wakeup` | `route` reads BUSY; the turn completes and sees an empty queue; then the message is queued. The conversation is IDLE and the row waits until some later turn completes. |
| `repeated_answer` | The worker answers while the conversation is WAITING: `complete_turn` does not consume the claimed row. The next start dispatches it again. |
| `launch_assertion` | Two messages at once: the cursor save of the second writes CREATING back over STARTING, and the assertion in `_dispatch_message` fails. |

What else the models have, and nothing in the repository speaks about clearly
enough for a run:

* A send that fails after the paste leaves the text with the worker. It is pasted again,
  up to three times, and then requeued; the worker may get it several times, and
  together with the next one. The bridge cannot know.
* A launch that fails between the split of its pane and the end of `_prepare_window`
  leaves the pane running; no row has it.
* A capacity check that lists the panes of a window just between the two steps of a
  `kill_pane` raises, and its message is lost. Two kills that close the last panes of all
  windows end the tmux session, which only a restart makes again.
* Beyond the daily limit a question is kept back and counts as posted: the conversation
  waits, until its time limit, for a user who was not asked. So it does when the claim of
  the notification slot raises after the move to WAITING.
* A menu that comes up while the user is being told of the free input is not told; his
  answer is made for the free input.
* After the discard notice of a cancelled turn every further request of it is answered as
  accepted, whatever its text; so is a note beyond the daily limit.
* A shutdown kills the pane of a launch; the launch thread fails and saves ERROR
  over SUSPENDED, and ERROR has no way out.
* A conversation killed in the middle of a launch and revived by a message has
  two launches; a late completion may then mark another message's row as done.
* From the moment the shutdown has put the row of a typed turn back, until the process
  has ended, a launch that is still under way may claim it and type the text again.
* A question detected in one turn moves the next turn, if that is BUSY by then, to
  WAITING and puts the old turn's name over it (`InputDetector!EnterWaiting`); the
  newer turn can then not be answered any more.
* A menu between two captures of the free input does not reset its counter, so
  "unchanged for thirty seconds" may have been interrupted.
* Two requests of a turn that cross: the refused one takes away the reply command
  of the turn while the other may still fail (`crossed` in `CaseReply`).
* A reaction is checked against the turn, but does not claim it, and is put on
  the message of a turn that is cancelled meanwhile.

## 4. Proofs

TLAPS checks every theorem below for all values of the constants.

| Theorem | Property |
| --- | --- |
| `EventQueueProofs!TypeCorrect` | `TypeOK` |
| `EventHasOneRow`, `RowsSettleForGood`, `QueueKeepsVerdicts`, `RowsAreClaimedInOrder` | `OneRowPerEvent`, `SettledForGood`, `VerdictKeptByQueue`, `ClaimedInOrder` |
| `QueueImplementsTickets` | `ImplementsTickets` (refinement) |
| `ConversationProofs!ConversationTypes` | `TypeOK` of `SessionStore` |
| `ConversationKeepsTheQueue` | `QueueIsEventQueue` (refinement) |
| `ConversationHasQueueLaws` | `OneRowPerEvent`, `ClaimedInOrder`, `SettledForGood` of the whole conversation |
| `TypedOncePerLife` | `SentOncePerLife`, but for a shutdown under way |
| `ConversationSafety!OneTextAtATime`, `EndsNoOtherTurn`, `ClaimedRowsAreOwned`, `DoneRowsWereAnswered` | `WorkerOnOneTurn`, `EndsOwnTurn`, `RowHasOwner`, `DoneWasAnswered`, while nobody intervenes |
| `OneLaunchAtATime`, `PanesAreKnown`, `BusyIsNotForgotten` | `OneLaunch`, `PaneHasOwner`, `BusyHasEnder`, while nobody intervenes and no failed send leaves its text in the pane |
| `CaseReplyProofs!ReplyTypes` | `TypeOK` |
| `TextsStayWhole` | `PostLosesNothing`, for texts of any length |
| `CaseReplySafety!NoSecondPost`, `EndIsFinal` | `PostedAgainOnlyByTakeover`, `NoPostAfterTheEnd` |
| `CaseReplySafety!ClaimIsLease` | `TurnClaimIsLease` (refinement) |
| `TurnHasOneAnswer`, `AcceptedHasItsReason`, `TurnKeepsCommand` | `OneAnswerPerTurn`, `AcceptedIsExplained`, `OpenTurnHasCommand` |
| `CaseReplySafety!NoticeSeldomTwice` | `NoticeShownAgainOnlyBlindly` |
| `AdmissionProofs!AdmissionTypes` | `TypeOK` |
| `AdmissionSafety!LimitOfNotices`, `LimitOfWindows`, `IntakeStops`, `PanesInReach` | `NotificationsWithinLimit`, `WindowsWithinLimit`, `IntakeStopsOnlyWithWindow`, `NoPaneOutOfReach` |
| `PanesApart`, `OwnedAreSpared` | `NoSharedPane`, `ReaperSparesOwned` |
| `InputDetectorProofs!DetectorTypes` | `TypeOK` |
| `InputDetectorProofs!NobodyWaitsUnasked`, `OneQuestionPerPrompt` | `WaitingIsKnown`, `AskedOncePerTurn` |

**Assumptions.** `PayloadAssumption` (an item is an event or a text and belongs to
one conversation), `BoundAssumption` (`MaxRows` positive), `StoreAssumption` (finitely
many messages, positive bounds, budgets of numbers), `ClientAssumption` and
`ReplyAssumption` (numbers are numbers, each request has a turn and an action),
`PoolAssumption` (finitely many conversations, windows with different names and a
positive limit), `AdmissionAssumption`, `DetectorAssumption` (a menu is none of
the other screens). TLC evaluates each of them in a passing run.

**The inductive invariants**

* *Queue.* `TypeOK /\ OneRowPerEvent` is inductive as it stands: an insert of an
  event is guarded by `RowsOf(item) = {}`, everything else keeps the payloads.
  Every operation is a `RowStep` (it appends a row, claims a head, or rewrites
  live rows) and a `MarkStep` of the ledger; what these shapes preserve gives the
  action properties and the step simulation of `TicketQueue`.
* *Conversation.* `IInv` says what each thread has in hand. A copy of the session row,
  of whatever age, names a turn and a queue row that exist (`Known`), since neither
  table ever loses a row; so a stale save cannot name one that does not, and every
  `fail`, `retry` or `consume` is on a row of the table. Where a handler uses its row or
  its turn without a look, it has one (`Holds`). Finitely many panes and threads
  give that there is always a new pane id. That every step of the threads on the
  tables is one of `EventQueue` follows from it, and the theorems of the
  queue come over by instantiating `EventQueueProofs`.
  `TypedOnce` counts the ways on which a text can still be typed: a listener that has
  not decided yet, a thread with a row or a turn for it in hand, a row that is queued
  (`Ways`). There is one at most, and none once it was sent with success (`OneWay`), which
  `SentOncePerLife` says in full; a failed send leaves its way open, whether or not the
  text came to the worker. A crash takes
  the threads and counts anew. It needs nothing of the session row, so that it holds
  through every stale write. The shutdown is the exception: it puts the row of the turn
  back while a launch may still be on its way to claim it.
* *Conversation, one thread at a time.* `ConversationSafety` has the properties that
  need to know what the status of the row stands for. Its theorems are of the form
  `Spec /\ []Undisturbed => []P`: for all behaviours in which nobody cancels, kills,
  cleans up, shuts down or is asked a question. Messages, failures of sends, posts,
  checks and launches, workers that exit and crashes of the process may come in any
  number and at any time. The condition is on the behaviour, not on the model, and it
  cannot simply be dropped: after a kill and a revival a conversation has two launches
  (section 3), and a late completion may settle a row of another message. `stale` is the
  other limit: after a stale save the row says nothing, and a text left behind by a failed
  send is one the row knows nothing of; `StaleStays` shows that neither comes to an end.
  The three properties that TLC finds to hold also after such a text are proved with
  `[]NoTextLeft`, since all of the invariant speaks of the text in the pane.
  `OneDriver` is the heart: one thread at most drives the conversation; while one starts a
  worker the row is STARTING, while one brings a text or its answer the row is BUSY
  with that turn, and a text in the pane is that of the row's turn. Each layer after it
  needs the ones before. `PanesHeld`: which pane a driver at each place has, and that
  a suspended or new conversation has none alive. `RowsHeld`: what a thread carries
  (`Load`) is claimed and carried by nobody else, a claimed row is owned, the session's
  row is that of its turn; `BacklogFits`: until the boot loop has ended there are only
  launches, and the rows it has yet to look at are those that wait, so that the head it
  claims is the row it looks at (else it would claim a row and forget it).
  `PostedFirst`: a thread past its post has posted. `WillEnd`: a turn to be typed
  has no attempt yet, so that the worker may answer it, and a BUSY row has an ender.
* *Reply ledger.* `Typed` adds to the types which threads and endings name what.
  `OnceEach` counts, for a request, what is posted, what is in the hands of
  threads and what the ledger still allows: together at most one more than the
  takeovers. `Moves` and `LapsedIsHeld` carry the step simulation of `LeaseLock`.
  `OneAnswer` says who may post a final answer of a turn: the holder of its claim.
  `Honest` follows a delivery's success back to its reason (`Given`): a post, an unknown
  call, a note that was kept back, a discard notice of the turn; `Means` a missing command
  to an ended or crossed turn. `NoticeEach` is `OnceEach` for the notices.
* *Admission.* `Typed` adds finiteness and that a new pane id is new.
  `SlotsCounted`: a slot is counted for every notice, none beyond the limit.
  `WindowsWithinLimit` is inductive with the types, since `new_pane` looks again
  under the lock. `WindowsStand`: while no worker has taken a window along and the
  session lasts, a window without a pane has a thread in `kill_pane` that will open it.
  `LaunchedOnce` and `FreshHeld` (who knows a pane before it is marked) give `NoPaneOutOfReach`: the launch that asked for it, and no other.
  `NoSharedPane` is not inductive: a launch gets its pane long before its row has it.
  `LaunchesAlone` says that a conversation not in `cut` has one launch under way, whose
  pane is in the row once it is attached; `PanesBehind` that a pane a launch has not
  attached yet, or has killed, is in no row; `AbsentIsUntouched` that nobody works
  on a conversation without a row. Then a live pane gets into a row only by
  `AttachPane`, which looks for another claimant (`RowsApart`), until a stale save.
  `CheckSpares`: what was in use when the rows were read is among the panes the
  rows named, and no orphan on the list of a check is.
* *Detector.* `WaitingIsKnown` is inductive as it stands: every move to WAITING begins a
  new wait (`NewWait`), of which somebody is about to tell the user. `AskedOncePerTurn` needs
  that turns are counted up (`Numbered`) and that what was posted in the turn of
  the row, or in the turn in hand, is noted as told, and what is in hand is noted
  and not yet posted (`PostedIsNoted`).

* *Long texts.* `Split` and `Joined` are defined by recursion. That such functions exist
  is itself proved (`Solved`: solutions up to any size, which agree), from the least
  element of a set of numbers; what they compute then follows by induction over the
  length (`BySize`, `SplitCutsWell`). The induction is over sets, not over operators.

**Only model-checked:** the properties of `Conversation` in behaviours with an
intervention, `SentOncePerLife` apart, and all liveness (`TurnEnds`, `ClaimEnds`,
`InterruptedTurnResumes`, `TurnClaimEnds`, `RequestSettles`, `MenuIsTold`): the
prover has no reasoning about fairness and ENABLED.

## 5. What is abstracted

General: payloads, texts, timestamps, user ids, window geometry and wording are
gone; a message is its event, a text its request, a screen its kind.

`Conversation`
* READY is left out: no statement sets it. With it goes the boot loop's
  READY/IDLE branch, and no launched worker can complete a turn before the
  listeners and the hook server are up.
* Worker session ids, window and pane of a callback are not compared: the turn
  check that follows refuses the same answers.
* A send is the two calls of tmux as their outcomes: paste and Enter succeed (`Send`);
  they fail without a trace (`SendFails`); or they fail, or run into their time limit, with
  the text in the pane (`PastedUnseen`), which the worker then has at once: that it
  only comes with the next Enter is a later moment of the same. The tries of
  `_send_payload` are steps of their own (`SendsAgain`), open in number: what a try
  can do, a third can. The budget allows two failing sends.
* Every failure between the split of a pane and the end of `_prepare_window` is
  `LosePane`: the pane is in `lost`, whether the row has been saved or not is the two
  outcomes of the save.
* One step each: opening an attempt and typing its text; the last failed try and closing
  its attempt; a lifecycle move and
  the kill of its pane; the failure of the row and of the attempt in
  `_fail_session`; the two status checks of `_prepare_window`.
* A kill of a live pane succeeds. A pane that has gone is not confirmed as
  killed, as in the code. Pane ids are reused when nothing mentions them.
* After a cancel the worker may still answer: the interrupt is a keystroke.
* The two steps of an answer to a question (`handle_user_reply`) are one send; one that
  fails with only the first step typed is a text left in the pane. A question that is kept
  back or whose post raises leaves the row as a posted one does.
* Permission dialogs, the restart of an updated worker and pool-specific
  suspension of a failed allocation are left out of the launch. ERROR rows of an
  older version (`is_recoverable_ready_timeout_error`) do not occur.
* `startup_cleanup` is one step with the reset of the leases: nothing else runs
  then. A shutdown in order of a conversation that is not active equals a crash.

`CaseReply`
* The row is what the handler sees of it: "busy" stands for BUSY or WAITING with
  an active turn; an ending from outside is two steps, the move and the
  finalisation. `wait`, `close` and `error` are as `done`.
* In `Posts` a text that is sent in parts and stops on the way is an unknown
  delivery; how a text is cut is the subject of `PostLosesNothing`.
* The branch on `completed_at` after the claim (`hook_server.py:675`) cannot be
  reached and is left out: a claim on a completed attempt is refused before.
* Pruning of old ledger rows is maintenance.
* `HandlerBreaks` is an exception of any access to a store that nothing catches; which
  accesses of a step were made is the step before or the step after. `doubts` has only
  requests of whose call Slack gave no verdict; notes the daily limit kept back are in
  `muted`, requests whose own text a discard notice showed in `discarded`.
* The Slack SDK's own retry handler for connection errors is outside the model: what
  `slack_api.py` sees of one call is what the SDK reports at its end. A call that the SDK
  repeated after the server had carried it out would be posted twice in one step.

`Admission`
* A load of `_update_session` and the save after it are one step (`WorkerLaunch`
  takes them apart); the cursor save, whose copy is older, is its own. A notice
  and its ledger record are one step. The time of activity is left out.
* A split that does not fit is one of the launch failures. `allocate_pane` is one
  operator under its locks.
* `kill_pane` is two steps, `ClosePane` and `EnsureWindow` (or `NoSession`, if no window
  is left to open it in): `opening` has the threads between them and their windows, and
  every check, launch and other kill may come in between. The look for the pane in the
  middle and the new layout change nothing. That `kill-pane` or `new-window` fails for
  another reason is left out.
* The change of the day, external-shared channels, acknowledgements of files and
  block actions, and `reap_idle_sessions`, which runs only at the start.
* Conversations killed during a launch are in `cut`, panes whose marking failed in
  `lost`: properties are stated around them where the code gives up.

`InputDetector`
* One conversation that keeps its pane. One pass over its row, and a
  `clear_session`, are single steps. Which screen is which is data. The two
  minutes' grace of the free input end at any time (`GraceEnds`).
* The post of a question has four outcomes: posted, kept back by the daily limit (which
  counts as posted), failed and taken back, raised and not taken back. `known` says that
  the user has been told of this wait, `unheard` that the note was kept back or lost; the
  note after a failed answer is a step of its own (`TellSendFailed`). `MaxFaults` bounds the
  failures of the detector; the user's answers and that note fail freely.

## 6. Not modelled

* **Envelopes and prompts, configuration, logging, set-up scripts, extensions**:
  conversions and set-up without control a property could be about; the registry
  of extensions loads one function that recognises a reaction.
* **Deletion and retention of ended sessions, renaming of channels, pruning, the
  limit of 100 rows per boot loop**: rows nobody works on any more, and limits a
  small model can only replace by its own.
* **Files, history queries, block posts of the Slack client**: the same retry loop
  around other calls.
* **Hazards without a property**: a crash between `claim_event` and the dispatcher
  (nothing promises delivery across it), and a launch that goes on after `kill`
  (nothing says which of two launches must win). The notes in `PROJECT.json` say
  more.

## 7. Plan

1. (done) queue, its abstract specification and proofs; the conversation with
   faults, interventions and restarts.
2. (done) `CaseReply` with `LeaseLock` and proofs; `PanePool` and `Admission` with
   proofs; `InputDetector` with proofs.
3. (done) the composite's steps on the queue are steps of `EventQueue`, so that the
   theorems of the queue hold of the conversation; `SentOncePerLife` is a theorem for
   all interventions, but for the time of a shutdown.
4. (done) `NoSharedPane`, `ReaperSparesOwned` and `PostLosesNothing` as theorems; the
   safety properties of `Conversation` as theorems while nobody intervenes.
5. The same for some interventions. None of the kinds leaves all of the properties
   standing by itself: with two messages and one single cancellation, question, time
   limit, kill or shutdown, TLC finds some of them violated. To be proved is what each
   kind does leave: `DoneWasAnswered` for all but a kill; `OneLaunch` and
   `PaneHasOwner` for cancellations and questions; `WorkerOnOneTurn` and `EndsOwnTurn`
   for time limits and shutdowns.
6. Intake of files and reactions, block actions, renaming and deletion.
