----------------------------- MODULE CaseReply ------------------------------
(***************************************************************************)
(* The way of an answer from the worker to Slack: the reply command        *)
(* (case_reply.sh), the hook server's requests (hook_server.py), the reply *)
(* ledger and the claim on a turn (bridge_state.py).                       *)
(*                                                                         *)
(* A worker runs the reply command of a turn with a text.  The same text   *)
(* for the same turn is the same request; the command sends it up to       *)
(* MaxTries times, gives up waiting for an answer after a while, and may   *)
(* be run again.  The hook server handles every delivery in a thread of    *)
(* its own, and a delivery whose sender has gone runs on.  Every ledger    *)
(* method is one transaction; the Slack calls are made between them.       *)
(*                                                                         *)
(* The turn and the session row are here what the handler sees of them:    *)
(* which turn the conversation is on, and that a user's command, a timeout *)
(* or a shutdown ends it in two steps (see SessionLifecycle).              *)
(***************************************************************************)
EXTENDS SlackClient

CONSTANTS
    Requests,       \* reply request ids: a text, a turn and an action
    Turns,          \* turn ids
    NoTurn, NoRequest,
    TurnOf,         \* the turn of each request
    Action,         \* "done", "continue" or "reaction" (wait, close and error are as done)
    MaxTries,       \* CASE_REPLY_MAX_ATTEMPTS
    MaxDeliveries,  \* bound on the deliveries of a request over all runs (a model bound)
    Budgets         \* how often each failure or intervention may happen and a reply
                    \* command be run: one of these is chosen at the start (a model bound)

FaultKinds == {"lapse", "refuse", "unknown", "break", "ledger", "quiet", "giveup",
               "cancel", "stop", "crash", "run"}

ASSUME ReplyAssumption ==
    /\ NoTurn \notin Turns /\ NoRequest \notin Requests
    /\ TurnOf \in [Requests -> Turns]
    /\ Action \in [Requests -> {"done", "continue", "reaction"}]
    /\ MaxTries \in Nat \ {0} /\ MaxDeliveries \in Nat
    /\ Budgets \subseteq [FaultKinds -> Nat]

VARIABLES
    session,    \* the row of the conversation: status and active turn
    attempt,    \* turn_attempts
    reply,      \* reply_ledger, the rows of the requests
    notice,     \* reply_ledger, the rows of the discard notices
    command,    \* turns whose reply command and context exist
    script,     \* the runs of the reply command
    thread,     \* the threads of the hook server, one per delivery
    control,    \* the thread that ends a turn from outside
    posts,      \* history: how often a request's text (or reaction) was put into Slack
    shown,      \* history: how often the discard notice of a turn was
    takeovers,  \* history: claims of a request whose lease had run out
    retakes,    \* history: the same for the discard notice of a turn
    steals,     \* history: claims of a turn whose lease another request had let run out
    doubts,     \* history: requests of whose call Slack gave no verdict
    muted,      \* history: notes that the daily limit kept back
    discarded,  \* history: requests whose text a discard notice showed
    blind,      \* history: notices taken for failed without an answer of Slack
    crossed,    \* history: turns that refused a request because another one held them
    broken,     \* history: a thread has ended, or a ledger update failed, and a claim was left
    budget

state   == <<session, attempt, reply, notice, command, script, thread, control>>
history == <<posts, shown, takeovers, retakes, steals, doubts, muted, discarded, blind,
             crossed, broken>>
vars    == <<state, history, budget>>

Texts == {r \in Requests : Action[r] # "reaction"}
Deliveries == Requests \X (1..MaxDeliveries)

Spend(k) == budget[k] > 0 /\ budget' = [budget EXCEPT ![k] = @ - 1]

-----------------------------------------------------------------------------
(* The reply ledger *)

NoRow == [status |-> "none", for |-> NoRequest, retry |-> FALSE, lapsed |-> FALSE]

Received(r) == [NoRow EXCEPT !.status = "received", !.for = r]

Conflict(row, r) == row.status # "none" /\ row.for # r

TakesOver(row) == row.status = "received" /\ row.lapsed

\* A plausible slip: a row that is being worked on is claimed at once.
ClaimableAtOnce(row, r) ==
    \/ row.status = "none"
    \/ /\ row.for = r
       /\ \/ row.status = "failed" /\ row.retry
          \/ row.status = "received"

\* claim_reply: a new row, a failure that may be retried, or an expired lease.
Claimable(row, r) ==
    \/ row.status = "none"
    \/ /\ row.for = r
       /\ \/ row.status = "failed" /\ row.retry
          \/ TakesOver(row)

\* What claim_reply's caller is told of a request that it must not handle: accepted,
\* to be tried again, or refused.  The slip: work in progress counts as done.
VerdictEarly(row) ==
    CASE row.status \in {"posted", "posted_unknown", "received"} -> "ok" [] OTHER -> "no"

Verdict(row) ==
    CASE row.status \in {"posted", "posted_unknown"} -> "ok"
      [] row.status = "received" -> "again"
      [] OTHER -> "no"

\* mark_reply_posted, mark_reply_posted_unknown: whatever the row is.
Marked(row, status) == [row EXCEPT !.status = status, !.retry = FALSE, !.lapsed = FALSE]

\* mark_reply_failed: a posted row stays posted; posted_unknown does not stay.
Failed(row, retry) ==
    IF row.status = "posted" THEN row ELSE [Marked(row, "failed") EXCEPT !.retry = retry]

-----------------------------------------------------------------------------
(* Turn attempts *)

NoAttempt == [opened |-> FALSE, completed |-> FALSE, action |-> "none",
              holder |-> NoRequest, lapsed |-> FALSE, notified |-> FALSE]

\* mark_turn_attempt_completed with completed_at: the claim goes with it.
Closed(a, action) ==
    [a EXCEPT !.completed = TRUE, !.action = action, !.holder = NoRequest, !.lapsed = FALSE]

\* A plausible slip: the failed post keeps the turn.
ReleasedNever(a, r) == a

\* release_turn_reply_claim
Released(a, r) ==
    IF a.holder = r /\ ~a.completed THEN [a EXCEPT !.holder = NoRequest, !.lapsed = FALSE]
    ELSE a

OnTurn(s, t) == s.status = "busy" /\ s.turn = t

\* Two plausible slips: a turn that has been ended is claimed; a claim of another
\* request is not looked at.
ClaimableEnded(t, r) ==
    /\ attempt[t].opened
    /\ \/ attempt[t].holder \in {NoRequest, r}
       \/ attempt[t].lapsed

ClaimableShared(t, r) ==
    /\ OnTurn(session, t)
    /\ attempt[t].opened /\ ~attempt[t].completed /\ attempt[t].action = "none"

\* The tests of claim_turn_reply, made inside its transaction.
ClaimableTurn(t, r) ==
    /\ OnTurn(session, t)
    /\ attempt[t].opened /\ ~attempt[t].completed /\ attempt[t].action = "none"
    /\ \/ attempt[t].holder \in {NoRequest, r}
       \/ attempt[t].lapsed

-----------------------------------------------------------------------------
(* Threads of the hook server *)

Off == [at |-> "off", seen |-> [status |-> "idle", turn |-> NoTurn],
        retry |-> FALSE, answer |-> "none"]

At(d, where)   == thread[d].at = where
Goto(d, where) == thread' = [thread EXCEPT ![d] = [Off EXCEPT !.at = where]]

\* A plausible slip: an answer that leaves the ledger row as it is.
FailUnmarked(d, retry, answer) == thread' = [thread EXCEPT ![d] = Off]

\* What is left to do is mark_reply_failed and the HTTP answer.
FailWith(d, retry, answer) ==
    thread' = [thread EXCEPT ![d] = [Off EXCEPT !.at = "fail", !.retry = retry,
                                                !.answer = answer]]

\* The sender, if it still waits for this delivery: accepted (200, 202), refused
\* (404, 409), or to be tried again (429, 5xx or no answer) while tries are left.
Told(s, answer) ==
    CASE answer = "ok" -> [s EXCEPT !.at = "ok"]
      [] answer = "again" /\ s.try < MaxTries -> [s EXCEPT !.at = "backoff"]
      [] OTHER -> [s EXCEPT !.at = "failed"]

\* The thread ends with an HTTP answer.
Answer(d, answer) ==
    /\ thread' = [thread EXCEPT ![d] = Off]
    /\ script' = [script EXCEPT ![d[1]] =
                    IF @.at = "wait" /\ @.last = d[2] THEN Told(@, answer) ELSE @]

-----------------------------------------------------------------------------
(* case_reply.sh *)

\* The worker runs the reply command of a turn it was given, also once more
\* after the command has failed.
RunCommand(r) ==
    /\ script[r].at \in {"idle", "failed"}
    /\ TurnOf[r] \in command
    /\ script[r].last + MaxTries <= MaxDeliveries
    /\ Spend("run")
    /\ script' = [script EXCEPT ![r].at = "backoff", ![r].try = 0]
    /\ UNCHANGED <<session, attempt, reply, notice, command, thread, control, history>>

\* One try: the request reaches the hook server.  A reaction has no ledger row.
SendRequest(r) ==
    LET k == script[r].last + 1 IN
    /\ script[r].at = "backoff"
    /\ script' = [script EXCEPT ![r] = [at |-> "wait", try |-> @.try + 1, last |-> k]]
    /\ Goto(<<r, k>>, IF Action[r] = "reaction" THEN "resolve" ELSE "claim")
    /\ UNCHANGED <<session, attempt, reply, notice, command, control, history, budget>>

\* curl gives up after 20 seconds, or the connection is lost; the thread goes on.
GiveUpWaiting(r) ==
    /\ script[r].at = "wait"
    /\ IF At(<<r, script[r].last>>, "off") THEN UNCHANGED budget ELSE Spend("giveup")
    /\ script' = [script EXCEPT ![r] = Told(@, "again")]
    /\ UNCHANGED <<session, attempt, reply, notice, command, thread, control, history>>

-----------------------------------------------------------------------------
(* _handle_case_reply: claim and checks *)

\* The ledger decides whether this delivery may go on; if not, its row says what
\* became of the request.
ClaimReply(d) ==
    LET r == d[1]
        row == reply[r]
    IN
    /\ At(d, "claim")
    /\ \/ /\ Claimable(row, r)
          /\ reply' = [reply EXCEPT ![r] = Received(r)]
          /\ takeovers' = [takeovers EXCEPT ![r] = IF TakesOver(row) THEN @ + 1 ELSE @]
          /\ Goto(d, "resolve")
          /\ UNCHANGED script
       \/ /\ ~Claimable(row, r)
          /\ Answer(d, Verdict(row))
          /\ UNCHANGED <<reply, takeovers>>
    /\ UNCHANGED <<session, attempt, notice, command, control, posts, shown, retakes,
                   steals, doubts, muted, discarded, blind, crossed, broken, budget>>

\* _resolve_session: the copy of the row that is compared later on.  A reaction
\* has no row to fail.
Resolve(d) ==
    /\ At(d, "resolve")
    /\ \/ /\ session.status # "killed"
          /\ thread' = [thread EXCEPT ![d] = [Off EXCEPT !.at = "check", !.seen = session]]
          /\ UNCHANGED script
       \/ /\ session.status = "killed"
          /\ IF Action[d[1]] = "reaction" THEN Answer(d, "no")
             ELSE FailWith(d, FALSE, "no") /\ UNCHANGED script
    /\ UNCHANGED <<session, attempt, reply, notice, command, control, history, budget>>

\* Not the turn of the copy any more, or over.
Disowned(a, s, t) == a.completed \/ ~OnTurn(s, t)

\* get_turn_attempt and _validate_case_reply_ownership.  A cancelled turn is not
\* disowned: its answer goes to the discard notice, a reaction is put all the same.
CheckTurn(d) ==
    LET r == d[1]
        t == TurnOf[r]
        a == attempt[t]
    IN
    /\ At(d, "check")
    /\ \/ /\ ~a.opened
          /\ IF Action[r] = "reaction" THEN Answer(d, "no")
             ELSE FailWith(d, FALSE, "no") /\ UNCHANGED script
          /\ UNCHANGED command
       \/ /\ a.opened /\ a.action # "cancelled" /\ Disowned(a, thread[d].seen, t)
          /\ command' = command \ {t}
          /\ IF Action[r] = "reaction" THEN Answer(d, "no")
             ELSE FailWith(d, FALSE, "no") /\ UNCHANGED script
       \/ /\ a.opened /\ a.action # "cancelled" /\ ~Disowned(a, thread[d].seen, t)
          /\ Goto(d, IF Action[r] = "reaction" THEN "post" ELSE "turn")
          /\ UNCHANGED <<command, script>>
       \/ /\ a.opened /\ a.action = "cancelled" /\ Action[r] = "reaction"
          /\ Goto(d, "post")
          /\ UNCHANGED <<command, script>>
       \/ /\ a.opened /\ a.action = "cancelled" /\ Action[r] # "reaction"
          /\ IF a.notified
             THEN command' = command \ {t} /\ FailWith(d, FALSE, "ok")
             ELSE Goto(d, "notice") /\ UNCHANGED command
          /\ UNCHANGED script
    /\ UNCHANGED <<session, attempt, reply, notice, control, history, budget>>

\* claim_turn_reply (the checks on the row read once more before it refuse only
\* what it refuses itself).  A refusal takes the reply command of the turn away.
ClaimTurn(d) ==
    LET r == d[1]
        t == TurnOf[r]
        holder == attempt[t].holder
    IN
    /\ At(d, "turn")
    /\ \/ /\ ClaimableTurn(t, r)
          /\ attempt' = [attempt EXCEPT ![t].holder = r, ![t].lapsed = FALSE]
          /\ steals' = [steals EXCEPT ![t] =
                IF attempt[t].lapsed /\ holder # r THEN @ + 1 ELSE @]
          /\ Goto(d, "post")
          /\ UNCHANGED <<command, crossed>>
       \/ /\ ~ClaimableTurn(t, r)
          /\ command' = command \ {t}
          /\ crossed' = IF holder \in {NoRequest, r} THEN crossed ELSE crossed \cup {t}
          /\ FailWith(d, FALSE, "no")
          /\ UNCHANGED <<attempt, steals>>
    /\ UNCHANGED <<session, reply, notice, script, control, posts, shown, takeovers,
                   retakes, doubts, muted, discarded, blind, broken, budget>>

-----------------------------------------------------------------------------
(* The Slack call: nothing is locked meanwhile *)

\* How the call may go: the verdict of the Slack client, and how often the text (or
\* the first part of a long one) was put into Slack by it.
Outcomes(d) == IF Action[d[1]] = "reaction" THEN Reactions ELSE Posts

Reached(r, n) == posts' = [posts EXCEPT ![r] = @ + n]

\* Slack took it (a reaction it has already counts as taken).
PostReply(d) ==
    /\ At(d, "post")
    /\ \E o \in Outcomes(d) : o.verdict = "ok" /\ Reached(d[1], o.times)
    /\ Goto(d, IF Action[d[1]] = "reaction" THEN "settle" ELSE "record")
    /\ UNCHANGED <<session, attempt, reply, notice, command, script, control, shown,
                   takeovers, retakes, steals, doubts, muted, discarded, blind, crossed,
                   broken, budget>>

\* A note beyond the daily limit is dropped and counts as posted.
PostSuppressed(d) ==
    /\ At(d, "post") /\ Action[d[1]] = "continue" /\ Spend("quiet")
    /\ muted' = muted \cup {d[1]}
    /\ Goto(d, "record")
    /\ UNCHANGED <<session, attempt, reply, notice, command, script, control, posts, shown,
                   takeovers, retakes, steals, doubts, discarded, blind, crossed, broken>>

\* Slack answered that it did not take it.
PostRefused(d) ==
    /\ At(d, "post") /\ Spend("refuse")
    /\ \E o \in Outcomes(d) :
          /\ o.verdict = "refused"
          /\ IF Action[d[1]] = "reaction" THEN UNCHANGED posts ELSE Reached(d[1], o.times)
    /\ IF Action[d[1]] = "reaction" THEN Answer(d, "again")
       ELSE Goto(d, "release") /\ UNCHANGED script
    /\ UNCHANGED <<session, attempt, reply, notice, command, control, shown, takeovers,
                   retakes, steals, doubts, muted, discarded, blind, crossed, broken>>

\* No answer, a server error, or an error after some parts of a long text.
PostUnknown(d) ==
    /\ At(d, "post") /\ Spend("unknown")
    /\ \E o \in Outcomes(d) : o.verdict = "unknown" /\ Reached(d[1], o.times)
    /\ doubts' = doubts \cup {d[1]}
    /\ Goto(d, "record_unknown")
    /\ UNCHANGED <<session, attempt, reply, notice, command, script, control, shown,
                   takeovers, retakes, steals, muted, discarded, blind, crossed, broken>>

\* The text is in Slack, but the session could not be updated afterwards: the
\* exception ends the handler where it is.
PostBreaks(d) ==
    /\ At(d, "post") /\ Action[d[1]] # "reaction" /\ Spend("break")
    /\ \E o \in Outcomes(d) : o.verdict = "ok" /\ Reached(d[1], o.times)
    /\ broken' = TRUE
    /\ Answer(d, "again")
    /\ UNCHANGED <<session, attempt, reply, notice, command, control, shown, takeovers,
                   retakes, steals, doubts, muted, discarded, blind, crossed>>

-----------------------------------------------------------------------------
(* What follows a post *)

\* The ledger row; if both updates fail it is left as it is.
Record(d) ==
    LET r == d[1] IN
    /\ At(d, "record")
    /\ \/ /\ reply' = [reply EXCEPT ![r] = Marked(@, "posted")]
          /\ UNCHANGED <<budget, broken>>
       \/ /\ Spend("ledger")
          /\ \/ reply' = [reply EXCEPT ![r] = Marked(@, "posted_unknown")] /\ UNCHANGED broken
             \/ broken' = TRUE /\ UNCHANGED reply
    /\ Goto(d, "settle")
    /\ UNCHANGED <<session, attempt, notice, command, script, control, posts, shown,
                   takeovers, retakes, steals, doubts, muted, discarded, blind, crossed>>

RecordUnknown(d) ==
    LET r == d[1] IN
    /\ At(d, "record_unknown")
    /\ \/ /\ reply' = [reply EXCEPT ![r] = Marked(@, "posted_unknown")]
          /\ UNCHANGED <<budget, broken>>
       \/ Spend("ledger") /\ broken' = TRUE /\ UNCHANGED reply
    /\ Goto(d, "settle")
    /\ UNCHANGED <<session, attempt, notice, command, script, control, posts, shown,
                   takeovers, retakes, steals, doubts, muted, discarded, blind, crossed>>

\* A failed post: release_turn_reply_claim, then mark_reply_failed.
Release(d) ==
    LET t == TurnOf[d[1]] IN
    /\ At(d, "release")
    /\ attempt' = [attempt EXCEPT ![t] = Released(@, d[1])]
    /\ FailWith(d, TRUE, "again")
    /\ UNCHANGED <<session, reply, notice, command, script, control, history, budget>>

Fail(d) ==
    /\ At(d, "fail")
    /\ reply' = [reply EXCEPT ![d[1]] = Failed(@, thread[d].retry)]
    /\ Answer(d, thread[d].answer)
    /\ UNCHANGED <<session, attempt, notice, command, control, history, budget>>

\* mark_turn_attempt_completed by the turn id alone: a note clears completed_at,
\* anything else closes the attempt, whatever has become of it.
Settle(d) ==
    LET t == TurnOf[d[1]]
        action == Action[d[1]]
    IN
    /\ At(d, "settle")
    /\ IF action = "continue"
       THEN attempt' = [attempt EXCEPT ![t].completed = FALSE] /\ Goto(d, "unclaim")
       ELSE /\ attempt' = [attempt EXCEPT ![t] =
                 Closed(@, IF action = "reaction" THEN "reaction" ELSE "close")]
            /\ Goto(d, "complete")
    /\ UNCHANGED <<session, reply, notice, command, script, control, history, budget>>

\* A plausible slip: a note takes the reply command away, too.
UnclaimAndTidy(d) ==
    LET t == TurnOf[d[1]] IN
    /\ At(d, "unclaim")
    /\ attempt' = [attempt EXCEPT ![t] = Released(@, d[1])]
    /\ command' = command \ {t}
    /\ Answer(d, "ok")
    /\ UNCHANGED <<session, reply, notice, control, history, budget>>

Unclaim(d) ==
    LET t == TurnOf[d[1]] IN
    /\ At(d, "unclaim")
    /\ attempt' = [attempt EXCEPT ![t] = Released(@, d[1])]
    /\ Answer(d, "ok")
    /\ UNCHANGED <<session, reply, notice, command, control, history, budget>>

\* handle_turn_complete: the conversation goes on only from the turn that was
\* answered.  Then the reply command of the turn is removed.
CompleteTurn(d) ==
    LET t == TurnOf[d[1]] IN
    /\ At(d, "complete")
    /\ \/ /\ OnTurn(session, t)
          /\ session' = [status |-> "idle", turn |-> NoTurn]
          /\ Goto(d, "tidy")
          /\ UNCHANGED <<command, script>>
       \/ /\ ~OnTurn(session, t)
          /\ command' = command \ {t}
          /\ Answer(d, "ok")
          /\ UNCHANGED session
    /\ UNCHANGED <<attempt, reply, notice, control, history, budget>>

\* An attempt that was opened again meanwhile is closed.
Tidy(d) ==
    LET t == TurnOf[d[1]] IN
    /\ At(d, "tidy")
    /\ attempt' = [attempt EXCEPT ![t] = IF @.completed THEN @ ELSE Closed(@, "close")]
    /\ command' = command \ {t}
    /\ Answer(d, "ok")
    /\ UNCHANGED <<session, reply, notice, control, history, budget>>

-----------------------------------------------------------------------------
(* _post_discard_notice: the answer to a cancelled turn is shown, not given *)

ClaimNotice(d) ==
    LET r == d[1]
        t == TurnOf[r]
        row == notice[t]
    IN
    /\ At(d, "notice")
    /\ \/ /\ Claimable(row, r)
          /\ notice' = [notice EXCEPT ![t] = Received(r)]
          /\ retakes' = [retakes EXCEPT ![t] = IF TakesOver(row) THEN @ + 1 ELSE @]
          /\ Goto(d, "notice_post")
          /\ UNCHANGED command
       \/ /\ ~Claimable(row, r)
          /\ IF ~Conflict(row, r) /\ row.status = "posted"
             THEN command' = command \ {t} /\ FailWith(d, FALSE, "ok")
             ELSE FailWith(d, TRUE, "again") /\ UNCHANGED command
          /\ UNCHANGED <<notice, retakes>>
    /\ UNCHANGED <<session, attempt, reply, script, control, posts, shown, takeovers,
                   steals, doubts, muted, discarded, blind, crossed, broken, budget>>

\* The text of a request was put into Slack n times as a discarded one.
Shown(r, n) ==
    /\ shown' = [shown EXCEPT ![TurnOf[r]] = @ + n]
    /\ discarded' = IF n > 0 THEN discarded \cup {r} ELSE discarded

PostNotice(d) ==
    /\ At(d, "notice_post")
    /\ \E o \in Posts : o.verdict = "ok" /\ Shown(d[1], o.times)
    /\ Goto(d, "notice_record")
    /\ UNCHANGED <<session, attempt, reply, notice, command, script, control, posts,
                   takeovers, retakes, steals, doubts, muted, blind, crossed, broken,
                   budget>>

\* An unknown delivery is taken for a failed one.
NoticeRefused(d) ==
    LET t == TurnOf[d[1]] IN
    /\ At(d, "notice_post")
    /\ \E o \in Posts :
          /\ Shown(d[1], o.times)
          /\ \/ o.verdict = "refused" /\ Spend("refuse") /\ UNCHANGED blind
             \/ /\ o.verdict = "unknown" /\ Spend("unknown")
                /\ blind' = [blind EXCEPT ![t] = @ + 1]
    /\ Goto(d, "notice_fail")
    /\ UNCHANGED <<session, attempt, reply, notice, command, script, control, posts,
                   takeovers, retakes, steals, doubts, muted, crossed, broken>>

NoticeFails(d) ==
    /\ At(d, "notice_fail")
    /\ notice' = [notice EXCEPT ![TurnOf[d[1]]] = Failed(@, TRUE)]
    /\ FailWith(d, TRUE, "again")
    /\ UNCHANGED <<session, attempt, reply, command, script, control, history, budget>>

RecordNotice(d) ==
    /\ At(d, "notice_record")
    /\ notice' = [notice EXCEPT ![TurnOf[d[1]]] = Marked(@, "posted")]
    /\ Goto(d, "notice_mark")
    /\ UNCHANGED <<session, attempt, reply, command, script, control, history, budget>>

\* mark_turn_attempt_discard_notified; the request itself counts as failed.
MarkNotified(d) ==
    LET t == TurnOf[d[1]] IN
    /\ At(d, "notice_mark")
    /\ attempt' = [attempt EXCEPT ![t].notified = TRUE]
    /\ command' = command \ {t}
    /\ FailWith(d, FALSE, "ok")
    /\ UNCHANGED <<session, reply, notice, script, control, history, budget>>

\* Any other access to a store may raise, before the post or after it (only the updates of
\* the ledger row after a post and the mark of a discarded turn are caught): the exception
\* ends the handler where it is, and is answered as a server error.
HandlerBreaks(d) ==
    /\ thread[d].at \notin {"off", "post", "record", "record_unknown", "notice_post", "notice_mark"}
    /\ Spend("break")
    /\ broken' = TRUE
    /\ Answer(d, "again")
    /\ UNCHANGED <<session, attempt, reply, notice, command, control, posts, shown,
                   takeovers, retakes, steals, doubts, muted, discarded, blind, crossed>>

-----------------------------------------------------------------------------
(* Around the hook server *)

\* The next turn of a conversation at rest: attempt, context and reply command are
\* there before the worker has the text.
StartTurn(t) ==
    /\ session.status = "idle" /\ ~attempt[t].opened
    /\ session' = [status |-> "busy", turn |-> t]
    /\ attempt' = [attempt EXCEPT ![t].opened = TRUE]
    /\ command' = command \cup {t}
    /\ UNCHANGED <<reply, notice, script, thread, control, history, budget>>

\* A user cancels the turn; a kill or a timeout stops the conversation.
BeginEnding(action) ==
    /\ control.at = "off" /\ session.status = "busy"
    /\ Spend(IF action = "cancelled" THEN "cancel" ELSE "stop")
    /\ control' = [at |-> "move", turn |-> session.turn, action |-> action]
    /\ UNCHANGED <<session, attempt, reply, notice, command, script, thread, history>>

\* The move is made on whatever turn the conversation is by now.
MoveToEnd ==
    /\ control.at = "move"
    /\ \/ /\ session.status = "busy"
          /\ session' = [status |-> IF control.action = "cancelled" THEN "idle" ELSE "killed",
                         turn |-> NoTurn]
          /\ control' = [control EXCEPT !.at = "finalize"]
       \/ /\ session.status # "busy"
          /\ control' = [control EXCEPT !.at = "off"]
          /\ UNCHANGED session
    /\ UNCHANGED <<attempt, reply, notice, command, script, thread, history, budget>>

\* finalize_session_turns: the turn that was read first is closed with its claim,
\* then every attempt that is open, whose claim stays.
Finalized(t, action) ==
    [u \in Turns |->
        CASE u = t /\ attempt[u].opened -> Closed(attempt[u], action)
          [] u # t /\ attempt[u].opened /\ ~attempt[u].completed ->
                [attempt[u] EXCEPT !.completed = TRUE, !.action = action]
          [] OTHER -> attempt[u]]

Finalize ==
    /\ control.at = "finalize"
    /\ attempt' = Finalized(control.turn, control.action)
    /\ command' = command \ {control.turn}
    /\ control' = [control EXCEPT !.at = "off"]
    /\ UNCHANGED <<session, reply, notice, script, thread, history, budget>>

\* The process dies and starts again: startup_cleanup suspends the conversation,
\* the pane is removed and with it the worker and its commands.
Restart ==
    /\ Spend("crash")
    /\ session' = [session EXCEPT !.status = IF @ = "busy" THEN "idle" ELSE @, !.turn = NoTurn]
    /\ IF session.status = "busy"
       THEN attempt' = Finalized(session.turn, "close") /\ command' = command \ {session.turn}
       ELSE UNCHANGED <<attempt, command>>
    /\ thread' = [d \in Deliveries |-> Off]
    /\ control' = [control EXCEPT !.at = "off"]
    /\ script' = [r \in Requests |->
            IF script[r].at \in {"wait", "backoff"} THEN [script[r] EXCEPT !.at = "failed"]
            ELSE script[r]]
    /\ broken' = TRUE
    /\ UNCHANGED <<reply, notice, posts, shown, takeovers, retakes, steals, doubts, muted,
                   discarded, blind, crossed>>

\* Leases run out after REPLY_CLAIM_TIMEOUT, which one Slack call may well last.
LeaseEnds ==
    /\ Spend("lapse")
    /\ \/ \E r \in Requests :
            /\ reply[r].status = "received" /\ ~reply[r].lapsed
            /\ reply' = [reply EXCEPT ![r].lapsed = TRUE]
            /\ UNCHANGED <<attempt, notice>>
       \/ \E t \in Turns :
            /\ notice[t].status = "received" /\ ~notice[t].lapsed
            /\ notice' = [notice EXCEPT ![t].lapsed = TRUE]
            /\ UNCHANGED <<attempt, reply>>
       \/ \E t \in Turns :
            /\ attempt[t].holder # NoRequest /\ ~attempt[t].lapsed
            /\ attempt' = [attempt EXCEPT ![t].lapsed = TRUE]
            /\ UNCHANGED <<notice, reply>>
    /\ UNCHANGED <<session, command, script, thread, control, history>>

-----------------------------------------------------------------------------

Init ==
    /\ session = [status |-> "idle", turn |-> NoTurn]
    /\ attempt = [t \in Turns |-> NoAttempt]
    /\ reply = [r \in Requests |-> NoRow]
    /\ notice = [t \in Turns |-> NoRow]
    /\ command = {}
    /\ script = [r \in Requests |-> [at |-> "idle", try |-> 0, last |-> 0]]
    /\ thread = [d \in Deliveries |-> Off]
    /\ control = [at |-> "off", turn |-> NoTurn, action |-> "none"]
    /\ posts = [r \in Requests |-> 0] /\ takeovers = [r \in Requests |-> 0]
    /\ shown = [t \in Turns |-> 0] /\ retakes = [t \in Turns |-> 0]
    /\ steals = [t \in Turns |-> 0] /\ blind = [t \in Turns |-> 0]
    /\ doubts = {} /\ muted = {} /\ discarded = {} /\ crossed = {} /\ broken = FALSE
    /\ budget \in Budgets

\* What a thread of the hook server does next, whatever Slack answers.
SlackCall(d) ==
    \/ PostReply(d) \/ PostSuppressed(d) \/ PostRefused(d) \/ PostUnknown(d)
    \/ PostBreaks(d) \/ PostNotice(d) \/ NoticeRefused(d)

Handler(d) ==
    \/ ClaimReply(d) \/ Resolve(d) \/ CheckTurn(d) \/ ClaimTurn(d) \/ SlackCall(d)
    \/ Record(d) \/ RecordUnknown(d) \/ Release(d) \/ Fail(d) \/ Settle(d) \/ Unclaim(d)
    \/ CompleteTurn(d) \/ Tidy(d) \/ ClaimNotice(d) \/ NoticeFails(d) \/ RecordNotice(d)
    \/ MarkNotified(d) \/ HandlerBreaks(d)

Command(r) == RunCommand(r) \/ SendRequest(r) \/ GiveUpWaiting(r)

Ending == MoveToEnd \/ Finalize

Outside ==
    \/ \E t \in Turns : StartTurn(t)
    \/ BeginEnding("cancelled") \/ BeginEnding("stopped") \/ Restart \/ LeaseEnds

Next ==
    \/ \E d \in Deliveries : Handler(d)
    \/ \E r \in Requests : Command(r)
    \/ Ending \/ Outside

Spec == Init /\ [][Next]_vars

\* Some thread of the hook server goes on as long as one can; Slack calls have
\* timeouts.  No thread runs for ever, so every one comes to its end.
Fairness == WF_vars(\E d \in Deliveries : Handler(d))

FairSpec == Spec /\ Fairness

-----------------------------------------------------------------------------
(* What holds *)

Row == [status: {"none", "received", "posted", "posted_unknown", "failed"},
        for: Requests \cup {NoRequest}, retry: BOOLEAN, lapsed: BOOLEAN]

AttemptRow == [opened: BOOLEAN, completed: BOOLEAN,
               action: {"none", "close", "reaction", "cancelled", "stopped"},
               holder: Requests \cup {NoRequest}, lapsed: BOOLEAN, notified: BOOLEAN]

SessionRow == [status: {"idle", "busy", "killed"}, turn: Turns \cup {NoTurn}]

Places == {"off", "claim", "resolve", "check", "turn", "post", "record", "record_unknown",
           "release", "fail", "settle", "unclaim", "complete", "tidy", "notice",
           "notice_post", "notice_fail", "notice_record", "notice_mark"}

ThreadRow == [at: Places, seen: SessionRow, retry: BOOLEAN,
              answer: {"none", "ok", "again", "no"}]

ScriptRow == [at: {"idle", "backoff", "wait", "ok", "failed"}, try: Nat, last: Nat]

ControlRow == [at: {"off", "move", "finalize"}, turn: Turns \cup {NoTurn},
               action: {"none", "cancelled", "stopped"}]

\* A ledger row keeps the request it was made for.
RowsOK ==
    /\ reply \in [Requests -> Row] /\ notice \in [Turns -> Row]
    /\ \A r \in Requests : reply[r].for = IF reply[r].status = "none" THEN NoRequest ELSE r
    /\ \A t \in Turns : notice[t].for = NoRequest <=> notice[t].status = "none"

TablesOK ==
    /\ session \in SessionRow
    /\ attempt \in [Turns -> AttemptRow]
    /\ command \subseteq Turns

ProcessesOK ==
    /\ script \in [Requests -> ScriptRow]
    /\ thread \in [Deliveries -> ThreadRow]
    /\ control \in ControlRow

HistoryOK ==
    /\ posts \in [Requests -> Nat] /\ takeovers \in [Requests -> Nat]
    /\ shown \in [Turns -> Nat] /\ retakes \in [Turns -> Nat]
    /\ steals \in [Turns -> Nat] /\ blind \in [Turns -> Nat]
    /\ doubts \subseteq Requests /\ muted \subseteq Requests /\ discarded \subseteq Requests
    /\ crossed \subseteq Turns
    /\ broken \in BOOLEAN
    /\ budget \in [FaultKinds -> Nat]

\* The tables, threads and commands have the shape the schema gives them.
TypeOK == RowsOK /\ TablesOK /\ ProcessesOK /\ HistoryOK

\* However often the command is run and its requests are retried, lost or
\* handled at once: a text is put into Slack a second time only by a delivery
\* that took the request over after its lease had run out, once for each such claim.
PostedAgainOnlyByTakeover == \A r \in Texts : posts[r] <= 1 + takeovers[r]

\* The discard notice of a cancelled turn is shown once, but for expired leases and
\* for notices of which it is not known whether Slack has them.
NoticeShownAgainOnlyBlindly ==
    \A t \in Turns : shown[t] <= 1 + retakes[t] + blind[t]

\* What a reply command may rest on that tells the worker that its answer was accepted:
\* the text is in Slack, or Slack gave no verdict.  In two more cases the text is not in
\* Slack and the code knows it: the request was a note beyond the daily limit, or the turn
\* was cancelled and a discard notice was shown, of this text or of another one of the
\* turn, which takes the place of all further ones.
AcceptedIsExplained ==
    \A r \in Requests :
        script[r].at = "ok" =>
            \/ posts[r] > 0 \/ r \in doubts
            \/ r \in muted /\ Action[r] = "continue"
            \/ \E s \in discarded : TurnOf[s] = TurnOf[r]

\* Whatever the text a thread is about to post: what its parts make up in Slack is the
\* text, in parts that Slack takes.
PostLosesNothing == (\E d \in Deliveries : d[1] \in Texts /\ At(d, "post")) => CutsWell

\* A turn has one final answer, whichever texts the worker sends and however they
\* race, as long as no lease runs out before its holder is done.
OneAnswerPerTurn ==
    \A r, s \in Requests :
        /\ TurnOf[r] = TurnOf[s] /\ Action[r] = "done" /\ Action[s] = "done"
        /\ steals[TurnOf[r]] = 0 /\ takeovers[r] = 0 /\ takeovers[s] = 0
        /\ posts[r] > 0 /\ posts[s] > 0
        => r = s

Answerable(t) ==
    OnTurn(session, t) /\ attempt[t].opened /\ ~attempt[t].completed
    /\ attempt[t].action = "none"

\* The worker keeps the means to answer the turn it is on, unless two of its
\* requests have crossed.
OpenTurnHasCommand ==
    \A t \in Turns :
        Answerable(t) /\ t \notin command => t \in crossed

\* What ends a turn ends it for good: no post begins on it any more, although a
\* note that was on its way opens the attempt again (its action stays).
NoPostAfterTheEnd ==
    [][\A d \in Deliveries :
          LET t == TurnOf[d[1]] IN
          attempt[t].action # "none" /\ d[1] \in Texts
          => /\ attempt'[t].action # "none"
             /\ thread'[d].at = "post" => thread[d].at = "post"]_vars

\* The claim on a turn is the lock it is meant to be.
Lock == INSTANCE LeaseLock WITH
    Things <- Turns, Owners <- Requests, NoOwner <- NoRequest,
    owner <- [t \in Turns |-> attempt[t].holder],
    lapsed <- {t \in Turns : attempt[t].lapsed},
    retired <- {t \in Turns : attempt[t].action # "none"}

TurnClaimIsLease == Lock!Spec

\* Unless a thread dies, the claim on a turn is given back or the turn is over ...
TurnClaimEnds == \A t \in Turns :
    attempt[t].holder # NoRequest
    ~> attempt[t].holder = NoRequest \/ attempt[t].action # "none" \/ broken

\* ... and a request is settled one way or the other.
RequestSettles == \A r \in Requests :
    reply[r].status = "received" ~> reply[r].status # "received" \/ broken

=============================================================================
