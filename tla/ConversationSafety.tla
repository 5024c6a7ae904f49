-------------------------- MODULE ConversationSafety --------------------------
(***************************************************************************)
(* What holds of a conversation in which nobody intervenes (no cancel, no  *)
(* kill, no cleanup, no shutdown, no question), however many messages come *)
(* in, whatever fails on the way and however often the process crashes:    *)
(* one thread at a time drives it; its panes, the claimed row and the turn *)
(* always have somebody who will see to them; a row is done when answered. *)
(***************************************************************************)
EXTENDS ConversationProofs

\* Nobody intervenes: no command, no cleanup pass, no shutdown, no question.
Undisturbed == (\A k \in Controls : At(Control(k), "off")) /\ At(Detector, "off")

\* No send that the bridge takes for failed has left its text with the worker.
NoTextLeft == "text" \notin stale

LEMMA TrueAtAll == IInv /\ NoTextLeft /\ RowTrue => stale = {}
BY DEF IInv, BooksOK, Lapses, NoTextLeft, RowTrue

-----------------------------------------------------------------------------
(* The driver of the conversation *)

OnTheWay == {"launch", "window", "load", "prepare", "allocate", "pane", "ready", "dispatch"}
GivingUp == {"timeout", "suspend_load", "fail_suspend"}
Failing  == {"fail", "fail_load", "fail_error"}

\* What a thread does that the status of the session row stands for: it starts the
\* worker, brings it a text (and takes that back), or handles the answer.
Starting(r) ==
    \/ r.at \in OnTheWay \cup GivingUp
    \/ r.at \in Failing /\ r.turn = NoTurn
    \/ r.at = "start" /\ r.snap.status = "starting"
Sending(r) ==
    \/ r.at \in {"send", "requeue", "rollback", "drain_send", "drain_undo", "first",
                 "answer_send", "answer_undo"}
    \/ r.at \in Failing /\ r.turn # NoTurn
Answering(r) ==
    r.at \in {"post", "record", "close", "check", "identity", "finish", "rest", "wait"}
Drives(r) == Starting(r) \/ Sending(r) \/ Answering(r)

Suits(p, r, s) ==
    /\ Starting(r)  => s.status = "starting"
    /\ Sending(r)   => s.status = "busy" /\ s.turn = r.turn
    /\ Answering(r) => s.status = "busy" /\ p = Reply(s.turn)

\* A launch has no turn before it dispatches; a completion read a row that was not WAITING.
Neat(r) ==
    /\ r.at \in OnTheWay \cup GivingUp \cup {"start"} => r.turn = NoTurn
    /\ r.at = "rest" => r.snap.status # "waiting"

\* A text in the pane is that of the session's turn, and no thread but the one that
\* posts its answer drives the conversation.
Working(m, s) ==
    /\ s.status = "busy" /\ s.turn = m.turn
    /\ \A p \in Processes : Drives(thread[p]) => p = Reply(m.turn) /\ At(p, "post")

AtRest(s) == s.status # "busy" => s.turn = NoTurn /\ s.row = NoRow

OneDriver ==
    /\ \A p, q \in Processes : Drives(thread[p]) /\ Drives(thread[q]) => p = q
    /\ \A p \in Processes : Suits(p, thread[p], session) /\ Neat(thread[p])
    /\ \A m \in inbox : Working(m, session)
    /\ AtRest(session)

-----------------------------------------------------------------------------
(* How threads move *)

Others(S) == \A n \in Processes \ S : thread'[n] = thread[n]

\* Thread p goes on at a place with the copy s, and with what h has in hand.
Moved(p, where, s, h) ==
    /\ thread'[p].at = where /\ thread'[p].snap = s
    /\ thread'[p].turn = h.turn /\ thread'[p].row = h.row /\ thread'[p].pane = h.pane
    /\ Others({p})

LEMMA BecomeMoves ==
    ASSUME IInv, NEW p \in Processes, NEW r, Become(p, r)
    PROVE  thread'[p] = r /\ Others({p})
BY DEF Become, Others, IInv, ThreadsOK

LEMMA Moving ==
    ASSUME IInv, NEW p \in Processes, NEW where, NEW s
    PROVE  /\ Enter(p, where, s) => Moved(p, where, s, thread[p])
           /\ Goto(p, where) => Moved(p, where, Absent, thread[p])
           /\ Keep(p, where) => Moved(p, where, Snap(p), thread[p])
           /\ Pass(p, where) => Moved(p, where, Absent, Off)
           /\ End(p) => Moved(p, "off", Absent, Off)
<1>1. thread[p] \in Hand
  BY HandFacts
<1>2. ASSUME Enter(p, where, s) PROVE Moved(p, where, s, thread[p])
  <2> DEFINE r == [thread[p] EXCEPT !.at = where, !.snap = s]
  <2>1. /\ r.at = where /\ r.snap = s /\ r.turn = thread[p].turn /\ r.row = thread[p].row
        /\ r.pane = thread[p].pane
    BY <1>1 DEF Hand, Off, Snap
  <2>2. Become(p, r)
    BY <1>2 DEF Enter
  <2> HIDE DEF r
  <2>3. QED
    BY <2>1, <2>2, BecomeMoves DEF Moved
<1>3. ASSUME Goto(p, where) PROVE Moved(p, where, Absent, thread[p])
  <2> DEFINE r == [thread[p] EXCEPT !.at = where, !.snap = Absent]
  <2>1. /\ r.at = where /\ r.snap = Absent /\ r.turn = thread[p].turn /\ r.row = thread[p].row
        /\ r.pane = thread[p].pane
    BY <1>1 DEF Hand, Off, Snap
  <2>2. Become(p, r)
    BY <1>3 DEF Goto
  <2> HIDE DEF r
  <2>3. QED
    BY <2>1, <2>2, BecomeMoves DEF Moved
<1>4. ASSUME Keep(p, where) PROVE Moved(p, where, Snap(p), thread[p])
  <2> DEFINE r == [thread[p] EXCEPT !.at = where]
  <2>1. /\ r.at = where /\ r.snap = Snap(p) /\ r.turn = thread[p].turn /\ r.row = thread[p].row
        /\ r.pane = thread[p].pane
    BY <1>1 DEF Hand, Off, Snap
  <2>2. Become(p, r)
    BY <1>4 DEF Keep
  <2> HIDE DEF r
  <2>3. QED
    BY <2>1, <2>2, BecomeMoves DEF Moved
<1>5. ASSUME Pass(p, where) PROVE Moved(p, where, Absent, Off)
  <2> DEFINE r == [Off EXCEPT !.at = where]
  <2>1. /\ r.at = where /\ r.snap = Absent /\ r.turn = Off.turn /\ r.row = Off.row
        /\ r.pane = Off.pane
    BY <1>1 DEF Hand, Off, Snap
  <2>2. Become(p, r)
    BY <1>5 DEF Pass
  <2> HIDE DEF r
  <2>3. QED
    BY <2>1, <2>2, BecomeMoves DEF Moved
<1>6. ASSUME End(p) PROVE Moved(p, "off", Absent, Off)
  BY <1>6, BecomeMoves DEF End, Moved, Off
<1>7. QED
  BY <1>2, <1>3, <1>4, <1>5, <1>6

\* A step in which p, and nobody else, may drive the conversation afterwards.
LEMMA Driven ==
    ASSUME OneDriver, NEW p \in Processes, NEW S, Others(S),
           \A n \in Processes \ {p} : ~Drives(thread[n]),
           \A n \in S \ {p} : ~Drives(thread'[n]) /\ Neat(thread'[n]),
           Suits(p, thread'[p], session') /\ Neat(thread'[p]), AtRest(session'),
           \A m \in inbox' : /\ session'.status = "busy" /\ session'.turn = m.turn
                             /\ Drives(thread'[p]) => p = Reply(m.turn) /\ thread'[p].at = "post"
    PROVE  OneDriver'
<1>1. \A n \in Processes \ {p} : ~Drives(thread'[n]) /\ Neat(thread'[n])
  BY DEF Others, OneDriver
<1>2. \A n \in Processes \ {p} : Suits(n, thread'[n], session')
  BY <1>1 DEF Drives, Suits
<1>3. QED
  BY <1>1, <1>2 DEF OneDriver, Working, At, AtRest

\* A step of threads that do not drive afterwards, and leave the row as it was.
LEMMA Bystanding ==
    ASSUME OneDriver, NEW S, Others(S), \A n \in S : ~Drives(thread'[n]) /\ Neat(thread'[n]),
           Steering(session') = Steering(session), inbox' \subseteq inbox
    PROVE  OneDriver'
<1>1. /\ session'.status = session.status /\ session'.turn = session.turn
      /\ session'.row = session.row
  BY DEF Steering
<1>2. \A n \in Processes : thread'[n] = thread[n] \/ (~Drives(thread'[n]) /\ Neat(thread'[n]))
  BY DEF Others
<1>3. \A n \in Processes : Drives(thread'[n]) => thread'[n] = thread[n] /\ Drives(thread[n])
  BY <1>2
<1>4. \A n, q \in Processes : Drives(thread'[n]) /\ Drives(thread'[q]) => n = q
  BY <1>3 DEF OneDriver
<1>5. \A n \in Processes : Suits(n, thread'[n], session') /\ Neat(thread'[n])
  BY <1>1, <1>2 DEF OneDriver, Suits, Drives
<1>6. \A m \in inbox' : /\ session'.status = "busy" /\ session'.turn = m.turn
                        /\ \A n \in Processes : Drives(thread'[n])
                             => n = Reply(m.turn) /\ thread'[n].at = "post"
  BY <1>1, <1>3 DEF OneDriver, Working, At
<1>7. AtRest(session')
  BY <1>1 DEF OneDriver, AtRest
<1>8. QED
  BY <1>4, <1>5, <1>6, <1>7 DEF OneDriver, Working, At, AtRest

\* Who drives has the conversation for himself.
LEMMA DrivesAlone ==
    ASSUME OneDriver, NEW p \in Processes, Drives(thread[p])
    PROVE  /\ \A n \in Processes \ {p} : ~Drives(thread[n])
           /\ Suits(p, thread[p], session)
           /\ ~At(p, "post") => inbox = {}
BY DEF OneDriver, Working

\* Nobody drives a conversation that is neither starting nor busy, or whose worker
\* has a text and does not answer it yet.
LEMMA NobodyDrives ==
    ASSUME OneDriver
    PROVE  /\ session.status \notin {"starting", "busy"} =>
                inbox = {} /\ \A n \in Processes : ~Drives(thread[n])
           /\ session.status = "starting" => inbox = {}
           /\ \A t \in Turns : InWork(t) =>
                /\ session.status = "busy" /\ session.turn = t
                /\ ~At(Reply(t), "post") => \A n \in Processes : ~Drives(thread[n])
BY DEF OneDriver, Working, Suits, Drives, InWork

\* A save of the whole row that undoes nothing.
LEMMA FreshSave ==
    ASSUME NEW read, NEW written, Save(read, written), stale' = {}
    PROVE  /\ session' = written /\ Steering(session) = Steering(read)
           /\ session.status = read.status /\ session.turn = read.turn
           /\ session.row = read.row /\ session.pane = read.pane
BY DEF Save, Steering

-----------------------------------------------------------------------------
(* Every step keeps one driver *)

\* A thread that goes where it does not drive, and leaves the row alone.
LEMMA StandsBy ==
    ASSUME OneDriver, NEW p \in Processes, NEW where, NEW s, NEW h, Moved(p, where, s, h),
           where \in {"off", "create", "refused", "cursor", "recover", "route", "mark",
                      "answer", "append", "active", "race", "answer_save", "verdict",
                      "drain", "drain_busy", "drain_retry", "fail_event", "fail_row"},
           Steering(session') = Steering(session), inbox' \subseteq inbox
    PROVE  OneDriver'
<1>1. ~Drives(thread'[p]) /\ Neat(thread'[p])
  BY DEF Moved, Drives, Starting, Sending, Answering, Neat, OnTheWay, GivingUp, Failing
<1>2. Others({p}) /\ \A n \in {p} : ~Drives(thread'[n]) /\ Neat(thread'[n])
  BY <1>1 DEF Moved
<1>3. QED
  BY <1>2, Bystanding

\* A thread that drives goes on driving, or gives the conversation away.
LEMMA DrivesOn ==
    ASSUME OneDriver, NEW p \in Processes, Drives(thread[p]), Others({p}),
           inbox' = {} \/ (inbox' \subseteq inbox /\ ~At(p, "post")),
           Suits(p, thread'[p], session') /\ Neat(thread'[p]), AtRest(session')
    PROVE  OneDriver'
<1>1. inbox' = {} /\ \A n \in Processes \ {p} : ~Drives(thread[n])
  BY DrivesAlone
<1>2. \A n \in {p} \ {p} : ~Drives(thread'[n]) /\ Neat(thread'[n])
  OBVIOUS
<1>3. \A m \in inbox' : /\ session'.status = "busy" /\ session'.turn = m.turn
                        /\ Drives(thread'[p]) => p = Reply(m.turn) /\ thread'[p].at = "post"
  BY <1>1
<1>4. QED
  BY <1>1, <1>2, <1>3, Driven

\* A thread takes over a conversation in which nobody drives.
LEMMA TakesOver ==
    ASSUME OneDriver, session.status \notin {"starting", "busy"}, NEW p \in Processes, NEW S,
           Others(S), \A n \in S \ {p} : ~Drives(thread'[n]) /\ Neat(thread'[n]),
           Suits(p, thread'[p], session') /\ Neat(thread'[p]), AtRest(session'),
           UNCHANGED inbox
    PROVE  OneDriver'
<1>1. inbox' = {} /\ \A n \in Processes \ {p} : ~Drives(thread[n])
  BY NobodyDrives
<1>2. \A m \in inbox' : /\ session'.status = "busy" /\ session'.turn = m.turn
                        /\ Drives(thread'[p]) => p = Reply(m.turn) /\ thread'[p].at = "post"
  BY <1>1
<1>3. QED
  BY <1>1, <1>2, Driven

LEMMA SameRow ==
    ASSUME UNCHANGED session PROVE Steering(session') = Steering(session)
BY DEF Steering

\* A send that fails, and has not left its text, changes nothing but the panes' books.
LEMMA NothingTyped ==
    ASSUME NEW t, NEW pane, SendFails(t, pane), stale' = {} PROVE UNCHANGED <<inbox, panes>>
BY DEF SendFails, PastedUnseen

\* The next try: the thread is where it was.
LEMMA TriesAgain ==
    ASSUME OneDriver, NEW t, NEW pane, SendsAgain(t, pane), stale' = {},
           UNCHANGED <<thread, session>>
    PROVE  OneDriver'
<1>1. Others({}) /\ inbox' \subseteq inbox
  BY NothingTyped DEF SendsAgain, Others
<1>2. QED
  BY <1>1, Bystanding, SameRow

LEMMA SlackOneDriver ==
    ASSUME IInv, OneDriver, stale' = {}, NEW e \in Events,
           Receive(e) \/ RefuseCreate(e) \/ RefuseRecover(e) \/ SlackStep(e)
    PROVE  OneDriver'
<1> DEFINE p == Slack(e)
<1>p. p \in Processes /\ Launch(e) \in Processes /\ p # Launch(e)
  BY ProcessNames
<1> HIDE DEF p
<1>1. CASE Receive(e)
  <2>1. PICK where \in {"create", "refused", "cursor"} : Enter(p, where, session)
    BY <1>1 DEF Receive, p
  <2>2. Moved(p, where, session, thread[p]) /\ UNCHANGED <<session, inbox>>
    BY <1>1, <1>p, <2>1, Moving DEF Receive
  <2>3. QED
    BY <1>p, <2>2, StandsBy, SameRow
<1>2. CASE RefuseCreate(e) \/ RefuseRecover(e) \/ MarkRefused(e) \/ MarkQueued(e)
  <2>1. PICK where \in {"refused", "mark", "off"} : Pass(p, where) \/ (where = "off" /\ End(p))
    BY <1>2 DEF RefuseCreate, RefuseRecover, MarkRefused, MarkQueued, p
  <2>2. Moved(p, where, Absent, Off) /\ UNCHANGED <<session, inbox>>
    BY <1>2, <1>p, <2>1, Moving DEF RefuseCreate, RefuseRecover, MarkRefused, MarkQueued
  <2>3. QED
    BY <1>p, <2>2, StandsBy, SameRow
<1>3. CASE UpdateCursor(e)
  <2> DEFINE s == [Snap(p) EXCEPT !.last = e]
  <2>1. Save(Snap(p), s) /\ UNCHANGED inbox
    BY <1>3 DEF UpdateCursor, p
  <2>2. Snap(p) \in Known /\ s.status = Snap(p).status /\ s.turn = Snap(p).turn
        /\ s.row = Snap(p).row /\ s.pane = Snap(p).pane
    BY <1>p, HandFacts DEF Known
  <2> HIDE DEF s
  <2>3. Steering(session') = Steering(session)
    BY <2>1, <2>2, FreshSave DEF Steering
  <2>4. Moved(p, "recover", session', thread[p]) \/ Moved(p, "route", Absent, Off)
    <3>1. PICK new : new = session'
      OBVIOUS
    <3>2. Enter(p, "recover", new) \/ Pass(p, "route")
      BY <1>3, <3>1 DEF UpdateCursor, p
    <3>3. QED
      BY <1>p, <3>1, <3>2, Moving
  <2>5. QED
    BY <1>p, <2>1, <2>3, <2>4, StandsBy
<1>4. CASE CreateSession(e)
  <2>1. CASE Others({p}) /\ UNCHANGED session /\ session.status # "absent"
             /\ \E where \in {"refused", "cursor"} : Enter(p, where, session)
    <3>1. PICK where \in {"refused", "cursor"} : Enter(p, where, session)
      BY <2>1
    <3>2. Moved(p, where, session, thread[p]) /\ UNCHANGED <<session, inbox>>
      BY <1>4, <1>p, <2>1, <3>1, Moving DEF CreateSession
    <3>3. QED
      BY <1>p, <3>2, StandsBy, SameRow
  <2>2. CASE session.status = "absent"
    <3> DEFINE s == [Absent EXCEPT !.status = "creating", !.last = e]
               r == [Off EXCEPT !.at = "start", !.snap = s, !.row = Len(queue) + 1]
    <3>1. session' = s /\ thread' = [thread EXCEPT ![p] = Off, ![Launch(e)] = r]
          /\ UNCHANGED inbox
      BY <1>4, <2>2 DEF CreateSession, p
    <3>2. /\ s.status = "creating" /\ s.turn = NoTurn /\ s.row = NoRow
          /\ r.at = "start" /\ r.snap = s /\ r.turn = NoTurn
      BY DEF Absent, Off
    <3>3. AtRest(session') /\ ~Drives(r) /\ Neat(r) /\ ~Drives(Off) /\ Neat(Off)
      BY <3>1, <3>2 DEF AtRest, Drives, Starting, Sending, Answering, Neat, Off, OnTheWay,
                    GivingUp, Failing
    <3> HIDE DEF s, r
    <3>4. thread'[p] = Off /\ thread'[Launch(e)] = r /\ Others({p, Launch(e)})
      BY <1>p, <3>1 DEF Others, IInv, ThreadsOK
    <3>5. Suits(p, Off, session')
      BY <3>3 DEF Suits, Drives
    <3>6. QED
      BY <1>p, <2>2, <3>1, <3>3, <3>4, <3>5, TakesOver
  <2>3. CASE session.status # "absent"
    <3>1. UNCHANGED session /\ \E where \in {"refused", "cursor"} : Enter(p, where, session)
      BY <1>4, <2>3 DEF CreateSession, p
    <3>2. Others({p})
      BY <1>p, <3>1, Moving DEF Moved
    <3>3. QED
      BY <2>1, <2>3, <3>1, <3>2
  <2>4. QED
    BY <2>2, <2>3
<1>5. QED
  BY <1>1, <1>2, <1>3, <1>4 DEF SlackStep

\* A conversation at rest gets a turn; the thread that gives it drives on.
LEMMA TurnTaken ==
    ASSUME IInv, OneDriver, session.status \notin {"starting", "busy"}, NEW p \in Processes,
           NEW q, session' = Activate(session, NextTurn, q), NEW r, Become(p, r),
           r.at \in {"send", "drain_send", "answer_send"}, r.turn = NextTurn, UNCHANGED inbox
    PROVE  OneDriver'
<1>1. session'.status = "busy" /\ session'.turn = NextTurn
  BY DEF Activate, IInv, Known
<1>2. Suits(p, r, session') /\ Neat(r) /\ AtRest(session')
  BY <1>1 DEF Suits, Neat, AtRest, Starting, Sending, Answering, OnTheWay, GivingUp, Failing
<1>3. thread'[p] = r /\ Others({p})
  BY BecomeMoves
<1>4. \A n \in {p} \ {p} : ~Drives(thread'[n]) /\ Neat(thread'[n])
  OBVIOUS
<1>5. QED
  BY <1>2, <1>3, <1>4, TakesOver

\* The turn in hand is over: the conversation is at rest, and the thread does not drive.
LEMMA TurnLeft ==
    ASSUME IInv, OneDriver, NEW p \in Processes, Drives(thread[p]), ~At(p, "post"),
           NEW x \in Status \ {"busy"}, session' = Clear(session, x),
           Others({p}), ~Drives(thread'[p]), Neat(thread'[p]), UNCHANGED inbox
    PROVE  OneDriver'
<1>1. AtRest(session')
  BY DEF Clear, AtRest, IInv, Known
<1>2. Suits(p, thread'[p], session')
  BY DEF Suits, Drives
<1>3. QED
  BY <1>1, <1>2, DrivesOn

LEMMA ReleaseLeaves ==
    ASSUME IInv, OneDriver, NEW p \in Processes, Sending(thread[p]), ReleaseBusy
    PROVE  session' = Clear(session, "idle")
<1>1. session.status = "busy"
  BY DrivesAlone DEF Drives, Suits
<1>2. CanMove({"busy"}, "idle")
  BY <1>1 DEF CanMove, Allowed
<1>3. QED
  BY <1>2 DEF ReleaseBusy, Move

\* A text is typed into the pane for the turn of the session.
LEMMA TextTyped ==
    ASSUME IInv, OneDriver, NEW p \in Processes, Sending(thread[p]), UNCHANGED session,
           NEW pane, inbox' = inbox \cup {[turn |-> thread[p].turn, pane |-> pane]},
           Others({p}), ~Drives(thread'[p]), Neat(thread'[p])
    PROVE  OneDriver'
<1>1. /\ \A n \in Processes \ {p} : ~Drives(thread[n])
      /\ Suits(p, thread[p], session) /\ inbox = {}
  BY DrivesAlone DEF Drives, Sending, At, Failing
<1>2. \A m \in inbox' : m.turn = thread[p].turn
  BY <1>1
<1>3. \A m \in inbox' : /\ session'.status = "busy" /\ session'.turn = m.turn
                        /\ Drives(thread'[p]) => p = Reply(m.turn) /\ thread'[p].at = "post"
  BY <1>1, <1>2 DEF Suits
<1>4. Suits(p, thread'[p], session') /\ AtRest(session')
  BY DEF Suits, Drives, OneDriver
<1>5. \A n \in {p} \ {p} : ~Drives(thread'[n]) /\ Neat(thread'[n])
  OBVIOUS
<1>6. QED
  BY <1>1, <1>3, <1>4, <1>5, Driven

LEMMA RouteOneDriver ==
    ASSUME IInv, OneDriver, stale' = {}, NEW e \in Events, RouteStep(e)
    PROVE  OneDriver'
<1> DEFINE p == Slack(e)
<1>p. p \in Processes /\ Launch(e) \in Processes /\ p # Launch(e)
  BY ProcessNames
<1> HIDE DEF p
<1>1. CASE Route(e)
  <2>1. session.status \in Status \cup {"absent"}
    BY DEF IInv, Known
  <2>2. PICK branch \in {"answer", "append", "mark", "recover", "active"} :
           Enter(p, branch, session)
    BY <1>1, <2>1 DEF Route, Branches, Status, p
  <2>3. Moved(p, branch, session, thread[p]) /\ UNCHANGED <<session, inbox>>
    BY <1>1, <1>p, <2>2, Moving DEF Route
  <2>4. QED
    BY <1>p, <2>3, StandsBy, SameRow
<1>2. CASE RouteQueue(e) \/ RouteRace(e)
  <2>1. PICK where \in {"mark", "route"} : Pass(p, where)
    BY <1>2 DEF RouteQueue, RouteRace, p
  <2>2. Moved(p, where, Absent, Off) /\ UNCHANGED <<session, inbox>>
    BY <1>2, <1>p, <2>1, Moving DEF RouteQueue, RouteRace
  <2>3. QED
    BY <1>p, <2>2, StandsBy, SameRow
<1>3. CASE RouteActive(e)
  <2>1. CASE Keep(p, "race") /\ UNCHANGED session
    <3>1. Moved(p, "race", Snap(p), thread[p]) /\ UNCHANGED <<session, inbox>>
      BY <1>3, <1>p, <2>1, Moving DEF RouteActive
    <3>2. QED
      BY <1>p, <3>1, StandsBy, SameRow
  <2>2. CASE ~(Keep(p, "race") /\ UNCHANGED session)
    <3> DEFINE r == [Off EXCEPT !.at = "send", !.turn = NextTurn, !.pane = session.pane]
    <3>1. Move({"idle"}, Activate(session, NextTurn, NoRow)) /\ Become(p, r) /\ UNCHANGED inbox
      BY <1>3, <2>2 DEF RouteActive, p
    <3>2. r.at = "send" /\ r.turn = NextTurn
      BY DEF Off
    <3> HIDE DEF r
    <3>3. session' = Activate(session, NextTurn, NoRow) /\ session.status = "idle"
      BY <3>1 DEF Move, CanMove
    <3>4. QED
      BY <1>p, <3>1, <3>2, <3>3, TurnTaken
  <2>3. QED
    BY <2>1, <2>2
<1>4. CASE SendActive(e)
  <2>1. Sending(thread[p]) /\ UNCHANGED session
    BY <1>4 DEF SendActive, p, At, Sending
  <2>2. CASE Send(thread[p].turn, e, thread[p].pane) /\ Pass(p, "mark")
    <3>1. Moved(p, "mark", Absent, Off)
      BY <1>p, <2>2, Moving
    <3>2. ~Drives(thread'[p]) /\ Neat(thread'[p]) /\ Others({p})
      BY <3>1 DEF Moved, Drives, Starting, Sending, Answering, Neat, OnTheWay, GivingUp, Failing
    <3>3. QED
      BY <1>p, <2>1, <2>2, <3>2, TextTyped DEF Send
  <2>3. CASE SendFails(thread[p].turn, thread[p].pane) /\ Goto(p, "requeue")
    <3>1. Moved(p, "requeue", Absent, thread[p]) /\ UNCHANGED inbox
      BY <1>p, <2>3, Moving, NothingTyped
    <3>2. Suits(p, thread[p], session) /\ AtRest(session) /\ ~At(p, "post") /\ Drives(thread[p])
      BY <1>p, <1>4, <2>1 DEF OneDriver, SendActive, p, At, Drives
    <3>3. Suits(p, thread'[p], session') /\ Neat(thread'[p]) /\ AtRest(session')
      BY <2>1, <3>1, <3>2 DEF Suits, Sending, Starting, Answering, Neat, Moved, AtRest, OnTheWay,
                    GivingUp, Failing
    <3>4. QED
      BY <1>p, <3>1, <3>2, <3>3, DrivesOn DEF Moved
  <2>4. CASE SendsAgain(thread[p].turn, thread[p].pane) /\ UNCHANGED thread
    BY <2>1, <2>4, TriesAgain
  <2>5. QED
    BY <1>4, <2>2, <2>3, <2>4 DEF SendActive, SendFailsAndCloses, p
<1>5. CASE Requeue(e)
  <2>1. Moved(p, "rollback", Absent, thread[p]) /\ UNCHANGED <<session, inbox>>
    BY <1>5, <1>p, Moving DEF Requeue, p
  <2>2. Suits(p, thread[p], session) /\ AtRest(session) /\ Sending(thread[p]) /\ ~At(p, "post")
    BY <1>p, <1>5 DEF OneDriver, Requeue, p, At, Sending
  <2>3. Suits(p, thread'[p], session') /\ Neat(thread'[p]) /\ AtRest(session')
    BY <2>1, <2>2 DEF Suits, Sending, Starting, Answering, Neat, Moved, AtRest, OnTheWay,
                  GivingUp, Failing
  <2>4. QED
    BY <1>p, <2>1, <2>2, <2>3, DrivesOn DEF Moved, Drives
<1>6. CASE Rollback(e)
  <2>1. Moved(p, "mark", Absent, Off) /\ UNCHANGED inbox /\ Sending(thread[p]) /\ ~At(p, "post")
    BY <1>6, <1>p, Moving DEF Rollback, p, At, Sending
  <2>2. session' = Clear(session, "idle")
    BY <1>6, <1>p, <2>1, ReleaseLeaves DEF Rollback
  <2>3. ~Drives(thread'[p]) /\ Neat(thread'[p]) /\ Others({p})
    BY <2>1 DEF Moved, Drives, Starting, Sending, Answering, Neat, OnTheWay, GivingUp, Failing
  <2>4. QED
    BY <1>p, <2>1, <2>2, <2>3, TurnLeft DEF Status, Drives
<1>7. CASE RecoverSession(e)
  <2>1. CASE Pass(p, "mark") /\ UNCHANGED session
    <3>1. Moved(p, "mark", Absent, Off) /\ UNCHANGED <<session, inbox>>
      BY <1>7, <1>p, <2>1, Moving DEF RecoverSession
    <3>2. QED
      BY <1>p, <3>1, StandsBy, SameRow
  <2>2. CASE ~(Pass(p, "mark") /\ UNCHANGED session)
    <3> DEFINE s == [Clear(session, "starting") EXCEPT !.why = "none", !.pane = NoPane]
               r == [Off EXCEPT !.at = "mark"]
               n == [Off EXCEPT !.at = "launch", !.snap = s]
    <3>1. /\ Move({"suspended", "killed"}, s) /\ UNCHANGED inbox
          /\ thread' = [thread EXCEPT ![p] = r, ![Launch(e)] = n]
      BY <1>7, <2>2 DEF RecoverSession, Move, p
    <3>2. /\ s.status = "starting" /\ s.turn = NoTurn /\ s.row = NoRow
          /\ r.at = "mark" /\ n.at = "launch" /\ n.turn = NoTurn
      BY DEF Clear, IInv, Known, Off
    <3> HIDE DEF s, r, n
    <3>3. session' = s /\ session.status \in {"suspended", "killed"}
      BY <3>1 DEF Move, CanMove
    <3>4. ~Drives(r) /\ Neat(r) /\ Suits(Launch(e), n, session') /\ Neat(n) /\ AtRest(session')
      BY <3>2, <3>3 DEF Drives, Starting, Sending, Answering, Neat, OnTheWay, GivingUp, Failing,
                    Suits, AtRest
    <3>5. thread'[p] = r /\ thread'[Launch(e)] = n /\ Others({p, Launch(e)})
      BY <1>p, <3>1 DEF Others, IInv, ThreadsOK
    <3>6. QED
      BY <1>p, <3>1, <3>3, <3>4, <3>5, TakesOver
  <2>3. QED
    BY <2>1, <2>2
<1>8. QED
  BY <1>1, <1>2, <1>3, <1>4, <1>5, <1>6, <1>7 DEF RouteStep

\* The driver goes on as what it was.
LEMMA SendsOn ==
    ASSUME IInv, OneDriver, NEW p \in Processes, Sending(thread[p]), UNCHANGED session,
           Others({p}), Sending(thread'[p]), thread'[p].turn = thread[p].turn,
           UNCHANGED inbox \/ inbox' = {}
    PROVE  OneDriver'
<1>1. Suits(p, thread[p], session) /\ AtRest(session) /\ ~At(p, "post")
  BY DEF OneDriver, Sending, At, Failing
<1>2. ~Starting(thread'[p]) /\ ~Answering(thread'[p]) /\ Neat(thread'[p])
  BY DEF Sending, Starting, Answering, Neat, OnTheWay, GivingUp, Failing
<1>3. Suits(p, thread'[p], session') /\ AtRest(session')
  BY <1>1, <1>2 DEF Suits
<1>4. QED
  BY <1>1, <1>2, <1>3, DrivesOn DEF Drives

LEMMA AnswerOneDriver ==
    ASSUME IInv, OneDriver, stale' = {}, NEW e \in Events, AnswerStep(e)
    PROVE  OneDriver'
<1> DEFINE p == Slack(e)
<1>p. p \in Processes
  BY ProcessNames
<1> HIDE DEF p
<1>1. CASE Answer(e)
  <2>1. CASE Pass(p, "mark") /\ UNCHANGED session
    <3>1. Moved(p, "mark", Absent, Off) /\ UNCHANGED <<session, inbox>>
      BY <1>1, <1>p, <2>1, Moving DEF Answer
    <3>2. QED
      BY <1>p, <3>1, StandsBy, SameRow
  <2>2. CASE ~(Pass(p, "mark") /\ UNCHANGED session)
    <3>0. PICK new : new = session'
      OBVIOUS
    <3> DEFINE r == [Off EXCEPT !.at = "answer_send", !.turn = NextTurn, !.snap = new]
    <3>1. Move({"waiting"}, Activate(session, NextTurn, NoRow)) /\ Become(p, r) /\ UNCHANGED inbox
      BY <1>1, <2>2, <3>0 DEF Answer, p
    <3>2. r.at = "answer_send" /\ r.turn = NextTurn
      BY DEF Off
    <3> HIDE DEF r
    <3>3. session' = Activate(session, NextTurn, NoRow) /\ session.status = "waiting"
      BY <3>1 DEF Move, CanMove
    <3>4. QED
      BY <1>p, <3>1, <3>2, <3>3, TurnTaken
  <2>3. QED
    BY <2>1, <2>2
<1>2. CASE SendAnswer(e)
  <2>1. Sending(thread[p]) /\ UNCHANGED session
    BY <1>2 DEF SendAnswer, p, At, Sending
  <2>2. CASE Send(thread[p].turn, e, Snap(p).pane) /\ Keep(p, "answer_save")
    <3>1. Moved(p, "answer_save", Snap(p), thread[p])
      BY <1>p, <2>2, Moving
    <3>2. ~Drives(thread'[p]) /\ Neat(thread'[p]) /\ Others({p})
      BY <3>1 DEF Moved, Drives, Starting, Sending, Answering, Neat, OnTheWay, GivingUp, Failing
    <3>3. QED
      BY <1>p, <2>1, <2>2, <3>2, TextTyped DEF Send
  <2>3. CASE SendFails(thread[p].turn, Snap(p).pane) /\ Goto(p, "answer_undo")
    <3>1. Moved(p, "answer_undo", Absent, thread[p]) /\ UNCHANGED inbox
      BY <1>p, <2>3, Moving, NothingTyped
    <3>2. QED
      BY <1>p, <2>1, <3>1, SendsOn DEF Moved, Sending
  <2>4. QED
    BY <1>2, <2>2, <2>3 DEF SendAnswer, p
<1>3. CASE AnswerUndo(e)
  <2>1. Moved(p, "mark", Absent, Off) /\ UNCHANGED inbox /\ Sending(thread[p]) /\ ~At(p, "post")
    BY <1>3, <1>p, Moving DEF AnswerUndo, p, At, Sending
  <2>2. session' = Clear(session, "waiting")
    <3>1. session.status = "busy"
      BY <1>p, <2>1, DrivesAlone DEF Drives, Suits
    <3>2. CanMove({"busy"}, "waiting")
      BY <3>1 DEF CanMove, Allowed
    <3>3. QED
      BY <1>3, <3>2 DEF AnswerUndo, Move
  <2>3. ~Drives(thread'[p]) /\ Neat(thread'[p]) /\ Others({p})
    BY <2>1 DEF Moved, Drives, Starting, Sending, Answering, Neat, OnTheWay, GivingUp, Failing
  <2>4. QED
    BY <1>p, <2>1, <2>2, <2>3, TurnLeft DEF Status, Drives
<1>4. CASE SaveAnswered(e)
  <2>1. Save(Snap(p), Snap(p)) /\ UNCHANGED inbox
    BY <1>4 DEF SaveAnswered, p
  <2>2. Steering(session') = Steering(session)
    BY <2>1, FreshSave DEF Steering
  <2>3. Moved(p, "mark", Absent, Off)
    BY <1>4, <1>p, Moving DEF SaveAnswered, p
  <2>4. QED
    BY <1>p, <2>1, <2>2, <2>3, StandsBy
<1>5. QED
  BY <1>1, <1>2, <1>3, <1>4 DEF AnswerStep

\* Where the answer is handled: the conversation is busy with its turn.
LEMMA AnswersHere ==
    ASSUME OneDriver, NEW t \in Turns, Answering(thread[Reply(t)])
    PROVE  session.status = "busy" /\ session.turn = t
<1>1. session.status = "busy" /\ Reply(t) = Reply(session.turn)
  BY ProcessNames DEF OneDriver, Suits
<1>2. QED
  BY <1>1 DEF Reply

\* The driver of an answer goes on with it.
LEMMA AnswersOn ==
    ASSUME IInv, OneDriver, NEW t \in Turns, Answering(thread[Reply(t)]), ~At(Reply(t), "post"),
           Others({Reply(t)}), Steering(session') = Steering(session),
           Answering(thread'[Reply(t)]),
           thread'[Reply(t)].at = "rest" => thread'[Reply(t)].snap = session, UNCHANGED inbox
    PROVE  OneDriver'
<1> DEFINE p == Reply(t)
<1>1. p \in Processes
  BY ProcessNames
<1>2. session.status = "busy" /\ session.turn = t /\ AtRest(session)
  BY AnswersHere DEF OneDriver
<1>3. ~Starting(thread'[p]) /\ ~Sending(thread'[p]) /\ Neat(thread'[p])
  BY <1>2 DEF Sending, Starting, Answering, Neat, OnTheWay, GivingUp, Failing
<1>4. Suits(p, thread'[p], session') /\ AtRest(session')
  BY <1>2, <1>3 DEF Suits, Steering, AtRest
<1> HIDE DEF p
<1>5. QED
  BY <1>1, <1>3, <1>4, DrivesOn DEF Drives, p

LEMMA ReplyOneDriver ==
    ASSUME IInv, OneDriver, stale' = {}, NEW t \in Turns, ReplyStep(t)
    PROVE  OneDriver'
<1> DEFINE p == Reply(t)
<1>p. p \in Processes
  BY ProcessNames
<1> HIDE DEF p
<1>1. CASE BeginReply(t)
  <2>1. /\ session.status = "busy" /\ session.turn = t /\ At(p, "off")
        /\ \A n \in Processes : ~Drives(thread[n])
    BY <1>1, NobodyDrives DEF BeginReply, At, p
  <2>2. CASE inbox' = Without(t) /\ UNCHANGED thread
    <3>1. Others({}) /\ inbox' \subseteq inbox /\ UNCHANGED session
      BY <1>1, <2>2 DEF Others, Without, BeginReply
    <3>2. QED
      BY <3>1, Bystanding, SameRow
  <2>3. CASE Goto(p, "post") /\ UNCHANGED inbox
    <3>1. Moved(p, "post", Absent, thread[p]) /\ UNCHANGED session
      BY <1>1, <1>p, <2>3, Moving DEF BeginReply
    <3>2. Suits(p, thread'[p], session') /\ Neat(thread'[p]) /\ AtRest(session')
      BY <2>1, <3>1 DEF Suits, Starting, Sending, Neat, Moved, AtRest, OnTheWay, GivingUp,
                    Failing, p
    <3>3. \A m \in inbox' : /\ session'.status = "busy" /\ session'.turn = m.turn
                            /\ Drives(thread'[p]) => p = Reply(m.turn) /\ thread'[p].at = "post"
      BY <2>1, <2>3, <3>1 DEF OneDriver, Working, p, Moved
    <3>4. \A n \in {p} \ {p} : ~Drives(thread'[n]) /\ Neat(thread'[n])
      OBVIOUS
    <3>5. QED
      BY <1>p, <2>1, <3>1, <3>2, <3>3, <3>4, Driven DEF Moved
  <2>4. QED
    BY <1>1, <2>2, <2>3 DEF BeginReply, p
<1>2. CASE PostReply(t)
  <2>1. session.status = "busy" /\ session.turn = t /\ Answering(thread[p]) /\ At(p, "post")
    BY <1>2, AnswersHere DEF PostReply, p, At, Answering
  <2>2. CASE inbox' = Without(t) /\ Enter(p, "record", session)
    <3>1. Moved(p, "record", session, thread[p]) /\ UNCHANGED session
      BY <1>2, <1>p, <2>2, Moving DEF PostReply
    <3>2. inbox' = {}
      BY <2>1, <2>2 DEF Without, OneDriver, Working
    <3>3. Suits(p, thread'[p], session') /\ Neat(thread'[p]) /\ AtRest(session')
      BY <2>1, <3>1 DEF Suits, Starting, Sending, Neat, Moved, AtRest, OnTheWay, GivingUp,
                    Failing, p
    <3>4. QED
      BY <1>p, <2>1, <3>1, <3>2, <3>3, DrivesOn DEF Moved, Drives
  <2>3. CASE End(p) /\ UNCHANGED inbox
    <3>1. Moved(p, "off", Absent, Off) /\ UNCHANGED <<session, inbox>>
      BY <1>2, <1>p, <2>3, Moving DEF PostReply
    <3>2. QED
      BY <1>p, <3>1, StandsBy, SameRow
  <2>4. QED
    BY <1>2, <2>2, <2>3 DEF PostReply, p
<1>3. CASE RecordReply(t) \/ SaveIdentity(t)
  <2>1. Save(Snap(p), Snap(p)) /\ UNCHANGED inbox /\ Answering(thread[p]) /\ ~At(p, "post")
    BY <1>3 DEF RecordReply, SaveIdentity, p, At, Answering
  <2>2. Steering(session') = Steering(session)
    BY <2>1, FreshSave DEF Steering
  <2>3. PICK where \in {"close", "finish"} : Goto(p, where)
    BY <1>3 DEF RecordReply, SaveIdentity, p
  <2>4. Moved(p, where, Absent, thread[p])
    BY <1>p, <2>3, Moving
  <2>5. QED
    BY <2>1, <2>2, <2>4, AnswersOn DEF Moved, Answering, p
<1>4. CASE CloseAttempt(t)
  <2>1. Moved(p, "check", Absent, thread[p]) /\ UNCHANGED <<session, inbox>>
    BY <1>4, <1>p, Moving DEF CloseAttempt, p
  <2>2. Answering(thread[p]) /\ ~At(p, "post")
    BY <1>4 DEF CloseAttempt, p, At, Answering
  <2>3. QED
    BY <2>1, <2>2, AnswersOn, SameRow DEF Moved, Answering, p
<1>5. CASE CheckTurn(t)
  <2>1. Answering(thread[p]) /\ ~At(p, "post") /\ UNCHANGED <<session, inbox>>
    BY <1>5 DEF CheckTurn, p, At, Answering
  <2>2. CASE Enter(p, "identity", session)
    <3>1. Moved(p, "identity", session, thread[p])
      BY <1>p, <2>2, Moving
    <3>2. QED
      BY <2>1, <3>1, AnswersOn, SameRow DEF Moved, Answering, p
  <2>3. CASE End(p)
    <3>1. Moved(p, "off", Absent, Off)
      BY <1>p, <2>3, Moving
    <3>2. QED
      BY <1>p, <2>1, <3>1, StandsBy, SameRow
  <2>4. QED
    BY <1>5, <2>2, <2>3 DEF CheckTurn, p
<1>6. CASE MarkDone(t)
  <2>1. Moved(p, "off", Absent, Off) /\ UNCHANGED <<session, inbox>>
    BY <1>6, <1>p, Moving DEF MarkDone, p
  <2>2. QED
    BY <1>p, <2>1, StandsBy, SameRow
<1>7. QED
  BY <1>1, <1>2, <1>3, <1>4, <1>5, <1>6 DEF ReplyStep

LEMMA CompleteOneDriver ==
    ASSUME IInv, OneDriver, stale' = {}, NEW t \in Turns, CompleteStep(t)
    PROVE  OneDriver'
<1> DEFINE p == Reply(t)
<1>p. p \in Processes
  BY ProcessNames
<1> HIDE DEF p
<1>1. CASE BeginComplete(t)
  <2>1. Answering(thread[p]) /\ ~At(p, "post") /\ UNCHANGED <<session, inbox>>
    BY <1>1 DEF BeginComplete, p, At, Answering
  <2>2. CASE End(p)
    <3>1. Moved(p, "off", Absent, Off)
      BY <1>p, <2>2, Moving
    <3>2. QED
      BY <1>p, <2>1, <3>1, StandsBy, SameRow
  <2>3. CASE ~End(p)
    <3>1. session.status = "busy"
      BY <2>1, AnswersHere DEF p
    <3>2. PICK where \in {"rest", "wait"} : Enter(p, where, session)
      BY <1>1, <2>3, <3>1 DEF BeginComplete, p
    <3>3. Moved(p, where, session, thread[p])
      BY <1>p, <3>2, Moving
    <3>4. QED
      BY <2>1, <3>3, AnswersOn, SameRow DEF Moved, Answering, p
  <2>4. QED
    BY <2>2, <2>3
<1>2. CASE CompleteWait(t)
  <2>1. session.status = "busy" /\ Drives(thread[p]) /\ ~At(p, "post")
    BY <1>2, AnswersHere DEF CompleteWait, p, At, Answering, Drives
  <2>2. CanMove({"busy"}, "waiting")
    BY <2>1 DEF CanMove, Allowed
  <2>3. session' = Clear(session, "waiting") /\ Pass(p, "verdict") /\ UNCHANGED inbox
    BY <1>2, <2>2 DEF CompleteWait, p, Move
  <2>4. Moved(p, "verdict", Absent, Off)
    BY <1>p, <2>3, Moving
  <2>5. ~Drives(thread'[p]) /\ Neat(thread'[p]) /\ Others({p})
    BY <2>4 DEF Moved, Drives, Starting, Sending, Answering, Neat, OnTheWay, GivingUp, Failing
  <2>6. QED
    BY <1>p, <2>1, <2>3, <2>5, TurnLeft DEF Status
<1>3. CASE CompleteTurn(t)
  <2>1. session.status = "busy" /\ Drives(thread[p]) /\ ~At(p, "post")
    BY <1>3, AnswersHere DEF CompleteTurn, p, At, Answering, Drives
  <2>2. Snap(p).status # "waiting"
    BY <1>3, <1>p DEF CompleteTurn, p, At, OneDriver, Neat, Snap
  <2>3. CanMove({"busy"}, "idle")
    BY <2>1 DEF CanMove, Allowed
  <2>4. PICK q : q = QueueHead
    OBVIOUS
  <2>5. /\ session' = Clear(session, "idle") /\ UNCHANGED inbox
        /\ Become(p, [Off EXCEPT !.at = "drain", !.row = q]) \/ Pass(p, "verdict")
    BY <1>3, <2>2, <2>3, <2>4 DEF CompleteTurn, p, Move, CanMove, Clear
  <2>6. ~Drives(thread'[p]) /\ Neat(thread'[p]) /\ Others({p})
    <3>1. CASE Pass(p, "verdict")
      <4>1. Moved(p, "verdict", Absent, Off)
        BY <1>p, <3>1, Moving
      <4>2. QED
        BY <4>1 DEF Moved, Drives, Starting, Sending, Answering, Neat, OnTheWay, GivingUp,
                    Failing
    <3>2. CASE Become(p, [Off EXCEPT !.at = "drain", !.row = q])
      <4> DEFINE r == [Off EXCEPT !.at = "drain", !.row = q]
      <4>1. r.at = "drain"
        BY DEF Off
      <4>2. ~Drives(r) /\ Neat(r)
        BY <4>1 DEF Drives, Starting, Sending, Answering, Neat, OnTheWay, GivingUp, Failing
      <4>3. Become(p, r)
        BY <3>2
      <4> HIDE DEF r
      <4>4. QED
        BY <1>p, <4>2, <4>3, BecomeMoves
    <3>3. QED
      BY <2>5, <3>1, <3>2
  <2>7. QED
    BY <1>p, <2>1, <2>5, <2>6, TurnLeft DEF Status
<1>4. CASE DrainClaim(t)
  <2>1. UNCHANGED <<session, inbox>> /\ (Goto(p, "drain_busy") \/ Pass(p, "verdict"))
    BY <1>4 DEF DrainClaim, p
  <2>2. Moved(p, "drain_busy", Absent, thread[p]) \/ Moved(p, "verdict", Absent, Off)
    BY <1>p, <2>1, Moving
  <2>3. QED
    BY <1>p, <2>1, <2>2, StandsBy, SameRow
<1>5. CASE DrainBusy(t)
  <2>1. CASE Pass(p, "verdict") /\ UNCHANGED session
    <3>1. Moved(p, "verdict", Absent, Off) /\ UNCHANGED <<session, inbox>>
      BY <1>5, <1>p, <2>1, Moving DEF DrainBusy
    <3>2. QED
      BY <1>p, <3>1, StandsBy, SameRow
  <2>2. CASE ~(Pass(p, "verdict") /\ UNCHANGED session)
    <3> DEFINE r == [thread[p] EXCEPT !.at = "drain_send", !.turn = NextTurn,
                                      !.pane = session.pane]
    <3>1. Move({"idle"}, Activate(session, NextTurn, thread[p].row)) /\ Become(p, r)
          /\ UNCHANGED inbox
      BY <1>5, <2>2 DEF DrainBusy, p
    <3>2. r.at = "drain_send" /\ r.turn = NextTurn
      BY <1>p, HandFacts DEF Hand
    <3> HIDE DEF r
    <3>3. session' = Activate(session, NextTurn, thread[p].row) /\ session.status = "idle"
      BY <3>1 DEF Move, CanMove
    <3>4. QED
      BY <1>p, <3>1, <3>2, <3>3, TurnTaken
  <2>3. QED
    BY <2>1, <2>2
<1>6. CASE DrainSend(t)
  <2>1. Sending(thread[p]) /\ UNCHANGED session
    BY <1>6 DEF DrainSend, p, At, Sending
  <2>2. PICK e : e = queue[thread[p].row].item
    OBVIOUS
  <2>3. CASE Send(thread[p].turn, e, thread[p].pane) /\ Pass(p, "verdict")
    <3>1. Moved(p, "verdict", Absent, Off)
      BY <1>p, <2>3, Moving
    <3>2. ~Drives(thread'[p]) /\ Neat(thread'[p]) /\ Others({p})
      BY <3>1 DEF Moved, Drives, Starting, Sending, Answering, Neat, OnTheWay, GivingUp, Failing
    <3>3. QED
      BY <1>p, <2>1, <2>3, <3>2, TextTyped DEF Send
  <2>4. CASE SendFails(thread[p].turn, thread[p].pane) /\ Goto(p, "drain_undo")
    <3>1. Moved(p, "drain_undo", Absent, thread[p]) /\ UNCHANGED inbox
      BY <1>p, <2>4, Moving, NothingTyped
    <3>2. QED
      BY <1>p, <2>1, <3>1, SendsOn DEF Moved, Sending
  <2>5. CASE SendsAgain(thread[p].turn, thread[p].pane) /\ UNCHANGED thread
    BY <2>1, <2>5, TriesAgain
  <2>6. QED
    BY <1>6, <2>2, <2>3, <2>4, <2>5 DEF DrainSend, SendFailsAndCloses, p
<1>7. CASE DrainUndo(t)
  <2>1. /\ Moved(p, "drain_retry", Absent, thread[p]) /\ UNCHANGED inbox
        /\ Sending(thread[p]) /\ ~At(p, "post")
    BY <1>7, <1>p, Moving DEF DrainUndo, p, At, Sending
  <2>2. session' = Clear(session, "idle")
    BY <1>7, <1>p, <2>1, ReleaseLeaves DEF DrainUndo
  <2>3. ~Drives(thread'[p]) /\ Neat(thread'[p]) /\ Others({p})
    BY <2>1 DEF Moved, Drives, Starting, Sending, Answering, Neat, OnTheWay, GivingUp, Failing
  <2>4. QED
    BY <1>p, <2>1, <2>2, <2>3, TurnLeft DEF Status, Drives
<1>8. CASE DrainRetry(t)
  <2>1. Moved(p, "verdict", Absent, Off) /\ UNCHANGED <<session, inbox>>
    BY <1>8, <1>p, Moving DEF DrainRetry, p
  <2>2. QED
    BY <1>p, <2>1, StandsBy, SameRow
<1>9. QED
  BY <1>1, <1>2, <1>3, <1>4, <1>5, <1>6, <1>7, <1>8 DEF CompleteStep

\* A launch goes on; the row's status and turn stay.
LEMMA StartsOn ==
    ASSUME IInv, OneDriver, NEW p \in Processes, Starting(thread[p]), Others({p}),
           session'.status = session.status, session'.turn = session.turn,
           session'.row = session.row, Starting(thread'[p]), thread'[p].turn = NoTurn,
           thread'[p].at # "rest", UNCHANGED inbox \/ inbox' \subseteq inbox
    PROVE  OneDriver'
<1>1. Suits(p, thread[p], session) /\ AtRest(session) /\ ~At(p, "post")
  BY DEF OneDriver, Starting, At, OnTheWay, GivingUp, Failing
<1>2. ~Sending(thread'[p]) /\ ~Answering(thread'[p]) /\ Neat(thread'[p])
  BY DEF Sending, Starting, Answering, Neat, OnTheWay, GivingUp, Failing
<1>3. Suits(p, thread'[p], session') /\ AtRest(session')
  BY <1>1, <1>2 DEF Suits, AtRest
<1>4. QED
  BY <1>1, <1>2, <1>3, DrivesOn DEF Drives

\* A launch that has lost its pane fails, without it.
LostPane(p) ==
    /\ thread'[p].at = "fail" /\ thread'[p].snap = Absent /\ thread'[p].pane = NoPane
    /\ thread'[p].turn = thread[p].turn /\ thread'[p].row = thread[p].row
    /\ Others({p}) /\ lost' = lost \cup {thread[p].pane}

LEMMA LosesPane ==
    ASSUME IInv, NEW e \in Events, LosePane(e)
    PROVE  LostPane(Launch(e))
<1> DEFINE p == Launch(e)
           r == [thread[p] EXCEPT !.at = "fail", !.snap = Absent, !.pane = NoPane]
<1>1. p \in Processes /\ thread[p] \in Hand
  BY ProcessNames, HandFacts
<1>2. Become(p, r) /\ lost' = lost \cup {thread[p].pane}
  BY DEF LosePane
<1>3. /\ r.at = "fail" /\ r.snap = Absent /\ r.pane = NoPane
      /\ r.turn = thread[p].turn /\ r.row = thread[p].row
  BY <1>1 DEF Hand
<1> HIDE DEF r
<1>4. QED
  BY <1>1, <1>2, <1>3, BecomeMoves DEF LostPane

LEMMA LaunchOneDriver ==
    ASSUME IInv, OneDriver, stale' = {}, NEW e \in Events, LaunchStep(e)
    PROVE  OneDriver'
<1> DEFINE p == Launch(e)
<1>p. p \in Processes
  BY ProcessNames
<1> HIDE DEF p
<1>t. thread[p].at \in OnTheWay => Starting(thread[p]) /\ thread[p].turn = NoTurn
  BY <1>p DEF OneDriver, Neat, Starting
<1>1. CASE StartWorker(e)
  <2>n. thread[p].turn = NoTurn /\ UNCHANGED inbox
    BY <1>1, <1>p DEF OneDriver, Neat, StartWorker, p, At
  <2>1. CASE Move({"creating"}, [session EXCEPT !.status = "starting"]) /\ Goto(p, "launch")
    <3>1. session.status = "creating" /\ session' = [session EXCEPT !.status = "starting"]
      BY <2>1 DEF Move, CanMove
    <3>2. session'.status = "starting" /\ session'.turn = NoTurn /\ session'.row = NoRow
      BY <3>1 DEF IInv, Known, OneDriver, AtRest
    <3>3. Moved(p, "launch", Absent, thread[p])
      BY <1>p, <2>1, Moving
    <3>4. Suits(p, thread'[p], session') /\ Neat(thread'[p]) /\ AtRest(session')
      BY <2>n, <3>2, <3>3 DEF Suits, Sending, Answering, Neat, Moved, AtRest, Failing
    <3>5. \A n \in {p} \ {p} : ~Drives(thread'[n]) /\ Neat(thread'[n])
      OBVIOUS
    <3>6. QED
      BY <1>p, <2>n, <3>1, <3>3, <3>4, <3>5, TakesOver DEF Moved
  <2>2. CASE End(p) /\ UNCHANGED session
    <3>1. Moved(p, "off", Absent, Off)
      BY <1>p, <2>2, Moving
    <3>2. QED
      BY <1>p, <2>2, <2>n, <3>1, StandsBy, SameRow
  <2>3. CASE Goto(p, "launch") /\ Snap(p).status = "starting" /\ UNCHANGED session
    <3>1. Moved(p, "launch", Absent, thread[p])
      BY <1>p, <2>3, Moving
    <3>2. Starting(thread[p]) /\ Starting(thread'[p])
      BY <1>1, <2>3, <3>1 DEF StartWorker, p, At, Snap, Starting, Moved, OnTheWay
    <3>3. QED
      BY <1>p, <2>n, <2>3, <3>1, <3>2, StartsOn DEF Moved
  <2>4. QED
    BY <1>1, <2>1, <2>2, <2>3 DEF StartWorker, p
<1>2. CASE BeginLaunch(e) \/ PrepareWindow(e)
  <2>1. /\ UNCHANGED <<session, inbox>> /\ thread[p].at \in {"launch", "window"}
        /\ \/ End(p)
           \/ \E where \in {"window", "fail", "load"} : Goto(p, where)
    BY <1>2 DEF BeginLaunch, PrepareWindow, p, At
  <2>2. CASE End(p)
    <3>1. Moved(p, "off", Absent, Off)
      BY <1>p, <2>2, Moving
    <3>2. QED
      BY <1>p, <2>1, <3>1, StandsBy, SameRow
  <2>3. CASE ~End(p)
    <3>1. PICK where \in {"window", "fail", "load"} : Goto(p, where)
      BY <2>1, <2>3
    <3>2. Moved(p, where, Absent, thread[p])
      BY <1>p, <3>1, Moving
    <3>3. Starting(thread[p]) /\ thread[p].turn = NoTurn
      BY <1>t, <2>1 DEF OnTheWay
    <3>4. Starting(thread'[p]) /\ thread'[p].turn = NoTurn /\ thread'[p].at # "rest"
      BY <3>2, <3>3 DEF Moved, Starting, OnTheWay, Failing
    <3>5. QED
      BY <1>p, <2>1, <3>2, <3>3, <3>4, StartsOn DEF Moved
  <2>4. QED
    BY <2>2, <2>3
<1>3. CASE LoadForUpdate(e)
  <2> DEFINE after == [load |-> "prepare", fail_load |-> "fail_error",
                       suspend_load |-> "fail_suspend"]
  <2>1. /\ thread[p].at \in {"load", "fail_load", "suspend_load"}
        /\ Enter(p, after[thread[p].at], session) /\ UNCHANGED <<session, inbox>>
    BY <1>3 DEF LoadForUpdate, p
  <2>2. Moved(p, after[thread[p].at], session, thread[p])
    BY <1>p, <2>1, Moving
  <2>3. /\ thread[p].at = "load" => thread'[p].at = "prepare"
        /\ thread[p].at = "fail_load" => thread'[p].at = "fail_error"
        /\ thread[p].at = "suspend_load" => thread'[p].at = "fail_suspend"
        /\ thread'[p].turn = thread[p].turn /\ Others({p})
    BY <2>2 DEF Moved
  <2>4. CASE thread[p].at = "fail_load" /\ thread[p].turn # NoTurn
    BY <1>p, <2>1, <2>3, <2>4, SendsOn DEF Sending, Failing
  <2>5. CASE ~(thread[p].at = "fail_load" /\ thread[p].turn # NoTurn)
    <3>1. thread[p].turn = NoTurn /\ Starting(thread[p]) /\ Starting(thread'[p])
          /\ thread'[p].at # "rest"
      BY <1>p, <2>1, <2>3, <2>5 DEF OneDriver, Neat, Starting, OnTheWay, GivingUp, Failing
    <3>2. QED
      BY <1>p, <2>1, <2>3, <3>1, StartsOn
  <2>6. QED
    BY <2>4, <2>5
<1>4. CASE SaveStarting(e) \/ SavePane(e)
  <2>1. /\ thread[p].at \in {"prepare", "pane"} /\ UNCHANGED inbox
        /\ Goto(p, "allocate") \/ Goto(p, "ready") \/ LosePane(e)
    BY <1>4 DEF SaveStarting, SavePane, p, At
  <2>2. Starting(thread[p]) /\ thread[p].turn = NoTurn
    BY <1>t, <2>1 DEF OnTheWay
  <2>3. \/ Save(Snap(p), [Snap(p) EXCEPT !.status = "starting"])
        \/ Save(Snap(p), [Snap(p) EXCEPT !.pane = thread[p].pane])
        \/ session' = session
    BY <1>4 DEF SaveStarting, SavePane, p
  <2>4. /\ session'.status = session.status /\ session'.turn = session.turn
        /\ session'.row = session.row
    <3>1. session.status = "starting"
      BY <1>p, <2>2 DEF OneDriver, Suits
    <3>2. Snap(p) \in Known
      BY <1>p, HandFacts
    <3>3. QED
      BY <2>3, <3>1, <3>2, FreshSave DEF Known
  <2>5. /\ thread'[p].at \in {"allocate", "ready", "fail"} /\ thread'[p].turn = thread[p].turn
        /\ Others({p})
    <3>1. Goto(p, "allocate") => Moved(p, "allocate", Absent, thread[p])
      BY <1>p, Moving
    <3>2. Goto(p, "ready") => Moved(p, "ready", Absent, thread[p])
      BY <1>p, Moving
    <3>3. LosePane(e) => LostPane(p)
      BY LosesPane DEF p
    <3>4. QED
      BY <2>1, <3>1, <3>2, <3>3 DEF Moved, LostPane
  <2>6. QED
    BY <1>p, <2>1, <2>2, <2>4, <2>5, StartsOn DEF Starting, OnTheWay, Failing
<1>5. CASE AllocatePane(e)
  <2>1. Starting(thread[p]) /\ thread[p].turn = NoTurn
    BY <1>5, <1>t DEF AllocatePane, p, At, OnTheWay
  <2>2. PICK n : n = NewPane
    OBVIOUS
  <2> DEFINE r == [thread[p] EXCEPT !.at = "pane", !.snap = session, !.pane = n]
  <2>3. UNCHANGED <<session, inbox>> /\ (Become(p, r) \/ Goto(p, "fail"))
    BY <1>5, <2>2 DEF AllocatePane, p
  <2>4. r.at = "pane" /\ r.turn = NoTurn
    BY <1>p, <2>1, HandFacts DEF Hand
  <2> HIDE DEF r
  <2>5. Starting(thread'[p]) /\ thread'[p].turn = NoTurn /\ thread'[p].at # "rest"
        /\ Others({p})
    <3>1. CASE Become(p, r)
      BY <1>p, <2>4, <3>1, BecomeMoves DEF Starting, OnTheWay
    <3>2. CASE Goto(p, "fail")
      <4>1. Moved(p, "fail", Absent, thread[p])
        BY <1>p, <3>2, Moving
      <4>2. QED
        BY <2>1, <4>1 DEF Moved, Starting, Failing
    <3>3. QED
      BY <2>3, <3>1, <3>2
  <2>6. QED
    BY <1>p, <2>1, <2>3, <2>5, StartsOn
<1>6. CASE WaitForReady(e)
  <2>1. /\ UNCHANGED <<session, inbox>> /\ thread[p].at = "ready"
        /\ \E where \in {"dispatch", "timeout", "fail"} : Goto(p, where)
    BY <1>6 DEF WaitForReady, p, At
  <2>2. PICK where \in {"dispatch", "timeout", "fail"} : Goto(p, where)
    BY <2>1
  <2>3. Moved(p, where, Absent, thread[p])
    BY <1>p, <2>2, Moving
  <2>4. Starting(thread[p]) /\ thread[p].turn = NoTurn
    BY <1>t, <2>1 DEF OnTheWay
  <2>5. Starting(thread'[p]) /\ thread'[p].turn = NoTurn /\ thread'[p].at # "rest"
    BY <2>3, <2>4 DEF Moved, Starting, OnTheWay, Failing, GivingUp
  <2>6. QED
    BY <1>p, <2>1, <2>3, <2>4, <2>5, StartsOn DEF Moved
<1>7. CASE DispatchFirst(e)
  <2>1. Starting(thread[p]) /\ thread[p].turn = NoTurn /\ UNCHANGED inbox
    BY <1>7, <1>t DEF DispatchFirst, p, At, OnTheWay
  <2>2. session.status = "starting" /\ ~At(p, "post")
    BY <1>7, <1>p, <2>1 DEF OneDriver, Suits, DispatchFirst, p, At
  <2>3. CanMove({"starting"}, "busy")
    BY <2>2 DEF CanMove, Allowed
  <2> DEFINE r == [thread[p] EXCEPT !.at = "first", !.turn = NextTurn]
  <2>4. session' = Activate(session, NextTurn, thread[p].row) /\ Become(p, r)
    BY <1>7, <2>3 DEF DispatchFirst, p, Move
  <2>5. r.at = "first" /\ r.turn = NextTurn
    BY <1>p, HandFacts DEF Hand
  <2> HIDE DEF r
  <2>6. session'.status = "busy" /\ session'.turn = NextTurn
    BY <2>4 DEF Activate, IInv, Known
  <2>7. Suits(p, r, session') /\ Neat(r) /\ AtRest(session')
    BY <2>5, <2>6 DEF Suits, Starting, Sending, Answering, Neat, AtRest, OnTheWay, GivingUp,
                  Failing
  <2>8. thread'[p] = r /\ Others({p})
    BY <1>p, <2>4, BecomeMoves
  <2>9. QED
    BY <1>p, <2>1, <2>2, <2>7, <2>8, DrivesOn DEF Drives
<1>8. CASE SendFirst(e)
  <2>1. Sending(thread[p]) /\ UNCHANGED session /\ thread[p].turn # NoTurn
    BY <1>8, <1>p, HandFacts DEF SendFirst, p, At, Sending, Holds, TurnInHand
  <2>2. CASE Send(thread[p].turn, e, thread[p].pane) /\ End(p)
    <3>1. Moved(p, "off", Absent, Off)
      BY <1>p, <2>2, Moving
    <3>2. ~Drives(thread'[p]) /\ Neat(thread'[p]) /\ Others({p})
      BY <3>1 DEF Moved, Drives, Starting, Sending, Answering, Neat, OnTheWay, GivingUp, Failing
    <3>3. QED
      BY <1>p, <2>1, <2>2, <3>2, TextTyped DEF Send
  <2>3. CASE SendFails(thread[p].turn, thread[p].pane) /\ Goto(p, "fail")
    <3>1. Moved(p, "fail", Absent, thread[p]) /\ UNCHANGED inbox
      BY <1>p, <2>3, Moving, NothingTyped
    <3>2. QED
      BY <1>p, <2>1, <3>1, SendsOn DEF Moved, Sending, Failing
  <2>4. QED
    BY <1>8, <2>2, <2>3 DEF SendFirst, p
<1>9. CASE BeginFail(e)
  <2> DEFINE left == IF Alive(thread[p].pane) THEN NoPane ELSE thread[p].pane
  <2>1. thread[p].at \in {"fail", "timeout"} /\ UNCHANGED session
    BY <1>9 DEF BeginFail, p
  <2>2. CASE End(p) /\ UNCHANGED inbox
    <3>1. Moved(p, "off", Absent, Off)
      BY <1>p, <2>2, Moving
    <3>2. QED
      BY <1>p, <2>1, <2>2, <3>1, StandsBy, SameRow
  <2>3. CASE ~(End(p) /\ UNCHANGED inbox)
    <3>1. PICK n : n = left
      OBVIOUS
    <3>2. PICK where : where = IF At(p, "fail") THEN "fail_load" ELSE "suspend_load"
      OBVIOUS
    <3> DEFINE r == [thread[p] EXCEPT !.at = where, !.pane = n]
    <3>3. Become(p, r) /\ KillPane(thread[p].pane)
      BY <1>9, <2>3, <3>1, <3>2 DEF BeginFail, p
    <3>4. r.at = where /\ r.turn = thread[p].turn
      BY <1>p, HandFacts DEF Hand
    <3> HIDE DEF r, left
    <3>5. thread'[p] = r /\ Others({p})
      BY <1>p, <3>3, BecomeMoves
    <3>6. Drives(thread[p]) /\ ~At(p, "post")
      BY <2>1 DEF Drives, Starting, Sending, GivingUp, Failing, At
    <3>7. inbox' = {}
      BY <1>p, <3>3, <3>6, DrivesAlone DEF KillPane
    <3>8. CASE thread[p].at = "fail" /\ thread[p].turn # NoTurn
      <4>1. Sending(thread[p]) /\ Sending(thread'[p]) /\ thread'[p].turn = thread[p].turn
        BY <3>2, <3>4, <3>5, <3>8 DEF Sending, Failing, At
      <4>2. QED
        BY <1>p, <2>1, <3>5, <3>7, <4>1, SendsOn
    <3>9. CASE ~(thread[p].at = "fail" /\ thread[p].turn # NoTurn)
      <4>1. thread[p].turn = NoTurn
        BY <1>p, <2>1, <3>9 DEF OneDriver, Neat, GivingUp
      <4>2. Starting(thread[p]) /\ Starting(thread'[p]) /\ thread'[p].turn = NoTurn
            /\ thread'[p].at # "rest"
        BY <2>1, <3>2, <3>4, <3>5, <4>1 DEF Starting, Failing, GivingUp, At
      <4>3. inbox' \subseteq inbox
        BY <3>7
      <4>4. QED
        BY <1>p, <2>1, <3>5, <4>2, <4>3, StartsOn
    <3>10. QED
      BY <3>8, <3>9
  <2>4. QED
    BY <2>2, <2>3
<1>10. CASE SaveFailed(e)
  <2> DEFINE s == [Snap(p) EXCEPT !.pane = thread[p].pane]
  <2>1. /\ thread[p].at \in {"fail_error", "fail_suspend"} /\ UNCHANGED inbox
        /\ Keep(p, "fail_event")
        /\ \E x \in {Clear(s, "error"), Suspend(s, "other")} : Save(Snap(p), x)
    BY <1>10 DEF SaveFailed, p
  <2>2. PICK x \in {Clear(s, "error"), Suspend(s, "other")} : Save(Snap(p), x)
    BY <2>1
  <2>3. s \in Known
    BY <1>p, HandFacts DEF Known
  <2> HIDE DEF s
  <2>4. session'.turn = NoTurn /\ session'.row = NoRow
    <3>1. session' = x
      BY <2>2, FreshSave
    <3>2. Clear(s, "error").turn = NoTurn /\ Clear(s, "error").row = NoRow
      BY <2>3 DEF Clear, Known
    <3>3. Suspend(s, "other").turn = NoTurn /\ Suspend(s, "other").row = NoRow
      BY <2>3 DEF Suspend, Clear, Known
    <3>4. QED
      BY <3>1, <3>2, <3>3
  <2>5. Moved(p, "fail_event", Snap(p), thread[p])
    BY <1>p, <2>1, Moving
  <2>6. ~Drives(thread'[p]) /\ Neat(thread'[p]) /\ Others({p})
    BY <2>5 DEF Moved, Drives, Starting, Sending, Answering, Neat, OnTheWay, GivingUp, Failing
  <2>7. Drives(thread[p]) /\ ~At(p, "post")
    BY <2>1 DEF Drives, Starting, Sending, GivingUp, Failing, At
  <2>8. Suits(p, thread'[p], session') /\ AtRest(session')
    BY <2>4, <2>6 DEF Suits, Drives, AtRest
  <2>9. QED
    BY <1>p, <2>1, <2>6, <2>7, <2>8, DrivesOn
<1>11. CASE FailLastEvent(e) \/ FailRow(e)
  <2>1. UNCHANGED <<session, inbox>> /\ (Goto(p, "fail_row") \/ End(p))
    BY <1>11 DEF FailLastEvent, FailRow, p
  <2>2. Moved(p, "fail_row", Absent, thread[p]) \/ Moved(p, "off", Absent, Off)
    BY <1>p, <2>1, Moving
  <2>3. QED
    BY <1>p, <2>1, <2>2, StandsBy, SameRow
<1>12. QED
  BY <1>1, <1>2, <1>3, <1>4, <1>5, <1>6, <1>7, <1>8, <1>9, <1>10, <1>11 DEF LaunchStep

\* The boot loop: a launch is made ready to start, or the row is looked at.
LEMMA ReplayOneDriver ==
    ASSUME IInv, OneDriver, stale' = {}, Replay
    PROVE  OneDriver'
<1> DEFINE e == queue[QueueHead].item
<1>1. CASE ReplayCreating
  <2>1. QueueHead \in DOMAIN queue
    BY <1>1, HeadMoves, TablesFacts DEF ReplayCreating, IInv
  <2>2. e \in Events
    BY <2>1, TablesFacts DEF IInv
  <2> DEFINE r == [Off EXCEPT !.at = "start", !.snap = session, !.row = QueueHead]
  <2>3. thread' = [thread EXCEPT ![Launch(e)] = r] /\ UNCHANGED <<session, inbox>>
        /\ session.status = "creating"
    BY <1>1 DEF ReplayCreating
  <2>4. r.at = "start" /\ r.snap = session /\ r.turn = NoTurn
    BY DEF Off
  <2>5. PICK p \in Processes : p = Launch(e)
    BY <2>2, ProcessNames
  <2> HIDE DEF e, r
  <2>6. thread'[p] = r /\ Others({p})
    BY <2>3, <2>5, BecomeMoves DEF Become
  <2>7. ~Drives(r) /\ Neat(r)
    BY <2>3, <2>4 DEF Drives, Starting, Sending, Answering, Neat, OnTheWay, GivingUp, Failing
  <2>8. \A n \in {p} : ~Drives(thread'[n]) /\ Neat(thread'[n])
    BY <2>6, <2>7
  <2>9. QED
    BY <2>3, <2>6, <2>8, Bystanding, SameRow
<1>2. CASE ReplayShutdown
  <2>1. QueueHead \in DOMAIN queue
    BY <1>2, HeadMoves, TablesFacts DEF ReplayShutdown, IInv
  <2>2. e \in Events
    BY <2>1, TablesFacts DEF IInv
  <2> DEFINE s == [Clear(session, "starting") EXCEPT !.why = "none", !.pane = NoPane]
             r == [Off EXCEPT !.at = "start", !.snap = s, !.row = QueueHead]
  <2>3. thread' = [thread EXCEPT ![Launch(e)] = r] /\ UNCHANGED inbox
        /\ session.status = "suspended" /\ session' = s
    BY <1>2 DEF ReplayShutdown, Move
  <2>4. /\ s.status = "starting" /\ s.turn = NoTurn /\ s.row = NoRow
        /\ r.at = "start" /\ r.snap = s /\ r.turn = NoTurn
    BY DEF Off, Clear, IInv, Known
  <2>5. PICK p \in Processes : p = Launch(e)
    BY <2>2, ProcessNames
  <2> HIDE DEF e, r, s
  <2>6. thread'[p] = r /\ Others({p})
    BY <2>3, <2>5, BecomeMoves DEF Become
  <2>7. Suits(p, r, session') /\ Neat(r) /\ AtRest(session')
    BY <2>3, <2>4 DEF Suits, Sending, Answering, Neat, AtRest, Failing
  <2>8. \A n \in {p} \ {p} : ~Drives(thread'[n]) /\ Neat(thread'[n])
    OBVIOUS
  <2>9. QED
    BY <2>3, <2>6, <2>7, <2>8, TakesOver
<1>3. CASE ReplayFail \/ ReplayDefer
  <2>1. Others({}) /\ inbox' \subseteq inbox /\ UNCHANGED session
    BY <1>3 DEF Others, ReplayFail, ReplayDefer
  <2>2. QED
    BY <2>1, Bystanding, SameRow
<1>4. QED
  BY <1>1, <1>2, <1>3 DEF Replay

\* After a restart nobody drives and no pane is left.
LEMMA RebootOneDriver ==
    ASSUME IInv, OneDriver, Reboot
    PROVE  OneDriver'
<1>1. \A n \in Processes : thread'[n] = Off
  BY DEF Reboot
<1>2. ~Drives(Off) /\ Neat(Off)
  BY DEF Drives, Starting, Sending, Answering, Neat, Off, OnTheWay, GivingUp, Failing
<1>3. AtRest(session')
  <2>1. session \in Known /\ AtRest(session)
    BY DEF IInv, OneDriver
  <2>2. \A x : [Suspend(session, x) EXCEPT !.pane = NoPane].turn = NoTurn
               /\ [Suspend(session, x) EXCEPT !.pane = NoPane].row = NoRow
    BY <2>1 DEF Suspend, Clear, Known
  <2>3. [Clear(session, "suspended") EXCEPT !.pane = NoPane].turn = NoTurn
        /\ [Clear(session, "suspended") EXCEPT !.pane = NoPane].row = NoRow
    BY <2>1 DEF Clear, Known
  <2>4. \/ session' = [Suspend(session, "startup_cleanup") EXCEPT !.pane = NoPane]
        \/ session' = [Clear(session, "suspended") EXCEPT !.pane = NoPane]
        \/ session' = session
    BY DEF Reboot, AfterCleanup
  <2>5. QED
    <3>1. (session'.turn = NoTurn /\ session'.row = NoRow) \/ session' = session
      BY <2>2, <2>3, <2>4
    <3>2. QED
      BY <2>1, <3>1 DEF AtRest
<1>4. inbox' = {}
  BY DEF Reboot
<1>5. QED
  BY <1>1, <1>2, <1>3, <1>4 DEF OneDriver, Suits, Drives

-----------------------------------------------------------------------------
(* The theorems on who drives *)

\* What a step is when nobody intervenes.
LEMMA QuietSteps ==
    ASSUME Undisturbed, Undisturbed', [Next]_vars, IInv
    PROVE  \/ \E e \in Events : \/ Receive(e) \/ RefuseCreate(e) \/ RefuseRecover(e)
                                \/ SlackStep(e) \/ RouteStep(e) \/ AnswerStep(e)
                                \/ LaunchStep(e)
           \/ \E t \in Turns : ReplyStep(t) \/ CompleteStep(t)
           \/ WorkerExits \/ Crash \/ Replay \/ UNCHANGED vars
<1>0. thread \in [Processes -> Hand]
  BY DEF IInv, ThreadsOK
<1>1. ~Command
  <2>1. \A k \in Controls : thread'[Control(k)].at = "off"
    BY DEF Undisturbed, At
  <2>2. ASSUME NEW k \in Controls, NEW where, where # "off", Begin(k, where) PROVE FALSE
    <3>1. Control(k) \in Processes
      BY ProcessNames
    <3> DEFINE r == [Off EXCEPT !.at = where, !.snap = session, !.turn = session.turn]
    <3>2. Become(Control(k), r)
      BY <2>2 DEF Begin
    <3>3. r.at = where
      BY DEF Off
    <3> HIDE DEF r
    <3>4. thread'[Control(k)].at = where
      BY <3>1, <3>2, <3>3, BecomeMoves
    <3>5. QED
      BY <2>1, <2>2, <3>4
  <2>3. QED
    BY <2>2 DEF Command, BeginCancel, BeginKill, BeginCleanup, BeginShutdown, Controls
<1>2. ~Detect
  <2>1. SUFFICES ASSUME Detect PROVE FALSE
    OBVIOUS
  <2>2. Enter(Detector, "detected", session)
    BY <2>1 DEF Detect
  <2>3. Moved(Detector, "detected", session, thread[Detector])
    BY <2>2, ProcessNames, Moving
  <2>4. QED
    BY <2>3 DEF Moved, Undisturbed, At
<1>3. ~DetectorStep
  BY DEF DetectorStep, EnterWaiting, NotifyQuestion, Undisturbed, At
<1>4. ~ControlStep /\ ~Exit
  BY DEF ControlStep, CancelMove, CancelLoad, CancelForce, KillMove, OrphanedMove,
         TimeoutMove, TimeoutFailRow, SuspendMove, ShutdownMove, ShutdownPutBack, Finalize,
         ClearPane, Exit, Undisturbed, At, Controls
<1>5. DOMAIN turns \subseteq Turns
  BY TurnsFacts DEF IInv
<1>6. QED
  BY <1>1, <1>2, <1>3, <1>4, <1>5 DEF Next, Outside, Listener, HookServer

LEMMA StaleStays ==
    ASSUME Undisturbed, Undisturbed', [Next]_vars, IInv, stale' = {}
    PROVE  stale = {}
<1> SUFFICES ASSUME stale # {} PROVE stale' # {}
  OBVIOUS
<1> USE DEF Move, Save, ReleaseBusy, Send, SendsAgain, SendFailsAndCloses, SendFails,
            PastedUnseen, LosePane
<1>1. ASSUME NEW e \in Events, Receive(e) \/ RefuseCreate(e) \/ RefuseRecover(e) \/ SlackStep(e)
      PROVE  stale' # {}
  BY <1>1 DEF Receive, RefuseCreate, RefuseRecover, SlackStep, UpdateCursor, CreateSession,
              MarkRefused, MarkQueued
<1>2. ASSUME NEW e \in Events, RouteStep(e) PROVE stale' # {}
  BY <1>2 DEF RouteStep, Route, RouteQueue, RouteActive, RouteRace, SendActive, Requeue,
              Rollback, RecoverSession
<1>3. ASSUME NEW e \in Events, AnswerStep(e) PROVE stale' # {}
  BY <1>3 DEF AnswerStep, Answer, SendAnswer, AnswerUndo, SaveAnswered
<1>4. ASSUME NEW e \in Events, LaunchStep(e) PROVE stale' # {}
  BY <1>4 DEF LaunchStep, StartWorker, BeginLaunch, PrepareWindow, LoadForUpdate, SaveStarting,
              AllocatePane, SavePane, WaitForReady, DispatchFirst, SendFirst, BeginFail,
              SaveFailed, FailLastEvent, FailRow
<1>5. ASSUME NEW t \in Turns, ReplyStep(t) PROVE stale' # {}
  BY <1>5 DEF ReplyStep, BeginReply, PostReply, RecordReply, CloseAttempt, CheckTurn,
              SaveIdentity, MarkDone
<1>6. ASSUME NEW t \in Turns, CompleteStep(t) PROVE stale' # {}
  BY <1>6 DEF CompleteStep, BeginComplete, CompleteWait, CompleteTurn, DrainClaim, DrainBusy,
              DrainSend, DrainUndo, DrainRetry
<1>7. CASE WorkerExits \/ Crash \/ UNCHANGED vars
  BY <1>7 DEF WorkerExits, Crash, Reboot, vars
<1>8. CASE Replay
  BY <1>8 DEF Replay, ReplayCreating, ReplayShutdown, ReplayFail, ReplayDefer
<1>9. QED
  BY <1>1, <1>2, <1>3, <1>4, <1>5, <1>6, <1>7, <1>8, QuietSteps

LEMMA OneDriverStep ==
    ASSUME IInv, Undisturbed, Undisturbed', [Next]_vars, OneDriver, stale' = {}
    PROVE  OneDriver'
<1>1. CASE WorkerExits \/ UNCHANGED vars
  <2>1. Others({}) /\ inbox' \subseteq inbox /\ UNCHANGED session
    BY <1>1 DEF Others, WorkerExits, KillPane, vars
  <2>2. QED
    BY <2>1, Bystanding, SameRow
<1>2. CASE Crash
  BY <1>2, RebootOneDriver DEF Crash
<1>3. QED
  BY <1>1, <1>2, QuietSteps, SlackOneDriver, RouteOneDriver, AnswerOneDriver, LaunchOneDriver,
     ReplyOneDriver, CompleteOneDriver, ReplayOneDriver

LEMMA OneDriverInit == Init => OneDriver
<1> SUFFICES ASSUME Init PROVE OneDriver
  OBVIOUS
<1>1. \A n \in Processes : thread[n] = Off
  BY DEF Init
<1>2. ~Drives(Off) /\ Neat(Off)
  BY DEF Drives, Starting, Sending, Answering, Neat, Off, OnTheWay, GivingUp, Failing
<1>3. AtRest(session) /\ inbox = {}
  BY DEF Init, AtRest, Absent
<1>4. QED
  BY <1>1, <1>2, <1>3 DEF OneDriver, Suits, Drives

LEMMA Driver == Spec /\ []Undisturbed => [](stale # {} \/ OneDriver)
<1>1. /\ IInv /\ IInv' /\ Undisturbed /\ Undisturbed' /\ [Next]_vars /\ (stale # {} \/ OneDriver)
      => (stale # {} \/ OneDriver)'
  BY OneDriverStep, StaleStays
<1>2. QED
  BY <1>1, OneDriverInit, Always, PTL DEF Spec

\* A conversation in which nobody intervenes never has two workers on the way, although
\* messages and the boot loop both start one.
THEOREM OneLaunchAtATime == Spec /\ []Undisturbed /\ []NoTextLeft => []OneLaunch
<1>1. IInv /\ NoTextLeft /\ (stale # {} \/ OneDriver) => OneLaunch
  <2> SUFFICES ASSUME OneDriver, NEW e \in Events, NEW f \in Events, Launching(e), Launching(f)
               PROVE  e = f
    BY TrueAtAll DEF OneLaunch
  <2>1. Drives(thread[Launch(e)]) /\ Drives(thread[Launch(f)])
    BY DEF Launching, Drives, Starting, Sending, OnTheWay, GivingUp, Failing
  <2>2. Launch(e) = Launch(f)
    BY <2>1, ProcessNames DEF OneDriver
  <2>3. QED
    BY <2>2, ThreadsApart
<1>2. QED
  BY <1>1, Driver, Always, PTL

\* The worker has one text at a time: that of the session's turn.
THEOREM OneTextAtATime == Spec /\ []Undisturbed => []WorkerOnOneTurn
<1>1. stale # {} \/ OneDriver => WorkerOnOneTurn
  BY DEF OneDriver, Working, WorkerOnOneTurn, AllTrue
<1>2. QED
  BY <1>1, Driver, PTL

\* A completion moves the conversation on only while the turn that was answered is its turn.
THEOREM EndsNoOtherTurn == Spec /\ []Undisturbed => EndsOwnTurn
<1> DEFINE A == \A t \in Turns :
          /\ AllTrue /\ thread[Reply(t)].at \in {"rest", "wait"}
          /\ thread'[Reply(t)] # thread[Reply(t)] /\ session' # session
          => session.turn = t
<1>1. (stale # {} \/ OneDriver) /\ [Next]_vars => [A]_vars
  BY AnswersHere DEF Answering, AllTrue
<1>2. QED
  BY <1>1, Driver, PTL DEF EndsOwnTurn, Spec

-----------------------------------------------------------------------------
(* The panes of the conversation *)

\* What a thread knows of the pane at each place, when the row has pane n and P are live.
Holding(r, n, P) ==
    /\ r.at \in {"start", "launch", "window", "load", "prepare", "allocate"} => r.pane = NoPane
    /\ r.at \in {"launch", "window", "load", "prepare", "allocate", "pane"} => n = NoPane
    /\ r.at \in {"ready", "dispatch", "first", "timeout", "send", "drain_send"} => r.pane = n
    /\ r.at = "fail" => r.pane = n \/ (r.pane = NoPane /\ n \notin P)
    /\ r.at \in {"fail_load", "fail_error", "suspend_load", "fail_suspend"} =>
          r.pane \notin P /\ n \notin P
    /\ r.at = "answer_send" => r.snap.pane = n

\* A conversation without a worker has no live pane in its row.
Bare(s, P) ==
    /\ s.status \in {"absent", "creating"} => s.pane = NoPane
    /\ s.status \in {"suspended", "killed"} => s.pane \notin P

\* The panes that a launch has not lost.
Kept == panes \ lost

LEMMA KeptStays ==
    ASSUME panes' \subseteq panes, lost \subseteq lost' PROVE Kept' \subseteq Kept
BY DEF Kept

PanesHeld ==
    /\ \A n \in Kept : n = session.pane \/ \E p \in Processes : At(p, "pane") /\ thread[p].pane = n
    /\ \A p \in Processes : Holding(thread[p], session.pane, Kept)
    /\ \A m \in inbox : m.pane = session.pane
    /\ Bare(session, Kept)

\* Who does not drive knows nothing of a pane; a launch that has not begun has none.
LEMMA IdleHolds ==
    ASSUME NEW r, ~Drives(r), r.at = "start" => r.pane = NoPane
    PROVE  \A n, P : Holding(r, n, P)
BY DEF Holding, Drives, Starting, Sending, Answering, OnTheWay, GivingUp, Failing

\* The row keeps its pane, and no pane is new.
LEMMA PaneStays ==
    ASSUME PanesHeld, session'.pane = session.pane, panes' \subseteq panes, lost \subseteq lost',
           NEW S, Others(S),
           \A n \in S : n \in Processes => ~At(n, "pane")
                           /\ Holding(thread'[n], session'.pane, Kept'),
           \A m \in inbox' : m \in inbox \/ m.pane = session.pane,
           session'.status = session.status
              \/ session'.status \in {"starting", "busy", "idle", "waiting", "error"}
    PROVE  PanesHeld'
<1>0. Kept' \subseteq Kept
  BY DEF Kept
<1>1. \A n \in Processes : Holding(thread'[n], session'.pane, Kept')
  <2>1. ASSUME NEW n \in Processes \ S PROVE Holding(thread'[n], session'.pane, Kept')
    <3>1. thread'[n] = thread[n] /\ Holding(thread[n], session.pane, Kept)
      BY DEF Others, PanesHeld
    <3>2. QED
      BY <1>0, <3>1 DEF Holding
  <2>2. QED
    BY <2>1
<1>2. \A n \in Processes : At(n, "pane") => thread'[n] = thread[n]
  BY DEF Others
<1>3. \A n \in Kept' : n = session'.pane
         \/ \E p \in Processes : thread'[p].at = "pane" /\ thread'[p].pane = n
  BY <1>0, <1>2 DEF PanesHeld, At
<1>4. Bare(session', Kept')
  BY <1>0 DEF PanesHeld, Bare
<1>5. \A m \in inbox' : m.pane = session'.pane
  BY DEF PanesHeld
<1>6. QED
  BY <1>1, <1>3, <1>4, <1>5 DEF PanesHeld, At

\* The row gets another pane, or there are other panes: p alone drives.
LEMMA PaneMoves ==
    ASSUME PanesHeld, NEW p \in Processes, NEW S, Others(S),
           \A n \in Processes \ {p} : ~Drives(thread[n]),
           \A n \in S \ {p} : ~Drives(thread'[n]) /\ thread'[n].at # "start",
           Holding(thread'[p], session'.pane, Kept'),
           \A n \in Kept' : n = session'.pane \/ (thread'[p].at = "pane" /\ thread'[p].pane = n),
           inbox' = {}, Bare(session', Kept')
    PROVE  PanesHeld'
<1>1. ASSUME NEW n \in Processes \ {p} PROVE Holding(thread'[n], session'.pane, Kept')
  <2>1. CASE n \in S
    BY <2>1, IdleHolds
  <2>2. CASE n \notin S
    <3>1. thread'[n] = thread[n] /\ ~Drives(thread[n]) /\ Holding(thread[n], session.pane, Kept)
      BY <2>2 DEF Others, PanesHeld
    <3>2. thread[n].at = "start" => thread[n].pane = NoPane
      BY <3>1 DEF Holding
    <3>3. QED
      BY <3>1, <3>2, IdleHolds
  <2>3. QED
    BY <2>1, <2>2
<1>2. \A m \in inbox' : m.pane = session'.pane
  OBVIOUS
<1>3. \A n \in Processes : Holding(thread'[n], session'.pane, Kept')
  BY <1>1
<1>4. QED
  BY <1>2, <1>3 DEF PanesHeld, At

\* Places at which a thread knows nothing of a pane.
Paneless == {"off", "create", "refused", "cursor", "recover", "route", "mark", "answer",
             "append", "active", "race", "requeue", "rollback", "answer_save", "answer_undo",
             "post", "record", "close", "check", "identity", "finish", "rest", "wait",
             "verdict", "drain", "drain_busy", "drain_undo", "drain_retry", "fail_event",
             "fail_row"}

\* A thread goes where it knows nothing of a pane.
LEMMA PanelessStep ==
    ASSUME PanesHeld, lost \subseteq lost', NEW p \in Processes, ~At(p, "pane"), Others({p}),
           thread'[p].at \in Paneless,
           session'.pane = session.pane, panes' \subseteq panes,
           \A m \in inbox' : m \in inbox \/ m.pane = session.pane,
           session'.status = session.status
              \/ session'.status \in {"starting", "busy", "idle", "waiting", "error"}
    PROVE  PanesHeld'
<1>1. Holding(thread'[p], session'.pane, Kept')
  BY DEF Holding, Paneless
<1>2. \A n \in {p} : n \in Processes => ~At(n, "pane")
                        /\ Holding(thread'[n], session'.pane, Kept')
  BY <1>1
<1>3. QED
  BY <1>2, PaneStays

\* No thread goes anywhere.
LEMMA StillHolds ==
    ASSUME PanesHeld, lost \subseteq lost', UNCHANGED <<thread, session, panes>>,
           \A m \in inbox' : m \in inbox \/ m.pane = session.pane
    PROVE  PanesHeld'
<1>1. Others({})
  BY DEF Others
<1>2. QED
  BY <1>1, PaneStays

LEMMA SlackPanes ==
    ASSUME IInv, OneDriver, PanesHeld, stale' = {}, lost \subseteq lost', NEW e \in Events,
           Receive(e) \/ RefuseCreate(e) \/ RefuseRecover(e) \/ SlackStep(e)
    PROVE  PanesHeld'
<1> DEFINE p == Slack(e)
<1>p. p \in Processes /\ Launch(e) \in Processes /\ p # Launch(e)
  BY ProcessNames
<1> HIDE DEF p
<1>1. CASE Receive(e) \/ RefuseCreate(e) \/ RefuseRecover(e) \/ MarkRefused(e) \/ MarkQueued(e)
  <2>1. UNCHANGED <<session, panes, inbox>> /\ ~At(p, "pane")
    BY <1>1 DEF Receive, RefuseCreate, RefuseRecover, MarkRefused, MarkQueued, p, At
  <2>2. PICK where \in {"create", "refused", "cursor", "mark", "off"} :
           Enter(p, where, session) \/ Pass(p, where) \/ (where = "off" /\ End(p))
    BY <1>1 DEF Receive, RefuseCreate, RefuseRecover, MarkRefused, MarkQueued, p
  <2>3. thread'[p].at = where /\ Others({p})
    BY <1>p, <2>2, Moving DEF Moved
  <2>4. QED
    BY <1>p, <2>1, <2>3, PanelessStep DEF Paneless
<1>2. CASE UpdateCursor(e)
  <2> DEFINE s == [Snap(p) EXCEPT !.last = e]
  <2>1. Save(Snap(p), s) /\ UNCHANGED <<panes, inbox>> /\ ~At(p, "pane")
    BY <1>2 DEF UpdateCursor, p, At
  <2>2. s.status = Snap(p).status /\ s.pane = Snap(p).pane
    BY <1>p, HandFacts DEF Known
  <2> HIDE DEF s
  <2>3. session'.pane = session.pane /\ session'.status = session.status
    BY <2>1, <2>2, FreshSave
  <2>4. PICK new : new = session'
    OBVIOUS
  <2>5. Enter(p, "recover", new) \/ Pass(p, "route")
    BY <1>2, <2>4 DEF UpdateCursor, p
  <2>6. thread'[p].at \in {"recover", "route"} /\ Others({p})
    BY <1>p, <2>5, Moving DEF Moved
  <2>7. QED
    BY <1>p, <2>1, <2>3, <2>6, PanelessStep DEF Paneless
<1>3. CASE CreateSession(e)
  <2>1. CASE session.status = "absent"
    <3> DEFINE s == [Absent EXCEPT !.status = "creating", !.last = e]
               r == [Off EXCEPT !.at = "start", !.snap = s, !.row = Len(queue) + 1]
    <3>1. session' = s /\ thread' = [thread EXCEPT ![p] = Off, ![Launch(e)] = r]
          /\ UNCHANGED <<panes, inbox>>
      BY <1>3, <2>1 DEF CreateSession, p
    <3>2. s.status = "creating" /\ s.pane = NoPane /\ r.at = "start" /\ r.pane = NoPane
      BY DEF Absent, Off
    <3>3. ~Drives(Off) /\ Off.at # "start" /\ Holding(r, session'.pane, Kept')
      BY <3>1, <3>2 DEF Drives, Starting, Sending, Answering, Off, OnTheWay, GivingUp, Failing,
                        Holding
    <3> HIDE DEF s, r
    <3>4. thread'[p] = Off /\ thread'[Launch(e)] = r /\ Others({p, Launch(e)})
      BY <1>p, <3>1 DEF Others, IInv, ThreadsOK
    <3>5. inbox = {} /\ \A n \in Processes : ~Drives(thread[n])
      BY <2>1, NobodyDrives
    <3>6. session.pane = NoPane /\ \A n \in Processes : ~At(n, "pane")
      BY <2>1, <3>5 DEF PanesHeld, Bare, Drives, Starting, OnTheWay, At
    <3>7. \A n \in Kept' : n = session'.pane
      BY <3>1, <3>2, <3>6, KeptStays DEF PanesHeld
    <3>8. Bare(session', Kept')
      BY <3>1, <3>2 DEF Bare
    <3>9. \A n \in {p, Launch(e)} \ {Launch(e)} : ~Drives(thread'[n]) /\ thread'[n].at # "start"
      BY <3>3, <3>4
    <3>10. inbox' = {} /\ Holding(thread'[Launch(e)], session'.pane, Kept')
      BY <3>1, <3>3, <3>4, <3>5
    <3>11. QED
      BY <1>p, <3>4, <3>5, <3>7, <3>8, <3>9, <3>10, PaneMoves
  <2>2. CASE session.status # "absent"
    <3>1. UNCHANGED <<session, panes, inbox>> /\ ~At(p, "pane")
          /\ \E where \in {"refused", "cursor"} : Enter(p, where, session)
      BY <1>3, <2>2 DEF CreateSession, p, At
    <3>2. thread'[p].at \in {"refused", "cursor"} /\ Others({p})
      BY <1>p, <3>1, Moving DEF Moved
    <3>3. QED
      BY <1>p, <3>1, <3>2, PanelessStep DEF Paneless
  <2>3. QED
    BY <2>1, <2>2
<1>4. QED
  BY <1>1, <1>2, <1>3 DEF SlackStep

\* A text is typed into the pane of the row, or not at all.
LEMMA TypedThere ==
    ASSUME NEW t, NEW e, Send(t, e, session.pane) \/ SendFails(t, session.pane), stale' = {}
    PROVE  /\ UNCHANGED panes
           /\ \A m \in inbox' : m \in inbox \/ m.pane = session.pane
BY NothingTyped DEF Send

LEMMA RoutePanes ==
    ASSUME IInv, OneDriver, PanesHeld, stale' = {}, lost \subseteq lost', NEW e \in Events,
           RouteStep(e) \/ AnswerStep(e)
    PROVE  PanesHeld'
<1> DEFINE p == Slack(e)
<1>p. p \in Processes /\ Launch(e) \in Processes /\ p # Launch(e)
  BY ProcessNames
<1>s. session \in Known /\ session.status \in Status \cup {"absent"}
  BY DEF IInv, Known
<1> HIDE DEF p
<1>1. CASE Route(e) \/ RouteQueue(e) \/ RouteRace(e) \/ Requeue(e)
  <2>1. UNCHANGED <<session, panes, inbox>> /\ ~At(p, "pane")
    BY <1>1 DEF Route, RouteQueue, RouteRace, Requeue, p, At
  <2>2. PICK where \in Paneless :
           Enter(p, where, session) \/ Pass(p, where) \/ Goto(p, where)
    BY <1>1, <1>s DEF Route, RouteQueue, RouteRace, Requeue, p, Branches, Status, Paneless
  <2>3. thread'[p].at = where /\ Others({p})
    BY <1>p, <2>2, Moving DEF Moved
  <2>4. QED
    BY <1>p, <2>1, <2>3, PanelessStep
<1>2. CASE RouteActive(e) \/ Answer(e)
  <2>1. UNCHANGED <<panes, inbox>> /\ ~At(p, "pane")
    BY <1>2 DEF RouteActive, Answer, p, At
  <2>2. CASE UNCHANGED session /\ (Keep(p, "race") \/ Pass(p, "mark"))
    <3>1. thread'[p].at \in {"race", "mark"} /\ Others({p})
      BY <1>p, <2>2, Moving DEF Moved
    <3>2. QED
      BY <1>p, <2>1, <2>2, <3>1, PanelessStep DEF Paneless
  <2>3. CASE ~(UNCHANGED session /\ (Keep(p, "race") \/ Pass(p, "mark")))
    <3>0. PICK new : new = session'
      OBVIOUS
    <3> DEFINE r == [Off EXCEPT !.at = "send", !.turn = NextTurn, !.pane = session.pane]
               a == [Off EXCEPT !.at = "answer_send", !.turn = NextTurn, !.snap = new]
    <3>1. session' = Activate(session, NextTurn, NoRow) /\ (Become(p, r) \/ Become(p, a))
      BY <1>2, <2>3, <3>0 DEF RouteActive, Answer, Move, p
    <3>2. session'.pane = session.pane /\ session'.status = "busy"
      BY <1>s, <3>1 DEF Activate, Known
    <3>3. Holding(r, session'.pane, Kept') /\ Holding(a, session'.pane, Kept')
      BY <3>0, <3>2 DEF Holding, Off
    <3> HIDE DEF r, a
    <3>4. Holding(thread'[p], session'.pane, Kept') /\ Others({p})
      BY <1>p, <3>1, <3>3, BecomeMoves
    <3>5. QED
      BY <2>1, <3>2, <3>4, PaneStays
  <2>4. QED
    BY <2>2, <2>3
<1>3. CASE SendActive(e) \/ SendAnswer(e)
  <2>1. UNCHANGED session /\ ~At(p, "pane")
    BY <1>3 DEF SendActive, SendAnswer, p, At
  <2>2. CASE SendActive(e)
    <3>1. thread[p].pane = session.pane
      BY <1>p, <2>2 DEF PanesHeld, Holding, SendActive, p, At
    <3>2. Send(thread[p].turn, e, session.pane) \/ SendFails(thread[p].turn, session.pane)
      BY <2>2, <3>1 DEF SendActive, SendsAgain, SendFailsAndCloses, p
    <3>3. CASE Pass(p, "mark") \/ Goto(p, "requeue")
      <4>1. thread'[p].at \in {"mark", "requeue"} /\ Others({p})
        BY <1>p, <3>3, Moving DEF Moved
      <4>2. QED
        BY <1>p, <2>1, <3>2, <4>1, TypedThere, PanelessStep DEF Paneless
    <3>4. CASE UNCHANGED thread
      BY <2>1, <3>2, <3>4, TypedThere, StillHolds
    <3>5. QED
      BY <2>2, <3>3, <3>4 DEF SendActive, p
  <2>3. CASE SendAnswer(e)
    <3>1. Snap(p).pane = session.pane
      BY <1>p, <2>3 DEF PanesHeld, Holding, SendAnswer, p, At, Snap
    <3>2. Send(thread[p].turn, e, session.pane) \/ SendFails(thread[p].turn, session.pane)
      BY <2>3, <3>1 DEF SendAnswer, p
    <3>3. Keep(p, "answer_save") \/ Goto(p, "answer_undo")
      BY <2>3 DEF SendAnswer, p
    <3>4. thread'[p].at \in {"answer_save", "answer_undo"} /\ Others({p})
      BY <1>p, <3>3, Moving DEF Moved
    <3>5. QED
      BY <1>p, <2>1, <3>2, <3>4, TypedThere, PanelessStep DEF Paneless
  <2>4. QED
    BY <1>3, <2>2, <2>3
<1>4. CASE Rollback(e) \/ AnswerUndo(e)
  <2>1. UNCHANGED <<panes, inbox>> /\ ~At(p, "pane") /\ Pass(p, "mark")
    BY <1>4 DEF Rollback, AnswerUndo, p, At
  <2>2. session' = session \/ \E x \in {"idle", "waiting"} : session' = Clear(session, x)
    BY <1>4 DEF Rollback, AnswerUndo, ReleaseBusy, Move
  <2>3. session'.pane = session.pane
        /\ (session'.status = session.status \/ session'.status \in {"idle", "waiting"})
    BY <1>s, <2>2 DEF Clear, Known
  <2>4. thread'[p].at = "mark" /\ Others({p})
    BY <1>p, <2>1, Moving DEF Moved
  <2>5. QED
    BY <1>p, <2>1, <2>3, <2>4, PanelessStep DEF Paneless
<1>5. CASE RecoverSession(e)
  <2>1. CASE Pass(p, "mark") /\ UNCHANGED session
    <3>1. thread'[p].at = "mark" /\ Others({p}) /\ ~At(p, "pane") /\ UNCHANGED <<panes, inbox>>
      BY <1>5, <1>p, <2>1, Moving DEF Moved, RecoverSession, p, At
    <3>2. QED
      BY <1>p, <2>1, <3>1, PanelessStep DEF Paneless
  <2>2. CASE ~(Pass(p, "mark") /\ UNCHANGED session)
    <3> DEFINE s == [Clear(session, "starting") EXCEPT !.why = "none", !.pane = NoPane]
               r == [Off EXCEPT !.at = "mark"]
               n == [Off EXCEPT !.at = "launch", !.snap = s]
    <3>1. /\ Move({"suspended", "killed"}, s) /\ UNCHANGED <<panes, inbox>>
          /\ thread' = [thread EXCEPT ![p] = r, ![Launch(e)] = n]
      BY <1>5, <2>2 DEF RecoverSession, Move, p
    <3>2. /\ s.status = "starting" /\ s.pane = NoPane
          /\ r.at = "mark" /\ n.at = "launch" /\ n.pane = NoPane
      BY <1>s DEF Clear, Known, Off
    <3> HIDE DEF s, r, n
    <3>3. session' = s /\ session.status \in {"suspended", "killed"}
      BY <3>1 DEF Move, CanMove
    <3>4. ~Drives(r) /\ r.at # "start" /\ Holding(n, session'.pane, Kept')
      BY <3>2, <3>3 DEF Drives, Starting, Sending, Answering, OnTheWay, GivingUp, Failing, Holding
    <3>5. thread'[p] = r /\ thread'[Launch(e)] = n /\ Others({p, Launch(e)})
      BY <1>p, <3>1 DEF Others, IInv, ThreadsOK
    <3>6. inbox = {} /\ \A q \in Processes : ~Drives(thread[q])
      BY <3>3, NobodyDrives
    <3>7. Kept = {}
      BY <3>3, <3>6 DEF PanesHeld, Bare, Drives, Starting, OnTheWay, At
    <3>8. Bare(session', Kept')
      BY <3>2, <3>3 DEF Bare
    <3>9. \A m \in {p, Launch(e)} \ {Launch(e)} : ~Drives(thread'[m]) /\ thread'[m].at # "start"
      BY <3>4, <3>5
    <3>10. inbox' = {} /\ Kept' = {} /\ Holding(thread'[Launch(e)], session'.pane, Kept')
      BY <3>1, <3>4, <3>5, <3>6, <3>7, KeptStays
    <3>11. QED
      BY <1>p, <3>5, <3>6, <3>8, <3>9, <3>10, PaneMoves
  <2>3. QED
    BY <2>1, <2>2
<1>6. CASE SaveAnswered(e)
  <2>1. Save(Snap(p), Snap(p)) /\ UNCHANGED <<panes, inbox>> /\ ~At(p, "pane") /\ Pass(p, "mark")
    BY <1>6 DEF SaveAnswered, p, At
  <2>2. session'.pane = session.pane /\ session'.status = session.status
    BY <2>1, FreshSave
  <2>3. thread'[p].at = "mark" /\ Others({p})
    BY <1>p, <2>1, Moving DEF Moved
  <2>4. QED
    BY <1>p, <2>1, <2>2, <2>3, PanelessStep DEF Paneless
<1>7. QED
  BY <1>1, <1>2, <1>3, <1>4, <1>5, <1>6 DEF RouteStep, AnswerStep

LEMMA ReplyPanes ==
    ASSUME IInv, OneDriver, PanesHeld, stale' = {}, lost \subseteq lost', NEW t \in Turns,
           ReplyStep(t) \/ CompleteStep(t)
    PROVE  PanesHeld'
<1> DEFINE p == Reply(t)
<1>p. p \in Processes
  BY ProcessNames
<1>s. session \in Known
  BY DEF IInv
<1> HIDE DEF p
<1>1. CASE \/ BeginReply(t) \/ PostReply(t) \/ CloseAttempt(t) \/ CheckTurn(t) \/ MarkDone(t)
           \/ BeginComplete(t) \/ DrainClaim(t) \/ DrainRetry(t)
  <2>1. UNCHANGED <<session, panes>> /\ inbox' \subseteq inbox /\ ~At(p, "pane")
    BY <1>1 DEF BeginReply, PostReply, CloseAttempt, CheckTurn, MarkDone, BeginComplete,
                DrainClaim, DrainRetry, p, At, Without
  <2>2. CASE UNCHANGED thread
    <3>1. Others({})
      BY <2>2 DEF Others
    <3>2. QED
      BY <2>1, <3>1, PaneStays
  <2>3. CASE ~UNCHANGED thread
    <3>1. PICK where \in Paneless :
             Enter(p, where, session) \/ Goto(p, where) \/ Pass(p, where)
             \/ (where = "off" /\ End(p))
      BY <1>1, <2>3 DEF BeginReply, PostReply, CloseAttempt, CheckTurn, MarkDone, BeginComplete,
                        DrainClaim, DrainRetry, p, Paneless
    <3>2. thread'[p].at = where /\ Others({p})
      BY <1>p, <3>1, Moving DEF Moved
    <3>3. QED
      BY <1>p, <2>1, <3>2, PanelessStep
  <2>4. QED
    BY <2>2, <2>3
<1>2. CASE RecordReply(t) \/ SaveIdentity(t)
  <2>1. Save(Snap(p), Snap(p)) /\ UNCHANGED <<panes, inbox>> /\ ~At(p, "pane")
        /\ (Goto(p, "close") \/ Goto(p, "finish"))
    BY <1>2 DEF RecordReply, SaveIdentity, p, At
  <2>2. session'.pane = session.pane /\ session'.status = session.status
    BY <2>1, FreshSave
  <2>3. thread'[p].at \in {"close", "finish"} /\ Others({p})
    BY <1>p, <2>1, Moving DEF Moved
  <2>4. QED
    BY <1>p, <2>1, <2>2, <2>3, PanelessStep DEF Paneless
<1>3. CASE CompleteWait(t) \/ CompleteTurn(t) \/ DrainUndo(t)
  <2>1. UNCHANGED <<panes, inbox>> /\ ~At(p, "pane")
    BY <1>3 DEF CompleteWait, CompleteTurn, DrainUndo, p, At
  <2>2. session' = session \/ \E x \in {"idle", "waiting"} : session' = Clear(session, x)
    BY <1>3 DEF CompleteWait, CompleteTurn, DrainUndo, ReleaseBusy, Move
  <2>3. session'.pane = session.pane
        /\ (session'.status = session.status \/ session'.status \in {"idle", "waiting"})
    BY <1>s, <2>2 DEF Clear, Known
  <2>4. PICK q : q = QueueHead
    OBVIOUS
  <2> DEFINE r == [Off EXCEPT !.at = "drain", !.row = q]
  <2>5. Pass(p, "verdict") \/ Goto(p, "drain_retry") \/ End(p) \/ Become(p, r)
    BY <1>3, <2>4 DEF CompleteWait, CompleteTurn, DrainUndo, p
  <2>6. r.at = "drain"
    BY DEF Off
  <2> HIDE DEF r
  <2>7. thread'[p].at \in {"verdict", "drain_retry", "off", "drain"} /\ Others({p})
    <3>1. CASE Become(p, r)
      BY <1>p, <2>6, <3>1, BecomeMoves
    <3>2. CASE Pass(p, "verdict") \/ Goto(p, "drain_retry") \/ End(p)
      <4>1. Pass(p, "verdict") => Moved(p, "verdict", Absent, Off)
        BY <1>p, Moving
      <4>2. Goto(p, "drain_retry") => Moved(p, "drain_retry", Absent, thread[p])
        BY <1>p, Moving
      <4>3. End(p) => Moved(p, "off", Absent, Off)
        BY <1>p, Moving
      <4>4. QED
        BY <3>2, <4>1, <4>2, <4>3 DEF Moved
    <3>3. QED
      BY <2>5, <3>1, <3>2
  <2>8. QED
    BY <1>p, <2>1, <2>3, <2>7, PanelessStep DEF Paneless
<1>4. CASE DrainBusy(t)
  <2>1. UNCHANGED <<panes, inbox>> /\ ~At(p, "pane")
    BY <1>4 DEF DrainBusy, p, At
  <2>2. CASE UNCHANGED session /\ Pass(p, "verdict")
    <3>1. thread'[p].at = "verdict" /\ Others({p})
      BY <1>p, <2>2, Moving DEF Moved
    <3>2. QED
      BY <1>p, <2>1, <2>2, <3>1, PanelessStep DEF Paneless
  <2>3. CASE ~(UNCHANGED session /\ Pass(p, "verdict"))
    <3> DEFINE r == [thread[p] EXCEPT !.at = "drain_send", !.turn = NextTurn,
                                      !.pane = session.pane]
    <3>1. session' = Activate(session, NextTurn, thread[p].row) /\ Become(p, r)
      BY <1>4, <2>3 DEF DrainBusy, Move, p
    <3>2. session'.pane = session.pane /\ session'.status = "busy"
      BY <1>s, <3>1 DEF Activate, Known
    <3>3. r.at = "drain_send" /\ r.pane = session.pane
      BY <1>p, HandFacts DEF Hand
    <3> HIDE DEF r
    <3>4. Holding(thread'[p], session'.pane, Kept') /\ Others({p})
      BY <1>p, <3>1, <3>2, <3>3, BecomeMoves DEF Holding
    <3>5. QED
      BY <2>1, <3>2, <3>4, PaneStays
  <2>4. QED
    BY <2>2, <2>3
<1>5. CASE DrainSend(t)
  <2>1. UNCHANGED session /\ ~At(p, "pane")
    BY <1>5 DEF DrainSend, p, At
  <2>2. thread[p].pane = session.pane
    BY <1>p, <1>5 DEF PanesHeld, Holding, DrainSend, p, At
  <2>3. PICK e : e = queue[thread[p].row].item
    OBVIOUS
  <2>4. Send(thread[p].turn, e, session.pane) \/ SendFails(thread[p].turn, session.pane)
    BY <1>5, <2>2, <2>3 DEF DrainSend, SendsAgain, SendFailsAndCloses, p
  <2>5. CASE Pass(p, "verdict") \/ Goto(p, "drain_undo")
    <3>1. thread'[p].at \in {"verdict", "drain_undo"} /\ Others({p})
      BY <1>p, <2>5, Moving DEF Moved
    <3>2. QED
      BY <1>p, <2>1, <2>4, <3>1, TypedThere, PanelessStep DEF Paneless
  <2>6. CASE UNCHANGED thread
    BY <2>1, <2>4, <2>6, TypedThere, StillHolds
  <2>7. QED
    BY <1>5, <2>5, <2>6 DEF DrainSend, p
<1>6. QED
  BY <1>1, <1>2, <1>3, <1>4, <1>5 DEF ReplyStep, CompleteStep

\* A launch goes where its pane is still, or as little, known.
LEMMA LaunchHolds ==
    ASSUME PanesHeld, lost \subseteq lost', NEW p \in Processes, ~At(p, "pane"), Others({p}),
           Holding(thread'[p], session.pane, Kept),
           UNCHANGED <<panes, inbox>>, session'.pane = session.pane,
           session'.status = session.status \/ session'.status \in {"starting", "busy"}
    PROVE  PanesHeld'
<1>1. Kept' \subseteq Kept
  BY DEF Kept
<1>2. Holding(thread'[p], session'.pane, Kept')
  BY <1>1 DEF Holding
<1>3. QED
  BY <1>2, PaneStays

LEMMA LaunchPanes ==
    ASSUME IInv, OneDriver, PanesHeld, stale' = {}, lost \subseteq lost', NEW e \in Events, LaunchStep(e)
    PROVE  PanesHeld'
<1> DEFINE p == Launch(e)
<1>p. p \in Processes /\ thread[p] \in Hand
  BY ProcessNames, HandFacts
<1>s. session \in Known /\ Snap(p) \in Known
  BY <1>p, HandFacts DEF IInv
<1>h. Holding(thread[p], session.pane, Kept)
  BY <1>p DEF PanesHeld
<1>n. NoPane \notin Kept
  BY DEF IInv, PanesOK, Kept
<1>k. panes' \subseteq panes => Kept' \subseteq Kept
  BY DEF Kept
<1> HIDE DEF p
<1>1. CASE StartWorker(e)
  <2>1. thread[p].at = "start" /\ UNCHANGED <<panes, inbox>> /\ thread[p].pane = NoPane
    BY <1>1, <1>h DEF StartWorker, p, At, Holding
  <2>2. CASE End(p) /\ UNCHANGED session
    <3>1. Moved(p, "off", Absent, Off)
      BY <1>p, <2>2, Moving
    <3>2. QED
      BY <1>p, <2>1, <2>2, <3>1, PanelessStep DEF Moved, Paneless, At
  <2>3. CASE ~(End(p) /\ UNCHANGED session)
    <3>1. /\ Goto(p, "launch") /\ session.pane = NoPane /\ session'.pane = session.pane
          /\ session'.status = "starting"
      <4>1. CASE Move({"creating"}, [session EXCEPT !.status = "starting"]) /\ Goto(p, "launch")
        <5>1. session.status = "creating" /\ session' = [session EXCEPT !.status = "starting"]
          BY <4>1 DEF Move, CanMove
        <5>2. session.pane = NoPane
          BY <5>1 DEF PanesHeld, Bare
        <5>3. session'.pane = session.pane /\ session'.status = "starting"
          BY <1>s, <5>1 DEF Known
        <5>4. QED
          BY <4>1, <5>2, <5>3
      <4>2. CASE ~(Move({"creating"}, [session EXCEPT !.status = "starting"]) /\ Goto(p, "launch"))
        BY <1>1, <2>3, <4>2 DEF StartWorker, p
      <4>3. QED
        BY <4>1, <4>2
    <3>2. Moved(p, "launch", Absent, thread[p])
      BY <1>p, <3>1, Moving
    <3>3. Holding(thread'[p], session.pane, Kept)
      BY <2>1, <3>1, <3>2 DEF Moved, Holding
    <3>4. QED
      BY <1>p, <2>1, <3>1, <3>2, <3>3, LaunchHolds DEF Moved, At
  <2>4. QED
    BY <2>2, <2>3
<1>2. CASE BeginLaunch(e) \/ PrepareWindow(e) \/ WaitForReady(e)
  <2>1. /\ thread[p].at \in {"launch", "window", "ready"} /\ UNCHANGED <<session, panes, inbox>>
        /\ thread[p].at = "launch" => End(p) \/ Goto(p, "window")
        /\ thread[p].at = "window" => Goto(p, "fail") \/ Goto(p, "load")
        /\ thread[p].at = "ready" => \/ Goto(p, "dispatch") \/ Goto(p, "timeout")
                                     \/ Goto(p, "fail")
    BY <1>2 DEF BeginLaunch, PrepareWindow, WaitForReady, p, At
  <2>2. CASE End(p)
    <3>1. Moved(p, "off", Absent, Off)
      BY <1>p, <2>2, Moving
    <3>2. QED
      BY <1>p, <2>1, <3>1, PanelessStep DEF Moved, Paneless, At
  <2>3. CASE ~End(p)
    <3>1. PICK where \in {"window", "fail", "load", "dispatch", "timeout"} : Goto(p, where)
      BY <2>1, <2>3
    <3>2. Moved(p, where, Absent, thread[p])
      BY <1>p, <3>1, Moving
    <3>3. thread[p].at = "launch" /\ ~End(p) => Moved(p, "window", Absent, thread[p])
      BY <1>p, <2>1, Moving
    <3>4. thread[p].at = "window" => Moved(p, "fail", Absent, thread[p])
                                     \/ Moved(p, "load", Absent, thread[p])
      BY <1>p, <2>1, Moving
    <3>5. thread[p].at = "ready" => \/ Moved(p, "dispatch", Absent, thread[p])
                                    \/ Moved(p, "timeout", Absent, thread[p])
                                    \/ Moved(p, "fail", Absent, thread[p])
      BY <1>p, <2>1, Moving
    <3>6. Holding(thread'[p], session.pane, Kept)
      BY <1>h, <2>1, <2>3, <3>3, <3>4, <3>5 DEF Holding, Moved
    <3>7. QED
      BY <1>p, <2>1, <3>2, <3>6, LaunchHolds DEF Moved, At
  <2>4. QED
    BY <2>2, <2>3
<1>3. CASE LoadForUpdate(e)
  <2> DEFINE after == [load |-> "prepare", fail_load |-> "fail_error",
                       suspend_load |-> "fail_suspend"]
  <2>1. /\ thread[p].at \in {"load", "fail_load", "suspend_load"}
        /\ Enter(p, after[thread[p].at], session) /\ UNCHANGED <<session, panes, inbox>>
    BY <1>3 DEF LoadForUpdate, p
  <2>2. Moved(p, after[thread[p].at], session, thread[p])
    BY <1>p, <2>1, Moving
  <2>3. /\ thread[p].at = "load" => thread'[p].at = "prepare"
        /\ thread[p].at = "fail_load" => thread'[p].at = "fail_error"
        /\ thread[p].at = "suspend_load" => thread'[p].at = "fail_suspend"
        /\ thread'[p].pane = thread[p].pane /\ Others({p})
    BY <2>2 DEF Moved
  <2>4. Holding(thread'[p], session.pane, Kept)
    BY <1>h, <2>1, <2>3 DEF Holding
  <2>5. QED
    BY <1>p, <2>1, <2>3, <2>4, LaunchHolds DEF At
<1>4. CASE SaveStarting(e)
  <2>1. /\ thread[p].at = "prepare" /\ UNCHANGED <<panes, inbox>> /\ Goto(p, "allocate")
        /\ Save(Snap(p), [Snap(p) EXCEPT !.status = "starting"])
    BY <1>4 DEF SaveStarting, p, At
  <2>2. session'.pane = session.pane /\ session'.status = "starting"
    BY <1>s, <2>1, FreshSave DEF Known
  <2>3. Moved(p, "allocate", Absent, thread[p])
    BY <1>p, <2>1, Moving
  <2>4. Holding(thread'[p], session.pane, Kept)
    BY <1>h, <2>1, <2>3 DEF Holding, Moved
  <2>5. QED
    BY <1>p, <2>1, <2>2, <2>3, <2>4, LaunchHolds DEF Moved, At
<1>5. CASE AllocatePane(e)
  <2>1. /\ thread[p].at = "allocate" /\ UNCHANGED <<session, inbox>> /\ session.pane = NoPane
        /\ thread[p].pane = NoPane
    BY <1>5, <1>h DEF AllocatePane, p, At, Holding
  <2>2. PICK n : n = NewPane
    OBVIOUS
  <2>3. CASE Goto(p, "fail") /\ UNCHANGED panes
    <3>1. Moved(p, "fail", Absent, thread[p])
      BY <1>p, <2>3, Moving
    <3>2. Holding(thread'[p], session.pane, Kept)
      BY <2>1, <3>1 DEF Holding, Moved
    <3>3. QED
      BY <1>p, <2>1, <2>3, <3>1, <3>2, LaunchHolds DEF Moved, At
  <2>4. CASE ~(Goto(p, "fail") /\ UNCHANGED panes)
    <3> DEFINE r == [thread[p] EXCEPT !.at = "pane", !.snap = session, !.pane = n]
    <3>1. panes' = panes \cup {n} /\ Become(p, r)
      BY <1>5, <2>2, <2>4 DEF AllocatePane, p
    <3>2. r.at = "pane" /\ r.pane = n
      BY <1>p DEF Hand
    <3> HIDE DEF r
    <3>3. thread'[p] = r /\ Others({p})
      BY <1>p, <3>1, BecomeMoves
    <3>4. Drives(thread[p]) /\ ~At(p, "post")
      BY <2>1 DEF Drives, Starting, OnTheWay, At
    <3>5. inbox' = {} /\ \A q \in Processes \ {p} : ~Drives(thread[q])
      BY <1>p, <2>1, <3>4, DrivesAlone
    <3>6. Kept = {}
      BY <1>n, <2>1, <3>5 DEF PanesHeld, Drives, Starting, OnTheWay, At
    <3>7. \A m \in Kept' : m = session'.pane \/ (thread'[p].at = "pane" /\ thread'[p].pane = m)
      BY <3>1, <3>2, <3>3, <3>6 DEF Kept
    <3>8. Holding(thread'[p], session'.pane, Kept')
      BY <2>1, <3>2, <3>3 DEF Holding
    <3>9. session.status = "starting"
      BY <1>p, <2>1, <3>4 DEF OneDriver, Suits, Starting, OnTheWay
    <3>10. Bare(session', Kept')
      BY <2>1, <3>9 DEF Bare
    <3>11. \A q \in {p} \ {p} : ~Drives(thread'[q]) /\ thread'[q].at # "start"
      OBVIOUS
    <3>12. QED
      BY <1>p, <3>3, <3>5, <3>7, <3>8, <3>10, <3>11, PaneMoves
  <2>5. QED
    BY <2>3, <2>4
<1>6. CASE SavePane(e)
  <2>1. /\ thread[p].at = "pane" /\ UNCHANGED <<panes, inbox>>
        /\ \/ Save(Snap(p), [Snap(p) EXCEPT !.pane = thread[p].pane])
           \/ session' = session /\ LosePane(e)
        /\ Goto(p, "ready") \/ LosePane(e)
        /\ session.pane = NoPane
    BY <1>6, <1>h DEF SavePane, p, At, Holding
  <2>2. /\ session'.pane = thread[p].pane \/ (session' = session /\ LosePane(e))
        /\ session'.status = session.status
    BY <1>s, <2>1, FreshSave DEF Known
  <2>3. /\ Goto(p, "ready") => Moved(p, "ready", Absent, thread[p])
        /\ LosePane(e) => LostPane(p)
    BY <1>p, Moving, LosesPane DEF p
  <2>4. Drives(thread[p]) /\ ~At(p, "post") /\ Starting(thread[p])
    BY <2>1 DEF Drives, Starting, OnTheWay, At
  <2>5. inbox' = {} /\ \A q \in Processes \ {p} : ~Drives(thread[q])
    BY <1>p, <2>1, <2>4, DrivesAlone
  <2>6. \A m \in Kept : m = thread[p].pane
    BY <1>n, <2>1, <2>5 DEF PanesHeld, Drives, Starting, OnTheWay, At
  <2>12. LosePane(e) => Kept' = {}
    BY <1>k, <2>1, <2>3, <2>6 DEF LostPane, Kept
  <2>13. \A m \in Kept' : m = session'.pane
    BY <1>k, <2>1, <2>2, <2>6, <2>12
  <2>7. Holding(thread'[p], session'.pane, Kept')
    <3>1. CASE LosePane(e)
      BY <2>3, <2>12, <3>1 DEF Holding, LostPane
    <3>2. CASE ~LosePane(e)
      BY <2>1, <2>2, <2>3, <3>2 DEF Holding, Moved
    <3>3. QED
      BY <3>1, <3>2
  <2>8. Bare(session', Kept')
    BY <1>p, <2>2, <2>4 DEF Bare, OneDriver, Suits
  <2>9. \A q \in {p} \ {p} : ~Drives(thread'[q]) /\ thread'[q].at # "start"
    OBVIOUS
  <2>10. Others({p})
    BY <2>1, <2>3 DEF Moved, LostPane
  <2>11. QED
    BY <1>p, <2>5, <2>13, <2>7, <2>8, <2>9, <2>10, PaneMoves
<1>7. CASE DispatchFirst(e)
  <2> DEFINE r == [thread[p] EXCEPT !.at = "first", !.turn = NextTurn]
  <2>1. /\ thread[p].at = "dispatch" /\ UNCHANGED <<panes, inbox>>
        /\ \/ session' = Activate(session, NextTurn, thread[p].row) /\ Become(p, r)
           \/ session' = session /\ Goto(p, "fail")
    BY <1>7 DEF DispatchFirst, p, At, Move
  <2>2. r.at = "first" /\ r.pane = thread[p].pane
    BY <1>p DEF Hand
  <2> HIDE DEF r
  <2>3. session'.pane = session.pane
        /\ (session'.status = session.status \/ session'.status \in {"starting", "busy"})
    BY <1>s, <2>1 DEF Activate, Known
  <2>4. Goto(p, "fail") => Moved(p, "fail", Absent, thread[p])
    BY <1>p, Moving
  <2>5. thread'[p].at \in {"first", "fail"} /\ thread'[p].pane = thread[p].pane /\ Others({p})
    BY <1>p, <2>1, <2>2, <2>4, BecomeMoves DEF Moved
  <2>6. Holding(thread'[p], session.pane, Kept)
    BY <1>h, <2>1, <2>5 DEF Holding
  <2>7. QED
    BY <1>p, <2>1, <2>3, <2>5, <2>6, LaunchHolds DEF At
<1>8. CASE SendFirst(e)
  <2>1. thread[p].at = "first" /\ thread[p].pane = session.pane /\ UNCHANGED session
    BY <1>8, <1>h DEF SendFirst, p, At, Holding
  <2>2. Send(thread[p].turn, e, session.pane) \/ SendFails(thread[p].turn, session.pane)
    BY <1>8, <2>1 DEF SendFirst, p
  <2>3. End(p) \/ Goto(p, "fail")
    BY <1>8 DEF SendFirst, p
  <2>4. Moved(p, "off", Absent, Off) \/ Moved(p, "fail", Absent, thread[p])
    BY <1>p, <2>3, Moving
  <2>5. UNCHANGED panes /\ \A m \in inbox' : m \in inbox \/ m.pane = session.pane
    BY <2>2, TypedThere
  <2>6. Holding(thread'[p], session'.pane, Kept') /\ Others({p})
    BY <2>1, <2>4, <2>5 DEF Holding, Moved
  <2>7. QED
    BY <1>p, <2>1, <2>5, <2>6, PaneStays DEF At
<1>9. CASE BeginFail(e)
  <2>1. /\ thread[p].at \in {"fail", "timeout"} /\ UNCHANGED session
        /\ thread[p].pane = session.pane \/ session.pane \notin Kept
    BY <1>9, <1>h DEF BeginFail, p, Holding
  <2>2. CASE End(p) /\ UNCHANGED <<panes, inbox>>
    <3>1. Moved(p, "off", Absent, Off)
      BY <1>p, <2>2, Moving
    <3>2. QED
      BY <1>p, <2>1, <2>2, <3>1, PanelessStep DEF Moved, Paneless, At
  <2>3. CASE ~(End(p) /\ UNCHANGED <<panes, inbox>>)
    <3>1. PICK n : n = IF Alive(thread[p].pane) THEN NoPane ELSE thread[p].pane
      OBVIOUS
    <3>2. PICK where : where = IF At(p, "fail") THEN "fail_load" ELSE "suspend_load"
      OBVIOUS
    <3> DEFINE r == [thread[p] EXCEPT !.at = where, !.pane = n]
    <3>3. Become(p, r) /\ KillPane(thread[p].pane)
      BY <1>9, <2>1, <2>3, <3>1, <3>2 DEF BeginFail, p
    <3>4. r.at = where /\ r.pane = n
      BY <1>p DEF Hand
    <3> HIDE DEF r
    <3>5. thread'[p] = r /\ Others({p})
      BY <1>p, <3>3, BecomeMoves
    <3>6. Drives(thread[p]) /\ ~At(p, "post")
      BY <2>1 DEF Drives, Starting, Sending, GivingUp, Failing, At
    <3>7. inbox' = {} /\ \A q \in Processes \ {p} : ~Drives(thread[q])
      BY <1>p, <3>3, <3>6, DrivesAlone DEF KillPane
    <3>8. Kept' = {}
      <4>1. panes' = panes \ {thread[p].pane} /\ Kept' \subseteq Kept
        BY <3>3, KeptStays DEF KillPane
      <4>2. \A m \in Kept : m = session.pane
        BY <2>1, <3>7 DEF PanesHeld, Drives, Starting, OnTheWay, At
      <4>3. QED
        BY <2>1, <4>1, <4>2 DEF Kept
    <3>9. Holding(thread'[p], session'.pane, Kept')
      BY <3>2, <3>4, <3>5, <3>8 DEF Holding
    <3>10. Bare(session', Kept')
      BY <2>1, <3>8 DEF PanesHeld, Bare
    <3>11. \A q \in {p} \ {p} : ~Drives(thread'[q]) /\ thread'[q].at # "start"
      OBVIOUS
    <3>12. QED
      BY <1>p, <3>5, <3>7, <3>8, <3>9, <3>10, <3>11, PaneMoves
  <2>4. QED
    BY <2>2, <2>3
<1>10. CASE SaveFailed(e)
  <2> DEFINE s == [Snap(p) EXCEPT !.pane = thread[p].pane]
  <2>1. /\ thread[p].at \in {"fail_error", "fail_suspend"} /\ UNCHANGED <<panes, inbox>>
        /\ Keep(p, "fail_event")
        /\ \E x \in {Clear(s, "error"), Suspend(s, "other")} : Save(Snap(p), x)
    BY <1>10 DEF SaveFailed, p
  <2>2. PICK x \in {Clear(s, "error"), Suspend(s, "other")} : Save(Snap(p), x)
    BY <2>1
  <2>3. s \in Known /\ s.pane = thread[p].pane
    BY <1>p, <1>s, HandFacts DEF Known
  <2> HIDE DEF s
  <2>4. session' = x
    BY <2>2, FreshSave
  <2>5. Clear(s, "error").pane = s.pane /\ Clear(s, "error").status = "error"
    BY <2>3 DEF Clear, Known
  <2>6. Suspend(s, "other").pane = s.pane /\ Suspend(s, "other").status = "suspended"
    BY <2>3 DEF Suspend, Clear, Known
  <2>7. session'.pane = thread[p].pane /\ session'.status \in {"error", "suspended"}
    BY <2>3, <2>4, <2>5, <2>6
  <2>8. Moved(p, "fail_event", Snap(p), thread[p])
    BY <1>p, <2>1, Moving
  <2>9. Drives(thread[p]) /\ ~At(p, "post")
    BY <2>1 DEF Drives, Starting, Sending, GivingUp, Failing, At
  <2>10. inbox' = {} /\ \A q \in Processes \ {p} : ~Drives(thread[q])
    BY <1>p, <2>1, <2>9, DrivesAlone
  <2>11. thread[p].pane \notin Kept /\ session.pane \notin Kept
    BY <1>h, <2>1 DEF Holding
  <2>12. Kept = {}
    BY <2>1, <2>10, <2>11 DEF PanesHeld, Drives, Starting, OnTheWay, At
  <2>13. Bare(session', Kept')
    BY <2>1, <2>7, <2>12, KeptStays DEF Bare
  <2>14. Holding(thread'[p], session'.pane, Kept') /\ Others({p})
    BY <2>8 DEF Holding, Moved
  <2>15. \A q \in {p} \ {p} : ~Drives(thread'[q]) /\ thread'[q].at # "start"
    OBVIOUS
  <2>16. Kept' = {}
    BY <2>1, <2>12, KeptStays
  <2>17. QED
    BY <1>p, <2>10, <2>13, <2>14, <2>15, <2>16, PaneMoves
<1>11. CASE FailLastEvent(e) \/ FailRow(e)
  <2>1. UNCHANGED <<session, panes, inbox>> /\ (Goto(p, "fail_row") \/ End(p)) /\ ~At(p, "pane")
    BY <1>11 DEF FailLastEvent, FailRow, p, At
  <2>2. Moved(p, "fail_row", Absent, thread[p]) \/ Moved(p, "off", Absent, Off)
    BY <1>p, <2>1, Moving
  <2>3. QED
    BY <1>p, <2>1, <2>2, PanelessStep DEF Moved, Paneless
<1>12. QED
  BY <1>1, <1>2, <1>3, <1>4, <1>5, <1>6, <1>7, <1>8, <1>9, <1>10, <1>11 DEF LaunchStep

\* The boot loop: a conversation it starts a worker for has no live pane.
LEMMA ReplayPanes ==
    ASSUME IInv, OneDriver, PanesHeld, lost \subseteq lost', Replay
    PROVE  PanesHeld'
<1> DEFINE e == queue[QueueHead].item
<1>1. CASE ReplayCreating
  <2>1. QueueHead \in DOMAIN queue
    BY <1>1, HeadMoves, TablesFacts DEF ReplayCreating, IInv
  <2>2. e \in Events
    BY <2>1, TablesFacts DEF IInv
  <2> DEFINE r == [Off EXCEPT !.at = "start", !.snap = session, !.row = QueueHead]
  <2>3. thread' = [thread EXCEPT ![Launch(e)] = r] /\ UNCHANGED <<session, panes, inbox>>
        /\ session.status = "creating"
    BY <1>1 DEF ReplayCreating
  <2>4. r.at = "start" /\ r.pane = NoPane
    BY DEF Off
  <2>5. PICK p \in Processes : p = Launch(e)
    BY <2>2, ProcessNames
  <2> HIDE DEF e, r
  <2>6. thread'[p] = r /\ Others({p})
    BY <2>3, <2>5, BecomeMoves DEF Become
  <2>7. \A n \in Processes : ~At(n, "pane")
    BY <2>3, NobodyDrives DEF Drives, Starting, OnTheWay, At
  <2>8. Holding(r, session'.pane, Kept')
    BY <2>4 DEF Holding
  <2>9. \A n \in {p} : n \in Processes => ~At(n, "pane")
                          /\ Holding(thread'[n], session'.pane, Kept')
    BY <2>6, <2>7, <2>8
  <2>10. QED
    BY <2>3, <2>6, <2>9, PaneStays
<1>2. CASE ReplayShutdown
  <2>1. QueueHead \in DOMAIN queue
    BY <1>2, HeadMoves, TablesFacts DEF ReplayShutdown, IInv
  <2>2. e \in Events
    BY <2>1, TablesFacts DEF IInv
  <2> DEFINE s == [Clear(session, "starting") EXCEPT !.why = "none", !.pane = NoPane]
             r == [Off EXCEPT !.at = "start", !.snap = s, !.row = QueueHead]
  <2>3. thread' = [thread EXCEPT ![Launch(e)] = r] /\ UNCHANGED <<panes, inbox>>
        /\ session.status = "suspended" /\ session' = s
    BY <1>2 DEF ReplayShutdown, Move
  <2>4. s.status = "starting" /\ s.pane = NoPane /\ r.at = "start" /\ r.pane = NoPane
    BY DEF Off, Clear, IInv, Known
  <2>5. PICK p \in Processes : p = Launch(e)
    BY <2>2, ProcessNames
  <2> HIDE DEF e, r, s
  <2>6. thread'[p] = r /\ Others({p})
    BY <2>3, <2>5, BecomeMoves DEF Become
  <2>7. inbox = {} /\ \A n \in Processes : ~Drives(thread[n])
    BY <2>3, NobodyDrives
  <2>8. Kept = {}
    BY <2>3, <2>7 DEF PanesHeld, Bare, Drives, Starting, OnTheWay, At
  <2>9. Holding(thread'[p], session'.pane, Kept') /\ Bare(session', Kept')
    BY <2>3, <2>4, <2>6 DEF Holding, Bare
  <2>10. \A q \in {p} \ {p} : ~Drives(thread'[q]) /\ thread'[q].at # "start"
    OBVIOUS
  <2>11. Kept' = {} /\ inbox' = {}
    BY <2>3, <2>7, <2>8, KeptStays
  <2>12. QED
    BY <2>6, <2>7, <2>9, <2>10, <2>11, PaneMoves
<1>3. CASE ReplayFail \/ ReplayDefer
  <2>1. Others({}) /\ UNCHANGED <<session, panes, inbox>>
    BY <1>3 DEF Others, ReplayFail, ReplayDefer
  <2>2. QED
    BY <2>1, PaneStays
<1>4. QED
  BY <1>1, <1>2, <1>3 DEF Replay

LEMMA RebootPanes ==
    ASSUME IInv, PanesHeld, Reboot
    PROVE  PanesHeld'
<1>1. \A n \in Processes : thread'[n] = Off
  BY DEF Reboot
<1>2. \A n : Holding(Off, n, Kept')
  BY DEF Holding, Off
<1>3. Kept' = {} /\ inbox' = {} /\ session' = AfterCleanup
  BY DEF Reboot, Kept
<1>4. Bare(session', Kept')
  <2>1. session \in Known
    BY DEF IInv
  <2>2. \A x : [Suspend(session, x) EXCEPT !.pane = NoPane].pane = NoPane
    BY <2>1 DEF Suspend, Clear, Known
  <2>3. [Clear(session, "suspended") EXCEPT !.pane = NoPane].pane = NoPane
    BY <2>1 DEF Clear, Known
  <2>4. session' = session \/ session'.pane = NoPane
    BY <1>3, <2>2, <2>3 DEF AfterCleanup
  <2>5. QED
    BY <1>3, <2>4 DEF Bare, PanesHeld
<1>5. QED
  BY <1>1, <1>2, <1>3, <1>4 DEF PanesHeld

\* What is lost stays lost until the restart ends every pane.
LEMMA LostStays ==
    ASSUME Undisturbed, Undisturbed', [Next]_vars, IInv
    PROVE  Crash \/ lost \subseteq lost'
<1>1. ASSUME NEW e \in Events, Receive(e) \/ RefuseCreate(e) \/ RefuseRecover(e) \/ SlackStep(e)
      PROVE  UNCHANGED lost
  BY <1>1 DEF Receive, RefuseCreate, RefuseRecover, SlackStep, UpdateCursor, CreateSession,
              MarkRefused, MarkQueued
<1>2. ASSUME NEW e \in Events, RouteStep(e) PROVE UNCHANGED lost
  BY <1>2 DEF RouteStep, Route, RouteQueue, RouteActive, RouteRace, SendActive, Requeue,
              Rollback, RecoverSession
<1>3. ASSUME NEW e \in Events, AnswerStep(e) PROVE UNCHANGED lost
  BY <1>3 DEF AnswerStep, Answer, SendAnswer, AnswerUndo, SaveAnswered
<1>4. ASSUME NEW e \in Events, LaunchStep(e) PROVE lost \subseteq lost'
  BY <1>4 DEF LaunchStep, StartWorker, BeginLaunch, PrepareWindow, LoadForUpdate, SaveStarting,
              AllocatePane, SavePane, LosePane, WaitForReady, DispatchFirst, SendFirst,
              BeginFail, SaveFailed, FailLastEvent, FailRow
<1>5. ASSUME NEW t \in Turns, ReplyStep(t) PROVE UNCHANGED lost
  BY <1>5 DEF ReplyStep, BeginReply, PostReply, RecordReply, CloseAttempt, CheckTurn,
              SaveIdentity, MarkDone
<1>6. ASSUME NEW t \in Turns, CompleteStep(t) PROVE UNCHANGED lost
  BY <1>6 DEF CompleteStep, BeginComplete, CompleteWait, CompleteTurn, DrainClaim, DrainBusy,
              DrainSend, DrainUndo, DrainRetry
<1>7. CASE WorkerExits \/ UNCHANGED vars
  BY <1>7 DEF WorkerExits, vars
<1>8. CASE Replay
  BY <1>8 DEF Replay, ReplayCreating, ReplayShutdown, ReplayFail, ReplayDefer
<1>9. QED
  BY <1>1, <1>2, <1>3, <1>4, <1>5, <1>6, <1>7, <1>8, QuietSteps

LEMMA PanesHeldStep ==
    ASSUME IInv, Undisturbed, Undisturbed', [Next]_vars, OneDriver, PanesHeld, stale' = {}
    PROVE  PanesHeld'
<1>1. CASE WorkerExits
  <2>1. panes' \subseteq panes /\ inbox' \subseteq inbox /\ UNCHANGED <<session, lost>> /\ Others({})
    BY <1>1 DEF Others, WorkerExits, KillPane
  <2>2. QED
    BY <2>1, PaneStays
<1>2. CASE UNCHANGED vars
  <2>1. Others({}) /\ UNCHANGED <<session, panes, inbox, lost>>
    BY <1>2 DEF Others, vars
  <2>2. QED
    BY <2>1, PaneStays
<1>3. CASE Crash
  BY <1>3, RebootPanes DEF Crash
<1>4. QED
  BY <1>1, <1>2, <1>3, QuietSteps, LostStays, SlackPanes, RoutePanes, LaunchPanes, ReplyPanes,
     ReplayPanes

LEMMA PanesHeldInit == Init => PanesHeld
<1> SUFFICES ASSUME Init PROVE PanesHeld
  OBVIOUS
<1>1. \A n \in Processes : thread[n] = Off
  BY DEF Init
<1>2. \A n : Holding(Off, n, Kept)
  BY DEF Holding, Off
<1>3. Kept = {} /\ inbox = {} /\ session.pane = NoPane
  BY DEF Init, Absent, Kept
<1>4. QED
  BY <1>1, <1>2, <1>3 DEF PanesHeld, Bare

LEMMA Holder == Spec /\ []Undisturbed => [](stale # {} \/ (OneDriver /\ PanesHeld))
<1>1. /\ IInv /\ IInv' /\ Undisturbed /\ Undisturbed' /\ [Next]_vars
      /\ (stale # {} \/ OneDriver) /\ (stale # {} \/ OneDriver)' /\ (stale # {} \/ PanesHeld)
      => (stale # {} \/ PanesHeld)'
  BY PanesHeldStep, StaleStays
<1>2. QED
  BY <1>1, PanesHeldInit, Driver, Always, PTL DEF Spec

\* A pane that lives is the session's, or that of the launch that has just made it, or was
\* lost by a launch that failed between the split and its return: no other failure, no crash
\* and no race leaves a worker running that nobody knows of.
THEOREM PanesAreKnown == Spec /\ []Undisturbed /\ []NoTextLeft => []PaneHasOwner
<1>1. IInv /\ NoTextLeft /\ (stale # {} \/ (OneDriver /\ PanesHeld)) => PaneHasOwner
  BY TrueAtAll DEF PanesHeld, PaneHasOwner, Kept
<1>2. QED
  BY <1>1, Holder, Always, PTL

-----------------------------------------------------------------------------
(* The rows of the queue *)

\* Where a launch or a drain has a claimed row in hand; where a completion is about to end
\* the turn, its row settled.
Carrying   == Underway \cup GivingUp \cup Failing \cup {"fail_event", "fail_row"} \cup Draining
Load(r)    == IF r.at \in Carrying THEN r.row ELSE NoRow
Closing(r) == r.at \in {"rest", "wait"}

\* What a thread carries is claimed, for its own message; it is the session's row while
\* the thread sends its text, and only then.
LoadsFit ==
    \A p \in Processes :
        /\ Load(thread[p]) # NoRow =>
              /\ queue[Load(thread[p])].status = "dispatching"
              /\ \A e \in Events : p = Launch(e) => queue[Load(thread[p])].item = e
              /\ Load(thread[p]) = session.row => Sending(thread[p])
        /\ Sending(thread[p]) => Load(thread[p]) = session.row
        /\ Closing(thread[p]) => session.row = NoRow \/ queue[session.row].status = "done"

LoadsApart ==
    \A p, n \in Processes : Load(thread[p]) # NoRow /\ Load(thread[n]) = Load(thread[p]) => n = p

Owned(q) == session.row = q \/ q \in dropped \/ \E p \in Processes : Load(thread[p]) = q

RowsOwned == \A q \in DOMAIN queue : queue[q].status = "dispatching" => Owned(q)

\* The session's row is claimed, or settled already, and its message is that of the turn.
RowOfTurn ==
    session.row # NoRow =>
        /\ queue[session.row].status \in {"dispatching", "done"}
        /\ session.turn \in DOMAIN turns
        /\ turns[session.turn].event = queue[session.row].item

RowsHeld == LoadsFit /\ LoadsApart /\ RowsOwned /\ RowOfTurn

\* What a step may leave as it is.
RowKept(q) == queue'[q].item = queue[q].item /\ queue'[q].status = queue[q].status
TurnsKept  == \A t \in DOMAIN turns : t \in DOMAIN turns' /\ turns'[t].event = turns[t].event
SameWork   == session'.row = session.row /\ session'.turn = session.turn

\* A thread goes on with what it carries; or lays it down, which is the session's from now
\* on, or not wanted any more.
CarriesOn(r, x) == Load(x) = Load(r) /\ (Sending(x) <=> Sending(r)) /\ (Closing(x) => Closing(r))
LaysDown(r, x)  == /\ Load(x) = NoRow /\ ~Sending(x) /\ ~Closing(x)
                   /\ Load(r) = NoRow \/ Sending(r) \/ Load(r) \in dropped'

LEMMA LoadFacts ==
    ASSUME IInv
    PROVE  /\ DOMAIN queue = 1..Len(queue) /\ Len(queue) \in Nat
           /\ \A p \in Processes : Load(thread[p]) # NoRow => Load(thread[p]) \in DOMAIN queue
           /\ session.row # NoRow => session.row \in DOMAIN queue
<1>1. DOMAIN queue = 1..Len(queue) /\ Len(queue) \in Nat
  BY TablesFacts DEF IInv
<1>2. \A p \in Processes : thread[p].row \in 0..Len(queue)
  BY HandFacts
<1>3. session.row \in 0..Len(queue)
  BY DEF IInv, Known
<1>4. QED
  BY <1>1, <1>2, <1>3 DEF Load, NoRow

\* Threads go on or lay down; the queue is as it was, or has another waiting row.
LEMMA RowsWalk ==
    ASSUME IInv, RowsHeld, SameWork, TurnsKept, dropped \subseteq dropped', NEW S, Others(S),
           \A n \in S : n \in Processes =>
                CarriesOn(thread[n], thread'[n]) \/ LaysDown(thread[n], thread'[n]),
           \A q \in DOMAIN queue : q \in DOMAIN queue' /\ RowKept(q),
           \A q \in DOMAIN queue' \ DOMAIN queue : queue'[q].status # "dispatching"
    PROVE  RowsHeld'
<1>1. \A n \in Processes : \/ thread'[n] = thread[n] \/ CarriesOn(thread[n], thread'[n])
                           \/ LaysDown(thread[n], thread'[n])
  BY DEF Others
<1>2. \A n \in Processes : /\ Load(thread'[n]) \in {Load(thread[n]), NoRow}
                           /\ Sending(thread'[n]) => Sending(thread[n]) /\ Load(thread'[n]) = Load(thread[n])
                           /\ Closing(thread'[n]) => Closing(thread[n])
                           /\ Load(thread'[n]) # NoRow /\ Sending(thread[n]) => Sending(thread'[n])
                           /\ Load(thread[n]) # NoRow =>
                                 \/ Load(thread'[n]) = Load(thread[n])
                                 \/ Sending(thread[n]) \/ Load(thread[n]) \in dropped'
  BY <1>1 DEF CarriesOn, LaysDown
<1>3. LoadsFit'
  <2>1. ASSUME NEW n \in Processes, Load(thread'[n]) # NoRow
        PROVE  /\ queue'[Load(thread'[n])].status = "dispatching"
               /\ \A e \in Events : n = Launch(e) => queue'[Load(thread'[n])].item = e
               /\ Load(thread'[n]) = session'.row => Sending(thread'[n])
    <3>1. Load(thread'[n]) = Load(thread[n]) /\ Load(thread[n]) \in DOMAIN queue
      BY <1>2, <2>1, LoadFacts
    <3>2. QED
      BY <1>2, <2>1, <3>1 DEF RowsHeld, LoadsFit, RowKept, SameWork
  <2>2. ASSUME NEW n \in Processes, Sending(thread'[n])
        PROVE  Load(thread'[n]) = session'.row
    BY <1>2, <2>2 DEF RowsHeld, LoadsFit, SameWork
  <2>3. ASSUME NEW n \in Processes, Closing(thread'[n])
        PROVE  session'.row = NoRow \/ queue'[session'.row].status = "done"
    BY <1>2, <2>3, LoadFacts DEF RowsHeld, LoadsFit, SameWork, RowKept
  <2>4. QED
    BY <2>1, <2>2, <2>3 DEF LoadsFit
<1>4. LoadsApart'
  BY <1>2 DEF RowsHeld, LoadsApart
<1>5. RowsOwned'
  <2> SUFFICES ASSUME NEW q \in DOMAIN queue', queue'[q].status = "dispatching"
               PROVE  Owned(q)'
    BY DEF RowsOwned
  <2>1. q \in DOMAIN queue /\ queue[q].status = "dispatching"
    BY DEF RowKept
  <2>2. CASE session.row = q \/ q \in dropped
    BY <2>2 DEF Owned, SameWork
  <2>3. ASSUME NEW n \in Processes, Load(thread[n]) = q
        PROVE  Owned(q)'
    <3>1. q # NoRow
      BY <2>1, LoadFacts DEF NoRow
    <3>2. Sending(thread[n]) => session'.row = q
      BY <2>3 DEF RowsHeld, LoadsFit, SameWork
    <3>3. QED
      BY <1>2, <2>3, <3>1, <3>2 DEF Owned
  <2>4. QED
    BY <2>1, <2>2, <2>3 DEF RowsHeld, RowsOwned, Owned
<1>6. RowOfTurn'
  BY LoadFacts DEF RowsHeld, RowOfTurn, SameWork, RowKept, TurnsKept
<1>7. QED
  BY <1>3, <1>4, <1>5, <1>6 DEF RowsHeld

\* Thread p gets row q, which nobody has claimed, for itself.
LEMMA RowsClaim ==
    ASSUME IInv, RowsHeld, SameWork, UNCHANGED <<turns, dropped>>, NEW S, Others(S),
           NEW p \in Processes, NEW q, q # NoRow, q \in DOMAIN queue',
           q \in DOMAIN queue => queue[q].status \in EQ!Visible,
           \A x \in DOMAIN queue : x \in DOMAIN queue' /\ (x # q => RowKept(x)),
           \A x \in DOMAIN queue' : x \in DOMAIN queue \/ x = q,
           queue'[q].status = "dispatching",
           \A e \in Events : p = Launch(e) => queue'[q].item = e,
           Load(thread[p]) = NoRow, Load(thread'[p]) = q,
           ~Sending(thread'[p]), ~Closing(thread'[p]),
           \A n \in S : n # p => CarriesOn(thread[n], thread'[n])
    PROVE  RowsHeld'
<1>q. /\ \A n \in Processes : Load(thread[n]) # q
      /\ session.row # q
      /\ \A x \in DOMAIN queue : queue[x].status \in {"dispatching", "done"} => x # q
  <2>1. \A x \in DOMAIN queue : queue[x].status \in {"dispatching", "done"} => x # q
    BY DEF EQ!Visible
  <2>2. QED
    BY <2>1, LoadFacts DEF RowsHeld, LoadsFit, RowOfTurn
<1>1. \A n \in Processes : n # p =>
         /\ Load(thread'[n]) = Load(thread[n]) /\ (Sending(thread'[n]) <=> Sending(thread[n]))
         /\ Closing(thread'[n]) => Closing(thread[n])
  BY DEF Others, CarriesOn
<1>2. LoadsFit'
  <2>1. ASSUME NEW n \in Processes, n # p
        PROVE  /\ Load(thread'[n]) # NoRow =>
                    /\ queue'[Load(thread'[n])].status = "dispatching"
                    /\ \A e \in Events : n = Launch(e) => queue'[Load(thread'[n])].item = e
                    /\ Load(thread'[n]) = session'.row => Sending(thread'[n])
               /\ Sending(thread'[n]) => Load(thread'[n]) = session'.row
               /\ Closing(thread'[n]) => session'.row = NoRow \/ queue'[session'.row].status = "done"
    BY <1>q, <1>1, <2>1, LoadFacts DEF RowsHeld, LoadsFit, RowKept, SameWork
  <2>2. session'.row # q
    BY <1>q DEF SameWork
  <2>3. QED
    BY <2>1, <2>2 DEF LoadsFit
<1>3. LoadsApart'
  BY <1>q, <1>1 DEF RowsHeld, LoadsApart
<1>4. RowsOwned'
  <2> SUFFICES ASSUME NEW x \in DOMAIN queue', queue'[x].status = "dispatching"
               PROVE  Owned(x)'
    BY DEF RowsOwned
  <2>1. CASE x = q
    BY <2>1 DEF Owned
  <2>2. CASE x # q
    <3>1. x \in DOMAIN queue /\ queue[x].status = "dispatching"
      BY <2>2 DEF RowKept
    <3>2. Owned(x) /\ x # NoRow
      BY <3>1, LoadFacts DEF RowsHeld, RowsOwned, NoRow
    <3>3. QED
      BY <1>1, <3>2 DEF Owned, SameWork
  <2>3. QED
    BY <2>1, <2>2
<1>5. RowOfTurn'
  BY <1>q, LoadFacts DEF RowsHeld, RowOfTurn, SameWork, RowKept
<1>6. QED
  BY <1>2, <1>3, <1>4, <1>5 DEF RowsHeld

\* Thread p settles the row it carries, or puts it back.
LEMMA RowsReturn ==
    ASSUME IInv, RowsHeld, SameWork, TurnsKept, UNCHANGED dropped,
           NEW p \in Processes, Others({p}), NEW q, q = Load(thread[p]), q # NoRow,
           ~Sending(thread[p]), Load(thread'[p]) = NoRow,
           ~Sending(thread'[p]), ~Closing(thread'[p]),
           DOMAIN queue' = DOMAIN queue, \A x \in DOMAIN queue : x # q => RowKept(x),
           queue'[q].status # "dispatching"
    PROVE  RowsHeld'
<1>q. session.row # q
  BY DEF RowsHeld, LoadsFit
<1>1. \A n \in Processes : n # p => thread'[n] = thread[n] /\ Load(thread[n]) # q
  BY DEF Others, RowsHeld, LoadsApart
<1>2. LoadsFit'
  <2>1. ASSUME NEW n \in Processes, n # p
        PROVE  /\ Load(thread'[n]) # NoRow =>
                    /\ queue'[Load(thread'[n])].status = "dispatching"
                    /\ \A e \in Events : n = Launch(e) => queue'[Load(thread'[n])].item = e
                    /\ Load(thread'[n]) = session'.row => Sending(thread'[n])
               /\ Sending(thread'[n]) => Load(thread'[n]) = session'.row
               /\ Closing(thread'[n]) => session'.row = NoRow \/ queue'[session'.row].status = "done"
    BY <1>q, <1>1, <2>1, LoadFacts DEF RowsHeld, LoadsFit, RowKept, SameWork
  <2>2. QED
    BY <2>1 DEF LoadsFit
<1>3. LoadsApart'
  BY <1>1 DEF RowsHeld, LoadsApart
<1>4. RowsOwned'
  <2> SUFFICES ASSUME NEW x \in DOMAIN queue', queue'[x].status = "dispatching"
               PROVE  Owned(x)'
    BY DEF RowsOwned
  <2>1. x # q /\ x \in DOMAIN queue /\ queue[x].status = "dispatching"
    BY DEF RowKept
  <2>2. Owned(x)
    BY <2>1 DEF RowsHeld, RowsOwned
  <2>3. QED
    BY <1>1, <2>1, <2>2 DEF Owned, SameWork
<1>5. RowOfTurn'
  BY <1>q, LoadFacts DEF RowsHeld, RowOfTurn, SameWork, RowKept, TurnsKept
<1>6. QED
  BY <1>2, <1>3, <1>4, <1>5 DEF RowsHeld

\* Thread p makes the conversation busy with a new turn, for the row it carries if any.
LEMMA RowsTake ==
    ASSUME IInv, OneDriver, RowsHeld, UNCHANGED <<queue, dropped>>, TurnsKept,
           NEW p \in Processes, Others({p}), \A n \in Processes \ {p} : ~Drives(thread[n]),
           session.row = NoRow, session'.row = Load(thread'[p]),
           Load(thread'[p]) = Load(thread[p]), Sending(thread'[p]), ~Closing(thread'[p]),
           session'.turn \in DOMAIN turns',
           session'.row # NoRow => turns'[session'.turn].event = queue[session'.row].item
    PROVE  RowsHeld'
<1>1. \A n \in Processes : n # p => /\ thread'[n] = thread[n]
                                    /\ ~Sending(thread'[n]) /\ ~Closing(thread'[n])
  BY DEF Others, Drives, Closing, Answering
<1>2. LoadsFit'
  <2>1. \A n \in Processes : n # p /\ Load(thread[n]) # NoRow => Load(thread[n]) # session'.row
    BY DEF RowsHeld, LoadsApart
  <2>2. QED
    BY <1>1, <2>1 DEF RowsHeld, LoadsFit
<1>3. LoadsApart'
  BY <1>1 DEF RowsHeld, LoadsApart
<1>4. RowsOwned'
  <2> SUFFICES ASSUME NEW q \in DOMAIN queue, queue[q].status = "dispatching"
               PROVE  Owned(q)'
    BY DEF RowsOwned
  <2>1. Owned(q) /\ q # NoRow
    BY LoadFacts DEF RowsHeld, RowsOwned, NoRow
  <2>2. QED
    BY <1>1, <2>1 DEF Owned
<1>5. RowOfTurn'
  BY DEF RowsHeld, RowOfTurn, LoadsFit
<1>6. QED
  BY <1>2, <1>3, <1>4, <1>5 DEF RowsHeld

\* The conversation has no row any more: thread p, which sent its text, carries it on; or
\* ends the turn of which the row is settled.
LEMMA RowsRelease ==
    ASSUME IInv, RowsHeld, UNCHANGED <<queue, dropped>>,
           NEW p \in Processes, Others({p}), \A n \in Processes \ {p} : ~Drives(thread[n]),
           Sending(thread[p]) \/ Closing(thread[p]) \/ session.row = NoRow,
           session'.row = NoRow, Load(thread'[p]) = Load(thread[p]), ~Sending(thread'[p])
    PROVE  RowsHeld'
<1>1. \A n \in Processes : n # p => /\ thread'[n] = thread[n]
                                    /\ ~Sending(thread'[n]) /\ ~Closing(thread'[n])
  BY DEF Others, Drives, Closing, Answering
<1>2. LoadsFit'
  BY <1>1 DEF RowsHeld, LoadsFit
<1>3. LoadsApart'
  BY <1>1 DEF RowsHeld, LoadsApart
<1>4. RowsOwned'
  <2> SUFFICES ASSUME NEW q \in DOMAIN queue, queue[q].status = "dispatching"
               PROVE  Owned(q)'
    BY DEF RowsOwned
  <2>1. Owned(q) /\ q # NoRow
    BY LoadFacts DEF RowsHeld, RowsOwned, NoRow
  <2>2. session.row = q => Load(thread[p]) = q
    BY <2>1 DEF RowsHeld, LoadsFit
  <2>3. QED
    BY <1>1, <2>1, <2>2 DEF Owned
<1>5. RowOfTurn'
  BY DEF RowOfTurn
<1>6. QED
  BY <1>2, <1>3, <1>4, <1>5 DEF RowsHeld

\* The session's row is settled by the thread that answers its turn.
LEMMA RowsConsume ==
    ASSUME IInv, OneDriver, RowsHeld, SameWork, UNCHANGED <<turns, dropped>>,
           NEW p \in Processes, Others({p}), Drives(thread[p]), ~Sending(thread[p]),
           Load(thread[p]) = NoRow, Load(thread'[p]) = NoRow, ~Sending(thread'[p]),
           DOMAIN queue' = DOMAIN queue, \A x \in DOMAIN queue : x # session.row => RowKept(x),
           session.row # NoRow => /\ queue'[session.row].item = queue[session.row].item
                                  /\ queue'[session.row].status = "done"
    PROVE  RowsHeld'
<1>1. \A n \in Processes : n # p => /\ thread'[n] = thread[n]
                                    /\ ~Sending(thread[n]) /\ ~Closing(thread[n])
  BY DrivesAlone DEF Others, Drives, Closing, Answering
<1>2. \A n \in Processes : Load(thread'[n]) = Load(thread[n])
  BY <1>1
<1>3. \A n \in Processes : Load(thread[n]) # NoRow => Load(thread[n]) # session.row
  BY <1>1 DEF RowsHeld, LoadsFit
<1>4. LoadsFit'
  <2>1. ASSUME NEW n \in Processes, Load(thread'[n]) # NoRow
        PROVE  /\ queue'[Load(thread'[n])].status = "dispatching"
               /\ \A e \in Events : n = Launch(e) => queue'[Load(thread'[n])].item = e
               /\ Load(thread'[n]) # session'.row
    <3>1. Load(thread[n]) \in DOMAIN queue /\ Load(thread[n]) # session.row
      BY <1>2, <1>3, <2>1, LoadFacts
    <3>2. QED
      BY <1>2, <2>1, <3>1 DEF RowsHeld, LoadsFit, RowKept, SameWork
  <2>2. \A n \in Processes : ~Sending(thread'[n])
    BY <1>1
  <2>3. session'.row = NoRow \/ queue'[session'.row].status = "done"
    BY DEF SameWork
  <2>4. QED
    BY <2>1, <2>2, <2>3 DEF LoadsFit
<1>5. LoadsApart'
  BY <1>2 DEF RowsHeld, LoadsApart
<1>6. RowsOwned'
  <2> SUFFICES ASSUME NEW q \in DOMAIN queue', queue'[q].status = "dispatching"
               PROVE  Owned(q)'
    BY DEF RowsOwned
  <2>1. queue[q].status = "dispatching" /\ q \in DOMAIN queue
    BY LoadFacts DEF RowKept, NoRow
  <2>2. Owned(q)
    BY <2>1 DEF RowsHeld, RowsOwned
  <2>3. QED
    BY <1>2, <2>2 DEF Owned, SameWork
<1>7. RowOfTurn'
  BY LoadFacts DEF RowsHeld, RowOfTurn, SameWork
<1>8. QED
  BY <1>4, <1>5, <1>6, <1>7 DEF RowsHeld

\* A waiting row that the boot loop looks at is settled.
LEMMA RowsFailed ==
    ASSUME IInv, RowsHeld, SameWork, TurnsKept, UNCHANGED <<thread, dropped>>,
           NEW q \in DOMAIN queue, queue[q].status \in EQ!Visible,
           DOMAIN queue' = DOMAIN queue, \A x \in DOMAIN queue : x # q => RowKept(x),
           queue'[q].status = "failed"
    PROVE  RowsHeld'
<1>1. /\ \A n \in Processes : Load(thread[n]) # NoRow => Load(thread[n]) # q
      /\ session.row # NoRow => session.row # q
  BY DEF RowsHeld, LoadsFit, RowOfTurn, EQ!Visible
<1>2. LoadsFit'
  BY <1>1, LoadFacts DEF RowsHeld, LoadsFit, SameWork, RowKept
<1>3. LoadsApart'
  BY DEF RowsHeld, LoadsApart
<1>4. RowsOwned'
  BY DEF RowsHeld, RowsOwned, Owned, SameWork, RowKept
<1>5. RowOfTurn'
  BY <1>1, LoadFacts DEF RowsHeld, RowOfTurn, SameWork, RowKept, TurnsKept
<1>6. QED
  BY <1>2, <1>3, <1>4, <1>5 DEF RowsHeld

\* After a restart no row is claimed and no thread carries one.
LEMMA RowsReset ==
    ASSUME IInv, OneDriver, Reboot
    PROVE  RowsHeld'
<1>1. \A n \in Processes : thread'[n] = Off
  BY DEF Reboot
<1>2. Load(Off) = NoRow /\ ~Sending(Off) /\ ~Closing(Off)
  BY DEF Load, Off, Sending, Closing, Failing
<1>3. EQ!SetRows(EQ!DispatchingRows, "retryable")
  BY DEF Reboot, EQ!ResetDispatchingEventQueueLeases, EQ!ResetLeases
<1>4. \A q \in DOMAIN queue' : queue'[q].status # "dispatching"
  <2>1. /\ DOMAIN queue' = DOMAIN queue
        /\ \A q \in DOMAIN queue : queue'[q].status =
              IF q \in EQ!DispatchingRows THEN "retryable" ELSE queue[q].status
    BY <1>3, RowsSet
  <2>2. QED
    BY <2>1 DEF EQ!DispatchingRows
<1>5. session'.row = NoRow
  <2>1. session \in Known /\ AtRest(session)
    BY DEF IInv, OneDriver
  <2>2. \A x : [Suspend(session, x) EXCEPT !.pane = NoPane].row = NoRow
    BY <2>1 DEF Suspend, Clear, Known
  <2>3. [Clear(session, "suspended") EXCEPT !.pane = NoPane].row = NoRow
    BY <2>1 DEF Clear, Known
  <2>4. session.status # "busy" => session.row = NoRow
    BY <2>1 DEF AtRest
  <2>5. session' = AfterCleanup
    BY DEF Reboot
  <2>6. CASE session.status \in Active \ {"creating"}
    BY <2>2, <2>5, <2>6, Zenon DEF AfterCleanup, Active
  <2>7. CASE session.status = "suspended"
    BY <2>3, <2>5, <2>7 DEF AfterCleanup, Active
  <2>8. CASE session.status \notin (Active \ {"creating"}) \cup {"suspended"}
    BY <2>4, <2>5, <2>8 DEF AfterCleanup, Active
  <2>9. QED
    BY <2>6, <2>7, <2>8
<1>6. QED
  BY <1>1, <1>2, <1>4, <1>5 DEF RowsHeld, LoadsFit, LoadsApart, RowsOwned, RowOfTurn

\* Where a thread carries no row, sends no text and ends no turn.
Emptyhanded == {"off", "create", "refused", "cursor", "recover", "route", "mark", "answer",
         "append", "active", "race", "answer_save", "post", "record", "close", "check",
         "identity", "finish", "verdict", "drain"}

LEMMA PlainPlaces ==
    /\ \A r : r.at \in Emptyhanded => Load(r) = NoRow /\ ~Sending(r) /\ ~Closing(r)
    /\ \A r : r.at \in {"send", "requeue", "rollback", "answer_send", "answer_undo"} =>
                Load(r) = NoRow /\ Sending(r) /\ ~Closing(r)
    /\ \A r : Closing(r) => Load(r) = NoRow /\ ~Sending(r)
BY DEF Emptyhanded, Load, Carrying, Underway, GivingUp, Failing, Draining, Sending, Closing

QueueGrows ==
    /\ \A q \in DOMAIN queue : q \in DOMAIN queue' /\ RowKept(q)
    /\ \A q \in DOMAIN queue' \ DOMAIN queue : queue'[q].status # "dispatching"

LEMMA QueueStays == ASSUME UNCHANGED queue PROVE QueueGrows
BY DEF QueueGrows, RowKept

\* A message that has no row yet gets a waiting one.
LEMMA AppendGrows ==
    ASSUME IInv, NEW e \in Events, EQ!AppendEventQueue(e), RowsOn(e) = {}
    PROVE  QueueGrows
<1>1. EQ!Insert(e, "queued")
  BY DEF EQ!AppendEventQueue, EQ!RowsOf, RowsOn
<1>2. queue \in Seq(EQ!Row) /\ DOMAIN queue = 1..Len(queue) /\ Len(queue) \in Nat
  BY DEF IInv, TablesOK, EQ!TypeOK
<1>3. /\ DOMAIN queue' = DOMAIN queue \cup {Len(queue) + 1}
      /\ \A q \in DOMAIN queue : queue'[q] = queue[q]
      /\ queue'[Len(queue) + 1] = [item |-> e, status |-> "queued"]
  BY <1>1, <1>2 DEF EQ!Insert
<1>4. QED
  BY <1>3 DEF QueueGrows, RowKept

LEMMA TurnAdded ==
    ASSUME IInv, NEW e \in Events, NewTurn(e)
    PROVE  /\ NextTurn \in DOMAIN turns' /\ NextTurn \notin DOMAIN turns
           /\ turns'[NextTurn].event = e /\ turns'[NextTurn].attempt = "none"
           /\ DOMAIN turns' = DOMAIN turns \cup {NextTurn}
           /\ \A t \in DOMAIN turns : turns'[t] = turns[t]
<1>1. turns \in Seq(Attempt) /\ DOMAIN turns = 1..Len(turns) /\ Len(turns) \in Nat
  BY TurnsFacts DEF IInv, TurnsOK
<1> DEFINE new == [event |-> e, attempt |-> "none"]
<1>2. new \in Attempt /\ new.event = e /\ new.attempt = "none"
  BY DEF Attempt
<1>3. turns' = Append(turns, new)
  BY DEF NewTurn
<1> HIDE DEF new
<1>4. /\ DOMAIN turns' = 1..(Len(turns) + 1) /\ \A t \in 1..Len(turns) : turns'[t] = turns[t]
      /\ turns'[Len(turns) + 1] = new
  BY <1>1, <1>2, <1>3
<1>5. QED
  BY <1>1, <1>2, <1>4 DEF NextTurn

LEMMA TurnsStay ==
    ASSUME IInv,
           \/ UNCHANGED turns
           \/ \E e \in Events : NewTurn(e)
           \/ \E t : turns' = Opened(turns, t)
           \/ \E t, a : turns' = Completed(turns, t, a) \/ turns' = Completed(Opened(turns, t), t, a)
    PROVE  TurnsKept
<1>1. /\ turns \in Seq(Attempt) /\ DOMAIN turns = 1..Len(turns) /\ Len(turns) \in Nat
      /\ \A t \in DOMAIN turns : turns[t] \in Attempt
  BY TurnsFacts DEF IInv, TurnsOK
<1>2. ASSUME NEW e \in Events, NewTurn(e) PROVE TurnsKept
  BY <1>2, TurnAdded DEF TurnsKept
<1>3. ASSUME NEW ts, DOMAIN ts = DOMAIN turns, \A u \in DOMAIN turns : ts[u] \in Attempt,
             NEW t, NEW a
      PROVE  LET new == [ts EXCEPT ![t].attempt = a]
             IN  DOMAIN new = DOMAIN turns /\ \A u \in DOMAIN turns : new[u].event = ts[u].event
  BY <1>3 DEF Attempt
<1>4. ASSUME NEW t
      PROVE  /\ DOMAIN Opened(turns, t) = DOMAIN turns
             /\ \A u \in DOMAIN turns : /\ Opened(turns, t)[u].event = turns[u].event
                                        /\ Opened(turns, t)[u] \in Attempt
  BY <1>1 DEF Opened, Attempt
<1>5. ASSUME NEW ts, DOMAIN ts = DOMAIN turns, \A u \in DOMAIN turns : ts[u] \in Attempt,
             NEW t, NEW a
      PROVE  /\ DOMAIN Completed(ts, t, a) = DOMAIN turns
             /\ \A u \in DOMAIN turns : Completed(ts, t, a)[u].event = ts[u].event
  BY <1>5 DEF Completed, Attempt
<1>6. ASSUME NEW t, turns' = Opened(turns, t) PROVE TurnsKept
  BY <1>4, <1>6 DEF TurnsKept
<1>7. ASSUME NEW t, NEW a, turns' = Completed(turns, t, a) PROVE TurnsKept
  BY <1>1, <1>5, <1>7 DEF TurnsKept
<1>8. ASSUME NEW t, NEW a, turns' = Completed(Opened(turns, t), t, a) PROVE TurnsKept
  BY <1>4, <1>5, <1>8 DEF TurnsKept
<1>9. CASE UNCHANGED turns
  BY <1>9 DEF TurnsKept
<1>10. QED
  BY <1>2, <1>6, <1>7, <1>8, <1>9

\* The usual step: a thread goes where it carries nothing, and had nothing that is not the
\* session's.
LEMMA PlainRows ==
    ASSUME IInv, RowsHeld, SameWork, TurnsKept, QueueGrows, UNCHANGED dropped,
           NEW p \in Processes, Others({p}), thread'[p].at \in Emptyhanded,
           thread[p].at \notin Carrying \/ Sending(thread[p])
    PROVE  RowsHeld'
<1>1. LaysDown(thread[p], thread'[p])
  BY PlainPlaces DEF LaysDown, Load
<1>2. \A n \in {p} : n \in Processes =>
                CarriesOn(thread[n], thread'[n]) \/ LaysDown(thread[n], thread'[n])
  BY <1>1
<1>3. QED
  BY <1>2, RowsWalk DEF QueueGrows

LEMMA CarryingRows ==
    ASSUME IInv, RowsHeld, SameWork, TurnsKept, QueueGrows, UNCHANGED dropped,
           NEW p \in Processes, Others({p}), CarriesOn(thread[p], thread'[p])
    PROVE  RowsHeld'
<1>1. \A n \in {p} : n \in Processes =>
                CarriesOn(thread[n], thread'[n]) \/ LaysDown(thread[n], thread'[n])
  OBVIOUS
<1>2. QED
  BY <1>1, RowsWalk DEF QueueGrows

LEMMA SlackRows ==
    ASSUME IInv, OneDriver, RowsHeld, stale' = {}, NEW e \in Events,
           Receive(e) \/ RefuseCreate(e) \/ RefuseRecover(e) \/ SlackStep(e)
    PROVE  RowsHeld'
<1> DEFINE p == Slack(e)
<1>p. p \in Processes /\ Launch(e) \in Processes /\ p # Launch(e)
  BY ProcessNames
<1> HIDE DEF p
<1>1. CASE Receive(e) \/ RefuseCreate(e) \/ RefuseRecover(e) \/ MarkRefused(e) \/ MarkQueued(e)
  <2>1. UNCHANGED <<session, turns, dropped, queue>> /\ thread[p].at \notin Carrying
    BY <1>1 DEF Receive, RefuseCreate, RefuseRecover, MarkRefused, MarkQueued, p, At,
                EQ!ClaimEvent, EQ!UpdateEvent, Carrying, Underway, GivingUp, Failing, Draining
  <2>2. PICK where \in {"create", "refused", "cursor", "mark", "off"} :
           Enter(p, where, session) \/ Pass(p, where) \/ (where = "off" /\ End(p))
    BY <1>1 DEF Receive, RefuseCreate, RefuseRecover, MarkRefused, MarkQueued, p
  <2>3. thread'[p].at = where /\ Others({p})
    BY <1>p, <2>2, Moving DEF Moved
  <2>4. SameWork /\ TurnsKept /\ QueueGrows
    BY <2>1, TurnsStay, QueueStays DEF SameWork
  <2>5. QED
    BY <1>p, <2>1, <2>3, <2>4, PlainRows DEF Emptyhanded
<1>2. CASE UpdateCursor(e)
  <2> DEFINE s == [Snap(p) EXCEPT !.last = e]
  <2>1. Save(Snap(p), s) /\ UNCHANGED <<turns, dropped, queue>> /\ thread[p].at \notin Carrying
    BY <1>2 DEF UpdateCursor, p, At, Carrying, Underway, GivingUp, Failing, Draining
  <2>2. s.row = Snap(p).row /\ s.turn = Snap(p).turn
    BY <1>p, HandFacts DEF Known
  <2> HIDE DEF s
  <2>3. SameWork
    BY <2>1, <2>2, FreshSave DEF SameWork
  <2>4. PICK new : new = session'
    OBVIOUS
  <2>5. Enter(p, "recover", new) \/ Pass(p, "route")
    BY <1>2, <2>4 DEF UpdateCursor, p
  <2>6. thread'[p].at \in {"recover", "route"} /\ Others({p})
    BY <1>p, <2>5, Moving DEF Moved
  <2>7. TurnsKept /\ QueueGrows
    BY <2>1, TurnsStay, QueueStays
  <2>8. QED
    BY <1>p, <2>1, <2>3, <2>6, <2>7, PlainRows DEF Emptyhanded
<1>3. CASE CreateSession(e)
  <2>1. CASE session.status = "absent"
    <3> DEFINE s == [Absent EXCEPT !.status = "creating", !.last = e]
               q == Len(queue) + 1
               r == [Off EXCEPT !.at = "start", !.snap = s, !.row = q]
    <3>1. /\ session' = s /\ thread' = [thread EXCEPT ![p] = Off, ![Launch(e)] = r]
          /\ UNCHANGED <<turns, dropped>> /\ EQ!Insert(e, "dispatching") /\ RowsOn(e) = {}
          /\ thread[p].at = "create"
      BY <1>3, <2>1 DEF CreateSession, p, At, EQ!CreateInitialQueue, EQ!RowsOf, RowsOn
    <3>2. s.row = NoRow /\ s.turn = NoTurn /\ r.at = "start" /\ r.row = q
      BY DEF Absent, Off
    <3> HIDE DEF s, r
    <3>3. SameWork
      BY <2>1, <3>1, <3>2 DEF SameWork, OneDriver, AtRest
    <3>4. thread'[p] = Off /\ thread'[Launch(e)] = r /\ Others({p, Launch(e)})
      BY <1>p, <3>1 DEF Others, IInv, ThreadsOK
    <3>5. /\ DOMAIN queue = 1..Len(queue) /\ Len(queue) \in Nat
          /\ DOMAIN queue' = DOMAIN queue \cup {q}
          /\ \A x \in DOMAIN queue : queue'[x] = queue[x]
          /\ queue'[q].item = e /\ queue'[q].status = "dispatching"
      BY <3>1 DEF IInv, TablesOK, EQ!TypeOK, EQ!Insert
    <3>6. Load(r) = q /\ ~Sending(r) /\ ~Closing(r) /\ q # NoRow /\ q \notin DOMAIN queue
      BY <3>2, <3>5 DEF Load, Carrying, Underway, Sending, Closing, Failing, NoRow
    <3>7. Load(thread[Launch(e)]) = NoRow
      BY <1>p, <3>1, LoadFacts DEF RowsHeld, LoadsFit, RowsOn
    <3>8. CarriesOn(thread[p], Off)
      BY <3>1, PlainPlaces DEF CarriesOn, Emptyhanded, Off
    <3>9. \A f \in Events : Launch(e) = Launch(f) => queue'[q].item = f
      BY <3>5, ThreadsApart
    <3> HIDE DEF q
    <3>10. \A n \in {p, Launch(e)} : n # Launch(e) => CarriesOn(thread[n], thread'[n])
      BY <3>4, <3>8
    <3>11. \A x \in DOMAIN queue : x \in DOMAIN queue' /\ (x # q => RowKept(x))
      BY <3>5 DEF RowKept
    <3>12. Load(thread'[Launch(e)]) = q /\ ~Sending(thread'[Launch(e)])
           /\ ~Closing(thread'[Launch(e)]) /\ UNCHANGED <<turns, dropped>>
      BY <3>1, <3>4, <3>6
    <3>13. q \in DOMAIN queue' /\ (q \in DOMAIN queue => queue[q].status \in EQ!Visible)
           /\ \A x \in DOMAIN queue' : x \in DOMAIN queue \/ x = q
      BY <3>5, <3>6
    <3>14. QED
      BY <1>p, <3>3, <3>4, <3>5, <3>6, <3>7, <3>9, <3>10, <3>11, <3>12, <3>13, RowsClaim
  <2>2. CASE session.status # "absent"
    <3>1. UNCHANGED <<session, turns, dropped, queue>> /\ thread[p].at \notin Carrying
          /\ \E where \in {"refused", "cursor"} : Enter(p, where, session)
      BY <1>3, <2>2 DEF CreateSession, p, At, Carrying, Underway, GivingUp, Failing, Draining
    <3>2. thread'[p].at \in {"refused", "cursor"} /\ Others({p})
      BY <1>p, <3>1, Moving DEF Moved
    <3>3. SameWork /\ TurnsKept /\ QueueGrows
      BY <3>1, TurnsStay, QueueStays DEF SameWork
    <3>4. QED
      BY <1>p, <3>1, <3>2, <3>3, PlainRows DEF Emptyhanded
  <2>3. QED
    BY <2>1, <2>2
<1>4. QED
  BY <1>1, <1>2, <1>3 DEF SlackStep

\* A conversation at rest gets a turn with no row, or with the row that p carries.
LEMMA TakesRow ==
    ASSUME IInv, OneDriver, RowsHeld, UNCHANGED <<queue, dropped>>,
           NEW p \in Processes, \A n \in Processes \ {p} : ~Drives(thread[n]),
           session.status # "busy", NEW q, q = Load(thread[p]),
           session' = Activate(session, NextTurn, q), NEW e \in Events, NewTurn(e),
           q # NoRow => queue[q].item = e,
           NEW r, Become(p, r), Load(r) = q, Sending(r), ~Closing(r)
    PROVE  RowsHeld'
<1>1. session'.row = q /\ session'.turn = NextTurn
  BY DEF Activate, IInv, Known
<1>2. session.row = NoRow
  BY DEF OneDriver, AtRest
<1>3. thread'[p] = r /\ Others({p})
  BY BecomeMoves
<1>4. NextTurn \in DOMAIN turns' /\ turns'[NextTurn].event = e /\ TurnsKept
  BY TurnAdded, TurnsStay
<1>5. /\ session'.row = Load(thread'[p]) /\ Load(thread'[p]) = Load(thread[p])
      /\ Sending(thread'[p]) /\ ~Closing(thread'[p])
      /\ session'.turn \in DOMAIN turns'
      /\ session'.row # NoRow => turns'[session'.turn].event = queue[session'.row].item
  BY <1>1, <1>3, <1>4
<1>6. QED
  BY <1>2, <1>3, <1>4, <1>5, RowsTake

LEMMA RouteRows ==
    ASSUME IInv, OneDriver, RowsHeld, stale' = {}, NEW e \in Events,
           thread[Slack(e)].at \in Early => RowsOn(e) = {},
           RouteStep(e) \/ AnswerStep(e)
    PROVE  RowsHeld'
<1> DEFINE p == Slack(e)
<1>p. p \in Processes /\ Launch(e) \in Processes /\ p # Launch(e)
  BY ProcessNames
<1>s. session \in Known /\ session.status \in Status \cup {"absent"}
  BY DEF IInv, Known
<1>e. thread[p].at \in Early => RowsOn(e) = {}
  OBVIOUS
<1>c. thread[p].at \in Emptyhanded \cup {"send", "requeue", "rollback", "answer_send",
                                         "answer_undo"}
      => thread[p].at \notin Carrying
  BY DEF Emptyhanded, Carrying, Underway, GivingUp, Failing, Draining
<1> HIDE DEF p
<1>1. CASE Route(e) \/ RouteRace(e)
  <2>1. UNCHANGED <<session, turns, dropped, queue>> /\ thread[p].at \notin Carrying
    BY <1>1, <1>c DEF Route, RouteRace, p, At, Emptyhanded
  <2>2. PICK where \in Emptyhanded : Enter(p, where, session) \/ Pass(p, where)
    BY <1>1, <1>s DEF Route, RouteRace, p, Branches, Status, Emptyhanded
  <2>3. thread'[p].at = where /\ Others({p})
    BY <1>p, <2>2, Moving DEF Moved
  <2>4. SameWork /\ TurnsKept /\ QueueGrows
    BY <2>1, TurnsStay, QueueStays DEF SameWork
  <2>5. QED
    BY <1>p, <2>1, <2>3, <2>4, PlainRows
<1>2. CASE RouteQueue(e) \/ Requeue(e)
  <2>1. /\ UNCHANGED <<session, turns, dropped>> /\ EQ!AppendEventQueue(e)
        /\ \/ thread[p].at = "append" /\ Pass(p, "mark")
           \/ thread[p].at = "requeue" /\ Goto(p, "rollback")
    BY <1>2 DEF RouteQueue, Requeue, p, At
  <2>2. SameWork /\ TurnsKept /\ QueueGrows
    BY <1>e, <2>1, AppendGrows, TurnsStay DEF SameWork, Early
  <2>3. CASE thread[p].at = "append" /\ Pass(p, "mark")
    <3>1. thread'[p].at = "mark" /\ Others({p})
      BY <1>p, <2>3, Moving DEF Moved
    <3>2. QED
      BY <1>p, <1>c, <2>1, <2>2, <2>3, <3>1, PlainRows DEF Emptyhanded
  <2>4. CASE thread[p].at = "requeue" /\ Goto(p, "rollback")
    <3>1. thread'[p].at = "rollback" /\ Others({p})
      BY <1>p, <2>4, Moving DEF Moved
    <3>2. CarriesOn(thread[p], thread'[p])
      BY <2>4, <3>1, PlainPlaces DEF CarriesOn
    <3>3. QED
      BY <1>p, <2>1, <2>2, <3>1, <3>2, CarryingRows
  <2>5. QED
    BY <2>1, <2>3, <2>4
<1>3. CASE RouteActive(e) \/ Answer(e)
  <2>1. UNCHANGED <<queue, dropped>> /\ thread[p].at \in {"active", "answer"}
    BY <1>3 DEF RouteActive, Answer, p, At
  <2>2. CASE UNCHANGED <<session, turns>> /\ (Keep(p, "race") \/ Pass(p, "mark"))
    <3>1. thread'[p].at \in {"race", "mark"} /\ Others({p})
      BY <1>p, <2>2, Moving DEF Moved
    <3>2. SameWork /\ TurnsKept /\ QueueGrows
      BY <2>1, <2>2, TurnsStay, QueueStays DEF SameWork
    <3>3. QED
      BY <1>p, <1>c, <2>1, <3>1, <3>2, PlainRows DEF Emptyhanded
  <2>3. CASE ~(UNCHANGED <<session, turns>> /\ (Keep(p, "race") \/ Pass(p, "mark")))
    <3>0. PICK new : new = session'
      OBVIOUS
    <3> DEFINE r == [Off EXCEPT !.at = "send", !.turn = NextTurn, !.pane = session.pane]
               a == [Off EXCEPT !.at = "answer_send", !.turn = NextTurn, !.snap = new]
    <3>1. /\ session' = Activate(session, NextTurn, NoRow) /\ NewTurn(e)
          /\ Become(p, r) \/ Become(p, a)
          /\ session.status \in {"idle", "waiting"}
      BY <1>3, <2>3, <3>0 DEF RouteActive, Answer, Move, CanMove, p
    <3>2. r.at = "send" /\ a.at = "answer_send"
      BY DEF Off
    <3> HIDE DEF r, a
    <3>3. PICK x : x.at \in {"send", "answer_send"} /\ Become(p, x)
      BY <3>1, <3>2
    <3>4. Load(x) = NoRow /\ Sending(x) /\ ~Closing(x)
      BY <3>3, PlainPlaces
    <3>5. Load(thread[p]) = NoRow
      BY <2>1, PlainPlaces DEF Emptyhanded
    <3>6. \A n \in Processes \ {p} : ~Drives(thread[n])
      BY <3>1, NobodyDrives
    <3>7. session.status # "busy" /\ UNCHANGED <<queue, dropped>>
      BY <2>1, <3>1
    <3>8. QED
      BY <1>p, <3>1, <3>3, <3>4, <3>5, <3>6, <3>7, TakesRow
  <2>4. QED
    BY <2>2, <2>3
<1>4. CASE SendActive(e) \/ SendAnswer(e)
  <2>1. /\ UNCHANGED <<queue, session, dropped>>
        /\ thread[p].at \in {"send", "answer_send"}
        /\ \/ Pass(p, "mark") \/ Keep(p, "answer_save")
           \/ Goto(p, "requeue") \/ Goto(p, "answer_undo") \/ UNCHANGED thread
        /\ \/ UNCHANGED turns
           \/ \E t : turns' = Opened(turns, t)
           \/ \E t, a : turns' = Completed(Opened(turns, t), t, a)
    BY <1>4, Zenon DEF SendActive, SendAnswer, Send, SendsAgain, SendFailsAndCloses, p, At
  <2>2. SameWork /\ TurnsKept /\ QueueGrows
    BY <2>1, QueueStays, TurnsStay DEF SameWork
  <2>3. Sending(thread[p]) /\ Load(thread[p]) = NoRow /\ ~Closing(thread[p])
    BY <2>1, PlainPlaces
  <2>4. PICK where \in {"mark", "answer_save", "requeue", "answer_undo", "send", "answer_send"} :
           thread'[p].at = where /\ Others({p})
    BY <1>p, <2>1, Moving DEF Moved, Others
  <2>5. CASE where \in {"mark", "answer_save"}
    BY <1>p, <2>1, <2>2, <2>3, <2>4, <2>5, PlainRows DEF Emptyhanded
  <2>6. CASE where \in {"requeue", "answer_undo", "send", "answer_send"}
    <3>1. CarriesOn(thread[p], thread'[p])
      BY <2>3, <2>4, <2>6, PlainPlaces DEF CarriesOn
    <3>2. QED
      BY <1>p, <2>1, <2>2, <2>4, <3>1, CarryingRows
  <2>7. QED
    BY <2>5, <2>6
<1>5. CASE Rollback(e) \/ AnswerUndo(e)
  <2>1. /\ UNCHANGED <<queue, turns, dropped>> /\ Pass(p, "mark")
        /\ thread[p].at \in {"rollback", "answer_undo"}
    BY <1>5 DEF Rollback, AnswerUndo, p, At
  <2>2. Sending(thread[p]) /\ Load(thread[p]) = NoRow
    BY <2>1, PlainPlaces
  <2>3. session.status = "busy" /\ \A n \in Processes \ {p} : ~Drives(thread[n])
    BY <1>p, <2>2, DrivesAlone DEF Drives, Suits
  <2>4. \E x \in {"idle", "waiting"} : session' = Clear(session, x)
    BY <1>5, <2>3 DEF Rollback, AnswerUndo, ReleaseBusy, Move, CanMove, Allowed
  <2>5. session'.row = NoRow
    BY <1>s, <2>4 DEF Clear, Known
  <2>6. thread'[p].at = "mark" /\ Others({p})
    BY <1>p, <2>1, Moving DEF Moved
  <2>7. Load(thread'[p]) = Load(thread[p]) /\ ~Sending(thread'[p])
    BY <2>2, <2>6, PlainPlaces DEF Emptyhanded
  <2>8. QED
    BY <1>p, <2>1, <2>2, <2>3, <2>5, <2>6, <2>7, RowsRelease
<1>6. CASE RecoverSession(e)
  <2>1. UNCHANGED <<queue, turns, dropped>> /\ thread[p].at = "recover"
    BY <1>6 DEF RecoverSession, p, At
  <2>2. CASE Pass(p, "mark") /\ UNCHANGED session
    <3>1. thread'[p].at = "mark" /\ Others({p})
      BY <1>p, <2>2, Moving DEF Moved
    <3>2. SameWork /\ TurnsKept /\ QueueGrows
      BY <2>1, <2>2, TurnsStay, QueueStays DEF SameWork
    <3>3. QED
      BY <1>p, <1>c, <2>1, <3>1, <3>2, PlainRows DEF Emptyhanded
  <2>3. CASE ~(Pass(p, "mark") /\ UNCHANGED session)
    <3> DEFINE s == [Clear(session, "starting") EXCEPT !.why = "none", !.pane = NoPane]
               r == [Off EXCEPT !.at = "mark"]
               n == [Off EXCEPT !.at = "launch", !.snap = s]
    <3>1. /\ Move({"suspended", "killed"}, s)
          /\ thread' = [thread EXCEPT ![p] = r, ![Launch(e)] = n]
      BY <1>6, <2>3 DEF RecoverSession, Move, p
    <3>2. /\ s.row = NoRow /\ s.turn = NoTurn
          /\ r.at = "mark" /\ n.at = "launch" /\ n.row = NoRow
      BY <1>s DEF Clear, Known, Off
    <3> HIDE DEF s, r, n
    <3>3. session' = s /\ session.status \in {"suspended", "killed"}
      BY <3>1 DEF Move, CanMove
    <3>4. SameWork
      BY <3>2, <3>3 DEF SameWork, OneDriver, AtRest
    <3>5. thread'[p] = r /\ thread'[Launch(e)] = n /\ Others({p, Launch(e)})
      BY <1>p, <3>1 DEF Others, IInv, ThreadsOK
    <3>6. Load(n) = NoRow /\ ~Sending(n) /\ ~Closing(n)
      BY <3>2 DEF Load, Sending, Closing, Failing
    <3>7. Load(thread[Launch(e)]) = NoRow
      BY <1>p, <1>e, <2>1, LoadFacts DEF RowsHeld, LoadsFit, RowsOn, Early
    <3>8. LaysDown(thread[Launch(e)], thread'[Launch(e)])
      BY <3>5, <3>6, <3>7 DEF LaysDown
    <3>9. LaysDown(thread[p], thread'[p])
      BY <2>1, <3>2, <3>5, PlainPlaces DEF LaysDown, Emptyhanded
    <3>10. \A m \in {p, Launch(e)} : m \in Processes =>
                CarriesOn(thread[m], thread'[m]) \/ LaysDown(thread[m], thread'[m])
      BY <3>8, <3>9
    <3>11. TurnsKept /\ QueueGrows
      BY <2>1, TurnsStay, QueueStays
    <3>12. QED
      BY <2>1, <3>4, <3>5, <3>10, <3>11, RowsWalk DEF QueueGrows
  <2>4. QED
    BY <2>2, <2>3
<1>7. CASE SaveAnswered(e)
  <2>1. Save(Snap(p), Snap(p)) /\ UNCHANGED <<queue, turns, dropped>> /\ Pass(p, "mark")
        /\ thread[p].at = "answer_save"
    BY <1>7 DEF SaveAnswered, p, At
  <2>2. SameWork
    BY <2>1, FreshSave DEF SameWork
  <2>3. TurnsKept /\ QueueGrows
    BY <2>1, TurnsStay, QueueStays
  <2>4. thread'[p].at = "mark" /\ Others({p})
    BY <1>p, <2>1, Moving DEF Moved
  <2>5. QED
    BY <1>p, <1>c, <2>1, <2>2, <2>3, <2>4, PlainRows DEF Emptyhanded
<1>8. QED
  BY <1>1, <1>2, <1>3, <1>4, <1>5, <1>6, <1>7 DEF RouteStep, AnswerStep

LEMMA ReplyRows ==
    ASSUME IInv, OneDriver, RowsHeld, stale' = {}, NEW t \in Turns, ReplyStep(t)
    PROVE  RowsHeld'
<1> DEFINE p == Reply(t)
<1>p. p \in Processes
  BY ProcessNames
<1>c. thread[p].at \in Emptyhanded => thread[p].at \notin Carrying
  BY DEF Emptyhanded, Carrying, Underway, GivingUp, Failing, Draining
<1> HIDE DEF p
<1>1. UNCHANGED <<queue, dropped>> /\ thread[p].at \in Emptyhanded /\ TurnsKept
  <2>1. UNCHANGED <<queue, dropped>> /\ thread[p].at \in Emptyhanded
        /\ (UNCHANGED turns \/ \E a : turns' = Completed(turns, t, a))
    BY DEF ReplyStep, BeginReply, PostReply, RecordReply, CloseAttempt, CheckTurn, SaveIdentity,
           MarkDone, EQ!UpdateEvent, p, At, Emptyhanded
  <2>2. QED
    BY <2>1, TurnsStay
<1>2. SameWork
  <2>1. CASE UNCHANGED session
    BY <2>1 DEF SameWork
  <2>2. CASE ~UNCHANGED session
    <3>1. Save(Snap(p), Snap(p))
      BY <2>2 DEF ReplyStep, BeginReply, PostReply, RecordReply, CloseAttempt, CheckTurn,
                  SaveIdentity, MarkDone, p
    <3>2. QED
      BY <3>1, FreshSave DEF SameWork
  <2>3. QED
    BY <2>1, <2>2
<1>3. QueueGrows
  BY <1>1, QueueStays
<1>4. CASE UNCHANGED thread
  <2>1. Others({})
    BY <1>4 DEF Others
  <2>2. QED
    BY <1>1, <1>2, <1>3, <2>1, RowsWalk DEF QueueGrows
<1>5. CASE ~UNCHANGED thread
  <2>1. PICK where \in Emptyhanded :
           \/ \E s : Enter(p, where, s)
           \/ Goto(p, where) \/ (where = "off" /\ End(p))
    BY <1>5 DEF ReplyStep, BeginReply, PostReply, RecordReply, CloseAttempt, CheckTurn,
                SaveIdentity, MarkDone, p, Emptyhanded
  <2>2. thread'[p].at = where /\ Others({p})
    BY <1>p, <2>1, Moving DEF Moved
  <2>3. QED
    BY <1>p, <1>c, <1>1, <1>2, <1>3, <2>2, PlainRows
<1>6. QED
  BY <1>4, <1>5

LEMMA CompleteRows ==
    ASSUME IInv, OneDriver, RowsHeld, stale' = {}, NEW t \in Turns, CompleteStep(t)
    PROVE  RowsHeld'
<1> DEFINE p == Reply(t)
<1>p. p \in Processes /\ thread[p] \in Hand
  BY ProcessNames, HandFacts
<1>l. \A e \in Events : p # Launch(e)
  BY ThreadsApart
<1>s. session \in Known
  BY DEF IInv
<1>h. thread[p].at \in RowInHand => thread[p].row \in DOMAIN queue /\ thread[p].row # NoRow
  BY <1>p, HandFacts, TablesFacts DEF Holds, IInv, NoRow
<1> HIDE DEF p
<1>1. CASE BeginComplete(t)
  <2>1. thread[p].at = "finish" /\ UNCHANGED <<session, turns, dropped>>
    BY <1>1 DEF BeginComplete, p, At
  <2>2. Load(thread[p]) = NoRow /\ ~Sending(thread[p])
    BY <2>1, PlainPlaces DEF Emptyhanded
  <2>3. Drives(thread[p]) /\ session.status = "busy"
    BY <1>p, <2>1 DEF Drives, Answering, OneDriver, Suits
  <2>4. CASE End(p) /\ UNCHANGED queue
    <3>1. thread'[p].at = "off" /\ Others({p})
      BY <1>p, <2>4, Moving DEF Moved
    <3>2. SameWork /\ TurnsKept /\ QueueGrows
      BY <2>1, <2>4, TurnsStay, QueueStays DEF SameWork
    <3>3. thread[p].at \notin Carrying
      BY <2>1 DEF Carrying, Underway, GivingUp, Failing, Draining
    <3>4. QED
      BY <1>p, <2>1, <3>1, <3>2, <3>3, PlainRows DEF Emptyhanded
  <2>5. CASE ~(End(p) /\ UNCHANGED queue)
    <3>1. Consume(session.row) /\ \E to \in {"rest", "wait"} : Enter(p, to, session)
      BY <1>1, <2>3, <2>5 DEF BeginComplete, p
    <3>2. thread'[p].at \in {"rest", "wait"} /\ Others({p})
      BY <1>p, <3>1, Moving DEF Moved
    <3>3. Load(thread'[p]) = NoRow /\ ~Sending(thread'[p])
      BY <3>2, PlainPlaces DEF Closing
    <3>4. /\ DOMAIN queue' = DOMAIN queue /\ \A x \in DOMAIN queue : x # session.row => RowKept(x)
          /\ session.row # NoRow => /\ queue'[session.row].item = queue[session.row].item
                                    /\ queue'[session.row].status = "done"
      <4>1. CASE UNCHANGED queue /\ (session.row # NoRow => queue[session.row].status = "done")
        BY <4>1 DEF RowKept
      <4>2. CASE session.row # NoRow /\ EQ!ConsumeEventQueueRow(session.row)
        <5>1. EQ!SetRows({session.row}, "done") /\ session.row \in DOMAIN queue
          BY <4>2, LoadFacts DEF EQ!ConsumeEventQueueRow
        <5>2. QED
          BY <5>1, RowsSet DEF RowKept
      <4>3. QED
        BY <3>1, <4>1, <4>2 DEF Consume, Claimed
    <3>5. SameWork
      BY <2>1 DEF SameWork
    <3>6. QED
      BY <1>p, <2>1, <2>2, <2>3, <3>2, <3>3, <3>4, <3>5, RowsConsume
  <2>6. QED
    BY <2>4, <2>5
<1>2. CASE CompleteWait(t) \/ CompleteTurn(t) \/ DrainUndo(t)
  <2>1. UNCHANGED <<queue, turns, dropped>> /\ thread[p].at \in {"wait", "rest", "drain_undo"}
    BY <1>2 DEF CompleteWait, CompleteTurn, DrainUndo, p, At
  <2>2. Drives(thread[p]) /\ session.status = "busy" /\ (Sending(thread[p]) \/ Closing(thread[p]))
    BY <1>p, <2>1 DEF Drives, Answering, Sending, Closing, OneDriver, Suits
  <2>3. \A n \in Processes \ {p} : ~Drives(thread[n])
    BY <1>p, <2>2, DrivesAlone
  <2>4. PICK q : q = QueueHead
    OBVIOUS
  <2> DEFINE r == [Off EXCEPT !.at = "drain", !.row = q]
  <2>5. /\ thread[p].at # "drain_undo" => Pass(p, "verdict") \/ End(p) \/ Become(p, r)
        /\ thread[p].at = "drain_undo" => Goto(p, "drain_retry")
    BY <1>2, <2>4 DEF CompleteWait, CompleteTurn, DrainUndo, p, At
  <2>6. r.at = "drain"
    BY DEF Off
  <2> HIDE DEF r
  <2>7. thread[p].at = "drain_undo" => Moved(p, "drain_retry", Absent, thread[p])
    BY <1>p, <2>5, Moving
  <2>8. thread[p].at # "drain_undo" => thread'[p].at \in {"verdict", "off", "drain"} /\ Others({p})
    <3>1. Pass(p, "verdict") => Moved(p, "verdict", Absent, Off)
      BY <1>p, Moving
    <3>2. End(p) => Moved(p, "off", Absent, Off)
      BY <1>p, Moving
    <3>3. Become(p, r) => thread'[p].at = "drain" /\ Others({p})
      BY <1>p, <2>6, BecomeMoves
    <3>4. QED
      BY <2>5, <3>1, <3>2, <3>3 DEF Moved
  <2>9. Load(thread'[p]) = Load(thread[p]) /\ ~Sending(thread'[p]) /\ Others({p})
    <3>1. CASE thread[p].at = "drain_undo"
      BY <2>7, <3>1 DEF Moved, Load, Carrying, Draining, Sending, Failing
    <3>2. CASE thread[p].at # "drain_undo"
      BY <2>1, <2>8, <3>2, PlainPlaces DEF Emptyhanded, Closing
    <3>3. QED
      BY <3>1, <3>2
  <2>10. \/ \E x \in {"idle", "waiting"} : session' = Clear(session, x)
         \/ UNCHANGED session /\ thread[p].at # "drain_undo"
    <3>1. ASSUME DrainUndo(t)
          PROVE  session' = Clear(session, "idle")
      <4>1. Sending(thread[p])
        BY <3>1 DEF Sending, DrainUndo, p, At
      <4>2. QED
        BY <1>p, <3>1, <4>1, ReleaseLeaves DEF DrainUndo
    <3>2. QED
      BY <1>2, <3>1 DEF CompleteWait, CompleteTurn, Move, p, At
  <2>11. CASE \E x \in {"idle", "waiting"} : session' = Clear(session, x)
    <3>1. session'.row = NoRow
      BY <1>s, <2>11 DEF Clear, Known
    <3>2. QED
      BY <1>p, <2>1, <2>2, <2>3, <2>9, <3>1, RowsRelease
  <2>12. CASE UNCHANGED session /\ thread[p].at # "drain_undo"
    <3>1. SameWork /\ TurnsKept /\ QueueGrows
      BY <2>1, <2>12, TurnsStay, QueueStays DEF SameWork
    <3>2. thread[p].at \notin Carrying
      BY <2>1, <2>12 DEF Carrying, Underway, GivingUp, Failing, Draining
    <3>3. QED
      BY <1>p, <2>1, <2>8, <2>12, <3>1, <3>2, PlainRows DEF Emptyhanded
  <2>13. QED
    BY <2>10, <2>11, <2>12
<1>3. CASE DrainClaim(t)
  <2>1. thread[p].at = "drain" /\ UNCHANGED <<session, turns, dropped>>
    BY <1>3 DEF DrainClaim, p, At
  <2>2. CASE Pass(p, "verdict") /\ UNCHANGED queue
    <3>1. thread'[p].at = "verdict" /\ Others({p})
      BY <1>p, <2>2, Moving DEF Moved
    <3>2. SameWork /\ TurnsKept /\ QueueGrows
      BY <2>1, <2>2, TurnsStay, QueueStays DEF SameWork
    <3>3. thread[p].at \notin Carrying
      BY <2>1 DEF Carrying, Underway, GivingUp, Failing, Draining
    <3>4. QED
      BY <1>p, <2>1, <3>1, <3>2, <3>3, PlainRows DEF Emptyhanded
  <2>3. CASE ~(Pass(p, "verdict") /\ UNCHANGED queue)
    <3>0. PICK q : q = thread[p].row
      OBVIOUS
    <3>1. EQ!ClaimEventQueueHead("conversation", q, queue[q].item) /\ Goto(p, "drain_busy")
      BY <1>3, <2>3, <3>0 DEF DrainClaim, p
    <3>2. /\ q \in DOMAIN queue /\ queue[q].status \in EQ!Visible /\ q # NoRow
          /\ EQ!SetRows({q}, "dispatching")
      BY <1>h, <2>1, <3>0, <3>1 DEF RowInHand, EQ!ClaimEventQueueHead, EQ!IsHead, EQ!VisibleRows
    <3>3. DOMAIN queue' = DOMAIN queue /\ queue'[q].status = "dispatching"
          /\ \A x \in DOMAIN queue : x # q => RowKept(x)
      BY <3>2, RowsSet DEF RowKept
    <3>4. thread'[p].at = "drain_busy" /\ thread'[p].row = q /\ Others({p})
      BY <1>p, <3>0, <3>1, Moving DEF Moved
    <3>5. Load(thread[p]) = NoRow /\ Load(thread'[p]) = q
          /\ ~Sending(thread'[p]) /\ ~Closing(thread'[p])
      BY <2>1, <3>4 DEF Load, Carrying, Draining, Underway, GivingUp, Failing, Sending, Closing
    <3>6. SameWork
      BY <2>1 DEF SameWork
    <3>7. \A n \in {p} : n # p => CarriesOn(thread[n], thread'[n])
      OBVIOUS
    <3>8. QED
      BY <1>p, <1>l, <2>1, <3>2, <3>3, <3>4, <3>5, <3>6, <3>7, RowsClaim
  <2>4. QED
    BY <2>2, <2>3
<1>4. CASE DrainBusy(t)
  <2>0. PICK q : q = thread[p].row
    OBVIOUS
  <2>1. thread[p].at = "drain_busy" /\ UNCHANGED dropped
    BY <1>4 DEF DrainBusy, p, At
  <2>2. Load(thread[p]) = q /\ q # NoRow /\ q \in DOMAIN queue /\ ~Sending(thread[p])
    BY <1>h, <2>0, <2>1 DEF Load, Carrying, Draining, RowInHand, Sending, Failing
  <2>3. CASE EQ!MarkEventQueueRetryable(q) /\ Pass(p, "verdict") /\ UNCHANGED <<session, turns>>
    <3>1. thread'[p].at = "verdict" /\ Others({p})
      BY <1>p, <2>3, Moving DEF Moved
    <3>2. Load(thread'[p]) = NoRow /\ ~Sending(thread'[p]) /\ ~Closing(thread'[p])
      BY <3>1, PlainPlaces DEF Emptyhanded
    <3>3. DOMAIN queue' = DOMAIN queue /\ queue'[q].status # "dispatching"
          /\ \A x \in DOMAIN queue : x # q => RowKept(x)
      BY <2>2, <2>3, RowsSet DEF RowKept, EQ!MarkEventQueueRetryable
    <3>4. SameWork /\ TurnsKept
      BY <2>3, TurnsStay DEF SameWork
    <3>5. QED
      BY <1>p, <2>1, <2>2, <3>1, <3>2, <3>3, <3>4, RowsReturn
  <2>4. CASE ~(EQ!MarkEventQueueRetryable(q) /\ Pass(p, "verdict") /\ UNCHANGED <<session, turns>>)
    <3> DEFINE r == [thread[p] EXCEPT !.at = "drain_send", !.turn = NextTurn,
                                      !.pane = session.pane]
    <3>1. /\ session' = Activate(session, NextTurn, q) /\ session.status = "idle"
          /\ NewTurn(queue[q].item) /\ Become(p, r) /\ UNCHANGED queue
      BY <1>4, <2>0, <2>4 DEF DrainBusy, Move, CanMove, p
    <3>2. r.at = "drain_send" /\ r.row = q
      BY <1>p, <2>0 DEF Hand
    <3> HIDE DEF r
    <3>3. Load(r) = q /\ Sending(r) /\ ~Closing(r)
      BY <3>2 DEF Load, Carrying, Draining, Sending, Closing
    <3>4. PICK e \in Events : e = queue[q].item
      BY <2>2, TablesFacts DEF IInv
    <3>5. \A n \in Processes \ {p} : ~Drives(thread[n])
      BY <3>1, NobodyDrives
    <3>6. NewTurn(e) /\ session.status # "busy" /\ UNCHANGED <<queue, dropped>>
      BY <2>1, <3>1, <3>4
    <3>7. QED
      BY <1>p, <2>2, <3>1, <3>3, <3>4, <3>5, <3>6, TakesRow
  <2>5. QED
    BY <2>3, <2>4
<1>5. CASE DrainSend(t)
  <2>1. /\ UNCHANGED <<queue, session, dropped>> /\ thread[p].at = "drain_send"
        /\ Pass(p, "verdict") \/ Goto(p, "drain_undo") \/ UNCHANGED thread
        /\ \/ \E u : turns' = Opened(turns, u)
           \/ \E u, a : turns' = Completed(Opened(turns, u), u, a)
    BY <1>5, Zenon DEF DrainSend, Send, SendsAgain, SendFailsAndCloses, p, At
  <2>2. SameWork /\ TurnsKept /\ QueueGrows
    BY <2>1, QueueStays, TurnsStay DEF SameWork
  <2>3. Sending(thread[p])
    BY <2>1 DEF Sending
  <2>4. CASE Pass(p, "verdict")
    <3>1. thread'[p].at = "verdict" /\ Others({p})
      BY <1>p, <2>4, Moving DEF Moved
    <3>2. QED
      BY <1>p, <2>1, <2>2, <2>3, <3>1, PlainRows DEF Emptyhanded
  <2>5. CASE Goto(p, "drain_undo")
    <3>1. Moved(p, "drain_undo", Absent, thread[p])
      BY <1>p, <2>5, Moving
    <3>2. CarriesOn(thread[p], thread'[p])
      BY <2>1, <3>1 DEF CarriesOn, Moved, Load, Sending, Closing, Carrying, Draining
    <3>3. QED
      BY <1>p, <2>1, <2>2, <3>1, <3>2, CarryingRows DEF Moved
  <2>6. CASE UNCHANGED thread
    BY <1>p, <2>1, <2>2, <2>6, CarryingRows DEF CarriesOn, Others
  <2>7. QED
    BY <2>1, <2>4, <2>5, <2>6
<1>6. CASE DrainRetry(t)
  <2>0. PICK q : q = thread[p].row
    OBVIOUS
  <2>1. thread[p].at = "drain_retry" /\ UNCHANGED <<session, turns, dropped>> /\ Pass(p, "verdict")
    BY <1>6 DEF DrainRetry, p, At
  <2>2. Load(thread[p]) = q /\ q # NoRow /\ q \in DOMAIN queue /\ ~Sending(thread[p])
    BY <1>h, <2>0, <2>1 DEF Load, Carrying, Draining, RowInHand, Sending, Failing
  <2>3. queue[q].status = "dispatching"
    BY <1>p, <2>2 DEF RowsHeld, LoadsFit
  <2>4. EQ!MarkEventQueueRetryable(q)
    BY <1>6, <2>0, <2>3 DEF DrainRetry, p, EQ!Settled
  <2>5. thread'[p].at = "verdict" /\ Others({p})
    BY <1>p, <2>1, Moving DEF Moved
  <2>6. Load(thread'[p]) = NoRow /\ ~Sending(thread'[p]) /\ ~Closing(thread'[p])
    BY <2>5, PlainPlaces DEF Emptyhanded
  <2>7. DOMAIN queue' = DOMAIN queue /\ queue'[q].status # "dispatching"
        /\ \A x \in DOMAIN queue : x # q => RowKept(x)
    BY <2>2, <2>4, RowsSet DEF RowKept, EQ!MarkEventQueueRetryable
  <2>8. SameWork /\ TurnsKept
    BY <2>1, TurnsStay DEF SameWork
  <2>9. QED
    BY <1>p, <2>1, <2>2, <2>5, <2>6, <2>7, <2>8, RowsReturn
<1>7. QED
  BY <1>1, <1>2, <1>3, <1>4, <1>5, <1>6 DEF CompleteStep

\* A launch that has no turn yet goes on with its row.
LEMMA LaunchCarries ==
    ASSUME NEW r, NEW x, r.turn = NoTurn, x.turn = NoTurn, x.row = r.row,
           r.at \in OnTheWay \cup GivingUp \cup Failing \cup {"start"},
           x.at \in OnTheWay \cup GivingUp \cup Failing \cup {"start"}
    PROVE  CarriesOn(r, x)
<1>1. ASSUME NEW z, z.at \in OnTheWay \cup GivingUp \cup Failing \cup {"start"}, z.turn = NoTurn
      PROVE  z.at \in Carrying /\ ~Sending(z) /\ ~Closing(z)
  BY <1>1 DEF Carrying, Underway, OnTheWay, GivingUp, Failing, Sending, Closing
<1>2. QED
  BY <1>1 DEF CarriesOn, Load

LEMMA LaunchRows ==
    ASSUME IInv, OneDriver, RowsHeld, stale' = {}, NEW e \in Events, LaunchStep(e)
    PROVE  RowsHeld'
<1> DEFINE p == Launch(e)
<1>p. p \in Processes /\ thread[p] \in Hand
  BY ProcessNames, HandFacts
<1>s. session \in Known /\ Snap(p) \in Known
  BY <1>p, HandFacts DEF IInv
<1>t. thread[p].at \in OnTheWay \cup GivingUp \cup {"start"} => thread[p].turn = NoTurn
  BY <1>p DEF OneDriver, Neat
<1>b. thread[p].at \in OnTheWay => session.status = "starting" /\ session.row = NoRow
  BY <1>p DEF OneDriver, Suits, Starting, AtRest
<1> HIDE DEF p
<1>1. CASE StartWorker(e)
  <2>1. /\ thread[p].at = "start" /\ thread[p].turn = NoTurn /\ UNCHANGED <<queue, turns>>
        /\ dropped \subseteq dropped'
    BY <1>1, <1>t DEF StartWorker, p, At
  <2>2. SameWork
    <3>1. CASE session' = [session EXCEPT !.status = "starting"]
      BY <1>s, <3>1 DEF SameWork, Known
    <3>2. CASE session' = session
      BY <3>2 DEF SameWork
    <3>3. QED
      BY <1>1, <3>1, <3>2 DEF StartWorker, Move
  <2>3. TurnsKept /\ QueueGrows
    BY <2>1, TurnsStay, QueueStays
  <2>4. CASE Goto(p, "launch")
    <3>1. Moved(p, "launch", Absent, thread[p])
      BY <1>p, <2>4, Moving
    <3>2. CarriesOn(thread[p], thread'[p])
      BY <2>1, <3>1, LaunchCarries DEF Moved, OnTheWay
    <3>3. \A n \in {p} : n \in Processes =>
                CarriesOn(thread[n], thread'[n]) \/ LaysDown(thread[n], thread'[n])
      BY <3>2
    <3>4. QED
      BY <2>1, <2>2, <2>3, <3>1, <3>3, RowsWalk DEF Moved, QueueGrows
  <2>5. CASE End(p) /\ dropped' = dropped \cup ({thread[p].row} \ {NoRow})
    <3>1. Moved(p, "off", Absent, Off)
      BY <1>p, <2>5, Moving
    <3>2. LaysDown(thread[p], thread'[p])
      BY <2>1, <2>5, <3>1, PlainPlaces DEF Moved, LaysDown, Emptyhanded, Load
    <3>3. \A n \in {p} : n \in Processes =>
                CarriesOn(thread[n], thread'[n]) \/ LaysDown(thread[n], thread'[n])
      BY <3>2
    <3>4. QED
      BY <2>1, <2>2, <2>3, <3>1, <3>3, RowsWalk DEF Moved, QueueGrows
  <2>6. QED
    BY <1>1, <2>4, <2>5 DEF StartWorker, p
<1>2. CASE BeginLaunch(e) \/ PrepareWindow(e) \/ WaitForReady(e)
  <2>1. /\ UNCHANGED <<queue, session, turns, dropped>>
        /\ thread[p].at \in {"launch", "window", "ready"}
    BY <1>2 DEF BeginLaunch, PrepareWindow, WaitForReady, p, At
  <2>2. session.status = "starting" /\ thread[p].turn = NoTurn
    BY <1>b, <1>t, <2>1 DEF OnTheWay
  <2>3. PICK where \in {"window", "fail", "load", "dispatch", "timeout"} : Goto(p, where)
    BY <1>2, <2>2 DEF BeginLaunch, PrepareWindow, WaitForReady, p
  <2>4. Moved(p, where, Absent, thread[p])
    BY <1>p, <2>3, Moving
  <2>5. CarriesOn(thread[p], thread'[p])
    BY <2>1, <2>2, <2>4, LaunchCarries DEF Moved, OnTheWay, GivingUp, Failing
  <2>6. SameWork /\ TurnsKept /\ QueueGrows
    BY <2>1, TurnsStay, QueueStays DEF SameWork
  <2>7. QED
    BY <1>p, <2>1, <2>4, <2>5, <2>6, CarryingRows DEF Moved
<1>3. CASE LoadForUpdate(e)
  <2> DEFINE after == [load |-> "prepare", fail_load |-> "fail_error",
                       suspend_load |-> "fail_suspend"]
  <2>1. /\ thread[p].at \in {"load", "fail_load", "suspend_load"}
        /\ Enter(p, after[thread[p].at], session) /\ UNCHANGED <<queue, session, turns, dropped>>
    BY <1>3 DEF LoadForUpdate, p
  <2>2. Moved(p, after[thread[p].at], session, thread[p])
    BY <1>p, <2>1, Moving
  <2>3. /\ thread[p].at = "load" => thread'[p].at = "prepare"
        /\ thread[p].at = "fail_load" => thread'[p].at = "fail_error"
        /\ thread[p].at = "suspend_load" => thread'[p].at = "fail_suspend"
        /\ thread'[p].turn = thread[p].turn /\ thread'[p].row = thread[p].row /\ Others({p})
    BY <2>2 DEF Moved
  <2>4. CarriesOn(thread[p], thread'[p])
    BY <2>1, <2>3 DEF CarriesOn, Load, Carrying, Underway, GivingUp, Failing, Sending, Closing
  <2>5. SameWork /\ TurnsKept /\ QueueGrows
    BY <2>1, TurnsStay, QueueStays DEF SameWork
  <2>6. QED
    BY <1>p, <2>1, <2>3, <2>4, <2>5, CarryingRows
<1>4. CASE SaveStarting(e) \/ SavePane(e)
  <2>1. /\ thread[p].at \in {"prepare", "pane"} /\ UNCHANGED <<queue, turns, dropped>>
        /\ Goto(p, "allocate") \/ Goto(p, "ready") \/ LosePane(e)
    BY <1>4 DEF SaveStarting, SavePane, p, At
  <2>2. \/ Save(Snap(p), [Snap(p) EXCEPT !.status = "starting"])
        \/ Save(Snap(p), [Snap(p) EXCEPT !.pane = thread[p].pane])
        \/ session' = session
    BY <1>4 DEF SaveStarting, SavePane, p
  <2>3. SameWork
    BY <1>s, <2>2, FreshSave DEF Known, SameWork
  <2>8. LosePane(e) => LostPane(p)
    BY LosesPane DEF p
  <2>4. /\ thread'[p].at \in {"allocate", "ready", "fail"} /\ Others({p})
        /\ thread'[p].turn = thread[p].turn /\ thread'[p].row = thread[p].row
    BY <1>p, <2>1, <2>8, Moving DEF Moved, LostPane
  <2>5. CarriesOn(thread[p], thread'[p])
    BY <1>t, <2>1, <2>4, LaunchCarries DEF OnTheWay, Failing
  <2>6. TurnsKept /\ QueueGrows
    BY <2>1, TurnsStay, QueueStays
  <2>7. QED
    BY <1>p, <2>1, <2>3, <2>4, <2>5, <2>6, CarryingRows
<1>5. CASE AllocatePane(e)
  <2>1. thread[p].at = "allocate" /\ UNCHANGED <<queue, session, turns, dropped>>
        /\ thread[p].turn = NoTurn
    BY <1>5, <1>t DEF AllocatePane, p, At, OnTheWay
  <2>2. PICK n : n = NewPane
    OBVIOUS
  <2> DEFINE r == [thread[p] EXCEPT !.at = "pane", !.snap = session, !.pane = n]
  <2>3. Become(p, r) \/ Goto(p, "fail")
    BY <1>5, <2>2 DEF AllocatePane, p
  <2>4. r.at = "pane" /\ r.turn = NoTurn /\ r.row = thread[p].row
    BY <1>p, <2>1 DEF Hand
  <2> HIDE DEF r
  <2>5. Goto(p, "fail") => Moved(p, "fail", Absent, thread[p])
    BY <1>p, Moving
  <2>6. Become(p, r) => thread'[p] = r /\ Others({p})
    BY <1>p, BecomeMoves
  <2>7. /\ thread'[p].at \in {"pane", "fail"} /\ thread'[p].turn = NoTurn
        /\ thread'[p].row = thread[p].row /\ Others({p})
    BY <2>1, <2>3, <2>4, <2>5, <2>6 DEF Moved
  <2>8. CarriesOn(thread[p], thread'[p])
    BY <2>1, <2>7, LaunchCarries DEF OnTheWay, Failing
  <2>9. SameWork /\ TurnsKept /\ QueueGrows
    BY <2>1, TurnsStay, QueueStays DEF SameWork
  <2>10. QED
    BY <1>p, <2>1, <2>7, <2>8, <2>9, CarryingRows
<1>6. CASE DispatchFirst(e)
  <2>1. thread[p].at = "dispatch" /\ UNCHANGED <<queue, dropped>>
        /\ session.status = "starting"
    BY <1>6, <1>b DEF DispatchFirst, p, At, OnTheWay
  <2>2. CanMove({"starting"}, "busy")
    BY <2>1 DEF CanMove, Allowed
  <2>3. PICK q : q = thread[p].row
    OBVIOUS
  <2> DEFINE r == [thread[p] EXCEPT !.at = "first", !.turn = NextTurn]
  <2>4. session' = Activate(session, NextTurn, q) /\ NewTurn(e) /\ Become(p, r)
    BY <1>6, <2>2, <2>3 DEF DispatchFirst, p, Move
  <2>5. r.at = "first" /\ r.row = q
    BY <1>p, <2>3 DEF Hand
  <2> HIDE DEF r
  <2>6. Load(r) = q /\ Sending(r) /\ ~Closing(r) /\ Load(thread[p]) = q
    BY <2>1, <2>3, <2>5 DEF Load, Sending, Closing, Carrying, Underway
  <2>7. q # NoRow => queue[q].item = e
    BY <1>p, <2>6 DEF RowsHeld, LoadsFit, p
  <2>8. \A n \in Processes \ {p} : ~Drives(thread[n])
    BY <1>p, <2>1, DrivesAlone DEF Drives, Starting, OnTheWay
  <2>9. session.status # "busy" /\ UNCHANGED <<queue, dropped>>
    BY <2>1
  <2>10. QED
    BY <1>p, <2>4, <2>6, <2>7, <2>8, <2>9, TakesRow
<1>7. CASE SendFirst(e)
  <2>1. thread[p].at = "first" /\ UNCHANGED <<queue, session, dropped>> /\ thread[p].turn # NoTurn
        /\ (End(p) \/ Goto(p, "fail")) /\ (\E t : turns' = Opened(turns, t))
    BY <1>7, <1>p, HandFacts, Zenon DEF SendFirst, Send, p, At, Holds, TurnInHand
  <2>2. Sending(thread[p])
    BY <2>1 DEF Sending
  <2>3. SameWork /\ TurnsKept /\ QueueGrows
    BY <2>1, TurnsStay, QueueStays DEF SameWork
  <2>4. CASE End(p)
    <3>1. Moved(p, "off", Absent, Off)
      BY <1>p, <2>4, Moving
    <3>2. QED
      BY <1>p, <2>1, <2>2, <2>3, <3>1, PlainRows DEF Moved, Emptyhanded
  <2>5. CASE Goto(p, "fail")
    <3>1. Moved(p, "fail", Absent, thread[p])
      BY <1>p, <2>5, Moving
    <3>2. CarriesOn(thread[p], thread'[p])
      BY <2>1, <2>2, <3>1
      DEF Moved, CarriesOn, Load, Sending, Closing, Carrying, Underway, Failing
    <3>3. QED
      BY <1>p, <2>1, <2>3, <3>1, <3>2, CarryingRows DEF Moved
  <2>6. QED
    BY <2>1, <2>4, <2>5
<1>8. CASE BeginFail(e)
  <2>1. thread[p].at \in {"fail", "timeout"} /\ UNCHANGED <<queue, session, turns, dropped>>
    BY <1>8 DEF BeginFail, p
  <2>2. session.status \in {"starting", "busy"}
    BY <1>p, <2>1 DEF OneDriver, Suits, Starting, Sending, GivingUp, Failing
  <2>3. PICK n : n = IF Alive(thread[p].pane) THEN NoPane ELSE thread[p].pane
    OBVIOUS
  <2>4. PICK where : where = IF At(p, "fail") THEN "fail_load" ELSE "suspend_load"
    OBVIOUS
  <2> DEFINE r == [thread[p] EXCEPT !.at = where, !.pane = n]
  <2>5. Become(p, r)
    BY <1>8, <2>2, <2>3, <2>4 DEF BeginFail, p
  <2>6. r.at = where /\ r.turn = thread[p].turn /\ r.row = thread[p].row
    BY <1>p DEF Hand
  <2> HIDE DEF r
  <2>7. thread'[p] = r /\ Others({p})
    BY <1>p, <2>5, BecomeMoves
  <2>8. CarriesOn(thread[p], thread'[p])
    <3>1. CASE thread[p].at = "fail"
      BY <2>4, <2>6, <2>7, <3>1 DEF At, CarriesOn, Load, Sending, Closing, Carrying, Failing
    <3>2. CASE thread[p].at = "timeout"
      BY <1>t, <2>4, <2>6, <2>7, <3>2, LaunchCarries DEF At, GivingUp
    <3>3. QED
      BY <2>1, <3>1, <3>2
  <2>9. SameWork /\ TurnsKept /\ QueueGrows
    BY <2>1, TurnsStay, QueueStays DEF SameWork
  <2>10. QED
    BY <1>p, <2>1, <2>7, <2>8, <2>9, CarryingRows
<1>9. CASE SaveFailed(e)
  <2> DEFINE s == [Snap(p) EXCEPT !.pane = thread[p].pane]
  <2>1. /\ thread[p].at \in {"fail_error", "fail_suspend"} /\ UNCHANGED <<queue, turns, dropped>>
        /\ Keep(p, "fail_event")
        /\ \E x \in {Clear(s, "error"), Suspend(s, "other")} : Save(Snap(p), x)
    BY <1>9 DEF SaveFailed, p
  <2>2. PICK x \in {Clear(s, "error"), Suspend(s, "other")} : Save(Snap(p), x)
    BY <2>1
  <2>3. s \in Known
    BY <1>p, <1>s, HandFacts DEF Known
  <2> HIDE DEF s
  <2>4. session' = x
    BY <2>2, FreshSave
  <2>5. session'.row = NoRow
    BY <2>3, <2>4 DEF Clear, Suspend, Known
  <2>6. Moved(p, "fail_event", Snap(p), thread[p])
    BY <1>p, <2>1, Moving
  <2>7. Load(thread'[p]) = Load(thread[p]) /\ ~Sending(thread'[p])
    BY <2>1, <2>6 DEF Moved, Load, Sending, Carrying, GivingUp, Failing
  <2>8. Drives(thread[p]) /\ (Sending(thread[p]) \/ session.row = NoRow)
    BY <1>p, <2>1 DEF Drives, Starting, Sending, GivingUp, Failing, OneDriver, Suits, AtRest
  <2>9. \A n \in Processes \ {p} : ~Drives(thread[n])
    BY <1>p, <2>8, DrivesAlone
  <2>10. QED
    BY <1>p, <2>1, <2>5, <2>6, <2>7, <2>8, <2>9, RowsRelease DEF Moved
<1>10. CASE FailLastEvent(e)
  <2>1. /\ thread[p].at = "fail_event" /\ UNCHANGED <<queue, session, turns, dropped>>
        /\ Goto(p, "fail_row")
    BY <1>10 DEF FailLastEvent, p, At, EQ!UpdateEvent
  <2>2. Moved(p, "fail_row", Absent, thread[p])
    BY <1>p, <2>1, Moving
  <2>3. CarriesOn(thread[p], thread'[p])
    BY <2>1, <2>2 DEF Moved, CarriesOn, Load, Sending, Closing, Carrying, Failing
  <2>4. SameWork /\ TurnsKept /\ QueueGrows
    BY <2>1, TurnsStay, QueueStays DEF SameWork
  <2>5. QED
    BY <1>p, <2>1, <2>2, <2>3, <2>4, CarryingRows DEF Moved
<1>11. CASE FailRow(e)
  <2>0. PICK q : q = thread[p].row
    OBVIOUS
  <2>1. /\ thread[p].at = "fail_row" /\ UNCHANGED <<session, dropped>> /\ End(p)
        /\ UNCHANGED turns \/ \E t, a : turns' = Completed(turns, t, a)
        /\ q # NoRow => EQ!FailEventQueueRow(q)
        /\ q = NoRow => UNCHANGED queue
    BY <1>11, <2>0 DEF FailRow, p, At
  <2>2. Moved(p, "off", Absent, Off)
    BY <1>p, <2>1, Moving
  <2>3. SameWork /\ TurnsKept
    BY <2>1, TurnsStay DEF SameWork
  <2>4. Load(thread[p]) = q /\ ~Sending(thread[p])
    BY <2>0, <2>1 DEF Load, Carrying, Sending, Failing
  <2>5. Load(thread'[p]) = NoRow /\ ~Sending(thread'[p]) /\ ~Closing(thread'[p])
    BY <2>2, PlainPlaces DEF Moved, Emptyhanded
  <2>6. CASE q = NoRow
    <3>1. \A n \in {p} : n \in Processes =>
                CarriesOn(thread[n], thread'[n]) \/ LaysDown(thread[n], thread'[n])
      BY <2>4, <2>5, <2>6 DEF LaysDown
    <3>2. QueueGrows
      BY <2>1, <2>6, QueueStays
    <3>3. QED
      BY <2>1, <2>2, <2>3, <3>1, <3>2, RowsWalk DEF Moved, QueueGrows
  <2>7. CASE q # NoRow
    <3>1. q \in DOMAIN queue /\ queue[q].status = "dispatching"
      BY <1>p, <2>4, <2>7, LoadFacts DEF RowsHeld, LoadsFit
    <3>2. EQ!SetRows({q}, "failed")
      BY <2>1, <2>7, <3>1 DEF EQ!FailEventQueueRow, EQ!Live, EQ!Visible
    <3>3. DOMAIN queue' = DOMAIN queue /\ queue'[q].status # "dispatching"
          /\ \A x \in DOMAIN queue : x # q => RowKept(x)
      BY <3>1, <3>2, RowsSet DEF RowKept
    <3>4. QED
      BY <1>p, <2>1, <2>2, <2>3, <2>4, <2>5, <2>7, <3>3, RowsReturn DEF Moved
  <2>8. QED
    BY <2>6, <2>7
<1>12. QED
  BY <1>1, <1>2, <1>3, <1>4, <1>5, <1>6, <1>7, <1>8, <1>9, <1>10, <1>11 DEF LaunchStep

-----------------------------------------------------------------------------
(* The boot loop *)

\* A conversation for which the boot loop claims the head.
Waits(s) == s.status = "creating" \/ (s.status = "suspended" /\ s.why = "graceful_shutdown")

\* Until the boot loop has ended there are only launches, what it has yet to look at waits,
\* and as long as it claims the head it has every waiting row before it.
BacklogFits ==
    backlog # {} =>
        /\ \A e \in Events : At(Slack(e), "off")
        /\ \A t \in Turns : At(Reply(t), "off")
        /\ \A q \in backlog : queue[q].status \in EQ!Visible
        /\ Waits(session) => EQ!VisibleRows("conversation") \subseteq backlog

LEMMA VisibleFacts ==
    ASSUME IInv
    PROVE  EQ!VisibleRows("conversation") = {q \in DOMAIN queue : queue[q].status \in EQ!Visible}
BY TablesFacts DEF IInv, EQ!VisibleRows

LEMMA VisibleNext ==
    ASSUME IInv'
    PROVE  EQ!VisibleRows("conversation")'
           = {q \in DOMAIN queue' : queue'[q].status \in EQ!Visible}
<1>1. queue' \in Seq(EQ!Row)
  BY DEF IInv, TablesOK, EQ!TypeOK
<1>2. \A q \in DOMAIN queue' : queue'[q] \in EQ!Row
  BY <1>1
<1>3. \A q \in DOMAIN queue' : queue'[q].item \in Events
  BY <1>2 DEF EQ!Row, EQ!Items
<1>4. QED
  BY <1>3 DEF EQ!VisibleRows

\* The row it looks at next is the head, if it claims the head.
LEMMA HeadIsNext ==
    ASSUME IInv, BacklogFits, backlog # {}, Waits(session), Pending
    PROVE  QueueHead = NextRow /\ queue[QueueHead].status \in EQ!Visible
<1> DEFINE S == EQ!VisibleRows("conversation")
<1>1. backlog = S
  BY VisibleFacts, LoadFacts DEF BacklogFits, IInv, BooksOK
<1>2. S \in SUBSET Nat /\ S # {}
  BY TablesFacts DEF IInv, EQ!VisibleRows, Pending
<1>3. \E q \in S : \A r \in S : q <= r
  BY <1>2, Least
<1>4. NextRow \in S /\ \A r \in S : NextRow <= r
  BY <1>1, <1>3 DEF NextRow
<1>5. QueueHead \in S /\ \A r \in S : QueueHead <= r
  BY <1>3 DEF QueueHead, EQ!IsHead
<1>6. QED
  BY <1>2, <1>4, <1>5, VisibleFacts

\* While the boot loop runs, a launch settles no waiting row and does not bring the
\* conversation back to where the boot loop claims the head.
LEMMA LaunchBacklog ==
    ASSUME IInv, IInv', OneDriver, RowsHeld, BacklogFits, stale' = {}, NEW e \in Events, LaunchStep(e)
    PROVE  BacklogFits'
<1> DEFINE p == Launch(e)
<1>p. p \in Processes /\ thread[p] \in Hand
  BY ProcessNames, HandFacts
<1>s. session \in Known /\ Snap(p) \in Known
  BY <1>p, HandFacts DEF IInv
<1> USE DEF LaunchStep, StartWorker, BeginLaunch, PrepareWindow, LoadForUpdate, SaveStarting,
        AllocatePane, SavePane, LosePane, WaitForReady, DispatchFirst, SendFirst, BeginFail,
        SaveFailed, FailLastEvent, FailRow
<1>1. UNCHANGED backlog
  OBVIOUS
<1>2. \E r : Become(p, r)
  <2> USE DEF End, Goto, Enter, Keep
  <2>1. CASE StartWorker(e) \/ BeginLaunch(e) \/ PrepareWindow(e) \/ LoadForUpdate(e)
             \/ SaveStarting(e) \/ AllocatePane(e) \/ SavePane(e)
    BY <2>1
  <2>2. CASE WaitForReady(e) \/ DispatchFirst(e) \/ SendFirst(e) \/ BeginFail(e)
             \/ SaveFailed(e) \/ FailLastEvent(e) \/ FailRow(e)
    BY <2>2
  <2>3. QED
    BY <2>1, <2>2
<1>3. Others({p})
  BY <1>2, <1>p, BecomeMoves
<1>4. \A q \in DOMAIN queue : /\ q \in DOMAIN queue'
                              /\ (queue'[q].status \in EQ!Visible <=> queue[q].status \in EQ!Visible)
  <2>1. CASE UNCHANGED queue
    BY <2>1
  <2>2. CASE ~UNCHANGED queue
    <3>1. FailRow(e) /\ thread[p].row # NoRow
      BY <2>2 DEF EQ!UpdateEvent
    <3>2. PICK q : q = thread[p].row
      OBVIOUS
    <3>3. EQ!FailEventQueueRow(q) /\ thread[p].at = "fail_row"
      BY <3>1, <3>2 DEF At
    <3>4. queue[q].status = "dispatching" /\ q \in DOMAIN queue
      BY <1>p, <3>1, <3>2, <3>3, LoadFacts DEF RowsHeld, LoadsFit, Load, Carrying
    <3>5. EQ!SetRows({q}, "failed")
      BY <3>3, <3>4 DEF EQ!FailEventQueueRow, EQ!Live, EQ!Visible
    <3>6. QED
      BY <3>4, <3>5, RowsSet DEF EQ!Visible
  <2>3. QED
    BY <2>1, <2>2
<1>5. DOMAIN queue' = DOMAIN queue
  BY LoadFacts DEF EQ!UpdateEvent, EQ!FailEventQueueRow, EQ!SetRows
<1>6. Waits(session') => Waits(session)
  <2>1. CASE UNCHANGED session
    BY <2>1
  <2>2. CASE StartWorker(e) /\ ~UNCHANGED session
    BY <1>s, <2>2 DEF Move, Waits, Known
  <2>3. CASE SaveStarting(e)
    BY <1>s, <2>3 DEF Save, Waits, Known
  <2>4. CASE SavePane(e)
    <3>1. session.status = "starting"
      BY <1>p, <2>4 DEF OneDriver, Suits, Starting, OnTheWay, At
    <3>2. \/ session' = session
          \/ Snap(p).status = "starting" /\ session' = [Snap(p) EXCEPT !.pane = thread[p].pane]
      BY <2>4, <3>1, FreshSave
    <3>3. QED
      BY <1>s, <3>1, <3>2 DEF Waits, Known
  <2>5. CASE DispatchFirst(e) /\ ~UNCHANGED session
    BY <1>s, <2>5 DEF Move, Activate, Waits, Known
  <2>6. CASE SaveFailed(e)
    <3> DEFINE s == [Snap(p) EXCEPT !.pane = thread[p].pane]
    <3>1. session' = Clear(s, "error") \/ session' = Suspend(s, "other")
      BY <2>6 DEF Save
    <3>2. s \in Known
      BY <1>p, <1>s, HandFacts DEF Known, Hand
    <3> HIDE DEF s
    <3>3. Clear(s, "error").status = "error"
      BY <3>2 DEF Clear, Known
    <3>4. Suspend(s, "other").status = "suspended" /\ Suspend(s, "other").why = "other"
      BY <3>2 DEF Suspend, Clear, Known
    <3>5. QED
      BY <3>1, <3>3, <3>4 DEF Waits
  <2>7. QED
    BY <2>1, <2>2, <2>3, <2>4, <2>5, <2>6
<1>7. \A f \in Events : Slack(f) \in Processes /\ Slack(f) # p
  BY ProcessNames, ThreadsApart
<1>8. \A t \in Turns : Reply(t) \in Processes /\ Reply(t) # p
  BY ProcessNames, ThreadsApart
<1>9. backlog \subseteq DOMAIN queue
  BY LoadFacts DEF IInv, BooksOK
<1>10. QED
  <2> SUFFICES ASSUME backlog' # {} PROVE BacklogFits'
    BY DEF BacklogFits
  <2>1. \A f \in Events : thread'[Slack(f)] = thread[Slack(f)]
    BY <1>3, <1>7 DEF Others
  <2>2. \A t \in Turns : thread'[Reply(t)] = thread[Reply(t)]
    BY <1>3, <1>8 DEF Others
  <2>3. EQ!VisibleRows("conversation")' = EQ!VisibleRows("conversation")
    BY <1>4, <1>5, VisibleFacts, VisibleNext
  <2>4. \A q \in backlog' : queue'[q].status \in EQ!Visible
    BY <1>1, <1>4, <1>9 DEF BacklogFits
  <2>5. QED
    BY <1>1, <1>6, <2>1, <2>2, <2>3, <2>4 DEF BacklogFits, At

\* What the boot loop looks at next is waiting.
LEMMA NextRowWaits ==
    ASSUME IInv, BacklogFits, backlog # {}
    PROVE  NextRow \in backlog /\ queue[NextRow].status \in EQ!Visible
<1>1. backlog \in SUBSET Nat
  BY LoadFacts DEF IInv, BooksOK
<1>2. \E q \in backlog : \A r \in backlog : q <= r
  BY <1>1, Least
<1>3. NextRow \in backlog
  BY <1>2 DEF NextRow
<1>4. QED
  BY <1>3 DEF BacklogFits

LEMMA QueueSame ==
    ASSUME IInv, UNCHANGED queue PROVE EQ!SetRows({}, "failed")
BY DEF EQ!SetRows, IInv, TablesOK, EQ!TypeOK

\* The launch to which the boot loop gives a waiting row carries none.
LEMMA LaunchFree ==
    ASSUME IInv, EQ!OneRowPerEvent, RowsHeld, NEW q \in DOMAIN queue,
           queue[q].status \in EQ!Visible
    PROVE  Load(thread[Launch(queue[q].item)]) = NoRow
<1> DEFINE e == queue[q].item
<1>1. e \in Events /\ Launch(e) \in Processes
  BY TablesFacts, ProcessNames DEF IInv
<1>2. SUFFICES ASSUME Load(thread[Launch(e)]) # NoRow PROVE FALSE
  OBVIOUS
<1>3. PICK x : x = Load(thread[Launch(e)])
  OBVIOUS
<1>4. x \in DOMAIN queue /\ queue[x].status = "dispatching" /\ queue[x].item = e
  BY <1>1, <1>2, <1>3, LoadFacts DEF RowsHeld, LoadsFit
<1>5. x = q
  BY <1>1, <1>4 DEF EQ!OneRowPerEvent
<1>6. QED
  BY <1>4, <1>5 DEF EQ!Visible

LEMMA ReplayRows ==
    ASSUME IInv, EQ!OneRowPerEvent, OneDriver, RowsHeld, BacklogFits, Replay
    PROVE  RowsHeld'
<1>1. CASE ReplayCreating \/ ReplayShutdown
  <2>0. PICK q : q = QueueHead
    OBVIOUS
  <2>1. PICK e : e = queue[q].item
    OBVIOUS
  <2>2. PICK p : p = Launch(e)
    OBVIOUS
  <2>3. PICK s : s = session'
    OBVIOUS
  <2> DEFINE r == [Off EXCEPT !.at = "start", !.snap = s, !.row = q]
  <2>4. /\ EQ!ClaimEventQueueHead("conversation", q, e) /\ Become(p, r)
        /\ UNCHANGED <<turns, dropped>>
    BY <1>1, <2>0, <2>1, <2>2, <2>3 DEF ReplayCreating, ReplayShutdown, Become
  <2>5. /\ q \in DOMAIN queue /\ queue[q].status \in EQ!Visible
        /\ EQ!SetRows({q}, "dispatching")
    BY <2>4, VisibleFacts DEF EQ!ClaimEventQueueHead, EQ!IsHead
  <2>6. q # NoRow /\ e \in Events /\ p \in Processes
    BY <2>1, <2>2, <2>5, LoadFacts, TablesFacts, ProcessNames DEF IInv, NoRow
  <2>7. Load(thread[p]) = NoRow
    BY <2>1, <2>2, <2>5, LaunchFree
  <2>8. r.at = "start" /\ r.row = q
    BY DEF Off
  <2> HIDE DEF r
  <2>9. thread'[p] = r /\ Others({p})
    BY <2>4, <2>6, BecomeMoves
  <2>10. Load(thread'[p]) = q /\ ~Sending(thread'[p]) /\ ~Closing(thread'[p])
    BY <2>8, <2>9 DEF Load, Carrying, Underway, Sending, Closing, Failing
  <2>11. SameWork
    <3>1. CASE ReplayCreating
      BY <3>1 DEF ReplayCreating, SameWork
    <3>2. CASE ReplayShutdown
      <4>1. session.status = "suspended"
            /\ session' = [Clear(session, "starting") EXCEPT !.why = "none", !.pane = NoPane]
        BY <3>2 DEF ReplayShutdown, Move
      <4>2. session'.row = NoRow /\ session'.turn = NoTurn
        BY <4>1 DEF Clear, IInv, Known
      <4>3. QED
        BY <4>1, <4>2 DEF SameWork, OneDriver, AtRest
    <3>3. QED
      BY <1>1, <3>1, <3>2
  <2>12. /\ DOMAIN queue' = DOMAIN queue /\ queue'[q].status = "dispatching"
         /\ queue'[q].item = e /\ \A x \in DOMAIN queue : x # q => RowKept(x)
    BY <2>1, <2>5, RowsSet DEF RowKept
  <2>13. \A f \in Events : p = Launch(f) => queue'[q].item = f
    BY <2>2, <2>6, <2>12, ThreadsApart
  <2>14. \A n \in {p} : n # p => CarriesOn(thread[n], thread'[n])
    OBVIOUS
  <2>15. QED
    BY <2>4, <2>5, <2>6, <2>7, <2>9, <2>10, <2>11, <2>12, <2>13, <2>14, RowsClaim
<1>2. CASE ReplayFail
  <2>1. /\ backlog # {} /\ EQ!FailEventQueueRow(NextRow)
        /\ UNCHANGED <<session, turns, thread, dropped>>
    BY <1>2 DEF ReplayFail
  <2>2. PICK q : q = NextRow
    OBVIOUS
  <2>3. q \in DOMAIN queue /\ queue[q].status \in EQ!Visible
    BY <2>1, <2>2, NextRowFacts, LoadFacts, NextRowWaits
  <2>4. EQ!SetRows({q}, "failed")
    BY <2>1, <2>2, <2>3 DEF EQ!FailEventQueueRow, EQ!Live
  <2>5. /\ DOMAIN queue' = DOMAIN queue /\ queue'[q].status = "failed"
        /\ \A x \in DOMAIN queue : x # q => RowKept(x)
    BY <2>3, <2>4, RowsSet DEF RowKept
  <2>6. SameWork /\ TurnsKept
    BY <2>1, TurnsStay DEF SameWork
  <2>7. QED
    BY <2>1, <2>3, <2>5, <2>6, RowsFailed
<1>3. CASE ReplayDefer
  <2>1. UNCHANGED <<queue, session, turns, thread, dropped>>
    BY <1>3 DEF ReplayDefer
  <2>2. SameWork /\ TurnsKept /\ QueueGrows /\ Others({})
    BY <2>1, TurnsStay, QueueStays DEF SameWork, Others
  <2>3. QED
    BY <2>1, <2>2, RowsWalk DEF QueueGrows
<1>4. QED
  BY <1>1, <1>2, <1>3 DEF Replay

\* The boot loop keeps its own order.
LEMMA ReplayBacklog ==
    ASSUME IInv, IInv', BacklogFits, Replay
    PROVE  BacklogFits'
<1> SUFFICES ASSUME backlog' # {} PROVE BacklogFits'
  BY DEF BacklogFits
<1>1. /\ backlog # {} /\ Looked
      /\ ReplayCreating \/ ReplayShutdown \/ ReplayFail \/ ReplayDefer
  BY DEF Replay, ReplayCreating, ReplayShutdown, ReplayFail, ReplayDefer
<1>2. backlog \subseteq DOMAIN queue /\ NextRow \in backlog /\ NextRow \in DOMAIN queue
  BY <1>1, LoadFacts, NextRowFacts, NextRowWaits DEF IInv, BooksOK
<1>3. \E Q \in SUBSET {NextRow} : \E status : EQ!SetRows(Q, status)
      /\ (Waits(session') => Waits(session))
      /\ \E e \in Events : Others({Launch(e)})
  <2>1. CASE ReplayCreating \/ ReplayShutdown
    <3>1. Waits(session) /\ Pending
      BY <2>1 DEF Waits, ReplayCreating, ReplayShutdown
    <3>2. QueueHead = NextRow /\ queue[QueueHead].status \in EQ!Visible
      BY <1>1, <3>1, HeadIsNext
    <3>3. EQ!SetRows({NextRow}, "dispatching")
      BY <2>1, <3>2 DEF ReplayCreating, ReplayShutdown, EQ!ClaimEventQueueHead
    <3>4. PICK e \in Events : e = queue[QueueHead].item
      BY <1>2, <3>2, TablesFacts DEF IInv
    <3>5. Others({Launch(e)})
      <4>1. PICK r : thread' = [thread EXCEPT ![Launch(e)] = r]
        BY <2>1, <3>4 DEF ReplayCreating, ReplayShutdown
      <4>2. QED
        BY <4>1, ProcessNames DEF Others, IInv, ThreadsOK
    <3>6. QED
      BY <3>1, <3>3, <3>5
  <2>2. CASE ReplayFail \/ ReplayDefer
    <3>1. UNCHANGED <<session, thread>>
      BY <2>2 DEF ReplayFail, ReplayDefer
    <3>2. \E e \in Events : Others({Launch(e)})
      <4>1. queue[NextRow].item \in Events
        BY <1>2, TablesFacts DEF IInv
      <4>2. QED
        BY <3>1, <4>1 DEF Others
    <3>3. \E Q \in SUBSET {NextRow} : \E status : EQ!SetRows(Q, status)
      <4>1. CASE ReplayFail
        BY <4>1 DEF ReplayFail, EQ!FailEventQueueRow
      <4>2. CASE ReplayDefer
        <5>1. UNCHANGED queue
          BY <4>2 DEF ReplayDefer
        <5>2. EQ!SetRows({}, "failed")
          BY <5>1, LoadFacts, QueueSame
        <5>3. QED
          BY <5>2
      <4>3. QED
        BY <2>2, <4>1, <4>2
    <3>4. QED
      BY <3>1, <3>2, <3>3
  <2>3. QED
    BY <1>1, <2>1, <2>2
<1>4. /\ DOMAIN queue' = DOMAIN queue
      /\ \A q \in DOMAIN queue : q # NextRow => queue'[q].status = queue[q].status
  BY <1>3, RowsSet
<1>5. \A e \in Events : thread'[Slack(e)] = thread[Slack(e)]
  BY <1>3, ProcessNames, ThreadsApart DEF Others
<1>6. \A t \in Turns : thread'[Reply(t)] = thread[Reply(t)]
  BY <1>3, ProcessNames, ThreadsApart DEF Others
<1>7. backlog' = backlog \ {NextRow}
  BY <1>1 DEF Looked
<1>8. \A q \in backlog' : queue'[q].status \in EQ!Visible
  BY <1>1, <1>2, <1>4, <1>7 DEF BacklogFits
<1>9. Waits(session') => EQ!VisibleRows("conversation")' \subseteq backlog'
  <2> SUFFICES ASSUME Waits(session'), NEW q \in DOMAIN queue', queue'[q].status \in EQ!Visible
               PROVE  q \in backlog'
    BY VisibleNext
  <2>1. CASE q # NextRow
    <3>1. q \in EQ!VisibleRows("conversation")
      BY <1>4, <2>1, VisibleFacts
    <3>2. QED
      BY <1>1, <1>3, <1>7, <2>1, <3>1 DEF BacklogFits
  <2>2. CASE q = NextRow
    <3>1. queue'[NextRow].status \notin EQ!Visible
      <4>1. Waits(session)
        BY <1>3
      <4>2. CASE ReplayCreating \/ ReplayShutdown
        <5>1. Pending /\ EQ!SetRows({QueueHead}, "dispatching")
          BY <4>2 DEF ReplayCreating, ReplayShutdown, EQ!ClaimEventQueueHead
        <5>2. QueueHead = NextRow
          BY <1>1, <4>1, <5>1, HeadIsNext
        <5>3. queue'[NextRow].status = "dispatching"
          BY <1>2, <5>1, <5>2, RowsSet
        <5>4. QED
          BY <5>3 DEF EQ!Visible
      <4>3. CASE ReplayFail
        <5>1. EQ!FailEventQueueRow(NextRow) /\ queue[NextRow].status \in EQ!Live
          BY <1>1, <1>2, <4>3, NextRowWaits DEF ReplayFail, EQ!Live
        <5>2. EQ!SetRows({NextRow}, "failed")
          BY <5>1 DEF EQ!FailEventQueueRow
        <5>3. queue'[NextRow].status = "failed"
          BY <1>2, <5>2, RowsSet
        <5>4. QED
          BY <5>3 DEF EQ!Visible
      <4>4. ~ReplayDefer
        BY <4>1 DEF ReplayDefer, Waits
      <4>5. QED
        BY <1>1, <4>2, <4>3, <4>4
    <3>2. QED
      BY <2>2, <3>1
  <2>3. QED
    BY <2>1, <2>2
<1>10. QED
  BY <1>1, <1>5, <1>6, <1>8, <1>9 DEF BacklogFits, At

LEMMA RebootBacklog ==
    ASSUME IInv', Reboot PROVE BacklogFits'
<1>1. \A n \in Processes : thread'[n].at = "off"
  BY DEF Reboot, Off
<1>2. backlog' = {q \in DOMAIN queue' : queue'[q].status \in EQ!Visible}
  BY DEF Reboot
<1>3. QED
  BY <1>1, <1>2, VisibleNext, ProcessNames DEF BacklogFits, At

\* While the boot loop runs nothing else moves but the launches.
LEMMA BootAlone ==
    ASSUME BacklogFits, backlog # {},
           \/ \E e \in Events : \/ Receive(e) \/ RefuseCreate(e) \/ RefuseRecover(e)
                                \/ SlackStep(e) \/ RouteStep(e) \/ AnswerStep(e)
           \/ \E t \in Turns : ReplyStep(t) \/ CompleteStep(t)
    PROVE  FALSE
<1>1. ASSUME NEW e \in Events,
             Receive(e) \/ RefuseCreate(e) \/ RefuseRecover(e) \/ SlackStep(e) \/ RouteStep(e)
             \/ AnswerStep(e)
      PROVE  FALSE
  <2>1. thread[Slack(e)].at = "off"
    BY DEF BacklogFits, At
  <2>2. CASE Receive(e) \/ RefuseCreate(e) \/ RefuseRecover(e) \/ SlackStep(e)
    BY <2>1, <2>2 DEF Receive, Listening, RefuseCreate, RefuseRecover, SlackStep, UpdateCursor,
                      CreateSession, MarkRefused, MarkQueued, At
  <2>3. CASE RouteStep(e) \/ AnswerStep(e)
    BY <2>1, <2>3 DEF RouteStep, Route, RouteQueue, RouteActive, RouteRace, SendActive, Requeue,
                      Rollback, RecoverSession, AnswerStep, Answer, SendAnswer, AnswerUndo,
                      SaveAnswered, At
  <2>4. QED
    BY <1>1, <2>2, <2>3
<1>2. ASSUME NEW t \in Turns, ReplyStep(t) \/ CompleteStep(t) PROVE FALSE
  <2>1. thread[Reply(t)].at = "off"
    BY DEF BacklogFits, At
  <2>2. QED
    BY <1>2, <2>1 DEF ReplyStep, BeginReply, PostReply, RecordReply, CloseAttempt, CheckTurn,
                      SaveIdentity, MarkDone, Listening, CompleteStep, BeginComplete,
                      CompleteWait, CompleteTurn, DrainClaim, DrainBusy, DrainSend, DrainUndo,
                      DrainRetry, At
<1>3. QED
  BY <1>1, <1>2

LEMMA BacklogStays ==
    ASSUME \/ \E e \in Events : \/ Receive(e) \/ RefuseCreate(e) \/ RefuseRecover(e)
                                \/ SlackStep(e) \/ RouteStep(e) \/ AnswerStep(e)
           \/ \E t \in Turns : ReplyStep(t) \/ CompleteStep(t)
    PROVE  backlog' = backlog
<1>1. ASSUME NEW e \in Events,
             Receive(e) \/ RefuseCreate(e) \/ RefuseRecover(e) \/ SlackStep(e) \/ RouteStep(e)
             \/ AnswerStep(e)
      PROVE  backlog' = backlog
  <2>1. CASE Receive(e) \/ RefuseCreate(e) \/ RefuseRecover(e) \/ SlackStep(e)
    BY <2>1 DEF Receive, RefuseCreate, RefuseRecover, SlackStep, UpdateCursor, CreateSession,
                MarkRefused, MarkQueued
  <2>2. CASE RouteStep(e) \/ AnswerStep(e)
    BY <2>2 DEF RouteStep, Route, RouteQueue, RouteActive, RouteRace, SendActive, Requeue,
                Rollback, RecoverSession, AnswerStep, Answer, SendAnswer, AnswerUndo,
                SaveAnswered
  <2>3. QED
    BY <1>1, <2>1, <2>2
<1>2. ASSUME NEW t \in Turns, ReplyStep(t) \/ CompleteStep(t) PROVE backlog' = backlog
  BY <1>2 DEF ReplyStep, BeginReply, PostReply, RecordReply, CloseAttempt, CheckTurn,
              SaveIdentity, MarkDone, CompleteStep, BeginComplete, CompleteWait, CompleteTurn,
              DrainClaim, DrainBusy, DrainSend, DrainUndo, DrainRetry
<1>3. QED
  BY <1>1, <1>2

LEMMA BacklogFitsStep ==
    ASSUME IInv, IInv', Undisturbed, Undisturbed', [Next]_vars, OneDriver, RowsHeld, BacklogFits,
           stale' = {}
    PROVE  BacklogFits'
<1>1. CASE WorkerExits \/ UNCHANGED vars
  <2>1. UNCHANGED <<queue, session, thread, backlog>>
    BY <1>1 DEF WorkerExits, vars
  <2>2. EQ!VisibleRows("conversation")' = EQ!VisibleRows("conversation")
    BY <2>1, VisibleFacts, VisibleNext
  <2>3. QED
    BY <2>1, <2>2 DEF BacklogFits, At
<1>2. CASE Crash
  BY <1>2, RebootBacklog DEF Crash
<1>3. CASE \/ \E e \in Events : \/ Receive(e) \/ RefuseCreate(e) \/ RefuseRecover(e)
                                \/ SlackStep(e) \/ RouteStep(e) \/ AnswerStep(e)
           \/ \E t \in Turns : ReplyStep(t) \/ CompleteStep(t)
  BY <1>3, BootAlone, BacklogStays DEF BacklogFits
<1>4. CASE \E e \in Events : LaunchStep(e)
  BY <1>4, LaunchBacklog
<1>5. CASE Replay
  BY <1>5, ReplayBacklog
<1>6. QED
  BY <1>1, <1>2, <1>3, <1>4, <1>5, QuietSteps

LEMMA RowsHeldStep ==
    ASSUME IInv, EQ!OneRowPerEvent, TypedOnce, Undisturbed, Undisturbed', [Next]_vars,
           OneDriver, RowsHeld, BacklogFits, stale' = {}
    PROVE  RowsHeld'
<1>1. CASE WorkerExits \/ UNCHANGED vars
  <2>1. UNCHANGED <<queue, session, turns, thread, dropped>>
    BY <1>1 DEF WorkerExits, vars
  <2>2. SameWork /\ TurnsKept /\ QueueGrows /\ Others({})
    BY <2>1, TurnsStay, QueueStays DEF SameWork, Others
  <2>3. QED
    BY <2>1, <2>2, RowsWalk DEF QueueGrows
<1>2. CASE Crash
  BY <1>2, RowsReset DEF Crash
<1>3. CASE Replay
  BY <1>3, ReplayRows
<1>4. \A e \in Events : thread[Slack(e)].at \in Early => RowsOn(e) = {}
  BY DEF TypedOnce, OneWay, ShuttingDown, Undisturbed, Controls
<1>5. ASSUME NEW e \in Events, RouteStep(e) \/ AnswerStep(e) PROVE RowsHeld'
  BY <1>4, <1>5, RouteRows
<1>6. QED
  BY <1>1, <1>2, <1>3, <1>5, QuietSteps, SlackRows, LaunchRows, ReplyRows, CompleteRows

LEMMA RowsHeldInit == Init => RowsHeld /\ BacklogFits
<1> SUFFICES ASSUME Init PROVE RowsHeld /\ BacklogFits
  OBVIOUS
<1>1. \A n \in Processes : thread[n] = Off
  BY DEF Init
<1>2. Load(Off) = NoRow /\ ~Sending(Off) /\ ~Closing(Off)
  BY DEF Load, Off, Sending, Closing, Failing
<1>3. DOMAIN queue = {} /\ session.row = NoRow /\ backlog = {}
  BY DEF Init, EQ!Init, Absent
<1>4. QED
  BY <1>1, <1>2, <1>3 DEF RowsHeld, LoadsFit, LoadsApart, RowsOwned, RowOfTurn, BacklogFits

LEMMA Carrier == Spec /\ []Undisturbed => [](stale # {} \/ (OneDriver /\ RowsHeld /\ BacklogFits))
<1>1. /\ IInv /\ IInv' /\ EQ!OneRowPerEvent /\ TypedOnce /\ Undisturbed /\ Undisturbed'
      /\ [Next]_vars /\ (stale # {} \/ OneDriver) /\ (stale # {} \/ OneDriver)'
      /\ (stale # {} \/ (RowsHeld /\ BacklogFits))
      => (stale # {} \/ (RowsHeld /\ BacklogFits))'
  BY RowsHeldStep, BacklogFitsStep, StaleStays
<1>2. Spec => []EQ!OneRowPerEvent
  BY ConversationHasQueueLaws
<1>3. QED
  BY <1>1, <1>2, RowsHeldInit, Driver, TypesOnce, Always, PTL DEF Spec

\* A row that is claimed is the session's, or a thread has it in hand that will settle it
\* or put it back, or the boot loop has claimed it for a worker that is on its way already:
\* no failure on the way, no crash and no race of messages leaves a claimed row behind.
THEOREM ClaimedRowsAreOwned == Spec /\ []Undisturbed => []RowHasOwner
<1>1. IInv /\ (stale # {} \/ (OneDriver /\ RowsHeld /\ BacklogFits)) => RowHasOwner
  <2> SUFFICES ASSUME IInv, RowsHeld, NEW q, Leased(q)
               PROVE  \/ session.row = q \/ q \in dropped
                      \/ \E p \in Processes : thread[p].row = q /\ ~At(p, "off")
    BY DEF RowHasOwner, AllTrue
  <2>1. q \in DOMAIN queue /\ Owned(q)
    BY DEF Leased, RowsHeld, RowsOwned
  <2>2. q # NoRow
    BY <2>1, LoadFacts DEF NoRow
  <2>3. ASSUME NEW p \in Processes, Load(thread[p]) = q
        PROVE  thread[p].row = q /\ ~At(p, "off")
    BY <2>2, <2>3 DEF Load, Carrying, Underway, GivingUp, Failing, Draining, At
  <2>4. QED
    BY <2>1, <2>3 DEF Owned
<1>2. QED
  BY <1>1, Carrier, Always, PTL

-----------------------------------------------------------------------------
(* What is done was answered *)

\* DoneWasAnswered without its guard.
DoneAnswered ==
    \A q \in DOMAIN queue : queue[q].status = "done"
        => \E t \in posted : turns[t].event = queue[q].item

\* A thread that has posted the answer of its turn goes on to end the turn.
Posted == {"record", "close", "check", "identity", "finish", "rest", "wait"}
PostedFirst == \A t \in Turns : thread[Reply(t)].at \in Posted => t \in posted

\* No row becomes done.
NoneDone ==
    \A q \in DOMAIN queue' : queue'[q].status = "done" =>
        q \in DOMAIN queue /\ queue[q].status = "done" /\ queue'[q].item = queue[q].item

LEMMA NoneDoneInsert ==
    ASSUME IInv, NEW e \in Events, NEW status \in {"queued", "dispatching"}, EQ!Insert(e, status)
    PROVE  NoneDone
<1>1. queue \in Seq(EQ!Row) /\ DOMAIN queue = 1..Len(queue) /\ Len(queue) \in Nat
  BY DEF IInv, TablesOK, EQ!TypeOK
<1>2. /\ DOMAIN queue' = DOMAIN queue \cup {Len(queue) + 1}
      /\ \A q \in DOMAIN queue : queue'[q] = queue[q]
      /\ queue'[Len(queue) + 1] = [item |-> e, status |-> status]
  BY <1>1 DEF EQ!Insert
<1>3. QED
  BY <1>2 DEF NoneDone

LEMMA NoneDoneBy ==
    ASSUME IInv,
           \/ UNCHANGED queue
           \/ \E Q, status : status # "done" /\ EQ!SetRows(Q, status)
           \/ \E e \in Events : EQ!Insert(e, "queued") \/ EQ!Insert(e, "dispatching")
    PROVE  NoneDone
<1>1. CASE UNCHANGED queue
  BY <1>1 DEF NoneDone
<1>2. ASSUME NEW Q, NEW status, status # "done", EQ!SetRows(Q, status) PROVE NoneDone
  BY <1>2, RowsSet DEF NoneDone
<1>3. ASSUME NEW e \in Events, EQ!Insert(e, "queued") \/ EQ!Insert(e, "dispatching")
      PROVE  NoneDone
  BY <1>3, NoneDoneInsert
<1>4. QED
  BY <1>1, <1>2, <1>3

\* Every operation on the queue but one.
LEMMA NoneDoneOps ==
    ASSUME IInv,
           \/ UNCHANGED queue
           \/ \E e \in Events : EQ!ClaimEvent(e) \/ EQ!AppendEventQueue(e) \/ EQ!CreateInitialQueue(e)
           \/ \E e, status : EQ!UpdateEvent(e, status)
           \/ \E q : EQ!FailEventQueueRow(q) \/ EQ!MarkEventQueueRetryable(q)
           \/ \E t, q, item : EQ!ClaimEventQueueHead(t, q, item)
           \/ EQ!ResetDispatchingEventQueueLeases
    PROVE  NoneDone
<1>1. CASE UNCHANGED queue
  BY <1>1, NoneDoneBy
<1>2. ASSUME NEW e \in Events, EQ!ClaimEvent(e) \/ EQ!AppendEventQueue(e) \/ EQ!CreateInitialQueue(e)
      PROVE  NoneDone
  <2>1. \/ UNCHANGED queue \/ EQ!Insert(e, "dispatching") \/ EQ!Insert(e, "queued")
        \/ EQ!SetRows({q \in EQ!RowsOf(e) : queue[q].status \in EQ!Live}, "queued")
    BY <1>2 DEF EQ!ClaimEvent, EQ!AppendEventQueue, EQ!CreateInitialQueue
  <2>2. QED
    BY <2>1, NoneDoneBy
<1>3. ASSUME NEW e, NEW status, EQ!UpdateEvent(e, status) PROVE NoneDone
  BY <1>3, NoneDoneBy DEF EQ!UpdateEvent
<1>4. ASSUME NEW q, EQ!FailEventQueueRow(q) \/ EQ!MarkEventQueueRetryable(q) PROVE NoneDone
  <2>1. (\E Q : EQ!SetRows(Q, "failed")) \/ EQ!SetRows({q}, "retryable")
    BY <1>4 DEF EQ!FailEventQueueRow, EQ!MarkEventQueueRetryable
  <2>2. QED
    BY <2>1, NoneDoneBy
<1>5. ASSUME NEW t, NEW q, NEW item, EQ!ClaimEventQueueHead(t, q, item) PROVE NoneDone
  BY <1>5, NoneDoneBy DEF EQ!ClaimEventQueueHead
<1>6. CASE EQ!ResetDispatchingEventQueueLeases
  BY <1>6, NoneDoneBy DEF EQ!ResetDispatchingEventQueueLeases, EQ!ResetLeases
<1>7. QED
  BY <1>1, <1>2, <1>3, <1>4, <1>5, <1>6

\* What was answered stays answered, whichever rows and turns there are besides.
LEMMA AnsweredStays ==
    ASSUME IInv, DoneAnswered, NoneDone, posted \subseteq posted', TurnsKept
    PROVE  DoneAnswered'
<1>1. posted \subseteq DOMAIN turns
  BY TurnsFacts DEF IInv, BooksOK
<1>2. SUFFICES ASSUME NEW q \in DOMAIN queue', queue'[q].status = "done"
               PROVE  \E t \in posted' : turns'[t].event = queue'[q].item
  BY DEF DoneAnswered
<1>3. q \in DOMAIN queue /\ queue[q].status = "done" /\ queue'[q].item = queue[q].item
  BY <1>2 DEF NoneDone
<1>4. PICK t \in posted : turns[t].event = queue[q].item
  BY <1>3 DEF DoneAnswered
<1>5. QED
  BY <1>1, <1>3, <1>4 DEF TurnsKept

\* The row that a completion settles is that of the turn whose answer was posted.
LEMMA CompletionAnswered ==
    ASSUME IInv, OneDriver, RowsHeld, PostedFirst, DoneAnswered, NEW t \in Turns,
           BeginComplete(t)
    PROVE  DoneAnswered'
<1>1. thread[Reply(t)].at = "finish" /\ UNCHANGED <<turns, posted>>
  BY DEF BeginComplete, At
<1>2. session.status = "busy" /\ session.turn = t /\ t \in posted
  <2>1. Suits(Reply(t), thread[Reply(t)], session) /\ Answering(thread[Reply(t)])
    BY <1>1, ProcessNames DEF OneDriver, Answering
  <2>2. Reply(t) = Reply(session.turn) /\ session.status = "busy"
    BY <2>1 DEF Suits
  <2>3. session.turn = t
    BY <2>2, ThreadsApart DEF Reply
  <2>4. QED
    BY <1>1, <2>2, <2>3 DEF PostedFirst, Posted
<1>3. TurnsKept
  BY <1>1, TurnsStay
<1>4. CASE UNCHANGED queue
  BY <1>1, <1>3, <1>4, NoneDoneOps, AnsweredStays
<1>5. CASE ~UNCHANGED queue
  <2>1. session.row # NoRow /\ EQ!ConsumeEventQueueRow(session.row)
    BY <1>2, <1>5 DEF BeginComplete, Consume, Claimed
  <2>2. EQ!SetRows({session.row}, "done")
    BY <2>1 DEF EQ!ConsumeEventQueueRow
  <2>3. turns[t].event = queue[session.row].item
    BY <1>2, <2>1 DEF RowsHeld, RowOfTurn
  <2>4. SUFFICES ASSUME NEW q \in DOMAIN queue', queue'[q].status = "done"
                 PROVE  \E u \in posted' : turns'[u].event = queue'[q].item
    BY DEF DoneAnswered
  <2>5. q \in DOMAIN queue /\ queue'[q].item = queue[q].item
    BY <2>2, RowsSet
  <2>6. CASE q = session.row
    BY <1>1, <1>2, <2>3, <2>5, <2>6
  <2>7. CASE q # session.row
    <3>1. queue[q].status = "done"
      BY <2>2, <2>4, <2>5, <2>7, RowsSet
    <3>2. QED
      BY <1>1, <2>5, <3>1 DEF DoneAnswered
  <2>8. QED
    BY <2>6, <2>7
<1>6. QED
  BY <1>4, <1>5

\* Whose thread a step moves.
LEMMA SlackMoves ==
    ASSUME IInv, NEW e \in Events,
           Receive(e) \/ RefuseCreate(e) \/ RefuseRecover(e) \/ SlackStep(e)
           \/ RouteStep(e) \/ AnswerStep(e)
    PROVE  Others({Slack(e), Launch(e)})
<1>1. \A r : Become(Slack(e), r) => Others({Slack(e), Launch(e)})
  BY ProcessNames, BecomeMoves DEF Others
<1>2. \A r, n : thread' = [thread EXCEPT ![Slack(e)] = r, ![Launch(e)] = n]
                => Others({Slack(e), Launch(e)})
  BY DEF Others, IInv, ThreadsOK
<1> USE DEF End, Pass, Goto, Keep, Enter
<1>3. CASE Receive(e) \/ RefuseCreate(e) \/ RefuseRecover(e) \/ MarkRefused(e) \/ MarkQueued(e)
  BY <1>1, <1>3 DEF Receive, RefuseCreate, RefuseRecover, MarkRefused, MarkQueued
<1>4. CASE UpdateCursor(e) \/ CreateSession(e)
  <2>0. PICK new : new = session'
    OBVIOUS
  <2>1. CASE UpdateCursor(e)
    <3>1. Enter(Slack(e), "recover", new) \/ Pass(Slack(e), "route")
      BY <2>0, <2>1 DEF UpdateCursor
    <3>2. QED
      BY <1>1, <3>1
  <2>2. CASE CreateSession(e)
    <3> DEFINE n == [Off EXCEPT !.at = "start", !.snap = new, !.row = Len(queue) + 1]
    <3>1. \/ thread' = [thread EXCEPT ![Slack(e)] = Off, ![Launch(e)] = n]
          \/ Enter(Slack(e), IF session.status = "error" THEN "refused" ELSE "cursor", session)
      BY <2>0, <2>2 DEF CreateSession
    <3> HIDE DEF n
    <3>2. QED
      BY <1>1, <1>2, <3>1
  <2>3. QED
    BY <1>4, <2>1, <2>2
<1>5. CASE Route(e) \/ RouteQueue(e) \/ RouteActive(e) \/ RouteRace(e) \/ SendActive(e)
           \/ Requeue(e) \/ Rollback(e)
  <2>1. CASE Route(e) \/ RouteQueue(e) \/ RouteRace(e) \/ SendActive(e)
    <3>1. CASE Route(e)
      BY <1>1, <3>1 DEF Route
    <3>2. CASE RouteQueue(e) \/ RouteRace(e)
      BY <1>1, <3>2 DEF RouteQueue, RouteRace
    <3>3. CASE SendActive(e)
      BY <1>1, <3>3 DEF SendActive, Others
    <3>4. QED
      BY <2>1, <3>1, <3>2, <3>3
  <2>2. CASE RouteActive(e) \/ Requeue(e) \/ Rollback(e)
    <3>1. \E r : Become(Slack(e), r)
      BY <2>2 DEF RouteActive, Requeue, Rollback
    <3>2. QED
      BY <1>1, <3>1
  <2>3. QED
    BY <1>5, <2>1, <2>2
<1>6. CASE RecoverSession(e)
  <2>0. PICK new : new = session'
    OBVIOUS
  <2> DEFINE r == [Off EXCEPT !.at = "mark"]
             n == [Off EXCEPT !.at = "launch", !.snap = new]
  <2>1. \/ thread' = [thread EXCEPT ![Slack(e)] = r, ![Launch(e)] = n]
        \/ Pass(Slack(e), "mark")
    BY <1>6, <2>0 DEF RecoverSession
  <2> HIDE DEF r, n
  <2>2. QED
    BY <1>1, <1>2, <2>1
<1>7. CASE Answer(e) \/ SendAnswer(e) \/ AnswerUndo(e) \/ SaveAnswered(e)
  <2>1. CASE Answer(e)
    <3>1. \E r : Become(Slack(e), r)
      BY <2>1 DEF Answer
    <3>2. QED
      BY <1>1, <3>1
  <2>2. CASE SendAnswer(e) \/ AnswerUndo(e) \/ SaveAnswered(e)
    <3>1. \E r : Become(Slack(e), r)
      BY <2>2 DEF SendAnswer, AnswerUndo, SaveAnswered
    <3>2. QED
      BY <1>1, <3>1
  <2>3. QED
    BY <1>7, <2>1, <2>2
<1>8. QED
  BY <1>3, <1>4, <1>5, <1>6, <1>7 DEF SlackStep, RouteStep, AnswerStep

LEMMA LaunchMoves ==
    ASSUME IInv, NEW e \in Events, LaunchStep(e)
    PROVE  Others({Launch(e)})
<1> USE DEF End, Goto, Enter, Keep
<1>1. CASE StartWorker(e) \/ BeginLaunch(e) \/ PrepareWindow(e) \/ LoadForUpdate(e)
           \/ SaveStarting(e) \/ AllocatePane(e) \/ SavePane(e)
  <2>1. \E r : Become(Launch(e), r)
    BY <1>1 DEF StartWorker, BeginLaunch, PrepareWindow, LoadForUpdate, SaveStarting,
                AllocatePane, SavePane, LosePane
  <2>2. QED
    BY <2>1, ProcessNames, BecomeMoves
<1>2. CASE WaitForReady(e) \/ DispatchFirst(e) \/ SendFirst(e) \/ BeginFail(e)
           \/ SaveFailed(e) \/ FailLastEvent(e) \/ FailRow(e)
  <2>1. \E r : Become(Launch(e), r)
    BY <1>2 DEF WaitForReady, DispatchFirst, SendFirst, BeginFail, SaveFailed, FailLastEvent,
                FailRow
  <2>2. QED
    BY <2>1, ProcessNames, BecomeMoves
<1>3. QED
  BY <1>1, <1>2 DEF LaunchStep

LEMMA ReplyMoves ==
    ASSUME IInv, NEW t \in Turns, ReplyStep(t) \/ CompleteStep(t)
    PROVE  Others({Reply(t)})
<1> USE DEF End, Goto, Enter, Keep, Pass
<1>1. CASE ReplyStep(t)
  <2>1. (\E r : Become(Reply(t), r)) \/ UNCHANGED thread
    BY <1>1 DEF ReplyStep, BeginReply, PostReply, RecordReply, CloseAttempt, CheckTurn,
                SaveIdentity, MarkDone
  <2>2. QED
    BY <2>1, ProcessNames, BecomeMoves DEF Others
<1>2. CASE CompleteStep(t)
  <2>1. (\E r : Become(Reply(t), r)) \/ UNCHANGED thread
    BY <1>2 DEF CompleteStep, BeginComplete, CompleteWait, CompleteTurn, DrainClaim, DrainBusy,
                DrainSend, DrainUndo, DrainRetry
  <2>2. QED
    BY <2>1, ProcessNames, BecomeMoves DEF Others
<1>3. QED
  BY <1>1, <1>2

\* A thread of the hook server posts the answer before it goes on with the turn.
LEMMA ReplyPosts ==
    ASSUME IInv, PostedFirst, NEW t \in Turns, ReplyStep(t) \/ CompleteStep(t)
    PROVE  PostedFirst' /\ posted \subseteq posted'
<1> DEFINE p == Reply(t)
<1>p. p \in Processes
  BY ProcessNames
<1>1. Others({p})
  BY ReplyMoves
<1>2. \A u \in Turns : Reply(u) = p => u = t
  BY ThreadsApart DEF Reply
<1>3. SUFFICES /\ thread'[p].at \in Posted => t \in posted'
               /\ posted \subseteq posted'
  <2>1. \A u \in Turns : Reply(u) \in Processes
    BY ProcessNames
  <2>2. QED
    BY <1>1, <1>2, <1>3, <2>1 DEF PostedFirst, Others
<1> HIDE DEF p
<1>4. CASE PostReply(t)
  <2>1. CASE posted' = posted \cup {t}
    BY <2>1
  <2>2. CASE End(p) /\ UNCHANGED posted
    <3>1. thread'[p].at = "off"
      BY <1>p, <2>2, Moving DEF Moved
    <3>2. QED
      BY <2>2, <3>1 DEF Posted
  <2>3. QED
    BY <1>4, <2>1, <2>2 DEF PostReply, p
<1>5. CASE BeginReply(t)
  <2>1. UNCHANGED <<thread, posted>> \/ (Goto(p, "post") /\ UNCHANGED posted)
    BY <1>5 DEF BeginReply, p
  <2>2. CASE Goto(p, "post")
    <3>1. thread'[p].at = "post"
      BY <1>p, <2>2, Moving DEF Moved
    <3>2. QED
      BY <2>1, <3>1 DEF Posted
  <2>3. CASE UNCHANGED thread
    <3>1. thread[p].at = "off" /\ UNCHANGED posted
      BY <1>5 DEF BeginReply, p, At
    <3>2. QED
      BY <2>3, <3>1 DEF Posted
  <2>4. QED
    BY <2>1, <2>2, <2>3
<1>6. CASE RecordReply(t) \/ CloseAttempt(t) \/ CheckTurn(t) \/ SaveIdentity(t)
           \/ BeginComplete(t) \/ CompleteWait(t) \/ CompleteTurn(t)
  <2>1. thread[p].at \in Posted /\ UNCHANGED posted
    BY <1>6 DEF RecordReply, CloseAttempt, CheckTurn, SaveIdentity, BeginComplete, CompleteWait,
                CompleteTurn, p, At, Posted
  <2>2. QED
    BY <2>1 DEF PostedFirst, p
<1>7. CASE MarkDone(t) \/ DrainClaim(t) \/ DrainSend(t) \/ DrainUndo(t) \/ DrainRetry(t)
  <2>1. UNCHANGED posted
    BY <1>7 DEF MarkDone, DrainClaim, DrainSend, DrainUndo, DrainRetry
  <2>2. \/ End(p) \/ (UNCHANGED thread /\ DrainSend(t))
        \/ \E where \in {"drain_busy", "drain_undo", "drain_retry", "verdict"} :
             Goto(p, where) \/ Pass(p, where)
    BY <1>7 DEF MarkDone, DrainClaim, DrainSend, DrainUndo, DrainRetry, p
  <2>3. thread'[p].at \in {"off", "drain_busy", "drain_send", "drain_undo", "drain_retry",
                          "verdict"}
    BY <1>p, <2>2, Moving DEF Moved, DrainSend, p, At
  <2>4. QED
    BY <2>1, <2>3 DEF Posted
<1>8. CASE DrainBusy(t)
  <2>1. UNCHANGED posted
    BY <1>8 DEF DrainBusy
  <2>2. CASE Pass(p, "verdict")
    <3>1. thread'[p].at = "verdict"
      BY <1>p, <2>2, Moving DEF Moved
    <3>2. QED
      BY <2>1, <3>1 DEF Posted
  <2>3. CASE ~Pass(p, "verdict")
    <3> DEFINE r == [thread[p] EXCEPT !.at = "drain_send", !.turn = NextTurn,
                                      !.pane = session.pane]
    <3>1. Become(p, r)
      BY <1>8, <2>3 DEF DrainBusy, p
    <3>2. r.at = "drain_send"
      BY <1>p, HandFacts DEF Hand, Off
    <3> HIDE DEF r
    <3>3. thread'[p].at = "drain_send"
      BY <1>p, <3>1, <3>2, BecomeMoves
    <3>4. QED
      BY <2>1, <3>3 DEF Posted
  <2>4. QED
    BY <2>2, <2>3
<1>9. QED
  BY <1>4, <1>5, <1>6, <1>7, <1>8 DEF ReplyStep, CompleteStep

\* A step of others leaves the hook server's threads and its answers alone.
LEMMA OthersPost ==
    ASSUME PostedFirst, UNCHANGED posted, NEW e \in Events, Others({Slack(e), Launch(e)})
    PROVE  PostedFirst'
<1>1. \A t \in Turns : thread'[Reply(t)] = thread[Reply(t)]
  BY ProcessNames, ThreadsApart DEF Others
<1>2. QED
  BY <1>1 DEF PostedFirst


\* What every operation but a completion does to the rows, the turns and the answers.
Harmless == NoneDone /\ TurnsKept /\ UNCHANGED posted

LEMMA SlackHarmless ==
    ASSUME IInv, NEW e \in Events,
           Receive(e) \/ RefuseCreate(e) \/ RefuseRecover(e) \/ SlackStep(e)
           \/ RouteStep(e) \/ AnswerStep(e)
    PROVE  Harmless
<1>1. CASE Receive(e) \/ RefuseCreate(e) \/ RefuseRecover(e) \/ SlackStep(e)
  <2>1. UNCHANGED <<turns, posted>>
    BY <1>1 DEF Receive, RefuseCreate, RefuseRecover, SlackStep, UpdateCursor, CreateSession,
                MarkRefused, MarkQueued
  <2>2. \/ UNCHANGED queue \/ EQ!ClaimEvent(e) \/ EQ!CreateInitialQueue(e)
        \/ \E status : EQ!UpdateEvent(e, status)
    BY <1>1 DEF Receive, RefuseCreate, RefuseRecover, SlackStep, UpdateCursor, CreateSession,
                MarkRefused, MarkQueued
  <2>3. NoneDone
    BY <2>2, NoneDoneOps
  <2>4. QED
    BY <2>1, <2>3, TurnsStay DEF Harmless
<1>2. CASE RouteStep(e)
  <2>1. UNCHANGED posted
    BY <1>2 DEF RouteStep, Route, RouteQueue, RouteActive, RouteRace, SendActive, Requeue,
                Rollback, RecoverSession
  <2>2. UNCHANGED queue \/ EQ!AppendEventQueue(e)
    BY <1>2 DEF RouteStep, Route, RouteQueue, RouteActive, RouteRace, SendActive, Requeue,
                Rollback, RecoverSession
  <2>3. \/ UNCHANGED turns \/ NewTurn(e) \/ \E t : turns' = Opened(turns, t)
        \/ \E t, a : turns' = Completed(Opened(turns, t), t, a)
    BY <1>2 DEF RouteStep, Route, RouteQueue, RouteActive, RouteRace, SendActive, Requeue,
                Rollback, RecoverSession, Send, SendsAgain, SendFailsAndCloses
  <2>4. NoneDone /\ TurnsKept
    BY <2>2, <2>3, NoneDoneOps, TurnsStay
  <2>5. QED
    BY <2>1, <2>4 DEF Harmless
<1>3. CASE AnswerStep(e)
  <2>1. UNCHANGED <<posted, queue>>
    BY <1>3 DEF AnswerStep, Answer, SendAnswer, AnswerUndo, SaveAnswered
  <2>2. \/ UNCHANGED turns \/ NewTurn(e) \/ \E t : turns' = Opened(turns, t)
        \/ \E t, a : turns' = Completed(Opened(turns, t), t, a)
    BY <1>3 DEF AnswerStep, Answer, SendAnswer, AnswerUndo, SaveAnswered, Send,
                SendFailsAndCloses
  <2>3. NoneDone /\ TurnsKept
    BY <2>1, <2>2, NoneDoneOps, TurnsStay
  <2>4. QED
    BY <2>1, <2>3 DEF Harmless
<1>4. QED
  BY <1>1, <1>2, <1>3

LEMMA LaunchHarmless ==
    ASSUME IInv, NEW e \in Events, LaunchStep(e)
    PROVE  Harmless
<1>1. UNCHANGED posted
  BY DEF LaunchStep, StartWorker, BeginLaunch, PrepareWindow, LoadForUpdate, SaveStarting,
         AllocatePane, SavePane, WaitForReady, DispatchFirst, SendFirst, BeginFail, SaveFailed,
         FailLastEvent, FailRow
<1>2. \/ UNCHANGED queue \/ (\E f, status : EQ!UpdateEvent(f, status))
      \/ \E q : EQ!FailEventQueueRow(q)
  BY DEF LaunchStep, StartWorker, BeginLaunch, PrepareWindow, LoadForUpdate, SaveStarting,
         AllocatePane, SavePane, WaitForReady, DispatchFirst, SendFirst, BeginFail, SaveFailed,
         FailLastEvent, FailRow
<1>3. \/ UNCHANGED turns \/ NewTurn(e) \/ (\E t : turns' = Opened(turns, t))
      \/ \E t, a : turns' = Completed(turns, t, a)
  BY DEF LaunchStep, StartWorker, BeginLaunch, PrepareWindow, LoadForUpdate, SaveStarting,
         AllocatePane, SavePane, WaitForReady, DispatchFirst, SendFirst, BeginFail, SaveFailed,
         FailLastEvent, FailRow, Send
<1>4. NoneDone
  BY <1>2, NoneDoneOps
<1>5. TurnsKept
  BY <1>3, TurnsStay
<1>6. QED
  BY <1>1, <1>4, <1>5 DEF Harmless

\* The row that a completion drains is that of one of the messages.
LEMMA DrainedItem ==
    ASSUME IInv, NEW t \in Turns, DrainBusy(t)
    PROVE  queue[thread[Reply(t)].row].item \in Events
<1>1. Reply(t) \in Processes /\ thread[Reply(t)].at = "drain_busy"
  BY ProcessNames DEF DrainBusy, At
<1>2. thread[Reply(t)].row \in DOMAIN queue
  BY <1>1, HandFacts, LoadFacts DEF Holds, RowInHand, NoRow
<1>3. QED
  BY <1>2, TablesFacts DEF IInv

LEMMA ReplayMoves ==
    ASSUME IInv, BacklogFits, Replay
    PROVE  \E e \in Events : Others({Slack(e), Launch(e)})
<1>1. backlog # {}
  BY DEF Replay, ReplayCreating, ReplayShutdown, ReplayFail, ReplayDefer
<1>2. NextRow \in DOMAIN queue
  BY <1>1, LoadFacts, NextRowWaits DEF IInv, BooksOK
<1>3. CASE ReplayFail \/ ReplayDefer
  <2>1. UNCHANGED thread
    BY <1>3 DEF ReplayFail, ReplayDefer
  <2>2. queue[NextRow].item \in Events
    BY <1>2, TablesFacts DEF IInv
  <2>3. QED
    BY <2>1, <2>2 DEF Others
<1>4. CASE ReplayCreating \/ ReplayShutdown
  <2>1. Waits(session) /\ Pending
    BY <1>4 DEF Waits, ReplayCreating, ReplayShutdown
  <2>2. QueueHead = NextRow
    BY <1>1, <2>1, HeadIsNext
  <2>3. PICK e \in Events : e = queue[QueueHead].item
    BY <1>2, <2>2, TablesFacts DEF IInv
  <2>4. PICK r : thread' = [thread EXCEPT ![Launch(e)] = r]
    BY <1>4, <2>3 DEF ReplayCreating, ReplayShutdown
  <2>5. QED
    BY <2>4, ProcessNames DEF Others, IInv, ThreadsOK
<1>5. QED
  BY <1>3, <1>4 DEF Replay

\* The hook server's threads: the tables but for the completion, and the turns.
LEMMA ReplyRowsDone ==
    ASSUME IInv, NEW t \in Turns, ReplyStep(t) \/ CompleteStep(t), ~BeginComplete(t)
    PROVE  NoneDone
<1>1. \/ UNCHANGED queue \/ (\E e, status : EQ!UpdateEvent(e, status))
      \/ (\E q : EQ!MarkEventQueueRetryable(q))
      \/ \E q, item : EQ!ClaimEventQueueHead("conversation", q, item)
  BY DEF ReplyStep, BeginReply, PostReply, RecordReply, CloseAttempt, CheckTurn, SaveIdentity,
         MarkDone, CompleteStep, CompleteWait, CompleteTurn, DrainClaim, DrainBusy, DrainSend,
         DrainUndo, DrainRetry
<1>2. QED
  BY <1>1, NoneDoneOps

LEMMA ReplyTurnsKept ==
    ASSUME IInv, NEW t \in Turns, ReplyStep(t) \/ CompleteStep(t)
    PROVE  TurnsKept
<1>1. CASE ReplyStep(t)
  <2>1. UNCHANGED turns \/ turns' = Completed(turns, t, "closed")
    BY <1>1 DEF ReplyStep, BeginReply, PostReply, RecordReply, CloseAttempt, CheckTurn,
                SaveIdentity, MarkDone
  <2>2. QED
    BY <2>1, TurnsStay
<1>2. CASE CompleteStep(t) /\ ~DrainBusy(t)
  <2>1. \/ UNCHANGED turns \/ (\E u : turns' = Opened(turns, u))
        \/ \E u, a : turns' = Completed(Opened(turns, u), u, a)
    BY <1>2 DEF CompleteStep, BeginComplete, CompleteWait, CompleteTurn, DrainClaim, DrainSend,
                DrainUndo, DrainRetry, Send, SendsAgain, SendFailsAndCloses
  <2>2. QED
    BY <2>1, TurnsStay
<1>3. CASE DrainBusy(t)
  <2> DEFINE q == thread[Reply(t)].row
  <2>1. CASE UNCHANGED turns
    BY <2>1, TurnsStay
  <2>2. CASE NewTurn(queue[q].item)
    BY <1>3, <2>2, DrainedItem, TurnsStay
  <2>3. QED
    BY <1>3, <2>1, <2>2 DEF DrainBusy
<1>4. QED
  BY <1>1, <1>2, <1>3

LEMMA ReplayHarmless == ASSUME IInv, Replay PROVE Harmless
<1>1. UNCHANGED <<turns, posted>>
  BY DEF Replay, ReplayCreating, ReplayShutdown, ReplayFail, ReplayDefer
<1>2. \/ UNCHANGED queue \/ (\E q : EQ!FailEventQueueRow(q))
      \/ \E q, item : EQ!ClaimEventQueueHead("conversation", q, item)
  BY DEF Replay, ReplayCreating, ReplayShutdown, ReplayFail, ReplayDefer
<1>3. QED
  BY <1>1, <1>2, NoneDoneOps, TurnsStay DEF Harmless

LEMMA RebootHarmless == ASSUME IInv, Reboot PROVE Harmless
<1>1. NoneDone
  BY NoneDoneOps DEF Reboot
<1>2. \A t \in DOMAIN turns : turns[t] \in Attempt
  BY TurnsFacts DEF IInv
<1>3. ASSUME turns' = Finalized(turns, session.turn, "closed") PROVE TurnsKept
  <2>1. \A t \in DOMAIN turns : [turns[t] EXCEPT !.attempt = "closed"].event = turns[t].event
    BY <1>2 DEF Attempt
  <2>2. QED
    BY <1>3, <2>1 DEF Finalized, TurnsKept
<1>4. UNCHANGED posted /\ (UNCHANGED turns \/ turns' = Finalized(turns, session.turn, "closed"))
  BY DEF Reboot
<1>5. QED
  BY <1>1, <1>3, <1>4, TurnsStay DEF Harmless

LEMMA AnsweredStep ==
    ASSUME IInv, Undisturbed, Undisturbed', [Next]_vars, OneDriver, RowsHeld, BacklogFits,
           PostedFirst, DoneAnswered
    PROVE  PostedFirst' /\ DoneAnswered'
<1>1. ASSUME NEW e \in Events,
             Receive(e) \/ RefuseCreate(e) \/ RefuseRecover(e) \/ SlackStep(e)
             \/ RouteStep(e) \/ AnswerStep(e)
      PROVE  PostedFirst' /\ DoneAnswered'
  BY <1>1, SlackMoves, SlackHarmless, OthersPost, AnsweredStays DEF Harmless
<1>2. ASSUME NEW e \in Events, LaunchStep(e) PROVE PostedFirst' /\ DoneAnswered'
  <2>1. Others({Slack(e), Launch(e)})
    BY <1>2, LaunchMoves DEF Others
  <2>2. QED
    BY <1>2, <2>1, LaunchHarmless, OthersPost, AnsweredStays DEF Harmless
<1>3. ASSUME NEW t \in Turns, ReplyStep(t) \/ CompleteStep(t)
      PROVE  PostedFirst' /\ DoneAnswered'
  <2>1. PostedFirst' /\ posted \subseteq posted' /\ TurnsKept
    BY <1>3, ReplyPosts, ReplyTurnsKept
  <2>2. CASE BeginComplete(t)
    BY <2>1, <2>2, CompletionAnswered
  <2>3. CASE ~BeginComplete(t)
    BY <1>3, <2>1, <2>3, ReplyRowsDone, AnsweredStays
  <2>4. QED
    BY <2>1, <2>2, <2>3
<1>4. CASE Replay
  <2>2. PICK e \in Events : Others({Slack(e), Launch(e)})
    BY <1>4, ReplayMoves
  <2>3. QED
    BY <1>4, <2>2, ReplayHarmless, OthersPost, AnsweredStays DEF Harmless
<1>5. CASE Crash
  <2>1. \A n \in Processes : thread'[n].at = "off"
    BY <1>5 DEF Crash, Reboot, Off
  <2>2. PostedFirst'
    BY <2>1, ProcessNames DEF PostedFirst, Posted
  <2>3. QED
    BY <1>5, <2>2, RebootHarmless, AnsweredStays DEF Harmless, Crash
<1>6. CASE WorkerExits \/ UNCHANGED vars
  <2>1. UNCHANGED <<queue, turns, thread, posted>>
    BY <1>6 DEF WorkerExits, vars
  <2>2. QED
    BY <2>1 DEF PostedFirst, DoneAnswered
<1>7. QED
  BY <1>1, <1>2, <1>3, <1>4, <1>5, <1>6, QuietSteps

LEMMA AnsweredInit == Init => PostedFirst /\ DoneAnswered
<1> SUFFICES ASSUME Init PROVE PostedFirst /\ DoneAnswered
  OBVIOUS
<1>1. \A t \in Turns : thread[Reply(t)].at = "off"
  BY ProcessNames DEF Init, Off
<1>2. DOMAIN queue = {}
  BY DEF Init, EQ!Init
<1>3. QED
  BY <1>1, <1>2 DEF PostedFirst, DoneAnswered, Posted

\* A queue row is settled as done only if a turn for its message was answered: no crash
\* between the answer and its completion, no failed send and no late hook call settles a
\* message that nobody has answered.
THEOREM DoneRowsWereAnswered == Spec /\ []Undisturbed => []DoneWasAnswered
<1>1. /\ IInv /\ Undisturbed /\ Undisturbed' /\ [Next]_vars
      /\ (stale # {} \/ (OneDriver /\ RowsHeld /\ BacklogFits))
      /\ (stale # {} \/ (PostedFirst /\ DoneAnswered))
      => (stale # {} \/ (PostedFirst /\ DoneAnswered))'
  BY AnsweredStep, StaleStays
<1>2. stale # {} \/ (PostedFirst /\ DoneAnswered) => DoneWasAnswered
  BY DEF DoneAnswered, DoneWasAnswered, AllTrue
<1>3. QED
  BY <1>1, <1>2, AnsweredInit, Carrier, Always, PTL DEF Spec

-----------------------------------------------------------------------------
(* Who ends a turn *)

ToSend   == {"send", "drain_send", "first", "answer_send"}
GivenUp  == {"fail_event", "fail_row"}
\* A thread that has posted the answer of the turn, and will end it.
Ending(r) == r.at \in {"record", "close", "check", "identity", "finish", "rest", "wait"}

\* A launch that dispatches has a pane, the attempt of a text to send is not closed, and
\* a failed launch has left the conversation's turn.
Apt(r, ts, s) ==
    /\ r.at = "dispatch" => r.pane # NoPane
    /\ r.at \in ToSend => ts[r.turn].attempt \in {"none", "open"}
    /\ r.at \in GivenUp => r.turn = NoTurn \/ r.turn # s.turn

HasPane(s) == s.status \in {"busy", "idle", "waiting"} => s.pane # NoPane

\* The turn is with the worker, or with a thread that sends its text, takes it back, or has
\* posted its answer; or the worker's pane is gone.
HasEnder ==
    \/ InWork(session.turn)
    \/ \E p \in Processes : Sending(thread[p]) \/ Ending(thread[p])
    \/ session.pane \notin panes

WillEnd ==
    /\ HasPane(session)
    /\ \A p \in Processes : Apt(thread[p], turns, session)
    /\ \A m \in inbox : turns[m.turn].attempt = "open"
    /\ session.status = "busy" => HasEnder

\* Places at which nothing is asked of a thread.
Light == Places \ (ToSend \cup GivenUp \cup {"dispatch"})

LEMMA LightIsApt == \A r, ts, s : r.at \in Light => Apt(r, ts, s)
BY DEF Light, Apt, ToSend, GivenUp

\* No attempt is touched: a new turn at most.
AttemptsKept == \A t \in DOMAIN turns : t \in DOMAIN turns' /\ turns'[t].attempt = turns[t].attempt

LEMMA AttemptsStay ==
    ASSUME IInv, UNCHANGED turns \/ \E e \in Events : NewTurn(e)
    PROVE  AttemptsKept
BY TurnAdded DEF AttemptsKept

\* The conversation is not busy afterwards, or the step leaves its turn alone.
LetsAlone(S) ==
    \/ session'.status # "busy"
    \/ /\ session'.status = session.status /\ session'.turn = session.turn
       /\ session'.pane = session.pane /\ UNCHANGED <<panes, inbox>>
       /\ \A n \in S \cap Processes : ~Sending(thread[n]) /\ ~Ending(thread[n])

LEMMA EnderStays ==
    ASSUME WillEnd, NEW S, Others(S), LetsAlone(S), session'.status = "busy"
    PROVE  HasEnder'
<1>1. /\ session.status = "busy" /\ session'.turn = session.turn
      /\ session'.pane = session.pane /\ UNCHANGED <<panes, inbox>>
      /\ \A n \in S \cap Processes : ~Sending(thread[n]) /\ ~Ending(thread[n])
  BY DEF LetsAlone
<1>2. HasEnder
  BY <1>1 DEF WillEnd
<1>3. ASSUME NEW p \in Processes, Sending(thread[p]) \/ Ending(thread[p])
      PROVE  Sending(thread'[p]) \/ Ending(thread'[p])
  BY <1>1, <1>3 DEF Others
<1>4. QED
  BY <1>1, <1>2, <1>3 DEF HasEnder, InWork

\* A thread that was at rest in its hand stays so: it moves or another one does, and no
\* attempt is touched.
LEMMA AptStays ==
    ASSUME IInv, WillEnd, AttemptsKept, session'.turn \in {session.turn, NoTurn, NextTurn},
           NEW p \in Processes, thread'[p] = thread[p]
    PROVE  Apt(thread'[p], turns', session')
<1>1. /\ thread[p].turn \in 0..Len(turns) /\ DOMAIN turns = 1..Len(turns) /\ Len(turns) \in Nat
      /\ thread[p].at \in TurnInHand => thread[p].turn # NoTurn
  BY HandFacts, TurnsFacts DEF IInv, Holds
<1>2. Apt(thread[p], turns, session)
  BY DEF WillEnd
<1>3. thread[p].at \in ToSend => turns'[thread[p].turn].attempt \in {"none", "open"}
  BY <1>1, <1>2 DEF AttemptsKept, Apt, ToSend, TurnInHand, NoTurn
<1>4. thread[p].at \in GivenUp => thread[p].turn = NoTurn \/ thread[p].turn # session'.turn
  BY <1>1, <1>2 DEF Apt, NoTurn, NextTurn
<1>5. QED
  BY <1>2, <1>3, <1>4 DEF Apt

\* A step that touches no attempt and types no text.
LEMMA WillEndStays ==
    ASSUME IInv, WillEnd, NEW S, Others(S),
           \A n \in S : n \in Processes => Apt(thread'[n], turns', session'),
           HasPane(session'), AttemptsKept, inbox' \subseteq inbox,
           session'.turn \in {session.turn, NoTurn, NextTurn},
           LetsAlone(S) \/ \E n \in S \cap Processes : Sending(thread'[n]) \/ Ending(thread'[n])
    PROVE  WillEnd'
<1>1. \A p \in Processes : Apt(thread'[p], turns', session')
  BY AptStays DEF Others
<1>2. \A m \in inbox' : turns'[m.turn].attempt = "open"
  <2>1. \A m \in inbox : m.turn \in DOMAIN turns
    BY TurnsFacts DEF IInv, PanesOK
  <2>2. QED
    BY <2>1 DEF WillEnd, AttemptsKept
<1>3. session'.status = "busy" => HasEnder'
  BY EnderStays DEF HasEnder
<1>4. QED
  BY <1>1, <1>2, <1>3 DEF WillEnd

\* The usual step of one thread, which has no turn to end.
LEMMA LightStep ==
    ASSUME IInv, WillEnd, NEW p \in Processes, Others({p}), thread'[p].at \in Light,
           ~Sending(thread[p]), ~Ending(thread[p]), Steering(session') = Steering(session),
           UNCHANGED <<turns, panes, inbox>>
    PROVE  WillEnd'
<1>1. /\ session'.status = session.status /\ session'.turn = session.turn
      /\ session'.pane = session.pane
  BY DEF Steering
<1>2. \A n \in {p} : n \in Processes => Apt(thread'[n], turns', session')
  BY LightIsApt
<1>3. LetsAlone({p}) /\ HasPane(session')
  BY <1>1 DEF LetsAlone, HasPane, WillEnd
<1>4. AttemptsKept /\ inbox' \subseteq inbox
  BY AttemptsStay
<1>5. QED
  BY <1>1, <1>2, <1>3, <1>4, WillEndStays

\* A step of one thread that ends the turn, or goes on to end it.
LEMMA EndingStep ==
    ASSUME IInv, WillEnd, NEW p \in Processes, Others({p}),
           Apt(thread'[p], turns', session'), HasPane(session'),
           session'.turn \in {session.turn, NoTurn, NextTurn},
           UNCHANGED turns \/ \E e \in Events : NewTurn(e), inbox' \subseteq inbox,
           session'.status # "busy" \/ Sending(thread'[p]) \/ Ending(thread'[p])
    PROVE  WillEnd'
<1>1. \A n \in {p} : n \in Processes => Apt(thread'[n], turns', session')
  OBVIOUS
<1>2. LetsAlone({p}) \/ \E n \in {p} \cap Processes : Sending(thread'[n]) \/ Ending(thread'[n])
  BY DEF LetsAlone
<1>3. AttemptsKept
  BY AttemptsStay
<1>4. QED
  BY <1>1, <1>2, <1>3, WillEndStays

\* A thread closes, or opens, the attempt of turn t; nobody else has that turn in hand.
LEMMA AttemptTouched ==
    ASSUME IInv, WillEnd, NEW p \in Processes, Others({p}), NEW t,
           DOMAIN turns' = DOMAIN turns,
           \A u \in DOMAIN turns : u # t => turns'[u].attempt = turns[u].attempt,
           \A n \in Processes \ {p} : ~Sending(thread[n]) \/ thread[n].turn # t,
           thread'[p].at \in Light,
           \A m \in inbox' : \/ m \in inbox /\ m.turn # t
                             \/ m.turn = t /\ turns'[t].attempt = "open",
           UNCHANGED session,
           session.status = "busy" => HasEnder'
    PROVE  WillEnd'
<1>1. /\ DOMAIN turns = 1..Len(turns)
      /\ \A n \in Processes : thread[n].turn \in 0..Len(turns)
      /\ \A n \in Processes : thread[n].at \in TurnInHand => thread[n].turn # NoTurn
  BY HandFacts, TurnsFacts DEF IInv, Holds
<1>2. ASSUME NEW n \in Processes PROVE Apt(thread'[n], turns', session')
  <2>1. CASE n = p
    BY <2>1, LightIsApt
  <2>2. CASE n # p
    <3>1. thread'[n] = thread[n] /\ Apt(thread[n], turns, session)
      BY <2>2 DEF Others, WillEnd
    <3>2. thread[n].at \in ToSend => thread[n].turn # t /\ thread[n].turn \in DOMAIN turns
      BY <1>1, <2>2 DEF ToSend, Sending, TurnInHand, NoTurn
    <3>3. QED
      BY <3>1, <3>2 DEF Apt
  <2>3. QED
    BY <2>1, <2>2
<1>3. \A m \in inbox' : turns'[m.turn].attempt = "open"
  <2>1. \A m \in inbox : m.turn \in DOMAIN turns
    BY TurnsFacts DEF IInv, PanesOK
  <2>2. QED
    BY <2>1 DEF WillEnd
<1>4. QED
  BY <1>2, <1>3 DEF WillEnd


LEMMA AttemptsWritten ==
    ASSUME IInv, NEW t, NEW a,
           turns' \in {Opened(turns, t), Completed(turns, t, a), Completed(Opened(turns, t), t, a)}
    PROVE  /\ DOMAIN turns' = DOMAIN turns
           /\ \A u \in DOMAIN turns : u # t => turns'[u].attempt = turns[u].attempt
<1>2. /\ DOMAIN Opened(turns, t) = DOMAIN turns
      /\ \A u \in DOMAIN turns : u # t => Opened(turns, t)[u] = turns[u]
  BY DEF Opened
<1>3. ASSUME NEW ts
      PROVE  /\ DOMAIN Completed(ts, t, a) = DOMAIN ts
             /\ \A u \in DOMAIN ts : u # t => Completed(ts, t, a)[u] = ts[u]
  BY DEF Completed
<1>4. CASE turns' = Opened(turns, t)
  BY <1>2, <1>4
<1>5. CASE turns' = Completed(turns, t, a) /\ turns' # Opened(turns, t)
  BY <1>3, <1>5
<1>6. CASE turns' = Completed(Opened(turns, t), t, a) /\ turns' # Opened(turns, t)
  BY <1>2, <1>3, <1>6
<1>7. QED
  BY <1>4, <1>5, <1>6

LEMMA AttemptOpened ==
    ASSUME IInv, NEW t \in DOMAIN turns, turns[t].attempt \in {"none", "open"}
    PROVE  Opened(turns, t)[t].attempt = "open"
<1>1. turns[t] \in Attempt
  BY TurnsFacts DEF IInv
<1>2. QED
  BY <1>1 DEF Opened, Attempt

\* The text of the turn goes into the pane: the worker has it.
LEMMA TextSent ==
    ASSUME IInv, OneDriver, WillEnd, NEW p \in Processes, thread[p].at \in ToSend, NEW e, NEW pane,
           Send(thread[p].turn, e, pane), Others({p}), thread'[p].at \in Light, UNCHANGED session
    PROVE  WillEnd'
<1> DEFINE t == thread[p].turn
<1>1. Sending(thread[p]) /\ ~At(p, "post")
  BY DEF Sending, ToSend, At
<1>2. inbox = {} /\ session.turn = t /\ \A n \in Processes \ {p} : ~Sending(thread[n])
  BY <1>1, DrivesAlone DEF Drives, Suits
<1>3. t \in DOMAIN turns
  BY HandFacts, TurnsFacts DEF IInv, Holds, ToSend, TurnInHand, NoTurn
<1>4. turns[t].attempt \in {"none", "open"}
  BY DEF WillEnd, Apt
<1>5. turns' = Opened(turns, t) /\ inbox' = inbox \cup {[turn |-> t, pane |-> pane]}
  BY DEF Send
<1>6. \A m \in inbox' : m.turn = t
  BY <1>2, <1>5
<1>7. /\ turns'[t].attempt = "open" /\ DOMAIN turns' = DOMAIN turns
      /\ \A u \in DOMAIN turns : u # t => turns'[u].attempt = turns[u].attempt
  <2>1. turns' \in {Opened(turns, t), Completed(turns, t, "closed"),
                   Completed(Opened(turns, t), t, "closed")}
    BY <1>5
  <2>2. turns'[t].attempt = "open"
    BY <1>3, <1>4, <1>5, AttemptOpened
  <2> HIDE DEF t
  <2>3. QED
    BY <2>1, <2>2, AttemptsWritten
<1>8. HasEnder'
  <2>1. [turn |-> t, pane |-> pane] \in inbox' /\ [turn |-> t, pane |-> pane].turn = session'.turn
    BY <1>2, <1>5
  <2>2. QED
    BY <2>1 DEF HasEnder, InWork
<1> HIDE DEF t
<1>9. QED
  BY <1>2, <1>6, <1>7, <1>8, AttemptTouched

\* The text does not go in, and is sent once more: only the attempt is open now.
LEMMA TextTried ==
    ASSUME IInv, OneDriver, WillEnd, NEW p \in Processes, thread[p].at \in ToSend,
           turns' = Opened(turns, thread[p].turn), UNCHANGED <<thread, session, panes, inbox>>
    PROVE  WillEnd'
<1>1. Sending(thread[p]) /\ ~At(p, "post")
  BY DEF Sending, ToSend, At
<1>2. inbox = {}
  BY <1>1, DrivesAlone DEF Drives
<1>3. /\ DOMAIN turns = 1..Len(turns)
      /\ \A n \in Processes : thread[n].turn \in 0..Len(turns)
      /\ \A n \in Processes : thread[n].at \in TurnInHand => thread[n].turn # NoTurn
  BY HandFacts, TurnsFacts DEF IInv, Holds
<1>4. \A n \in Processes : thread[n].at \in ToSend =>
          thread[n].turn \in DOMAIN turns /\ turns[thread[n].turn].attempt \in {"none", "open"}
  BY <1>3 DEF WillEnd, Apt, ToSend, TurnInHand, NoTurn
<1>5. PICK t : t = thread[p].turn
  OBVIOUS
<1>a. turns' = Opened(turns, t)
  BY <1>5
<1>b. turns' \in {Opened(turns, t), Completed(turns, t, "closed"),
                 Completed(Opened(turns, t), t, "closed")}
  BY <1>a
<1>6. /\ \A u \in DOMAIN turns : u # t => turns'[u].attempt = turns[u].attempt
      /\ turns'[t].attempt = "open" /\ DOMAIN turns' = DOMAIN turns
  <2>1. t \in DOMAIN turns /\ turns[t].attempt \in {"none", "open"}
    BY <1>4, <1>5
  <2>2. turns'[t].attempt = "open"
    BY <1>a, <2>1, AttemptOpened
  <2>3. QED
    BY <1>b, <2>2, AttemptsWritten
<1>7. \A n \in Processes : Apt(thread'[n], turns', session')
  BY <1>4, <1>6 DEF Apt, WillEnd
<1>8. HasEnder'
  BY <1>1 DEF HasEnder
<1>9. QED
  BY <1>2, <1>7, <1>8 DEF WillEnd, HasPane

\* The text does not go in: the thread takes the turn back.
LEMMA TextNotSent ==
    ASSUME IInv, OneDriver, WillEnd, NEW p \in Processes, thread[p].at \in ToSend, NEW a,
           turns' \in {turns, Opened(turns, thread[p].turn),
                       Completed(Opened(turns, thread[p].turn), thread[p].turn, a)},
           Others({p}), thread'[p].at \in Light, Sending(thread'[p]),
           UNCHANGED <<session, inbox>>
    PROVE  WillEnd'
<1> DEFINE t == thread[p].turn
<1>1. Sending(thread[p]) /\ ~At(p, "post")
  BY DEF Sending, ToSend, At
<1>2. inbox = {} /\ session.turn = t /\ \A n \in Processes \ {p} : ~Sending(thread[n])
  BY <1>1, DrivesAlone DEF Drives, Suits
<1>3. HasEnder'
  BY DEF HasEnder
<1>0. turns' \in {turns, Opened(turns, t), Completed(Opened(turns, t), t, a)}
  OBVIOUS
<1> HIDE DEF t
<1>4. /\ DOMAIN turns' = DOMAIN turns
      /\ \A u \in DOMAIN turns : u # t => turns'[u].attempt = turns[u].attempt
  <2>1. CASE turns' = turns
    BY <2>1
  <2>2. CASE turns' \in {Opened(turns, t), Completed(turns, t, a), Completed(Opened(turns, t), t, a)}
    BY <2>2, AttemptsWritten
  <2>3. QED
    BY <1>0, <2>1, <2>2
<1>5. \A m \in inbox' : FALSE
  BY <1>2
<1>6. QED
  BY <1>2, <1>3, <1>4, <1>5, AttemptTouched

\* The row is in Known, and what a write makes of it.
LEMMA WrittenRows ==
    ASSUME IInv
    PROVE  /\ \A x : /\ Clear(session, x).status = x /\ Clear(session, x).turn = NoTurn
                     /\ Clear(session, x).pane = session.pane
           /\ \A t, q : /\ Activate(session, t, q).status = "busy"
                        /\ Activate(session, t, q).turn = t
                        /\ Activate(session, t, q).pane = session.pane
BY DEF IInv, Known, Clear, Activate

LEMMA SlackWillEnd ==
    ASSUME IInv, OneDriver, WillEnd, stale' = {}, NEW e \in Events,
           Receive(e) \/ RefuseCreate(e) \/ RefuseRecover(e) \/ SlackStep(e)
    PROVE  WillEnd'
<1> DEFINE p == Slack(e)
<1>p. p \in Processes /\ Launch(e) \in Processes /\ p # Launch(e)
  BY ProcessNames
<1>q. \A where \in {"off", "create", "refused", "cursor", "mark", "recover", "route"} : where \in Light
  BY DEF Light, Places, ToSend, GivenUp
<1> HIDE DEF p
<1>1. CASE Receive(e) \/ RefuseCreate(e) \/ RefuseRecover(e) \/ MarkRefused(e) \/ MarkQueued(e)
  <2>1. UNCHANGED <<session, turns, panes, inbox>> /\ ~Sending(thread[p]) /\ ~Ending(thread[p])
    BY <1>1 DEF Receive, RefuseCreate, RefuseRecover, MarkRefused, MarkQueued, p, At, Sending,
                Ending, Failing
  <2>2. PICK where \in {"create", "refused", "cursor", "mark", "off"} :
           Enter(p, where, session) \/ Pass(p, where) \/ (where = "off" /\ End(p))
    BY <1>1 DEF Receive, RefuseCreate, RefuseRecover, MarkRefused, MarkQueued, p
  <2>3. thread'[p].at = where /\ Others({p})
    BY <1>p, <2>2, Moving DEF Moved
  <2>4. QED
    BY <1>p, <1>q, <2>1, <2>3, LightStep, SameRow
<1>2. CASE UpdateCursor(e)
  <2> DEFINE s == [Snap(p) EXCEPT !.last = e]
  <2>1. /\ Save(Snap(p), s) /\ UNCHANGED <<turns, panes, inbox>>
        /\ ~Sending(thread[p]) /\ ~Ending(thread[p])
    BY <1>2 DEF UpdateCursor, p, At, Sending, Ending, Failing
  <2>2. s.row = Snap(p).row /\ s.turn = Snap(p).turn /\ s.status = Snap(p).status
        /\ s.pane = Snap(p).pane
    BY <1>p, HandFacts DEF Known
  <2> HIDE DEF s
  <2>3. Steering(session') = Steering(session)
    BY <2>1, <2>2, FreshSave DEF Steering
  <2>4. PICK new : new = session'
    OBVIOUS
  <2>5. Enter(p, "recover", new) \/ Pass(p, "route")
    BY <1>2, <2>4 DEF UpdateCursor, p
  <2>6. thread'[p].at \in {"recover", "route"} /\ Others({p})
    BY <1>p, <2>5, Moving DEF Moved
  <2>7. QED
    BY <1>p, <1>q, <2>1, <2>3, <2>6, LightStep
<1>3. CASE CreateSession(e)
  <2>1. CASE session.status = "absent"
    <3> DEFINE s == [Absent EXCEPT !.status = "creating", !.last = e]
               r == [Off EXCEPT !.at = "start", !.snap = s, !.row = Len(queue) + 1]
    <3>1. /\ session' = s /\ thread' = [thread EXCEPT ![p] = Off, ![Launch(e)] = r]
          /\ UNCHANGED <<turns, panes, inbox>>
      BY <1>3, <2>1 DEF CreateSession, p
    <3>2. s.turn = NoTurn /\ s.status = "creating" /\ r.at = "start" /\ Off.at = "off"
      BY DEF Absent, Off
    <3> HIDE DEF s, r
    <3>3. thread'[p] = Off /\ thread'[Launch(e)] = r /\ Others({p, Launch(e)})
      BY <1>p, <3>1 DEF Others, IInv, ThreadsOK
    <3>4. \A n \in {p, Launch(e)} : n \in Processes => Apt(thread'[n], turns', session')
      BY <3>2, <3>3, LightIsApt DEF Light, Places, ToSend, GivenUp
    <3>5. LetsAlone({p, Launch(e)}) /\ HasPane(session')
      BY <3>1, <3>2 DEF LetsAlone, HasPane
    <3>6. QED
      BY <3>1, <3>2, <3>3, <3>4, <3>5, WillEndStays, AttemptsStay
  <2>2. CASE session.status # "absent"
    <3>1. /\ UNCHANGED <<session, turns, panes, inbox>> /\ ~Sending(thread[p]) /\ ~Ending(thread[p])
          /\ \E where \in {"refused", "cursor"} : Enter(p, where, session)
      BY <1>3, <2>2 DEF CreateSession, p, At, Sending, Ending, Failing
    <3>2. thread'[p].at \in {"refused", "cursor"} /\ Others({p})
      BY <1>p, <3>1, Moving DEF Moved
    <3>3. QED
      BY <1>p, <1>q, <3>1, <3>2, LightStep, SameRow
  <2>3. QED
    BY <2>1, <2>2
<1>4. QED
  BY <1>1, <1>2, <1>3 DEF SlackStep


LEMMA RouteWillEnd ==
    ASSUME IInv, OneDriver, PanesHeld, WillEnd, stale' = {}, NEW e \in Events,
           RouteStep(e) \/ AnswerStep(e)
    PROVE  WillEnd'
<1> DEFINE p == Slack(e)
<1>p. p \in Processes /\ Launch(e) \in Processes /\ p # Launch(e)
  BY ProcessNames
<1>q. \A where \in {"answer", "append", "mark", "recover", "active", "race", "route", "requeue",
                    "rollback", "answer_save", "answer_undo", "launch", "start"} : where \in Light
  BY DEF Light, Places, ToSend, GivenUp
<1>s. session \in Known /\ session.status \in Status \cup {"absent"}
  BY DEF IInv, Known
<1> HIDE DEF p
<1>1. CASE Route(e) \/ RouteQueue(e) \/ RouteRace(e)
  <2>1. UNCHANGED <<session, turns, panes, inbox>> /\ ~Sending(thread[p]) /\ ~Ending(thread[p])
    BY <1>1 DEF Route, RouteQueue, RouteRace, p, At, Sending, Ending, Failing
  <2>2. PICK where \in {"answer", "append", "mark", "recover", "active", "route"} :
           Enter(p, where, session) \/ Pass(p, where)
    BY <1>1, <1>s DEF Route, RouteQueue, RouteRace, p, Branches, Status
  <2>3. thread'[p].at = where /\ Others({p})
    BY <1>p, <2>2, Moving DEF Moved
  <2>4. QED
    BY <1>p, <1>q, <2>1, <2>3, LightStep, SameRow
<1>2. CASE RouteActive(e) \/ Answer(e)
  <2>1. UNCHANGED <<panes, inbox>> /\ ~Sending(thread[p]) /\ ~Ending(thread[p])
    BY <1>2 DEF RouteActive, Answer, p, At, Sending, Ending, Failing
  <2>2. CASE UNCHANGED <<session, turns>> /\ (Keep(p, "race") \/ Pass(p, "mark"))
    <3>1. thread'[p].at \in {"race", "mark"} /\ Others({p})
      BY <1>p, <2>2, Moving DEF Moved
    <3>2. QED
      BY <1>p, <1>q, <2>1, <2>2, <3>1, LightStep, SameRow
  <2>3. CASE ~(UNCHANGED <<session, turns>> /\ (Keep(p, "race") \/ Pass(p, "mark")))
    <3>0. PICK new : new = session'
      OBVIOUS
    <3> DEFINE r == [Off EXCEPT !.at = "send", !.turn = NextTurn, !.pane = session.pane]
               a == [Off EXCEPT !.at = "answer_send", !.turn = NextTurn, !.snap = new]
    <3>1. /\ session' = Activate(session, NextTurn, NoRow) /\ (Become(p, r) \/ Become(p, a))
          /\ session.status \in {"idle", "waiting"} /\ NewTurn(e)
      BY <1>2, <2>3, <3>0 DEF RouteActive, Answer, Move, CanMove, p
    <3>2. /\ r.at = "send" /\ r.turn = NextTurn
          /\ a.at = "answer_send" /\ a.turn = NextTurn
      BY DEF Off
    <3> HIDE DEF r, a
    <3>3. /\ thread'[p].at \in {"send", "answer_send"} /\ thread'[p].turn = NextTurn
          /\ Others({p})
      BY <1>p, <3>1, <3>2, BecomeMoves
    <3>4. Sending(thread'[p])
      BY <3>3 DEF Sending
    <3>5. Apt(thread'[p], turns', session')
      BY <3>1, <3>3, TurnAdded DEF Apt, GivenUp
    <3>6. HasPane(session') /\ session'.turn = NextTurn
      BY <3>1, WrittenRows DEF HasPane, WillEnd
    <3>7. QED
      BY <1>p, <2>1, <3>1, <3>3, <3>4, <3>5, <3>6, EndingStep
  <2>4. QED
    BY <2>2, <2>3
<1>3. CASE SendActive(e) \/ SendAnswer(e)
  <2>1. UNCHANGED session /\ thread[p].at \in ToSend
    BY <1>3 DEF SendActive, SendAnswer, p, At, ToSend
  <2>2. PICK pane : pane = IF SendActive(e) THEN thread[p].pane ELSE Snap(p).pane
    OBVIOUS
  <2>3. CASE Send(thread[p].turn, e, pane) /\ (Pass(p, "mark") \/ Keep(p, "answer_save"))
    <3>1. thread'[p].at \in {"mark", "answer_save"} /\ Others({p})
      BY <1>p, <2>3, Moving DEF Moved
    <3>2. QED
      BY <1>p, <1>q, <2>1, <2>3, <3>1, TextSent
  <2>4. CASE /\ SendFails(thread[p].turn, pane) /\ (Goto(p, "requeue") \/ Goto(p, "answer_undo"))
             /\ turns' \in {turns, Opened(turns, thread[p].turn),
                            Completed(Opened(turns, thread[p].turn), thread[p].turn, "closed")}
    <3>1. thread'[p].at \in {"requeue", "answer_undo"} /\ Others({p})
      BY <1>p, <2>4, Moving DEF Moved
    <3>2. Sending(thread'[p]) /\ UNCHANGED inbox
      BY <2>4, <3>1, NothingTyped DEF Sending
    <3>3. QED
      BY <1>p, <1>q, <2>1, <2>4, <3>1, <3>2, TextNotSent
  <2>8. CASE SendsAgain(thread[p].turn, pane) /\ UNCHANGED thread
    BY <1>p, <2>1, <2>8, TextTried, NothingTyped DEF SendsAgain
  <2>5. CASE SendActive(e)
    BY <2>2, <2>3, <2>4, <2>5, <2>8 DEF SendActive, SendFailsAndCloses, p
  <2>6. CASE SendAnswer(e) /\ ~SendActive(e)
    BY <2>2, <2>3, <2>4, <2>6 DEF SendAnswer, p
  <2>7. QED
    BY <1>3, <2>5, <2>6
<1>4. CASE Requeue(e)
  <2>1. UNCHANGED <<session, turns, panes, inbox>> /\ Goto(p, "rollback")
    BY <1>4 DEF Requeue, p
  <2>2. thread'[p].at = "rollback" /\ Others({p})
    BY <1>p, <2>1, Moving DEF Moved
  <2>3. Sending(thread'[p]) /\ Apt(thread'[p], turns', session')
    BY <1>q, <2>2, LightIsApt DEF Sending
  <2>4. HasPane(session')
    BY <2>1 DEF WillEnd
  <2>5. QED
    BY <1>p, <2>1, <2>2, <2>3, <2>4, EndingStep
<1>5. CASE Rollback(e) \/ AnswerUndo(e)
  <2>1. UNCHANGED <<turns, panes, inbox>> /\ Pass(p, "mark") /\ Sending(thread[p]) /\ ~At(p, "post")
    BY <1>5 DEF Rollback, AnswerUndo, p, At, Sending
  <2>2. session.status = "busy"
    BY <1>p, <2>1, DrivesAlone DEF Drives, Suits
  <2>3. \E x \in {"idle", "waiting"} : session' = Clear(session, x)
    <3>1. CanMove({"busy"}, "waiting") /\ CanMove({"busy"}, "idle")
      BY <2>2 DEF CanMove, Allowed
    <3>2. QED
      BY <1>5, <3>1 DEF Rollback, AnswerUndo, ReleaseBusy, Move
  <2>4. session'.status # "busy" /\ session'.turn = NoTurn /\ HasPane(session')
    BY <2>2, <2>3, WrittenRows DEF WillEnd, HasPane
  <2>5. thread'[p].at = "mark" /\ Others({p})
    BY <1>p, <2>1, Moving DEF Moved
  <2>6. QED
    BY <1>p, <1>q, <2>1, <2>4, <2>5, LightIsApt, EndingStep
<1>6. CASE SaveAnswered(e)
  <2>1. Save(Snap(p), Snap(p)) /\ UNCHANGED <<turns, panes, inbox>> /\ Pass(p, "mark")
        /\ ~Sending(thread[p]) /\ ~Ending(thread[p])
    BY <1>6 DEF SaveAnswered, p, At, Sending, Ending, Failing
  <2>2. Steering(session') = Steering(session)
    BY <2>1, FreshSave DEF Steering
  <2>3. thread'[p].at = "mark" /\ Others({p})
    BY <1>p, <2>1, Moving DEF Moved
  <2>4. QED
    BY <1>p, <1>q, <2>1, <2>2, <2>3, LightStep
<1>7. CASE RecoverSession(e)
  <2>1. CASE Pass(p, "mark") /\ UNCHANGED session
    <3>1. /\ UNCHANGED <<session, turns, panes, inbox>>
          /\ ~Sending(thread[p]) /\ ~Ending(thread[p])
      BY <1>7, <2>1 DEF RecoverSession, p, At, Sending, Ending, Failing
    <3>2. thread'[p].at = "mark" /\ Others({p})
      BY <1>p, <2>1, Moving DEF Moved
    <3>3. QED
      BY <1>p, <1>q, <3>1, <3>2, LightStep, SameRow
  <2>2. CASE ~(Pass(p, "mark") /\ UNCHANGED session)
    <3> DEFINE s == [Clear(session, "starting") EXCEPT !.why = "none", !.pane = NoPane]
               r == [Off EXCEPT !.at = "mark"]
               n == [Off EXCEPT !.at = "launch", !.snap = s]
    <3>1. /\ Move({"suspended", "killed"}, s) /\ UNCHANGED <<turns, panes, inbox>>
          /\ thread' = [thread EXCEPT ![p] = r, ![Launch(e)] = n]
      BY <1>7, <2>2 DEF RecoverSession, Move, p
    <3>2. s.status = "starting" /\ s.turn = NoTurn /\ r.at = "mark" /\ n.at = "launch"
      BY <1>s DEF Clear, Known, Off
    <3> HIDE DEF s, r, n
    <3>3. session' = s
      BY <3>1 DEF Move
    <3>4. thread'[p] = r /\ thread'[Launch(e)] = n /\ Others({p, Launch(e)})
      BY <1>p, <3>1 DEF Others, IInv, ThreadsOK
    <3>5. \A m \in {p, Launch(e)} : m \in Processes => Apt(thread'[m], turns', session')
      BY <1>q, <3>2, <3>4, LightIsApt
    <3>6. LetsAlone({p, Launch(e)}) /\ HasPane(session')
      BY <3>2, <3>3 DEF LetsAlone, HasPane
    <3>7. QED
      BY <3>1, <3>2, <3>3, <3>4, <3>5, <3>6, WillEndStays, AttemptsStay
  <2>3. QED
    BY <2>1, <2>2
<1>8. QED
  BY <1>1, <1>2, <1>3, <1>4, <1>5, <1>6, <1>7 DEF RouteStep, AnswerStep


LEMMA LaunchWillEnd ==
    ASSUME IInv, OneDriver, PanesHeld, WillEnd, stale' = {}, NEW e \in Events, LaunchStep(e)
    PROVE  WillEnd'
<1> DEFINE p == Launch(e)
<1>p. p \in Processes /\ thread[p] \in Hand
  BY ProcessNames, HandFacts
<1>q. \A where \in {"off", "launch", "window", "load", "prepare", "allocate", "pane", "ready",
                    "timeout", "fail", "fail_load", "fail_error", "suspend_load",
                    "fail_suspend"} : where \in Light
  BY DEF Light, Places, ToSend, GivenUp
<1>s. session \in Known /\ HasPane(session)
  BY DEF IInv, WillEnd
<1> HIDE DEF p
<1>1. CASE StartWorker(e) \/ BeginLaunch(e)
  <2>1. /\ thread[p].at \in {"start", "launch"} /\ ~Sending(thread[p]) /\ ~Ending(thread[p])
        /\ UNCHANGED <<turns, panes, inbox>>
    BY <1>1 DEF StartWorker, BeginLaunch, p, At, Sending, Ending, Failing
  <2>2. Goto(p, "launch") \/ Goto(p, "window") \/ End(p)
    BY <1>1 DEF StartWorker, BeginLaunch, p
  <2>3. thread'[p].at \in {"off", "launch", "window"} /\ Others({p})
    BY <1>p, <2>2, Moving DEF Moved
  <2>4. CASE UNCHANGED session
    BY <1>p, <1>q, <2>1, <2>3, <2>4, LightStep, SameRow
  <2>5. CASE session' = [session EXCEPT !.status = "starting"]
    <3>1. session'.status = "starting" /\ session'.turn = session.turn
      BY <1>s, <2>5 DEF Known
    <3>2. HasPane(session') /\ Apt(thread'[p], turns', session')
      BY <1>q, <2>3, <3>1, LightIsApt DEF HasPane
    <3>3. QED
      BY <1>p, <2>1, <2>3, <3>1, <3>2, EndingStep
  <2>6. QED
    BY <1>1, <2>4, <2>5 DEF StartWorker, BeginLaunch, Move
<1>2. CASE PrepareWindow(e)
  <2>1. /\ UNCHANGED <<session, turns, panes, inbox>> /\ ~Sending(thread[p]) /\ ~Ending(thread[p])
        /\ Goto(p, "fail") \/ Goto(p, "load")
    BY <1>2 DEF PrepareWindow, p, At, Sending, Ending, Failing
  <2>2. thread'[p].at \in {"fail", "load"} /\ Others({p})
    BY <1>p, <2>1, Moving DEF Moved
  <2>3. QED
    BY <1>p, <1>q, <2>1, <2>2, LightStep, SameRow
<1>3. CASE LoadForUpdate(e)
  <2>1. /\ UNCHANGED <<session, turns, panes, inbox>>
        /\ thread[p].at \in {"load", "fail_load", "suspend_load"}
    BY <1>3 DEF LoadForUpdate, p
  <2>2. PICK where \in {"prepare", "fail_error", "fail_suspend"} :
           Enter(p, where, session) /\ (thread[p].at = "fail_load" => where = "fail_error")
    BY <1>3, <2>1 DEF LoadForUpdate, p
  <2>3. thread'[p].at = where /\ thread'[p].turn = thread[p].turn /\ Others({p})
    BY <1>p, <2>2, Moving DEF Moved
  <2>4. CASE ~Sending(thread[p])
    BY <1>p, <1>q, <2>1, <2>3, <2>4, LightStep, SameRow DEF Ending
  <2>5. CASE Sending(thread[p])
    <3>1. Sending(thread'[p])
      BY <2>1, <2>2, <2>3, <2>5 DEF Sending, Failing
    <3>2. Apt(thread'[p], turns', session') /\ HasPane(session')
      BY <1>q, <1>s, <2>1, <2>3, LightIsApt
    <3>3. QED
      BY <1>p, <2>1, <2>3, <3>1, <3>2, EndingStep
  <2>6. QED
    BY <2>4, <2>5
<1>4. CASE SaveStarting(e)
  <2>1. /\ UNCHANGED <<turns, panes, inbox>> /\ Goto(p, "allocate")
        /\ Save(Snap(p), [Snap(p) EXCEPT !.status = "starting"])
    BY <1>4 DEF SaveStarting, p
  <2>2. Snap(p) \in Known
    BY <1>p, HandFacts
  <2>3. session'.status = "starting" /\ session'.turn = session.turn
    BY <2>1, <2>2, FreshSave DEF Known
  <2>4. thread'[p].at = "allocate" /\ Others({p})
    BY <1>p, <2>1, Moving DEF Moved
  <2>5. HasPane(session') /\ Apt(thread'[p], turns', session')
    BY <1>q, <2>3, <2>4, LightIsApt DEF HasPane
  <2>6. QED
    BY <1>p, <2>1, <2>3, <2>4, <2>5, EndingStep
<1>5. CASE AllocatePane(e) \/ SavePane(e)
  <2>1. Starting(thread[p]) /\ UNCHANGED <<turns, inbox>>
    BY <1>5 DEF AllocatePane, SavePane, p, At, Starting, OnTheWay
  <2>2. session.status = "starting"
    BY <1>p, <2>1 DEF OneDriver, Suits
  <2>3. session'.status = "starting" /\ session'.turn = session.turn
    <3>1. CASE AllocatePane(e)
      BY <2>2, <3>1 DEF AllocatePane
    <3>2. CASE SavePane(e)
      <4>1. /\ Snap(p) \in Known
            /\ Save(Snap(p), [Snap(p) EXCEPT !.pane = thread[p].pane]) \/ session' = session
        BY <1>p, <3>2, HandFacts DEF SavePane, p
      <4>2. QED
        BY <2>2, <4>1, FreshSave DEF Known
    <3>3. QED
      BY <1>5, <3>1, <3>2
  <2>4. thread'[p].at \in {"pane", "fail", "ready"} /\ Others({p})
    <3>1. PICK n : n = NewPane
      OBVIOUS
    <3> DEFINE r == [thread[p] EXCEPT !.at = "pane", !.snap = session, !.pane = n]
    <3>2. Become(p, r) \/ Goto(p, "fail") \/ Goto(p, "ready") \/ LosePane(e)
      BY <1>5, <3>1 DEF AllocatePane, SavePane, p
    <3>5. LosePane(e) => LostPane(p)
      BY LosesPane DEF p
    <3>3. r.at = "pane"
      BY <1>p DEF Hand
    <3> HIDE DEF r
    <3>4. QED
      BY <1>p, <3>2, <3>3, <3>5, BecomeMoves, Moving DEF Moved, LostPane
  <2>5. HasPane(session') /\ Apt(thread'[p], turns', session')
    BY <1>q, <2>3, <2>4, LightIsApt DEF HasPane
  <2>6. QED
    BY <1>p, <2>1, <2>3, <2>4, <2>5, EndingStep
<1>6. CASE WaitForReady(e)
  <2>1. thread[p].at = "ready" /\ UNCHANGED <<session, turns, panes, inbox>>
    BY <1>6 DEF WaitForReady, p, At
  <2>2. PICK where \in {"dispatch", "timeout", "fail"} :
           Goto(p, where) /\ (where = "dispatch" => thread[p].pane \in panes)
    BY <1>6 DEF WaitForReady, p, Alive
  <2>3. thread'[p].at = where /\ thread'[p].pane = thread[p].pane /\ Others({p})
    BY <1>p, <2>2, Moving DEF Moved
  <2>4. NoPane \notin panes
    BY DEF IInv, PanesOK
  <2>5. Apt(thread'[p], turns', session')
    BY <2>2, <2>3, <2>4 DEF Apt, ToSend, GivenUp
  <2>6. LetsAlone({p})
    BY <2>1 DEF LetsAlone, Sending, Ending, Failing
  <2>7. \A n \in {p} : n \in Processes => Apt(thread'[n], turns', session')
    BY <2>5
  <2>8. QED
    BY <1>p, <1>s, <2>1, <2>3, <2>6, <2>7, WillEndStays, AttemptsStay
<1>7. CASE DispatchFirst(e)
  <2>1. thread[p].at = "dispatch" /\ UNCHANGED <<panes, inbox>>
    BY <1>7 DEF DispatchFirst, p, At
  <2>2. session.status = "starting" /\ thread[p].pane = session.pane /\ thread[p].pane # NoPane
    BY <1>p, <2>1 DEF OneDriver, Suits, Starting, OnTheWay, PanesHeld, Holding, WillEnd, Apt
  <2>3. CASE Goto(p, "fail") /\ UNCHANGED <<session, turns>>
    <3>1. thread'[p].at = "fail" /\ Others({p})
      BY <1>p, <2>3, Moving DEF Moved
    <3>2. ~Sending(thread[p]) /\ ~Ending(thread[p])
      BY <2>1 DEF Sending, Ending, Failing
    <3>3. QED
      BY <1>p, <1>q, <2>1, <2>3, <3>1, <3>2, LightStep, SameRow
  <2>4. CASE ~(Goto(p, "fail") /\ UNCHANGED <<session, turns>>)
    <3> DEFINE r == [thread[p] EXCEPT !.at = "first", !.turn = NextTurn]
    <3>1. /\ session' = Activate(session, NextTurn, thread[p].row) /\ NewTurn(e) /\ Become(p, r)
      BY <1>7, <2>4 DEF DispatchFirst, Move, p
    <3>2. r.at = "first" /\ r.turn = NextTurn
      BY <1>p DEF Hand
    <3> HIDE DEF r
    <3>3. thread'[p].at = "first" /\ thread'[p].turn = NextTurn /\ Others({p})
      BY <1>p, <3>1, <3>2, BecomeMoves
    <3>4. Sending(thread'[p]) /\ Apt(thread'[p], turns', session')
      BY <3>1, <3>3, TurnAdded DEF Sending, Apt, GivenUp
    <3>5. HasPane(session') /\ session'.turn = NextTurn
      BY <2>2, <3>1, WrittenRows DEF HasPane
    <3>6. QED
      BY <1>p, <2>1, <3>1, <3>3, <3>4, <3>5, EndingStep
  <2>5. QED
    BY <2>3, <2>4
<1>8. CASE SendFirst(e)
  <2>1. UNCHANGED session /\ thread[p].at \in ToSend
    BY <1>8 DEF SendFirst, p, At, ToSend
  <2>2. CASE Send(thread[p].turn, e, thread[p].pane) /\ End(p)
    <3>1. thread'[p].at = "off" /\ Others({p})
      BY <1>p, <2>2, Moving DEF Moved
    <3>2. QED
      BY <1>p, <1>q, <2>1, <2>2, <3>1, TextSent
  <2>3. CASE /\ SendFails(thread[p].turn, thread[p].pane) /\ Goto(p, "fail")
             /\ turns' = Opened(turns, thread[p].turn)
    <3>1. thread'[p].at = "fail" /\ thread'[p].turn = thread[p].turn /\ Others({p})
      BY <1>p, <2>3, Moving DEF Moved
    <3>2. thread[p].turn # NoTurn
      BY <1>p, <2>1, HandFacts DEF Holds, ToSend, TurnInHand
    <3>3. Sending(thread'[p]) /\ UNCHANGED inbox
      BY <2>3, <3>1, <3>2, NothingTyped DEF Sending, Failing
    <3>4. QED
      BY <1>p, <1>q, <2>1, <2>3, <3>1, <3>3, TextNotSent
  <2>4. QED
    BY <1>8, <2>2, <2>3 DEF SendFirst, p

<1>9. CASE BeginFail(e)
  <2>1. thread[p].at \in {"fail", "timeout"} /\ UNCHANGED <<session, turns>>
    BY <1>9 DEF BeginFail, p
  <2>2. CASE session.status = "killed"
    <3>1. End(p) /\ UNCHANGED <<panes, inbox>>
      BY <1>9, <2>2 DEF BeginFail, p
    <3>2. thread'[p].at = "off" /\ Others({p})
      BY <1>p, <3>1, Moving DEF Moved
    <3>3. Apt(thread'[p], turns', session')
      BY <1>q, <3>2, LightIsApt
    <3>4. QED
      BY <1>p, <1>s, <2>1, <2>2, <3>1, <3>2, <3>3, EndingStep
  <2>3. CASE session.status # "killed"
    <3>0. PICK left : left = IF Alive(thread[p].pane) THEN NoPane ELSE thread[p].pane
      OBVIOUS
    <3>1. PICK where \in {"fail_load", "suspend_load"} :
             where = IF At(p, "fail") THEN "fail_load" ELSE "suspend_load"
      OBVIOUS
    <3> DEFINE r == [thread[p] EXCEPT !.at = where, !.pane = left]
    <3>2. Become(p, r) /\ KillPane(thread[p].pane)
      BY <1>9, <2>3, <3>0, <3>1 DEF BeginFail, p
    <3>3. r.at = where /\ r.turn = thread[p].turn
      BY <1>p DEF Hand
    <3> HIDE DEF r
    <3>4. thread'[p].at = where /\ thread'[p].turn = thread[p].turn /\ Others({p})
      BY <1>p, <3>2, <3>3, BecomeMoves
    <3>5. session.status = "starting" \/ Sending(thread'[p])
      <4>1. Starting(thread[p]) \/ Sending(thread[p])
        BY <2>1 DEF Starting, Sending, GivingUp, Failing
      <4>2. CASE Starting(thread[p])
        BY <1>p, <4>2 DEF OneDriver, Suits
      <4>3. CASE Sending(thread[p])
        BY <2>1, <3>1, <3>4, <4>3 DEF Sending, Failing, At
      <4>4. QED
        BY <4>1, <4>2, <4>3
    <3>6. Apt(thread'[p], turns', session') /\ inbox' \subseteq inbox
      BY <1>q, <3>2, <3>4, LightIsApt DEF KillPane
    <3>7. QED
      BY <1>p, <1>s, <2>1, <3>4, <3>5, <3>6, EndingStep
  <2>4. QED
    BY <2>2, <2>3
<1>10. CASE SaveFailed(e)
  <2> DEFINE s == [Snap(p) EXCEPT !.pane = thread[p].pane]
  <2>1. /\ UNCHANGED <<turns, panes, inbox>> /\ Keep(p, "fail_event")
        /\ \E x \in {Clear(s, "error"), Suspend(s, "other")} : Save(Snap(p), x)
    BY <1>10 DEF SaveFailed, p
  <2>2. s \in Known
    BY <1>p, HandFacts DEF Hand, Known
  <2> HIDE DEF s
  <2>3. /\ \A x \in {Clear(s, "error"), Suspend(s, "other")} :
              x.status \in {"error", "suspended"} /\ x.turn = NoTurn
    BY <2>2 DEF Clear, Suspend, Known
  <2>4. session'.status \in {"error", "suspended"} /\ session'.turn = NoTurn
    BY <2>1, <2>3, FreshSave
  <2>5. thread'[p].at = "fail_event" /\ thread'[p].turn = thread[p].turn /\ Others({p})
    BY <1>p, <2>1, Moving DEF Moved
  <2>6. Apt(thread'[p], turns', session') /\ HasPane(session')
    BY <2>4, <2>5 DEF Apt, HasPane, ToSend
  <2>7. QED
    BY <1>p, <2>1, <2>4, <2>5, <2>6, EndingStep
<1>11. CASE FailLastEvent(e)
  <2>1. /\ thread[p].at = "fail_event" /\ UNCHANGED <<session, turns, panes, inbox>>
        /\ Goto(p, "fail_row")
    BY <1>11 DEF FailLastEvent, p, At
  <2>2. thread'[p].at = "fail_row" /\ thread'[p].turn = thread[p].turn /\ Others({p})
    BY <1>p, <2>1, Moving DEF Moved
  <2>3. Apt(thread'[p], turns', session')
    BY <1>p, <2>1, <2>2 DEF Apt, WillEnd, ToSend, GivenUp
  <2>4. LetsAlone({p})
    BY <2>1 DEF LetsAlone, Sending, Ending, Failing
  <2>5. \A n \in {p} : n \in Processes => Apt(thread'[n], turns', session')
    BY <2>3
  <2>6. QED
    BY <1>p, <1>s, <2>1, <2>2, <2>4, <2>5, WillEndStays, AttemptsStay
<1>12. CASE FailRow(e)
  <2>0. PICK t : t = thread[p].turn
    OBVIOUS
  <2>1. /\ thread[p].at = "fail_row" /\ UNCHANGED <<session, panes, inbox>> /\ End(p)
        /\ turns' = IF t # NoTurn THEN Completed(turns, t, "closed") ELSE turns
    BY <1>12, <2>0 DEF FailRow, p, At
  <2>2. thread'[p].at = "off" /\ Others({p}) /\ ~Sending(thread[p]) /\ ~Ending(thread[p])
    BY <1>p, <2>1, Moving DEF Moved, Sending, Ending, Failing
  <2>3. CASE t = NoTurn
    BY <1>p, <1>q, <2>1, <2>2, <2>3, LightStep, SameRow
  <2>4. CASE t # NoTurn
    <3>1. session.turn # t
      BY <1>p, <2>0, <2>1, <2>4 DEF WillEnd, Apt, GivenUp
    <3>2. \A n \in Processes \ {p} : ~Sending(thread[n]) \/ thread[n].turn # t
      BY <3>1 DEF OneDriver, Suits
    <3>3. \A m \in inbox' : m \in inbox /\ m.turn # t
      BY <2>1, <3>1 DEF OneDriver, Working
    <3>4. /\ DOMAIN turns' = DOMAIN turns
          /\ \A u \in DOMAIN turns : u # t => turns'[u].attempt = turns[u].attempt
      BY <2>1, <2>4, AttemptsWritten
    <3>5. session.status = "busy" => HasEnder'
      <4>1. LetsAlone({p})
        BY <2>1, <2>2 DEF LetsAlone
      <4>2. QED
        BY <2>1, <2>2, <4>1, EnderStays
    <3>6. thread'[p].at \in Light /\ UNCHANGED session
      BY <1>q, <2>1, <2>2
    <3>7. QED
      BY <1>p, <2>2, <3>2, <3>3, <3>4, <3>5, <3>6, AttemptTouched
  <2>5. QED
    BY <2>3, <2>4
<1>13. QED
  BY <1>1, <1>2, <1>3, <1>4, <1>5, <1>6, <1>7, <1>8, <1>9, <1>10, <1>11, <1>12 DEF LaunchStep


LEMMA ReplyWillEnd ==
    ASSUME IInv, OneDriver, WillEnd, stale' = {}, NEW t \in Turns, ReplyStep(t)
    PROVE  WillEnd'
<1> DEFINE p == Reply(t)
<1>p. p \in Processes
  BY ProcessNames
<1>q. \A where \in {"off", "post", "record", "close", "check", "identity", "finish"} : where \in Light
  BY DEF Light, Places, ToSend, GivenUp
<1>s. HasPane(session)
  BY DEF WillEnd
<1>a. Answering(thread[p]) => session.status = "busy" /\ session.turn = t
  BY AnswersHere
<1> HIDE DEF p
<1>1. CASE BeginReply(t)
  <2>1. /\ UNCHANGED <<session, turns, panes>> /\ At(p, "off") /\ InWork(t)
        /\ ~Sending(thread[p]) /\ ~Ending(thread[p])
    BY <1>1 DEF BeginReply, p, At, Sending, Ending, Failing
  <2>2. Answerable(t)
    BY <2>1 DEF Answerable, InWork, WillEnd, OneDriver, Working
  <2>3. Goto(p, "post") /\ UNCHANGED inbox
    BY <1>1, <2>2 DEF BeginReply, p
  <2>4. thread'[p].at = "post" /\ Others({p})
    BY <1>p, <2>3, Moving DEF Moved
  <2>5. QED
    BY <1>p, <1>q, <2>1, <2>3, <2>4, LightStep, SameRow
<1>2. CASE PostReply(t)
  <2>1. UNCHANGED <<session, turns, panes>> /\ ~Sending(thread[p]) /\ ~Ending(thread[p])
    BY <1>2 DEF PostReply, p, At, Sending, Ending, Failing
  <2>2. CASE End(p) /\ UNCHANGED inbox
    <3>1. thread'[p].at = "off" /\ Others({p})
      BY <1>p, <2>2, Moving DEF Moved
    <3>2. QED
      BY <1>p, <1>q, <2>1, <2>2, <3>1, LightStep, SameRow
  <2>3. CASE Enter(p, "record", session) /\ inbox' = Without(t)
    <3>1. thread'[p].at = "record" /\ Others({p})
      BY <1>p, <2>3, Moving DEF Moved
    <3>2. Ending(thread'[p]) /\ Apt(thread'[p], turns', session') /\ inbox' \subseteq inbox
      BY <1>q, <2>3, <3>1, LightIsApt DEF Ending, Without
    <3>3. QED
      BY <1>p, <1>s, <2>1, <3>1, <3>2, EndingStep
  <2>4. QED
    BY <1>2, <2>2, <2>3 DEF PostReply, p
<1>3. CASE RecordReply(t) \/ SaveIdentity(t) \/ CheckTurn(t)
  <2>1. UNCHANGED <<turns, panes, inbox>> /\ Answering(thread[p])
    BY <1>3 DEF RecordReply, SaveIdentity, CheckTurn, p, At, Answering
  <2>2. session.status = "busy" /\ session.turn = t
    BY <1>a, <2>1
  <2>3. Steering(session') = Steering(session)
    <3>1. CASE RecordReply(t) \/ SaveIdentity(t)
      BY <3>1, FreshSave DEF RecordReply, SaveIdentity, Steering
    <3>2. CASE CheckTurn(t)
      BY <3>2 DEF CheckTurn, Steering
    <3>3. QED
      BY <1>3, <3>1, <3>2
  <2>4. Goto(p, "close") \/ Goto(p, "finish") \/ Enter(p, "identity", session)
    BY <1>3, <2>2 DEF RecordReply, SaveIdentity, CheckTurn, p
  <2>5. thread'[p].at \in {"close", "finish", "identity"} /\ Others({p})
    BY <1>p, <2>4, Moving DEF Moved
  <2>6. Ending(thread'[p]) /\ Apt(thread'[p], turns', session') /\ HasPane(session')
        /\ session'.turn = session.turn
    BY <1>q, <1>s, <2>3, <2>5, LightIsApt DEF Ending, Steering, HasPane
  <2>7. QED
    BY <1>p, <2>1, <2>5, <2>6, EndingStep
<1>4. CASE CloseAttempt(t)
  <2>1. /\ Answering(thread[p]) /\ ~At(p, "post") /\ UNCHANGED <<session, panes, inbox>>
        /\ turns' = Completed(turns, t, "closed") /\ Goto(p, "check")
    BY <1>4 DEF CloseAttempt, p, At, Answering
  <2>2. inbox' = {} /\ \A n \in Processes \ {p} : ~Sending(thread[n])
    BY <1>p, <2>1, DrivesAlone DEF Drives
  <2>3. thread'[p].at = "check" /\ Others({p})
    BY <1>p, <2>1, Moving DEF Moved
  <2>4. HasEnder'
    BY <1>p, <2>3 DEF HasEnder, Ending
  <2>5. /\ DOMAIN turns' = DOMAIN turns
        /\ \A u \in DOMAIN turns : u # t => turns'[u].attempt = turns[u].attempt
    BY <2>1, AttemptsWritten
  <2>6. thread'[p].at \in Light /\ UNCHANGED session
    BY <1>q, <2>1, <2>3
  <2>7. QED
    BY <1>p, <2>2, <2>3, <2>4, <2>5, <2>6, AttemptTouched
<1>5. CASE MarkDone(t)
  <2>1. /\ UNCHANGED <<session, turns, panes, inbox>> /\ End(p)
        /\ ~Sending(thread[p]) /\ ~Ending(thread[p])
    BY <1>5 DEF MarkDone, p, At, Sending, Ending, Failing
  <2>2. thread'[p].at = "off" /\ Others({p})
    BY <1>p, <2>1, Moving DEF Moved
  <2>3. QED
    BY <1>p, <1>q, <2>1, <2>2, LightStep, SameRow
<1>6. QED
  BY <1>1, <1>2, <1>3, <1>4, <1>5 DEF ReplyStep

LEMMA CompleteWillEnd ==
    ASSUME IInv, OneDriver, RowsHeld, WillEnd, stale' = {}, NEW t \in Turns, CompleteStep(t)
    PROVE  WillEnd'
<1> DEFINE p == Reply(t)
<1>p. p \in Processes /\ thread[p] \in Hand
  BY ProcessNames, HandFacts
<1>q. \A where \in {"off", "rest", "wait", "verdict", "drain", "drain_busy", "drain_undo",
                    "drain_retry"} : where \in Light
  BY DEF Light, Places, ToSend, GivenUp
<1>s. HasPane(session)
  BY DEF WillEnd
<1>a. Answering(thread[p]) => session.status = "busy" /\ session.turn = t
  BY AnswersHere
<1> HIDE DEF p
<1>1. CASE BeginComplete(t)
  <2>1. Answering(thread[p]) /\ UNCHANGED <<session, turns, panes, inbox>>
    BY <1>1 DEF BeginComplete, p, At, Answering
  <2>2. session.status = "busy"
    BY <1>a, <2>1
  <2>3. ~CannotConsume(session.row)
    BY DEF CannotConsume, Claimed, RowsHeld, RowOfTurn
  <2>4. Enter(p, "rest", session) \/ Enter(p, "wait", session)
    BY <1>1, <2>2, <2>3 DEF BeginComplete, p
  <2>5. thread'[p].at \in {"rest", "wait"} /\ Others({p})
    BY <1>p, <2>4, Moving DEF Moved
  <2>6. Ending(thread'[p]) /\ Apt(thread'[p], turns', session') /\ HasPane(session')
    BY <1>q, <1>s, <2>1, <2>5, LightIsApt DEF Ending
  <2>7. QED
    BY <1>p, <2>1, <2>5, <2>6, EndingStep
<1>2. CASE CompleteWait(t) \/ CompleteTurn(t)
  <2>1. Answering(thread[p]) /\ UNCHANGED <<turns, panes, inbox>>
    BY <1>2 DEF CompleteWait, CompleteTurn, p, At, Answering
  <2>2. session.status = "busy"
    BY <1>a, <2>1
  <2>3. CanMove({"busy"}, "waiting") /\ CanMove({"busy"}, "idle")
    BY <2>2 DEF CanMove, Allowed
  <2>4. \E x \in {"idle", "waiting"} : session' = Clear(session, x)
    <3>1. CASE CompleteWait(t)
      BY <2>3, <3>1 DEF CompleteWait, Move
    <3>2. CASE CompleteTurn(t)
      <4>1. Snap(p).status # "waiting"
        BY <1>p, <3>2 DEF CompleteTurn, p, At, OneDriver, Neat, Snap
      <4>2. QED
        BY <2>3, <3>2, <4>1 DEF CompleteTurn, p, Move
    <3>3. QED
      BY <1>2, <3>1, <3>2
  <2>5. session'.status # "busy" /\ session'.turn = NoTurn /\ HasPane(session')
    BY <1>s, <2>2, <2>4, WrittenRows DEF HasPane
  <2>6. thread'[p].at \in {"verdict", "drain", "off"} /\ Others({p})
    <3>0. PICK q : q = QueueHead
      OBVIOUS
    <3> DEFINE r == [Off EXCEPT !.at = "drain", !.row = q]
    <3>1. Become(p, r) \/ Pass(p, "verdict") \/ End(p)
      BY <1>2, <3>0 DEF CompleteWait, CompleteTurn, p
    <3>2. r.at = "drain"
      BY DEF Off
    <3> HIDE DEF r
    <3>3. QED
      BY <1>p, <3>1, <3>2, BecomeMoves, Moving DEF Moved
  <2>7. Apt(thread'[p], turns', session')
    BY <1>q, <2>6, LightIsApt
  <2>8. QED
    BY <1>p, <2>1, <2>5, <2>6, <2>7, EndingStep
<1>3. CASE DrainClaim(t) \/ DrainRetry(t)
  <2>1. /\ UNCHANGED <<session, turns, panes, inbox>> /\ ~Sending(thread[p]) /\ ~Ending(thread[p])
        /\ Goto(p, "drain_busy") \/ Pass(p, "verdict")
    BY <1>3 DEF DrainClaim, DrainRetry, p, At, Sending, Ending, Failing
  <2>2. thread'[p].at \in {"drain_busy", "verdict"} /\ Others({p})
    BY <1>p, <2>1, Moving DEF Moved
  <2>3. QED
    BY <1>p, <1>q, <2>1, <2>2, LightStep, SameRow
<1>4. CASE DrainBusy(t)
  <2>1. UNCHANGED <<panes, inbox>> /\ ~Sending(thread[p]) /\ ~Ending(thread[p])
    BY <1>4 DEF DrainBusy, p, At, Sending, Ending, Failing
  <2>2. CASE Pass(p, "verdict") /\ UNCHANGED <<session, turns>>
    <3>1. thread'[p].at = "verdict" /\ Others({p})
      BY <1>p, <2>2, Moving DEF Moved
    <3>2. QED
      BY <1>p, <1>q, <2>1, <2>2, <3>1, LightStep, SameRow
  <2>3. CASE ~(Pass(p, "verdict") /\ UNCHANGED <<session, turns>>)
    <3> DEFINE r == [thread[p] EXCEPT !.at = "drain_send", !.turn = NextTurn,
                                      !.pane = session.pane]
    <3>0. PICK e \in Events : e = queue[thread[p].row].item
      BY <1>4, DrainedItem DEF p
    <3>1. /\ session' = Activate(session, NextTurn, thread[p].row) /\ session.status = "idle"
          /\ NewTurn(e) /\ Become(p, r)
      BY <1>4, <2>3, <3>0 DEF DrainBusy, Move, CanMove, p
    <3>2. r.at = "drain_send" /\ r.turn = NextTurn
      BY <1>p DEF Hand
    <3> HIDE DEF r
    <3>3. thread'[p].at = "drain_send" /\ thread'[p].turn = NextTurn /\ Others({p})
      BY <1>p, <3>1, <3>2, BecomeMoves
    <3>4. Sending(thread'[p]) /\ Apt(thread'[p], turns', session')
      BY <3>1, <3>3, TurnAdded DEF Sending, Apt, GivenUp
    <3>5. HasPane(session') /\ session'.turn = NextTurn
      BY <1>s, <3>1, WrittenRows DEF HasPane
    <3>6. QED
      BY <1>p, <2>1, <3>1, <3>3, <3>4, <3>5, EndingStep
  <2>4. QED
    BY <2>2, <2>3
<1>5. CASE DrainSend(t)
  <2>1. UNCHANGED session /\ thread[p].at \in ToSend
    BY <1>5 DEF DrainSend, p, At, ToSend
  <2>2. PICK e : e = queue[thread[p].row].item
    OBVIOUS
  <2>3. CASE Send(thread[p].turn, e, thread[p].pane) /\ Pass(p, "verdict")
    <3>1. thread'[p].at = "verdict" /\ Others({p})
      BY <1>p, <2>3, Moving DEF Moved
    <3>2. QED
      BY <1>p, <1>q, <2>1, <2>3, <3>1, TextSent
  <2>4. CASE SendFailsAndCloses(thread[p].turn, thread[p].pane) /\ Goto(p, "drain_undo")
    <3>1. thread'[p].at = "drain_undo" /\ Others({p})
      BY <1>p, <2>4, Moving DEF Moved
    <3>2. /\ Sending(thread'[p]) /\ UNCHANGED inbox
          /\ turns' = Completed(Opened(turns, thread[p].turn), thread[p].turn, "closed")
      BY <2>4, <3>1, NothingTyped DEF Sending, SendFailsAndCloses
    <3>3. QED
      BY <1>p, <1>q, <2>1, <3>1, <3>2, TextNotSent
  <2>5. CASE SendsAgain(thread[p].turn, thread[p].pane) /\ UNCHANGED thread
    BY <1>p, <2>1, <2>5, TextTried, NothingTyped DEF SendsAgain
  <2>6. QED
    BY <1>5, <2>2, <2>3, <2>4, <2>5 DEF DrainSend, p
<1>6. CASE DrainUndo(t)
  <2>1. UNCHANGED <<turns, panes, inbox>> /\ Goto(p, "drain_retry") /\ Sending(thread[p])
    BY <1>6 DEF DrainUndo, p, At, Sending
  <2>2. session' = Clear(session, "idle") /\ session.status = "busy"
    BY <1>6, <1>p, <2>1, ReleaseLeaves, DrivesAlone DEF DrainUndo, Drives, Suits
  <2>3. session'.status # "busy" /\ session'.turn = NoTurn /\ HasPane(session')
    BY <1>s, <2>2, WrittenRows DEF HasPane
  <2>4. thread'[p].at = "drain_retry" /\ Others({p})
    BY <1>p, <2>1, Moving DEF Moved
  <2>5. QED
    BY <1>p, <1>q, <2>1, <2>3, <2>4, LightIsApt, EndingStep
<1>7. QED
  BY <1>1, <1>2, <1>3, <1>4, <1>5, <1>6 DEF CompleteStep

LEMMA ReplayWillEnd ==
    ASSUME IInv, OneDriver, WillEnd, Replay
    PROVE  WillEnd'
<1> DEFINE e == queue[QueueHead].item
<1>s. HasPane(session)
  BY DEF WillEnd
<1>q. "start" \in Light
  BY DEF Light, Places, ToSend, GivenUp
<1>1. CASE ReplayCreating
  <2>1. QueueHead \in DOMAIN queue
    BY <1>1, HeadMoves, TablesFacts DEF ReplayCreating, IInv
  <2>2. e \in Events
    BY <2>1, TablesFacts DEF IInv
  <2> DEFINE r == [Off EXCEPT !.at = "start", !.snap = session, !.row = QueueHead]
  <2>3. /\ thread' = [thread EXCEPT ![Launch(e)] = r] /\ UNCHANGED <<session, turns, panes, inbox>>
        /\ session.status = "creating"
    BY <1>1 DEF ReplayCreating
  <2>4. r.at = "start"
    BY DEF Off
  <2>5. PICK p \in Processes : p = Launch(e)
    BY <2>2, ProcessNames
  <2> HIDE DEF e, r
  <2>6. thread'[p].at = "start" /\ Others({p})
    BY <2>3, <2>4, <2>5, BecomeMoves DEF Become
  <2>7. Apt(thread'[p], turns', session')
    BY <1>q, <2>6, LightIsApt
  <2>8. session'.status # "busy" /\ session'.turn = session.turn /\ HasPane(session')
    BY <1>s, <2>3
  <2>9. QED
    BY <2>3, <2>6, <2>7, <2>8, EndingStep
<1>2. CASE ReplayShutdown
  <2>1. QueueHead \in DOMAIN queue
    BY <1>2, HeadMoves, TablesFacts DEF ReplayShutdown, IInv
  <2>2. e \in Events
    BY <2>1, TablesFacts DEF IInv
  <2> DEFINE s == [Clear(session, "starting") EXCEPT !.why = "none", !.pane = NoPane]
             r == [Off EXCEPT !.at = "start", !.snap = s, !.row = QueueHead]
  <2>3. /\ thread' = [thread EXCEPT ![Launch(e)] = r] /\ UNCHANGED <<turns, panes, inbox>>
        /\ session' = s
    BY <1>2 DEF ReplayShutdown, Move
  <2>4. r.at = "start" /\ s.status = "starting" /\ s.turn = NoTurn
    BY DEF Off, Clear, IInv, Known
  <2>5. PICK p \in Processes : p = Launch(e)
    BY <2>2, ProcessNames
  <2> HIDE DEF e, r, s
  <2>6. thread'[p].at = "start" /\ Others({p})
    BY <2>3, <2>4, <2>5, BecomeMoves DEF Become
  <2>7. Apt(thread'[p], turns', session')
    BY <1>q, <2>6, LightIsApt
  <2>8. session'.status # "busy" /\ session'.turn = NoTurn /\ HasPane(session')
    BY <2>3, <2>4 DEF HasPane
  <2>9. QED
    BY <2>3, <2>6, <2>7, <2>8, EndingStep
<1>3. CASE ReplayFail \/ ReplayDefer
  <2>1. Others({}) /\ UNCHANGED <<session, turns, panes, inbox>>
    BY <1>3 DEF Others, ReplayFail, ReplayDefer
  <2>2. LetsAlone({})
    BY <2>1 DEF LetsAlone
  <2>3. HasPane(session') /\ AttemptsKept
    BY <1>s, <2>1, AttemptsStay
  <2>4. QED
    BY <2>1, <2>2, <2>3, WillEndStays
<1>4. QED
  BY <1>1, <1>2, <1>3 DEF Replay

\* After a restart no conversation has a worker.
LEMMA RebootWillEnd ==
    ASSUME IInv, Reboot
    PROVE  WillEnd'
<1>1. \A n \in Processes : Apt(thread'[n], turns', session')
  <2>1. Off.at \in Light
    BY DEF Off, Light, Places, ToSend, GivenUp
  <2>2. QED
    BY <2>1, LightIsApt DEF Reboot
<1>2. session'.status \notin {"busy", "idle", "waiting"}
  <2>1. session \in Known
    BY DEF IInv
  <2>2. \A x : [Suspend(session, x) EXCEPT !.pane = NoPane].status = "suspended"
    BY <2>1 DEF Suspend, Clear, Known
  <2>3. [Clear(session, "suspended") EXCEPT !.pane = NoPane].status = "suspended"
    BY <2>1 DEF Clear, Known
  <2>4. \/ session'.status = "suspended"
        \/ session' = session /\ session.status \notin Active \ {"creating"}
    BY <2>2, <2>3 DEF Reboot, AfterCleanup
  <2>5. QED
    BY <2>4 DEF Active
<1>3. inbox' = {}
  BY DEF Reboot
<1>4. QED
  BY <1>1, <1>2, <1>3 DEF WillEnd, HasPane

\* The worker ends by itself: it had the turn, or had nothing to do with its end.
LEMMA ExitWillEnd ==
    ASSUME IInv, PanesHeld, WillEnd, WorkerExits
    PROVE  WillEnd'
<1>1. PICK n \in panes : KillPane(n)
  BY DEF WorkerExits
<1>2. UNCHANGED <<session, turns, thread>>
  BY DEF WorkerExits
<1>3. session.status = "busy" => HasEnder'
  <2> SUFFICES ASSUME HasEnder PROVE HasEnder'
    BY DEF WillEnd
  <2>1. CASE InWork(session.turn)
    <3>1. PICK m \in inbox : m.turn = session.turn
      BY <2>1 DEF InWork
    <3>2. CASE m \in inbox'
      BY <1>2, <3>1, <3>2 DEF HasEnder, InWork
    <3>3. CASE m \notin inbox'
      <4>1. m.pane = n /\ m.pane = session.pane
        BY <1>1, <3>1, <3>3 DEF KillPane, PanesHeld
      <4>2. QED
        BY <1>1, <1>2, <4>1 DEF KillPane, HasEnder
    <3>4. QED
      BY <3>2, <3>3
  <2>2. CASE \E p \in Processes : Sending(thread[p]) \/ Ending(thread[p])
    BY <1>2, <2>2 DEF HasEnder
  <2>3. CASE session.pane \notin panes
    BY <1>1, <1>2, <2>3 DEF KillPane, HasEnder
  <2>4. QED
    BY <2>1, <2>2, <2>3 DEF HasEnder
<1>4. inbox' \subseteq inbox
  BY <1>1 DEF KillPane
<1>5. QED
  BY <1>2, <1>3, <1>4 DEF WillEnd

LEMMA WillEndStep ==
    ASSUME IInv, Undisturbed, Undisturbed', [Next]_vars, OneDriver, PanesHeld, RowsHeld,
           WillEnd, stale' = {}
    PROVE  WillEnd'
<1>1. CASE UNCHANGED vars
  <2>1. UNCHANGED <<session, turns, thread, panes, inbox>>
    BY <1>1 DEF vars
  <2>2. QED
    BY <2>1 DEF WillEnd, HasEnder, InWork
<1>2. CASE Crash
  BY <1>2, RebootWillEnd DEF Crash
<1>3. QED
  BY <1>1, <1>2, QuietSteps, SlackWillEnd, RouteWillEnd, LaunchWillEnd, ReplyWillEnd,
     CompleteWillEnd, ReplayWillEnd, ExitWillEnd

LEMMA WillEndInit == Init => WillEnd
<1> SUFFICES ASSUME Init PROVE WillEnd
  OBVIOUS
<1>1. \A p \in Processes : Apt(thread[p], turns, session)
  <2>1. Off.at \in Light
    BY DEF Off, Light, Places, ToSend, GivenUp
  <2>2. QED
    BY <2>1, LightIsApt DEF Init
<1>2. inbox = {} /\ session.status = "absent"
  BY DEF Init, Absent
<1>3. QED
  BY <1>1, <1>2 DEF WillEnd, HasPane

LEMMA Ender == Spec /\ []Undisturbed => [](stale # {} \/ (OneDriver /\ WillEnd))
<1>1. /\ IInv /\ Undisturbed /\ Undisturbed' /\ [Next]_vars
      /\ (stale # {} \/ (OneDriver /\ PanesHeld)) /\ (stale # {} \/ (OneDriver /\ RowsHeld /\ BacklogFits))
      /\ (stale # {} \/ WillEnd)
      => (stale # {} \/ WillEnd)'
  BY WillEndStep, StaleStays
<1>2. QED
  BY <1>1, WillEndInit, Driver, Holder, Carrier, Always, PTL DEF Spec

\* A conversation never stays BUSY with nobody left to end the turn: its worker has the
\* text, or a thread has the turn in hand or its answer, or its pane is gone and the
\* cleanup will see it.  No failed send that leaves no text behind, no failed post, no race
\* and no restart loses it.
THEOREM BusyIsNotForgotten == Spec /\ []Undisturbed /\ []NoTextLeft => []BusyHasEnder
<1>1. ASSUME IInv, NoTextLeft, stale # {} \/ (OneDriver /\ WillEnd) PROVE BusyHasEnder
  <2> SUFFICES ASSUME stale = {}, session.status = "busy", ~InWork(session.turn)
               PROVE  \/ \E p \in Processes : /\ thread[p].turn = session.turn
                                              /\ thread[p].at \in HasTurnInHand
                      \/ \E t \in Turns : t = session.turn /\ ~At(Reply(t), "off")
                      \/ Orphaned(session)
    BY <1>1, TrueAtAll DEF BusyHasEnder
  <2>1. OneDriver /\ WillEnd
    BY <1>1
  <2>2. HasEnder
    BY <2>1 DEF WillEnd
  <2>3. ASSUME NEW p \in Processes, Sending(thread[p])
        PROVE  thread[p].turn = session.turn /\ thread[p].at \in HasTurnInHand
    BY <2>1, <2>3 DEF OneDriver, Suits, Sending, Failing, HasTurnInHand
  <2>4. ASSUME NEW p \in Processes, Ending(thread[p])
        PROVE  session.turn \in Turns /\ ~At(Reply(session.turn), "off")
    <3>1. Answering(thread[p])
      BY <2>4 DEF Ending, Answering
    <3>2. p = Reply(session.turn)
      BY <2>1, <3>1 DEF OneDriver, Suits
    <3>3. session.turn \in Turns
      BY <3>2 DEF Processes, Slack, Launch, Reply, Detector, Control
    <3>4. QED
      BY <2>4, <3>2, <3>3 DEF Ending, At
  <2>5. CASE session.pane \notin panes
    <3>1. session.pane # NoPane
      BY <2>1 DEF WillEnd, HasPane
    <3>2. QED
      BY <2>5, <3>1 DEF Orphaned, Active, Alive
  <2>6. QED
    BY <2>2, <2>3, <2>4, <2>5 DEF HasEnder
<1>2. IInv /\ NoTextLeft /\ (stale # {} \/ (OneDriver /\ WillEnd)) => BusyHasEnder
  BY <1>1
<1>3. QED
  BY <1>2, Ender, Always, PTL

=============================================================================
