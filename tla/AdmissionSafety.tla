--------------------------- MODULE AdmissionSafety ----------------------------
(***************************************************************************)
(* Six properties of Admission for any pool, any conversations and any     *)
(* number of messages: the limits of the notices and of a window, what     *)
(* stops the intake, who holds a pane that has no markers yet, that a pane *)
(* is in use by one conversation, and that the orphan reaper spares it.    *)
(***************************************************************************)
EXTENDS AdmissionProofs

-----------------------------------------------------------------------------
(* The day's notices *)

\* A slot is counted for every notice, and none is counted beyond the limit.
SlotsCounted ==
    /\ slots <= DailyLimit /\ notices <= slots
    /\ \A m \in Messages : ack[m] = "suppressed_daily_limit" => slots = DailyLimit

LEMMA SlotsInit == Init => SlotsCounted
BY AdmissionAssumption DEF Init, SlotsCounted

LEMMA SlotsStep == Typed /\ SlotsCounted /\ [Next]_vars => SlotsCounted'
<1> SUFFICES ASSUME Typed, SlotsCounted, [Next]_vars
             PROVE  SlotsCounted'
  OBVIOUS
<1>1. slots \in Nat /\ notices \in Nat /\ DailyLimit \in Nat
      /\ ack \in [Messages -> {"none", "suppressed_busy"} \cup Results]
  BY AdmissionAssumption DEF Typed, TypeOK, NoticesOK
<1>2. CASE UNCHANGED <<slots, notices, ack>>
  BY <1>2 DEF SlotsCounted
<1>3. ASSUME NEW result \in Results, Notify(result)
      PROVE  /\ slots' <= DailyLimit /\ notices' <= slots'
             /\ \A m \in Messages : ack[m] = "suppressed_daily_limit" => slots' = DailyLimit
             /\ result = "suppressed_daily_limit" => slots' = DailyLimit
  <2>1. /\ slots' \in Nat /\ slots <= slots' /\ slots' <= DailyLimit /\ notices' <= slots'
        /\ result = "suppressed_daily_limit" => slots' = slots /\ slots >= DailyLimit
    BY <1>3, NotifyStep DEF SlotsCounted
  <2>2. QED
    BY <1>1, <2>1 DEF SlotsCounted
<1>4. CASE Say /\ UNCHANGED ack
  BY <1>3, <1>4 DEF Say, SlotsCounted
<1>5. ASSUME NEW m \in Messages, NEW result \in Results,
             Notify(result), ack' = [ack EXCEPT ![m] = result]
      PROVE  SlotsCounted'
  BY <1>1, <1>3, <1>5 DEF SlotsCounted
<1>6. ASSUME NEW m \in Messages, UNCHANGED <<slots, notices>>,
             ack' = [ack EXCEPT ![m] = "suppressed_busy"]
      PROVE  SlotsCounted'
  BY <1>1, <1>6 DEF SlotsCounted
<1>7. CASE UNCHANGED vars
  BY <1>2, <1>7 DEF vars
<1>8. CASE Next
  <2>1. NoticeMove
    BY <1>8, NoticesOfStep
  <2>2. ASSUME NEW result, Notify(result)
        PROVE  result \in Results
    BY <2>2, NotifyStep
  <2>3. QED
    BY <1>2, <1>4, <1>5, <1>6, <2>1, <2>2 DEF NoticeMove
<1>9. QED
  BY <1>7, <1>8

\* No channel gets more notices a day than its limit, however many messages are admitted
\* at once and whichever calls time out; an acknowledgement is held back only at the limit.
THEOREM LimitOfNotices == Spec => []NotificationsWithinLimit
<1>1. Typed /\ SlotsCounted => NotificationsWithinLimit
  BY AdmissionAssumption DEF Typed, TypeOK, NoticesOK, SlotsCounted, NotificationsWithinLimit
<1>2. QED
  BY <1>1, AlwaysTyped, SlotsInit, SlotsStep, PTL DEF Spec

-----------------------------------------------------------------------------
(* The limit of a window *)

LEMMA WindowsInit == Init => WindowsWithinLimit
<1> SUFFICES ASSUME Init, NEW i \in DOMAIN Windows
             PROVE  Cardinality(ListPanes(Windows[i])) <= WindowMax
  BY DEF WindowsWithinLimit
<1>1. \A j, k \in DOMAIN Windows : Windows[j] = Windows[k] => j = k
  BY TypedInit, WindowsType
<1>2. panes = [p \in DOMAIN Windows |-> Pane(Windows[p], "bridge")]
  BY DEF Init, PoolInit
<1>3. ListPanes(Windows[i]) = {i}
  BY <1>1, <1>2 DEF ListPanes, PanesOf, Pane
<1>4. Cardinality({i}) = 1 /\ WindowMax \in Nat \ {0}
  BY FS_Singleton, TypedInit, WindowsType
<1>5. QED
  BY <1>3, <1>4

LEMMA WindowsStep == Typed /\ WindowsWithinLimit /\ [Next]_vars => WindowsWithinLimit'
<1> SUFFICES ASSUME Typed, WindowsWithinLimit, [Next]_vars, NEW i \in DOMAIN Windows
             PROVE  Cardinality(PanesOf(panes', Windows[i])) <= WindowMax
  BY SetupStays DEF WindowsWithinLimit, Windows, WindowMax, ListPanes
<1> DEFINE w == Windows[i]
           old == PanesOf(panes, w)
           new == PanesOf(panes', w)
<1> SUFFICES Cardinality(new) <= WindowMax
  OBVIOUS
<1>1. IsFiniteSet(old) /\ Cardinality(old) \in Nat /\ Cardinality(old) <= WindowMax
  BY WindowFinite DEF WindowsWithinLimit, ListPanes
<1>2. WindowMax \in Nat \ {0}
  BY WindowsType
<1>3. PanesGood(panes)
  BY DEF Typed, TypeOK, PoolOK, Finite, PanesGood
<1>4. PICK n \in PaneIds : n = NewId /\ n \notin DOMAIN panes
  BY NewIdIsNew DEF Mentioned
<1>5. CASE new \subseteq old
  <2>1. Cardinality(new) \in Nat /\ Cardinality(new) <= Cardinality(old)
    BY <1>1, <1>5, FS_Subset, FS_CardinalityType
  <2>2. QED
    BY <1>1, <1>2, <2>1
<1>6. CASE new = {n}
  <2>1. Cardinality(new) = 1
    BY <1>6, FS_Singleton
  <2>2. QED
    BY <1>2, <2>1
<1>7. CASE UNCHANGED panes
  BY <1>5, <1>7
<1>8. ASSUME NEW p \in DOMAIN panes, Closes(p)
      PROVE  new \subseteq old
  BY <1>8 DEF Closes, Closed, PanesOf
<1>9. ASSUME NEW j \in DOMAIN Windows, Opens(j)
      PROVE  new \subseteq old \/ new = {n}
  <2>1. panes' = Put(panes, n, Pane(Windows[j], "bridge")) /\ PanesOf(panes, Windows[j]) = {}
    BY <1>4, <1>9 DEF Opens
  <2>2. CASE w = Windows[j]
    BY <2>1, <2>2 DEF Put, Pane, PanesOf
  <2>3. CASE w # Windows[j]
    BY <2>1, <2>3 DEF Put, Pane, PanesOf
  <2>4. QED
    BY <2>2, <2>3
<1>10. ASSUME NEW p \in DOMAIN panes, Rewrites(p)
       PROVE  new \subseteq old
  BY <1>10 DEF Rewrites, PanesOf
<1>11. ASSUME NEW j \in DOMAIN Windows, Splits(j)
       PROVE  Cardinality(new) <= WindowMax
  <2>1. panes' = Put(panes, n, Pane(Windows[j], "none"))
    BY <1>4, <1>11 DEF Splits
  <2>2. CASE w # Windows[j]
    <3>1. new \subseteq old
      BY <2>1, <2>2 DEF Put, Pane, PanesOf
    <3>2. QED
      BY <1>5, <3>1
  <2>3. CASE w = Windows[j]
    <3>1. new \subseteq old \cup {n}
      BY <2>1 DEF Put, PanesOf
    <3>2. Cardinality(old) < WindowMax
      BY <1>11, <2>3 DEF Splits, CanSplit, ListPanes
    <3>3. n \notin old
      BY <1>4 DEF PanesOf
    <3>4. IsFiniteSet(old \cup {n}) /\ Cardinality(old \cup {n}) = Cardinality(old) + 1
      BY <1>1, <3>3, FS_AddElement
    <3>5. Cardinality(new) \in Nat /\ Cardinality(new) <= Cardinality(old \cup {n})
      BY <3>1, <3>4, FS_Subset, FS_CardinalityType
    <3>6. QED
      BY <1>1, <1>2, <3>2, <3>4, <3>5
  <2>4. QED
    BY <2>2, <2>3
<1>12. CASE Next
  <2>1. PanesMove
    BY <1>12, PanesOfStep
  <2> HIDE DEF new, old
  <2>2. QED
    BY <1>5, <1>6, <1>7, <1>8, <1>9, <1>10, <1>11, <2>1 DEF PanesMove, PanesKept
<1>13. CASE UNCHANGED vars
  BY <1>7, <1>13 DEF vars
<1>14. QED
  BY <1>12, <1>13

\* However many conversations pass the capacity checks together, and whatever is killed,
\* reaped or ends meanwhile, no window gets more panes than its limit.
THEOREM LimitOfWindows == Spec => []WindowsWithinLimit
BY AlwaysTyped, WindowsInit, WindowsStep, PTL DEF Spec

-----------------------------------------------------------------------------
(* What stops the intake *)

\* Every window is there or about to be opened again, until a worker that ended by itself
\* takes one along or the tmux session ends.
WindowsStand ==
    \/ closed \/ SessionGone
    \/ \A i \in DOMAIN Windows : PanesOf(panes, Windows[i]) # {} \/ BeingOpened(Windows[i])

LEMMA StandInit == Init => WindowsStand
<1> SUFFICES ASSUME Init, NEW i \in DOMAIN Windows
             PROVE  i \in PanesOf(panes, Windows[i])
  BY DEF WindowsStand
<1>1. QED
  BY DEF Init, PoolInit, PanesOf, Pane

LEMMA KeptWindow ==
    ASSUME Typed, PanesKept, NEW i \in DOMAIN Windows, PanesOf(panes, Windows[i]) # {}
    PROVE  PanesOf(panes', Windows[i]) # {}
<1> DEFINE w == Windows[i]
<1>1. PanesGood(panes)
  BY DEF Typed, TypeOK, PoolOK, Finite, PanesGood
<1>2. ASSUME NEW p \in DOMAIN panes, Rewrites(p)
      PROVE  PanesOf(panes', w) = PanesOf(panes, w)
  BY <1>2 DEF Rewrites, PanesOf
<1>3. NewId \notin DOMAIN panes
  BY NewIdIsNew DEF Mentioned
<1>4. ASSUME NEW j \in DOMAIN Windows, Splits(j)
      PROVE  PanesOf(panes, w) \subseteq PanesOf(panes', w)
  BY <1>3, <1>4 DEF Splits, Put, PanesOf
<1>5. QED
  BY <1>2, <1>4 DEF PanesKept

\* Nothing opens a window once the session is gone.
LEMMA GoneForGood ==
    ASSUME PanesMove, SessionGone
    PROVE  SessionGone'
BY DEF PanesMove, PanesKept, Rewrites, Splits, Opens, Closes, SessionGone, PanesOf

\* Nobody but a worker that ends takes a window along, and a listener dies only of a
\* window that is gone.
LEMMA StrandOfStep ==
    ASSUME Typed, Next
    PROVE  /\ (\E p \in DOMAIN panes : WorkerExits(p)) \/ UNCHANGED closed
           /\ UNCHANGED stranded \/ \E i \in DOMAIN Windows : PanesOf(panes, Windows[i]) = {}
<1> DEFINE Gone == \E i \in DOMAIN Windows : PanesOf(panes, Windows[i]) = {}
<1>1. ASSUME NEW m \in Messages, ListenerStep(m)
      PROVE  UNCHANGED closed /\ (UNCHANGED stranded \/ Gone)
  <2>1. CASE ListWindow(m) \/ CountWindow(m)
    <3>1. listen[m].next \in DOMAIN Windows
      BY RowType DEF ListenRow
    <3>2. UNCHANGED closed /\ (UNCHANGED stranded \/ WindowGone(Windows[listen[m].next]))
      BY <2>1 DEF ListWindow, CountWindow, Strand
    <3>3. QED
      BY <3>1, <3>2 DEF WindowGone, ListPanes
  <2>2. CASE UNCHANGED <<closed, stranded>>
    BY <2>2
  <2>3. QED
    BY <1>1, <2>1, <2>2 DEF ListenerStep, Receive, Refuse, UpdateCursor, Acknowledge, Route,
       ReadRows, ReapOrphan, ReopenAfterReap, CountSessions, CreateSession, RecoverSession, faultVars
<1>2. ASSUME NEW m \in Messages, LaunchStep(m)
      PROVE  UNCHANGED <<closed, stranded>>
  BY <1>2 DEF LaunchStep, StartWorker, BeginLaunch, PrepareWindow, AllocatePane, AttachPane,
     MarkPane, StartCommand, WorkerComesUp, WaitForReady, DispatchMessage, FailLaunch, ReopenAfterLaunch, SaveFailed,
     faultVars
<1>3. QED
  BY <1>1, <1>2 DEF Next, TurnEnds, BeginKill, KillPane, ReopenAfterKill, MoveKilled, WorkerExits, AtRest, vars,
     faultVars

LEMMA KillsLeaveWindows ==
    ASSUME Typed, WindowsStand, KillMoves, UNCHANGED <<closed, setup>>
    PROVE  WindowsStand'
<1> SUFFICES ASSUME ~closed, ~SessionGone', ~SessionGone
             PROVE  \A i \in DOMAIN Windows :
                       PanesOf(panes', Windows[i]) # {} \/ \E t \in DOMAIN opening' : opening'[t] = Windows[i]
  <2>1. PanesMove
    BY PanesOfPool DEF PoolMove
  <2>2. SessionGone => SessionGone'
    BY <2>1, GoneForGood
  <2>3. QED
    BY <2>2 DEF WindowsStand, BeingOpened, Windows
<1>1. PICK t : \/ \E p \in DOMAIN panes : ClosePane(t, p)
               \/ EnsureWindow(t, NewId) \/ NoSession(t)
  BY DEF KillMoves
<1> TAKE i \in DOMAIN Windows
<1> DEFINE w == Windows[i]
<1>2. PanesOf(panes, w) # {} \/ \E s \in DOMAIN opening : opening[s] = w
  BY DEF WindowsStand, BeingOpened
<1>3. ASSUME NEW p \in DOMAIN panes, ClosePane(t, p)
      PROVE  PanesOf(panes', w) # {} \/ \E s \in DOMAIN opening' : opening'[s] = w
  <2>1. /\ panes' = Closed(panes, p) /\ opening' = Put(opening, t, panes[p].window)
        /\ t \notin DOMAIN opening
    BY <1>3 DEF ClosePane, InKill
  <2>2. CASE panes[p].window = w
    BY <2>1, <2>2 DEF Put
  <2>3. CASE panes[p].window # w
    <3>1. PanesOf(panes', w) = PanesOf(panes, w)
      BY <2>1, <2>3 DEF Closed, PanesOf
    <3>2. \A s \in DOMAIN opening : s \in DOMAIN opening' /\ opening'[s] = opening[s]
      BY <2>1 DEF Put
    <3>3. QED
      BY <1>2, <3>1, <3>2
  <2>4. QED
    BY <2>2, <2>3
<1>4. CASE EnsureWindow(t, NewId)
  <2>1. t \in DOMAIN opening /\ opening' = Closed(opening, t) /\ NewId \notin DOMAIN panes
    BY <1>4, NewIdIsNew DEF EnsureWindow, InKill, Mentioned
  <2>2. PanesOf(panes', opening[t]) # {}
    <3>1. CASE WindowGone(opening[t])
      <4>1. panes' = Put(panes, NewId, Pane(opening[t], "bridge"))
        BY <1>4, <3>1 DEF EnsureWindow
      <4>2. NewId \in PanesOf(panes', opening[t])
        BY <4>1 DEF Put, Pane, PanesOf
      <4>3. QED
        BY <4>2
    <3>2. CASE ~WindowGone(opening[t])
      BY <1>4, <3>2 DEF EnsureWindow, WindowGone, ListPanes
    <3>3. QED
      BY <3>1, <3>2
  <2>3. PanesOf(panes, w) \subseteq PanesOf(panes', w)
    BY <1>4, <2>1 DEF EnsureWindow, Put, PanesOf
  <2>4. \A s \in DOMAIN opening \ {t} : s \in DOMAIN opening' /\ opening'[s] = opening[s]
    BY <2>1 DEF Closed
  <2>5. QED
    BY <1>2, <2>2, <2>3, <2>4
<1>5. CASE NoSession(t)
  BY <1>5 DEF NoSession, SessionGone
<1>6. QED
  BY <1>1, <1>3, <1>4, <1>5

LEMMA StandStep == Typed /\ WindowsStand /\ [Next]_vars => WindowsStand'
<1> SUFFICES ASSUME Typed, WindowsStand, [Next]_vars
             PROVE  WindowsStand'
  OBVIOUS
<1>1. CASE UNCHANGED vars
  BY <1>1 DEF vars, WindowsStand, BeingOpened, SessionGone, Windows
<1>2. CASE Next
  <2>1. UNCHANGED setup /\ PoolMove /\ PanesMove
    BY SetupStays, PoolOfStep, PanesOfPool, <1>2
  <2>2. Windows' = Windows
    BY <2>1 DEF Windows
  <2>3. SessionGone => SessionGone'
    BY <2>1, GoneForGood
  <2>4. CASE PanesKept /\ UNCHANGED <<closed, opening>>
    BY <2>2, <2>3, <2>4, KeptWindow DEF WindowsStand, BeingOpened
  <2>5. ASSUME NEW p \in DOMAIN panes, WorkerExits(p)
        PROVE  WindowsStand'
    <3>1. /\ closed' = (closed \/ PanesOf(panes', panes[p].window) = {})
          /\ panes' = Closed(panes, p) /\ UNCHANGED opening
      BY <2>5 DEF WorkerExits
    <3>2. \A i \in DOMAIN Windows :
             Windows[i] # panes[p].window => PanesOf(panes', Windows[i]) = PanesOf(panes, Windows[i])
      BY <3>1 DEF PanesOf, Closed
    <3>3. QED
      BY <2>2, <2>3, <3>1, <3>2 DEF WindowsStand, BeingOpened
  <2>6. CASE KillMoves /\ UNCHANGED closed
    BY <2>1, <2>6, KillsLeaveWindows
  <2>7. (\E p \in DOMAIN panes : WorkerExits(p)) \/ UNCHANGED closed
    BY <1>2, StrandOfStep
  <2>8. QED
    BY <2>1, <2>4, <2>5, <2>6, <2>7 DEF PoolMove
<1>3. QED
  BY <1>1, <1>2

\* In any pool a message is lost to a raising capacity check only when a window is gone
\* that some kill_pane is about to open again, or after a worker that ended by itself has
\* taken one along, or when the tmux session is gone: every kill, reap and failing launch
\* puts back the window that it empties, and does not miss one that another thread
\* emptied meanwhile.
THEOREM IntakeStops == Spec => IntakeStopsOnlyWithWindow
<1>1. Typed /\ WindowsStand /\ [Next]_vars =>
        [stranded' # stranded =>
            \E i \in DOMAIN Windows :
                /\ WindowGone(Windows[i])
                /\ closed \/ BeingOpened(Windows[i]) \/ SessionGone]_vars
  BY StrandOfStep DEF WindowsStand, WindowGone, ListPanes, vars
<1>2. QED
  BY <1>1, AlwaysTyped, StandInit, StandStep, PTL DEF Spec, IntakeStopsOnlyWithWindow

-----------------------------------------------------------------------------
(* Who holds a pane without markers *)

\* A message is launched once, when its listener is through.
LaunchedOnce ==
    \A m \in Messages :
        /\ ledger[m] = "none" => Listens(m, "off") /\ Launches(m, "off")
        /\ Listens(m, "off") \/ Launches(m, "off")

\* Nothing but launch m and its conversation knows of pane p.
KnownTo(m, p) ==
    /\ \A n \in Messages \ {m} : launch[n].pane # p
    /\ \A d \in Conversations : session[d].pane = p => d = Of(m)
    /\ \A n \in Messages : listen[n].snap.pane = p => Of(n) = Of(m)

HeldBy(m, p) == launch[m].at \in {"attach", "mark"} /\ launch[m].pane = p

Unmarked(p) == p \in DOMAIN panes /\ panes[p].mark = "none"

\* A pane that is not marked yet is in one launch's hands, and no other row, launch or
\* copy of a row names it: nobody can claim it before it is marked.
FreshHeld ==
    \A p \in DOMAIN panes \ lost :
        Unmarked(p) => \E m \in Messages : HeldBy(m, p) /\ KnownTo(m, p)

LEMMA LaunchedInit == Init => LaunchedOnce
BY DEF Init, LaunchedOnce, Listens, Launches, Idle, Off

LEMMA LaunchedStep == Typed /\ LaunchedOnce /\ [Next]_vars => LaunchedOnce'
<1> SUFFICES ASSUME Typed, LaunchedOnce, [Next]_vars
             PROVE  LaunchedOnce'
  OBVIOUS
<1> USE DEF LaunchedOnce, Listens, Launches
<1>1. CASE UNCHANGED <<ledger, listen, launch>>
  BY <1>1
<1>2. /\ ledger \in [Messages -> {"none", "received", "dispatching", "queued", "failed"}]
      /\ listen \in [Messages -> ListenRow] /\ launch \in [Messages -> LaunchRow]
  BY DEF Typed, TypeOK, RowsOK, ThreadsOK
<1>3. ASSUME NEW m \in Messages, ListenerStep(m)
      PROVE  LaunchedOnce'
  <2> DEFINE Verdicts == {"received", "dispatching", "queued", "failed"}
  <2>1. CASE Receive(m)
    <3>1. /\ ledger[m] = "none" /\ Record(m, "received") /\ UNCHANGED launch
          /\ \E r : Listen(m, r)
      BY <2>1 DEF Receive
    <3>2. QED
      BY <1>2, <3>1 DEF Record, Listen
  <2>2. CASE UNCHANGED launch /\ listen[m].at # "off"
    <3>1. /\ UNCHANGED ledger \/ \E v \in Verdicts : Record(m, v)
          /\ UNCHANGED listen \/ \E r : Listen(m, r)
      BY <1>3, <2>2 DEF ListenerStep, Receive, Refuse, UpdateCursor, Acknowledge, Route, ReadRows,
         ListWindow, ReapOrphan, ReopenAfterReap, CountWindow, CountSessions, CreateSession, RecoverSession,
         ListenAt, Strand
    <3>2. QED
      BY <1>2, <2>2, <3>1 DEF Record, Listen
  <2>3. CASE listen[m].at # "off" /\ Listen(m, Idle) /\ \E at \in {"start", "launch"} : Launch(m, at, NoPane)
    <3>1. UNCHANGED ledger \/ \E v \in Verdicts : Record(m, v)
      BY <1>3, <2>3 DEF ListenerStep, Receive, Refuse, UpdateCursor, Acknowledge, Route, ReadRows,
         ListWindow, ReapOrphan, ReopenAfterReap, CountWindow, CountSessions, CreateSession, RecoverSession
    <3>2. QED
      BY <1>2, <2>3, <3>1 DEF Record, Listen, Launch, Idle
  <2>4. listen[m].at # "off" \/ Receive(m)
    BY <1>3 DEF ListenerStep, Refuse, UpdateCursor, Acknowledge, Route, ReadRows,
       ListWindow, ReapOrphan, ReopenAfterReap, CountWindow, CountSessions, CreateSession, RecoverSession
  <2>5. \/ UNCHANGED launch
        \/ Listen(m, Idle) /\ \E at \in {"start", "launch"} : Launch(m, at, NoPane)
    BY <1>3 DEF ListenerStep, Receive, Refuse, UpdateCursor, Acknowledge, Route, ReadRows,
       ListWindow, ReapOrphan, ReopenAfterReap, CountWindow, CountSessions, CreateSession, RecoverSession
  <2>6. QED
    BY <2>1, <2>2, <2>3, <2>4, <2>5
<1>4. ASSUME NEW m \in Messages, LaunchStep(m)
      PROVE  LaunchedOnce'
  <2>1. launch[m].at # "off"
    BY <1>4 DEF LaunchStep, StartWorker, BeginLaunch, PrepareWindow, AllocatePane, AttachPane,
       MarkPane, StartCommand, WorkerComesUp, WaitForReady, DispatchMessage, FailLaunch, ReopenAfterLaunch, SaveFailed
  <2>2. /\ UNCHANGED listen
        /\ UNCHANGED ledger \/ Record(m, "failed")
        /\ UNCHANGED launch \/ \E at, p : Launch(m, at, p)
    BY <1>4 DEF LaunchStep, StartWorker, BeginLaunch, PrepareWindow, AllocatePane, AttachPane,
       MarkPane, StartCommand, WorkerComesUp, WaitForReady, DispatchMessage, FailLaunch, ReopenAfterLaunch, SaveFailed,
       LaunchAt
  <2>3. QED
    BY <1>2, <2>1, <2>2 DEF Record, Launch
<1>5. QED
  BY <1>1, <1>3, <1>4 DEF Next, TurnEnds, BeginKill, KillPane, ReopenAfterKill, MoveKilled, WorkerExits, AtRest, vars

\* Where the panes of the rows, of the copies and of the launches come from.
LEMMA RowPanes ==
    ASSUME Typed, Next, NEW d \in Conversations, session'[d].pane # session[d].pane
    PROVE  \/ session'[d].pane = NoPane
           \/ \E n \in Messages : Of(n) = d /\ session'[d].pane \in {listen[n].snap.pane, launch[n].pane}
<1> DEFINE Known == \/ session'[d].pane = NoPane
                    \/ \E n \in Messages : /\ Of(n) = d
                                           /\ session'[d].pane \in {listen[n].snap.pane, launch[n].pane}
<1> SUFFICES Known
  OBVIOUS
<1>1. session \in [Conversations -> SessionRow] /\ \A m \in Messages : Of(m) \in Conversations
  BY MessageType DEF Typed, TypeOK, RowsOK
<1>2. ASSUME NEW c \in Conversations, NEW status, NEW p, SetRow(c, Row(status, p)), c # d \/ p = session[d].pane
      PROVE  FALSE
  BY <1>1, <1>2 DEF SetRow, Row
<1>3. ASSUME NEW c \in Conversations, NEW status, NEW p, SetRow(c, Row(status, p))
      PROVE  c = d /\ session'[d].pane = p
  BY <1>1, <1>2, <1>3 DEF SetRow, Row
<1>4. ASSUME NEW c \in Conversations, NEW status
      PROVE  ~SetRow(c, Row(status, session[c].pane))
  BY <1>2, <1>3, <1>4
<1>5. ~UNCHANGED session
  OBVIOUS
<1>6. ASSUME NEW m \in Messages, ListenerStep(m)
      PROVE  Known
  <2>1. CASE UpdateCursor(m)
    BY <1>1, <2>1 DEF UpdateCursor, SetRow
  <2>2. CASE Route(m)
    BY <1>1, <1>4, <1>5, <2>2 DEF Route
  <2>3. CASE CreateSession(m)
    BY <1>1, <1>3, <1>5, <2>3 DEF CreateSession
  <2>4. CASE RecoverSession(m)
    BY <1>1, <1>3, <1>5, <2>4 DEF RecoverSession
  <2>5. QED
    BY <1>5, <1>6, <2>1, <2>2, <2>3, <2>4 DEF ListenerStep, Receive, Refuse, Acknowledge, ReadRows,
       ListWindow, ReapOrphan, ReopenAfterReap, CountWindow, CountSessions, rowVars
<1>7. ASSUME NEW m \in Messages, LaunchStep(m)
      PROVE  Known
  <2>1. CASE StartWorker(m)
    BY <1>1, <1>4, <1>5, <2>1 DEF StartWorker
  <2>2. CASE PrepareWindow(m)
    BY <1>1, <1>4, <1>5, <2>2 DEF PrepareWindow
  <2>3. CASE DispatchMessage(m)
    BY <1>1, <1>4, <1>5, <2>3 DEF DispatchMessage
  <2>4. CASE AttachPane(m)
    <3>1. SetRow(Of(m), Row(Status(Of(m)), launch[m].pane))
      BY <1>5, <2>4 DEF AttachPane
    <3>2. QED
      BY <1>1, <1>3, <3>1
  <2>5. CASE SaveFailed(m)
    <3>1. \E status : SetRow(Of(m), Row(status, launch[m].pane))
      BY <2>5 DEF SaveFailed
    <3>2. QED
      BY <1>1, <1>3, <3>1
  <2>6. QED
    BY <1>5, <1>7, <2>1, <2>2, <2>3, <2>4, <2>5 DEF LaunchStep, BeginLaunch, AllocatePane, MarkPane,
       StartCommand, WorkerComesUp, WaitForReady, FailLaunch, ReopenAfterLaunch, rowVars
<1>8. ASSUME NEW c \in Conversations, TurnEnds(c)
      PROVE  Known
  BY <1>4, <1>8 DEF TurnEnds
<1>9. CASE MoveKilled
  <2>1. ending.conv \in Conversations
    BY <1>9 DEF MoveKilled, Typed, TypeOK, ThreadsOK
  <2>2. QED
    BY <1>3, <1>5, <1>9, <2>1 DEF MoveKilled
<1>10. QED
  BY <1>5, <1>6, <1>7, <1>8, <1>9 DEF Next, BeginKill, KillPane, ReopenAfterKill, WorkerExits, AtRest, vars, rowVars

LEMMA SnapPanes ==
    ASSUME Typed, Next, NEW n \in Messages
    PROVE  listen'[n].snap.pane \in {listen[n].snap.pane, NoPane, session[Of(n)].pane}
<1>1. listen \in [Messages -> ListenRow] /\ Idle.snap.pane = NoPane
  BY DEF Typed, TypeOK, ThreadsOK, Idle, Row
<1>2. CASE UNCHANGED listen
  BY <1>2
<1>3. ASSUME NEW m \in Messages, NEW r, Listen(m, r),
             r.snap.pane \in {listen[m].snap.pane, NoPane, session[Of(m)].pane}
      PROVE  listen'[n].snap.pane \in {listen[n].snap.pane, NoPane, session[Of(n)].pane}
  BY <1>1, <1>3 DEF Listen
<1>4. ASSUME NEW m \in Messages, ListenerStep(m)
      PROVE  \E r : /\ Listen(m, r)
                    /\ r.snap.pane \in {listen[m].snap.pane, NoPane, session[Of(m)].pane}
  <2> DEFINE From(s) == s.pane \in {listen[m].snap.pane, NoPane, session[Of(m)].pane}
             Goal == \E r : Listen(m, r) /\ From(r.snap)
  <2>1. From(listen[m].snap) /\ From(Idle.snap) /\ From(session[Of(m)]) /\ listen[m] \in ListenRow
    BY <1>1
  <2>2. ASSUME NEW at
        PROVE  /\ [listen[m] EXCEPT !.at = at].snap = listen[m].snap
               /\ [Idle EXCEPT !.at = at].snap = Idle.snap
               /\ [Idle EXCEPT !.at = at, !.snap = session[Of(m)]].snap = session[Of(m)]
               /\ \A for : [Idle EXCEPT !.at = at, !.for = for].snap = Idle.snap
    BY <2>1 DEF ListenRow, Idle
  <2>3. CASE Receive(m)
    <3>1. \E at : Listen(m, [Idle EXCEPT !.at = at, !.snap = session[Of(m)]])
      BY <2>3 DEF Receive
    <3>2. QED
      BY <2>1, <2>2, <3>1
  <2>4. CASE Refuse(m) \/ RecoverSession(m)
    BY <2>1, <2>4 DEF Refuse, RecoverSession
  <2>5. CASE UpdateCursor(m) \/ CountSessions(m) \/ Acknowledge(m)
    <3>1. Listen(m, Idle) \/ \E at : Listen(m, [listen[m] EXCEPT !.at = at])
      BY <2>5 DEF UpdateCursor, CountSessions, Acknowledge, ListenAt
    <3>2. QED
      BY <2>1, <2>2, <3>1
  <2>6. CASE Route(m)
    <3>1. Listen(m, [Idle EXCEPT !.at = "rows", !.for = "recover"]) \/ Listen(m, Idle)
      BY <2>6 DEF Route
    <3>2. [Idle EXCEPT !.at = "rows", !.for = "recover"].snap = Idle.snap
      BY DEF Idle
    <3>3. QED
      BY <2>1, <3>1, <3>2
  <2>7. CASE CreateSession(m)
    BY <2>1, <2>2, <2>7 DEF CreateSession
  <2>8. CASE ReadRows(m)
    <3>1. PICK seen, before :
             Listen(m, [listen[m] EXCEPT !.at = "list", !.next = 1, !.live = 0, !.seen = seen,
                                         !.before = before])
      BY <2>8 DEF ReadRows
    <3>2. [listen[m] EXCEPT !.at = "list", !.next = 1, !.live = 0, !.seen = seen,
                            !.before = before].snap = listen[m].snap
      BY <2>1 DEF ListenRow
    <3>3. QED
      BY <2>1, <3>1, <3>2
  <2>9. CASE ListWindow(m)
    <3>1. \/ Listen(m, Idle)
          \/ \E todo : Listen(m, [listen[m] EXCEPT !.at = "reap", !.todo = todo])
      BY <2>9 DEF ListWindow, Strand
    <3>2. \A todo : [listen[m] EXCEPT !.at = "reap", !.todo = todo].snap = listen[m].snap
      BY <2>1 DEF ListenRow
    <3>3. QED
      BY <2>1, <3>1, <3>2
  <2>10. ASSUME NEW p, ReapOrphan(m, p)
         PROVE  Goal
    <3>1. \E todo : Listen(m, [listen[m] EXCEPT !.todo = todo])
      BY <2>10 DEF ReapOrphan
    <3>2. \A todo : [listen[m] EXCEPT !.todo = todo].snap = listen[m].snap
      BY <2>1 DEF ListenRow
    <3>3. QED
      BY <2>1, <3>1, <3>2
  <2>11. CASE CountWindow(m)
    <3>1. \/ Listen(m, Idle)
          \/ \E next, live : Listen(m, [listen[m] EXCEPT !.at = "list", !.next = next, !.live = live])
          \/ \E at : Listen(m, [Idle EXCEPT !.at = at, !.for = listen[m].for])
      BY <2>11 DEF CountWindow, Strand
    <3>2. \A at : [Idle EXCEPT !.at = at, !.for = listen[m].for].snap = Idle.snap
      BY DEF Idle
    <3>3. \A next, live :
             [listen[m] EXCEPT !.at = "list", !.next = next, !.live = live].snap = listen[m].snap
      BY <2>1 DEF ListenRow
    <3>4. QED
      BY <2>1, <3>1, <3>2, <3>3
  <2>13. CASE ReopenAfterReap(m)
    <3>1. Listen(m, listen[m])
      BY <1>1, <2>13 DEF ReopenAfterReap, Listen
    <3>2. QED
      BY <2>1, <3>1
  <2>12. QED
    BY <1>4, <2>3, <2>4, <2>5, <2>6, <2>7, <2>8, <2>9, <2>10, <2>11, <2>13 DEF ListenerStep
<1>5. ASSUME NEW m \in Messages, LaunchStep(m)
      PROVE  UNCHANGED listen
  BY <1>5 DEF LaunchStep, StartWorker, BeginLaunch, PrepareWindow, AllocatePane, AttachPane, MarkPane,
     StartCommand, WorkerComesUp, WaitForReady, DispatchMessage, FailLaunch, ReopenAfterLaunch, SaveFailed
<1>6. UNCHANGED listen \/ \E m \in Messages : ListenerStep(m)
  BY <1>5 DEF Next, TurnEnds, BeginKill, KillPane, ReopenAfterKill, MoveKilled, WorkerExits, AtRest, vars
<1>7. QED
  BY <1>2, <1>3, <1>4, <1>6

LEMMA AllocationOf ==
    ASSUME Typed, NEW m \in Messages, AllocatePane(m)
    PROVE  \/ LaunchAt(m, "fail") /\ UNCHANGED panes
           \/ \E q : /\ Launch(m, "attach", q)
                     /\ (IsOwned(q) /\ UNCHANGED panes) \/ q = NewId
<1>1. CASE LaunchAt(m, "fail") /\ UNCHANGED panes
  BY <1>1
<1>2. CASE CanAllocate /\ panes' = Allocated(NewId).panes /\ Launch(m, "attach", Allocated(NewId).pane)
  <2>1. PICK i \in DOMAIN Windows :
           \/ Allocated(NewId).pane \in Reusable(Windows[i]) /\ Allocated(NewId).panes = panes
           \/ Allocated(NewId).pane = NewId
    BY <1>2, AllocatedPane
  <2>2. QED
    BY <1>2, <2>1 DEF Reusable
<1>3. QED
  BY <1>1, <1>2 DEF AllocatePane

\* A launch keeps its pane, drops it, or gets one that is marked or new.
LEMMA LaunchPanes ==
    ASSUME Typed, Next, NEW n \in Messages
    PROVE  \/ launch'[n].pane \in {launch[n].pane, NoPane, NewId}
           \/ IsOwned(launch'[n].pane) /\ UNCHANGED panes
<1> DEFINE Known == \/ launch'[n].pane \in {launch[n].pane, NoPane, NewId}
                    \/ IsOwned(launch'[n].pane) /\ UNCHANGED panes
<1>1. launch \in [Messages -> LaunchRow]
  BY DEF Typed, TypeOK, ThreadsOK
<1>2. CASE UNCHANGED launch
  BY <1>2
<1>3. ASSUME NEW m \in Messages, NEW at, NEW q, Launch(m, at, q),
             q \in {launch[m].pane, NoPane, NewId} \/ (IsOwned(q) /\ UNCHANGED panes)
      PROVE  Known
  BY <1>1, <1>3 DEF Launch
<1>4. ASSUME NEW m \in Messages, AllocatePane(m)
      PROVE  Known
  BY <1>3, <1>4, AllocationOf DEF LaunchAt
<1>5. ASSUME NEW m \in Messages, ListenerStep(m)
      PROVE  Known
  <2>1. UNCHANGED launch \/ Launch(m, "start", NoPane) \/ Launch(m, "launch", NoPane)
    BY <1>5 DEF ListenerStep, Receive, Refuse, UpdateCursor, Acknowledge, Route, ReadRows,
       ListWindow, ReapOrphan, ReopenAfterReap, CountWindow, CountSessions, CreateSession, RecoverSession
  <2>2. QED
    BY <1>2, <1>3, <2>1
<1>6. ASSUME NEW m \in Messages, LaunchStep(m)
      PROVE  Known
  <2>1. AllocatePane(m) \/ UNCHANGED launch \/ \E at : LaunchAt(m, at) \/ Launch(m, at, NoPane) \/ Launch(m, at, launch[m].pane)
    BY <1>6 DEF LaunchStep, StartWorker, BeginLaunch, PrepareWindow, AttachPane, MarkPane,
       StartCommand, WorkerComesUp, WaitForReady, DispatchMessage, FailLaunch, ReopenAfterLaunch, SaveFailed
  <2>2. QED
    BY <1>2, <1>3, <1>4, <2>1 DEF LaunchAt
<1>7. QED
  BY <1>2, <1>5, <1>6 DEF Next, TurnEnds, BeginKill, KillPane, ReopenAfterKill, MoveKilled, WorkerExits, AtRest, vars

\* Only a split gives a pane without markers, and the launch that asked for it has it.
LEMMA UnmarkedComes ==
    ASSUME Typed, Next, NEW p, Unmarked(p)', ~Unmarked(p)
    PROVE  p = NewId /\ \E m \in Messages : Launch(m, "attach", p) /\ AllocatePane(m)
<1>1. /\ PanesGood(panes) /\ "none" \notin Conversations
  BY PoolAssumption DEF Typed, TypeOK, PoolOK, Finite, PanesGood
<1>2. PICK n \in PaneIds : n = NewId /\ n \notin DOMAIN panes
  BY NewIdIsNew DEF Mentioned
<1>3. ASSUME UNCHANGED panes
      PROVE  FALSE
  BY <1>3 DEF Unmarked
<1>4. ASSUME NEW q \in DOMAIN panes, Closes(q)
      PROVE  FALSE
  BY <1>4 DEF Closes, Closed, Unmarked
<1>5. ASSUME NEW t, \/ \E q \in DOMAIN panes : ClosePane(t, q)
                    \/ EnsureWindow(t, NewId) \/ NoSession(t)
      PROVE  FALSE
  <2>1. ASSUME NEW q \in DOMAIN panes, ClosePane(t, q)
        PROVE  FALSE
    BY <1>4, <2>1 DEF ClosePane, Closes
  <2>2. CASE EnsureWindow(t, NewId)
    <3>1. PICK w : UNCHANGED panes \/ panes' = Put(panes, n, Pane(w, "bridge"))
      BY <1>2, <2>2 DEF EnsureWindow
    <3>2. Pane(w, "bridge").mark = "bridge"
      BY DEF Pane
    <3>3. QED
      BY <1>2, <1>3, <3>1, <3>2 DEF Put, Unmarked
  <2>3. CASE NoSession(t)
    BY <1>3, <2>3 DEF NoSession
  <2>4. QED
    BY <1>5, <2>1, <2>2, <2>3
<1>6. ASSUME NEW m \in Messages, LaunchStep(m)
      PROVE  p = NewId /\ Launch(m, "attach", p) /\ AllocatePane(m)
  <2> DEFINE l == launch[m].pane
  <2>1. CASE AllocatePane(m)
    <3>1. PICK q : /\ Launch(m, "attach", q)
                   /\ UNCHANGED panes \/ q = NewId
      BY <1>3, <2>1, AllocationOf
    <3>2. q = NewId /\ CanAllocate /\ panes' = Allocated(NewId).panes
      BY <1>3, <2>1, <3>1 DEF AllocatePane
    <3>3. PICK i \in DOMAIN Windows :
             Allocated(NewId).panes \in {panes, Put(panes, NewId, Pane(Windows[i], "none"))}
      BY <3>2, AllocatedPane
    <3>4. p = NewId
      BY <1>3, <3>2, <3>3 DEF Put, Unmarked
    <3>5. QED
      BY <2>1, <3>1, <3>2, <3>4
  <2>2. CASE MarkPane(m)
    <3>1. PICK k \in {panes[l].mark, "bridge", Of(m)} : l \in DOMAIN panes /\ panes' = [panes EXCEPT ![l].mark = k]
      BY <1>3, <2>2 DEF MarkPane, LivePane
    <3>2. Of(m) # "none"
      BY <1>1, MessageType
    <3>3. QED
      BY <1>1, <3>1, <3>2 DEF Unmarked, PanesGood, PaneRow
  <2>3. CASE WorkerComesUp(m)
    <3>1. l \in DOMAIN panes /\ panes' = [panes EXCEPT ![l].shell = FALSE]
      BY <2>3 DEF WorkerComesUp, LivePane
    <3>2. QED
      BY <1>1, <3>1 DEF Unmarked, PanesGood, PaneRow
  <2>4. CASE FailLaunch(m)
    BY <1>3, <1>5, <2>4 DEF FailLaunch, ClosePane, IsOwned, LivePane
  <2>6. CASE ReopenAfterLaunch(m)
    BY <1>5, <2>6 DEF ReopenAfterLaunch
  <2>5. QED
    BY <1>3, <1>6, <2>1, <2>2, <2>3, <2>4, <2>6 DEF LaunchStep, StartWorker, BeginLaunch, PrepareWindow,
       AttachPane, StartCommand, WaitForReady, DispatchMessage, SaveFailed, poolVars
<1>7. ASSUME NEW m \in Messages, ListenerStep(m)
      PROVE  FALSE
  <2>1. ASSUME NEW q \in listen[m].todo, ReapOrphan(m, q)
        PROVE  FALSE
    BY <1>3, <1>5, <2>1 DEF ReapOrphan, ClosePane, IsOwned, LivePane
  <2>3. CASE ReopenAfterReap(m)
    BY <1>5, <2>3 DEF ReopenAfterReap
  <2>2. QED
    BY <1>3, <1>7, <2>1, <2>3 DEF ListenerStep, Receive, Refuse, UpdateCursor, Acknowledge, Route, ReadRows,
       ListWindow, CountWindow, CountSessions, CreateSession, RecoverSession, poolVars
<1>8. ASSUME KillPane \/ ReopenAfterKill
      PROVE  FALSE
  BY <1>3, <1>5, <1>8 DEF KillPane, ReopenAfterKill, ClosePane, IsOwned, LivePane
<1>9. ASSUME NEW q \in DOMAIN panes, WorkerExits(q)
      PROVE  FALSE
  BY <1>4, <1>9 DEF WorkerExits, Closes
<1>10. QED
  BY <1>3, <1>6, <1>7, <1>8, <1>9 DEF Next, TurnEnds, BeginKill, MoveKilled, AtRest, vars, poolVars

LEMMA HolderStays ==
    ASSUME Typed, LaunchedOnce, Next, NEW p, Unmarked(p), Unmarked(p)', p \notin lost',
           NEW m \in Messages, HeldBy(m, p), KnownTo(m, p)
    PROVE  HeldBy(m, p)'
<1>1. launch \in [Messages -> LaunchRow] /\ "none" \notin Conversations /\ PanesGood(panes)
  BY PoolAssumption DEF Typed, TypeOK, PoolOK, ThreadsOK, Finite, PanesGood
<1>2. CASE launch'[m] = launch[m]
  BY <1>2 DEF HeldBy
<1>3. CASE AttachPane(m)
  <2>1. ~ClaimedByOther(Of(m), p)
    BY DEF KnownTo, ClaimedByOther
  <2>2. Launch(m, "mark", p)
    BY <1>3, <2>1 DEF AttachPane, LaunchAt, HeldBy
  <2>3. QED
    BY <1>1, <2>2 DEF Launch, HeldBy
<1>4. CASE MarkPane(m)
  <2>1. launch[m].pane = p /\ p \in DOMAIN panes /\ panes[p].mark = "none"
    BY DEF HeldBy, Unmarked
  <2>2. panes' = [panes EXCEPT ![p].mark = Of(m)]
    BY <1>4, <2>1 DEF MarkPane, LivePane
  <2>3. panes'[p].mark = Of(m)
    BY <1>1, <2>1, <2>2 DEF PanesGood, PaneRow
  <2>4. QED
    BY <1>1, <2>3, MessageType DEF Unmarked
<1>5. ASSUME NEW n \in Messages, ListenerStep(n)
      PROVE  launch'[m] = launch[m]
  <2>1. UNCHANGED launch \/ (listen[n].at # "off" /\ \E at : Launch(n, at, NoPane))
    BY <1>5 DEF ListenerStep, Receive, Refuse, UpdateCursor, Acknowledge, Route, ReadRows, Listens,
       ListWindow, ReapOrphan, ReopenAfterReap, CountWindow, CountSessions, CreateSession, RecoverSession
  <2>2. listen[n].at # "off" => n # m
    BY DEF LaunchedOnce, Listens, Launches, HeldBy
  <2>3. QED
    BY <1>1, <2>1, <2>2 DEF Launch
<1>6. ASSUME NEW n \in Messages, LaunchStep(n)
      PROVE  launch'[m] = launch[m] \/ (n = m /\ (AttachPane(m) \/ MarkPane(m)))
  <2>1. UNCHANGED launch \/ \E at, q : Launch(n, at, q)
    BY <1>6 DEF LaunchStep, StartWorker, BeginLaunch, PrepareWindow, AllocatePane, AttachPane,
       MarkPane, StartCommand, WorkerComesUp, WaitForReady, DispatchMessage, FailLaunch, ReopenAfterLaunch, SaveFailed,
       LaunchAt
  <2>2. n # m => launch'[m] = launch[m]
    BY <1>1, <2>1 DEF Launch
  <2>3. n = m => AttachPane(m) \/ MarkPane(m)
    BY <1>6 DEF LaunchStep, StartWorker, BeginLaunch, PrepareWindow, AllocatePane, StartCommand,
       WorkerComesUp, WaitForReady, DispatchMessage, FailLaunch, ReopenAfterLaunch, SaveFailed, Launches, HeldBy
  <2>4. QED
    BY <2>2, <2>3
<1>7. QED
  BY <1>2, <1>3, <1>4, <1>5, <1>6
     DEF Next, TurnEnds, BeginKill, KillPane, ReopenAfterKill, MoveKilled, WorkerExits, AtRest, vars

\* What a row, a copy or a launch comes to name, somebody named before or is new.
LEMMA KnownStays ==
    ASSUME Typed, Next, NEW p, Unmarked(p), NEW m \in Messages, KnownTo(m, p), HeldBy(m, p)
    PROVE  KnownTo(m, p)'
<1>1. p # NoPane /\ p # NewId /\ ~IsOwned(p)
  BY NewIdIsNew DEF Unmarked, Mentioned, IsOwned, Typed, TypeOK, PoolOK, PaneIds
<1>2. ASSUME NEW n \in Messages \ {m}
      PROVE  launch'[n].pane # p
  BY <1>1, LaunchPanes DEF KnownTo
<1>3. ASSUME NEW d \in Conversations, session'[d].pane = p
      PROVE  d = Of(m)
  <2>1. CASE session'[d].pane = session[d].pane
    BY <1>3, <2>1 DEF KnownTo
  <2>2. ASSUME NEW n \in Messages, Of(n) = d, p \in {listen[n].snap.pane, launch[n].pane}
        PROVE  d = Of(m)
    BY <2>2 DEF KnownTo
  <2>3. QED
    BY <1>1, <1>3, <2>1, <2>2, RowPanes
<1>4. ASSUME NEW n \in Messages, listen'[n].snap.pane = p
      PROVE  Of(n) = Of(m)
  BY <1>1, <1>4, SnapPanes, MessageType DEF KnownTo
<1>5. QED
  BY <1>2, <1>3, <1>4 DEF KnownTo

LEMMA LostGrows ==
    ASSUME Typed, Next
    PROVE  lost \subseteq lost'
<1>1. ASSUME NEW m \in Messages, ListenerStep(m)
      PROVE  UNCHANGED lost
  BY <1>1 DEF ListenerStep, Receive, Refuse, UpdateCursor, Acknowledge, Route, ReadRows,
     ListWindow, ReapOrphan, ReopenAfterReap, CountWindow, CountSessions, CreateSession, RecoverSession, faultVars
<1>2. ASSUME NEW m \in Messages, LaunchStep(m)
      PROVE  lost \subseteq lost'
  <2>1. CASE MarkPane(m)
    BY <2>1 DEF MarkPane
  <2>2. CASE UNCHANGED lost
    BY <2>2
  <2>3. QED
    BY <1>2, <2>1, <2>2 DEF LaunchStep, StartWorker, BeginLaunch, PrepareWindow, AllocatePane,
       AttachPane, StartCommand, WorkerComesUp, WaitForReady, DispatchMessage, FailLaunch, ReopenAfterLaunch,
       SaveFailed, faultVars
<1>3. QED
  BY <1>1, <1>2 DEF Next, TurnEnds, BeginKill, KillPane, ReopenAfterKill, MoveKilled, WorkerExits, AtRest, vars,
     faultVars

LEMMA FreshInit == Init => FreshHeld
BY DEF Init, PoolInit, FreshHeld, Unmarked, Pane

LEMMA FreshStep == Typed /\ LaunchedOnce /\ FreshHeld /\ [Next]_vars => FreshHeld'
<1>1. ASSUME Typed, FreshHeld, UNCHANGED vars
      PROVE  FreshHeld'
  BY <1>1 DEF vars, FreshHeld, Unmarked, HeldBy, KnownTo
<1>2. ASSUME Typed, LaunchedOnce, FreshHeld, Next, NEW p, p \notin lost', Unmarked(p)'
      PROVE  \E m \in Messages : HeldBy(m, p)' /\ KnownTo(m, p)'
  <2>1. CASE Unmarked(p)
    <3>1. lost \subseteq lost'
      BY <1>2, LostGrows
    <3>2. PICK m \in Messages : HeldBy(m, p) /\ KnownTo(m, p)
      BY <1>2, <2>1, <3>1 DEF FreshHeld, Unmarked
    <3>3. HeldBy(m, p)'
      BY <1>2, <2>1, <3>2, HolderStays
    <3>4. KnownTo(m, p)'
      BY <1>2, <2>1, <3>2, KnownStays
    <3>5. QED
      BY <3>3, <3>4
  <2>2. CASE ~Unmarked(p)
    <3>1. PICK m \in Messages : p = NewId /\ Launch(m, "attach", p) /\ AllocatePane(m)
      BY <1>2, <2>2, UnmarkedComes
    <3>2. p \notin Mentioned /\ p \in PaneIds
      BY <1>2, <3>1, NewIdIsNew
    <3>3. /\ \A n \in Messages : launch[n].pane # p /\ listen[n].snap.pane # p
          /\ \A d \in Conversations : session[d].pane # p
      BY <3>2 DEF Mentioned
    <3>4. launch \in [Messages -> LaunchRow] /\ UNCHANGED <<listen, session>>
      BY <1>2, <3>1 DEF Typed, TypeOK, ThreadsOK, AllocatePane, rowVars
    <3>5. HeldBy(m, p)' /\ KnownTo(m, p)'
      BY <3>1, <3>3, <3>4 DEF Launch, HeldBy, KnownTo
    <3>6. QED
      BY <3>5
  <2>3. QED
    BY <2>1, <2>2
<1>3. ASSUME Typed, LaunchedOnce, FreshHeld, Next
      PROVE  FreshHeld'
  BY <1>2, <1>3 DEF FreshHeld
<1>4. QED
  BY <1>1, <1>3

\* A pane that is asked for is never out of everybody's reach: until it has its markers, by
\* which it can be reaped or reused, the launch that asked for it has it and goes on to mark
\* it, whichever other launches, listeners and endings run meanwhile.
THEOREM PanesInReach == Spec => []NoPaneOutOfReach
<1>1. FreshHeld => NoPaneOutOfReach
  BY DEF FreshHeld, NoPaneOutOfReach, Unmarked, HeldBy
<1>2. QED
  BY <1>1, AlwaysTyped, LaunchedInit, LaunchedStep, FreshInit, FreshStep, PTL DEF Spec

-----------------------------------------------------------------------------
(* One pane, one conversation *)

\* A pane that is there after a step was there before, or has the new id.
LEMMA PanesComeNew ==
    ASSUME Typed, Next, NEW p \in DOMAIN panes', p \notin DOMAIN panes
    PROVE  p = NewId
<1>1. PanesGood(panes)
  BY DEF Typed, TypeOK, PoolOK, Finite, PanesGood
<1>2. PICK n \in PaneIds : n = NewId /\ n \notin DOMAIN panes
  BY NewIdIsNew DEF Mentioned
<1>3. ASSUME NEW q \in DOMAIN panes, Closes(q)
      PROVE  FALSE
  BY <1>3 DEF Closes, Closed
<1>4. ASSUME NEW i \in DOMAIN Windows, Opens(i)
      PROVE  p = NewId
  BY <1>4 DEF Opens, Put
<1>5. ASSUME NEW q \in DOMAIN panes, Rewrites(q)
      PROVE  FALSE
  BY <1>5 DEF Rewrites
<1>6. ASSUME NEW i \in DOMAIN Windows, Splits(i)
      PROVE  p = NewId
  BY <1>6 DEF Splits, Put
<1>7. QED
  BY <1>3, <1>4, <1>5, <1>6, PanesOfStep DEF PanesMove, PanesKept

\* A pane that somebody names was there before, and is the bridge's for good.
LEMMA NamedPane ==
    ASSUME Typed, Next, NEW p \in Mentioned, p \in DOMAIN panes'
    PROVE  p \in DOMAIN panes /\ (IsOwned(p) => panes'[p].mark # "none")
<1>1. p # NewId
  BY NewIdIsNew
<1>2. p \in DOMAIN panes
  BY <1>1, PanesComeNew
<1>3. IsOwned(p) => panes'[p].mark # "none"
  BY <1>1, <1>2, UnmarkedComes DEF Unmarked, IsOwned, LivePane
<1>4. QED
  BY <1>2, <1>3

\* Where a launch has no pane yet; where the one it has was marked; where it has tried
\* to kill it.
NoPaneYet == {"start", "launch", "window", "allocate"}
PastMark  == {"type", "boot", "dispatch", "fail", "suspend"}
PastKill  == {"fail_error", "fail_suspend"}

\* The pane that a launch leaves to a failed conversation's row is gone.
PanesBehind ==
    \A m \in Messages :
        /\ launch[m].at \in NoPaneYet => launch[m].pane = NoPane
        /\ launch[m].at \in PastMark /\ LivePane(launch[m].pane) => IsOwned(launch[m].pane)
        /\ launch[m].at \in PastKill => ~LivePane(launch[m].pane)

\* Each step of a thread is for its message and for that message's conversation.
LEMMA StepOfOne ==
    ASSUME Typed, NEW m \in Messages, ListenerStep(m) \/ LaunchStep(m)
    PROVE  /\ \A n \in Messages \ {m} : launch'[n] = launch[n] /\ listen'[n] = listen[n]
           /\ \A d \in Conversations \ {Of(m)} : session'[d] = session[d]
           /\ UNCHANGED cut
<1>1. /\ launch \in [Messages -> LaunchRow] /\ listen \in [Messages -> ListenRow]
      /\ session \in [Conversations -> SessionRow]
  BY DEF Typed, TypeOK, ThreadsOK, RowsOK
<1>2. UNCHANGED launch \/ \E at, p : Launch(m, at, p)
  BY DEF ListenerStep, Receive, Refuse, UpdateCursor, Acknowledge, Route, ReadRows, ListWindow,
     ReapOrphan, ReopenAfterReap, CountWindow, CountSessions, CreateSession, RecoverSession, LaunchStep, StartWorker,
     BeginLaunch, PrepareWindow, AllocatePane, AttachPane, MarkPane, StartCommand, WorkerComesUp,
     WaitForReady, DispatchMessage, FailLaunch, ReopenAfterLaunch, SaveFailed, LaunchAt
<1>3. UNCHANGED listen \/ \E r : Listen(m, r)
  BY DEF ListenerStep, Receive, Refuse, UpdateCursor, Acknowledge, Route, ReadRows, ListWindow,
     ReapOrphan, ReopenAfterReap, CountWindow, CountSessions, CreateSession, RecoverSession, LaunchStep, StartWorker,
     BeginLaunch, PrepareWindow, AllocatePane, AttachPane, MarkPane, StartCommand, WorkerComesUp,
     WaitForReady, DispatchMessage, FailLaunch, ReopenAfterLaunch, SaveFailed, ListenAt, Strand
<1>4. UNCHANGED session \/ \E r : SetRow(Of(m), r)
  BY DEF ListenerStep, Receive, Refuse, UpdateCursor, Acknowledge, Route, ReadRows, ListWindow,
     ReapOrphan, ReopenAfterReap, CountWindow, CountSessions, CreateSession, RecoverSession, LaunchStep, StartWorker,
     BeginLaunch, PrepareWindow, AllocatePane, AttachPane, MarkPane, StartCommand, WorkerComesUp,
     WaitForReady, DispatchMessage, FailLaunch, ReopenAfterLaunch, SaveFailed, rowVars
<1>5. UNCHANGED cut
  BY DEF ListenerStep, Receive, Refuse, UpdateCursor, Acknowledge, Route, ReadRows, ListWindow,
     ReapOrphan, ReopenAfterReap, CountWindow, CountSessions, CreateSession, RecoverSession, LaunchStep, StartWorker,
     BeginLaunch, PrepareWindow, AllocatePane, AttachPane, MarkPane, StartCommand, WorkerComesUp,
     WaitForReady, DispatchMessage, FailLaunch, ReopenAfterLaunch, SaveFailed, rowVars
<1>6. QED
  BY <1>1, <1>2, <1>3, <1>4, <1>5 DEF Launch, Listen, SetRow

LEMMA BehindInit == Init => PanesBehind
BY DEF Init, PanesBehind, Off, NoPaneYet, PastMark, PastKill

LEMMA BehindStep == Typed /\ PanesBehind /\ [Next]_vars => PanesBehind'
<1> SUFFICES ASSUME Typed, PanesBehind, Next \/ UNCHANGED vars, NEW m \in Messages
             PROVE  /\ launch'[m].at \in NoPaneYet => launch'[m].pane = NoPane
                    /\ launch'[m].at \in PastMark /\ launch'[m].pane \in DOMAIN panes'
                       => panes'[launch'[m].pane].mark # "none"
                    /\ launch'[m].at \in PastKill => launch'[m].pane \notin DOMAIN panes'
  BY DEF PanesBehind, LivePane, IsOwned
<1> DEFINE Behind(l) == /\ l.at \in NoPaneYet => l.pane = NoPane
                        /\ l.at \in PastMark /\ LivePane(l.pane) => IsOwned(l.pane)
                        /\ l.at \in PastKill => ~LivePane(l.pane)
           After(l)  == /\ l.at \in NoPaneYet => l.pane = NoPane
                        /\ l.at \in PastMark /\ l.pane \in DOMAIN panes'
                           => panes'[l.pane].mark # "none"
                        /\ l.at \in PastKill => l.pane \notin DOMAIN panes'
<1> SUFFICES After(launch'[m])
  OBVIOUS
<1> DEFINE old == launch[m]
<1>1. /\ launch \in [Messages -> LaunchRow] /\ Behind(old) /\ NoPane \notin DOMAIN panes
      /\ NoPane = 0 /\ "none" \notin Conversations
  BY PoolAssumption DEF Typed, TypeOK, ThreadsOK, PoolOK, PanesBehind, PaneIds, NoPane
<1>2. CASE UNCHANGED vars
  BY <1>1, <1>2 DEF vars, LivePane, IsOwned
<1>3. CASE Next
  <2>1. old.pane \in Mentioned
    BY DEF Mentioned
  <2>2. old.pane \in DOMAIN panes' =>
          LivePane(old.pane) /\ (IsOwned(old.pane) => panes'[old.pane].mark # "none")
    BY <1>3, <2>1, NamedPane DEF LivePane
  <2>3. NoPane \notin DOMAIN panes'
    BY <1>3, PanesComeNew, NewIdIsNew, <1>1 DEF LivePane, PaneIds, NoPane
  <2>4. After(old)
    BY <1>1, <2>2
  <2>5. ASSUME NEW at, launch'[m] = [at |-> at, pane |-> NoPane]
        PROVE  After(launch'[m])
    BY <2>3, <2>5 DEF LivePane, IsOwned
  <2>6. ASSUME NEW at, launch'[m] = [at |-> at, pane |-> old.pane],
               \/ at \in NoPaneYet /\ old.at \in NoPaneYet
               \/ at \in PastMark /\ old.at \in PastMark \cup NoPaneYet
               \/ at \in {"off", "mark"}
        PROVE  After(launch'[m])
    <3>1. launch'[m].at = at /\ launch'[m].pane = old.pane
      BY <2>6
    <3>2. old.pane \in DOMAIN panes' => old.at \notin NoPaneYet
      BY <1>1, <2>2 DEF LivePane
    <3>3. QED
      BY <1>1, <2>2, <2>6, <3>1, <3>2 DEF NoPaneYet, PastMark, PastKill
  <2>7. ASSUME NEW n \in Messages, ListenerStep(n)
        PROVE  After(launch'[m])
    <3>1. CASE n # m
      BY <2>4, <2>7, <3>1, StepOfOne
    <3>2. UNCHANGED launch \/ \E at : Launch(n, at, NoPane)
      BY <2>7 DEF ListenerStep, Receive, Refuse, UpdateCursor, Acknowledge, Route, ReadRows,
         ListWindow, ReapOrphan, ReopenAfterReap, CountWindow, CountSessions, CreateSession, RecoverSession
    <3>3. QED
      BY <1>1, <2>4, <2>5, <3>1, <3>2 DEF Launch
  <2>8. ASSUME LaunchStep(m)
        PROVE  After(launch'[m])
    <3>1. ASSUME NEW at, NEW p, Launch(m, at, p)
          PROVE  launch'[m] = [at |-> at, pane |-> p]
      BY <1>1, <3>1 DEF Launch
    <3>2. CASE StartWorker(m) \/ BeginLaunch(m) \/ PrepareWindow(m)
      <4>1. \E at \in {"launch", "off", "window", "fail", "allocate"} : LaunchAt(m, at)
        BY <3>2 DEF StartWorker, BeginLaunch, PrepareWindow
      <4>2. old.at \in NoPaneYet
        BY <3>2 DEF StartWorker, BeginLaunch, PrepareWindow, Launches, NoPaneYet
      <4>3. PICK at \in {"launch", "off", "window", "fail", "allocate"} : launch'[m] = [at |-> at, pane |-> old.pane]
        BY <3>1, <4>1 DEF LaunchAt
      <4>4. QED
        BY <2>6, <4>2, <4>3 DEF NoPaneYet, PastMark
    <3>3. CASE AllocatePane(m)
      <4>1. LaunchAt(m, "fail") \/ \E q : Launch(m, "attach", q)
        BY <3>3 DEF AllocatePane
      <4>2. old.at \in NoPaneYet
        BY <3>3 DEF AllocatePane, Launches, NoPaneYet
      <4>3. ASSUME NEW q, Launch(m, "attach", q)
            PROVE  After(launch'[m])
        <5>1. launch'[m] = [at |-> "attach", pane |-> q]
          BY <3>1, <4>3
        <5>2. launch'[m].at = "attach"
          BY <5>1
        <5>3. QED
          BY <5>2 DEF NoPaneYet, PastMark, PastKill
      <4>4. CASE LaunchAt(m, "fail")
        <5>1. launch'[m] = [at |-> "fail", pane |-> old.pane]
          BY <3>1, <4>4 DEF LaunchAt
        <5>2. QED
          BY <2>6, <4>2, <5>1 DEF PastMark
      <4>5. QED
        BY <4>1, <4>3, <4>4
    <3>4. CASE AttachPane(m)
      <4>1. Launch(m, "fail", NoPane) \/ LaunchAt(m, "mark")
        BY <3>4 DEF AttachPane
      <4>2. QED
        BY <2>5, <2>6, <3>1, <4>1 DEF LaunchAt
    <3>5. CASE MarkPane(m)
      <4>1. CASE Launch(m, "fail", NoPane)
        BY <2>5, <3>1, <4>1
      <4>2. CASE LivePane(old.pane) /\ panes' = [panes EXCEPT ![old.pane].mark = Of(m)] /\ LaunchAt(m, "type")
        <5>1. Of(m) # "none" /\ panes[old.pane] \in PaneRow
          BY <1>1, <4>2, MessageType DEF LivePane, Typed, TypeOK, PoolOK
        <5>2. panes'[old.pane].mark = Of(m)
          BY <4>2, <5>1 DEF LivePane, PaneRow
        <5>3. panes'[old.pane].mark # "none"
          BY <4>2, <5>1, <5>2 DEF LivePane, IsOwned
        <5>4. launch'[m] = [at |-> "type", pane |-> old.pane]
          BY <3>1, <4>2 DEF LaunchAt
        <5>5. QED
          BY <5>3, <5>4 DEF NoPaneYet, PastMark, PastKill
      <4>3. QED
        BY <3>5, <4>1, <4>2 DEF MarkPane
    <3>6. CASE StartCommand(m) \/ WaitForReady(m)
      <4>1. \E at \in {"boot", "fail", "dispatch", "suspend"} : LaunchAt(m, at)
        BY <3>6 DEF StartCommand, WaitForReady
      <4>2. old.at \in PastMark
        BY <3>6 DEF StartCommand, WaitForReady, Launches, PastMark
      <4>3. PICK at \in {"boot", "fail", "dispatch", "suspend"} : launch'[m] = [at |-> at, pane |-> old.pane]
        BY <3>1, <4>1 DEF LaunchAt
      <4>4. QED
        BY <2>6, <4>2, <4>3 DEF NoPaneYet, PastMark
    <3>7. CASE WorkerComesUp(m)
      BY <2>4, <3>7 DEF WorkerComesUp
    <3>8. CASE DispatchMessage(m)
      <4>1. Launch(m, "off", NoPane) \/ LaunchAt(m, "fail")
        BY <3>8 DEF DispatchMessage
      <4>2. old.at \in PastMark
        BY <3>8 DEF DispatchMessage, Launches, PastMark
      <4>3. QED
        BY <2>5, <2>6, <3>1, <4>1, <4>2 DEF LaunchAt, NoPaneYet, PastMark
    <3>9. CASE FailLaunch(m)
      <4>1. \/ Launch(m, "off", NoPane)
            \/ /\ ClosePane(Launcher(m), old.pane) \/ (~IsOwned(old.pane) /\ UNCHANGED panes)
               /\ \E at \in PastKill : LaunchAt(m, at)
        BY <3>9 DEF FailLaunch, PastKill
      <4>2. old.at \in PastMark
        BY <3>9 DEF FailLaunch, PastMark
      <4>3. ASSUME NEW at \in PastKill, LaunchAt(m, at),
                   ClosePane(Launcher(m), old.pane) \/ (~IsOwned(old.pane) /\ UNCHANGED panes)
            PROVE  After(launch'[m])
        <5>1. launch'[m] = [at |-> at, pane |-> old.pane]
          BY <3>1, <4>3 DEF LaunchAt
        <5>2. old.pane \notin DOMAIN panes'
          <6>1. CASE ClosePane(Launcher(m), old.pane)
            BY <6>1 DEF ClosePane, Closed
          <6>2. QED
            BY <1>1, <2>2, <4>2, <4>3, <6>1
        <5>3. QED
          BY <5>1, <5>2 DEF NoPaneYet, PastMark, PastKill
      <4>4. QED
        BY <2>5, <3>1, <4>1, <4>3
    <3>10. CASE SaveFailed(m)
      BY <2>5, <3>1, <3>10 DEF SaveFailed
    <3>12. CASE ReopenAfterLaunch(m)
      <4>1. old.at \in PastKill /\ old.at \notin PastMark
        BY <3>12 DEF ReopenAfterLaunch, PastKill, PastMark
      <4>2. CASE Launch(m, old.at, NoPane)
        BY <2>5, <3>1, <4>2
      <4>3. CASE UNCHANGED launch
        BY <2>4, <4>3
      <4>4. QED
        BY <3>12, <4>2, <4>3 DEF ReopenAfterLaunch
    <3>11. QED
      BY <2>8, <3>2, <3>3, <3>4, <3>5, <3>6, <3>7, <3>8, <3>9, <3>10, <3>12 DEF LaunchStep
  <2>9. ASSUME NEW n \in Messages, LaunchStep(n)
        PROVE  After(launch'[m])
    BY <2>4, <2>8, <2>9, StepOfOne
  <2>10. CASE UNCHANGED launch
    BY <2>4, <2>10
  <2>11. QED
    BY <1>3, <2>7, <2>9, <2>10 DEF Next, TurnEnds, BeginKill, KillPane, ReopenAfterKill, MoveKilled, WorkerExits, AtRest, vars
<1>4. QED
  BY <1>2, <1>3

-----------------------------------------------------------------------------
(* One conversation, one launch *)

\* A launch that works on its conversation; one that has failed and must yet say so.
UnderWay(l) == l.at \notin {"off", "start"}
GivingUp(l) == l.at \in {"fail", "suspend", "fail_error", "fail_suspend"}

\* The row of a conversation whose launch is at l.
Fits(row, l) ==
    /\ row.status = "starting" \/ (GivingUp(l) /\ row.status \in {"busy", "idle"})
    /\ l.at \in {"mark", "type", "boot", "dispatch"} => row.pane = l.pane

\* A conversation has one launch under way, which has the row to itself.
Alone(c) ==
    \A m \in Messages : Of(m) = c /\ UnderWay(launch[m]) =>
        /\ Fits(session[c], launch[m])
        /\ \A n \in Messages : Of(n) = c /\ UnderWay(launch[n]) => n = m

LaunchesAlone == stale \/ \A c \in Conversations \ cut : Alone(c)

LEMMA AloneInit == Init => LaunchesAlone
BY DEF Init, LaunchesAlone, Alone, UnderWay, Off

\* How a row may change while somebody else's launch is under way, if at all.
SameStage(before, after) ==
    /\ after.pane = before.pane
    /\ after.status = before.status \/ {before.status, after.status} \subseteq {"busy", "idle"}

\* What a step that is for one message does to the launches and the row of its
\* conversation: the launch goes on alone, or nothing that a launch looks at changes.
LEMMA OneLaunchMoves ==
    ASSUME NEW c \in Conversations, NEW m \in Messages, Of(m) = c, Alone(c),
           \A n \in Messages \ {m} : launch'[n] = launch[n],
           \/ /\ \A n \in Messages \ {m} : Of(n) = c => ~UnderWay(launch[n])
              /\ UnderWay(launch'[m]) => Fits(session'[c], launch'[m])
           \/ /\ SameStage(session[c], session'[c])
              /\ launch'[m] = launch[m] \/ launch'[m].at \in {"off", "start"}
    PROVE  Alone(c)'
<1>1. CASE /\ \A n \in Messages \ {m} : Of(n) = c => ~UnderWay(launch[n])
           /\ UnderWay(launch'[m]) => Fits(session'[c], launch'[m])
  BY <1>1 DEF Alone, UnderWay, Fits, GivingUp
<1>2. CASE /\ SameStage(session[c], session'[c])
           /\ launch'[m] = launch[m] \/ launch'[m].at \in {"off", "start"}
  <2>1. ASSUME NEW n \in Messages, Of(n) = c, UnderWay(launch'[n])
        PROVE  launch'[n] = launch[n] /\ UnderWay(launch[n])
    BY <1>2, <2>1 DEF UnderWay
  <2>2. ASSUME NEW n \in Messages, Of(n) = c, UnderWay(launch[n])
        PROVE  Fits(session'[c], launch[n])
    BY <1>2, <2>2 DEF Alone, Fits, SameStage, GivingUp
  <2>3. QED
    BY <2>1, <2>2 DEF Alone, UnderWay, Fits, GivingUp
<1>3. QED
  BY <1>1, <1>2

\* A conversation that the step is not for.
LEMMA OthersAlone ==
    ASSUME NEW c \in Conversations, Alone(c), session'[c] = session[c],
           \A n \in Messages : Of(n) = c => launch'[n] = launch[n]
    PROVE  Alone(c)'
BY DEF Alone, UnderWay, Fits, GivingUp

LEMMA ListenerAlone ==
    ASSUME Typed, NEW m \in Messages, ListenerStep(m), Alone(Of(m)), ~stale'
    PROVE  Alone(Of(m))'
<1> DEFINE c == Of(m)
<1>1. /\ launch \in [Messages -> LaunchRow] /\ session \in [Conversations -> SessionRow]
      /\ c \in Conversations /\ stale \in BOOLEAN
  BY MessageType DEF Typed, TypeOK, ThreadsOK, RowsOK
<1>2. \A n \in Messages \ {m} : launch'[n] = launch[n]
  BY StepOfOne
<1>3. CASE SameStage(session[c], session'[c]) /\ (UNCHANGED launch \/ launch'[m].at = "start")
  BY <1>1, <1>2, <1>3, OneLaunchMoves
<1>4. CASE UNCHANGED session /\ (UNCHANGED launch \/ Launch(m, "start", NoPane))
  BY <1>1, <1>3, <1>4 DEF SameStage, Launch
<1>5. CASE UpdateCursor(m)
  <2>1. UNCHANGED launch /\ session[c] = listen[m].snap /\ SetRow(c, listen[m].snap)
    BY <1>1, <1>5 DEF UpdateCursor
  <2>2. session'[c] = session[c]
    BY <1>1, <2>1 DEF SetRow
  <2>3. QED
    BY <1>3, <2>1, <2>2 DEF SameStage
<1>6. CASE Route(m)
  <2>1. CASE UNCHANGED session
    BY <1>4, <1>6, <2>1 DEF Route
  <2>2. CASE Status(c) = "idle" /\ SetRow(c, Row("busy", session[c].pane))
    BY <1>1, <1>3, <1>6, <2>2 DEF Route, SetRow, Row, Status, SameStage
  <2>3. QED
    BY <1>6, <2>1, <2>2 DEF Route
<1>7. CASE CreateSession(m)
  <2>1. CASE UNCHANGED session
    BY <1>4, <1>7, <2>1 DEF CreateSession
  <2>2. CASE Status(c) = "absent"
    <3>1. \A n \in Messages : Of(n) = c => ~UnderWay(launch[n])
      BY <2>2 DEF Alone, Fits, Status
    <3>2. UNCHANGED launch
      BY <1>7 DEF CreateSession
    <3>3. QED
      BY <1>1, <3>1, <3>2, OneLaunchMoves
  <2>3. QED
    BY <1>7, <2>1, <2>2 DEF CreateSession
<1>8. CASE RecoverSession(m)
  <2>1. CASE UNCHANGED <<session, launch>>
    BY <1>4, <2>1
  <2>2. CASE /\ Status(c) \in {"suspended", "killed"}
             /\ SetRow(c, Row("starting", NoPane)) /\ Launch(m, "launch", NoPane)
    <3>1. \A n \in Messages : Of(n) = c => ~UnderWay(launch[n])
      BY <2>2 DEF Alone, Fits, Status
    <3>2. session'[c].status = "starting" /\ launch'[m].at = "launch"
      BY <1>1, <2>2 DEF SetRow, Row, Launch
    <3>3. QED
      BY <1>1, <1>2, <3>1, <3>2, OneLaunchMoves DEF Fits
  <2>3. QED
    BY <1>8, <2>1, <2>2 DEF RecoverSession
<1>9. QED
  BY <1>4, <1>5, <1>6, <1>7, <1>8 DEF ListenerStep, Receive, Refuse, Acknowledge, ReadRows, ListWindow,
     ReapOrphan, ReopenAfterReap, CountWindow, CountSessions, rowVars

LEMMA LaunchAlone ==
    ASSUME Typed, NEW m \in Messages, LaunchStep(m), Alone(Of(m))
    PROVE  Alone(Of(m))'
<1> DEFINE c == Of(m)
           Next1(at, p, row) == launch'[m] = [at |-> at, pane |-> p] /\ session'[c] = row
<1>1. /\ launch \in [Messages -> LaunchRow] /\ session \in [Conversations -> SessionRow]
      /\ c \in Conversations
  BY MessageType DEF Typed, TypeOK, ThreadsOK, RowsOK
<1>2. \A n \in Messages \ {m} : launch'[n] = launch[n]
  BY StepOfOne
<1>3. UnderWay(launch[m]) =>
        /\ Fits(session[c], launch[m])
        /\ \A n \in Messages \ {m} : Of(n) = c => ~UnderWay(launch[n])
  BY DEF Alone
<1>4. ASSUME UnderWay(launch[m]), UnderWay(launch'[m]) => Fits(session'[c], launch'[m])
      PROVE  Alone(c)'
  BY <1>1, <1>2, <1>3, <1>4, OneLaunchMoves
<1>5. CASE StartWorker(m)
  <2>1. CASE Status(c) = "creating"
    <3>1. \A n \in Messages : Of(n) = c => ~UnderWay(launch[n])
      BY <2>1 DEF Alone, Fits, Status
    <3>2. session'[c].status = "starting" /\ launch'[m].at = "launch"
      BY <1>1, <1>5, <2>1 DEF StartWorker, Row, LaunchAt, Launch, SetRow
    <3>3. QED
      BY <1>1, <1>2, <3>1, <3>2, OneLaunchMoves DEF Fits
  <2>2. CASE LaunchAt(m, "off") /\ UNCHANGED session
    BY <1>1, <1>2, <2>2, OneLaunchMoves DEF LaunchAt, Launch, SameStage
  <2>3. QED
    BY <1>5, <2>1, <2>2 DEF StartWorker
<1>6. CASE BeginLaunch(m)
  <2>1. UnderWay(launch[m]) /\ UNCHANGED session /\ launch'[m].at \in {"off", "window"}
    BY <1>1, <1>6 DEF BeginLaunch, Launches, UnderWay, LaunchAt, rowVars, Launch
  <2>2. session[c].status = "starting"
    BY <1>3, <1>6, <2>1 DEF Fits, GivingUp, BeginLaunch, Launches
  <2>3. QED
    BY <1>4, <2>1, <2>2 DEF Fits, UnderWay
<1>7. CASE PrepareWindow(m)
  <2>1. UnderWay(launch[m]) /\ launch[m].at = "window"
    BY <1>7 DEF PrepareWindow, Launches, UnderWay
  <2>2. session[c].status = "starting"
    BY <1>3, <2>1 DEF Fits, GivingUp
  <2>3. launch'[m].at = "allocate" /\ session'[c].status = "starting"
    BY <1>1, <1>7, <2>2 DEF PrepareWindow, Status, Terminal, LaunchAt, Row, Launch, SetRow
  <2>4. QED
    BY <1>4, <2>1, <2>3 DEF Fits
<1>8. CASE AllocatePane(m)
  <2>1. UnderWay(launch[m]) /\ launch[m].at = "allocate" /\ UNCHANGED session
    BY <1>8 DEF AllocatePane, Launches, UnderWay, rowVars
  <2>2. session[c].status = "starting"
    BY <1>3, <2>1 DEF Fits, GivingUp
  <2>3. launch'[m].at \in {"attach", "fail"}
    BY <1>1, <1>8 DEF AllocatePane, LaunchAt, Launch
  <2>4. QED
    BY <1>4, <2>1, <2>2, <2>3 DEF Fits
<1>9. CASE AttachPane(m)
  <2>1. UnderWay(launch[m]) /\ launch[m].at = "attach"
    BY <1>9 DEF AttachPane, Launches, UnderWay
  <2>2. session[c].status = "starting"
    BY <1>3, <2>1 DEF Fits, GivingUp
  <2>3. \/ launch'[m].at = "fail" /\ UNCHANGED session
        \/ Next1("mark", launch[m].pane, Row("starting", launch[m].pane))
    BY <1>1, <1>9, <2>2 DEF AttachPane, LaunchAt, Status, Launch, SetRow
  <2>4. QED
    BY <1>4, <2>1, <2>2, <2>3 DEF Fits, Row
<1>10. CASE MarkPane(m) \/ StartCommand(m) \/ WaitForReady(m)
  <2>1. /\ UnderWay(launch[m]) /\ launch[m].at \in {"mark", "type", "boot"} /\ UNCHANGED session
    BY <1>10 DEF MarkPane, StartCommand, WaitForReady, Launches, UnderWay, rowVars
  <2>2. session[c].status = "starting" /\ session[c].pane = launch[m].pane
    BY <1>3, <2>1 DEF Fits, GivingUp
  <2>3. \/ launch'[m].at \in {"fail", "suspend"}
        \/ launch'[m].at \in {"type", "boot", "dispatch"} /\ launch'[m].pane = launch[m].pane
    BY <1>1, <1>10 DEF MarkPane, StartCommand, WaitForReady, LaunchAt, Launch
  <2>4. QED
    BY <1>4, <2>1, <2>2, <2>3 DEF Fits
<1>11. CASE WorkerComesUp(m)
  BY <1>1, <1>11, OthersAlone DEF WorkerComesUp, rowVars
<1>12. CASE DispatchMessage(m)
  <2>1. UnderWay(launch[m]) /\ launch[m].at = "dispatch"
    BY <1>12 DEF DispatchMessage, Launches, UnderWay
  <2>2. session[c].status = "starting"
    BY <1>3, <2>1 DEF Fits, GivingUp
  <2>3. session'[c].status = "busy" /\ launch'[m].at \in {"off", "fail"}
    BY <1>1, <1>12, <2>2 DEF DispatchMessage, LaunchAt, Launch, SetRow, Status, Row
  <2>4. QED
    BY <1>4, <2>1, <2>3 DEF Fits, GivingUp, UnderWay
<1>13. CASE FailLaunch(m)
  <2>1. UnderWay(launch[m]) /\ GivingUp(launch[m]) /\ UNCHANGED session
    BY <1>13 DEF FailLaunch, UnderWay, GivingUp, rowVars
  <2>2. session[c].status \in {"starting", "busy", "idle"}
    BY <1>3, <2>1 DEF Fits
  <2>3. launch'[m].at \in {"off", "fail_error", "fail_suspend"}
    BY <1>1, <1>13 DEF FailLaunch, LaunchAt, Launch
  <2>4. QED
    BY <1>4, <2>1, <2>2, <2>3 DEF Fits, GivingUp, UnderWay
<1>14. CASE SaveFailed(m)
  <2>1. UnderWay(launch[m]) /\ launch'[m].at = "off"
    BY <1>1, <1>14 DEF SaveFailed, Launch, UnderWay
  <2>2. QED
    BY <1>4, <2>1 DEF UnderWay
<1>16. CASE ReopenAfterLaunch(m)
  <2>1. UnderWay(launch[m]) /\ launch[m].at \in {"fail_error", "fail_suspend"} /\ UNCHANGED session
    BY <1>16 DEF ReopenAfterLaunch, UnderWay, rowVars
  <2>2. launch'[m].at = launch[m].at
    BY <1>1, <1>16 DEF ReopenAfterLaunch, Launch
  <2>3. QED
    BY <1>3, <1>4, <2>1, <2>2 DEF Fits, GivingUp
<1>15. QED
  BY <1>5, <1>6, <1>7, <1>8, <1>9, <1>10, <1>11, <1>12, <1>13, <1>14, <1>16 DEF LaunchStep

LEMMA AloneStep == Typed /\ LaunchesAlone /\ [Next]_vars => LaunchesAlone'
<1> SUFFICES ASSUME Typed, LaunchesAlone, Next \/ UNCHANGED vars, ~stale',
                    NEW c \in Conversations, c \notin cut'
             PROVE  Alone(c)'
  BY DEF LaunchesAlone
<1>1. CASE UNCHANGED vars
  BY <1>1 DEF vars, LaunchesAlone, Alone
<1>2. CASE Next
  <2>1. /\ launch \in [Messages -> LaunchRow] /\ session \in [Conversations -> SessionRow]
        /\ stale \in BOOLEAN
    BY DEF Typed, TypeOK, ThreadsOK, RowsOK
  <2>2. ASSUME NEW m \in Messages, ListenerStep(m) \/ LaunchStep(m)
        PROVE  Alone(c)'
    <3>1. UNCHANGED cut /\ (stale => stale')
      BY <2>1, <2>2, StepOfOne DEF ListenerStep, Receive, Refuse, UpdateCursor, Acknowledge, Route,
         ReadRows, ListWindow, ReapOrphan, ReopenAfterReap, CountWindow, CountSessions, CreateSession, RecoverSession,
         LaunchStep, StartWorker, BeginLaunch, PrepareWindow, AllocatePane, AttachPane, MarkPane,
         StartCommand, WorkerComesUp, WaitForReady, DispatchMessage, FailLaunch, ReopenAfterLaunch, SaveFailed, rowVars
    <3>2. Alone(c)
      BY <3>1 DEF LaunchesAlone
    <3>3. CASE Of(m) = c
      BY <2>2, <3>2, <3>3, ListenerAlone, LaunchAlone
    <3>4. CASE Of(m) # c
      BY <2>2, <3>2, <3>4, StepOfOne, OthersAlone
    <3>5. QED
      BY <3>3, <3>4
  <2>3. ASSUME NEW d \in Conversations, TurnEnds(d)
        PROVE  Alone(c)'
    <3>1. Alone(c) /\ UNCHANGED launch
      BY <2>3 DEF TurnEnds, LaunchesAlone
    <3>2. SameStage(session[c], session'[c])
      BY <2>1, <2>3 DEF TurnEnds, SetRow, Row, Status, SameStage
    <3>3. QED
      BY <3>1, <3>2 DEF Alone, SameStage, Fits, UnderWay, GivingUp
  <2>4. CASE MoveKilled
    <3>1. Alone(c) /\ UNCHANGED launch
      BY <2>4 DEF MoveKilled, LaunchesAlone
    <3>2. CASE c = ending.conv
      <4>1. \A m \in Messages : Of(m) = c => launch[m].at = "off"
        BY <2>4, <3>2 DEF MoveKilled, Launches
      <4>2. QED
        BY <3>1, <4>1 DEF Alone, UnderWay
    <3>3. CASE c # ending.conv
      <4>1. session'[c] = session[c]
        BY <2>1, <2>4, <3>3 DEF MoveKilled, SetRow
      <4>2. QED
        BY <3>1, <4>1, OthersAlone
    <3>4. QED
      BY <3>2, <3>3
  <2>5. CASE UNCHANGED <<session, launch, cut, stale>>
    BY <2>5, OthersAlone DEF LaunchesAlone
  <2>6. QED
    BY <1>2, <2>2, <2>3, <2>4, <2>5 DEF Next, BeginKill, KillPane, ReopenAfterKill, WorkerExits, AtRest, vars, rowVars
<1>3. QED
  BY <1>1, <1>2

-----------------------------------------------------------------------------
(* Rows and capacity checks *)

Recoverable(c) == Status(c) \in RECOVERABLE_TMUX_STATUSES

LEMMA StaleStays ==
    ASSUME Typed, Next, ~stale'
    PROVE  ~stale
<1>1. stale \in BOOLEAN
  BY DEF Typed, TypeOK, RowsOK
<1>2. ASSUME NEW m \in Messages, ListenerStep(m)
      PROVE  ~stale
  BY <1>1, <1>2 DEF ListenerStep, Receive, Refuse, UpdateCursor, Acknowledge, Route, ReadRows,
     ListWindow, ReapOrphan, ReopenAfterReap, CountWindow, CountSessions, CreateSession, RecoverSession, rowVars
<1>3. ASSUME NEW m \in Messages, LaunchStep(m)
      PROVE  ~stale
  BY <1>1, <1>3 DEF LaunchStep, StartWorker, BeginLaunch, PrepareWindow, AllocatePane, AttachPane,
     MarkPane, StartCommand, WorkerComesUp, WaitForReady, DispatchMessage, FailLaunch, ReopenAfterLaunch, SaveFailed,
     rowVars
<1>4. QED
  BY <1>1, <1>2, <1>3 DEF Next, TurnEnds, BeginKill, KillPane, ReopenAfterKill, MoveKilled, WorkerExits, AtRest,
     rowVars, vars

\* Nobody works yet on a conversation without a row.
Untouched(c) ==
    /\ session[c].pane = NoPane
    /\ \A m \in Messages : Of(m) = c =>
           launch[m].at = "off" /\ listen[m].at \notin {"cursor", "ack", "route"}

AbsentIsUntouched == stale \/ \A c \in Conversations : Status(c) = "absent" => Untouched(c)

\* What a listener's record becomes in the steps of a capacity check.
LEMMA RowsAreRead ==
    ASSUME listen \in [Messages -> ListenRow], NEW m \in Messages, ReadRows(m)
    PROVE  LET seen   == {session[c].pane : c \in {d \in Conversations :
                              Status(d) \in RECOVERABLE_TMUX_STATUSES}} \ {NoPane}
               before == {p \in DOMAIN panes : InUse(p)}
           IN  /\ listen[m].at = "rows" /\ listen'[m].at = "list"
               /\ listen'[m].seen = seen /\ listen'[m].before = before
               /\ listen'[m].todo = listen[m].todo
<1> DEFINE seen   == {session[c].pane : c \in {d \in Conversations :
                          Status(d) \in RECOVERABLE_TMUX_STATUSES}} \ {NoPane}
           before == {p \in DOMAIN panes : InUse(p)}
           r      == [listen[m] EXCEPT !.at = "list", !.next = 1, !.live = 0, !.seen = seen,
                                       !.before = before]
<1>1. listen[m].at = "rows" /\ Listen(m, r)
  BY DEF ReadRows, Listens
<1>2. listen'[m] = r
  <2> HIDE DEF r
  <2>1. QED
    BY <1>1 DEF Listen
<1> HIDE DEF seen, before
<1>3. /\ r.at = "list" /\ r.seen = seen /\ r.before = before
      /\ r.todo = listen[m].todo
  BY DEF ListenRow
<1> HIDE DEF r
<1>4. QED
  BY <1>1, <1>2, <1>3 DEF seen, before

LEMMA WindowIsListed ==
    ASSUME listen \in [Messages -> ListenRow], NEW m \in Messages, ListWindow(m)
    PROVE  \/ listen'[m] = Idle
           \/ /\ listen'[m].at = "reap"
              /\ listen'[m].seen = listen[m].seen /\ listen'[m].before = listen[m].before
              /\ listen'[m].todo \cap listen[m].seen = {}
<1> DEFINE w    == Windows[listen[m].next]
           todo == {p \in ListPanes(w) : panes[p].mark \in Conversations /\ p \notin listen[m].seen}
           r    == [listen[m] EXCEPT !.at = "reap", !.todo = todo]
<1>1. Strand(m) \/ Listen(m, r)
  BY DEF ListWindow
<1>2. CASE Strand(m)
  BY <1>2 DEF Strand, Listen
<1>3. CASE Listen(m, r)
  <2>1. todo \cap listen[m].seen = {}
    OBVIOUS
  <2> HIDE DEF todo
  <2>2. /\ r.at = "reap" /\ r.seen = listen[m].seen /\ r.before = listen[m].before
        /\ r.todo = todo
    BY DEF ListenRow
  <2> HIDE DEF r
  <2>3. listen'[m] = r
    BY <1>3 DEF Listen
  <2>4. QED
    BY <2>1, <2>2, <2>3
<1>4. QED
  BY <1>1, <1>2, <1>3

LEMMA WindowIsCounted ==
    ASSUME listen \in [Messages -> ListenRow], NEW m \in Messages, CountWindow(m)
    PROVE  /\ listen[m].todo = {}
           /\ \/ listen'[m] = Idle
              \/ /\ listen'[m].at \in {"list", "count", "refuse"} /\ listen'[m].todo = {}
                 /\ \/ listen'[m].before = {}
                    \/ listen'[m].seen = listen[m].seen /\ listen'[m].before = listen[m].before
<1> DEFINE live == listen[m].live + Cardinality(ListPanes(Windows[listen[m].next]))
           next == listen[m].next + 1
           at   == IF live < PoolMax THEN "count" ELSE "refuse"
           r    == [listen[m] EXCEPT !.at = "list", !.next = next, !.live = live]
           s    == [Idle EXCEPT !.at = at, !.for = listen[m].for]
<1>1. listen[m].todo = {} /\ (Strand(m) \/ Listen(m, r) \/ Listen(m, s))
  BY DEF CountWindow
<1>2. CASE Strand(m)
  BY <1>1, <1>2 DEF Strand, Listen
<1>3. CASE Listen(m, r)
  <2> HIDE DEF live, next
  <2>1. /\ r.at = "list" /\ r.seen = listen[m].seen /\ r.before = listen[m].before
        /\ r.todo = listen[m].todo
    BY DEF ListenRow
  <2> HIDE DEF r
  <2>2. listen'[m] = r
    BY <1>3 DEF Listen
  <2>3. QED
    BY <1>1, <2>1, <2>2
<1>4. CASE Listen(m, s)
  <2>1. at \in {"count", "refuse"}
    OBVIOUS
  <2> HIDE DEF at
  <2>2. s.at = at /\ s.before = {} /\ s.todo = {}
    BY DEF Idle
  <2> HIDE DEF s
  <2>3. listen'[m] = s
    BY <1>4 DEF Listen
  <2>4. QED
    BY <1>1, <2>1, <2>2, <2>3
<1>5. QED
  BY <1>1, <1>2, <1>3, <1>4

LEMMA NoCheckYet ==
    ASSUME listen \in [Messages -> ListenRow], NEW m \in Messages, Receive(m)
    PROVE  /\ listen'[m].at \in {"rows", "refuse", "cursor"}
           /\ listen'[m].before = {} /\ listen'[m].todo = {}
BY DEF Receive, Listen, Idle

LEMMA NoCheckNow ==
    ASSUME listen \in [Messages -> ListenRow], NEW m \in Messages,
           Refuse(m) \/ RecoverSession(m) \/ Route(m) \/ CreateSession(m)
    PROVE  /\ listen'[m].at \in {"off", "rows", "ack", "cursor"}
           /\ listen'[m].before = {} /\ listen'[m].todo = {}
<1>1. CASE Refuse(m) \/ RecoverSession(m)
  BY <1>1 DEF Refuse, RecoverSession, Listen, Idle
<1>2. CASE Route(m)
  <2>1. listen'[m] = Idle \/ listen'[m] = [Idle EXCEPT !.at = "rows", !.for = "recover"]
    BY <1>2 DEF Route, Listen
  <2>2. CASE listen'[m] = Idle
    BY <2>2 DEF Idle
  <2>3. CASE listen'[m] = [Idle EXCEPT !.at = "rows", !.for = "recover"]
    BY <2>3 DEF Idle
  <2>4. QED
    BY <2>1, <2>2, <2>3
<1>3. CASE CreateSession(m)
  <2>1. \/ listen'[m] = Idle \/ listen'[m] = [Idle EXCEPT !.at = "ack"]
        \/ listen'[m] = [Idle EXCEPT !.at = "cursor", !.snap = session[Of(m)]]
    BY <1>3 DEF CreateSession, Listen
  <2>2. CASE listen'[m] = Idle
    BY <2>2 DEF Idle
  <2>3. CASE listen'[m] = [Idle EXCEPT !.at = "ack"]
    BY <2>3 DEF Idle
  <2>4. CASE listen'[m] = [Idle EXCEPT !.at = "cursor", !.snap = session[Of(m)]]
    BY <2>4 DEF Idle
  <2>5. QED
    BY <2>1, <2>2, <2>3, <2>4
<1>4. QED
  BY <1>1, <1>2, <1>3

LEMMA UntouchedInit == Init => AbsentIsUntouched
BY DEF Init, AbsentIsUntouched, Untouched, Row, Off, Idle

LEMMA UntouchedStep == Typed /\ AbsentIsUntouched /\ [Next]_vars => AbsentIsUntouched'
<1> SUFFICES ASSUME Typed, AbsentIsUntouched, Next \/ UNCHANGED vars, ~stale',
                    NEW c \in Conversations, session'[c].status = "absent"
             PROVE  Untouched(c)'
  BY DEF AbsentIsUntouched, Status
<1>1. CASE UNCHANGED vars
  BY <1>1 DEF vars, AbsentIsUntouched, Untouched, Status
<1>2. CASE Next
  <2>1. /\ launch \in [Messages -> LaunchRow] /\ listen \in [Messages -> ListenRow]
        /\ session \in [Conversations -> SessionRow]
    BY DEF Typed, TypeOK, ThreadsOK, RowsOK
  <2>2. Status(c) = "absent" => Untouched(c)
    BY <1>2, StaleStays DEF AbsentIsUntouched
  <2>3. CASE session'[c] = session[c] /\ \A m \in Messages : Of(m) = c =>
                launch'[m].at = launch[m].at /\ listen'[m].at = listen[m].at
    BY <2>2, <2>3 DEF Untouched, Status
  <2>4. ASSUME NEW m \in Messages, ListenerStep(m), Of(m) = c
        PROVE  Untouched(c)'
    <3>1. \A n \in Messages \ {m} : launch'[n] = launch[n] /\ listen'[n] = listen[n]
      BY <2>4, StepOfOne
    <3>2. \A r : SetRow(c, r) => session'[c] = r
      BY <2>1 DEF SetRow
    <3>3. ASSUME session'[c] = session[c], Status(c) = "absent" =>
                    launch'[m].at = "off" /\ listen'[m].at \notin {"cursor", "ack", "route"}
          PROVE  Untouched(c)'
      BY <2>2, <3>1, <3>3 DEF Untouched, Status
    <3>4. CASE UpdateCursor(m) \/ Acknowledge(m) \/ Route(m)
      <4>1. UpdateCursor(m) => session[c] = listen[m].snap /\ SetRow(c, listen[m].snap)
        BY <2>4 DEF UpdateCursor
      <4>2. session'[c] = session[c] \/ session'[c].status = "busy"
        <5>1. CASE UpdateCursor(m)
          BY <3>2, <4>1, <5>1
        <5>2. CASE Acknowledge(m)
          BY <5>2 DEF Acknowledge, rowVars
        <5>3. CASE Route(m)
          <6>1. UNCHANGED session \/ SetRow(c, Row("busy", session[c].pane))
            BY <2>4, <5>3 DEF Route
          <6>2. QED
            BY <3>2, <6>1 DEF Row
        <5>4. QED
          BY <3>4, <5>1, <5>2, <5>3
      <4>3. listen[m].at \in {"cursor", "ack", "route"} /\ Status(c) # "absent"
        BY <2>2, <2>4, <3>4 DEF UpdateCursor, Acknowledge, Route, Listens, Untouched
      <4>4. QED
        BY <3>3, <4>2, <4>3
    <3>5. CASE Receive(m)
      BY <2>1, <2>2, <2>4, <3>3, <3>5 DEF Receive, Listen, Untouched, Idle, rowVars
    <3>6. CASE CreateSession(m)
      <4>1. UNCHANGED launch /\ (Status(c) # "absent" => UNCHANGED session)
        BY <2>4, <3>6 DEF CreateSession
      <4>2. Status(c) = "absent" => session'[c].status = "creating"
        BY <2>4, <3>2, <3>6 DEF CreateSession, Row
      <4>3. QED
        BY <3>3, <4>1, <4>2
    <3>7. CASE RecoverSession(m)
      <4>1. \/ Status(c) # "absent" /\ session'[c].status = "starting"
            \/ UNCHANGED <<session, launch>>
        BY <2>4, <3>2, <3>7 DEF RecoverSession, Row
      <4>2. listen'[m].at = "off"
        BY <2>1, <3>7 DEF RecoverSession, Listen, Idle
      <4>3. QED
        BY <2>2, <2>4, <3>3, <4>1, <4>2 DEF Untouched
    <3>8. CASE UNCHANGED <<session, launch>> /\ listen'[m].at \notin {"cursor", "ack", "route"}
      BY <2>2, <2>4, <3>3, <3>8 DEF Untouched
    <3>9. ASSUME Refuse(m) \/ ReadRows(m) \/ ListWindow(m) \/ (\E p \in listen[m].todo : ReapOrphan(m, p))
                 \/ ReopenAfterReap(m) \/ CountWindow(m) \/ CountSessions(m)
          PROVE  UNCHANGED <<session, launch>> /\ listen'[m].at \notin {"cursor", "ack", "route"}
      <4>1. UNCHANGED <<session, launch>>
        BY <3>9 DEF Refuse, ReadRows, ListWindow, ReapOrphan, ReopenAfterReap, CountWindow, CountSessions, rowVars
      <4>2. Idle.at = "off"
        BY DEF Idle
      <4>3. CASE ReadRows(m)
        BY <2>1, <4>1, <4>3, RowsAreRead
      <4>4. CASE ListWindow(m)
        BY <2>1, <4>1, <4>2, <4>4, WindowIsListed
      <4>6. ASSUME NEW p, ReapOrphan(m, p)
            PROVE  listen'[m].at = "reap"
        BY <2>1, <4>6 DEF ReapOrphan, Listen, Listens, ListenRow
      <4>12. CASE ReopenAfterReap(m)
        BY <4>1, <4>12 DEF ReopenAfterReap, Listens
      <4>7. CASE CountWindow(m)
        BY <2>1, <4>1, <4>2, <4>7, WindowIsCounted
      <4>8. CASE CountSessions(m)
        <5>1. listen[m].for \in {"create", "recover"} /\ listen[m] \in ListenRow
          BY <2>1 DEF ListenRow
        <5>2. listen'[m].at \in {"create", "recover", "refuse"}
          BY <2>1, <4>8, <5>1 DEF CountSessions, ListenAt, Listen, ListenRow
        <5>3. QED
          BY <4>1, <5>2
      <4>9. CASE Refuse(m)
        BY <2>1, <4>1, <4>2, <4>9 DEF Refuse, Listen
      <4>10. listen'[m].at \notin {"cursor", "ack", "route"}
        BY <3>9, <4>3, <4>4, <4>6, <4>7, <4>8, <4>9, <4>12
      <4>11. QED
        BY <4>1, <4>10
    <3>10. QED
      BY <2>4, <3>4, <3>5, <3>6, <3>7, <3>8, <3>9 DEF ListenerStep
  <2>5. ASSUME NEW m \in Messages, LaunchStep(m), Of(m) = c
        PROVE  Untouched(c)'
    <3>1. launch[m].at # "off"
      BY <2>5 DEF LaunchStep, StartWorker, BeginLaunch, PrepareWindow, AllocatePane, AttachPane,
         MarkPane, StartCommand, WorkerComesUp, WaitForReady, DispatchMessage, FailLaunch, ReopenAfterLaunch, SaveFailed,
         Launches
    <3>2. Status(c) \notin {"absent"}
      BY <2>2, <2>5, <3>1 DEF Untouched
    <3>3. session'[c] = session[c] \/ session'[c].status \in {"starting", "busy", "error", "suspended", Status(c)}
      BY <2>1, <2>5 DEF LaunchStep, StartWorker, BeginLaunch, PrepareWindow, AllocatePane, AttachPane,
         MarkPane, StartCommand, WorkerComesUp, WaitForReady, DispatchMessage, FailLaunch, ReopenAfterLaunch, SaveFailed,
         SetRow, Row, rowVars
    <3>4. QED
      BY <3>2, <3>3 DEF Status
  <2>6. ASSUME NEW m \in Messages, ListenerStep(m) \/ LaunchStep(m), Of(m) # c
        PROVE  Untouched(c)'
    BY <2>3, <2>6, StepOfOne
  <2>7. ASSUME NEW d \in Conversations, TurnEnds(d)
        PROVE  Untouched(c)'
    BY <2>1, <2>3, <2>7 DEF TurnEnds, SetRow, Row
  <2>8. CASE MoveKilled
    BY <2>1, <2>3, <2>8 DEF MoveKilled, SetRow, Row
  <2>9. QED
    BY <1>2, <2>3, <2>4, <2>5, <2>6, <2>7, <2>8 DEF Next, BeginKill, KillPane, ReopenAfterKill, WorkerExits, AtRest,
       vars, rowVars
<1>3. QED
  BY <1>1, <1>2

\* A live pane is in the row of one conversation that may go on.
RowsApart ==
    stale \/ \A c, d \in Conversations :
        /\ Recoverable(c) /\ Recoverable(d)
        /\ LivePane(session[c].pane) /\ session[c].pane = session[d].pane
        => c = d

\* A row has its live pane since before the step, or a launch attaches it, which nobody
\* else claims.
LEMMA RowOfLivePane ==
    ASSUME Typed, PanesBehind, AbsentIsUntouched, Next, ~stale',
           NEW d \in Conversations, Recoverable(d)', session'[d].pane \in DOMAIN panes'
    PROVE  \/ session'[d].pane = session[d].pane /\ Recoverable(d)
           \/ /\ ~ClaimedByOther(d, session'[d].pane)
              /\ \A c \in Conversations \ {d} : session'[c] = session[c]
<1> DEFINE p == session'[d].pane
           Goal == \/ p = session[d].pane /\ Recoverable(d)
                   \/ ~ClaimedByOther(d, p) /\ \A c \in Conversations \ {d} : session'[c] = session[c]
<1> SUFFICES Goal
  OBVIOUS
<1>1. session \in [Conversations -> SessionRow] /\ \A m \in Messages : Of(m) \in Conversations
  BY MessageType DEF Typed, TypeOK, RowsOK
<1>2. Recoverable(d) <=> session[d].status \in RECOVERABLE_TMUX_STATUSES
  BY DEF Recoverable, Status
<1>3. session'[d].status \in RECOVERABLE_TMUX_STATUSES
  BY DEF Recoverable, Status
<1>4. CASE session'[d] = session[d]
  BY <1>2, <1>3, <1>4
<1>5. NoPane \notin DOMAIN panes' /\ p # NoPane
  BY NewIdIsNew, PanesComeNew DEF Typed, TypeOK, PoolOK, PaneIds, NoPane
<1>6. ASSUME NEW c \in Conversations, NEW status, NEW q, SetRow(c, Row(status, q)),
             \/ q = NoPane
             \/ q = session[c].pane /\ Recoverable(c)
             \/ q \notin DOMAIN panes'
      PROVE  Goal
  <2>1. CASE c # d
    BY <1>1, <1>4, <1>6, <2>1 DEF SetRow
  <2>2. CASE c = d
    <3>1. p = q
      BY <1>1, <1>6, <2>2 DEF SetRow, Row
    <3>2. QED
      BY <1>5, <1>6, <2>2, <3>1
  <2>3. QED
    BY <2>1, <2>2
<1>7. CASE UNCHANGED session
  BY <1>4, <1>7
<1>8. ASSUME NEW m \in Messages, ListenerStep(m)
      PROVE  Goal
  <2>1. CASE UpdateCursor(m)
    <3>1. session[Of(m)] = listen[m].snap /\ SetRow(Of(m), listen[m].snap)
      BY <2>1 DEF UpdateCursor
    <3>2. UNCHANGED session
      BY <1>1, <3>1 DEF SetRow
    <3>3. QED
      BY <1>7, <3>2
  <2>2. CASE Route(m)
    <3>1. UNCHANGED session \/ (Status(Of(m)) = "idle" /\ SetRow(Of(m), Row("busy", session[Of(m)].pane)))
      BY <2>2 DEF Route
    <3>2. Status(Of(m)) = "idle" => Recoverable(Of(m))
      BY DEF Recoverable, RECOVERABLE_TMUX_STATUSES, ACTIVE_CAPACITY_STATUSES
    <3>3. QED
      BY <1>1, <1>6, <1>7, <3>1, <3>2
  <2>3. CASE CreateSession(m)
    <3>1. UNCHANGED session \/ SetRow(Of(m), Row("creating", NoPane))
      BY <2>3 DEF CreateSession
    <3>2. QED
      BY <1>1, <1>6, <1>7, <3>1
  <2>4. CASE RecoverSession(m)
    <3>1. UNCHANGED session \/ SetRow(Of(m), Row("starting", NoPane))
      BY <2>4 DEF RecoverSession
    <3>2. QED
      BY <1>1, <1>6, <1>7, <3>1
  <2>5. QED
    BY <1>7, <1>8, <2>1, <2>2, <2>3, <2>4 DEF ListenerStep, Receive, Refuse, Acknowledge, ReadRows,
       ListWindow, ReapOrphan, ReopenAfterReap, CountWindow, CountSessions, rowVars
<1>9. ASSUME NEW m \in Messages, LaunchStep(m)
      PROVE  Goal
  <2> DEFINE c == Of(m)
  <2>1. CASE StartWorker(m) \/ PrepareWindow(m) \/ DispatchMessage(m)
    <3>1. UNCHANGED session \/ \E status : SetRow(c, Row(status, session[c].pane)) /\ Status(c) \notin Terminal
      BY <2>1 DEF StartWorker, PrepareWindow, DispatchMessage, Terminal
    <3>2. Status(c) \notin Terminal => Recoverable(c) \/ Status(c) = "absent"
      BY <1>1 DEF Status, SessionRow, Statuses, Terminal, Recoverable, RECOVERABLE_TMUX_STATUSES,
         ACTIVE_CAPACITY_STATUSES
    <3>3. Status(c) = "absent" => session[c].pane = NoPane
      BY <1>1, StaleStays DEF AbsentIsUntouched, Untouched
    <3>4. QED
      BY <1>1, <1>6, <1>7, <3>1, <3>2, <3>3
  <2>2. CASE AttachPane(m)
    <3>1. CASE UNCHANGED session
      BY <1>7, <3>1
    <3>2. CASE ~ClaimedByOther(c, launch[m].pane) /\ SetRow(c, Row(Status(c), launch[m].pane))
      <4>1. CASE c = d
        BY <1>1, <3>2, <4>1 DEF SetRow, Row
      <4>2. CASE c # d
        BY <1>1, <1>4, <3>2, <4>2 DEF SetRow
      <4>3. QED
        BY <4>1, <4>2
    <3>3. QED
      BY <2>2, <3>1, <3>2 DEF AttachPane
  <2>3. CASE SaveFailed(m)
    <3>1. launch[m].at \in PastKill /\ UNCHANGED panes
      BY <2>3 DEF SaveFailed, PastKill, poolVars
    <3>2. launch[m].pane \notin DOMAIN panes'
      BY <3>1 DEF PanesBehind, LivePane
    <3>3. \E status : SetRow(c, Row(status, launch[m].pane))
      BY <2>3 DEF SaveFailed
    <3>4. QED
      BY <1>1, <1>6, <3>2, <3>3
  <2>4. QED
    BY <1>7, <1>9, <2>1, <2>2, <2>3 DEF LaunchStep, BeginLaunch, AllocatePane, MarkPane,
       StartCommand, WorkerComesUp, WaitForReady, FailLaunch, ReopenAfterLaunch, rowVars
<1>10. ASSUME NEW c \in Conversations, TurnEnds(c)
       PROVE  Goal
  <2>1. SetRow(c, Row("idle", session[c].pane)) /\ Recoverable(c)
    BY <1>10 DEF TurnEnds, Recoverable, RECOVERABLE_TMUX_STATUSES, ACTIVE_CAPACITY_STATUSES
  <2>2. QED
    BY <1>6, <2>1
<1>11. CASE MoveKilled
  <2>1. ending.conv \in Conversations
    BY <1>11 DEF MoveKilled, Typed, TypeOK, ThreadsOK
  <2>2. QED
    BY <1>6, <1>7, <1>11, <2>1 DEF MoveKilled
<1>12. QED
  BY <1>7, <1>8, <1>9, <1>10, <1>11 DEF Next, BeginKill, KillPane, ReopenAfterKill, WorkerExits, AtRest, vars, rowVars

LEMMA ApartInit == Init => RowsApart
BY DEF Init, RowsApart, Recoverable, Status, Row, RECOVERABLE_TMUX_STATUSES, ACTIVE_CAPACITY_STATUSES

LEMMA ApartStep ==
    Typed /\ PanesBehind /\ AbsentIsUntouched /\ RowsApart /\ [Next]_vars => RowsApart'
<1> SUFFICES ASSUME Typed, PanesBehind, AbsentIsUntouched, RowsApart, Next \/ UNCHANGED vars, ~stale',
                    NEW c \in Conversations, NEW d \in Conversations,
                    Recoverable(c)', Recoverable(d)',
                    session'[c].pane \in DOMAIN panes', session'[c].pane = session'[d].pane
             PROVE  c = d
  BY DEF RowsApart, LivePane
<1>1. CASE UNCHANGED vars
  BY <1>1 DEF vars, RowsApart, Recoverable, Status, LivePane
<1>2. CASE Next
  <2> DEFINE p == session'[c].pane
  <2>1. ~stale
    BY <1>2, StaleStays
  <2>2. CASE p = session[c].pane /\ Recoverable(c) /\ p = session[d].pane /\ Recoverable(d)
    <3>1. p \in Mentioned
      BY <2>2 DEF Mentioned
    <3>2. LivePane(session[c].pane)
      BY <1>2, <2>2, <3>1, NamedPane DEF LivePane
    <3>3. QED
      BY <2>1, <2>2, <3>2 DEF RowsApart
  <2>3. ASSUME NEW e \in Conversations, NEW f \in Conversations, {e, f} = {c, d}, e # f,
               ~ClaimedByOther(e, p), session'[f] = session[f]
        PROVE  FALSE
    <3>1. Status(f)' = Status(f) /\ session[f].pane = p
      BY <2>3 DEF Status
    <3>2. Recoverable(f)
      BY <2>3, <3>1 DEF Recoverable
    <3>3. QED
      BY <2>3, <3>1, <3>2 DEF ClaimedByOther, Recoverable
  <2>4. \A e \in {c, d} :
           \/ session'[e].pane = session[e].pane /\ Recoverable(e)
           \/ /\ ~ClaimedByOther(e, session'[e].pane)
              /\ \A f \in Conversations \ {e} : session'[f] = session[f]
    BY <1>2, RowOfLivePane
  <2>5. QED
    BY <2>2, <2>3, <2>4
<1>3. QED
  BY <1>1, <1>2

\* What a conversation uses is in its row.
LEMMA UsedIsInRow ==
    ASSUME LaunchesAlone, ~stale, NEW c \in Conversations, NEW p, UsesPane(c, p)
    PROVE  Recoverable(c) /\ session[c].pane = p
<1>1. c \notin cut /\ Recoverable(c)
  BY DEF UsesPane, Recoverable
<1>2. ASSUME NEW m \in Messages, Of(m) = c, Holding(m), launch[m].pane = p
      PROVE  session[c].pane = p
  BY <1>1, <1>2 DEF LaunchesAlone, Alone, Fits, UnderWay, Holding
<1>3. QED
  BY <1>1, <1>2 DEF UsesPane

\* However many launches, recoveries, endings and capacity checks run at once, on whatever
\* pool: no two conversations that may go on have the same live pane, in a row or in the
\* hands of a launch, until a cursor save undoes a row.
THEOREM PanesApart == Spec => []NoSharedPane
<1>1. LaunchesAlone /\ RowsApart => NoSharedPane
  <2> SUFFICES ASSUME LaunchesAlone, RowsApart, ~stale, NEW p \in DOMAIN panes,
                      NEW c \in Conversations, NEW d \in Conversations,
                      UsesPane(c, p), UsesPane(d, p)
               PROVE  c = d
    BY DEF NoSharedPane
  <2>1. /\ Recoverable(c) /\ session[c].pane = p
        /\ Recoverable(d) /\ session[d].pane = p
    BY UsedIsInRow
  <2>2. QED
    BY <2>1 DEF RowsApart, LivePane
<1>2. QED
  BY <1>1, AlwaysTyped, BehindInit, BehindStep, AloneInit, AloneStep, UntouchedInit,
     UntouchedStep, ApartInit, ApartStep, PTL DEF Spec

\* A capacity check spares what it saw in use when it read the rows.
CheckSpares ==
    stale \/ /\ robbed = {}
             /\ \A m \in Messages : /\ listen[m].before \subseteq listen[m].seen
                                    /\ listen[m].todo \cap listen[m].seen = {}
                                    /\ listen[m].at # "reap" => listen[m].todo = {}

LEMMA SparesInit == Init => CheckSpares
BY DEF Init, CheckSpares, Idle

LEMMA SparesStep == Typed /\ LaunchesAlone /\ CheckSpares /\ [Next]_vars => CheckSpares'
<1> SUFFICES ASSUME Typed, LaunchesAlone, CheckSpares, Next \/ UNCHANGED vars, ~stale'
             PROVE  CheckSpares'
  BY DEF CheckSpares
<1>1. CASE UNCHANGED vars
  BY <1>1 DEF vars, CheckSpares
<1>2. CASE Next
  <2>1. ~stale
    BY <1>2, StaleStays
  <2> DEFINE Fine(r) == /\ r.before \subseteq r.seen /\ r.todo \cap r.seen = {}
                        /\ r.at # "reap" => r.todo = {}
  <2>2. /\ listen \in [Messages -> ListenRow] /\ robbed = {} /\ Fine(Idle)
        /\ \A m \in Messages : Fine(listen[m])
    BY <2>1 DEF Typed, TypeOK, ThreadsOK, CheckSpares, Idle
  <2>3. CASE UNCHANGED <<listen, robbed>>
    BY <2>2, <2>3 DEF CheckSpares
  <2>4. ASSUME NEW m \in Messages, ListenerStep(m)
        PROVE  Fine(listen'[m]) /\ UNCHANGED robbed
    <3>1. listen[m] \in ListenRow /\ Fine(listen[m])
      BY <2>2
    <3>2. ASSUME NEW r, Listen(m, r)
          PROVE  listen'[m] = r
      BY <2>2, <3>2 DEF Listen
    <3>3. ASSUME NEW at, at # "reap", ListenAt(m, at), listen[m].at # "reap"
          PROVE  Fine(listen'[m])
      BY <3>1, <3>2, <3>3 DEF ListenAt, ListenRow
    <3>4. Idle.at = "off" /\ Fine(Idle) /\ (Listen(m, Idle) => Fine(listen'[m]))
      BY <3>2 DEF Idle
    <3>5. \A r : r.before = {} /\ r.todo = {} => Fine(r)
      OBVIOUS
    <3>7. CASE Receive(m)
      <4>1. UNCHANGED robbed
        BY <3>7 DEF Receive, faultVars
      <4>2. QED
        BY <2>2, <3>5, <3>7, <4>1, NoCheckYet
    <3>8. CASE Refuse(m) \/ RecoverSession(m) \/ Route(m) \/ CreateSession(m)
      <4>1. UNCHANGED robbed
        BY <3>8 DEF Refuse, RecoverSession, Route, CreateSession, faultVars
      <4>2. QED
        BY <2>2, <3>5, <3>8, <4>1, NoCheckNow
    <3>9. CASE UpdateCursor(m) \/ Acknowledge(m) \/ CountSessions(m)
      <4>1. listen[m].at \in {"cursor", "ack", "count"} /\ UNCHANGED robbed
        BY <3>9 DEF UpdateCursor, Acknowledge, CountSessions, Listens, faultVars
      <4>2. Listen(m, Idle) \/ \E at \in {"ack", "route", "create", "recover", "refuse"} : ListenAt(m, at)
        <5>1. UpdateCursor(m) \/ Acknowledge(m) =>
                 Listen(m, Idle) \/ ListenAt(m, "ack") \/ ListenAt(m, "route")
          BY DEF UpdateCursor, Acknowledge
        <5>2. CountSessions(m) => ListenAt(m, listen[m].for) \/ ListenAt(m, "refuse")
          BY DEF CountSessions
        <5>3. listen[m].for \in {"create", "recover"}
          BY <3>1 DEF ListenRow
        <5>4. QED
          BY <3>9, <5>1, <5>2, <5>3
      <4>3. CASE Listen(m, Idle)
        <5>1. listen'[m] = Idle
          BY <2>2, <4>3 DEF Listen
        <5>2. QED
          BY <2>2, <4>1, <5>1
      <4>4. ASSUME NEW at \in {"ack", "route", "create", "recover", "refuse"}, ListenAt(m, at)
            PROVE  Fine(listen'[m])
        BY <3>3, <4>1, <4>4
      <4>5. QED
        BY <4>1, <4>2, <4>3, <4>4
    <3>10. CASE ReadRows(m)
      <4> DEFINE seen == {session[c].pane : c \in {d \in Conversations :
                             Status(d) \in RECOVERABLE_TMUX_STATUSES}} \ {NoPane}
                 before == {p \in DOMAIN panes : InUse(p)}
      <4>1. before \subseteq seen
        <5> SUFFICES ASSUME NEW p \in DOMAIN panes, InUse(p)
                     PROVE  p \in seen
          OBVIOUS
        <5>1. PICK c \in Conversations : UsesPane(c, p)
          BY DEF InUse
        <5>2. Recoverable(c) /\ session[c].pane = p
          BY <2>1, <5>1, UsedIsInRow
        <5>3. p # NoPane
          BY DEF Typed, TypeOK, PoolOK, PaneIds
        <5>4. QED
          BY <5>2, <5>3 DEF Recoverable
      <4>2. listen[m].at = "rows" /\ UNCHANGED robbed
        BY <3>10 DEF ReadRows, Listens, faultVars
      <4>3. listen'[m].seen = seen /\ listen'[m].before = before /\ listen'[m].todo = listen[m].todo
        BY <2>2, <3>10, RowsAreRead
      <4> HIDE DEF seen, before
      <4>4. QED
        BY <3>1, <4>1, <4>2, <4>3
    <3>11. CASE ListWindow(m)
      <4>1. UNCHANGED robbed
        BY <3>11 DEF ListWindow
      <4>2. QED
        BY <2>2, <3>1, <3>4, <3>11, <4>1, WindowIsListed
    <3>12. ASSUME NEW p \in listen[m].todo, ReapOrphan(m, p)
           PROVE  Fine(listen'[m]) /\ UNCHANGED robbed
      <4>1. p \notin listen[m].before
        BY <3>1
      <4>2. listen'[m] = [listen[m] EXCEPT !.todo = @ \ {p}] /\ UNCHANGED robbed
        BY <3>2, <3>12, <4>1 DEF ReapOrphan
      <4>3. QED
        BY <3>1, <4>2 DEF ListenRow
    <3>13. CASE CountWindow(m)
      <4>1. UNCHANGED robbed
        BY <3>13 DEF CountWindow
      <4>2. QED
        BY <2>2, <3>1, <3>4, <3>5, <3>13, <4>1, WindowIsCounted
    <3>15. CASE ReopenAfterReap(m)
      BY <3>1, <3>15 DEF ReopenAfterReap, faultVars
    <3>14. QED
      BY <2>4, <3>7, <3>8, <3>9, <3>10, <3>11, <3>12, <3>13, <3>15 DEF ListenerStep
  <2>5. ASSUME NEW m \in Messages, ListenerStep(m)
        PROVE  CheckSpares'
    <3>1. \A n \in Messages \ {m} : listen'[n] = listen[n]
      BY <2>5, StepOfOne
    <3>2. QED
      BY <2>2, <2>4, <2>5, <3>1 DEF CheckSpares
  <2>6. ASSUME NEW m \in Messages, LaunchStep(m)
        PROVE  UNCHANGED <<listen, robbed>>
    BY <2>6 DEF LaunchStep, StartWorker, BeginLaunch, PrepareWindow, AllocatePane, AttachPane,
       MarkPane, StartCommand, WorkerComesUp, WaitForReady, DispatchMessage, FailLaunch, ReopenAfterLaunch, SaveFailed,
       faultVars
  <2>7. QED
    BY <1>2, <2>3, <2>5, <2>6 DEF Next, TurnEnds, BeginKill, KillPane, ReopenAfterKill, MoveKilled, WorkerExits,
       AtRest, vars, faultVars
<1>3. QED
  BY <1>1, <1>2

\* The orphan reaper never takes a pane that its conversation had in use when the capacity
\* check read the rows and still has, however long the check takes and whatever runs
\* meanwhile, until a cursor save undoes a row.
THEOREM OwnedAreSpared == Spec => []ReaperSparesOwned
<1>1. CheckSpares => ReaperSparesOwned
  BY DEF CheckSpares, ReaperSparesOwned
<1>2. QED
  BY <1>1, AlwaysTyped, AloneInit, AloneStep, SparesInit, SparesStep, PTL DEF Spec

=============================================================================
