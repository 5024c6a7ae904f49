--------------------------- MODULE AdmissionProofs ----------------------------
(***************************************************************************)
(* The types of Admission, for any number of conversations, messages and   *)
(* windows, and how the panes change: what AdmissionSafety builds on.      *)
(***************************************************************************)
EXTENDS Admission, FiniteSetTheorems, TLAPS

\* Every pane id that is noted anywhere comes from finitely many.
Finite ==
    /\ IsFiniteSet(DOMAIN panes) /\ IsFiniteSet(lost)
    /\ \A m \in Messages : IsFiniteSet(listen[m].seen) /\ IsFiniteSet(listen[m].todo)

Typed == TypeOK /\ Finite

LEMMA ImageFinite ==
    ASSUME NEW S, IsFiniteSet(S), NEW f
    PROVE  IsFiniteSet({f[x] : x \in S})
<1> DEFINE T == {f[x] : x \in S}
           g == [x \in S |-> f[x]]
<1>1. g \in Surjection(S, T)
  BY DEF Surjection
<1>2. QED
  BY <1>1, FS_Surjection

LEMMA ConversationsFinite == IsFiniteSet(Conversations)
BY PoolAssumption

LEMMA MessagesFinite == IsFiniteSet(Messages)
<1>1. IsFiniteSet(1..MaxMessages)
  BY AdmissionAssumption, FS_Interval
<1>2. QED
  BY <1>1, ConversationsFinite, FS_Product DEF Messages

LEMMA MessageType == \A m \in Messages : Of(m) \in Conversations
BY DEF Messages, Of

\* tmux always has an id to give that nothing mentions.
LEMMA NewIdIsNew ==
    ASSUME Typed
    PROVE  NewId \in PaneIds /\ NewId \notin Mentioned
<1>1. IsFiniteSet({session[c].pane : c \in Conversations})
  <2> DEFINE f == [c \in Conversations |-> session[c].pane]
  <2>1. IsFiniteSet({f[c] : c \in Conversations})
    BY ConversationsFinite, ImageFinite
  <2>2. \A c \in Conversations : f[c] = session[c].pane
    OBVIOUS
  <2>3. QED
    BY <2>1, <2>2
<1>2. IsFiniteSet({launch[m].pane : m \in Messages})
  <2> DEFINE f == [m \in Messages |-> launch[m].pane]
  <2>1. IsFiniteSet({f[m] : m \in Messages})
    BY MessagesFinite, ImageFinite
  <2>2. \A m \in Messages : f[m] = launch[m].pane
    OBVIOUS
  <2>3. QED
    BY <2>1, <2>2
<1>3. IsFiniteSet(UNION {listen[m].seen \cup listen[m].todo \cup {listen[m].snap.pane} : m \in Messages})
  <2> DEFINE f == [m \in Messages |-> listen[m].seen \cup listen[m].todo \cup {listen[m].snap.pane}]
             F == {f[m] : m \in Messages}
  <2>1. IsFiniteSet(F)
    BY MessagesFinite, ImageFinite
  <2>2. \A m \in Messages : IsFiniteSet(f[m])
    BY FS_Singleton, FS_Union DEF Typed, Finite
  <2>3. IsFiniteSet(UNION F)
    BY <2>1, <2>2, FS_UNION
  <2>4. F = {listen[m].seen \cup listen[m].todo \cup {listen[m].snap.pane} : m \in Messages}
    OBVIOUS
  <2>5. QED
    BY <2>3, <2>4
<1>4. IsFiniteSet(Mentioned)
  <2>1. \A A, B : IsFiniteSet(A) /\ IsFiniteSet(B) => IsFiniteSet(A \cup B)
    BY FS_Union
  <2>2. IsFiniteSet({ending.pane}) /\ IsFiniteSet(DOMAIN panes) /\ IsFiniteSet(lost)
    BY FS_Singleton DEF Typed, Finite
  <2>3. QED
    BY <1>1, <1>2, <1>3, <2>1, <2>2 DEF Mentioned
<1> DEFINE n == Cardinality(Mentioned)
           I == 1..(n + 1)
<1>5. n \in Nat /\ IsFiniteSet(I) /\ Cardinality(I) = n + 1
  <2>1. n \in Nat
    BY <1>4, FS_CardinalityType
  <2> HIDE DEF n
  <2>2. IsFiniteSet(I) /\ Cardinality(I) = n + 1
    BY <2>1, FS_Interval
  <2>3. QED
    BY <2>1, <2>2
<1>6. \E k \in I : k \notin Mentioned
  <2>1. SUFFICES ASSUME I \subseteq Mentioned
                 PROVE  FALSE
    OBVIOUS
  <2>2. Cardinality(I) <= n
    BY <1>4, <2>1, FS_Subset
  <2>3. QED
    BY <1>5, <2>2
<1>7. NewId \in I /\ NewId \notin Mentioned
  BY <1>6 DEF NewId
<1>8. \A k \in I : k \in PaneIds
  BY <1>5 DEF PaneIds, NoPane
<1>9. QED
  BY <1>7, <1>8

-----------------------------------------------------------------------------
(* Panes *)

PanesGood(ps) ==
    DOMAIN ps \subseteq PaneIds /\ ps \in [DOMAIN ps -> PaneRow] /\ IsFiniteSet(DOMAIN ps)

LEMMA PaneType ==
    ASSUME Typed, NEW i \in DOMAIN Windows, NEW k \in Marks
    PROVE  Pane(Windows[i], k) \in PaneRow
BY DEF Pane, PaneRow

LEMMA PutGood ==
    ASSUME NEW ps, PanesGood(ps), NEW p \in PaneIds, NEW r \in PaneRow
    PROVE  /\ PanesGood(Put(ps, p, r))
           /\ DOMAIN Put(ps, p, r) = DOMAIN ps \cup {p} /\ Put(ps, p, r)[p] = r
           /\ \A q \in DOMAIN ps \ {p} : Put(ps, p, r)[q] = ps[q]
<1>1. IsFiniteSet(DOMAIN ps \cup {p})
  BY FS_AddElement DEF PanesGood
<1>2. QED
  BY <1>1 DEF PanesGood, Put

LEMMA ClosedGood ==
    ASSUME NEW ps, PanesGood(ps), NEW p
    PROVE  /\ PanesGood(Closed(ps, p)) /\ DOMAIN Closed(ps, p) = DOMAIN ps \ {p}
           /\ \A q \in DOMAIN ps \ {p} : Closed(ps, p)[q] = ps[q]
<1>1. IsFiniteSet(DOMAIN ps \ {p})
  BY FS_Subset DEF PanesGood
<1>2. QED
  BY <1>1 DEF PanesGood, Closed

\* The ways the panes change in one step.
Closes(p)   == panes' = Closed(panes, p)
Opens(i)    == /\ PanesOf(panes, Windows[i]) = {} /\ DOMAIN panes # {}
               /\ panes' = Put(panes, NewId, Pane(Windows[i], "bridge"))
Splits(i)   == /\ PanesOf(panes, Windows[i]) # {}
               /\ CanSplit(Windows[i]) /\ Reusable(Windows[i]) = {}
               /\ panes' = Put(panes, NewId, Pane(Windows[i], "none"))
Rewrites(p) == \E r \in PaneRow : /\ r.window = panes[p].window
                                  /\ panes' = [panes EXCEPT ![p] = r]

\* Threads that kill no pane do this to the pool.
PanesKept ==
    \/ UNCHANGED panes
    \/ \E p \in DOMAIN panes : Rewrites(p)
    \/ \E i \in DOMAIN Windows : Splits(i)

\* A kill_pane takes a step in one of its threads.
KillMoves ==
    \E t \in Killers :
        \/ \E p \in DOMAIN panes : ClosePane(t, p)
        \/ EnsureWindow(t, NewId)
        \/ NoSession(t)

PoolMove ==
    \/ PanesKept /\ UNCHANGED opening
    \/ KillMoves
    \/ \E p \in DOMAIN panes : WorkerExits(p)

PanesMove ==
    \/ PanesKept
    \/ \E p \in DOMAIN panes : Closes(p)
    \/ \E i \in DOMAIN Windows : Opens(i)

\* The window that kill_pane sees to is one of the pool.
LEMMA WindowKept ==
    ASSUME Typed, NEW t \in DOMAIN opening
    PROVE  \E i \in DOMAIN Windows : opening[t] = Windows[i]
BY DEF Typed, TypeOK, PoolOK

LEMMA PanesOfPool ==
    ASSUME Typed, PoolMove
    PROVE  PanesMove
<1>1. ASSUME NEW t, NEW p \in DOMAIN panes, ClosePane(t, p)
      PROVE  PanesMove
  BY <1>1 DEF ClosePane, PanesMove, Closes
<1>2. ASSUME NEW t, EnsureWindow(t, NewId)
      PROVE  PanesMove
  <2>1. t \in DOMAIN opening /\ DOMAIN panes # {}
    BY <1>2 DEF EnsureWindow, InKill
  <2>2. PICK i \in DOMAIN Windows : opening[t] = Windows[i]
    BY <2>1, WindowKept
  <2>3. UNCHANGED panes \/ Opens(i)
    BY <1>2, <2>1, <2>2 DEF EnsureWindow, Opens, WindowGone, ListPanes
  <2>4. QED
    BY <2>3 DEF PanesMove, PanesKept
<1>3. ASSUME NEW t, NoSession(t)
      PROVE  PanesMove
  BY <1>3 DEF NoSession, PanesMove, PanesKept
<1>4. ASSUME NEW p \in DOMAIN panes, WorkerExits(p)
      PROVE  PanesMove
  BY <1>4 DEF WorkerExits, PanesMove, Closes
<1>5. QED
  BY <1>1, <1>2, <1>3, <1>4 DEF PoolMove, PanesMove, KillMoves

\* What allocate_pane gives: a shell that nobody works in yet, or a split.
LEMMA AllocatedPane ==
    ASSUME Typed, CanAllocate
    PROVE  \E i \in DOMAIN Windows :
              \/ /\ Allocated(NewId).pane \in Reusable(Windows[i])
                 /\ Allocated(NewId).panes = panes
              \/ /\ Reusable(Windows[i]) = {} /\ CanSplit(Windows[i])
                 /\ PanesOf(panes, Windows[i]) # {}
                 /\ Allocated(NewId).pane = NewId
                 /\ Allocated(NewId).panes = Put(panes, NewId, Pane(Windows[i], "none"))
<1> DEFINE i == CHOOSE j \in DOMAIN Windows : NewPaneIn(j)
<1>1. i \in DOMAIN Windows /\ NewPaneIn(i)
  BY DEF CanAllocate
<1>2. /\ Reusable(Windows[i]) # {} \/ CanSplit(Windows[i])
      /\ PanesOf(panes, Windows[i]) # {}
  BY <1>1 DEF NewPaneIn, CanAllocate, WindowGone, ListPanes
<1>3. Allocated(NewId) =
        IF Reusable(Windows[i]) # {}
        THEN [pane |-> CHOOSE p \in Reusable(Windows[i]) : TRUE, panes |-> panes]
        ELSE [pane |-> NewId, panes |-> Put(panes, NewId, Pane(Windows[i], "none"))]
  BY DEF Allocated
<1> HIDE DEF i
<1>4. QED
  BY <1>1, <1>2, <1>3

LEMMA RowOfPane ==
    ASSUME Typed, NEW p \in DOMAIN panes
    PROVE  /\ panes[p] \in PaneRow
           /\ \A k \in Marks : /\ [panes[p] EXCEPT !.mark = k] \in PaneRow
                               /\ [panes[p] EXCEPT !.mark = k].window = panes[p].window
           /\ [panes[p] EXCEPT !.shell = FALSE] \in PaneRow
           /\ [panes[p] EXCEPT !.shell = FALSE].window = panes[p].window
<1>1. panes[p] \in PaneRow
  BY DEF Typed, TypeOK, PoolOK
<1>2. QED
  BY <1>1 DEF PaneRow

LEMMA KillerNames ==
    \A m \in Messages : Reaper(m) \in Killers /\ Launcher(m) \in Killers
BY DEF Killers

LEMMA PoolOfStep ==
    ASSUME Typed, Next
    PROVE  PoolMove
<1> DEFINE Moves == (PanesKept /\ UNCHANGED opening) \/ KillMoves
<1>1. ASSUME NEW m \in Messages, ListenerStep(m)
      PROVE  Moves
  <2>1. ASSUME NEW p \in listen[m].todo, ReapOrphan(m, p)
        PROVE  Moves
    BY <2>1, KillerNames DEF ReapOrphan, PanesKept, KillMoves, ClosePane, IsOwned, LivePane
  <2>4. CASE ReopenAfterReap(m)
    BY <2>4, KillerNames DEF ReopenAfterReap, KillMoves
  <2>2. CASE UNCHANGED <<panes, opening>>
    BY <2>2 DEF PanesKept
  <2>3. QED
    BY <1>1, <2>1, <2>2, <2>4 DEF ListenerStep, Receive, Refuse, UpdateCursor, Acknowledge, Route, ReadRows,
       ListWindow, CountWindow, CountSessions, CreateSession, RecoverSession, poolVars
<1>2. ASSUME NEW m \in Messages, LaunchStep(m)
      PROVE  Moves
  <2> DEFINE p == launch[m].pane
  <2>1. CASE AllocatePane(m)
    <3>1. ASSUME CanAllocate, panes' = Allocated(NewId).panes
          PROVE  PanesKept
      BY <3>1, AllocatedPane DEF PanesKept, Splits
    <3>2. PanesKept /\ UNCHANGED opening
      BY <2>1, <3>1 DEF AllocatePane, PanesKept
    <3>3. QED
      BY <3>2
  <2>2. CASE MarkPane(m)
    <3>1. ASSUME LivePane(p), NEW k, k \in {panes[p].mark, "bridge", Of(m)},
                 panes' = [panes EXCEPT ![p].mark = k]
          PROVE  PanesKept
      <4>1. p \in DOMAIN panes /\ k \in Marks
        BY <3>1, RowOfPane, MessageType DEF LivePane, Marks, PaneRow
      <4>2. PICK r \in PaneRow : r = [panes[p] EXCEPT !.mark = k] /\ r.window = panes[p].window
        BY <4>1, RowOfPane
      <4>3. panes' = [panes EXCEPT ![p] = r]
        BY <3>1, <4>2
      <4>4. QED
        BY <4>1, <4>2, <4>3 DEF PanesKept, Rewrites
    <3>2. PanesKept /\ UNCHANGED opening
      BY <2>2, <3>1 DEF MarkPane, PanesKept
    <3>3. QED
      BY <3>2
  <2>3. CASE WorkerComesUp(m)
    <3>1. p \in DOMAIN panes
      BY <2>3 DEF WorkerComesUp, LivePane
    <3>2. PICK r \in PaneRow : r = [panes[p] EXCEPT !.shell = FALSE] /\ r.window = panes[p].window
      BY <3>1, RowOfPane
    <3>3. panes' = [panes EXCEPT ![p] = r]
      BY <2>3, <3>2 DEF WorkerComesUp
    <3>4. PanesKept
      BY <3>1, <3>2, <3>3 DEF PanesKept, Rewrites
    <3>5. QED
      BY <2>3, <3>4 DEF WorkerComesUp
  <2>4. CASE FailLaunch(m)
    BY <2>4, KillerNames DEF FailLaunch, PanesKept, KillMoves, ClosePane, IsOwned, LivePane
  <2>7. CASE ReopenAfterLaunch(m)
    BY <2>7, KillerNames DEF ReopenAfterLaunch, KillMoves
  <2>5. CASE UNCHANGED <<panes, opening>>
    BY <2>5 DEF PanesKept
  <2>6. QED
    BY <1>2, <2>1, <2>2, <2>3, <2>4, <2>5, <2>7 DEF LaunchStep, StartWorker, BeginLaunch, PrepareWindow,
       AttachPane, StartCommand, WaitForReady, DispatchMessage, SaveFailed, poolVars
<1>e. Ender \in Killers
  BY DEF Killers
<1>3. CASE KillPane
  <2>1. Moves
    BY <1>3, <1>e DEF KillPane, PanesKept, KillMoves, ClosePane, IsOwned, LivePane
  <2>2. QED
    BY <2>1 DEF PoolMove
<1>4. CASE ReopenAfterKill
  BY <1>4, <1>e DEF ReopenAfterKill, KillMoves, PoolMove
<1>5. CASE UNCHANGED <<panes, opening>>
  BY <1>5 DEF PanesKept, PoolMove
<1>6. QED
  BY <1>1, <1>2, <1>3, <1>4, <1>5
     DEF Next, PoolMove, TurnEnds, BeginKill, MoveKilled, AtRest, vars, poolVars

LEMMA PanesOfStep ==
    ASSUME Typed, Next
    PROVE  PanesMove
BY PoolOfStep, PanesOfPool

LEMMA SetupStays == [Next]_vars => UNCHANGED setup
<1>1. ASSUME NEW m \in Messages, ListenerStep(m)
      PROVE  UNCHANGED setup
  BY <1>1 DEF ListenerStep, Receive, Refuse, UpdateCursor, Acknowledge, Route, ReadRows,
     ListWindow, ReapOrphan, ReopenAfterReap, CountWindow, CountSessions, CreateSession, RecoverSession, poolVars
<1>2. ASSUME NEW m \in Messages, LaunchStep(m)
      PROVE  UNCHANGED setup
  BY <1>2 DEF LaunchStep, StartWorker, BeginLaunch, PrepareWindow, AllocatePane, AttachPane,
     MarkPane, StartCommand, WorkerComesUp, WaitForReady, DispatchMessage, FailLaunch, ReopenAfterLaunch, SaveFailed,
     poolVars
<1>3. QED
  BY <1>1, <1>2 DEF Next, TurnEnds, BeginKill, KillPane, ReopenAfterKill, MoveKilled, WorkerExits, AtRest, vars,
     poolVars

LEMMA PanesStayGood ==
    ASSUME Typed, UNCHANGED setup, PanesMove
    PROVE  PanesGood(panes')
<1>1. PanesGood(panes)
  BY DEF Typed, TypeOK, PoolOK, Finite, PanesGood
<1>2. NewId \in PaneIds /\ NewId \notin DOMAIN panes
  BY NewIdIsNew DEF Mentioned
<1>3. PICK n \in PaneIds : n = NewId /\ n \notin DOMAIN panes
  BY <1>2
<1> QED
  <2>1. CASE UNCHANGED panes
    BY <1>1, <2>1
  <2>2. ASSUME NEW p \in DOMAIN panes, Closes(p)
        PROVE  PanesGood(panes')
    <3>1. PanesGood(panes) => PanesGood(Closed(panes, p))
      BY ClosedGood, Zenon
    <3>2. QED
      BY <1>1, <2>2, <3>1 DEF Closes
  <2>3. ASSUME NEW i \in DOMAIN Windows, Opens(i)
        PROVE  PanesGood(panes')
    <3>1. PICK r \in PaneRow : r = Pane(Windows[i], "bridge")
      BY PaneType DEF Marks
    <3>2. PanesGood(panes) => PanesGood(Put(panes, n, r))
      BY PutGood, Zenon
    <3>3. QED
      BY <1>1, <1>3, <2>3, <3>1, <3>2 DEF Opens
  <2>4. ASSUME NEW p \in DOMAIN panes, Rewrites(p)
        PROVE  PanesGood(panes')
    BY <1>1, <2>4 DEF Rewrites, PanesGood
  <2>5. ASSUME NEW i \in DOMAIN Windows, Splits(i)
        PROVE  PanesGood(panes')
    <3>1. PICK r \in PaneRow : r = Pane(Windows[i], "none")
      BY PaneType DEF Marks
    <3>2. PanesGood(panes) => PanesGood(Put(panes, n, r))
      BY PutGood, Zenon
    <3>3. QED
      BY <1>1, <1>3, <2>5, <3>1, <3>2 DEF Splits
  <2>6. QED
    BY <2>1, <2>2, <2>3, <2>4, <2>5 DEF PanesMove, PanesKept

\* kill_pane notes a window of the pool, and forgets it.
WindowsKept(o) ==
    /\ DOMAIN o \subseteq Killers
    /\ o \in [DOMAIN o -> {Windows[i] : i \in DOMAIN Windows}]

LEMMA OpeningStaysGood ==
    ASSUME Typed, PoolMove
    PROVE  WindowsKept(opening')
<1>1. WindowsKept(opening)
  BY DEF Typed, TypeOK, PoolOK, WindowsKept
<1>2. CASE UNCHANGED opening
  BY <1>1, <1>2 DEF WindowsKept
<1>3. ASSUME NEW t \in Killers, NEW p \in DOMAIN panes, ClosePane(t, p)
      PROVE  WindowsKept(opening')
  <2>1. panes[p].window \in {Windows[i] : i \in DOMAIN Windows}
    BY DEF Typed, TypeOK, PoolOK, PaneRow
  <2>2. opening' = Put(opening, t, panes[p].window)
    BY <1>3 DEF ClosePane
  <2>3. QED
    BY <1>1, <2>1, <2>2 DEF WindowsKept, Put
<1>4. ASSUME NEW t \in Killers, opening' = Closed(opening, t)
      PROVE  WindowsKept(opening')
  BY <1>1, <1>4 DEF WindowsKept, Closed
<1>5. QED
  BY <1>2, <1>3, <1>4 DEF PoolMove, KillMoves, EnsureWindow, NoSession, WorkerExits

LEMMA PoolTyped ==
    ASSUME Typed, Next
    PROVE  PoolOK' /\ IsFiniteSet(DOMAIN panes')
<1>1. UNCHANGED setup /\ PoolMove /\ PanesMove
  BY SetupStays, PoolOfStep, PanesOfStep
<1>2. PanesGood(panes') /\ WindowsKept(opening')
  BY <1>1, PanesStayGood, OpeningStaysGood
<1>3. PaneRow' = PaneRow /\ Windows' = Windows
  BY <1>1 DEF PaneRow, Windows, Marks
<1>4. QED
  BY <1>1, <1>2, <1>3 DEF PanesGood, WindowsKept, PoolOK, Typed, TypeOK

-----------------------------------------------------------------------------
(* Rows and verdicts *)

LEMMA RowType ==
    ASSUME Typed
    PROVE  /\ \A status \in Statuses : \A p \in Nat : Row(status, p) \in SessionRow
           /\ \A c \in Conversations : session[c] \in SessionRow
           /\ \A c \in Conversations : session[c].pane \in Nat /\ Status(c) \in Statuses
           /\ \A m \in Messages : listen[m] \in ListenRow /\ listen[m].snap \in SessionRow
           /\ \A m \in Messages : launch[m].pane \in Nat
           /\ \A c \in Conversations : \A r \in SessionRow :
                 SetRow(c, r) => session' \in [Conversations -> SessionRow]
           /\ NoPane \in Nat
BY DEF Typed, TypeOK, RowsOK, ThreadsOK, Row, SessionRow, Status, SetRow, ListenRow, LaunchRow, NoPane

LEMMA RecordType ==
    ASSUME Typed, NEW m \in Messages,
           NEW v \in {"received", "dispatching", "queued", "failed"}, Record(m, v)
    PROVE  ledger' \in [Messages -> {"none", "received", "dispatching", "queued", "failed"}]
BY DEF Typed, TypeOK, RowsOK, Record

LEMMA ListenerRows ==
    ASSUME Typed, NEW m \in Messages, ListenerStep(m)
    PROVE  RowsOK'
<1> USE DEF Typed, TypeOK, RowsOK
<1> DEFINE c == Of(m)
<1>1. c \in Conversations
  BY MessageType
<1> HIDE DEF c
<1>2. CASE Receive(m) \/ Refuse(m)
  BY <1>2, RecordType DEF Receive, Refuse, rowVars
<1>3. CASE UpdateCursor(m)
  <2>1. listen[m].snap \in SessionRow
    BY RowType
  <2>2. SetRow(c, listen[m].snap) /\ stale' \in BOOLEAN /\ UNCHANGED <<ledger, cut>>
    BY <1>3 DEF UpdateCursor, c
  <2>3. session' \in [Conversations -> SessionRow]
    BY <1>1, <2>1, <2>2, RowType
  <2>4. QED
    BY <2>2, <2>3
<1>4. CASE Route(m)
  <2>1. /\ UNCHANGED session \/ SetRow(c, Row("busy", session[c].pane))
        /\ UNCHANGED ledger \/ Record(m, "queued")
        /\ UNCHANGED <<cut, stale>>
    BY <1>4 DEF Route, c
  <2>2. Row("busy", session[c].pane) \in SessionRow
    BY <1>1, RowType DEF Statuses
  <2>3. session' \in [Conversations -> SessionRow]
    BY <1>1, <2>1, <2>2, RowType
  <2>4. QED
    BY <2>1, <2>3, RecordType
<1>5. CASE CreateSession(m)
  <2>1. /\ UNCHANGED session \/ SetRow(c, Row("creating", NoPane))
        /\ UNCHANGED ledger \/ Record(m, "dispatching") \/ Record(m, "failed")
        /\ UNCHANGED <<cut, stale>>
    BY <1>5 DEF CreateSession, c
  <2>2. Row("creating", NoPane) \in SessionRow
    BY RowType DEF Statuses
  <2>3. session' \in [Conversations -> SessionRow]
    BY <1>1, <2>1, <2>2, RowType
  <2>4. QED
    BY <2>1, <2>3, RecordType
<1>6. CASE RecoverSession(m)
  <2>1. /\ UNCHANGED session \/ SetRow(c, Row("starting", NoPane))
        /\ Record(m, "queued") /\ UNCHANGED <<cut, stale>>
    BY <1>6 DEF RecoverSession, c
  <2>2. Row("starting", NoPane) \in SessionRow
    BY RowType DEF Statuses
  <2>3. session' \in [Conversations -> SessionRow]
    BY <1>1, <2>1, <2>2, RowType
  <2>4. QED
    BY <2>1, <2>3, RecordType
<1>7. CASE UNCHANGED <<rowVars, ledger>>
  BY <1>7 DEF rowVars
<1>8. QED
  BY <1>2, <1>3, <1>4, <1>5, <1>6, <1>7
     DEF ListenerStep, Acknowledge, ReadRows, ListWindow, ReapOrphan, ReopenAfterReap, CountWindow, CountSessions

LEMMA LaunchRows ==
    ASSUME Typed, NEW m \in Messages, LaunchStep(m)
    PROVE  RowsOK'
<1> USE DEF Typed, TypeOK, RowsOK
<1> DEFINE c == Of(m)
<1>1. c \in Conversations
  BY MessageType
<1> HIDE DEF c
<1>2. CASE StartWorker(m) \/ PrepareWindow(m)
  <2>1. /\ UNCHANGED session \/ SetRow(c, Row("starting", session[c].pane))
        /\ UNCHANGED <<ledger, cut, stale>>
    BY <1>2 DEF StartWorker, PrepareWindow, c
  <2>2. Row("starting", session[c].pane) \in SessionRow
    BY <1>1, RowType DEF Statuses
  <2>3. QED
    BY <1>1, <2>1, <2>2, RowType
<1>3. CASE AttachPane(m)
  <2>1. /\ UNCHANGED session \/ SetRow(c, Row(Status(c), launch[m].pane))
        /\ UNCHANGED <<ledger, cut, stale>>
    BY <1>3 DEF AttachPane, c
  <2>2. Row(Status(c), launch[m].pane) \in SessionRow
    BY <1>1, RowType
  <2>3. QED
    BY <1>1, <2>1, <2>2, RowType
<1>4. CASE DispatchMessage(m)
  <2>1. /\ UNCHANGED session \/ SetRow(c, Row("busy", session[c].pane))
        /\ UNCHANGED <<ledger, cut, stale>>
    BY <1>4 DEF DispatchMessage, c
  <2>2. Row("busy", session[c].pane) \in SessionRow
    BY <1>1, RowType DEF Statuses
  <2>3. QED
    BY <1>1, <2>1, <2>2, RowType
<1>5. CASE SaveFailed(m)
  <2>1. PICK status \in {"error", "suspended"} :
           SetRow(c, Row(status, launch[m].pane)) /\ Record(m, "failed") /\ UNCHANGED <<cut, stale>>
    BY <1>5 DEF SaveFailed, c
  <2>2. Row(status, launch[m].pane) \in SessionRow
    BY RowType DEF Statuses
  <2>3. session' \in [Conversations -> SessionRow]
    BY <1>1, <2>1, <2>2, RowType
  <2>4. QED
    BY <2>1, <2>3, RecordType
<1>6. CASE UNCHANGED <<rowVars, ledger>>
  BY <1>6 DEF rowVars
<1>7. QED
  BY <1>2, <1>3, <1>4, <1>5, <1>6
     DEF LaunchStep, BeginLaunch, AllocatePane, MarkPane, StartCommand, WorkerComesUp, WaitForReady,
         FailLaunch, ReopenAfterLaunch

LEMMA RowsTyped ==
    ASSUME Typed, Next
    PROVE  RowsOK'
<1> USE DEF Typed, TypeOK, RowsOK
<1>1. ASSUME NEW c \in Conversations, TurnEnds(c)
      PROVE  RowsOK'
  <2>1. Row("idle", session[c].pane) \in SessionRow
    BY RowType DEF Statuses
  <2>2. QED
    BY <1>1, <2>1, RowType DEF TurnEnds
<1>2. CASE MoveKilled
  <2> DEFINE c == ending.conv
  <2>1. c \in Conversations
    BY <1>2 DEF MoveKilled, ThreadsOK
  <2>2. Row("killed", NoPane) \in SessionRow
    BY RowType DEF Statuses
  <2>3. session' \in [Conversations -> SessionRow]
    BY <1>2, <2>1, <2>2, RowType DEF MoveKilled
  <2>4. QED
    BY <1>2, <2>1, <2>3 DEF MoveKilled
<1>3. CASE UNCHANGED <<rowVars, ledger>>
  BY <1>3 DEF rowVars
<1>4. QED
  BY <1>1, <1>2, <1>3, ListenerRows, LaunchRows DEF Next, BeginKill, KillPane, ReopenAfterKill, WorkerExits, AtRest, vars, rowVars

-----------------------------------------------------------------------------
(* Notices, budgets and histories *)

LEMMA SpendType ==
    ASSUME Typed, NEW k \in FaultKinds, Spend(k)
    PROVE  budget' \in [FaultKinds -> Nat]
BY DEF Typed, TypeOK, HistoryOK, Spend

LEMMA NotifyStep ==
    ASSUME Typed, NEW result, Notify(result)
    PROVE  /\ result \in Results
           /\ slots' \in Nat /\ notices' \in Nat /\ slots <= slots'
           /\ result = "suppressed_daily_limit" => slots' = slots /\ slots >= DailyLimit
           /\ slots <= DailyLimit /\ notices <= slots => slots' <= DailyLimit /\ notices' <= slots'
           /\ budget' \in [FaultKinds -> Nat]
<1>1. slots \in Nat /\ notices \in Nat /\ DailyLimit \in Nat /\ budget \in [FaultKinds -> Nat]
  BY AdmissionAssumption DEF Typed, TypeOK, NoticesOK, HistoryOK
<1>2. CASE UNCHANGED <<slots, notices, budget>> /\ result = "suppressed_daily_limit" /\ ~SlotLeft
  BY <1>1, <1>2 DEF SlotLeft, Results
<1>3. CASE /\ SlotLeft /\ result = "posted" /\ UNCHANGED budget
           /\ slots' = slots + 1 /\ notices' = notices + 1
  BY <1>1, <1>3 DEF SlotLeft, Results
<1>4. CASE /\ SlotLeft /\ result = "timed_out" /\ Spend("slack")
           /\ slots' = slots + 1 /\ notices' \in {notices, notices + 1}
  <2>1. budget' \in [FaultKinds -> Nat]
    BY <1>4, SpendType DEF FaultKinds
  <2>2. QED
    BY <1>1, <1>4, <2>1 DEF SlotLeft, Results
<1>5. QED
  BY <1>2, <1>3, <1>4 DEF Notify

\* The notices of a step: none, one, or an acknowledgement.
NoticeMove ==
    \/ UNCHANGED <<slots, notices, ack>>
    \/ Say /\ UNCHANGED ack
    \/ \E m \in Messages : \/ \E result \in Results : Notify(result) /\ ack' = [ack EXCEPT ![m] = result]
                           \/ UNCHANGED <<slots, notices>> /\ ack' = [ack EXCEPT ![m] = "suppressed_busy"]

LEMMA NoticesOfStep ==
    ASSUME Typed, Next
    PROVE  NoticeMove
<1>1. ASSUME NEW m \in Messages, ListenerStep(m)
      PROVE  NoticeMove
  <2>1. CASE Acknowledge(m)
    BY <2>1 DEF Acknowledge, NoticeMove
  <2>2. CASE Refuse(m) \/ Route(m) \/ RecoverSession(m)
    BY <2>2 DEF Refuse, Route, RecoverSession, NoticeMove
  <2>3. CASE UNCHANGED noticeVars
    BY <2>3 DEF noticeVars, NoticeMove
  <2>4. QED
    BY <1>1, <2>1, <2>2, <2>3 DEF ListenerStep, Receive, UpdateCursor, ReadRows,
       ListWindow, ReapOrphan, ReopenAfterReap, CountWindow, CountSessions, CreateSession
<1>2. ASSUME NEW m \in Messages, LaunchStep(m)
      PROVE  NoticeMove
  <2>1. CASE SaveFailed(m)
    BY <2>1 DEF SaveFailed, NoticeMove
  <2>2. CASE UNCHANGED noticeVars
    BY <2>2 DEF noticeVars, NoticeMove
  <2>3. QED
    BY <1>2, <2>1, <2>2 DEF LaunchStep, StartWorker, BeginLaunch, PrepareWindow, AllocatePane,
       AttachPane, MarkPane, StartCommand, WorkerComesUp, WaitForReady, DispatchMessage, FailLaunch, ReopenAfterLaunch
<1>3. CASE UNCHANGED noticeVars
  BY <1>3 DEF noticeVars, NoticeMove
<1>4. QED
  BY <1>1, <1>2, <1>3 DEF Next, TurnEnds, BeginKill, KillPane, ReopenAfterKill, MoveKilled, WorkerExits, AtRest, vars,
     noticeVars

LEMMA NoticesTyped ==
    ASSUME Typed, Next
    PROVE  NoticesOK'
<1>1. ack \in [Messages -> {"none", "suppressed_busy"} \cup Results] /\ slots \in Nat /\ notices \in Nat
  BY DEF Typed, TypeOK, NoticesOK
<1>2. CASE UNCHANGED <<slots, notices, ack>>
  BY <1>1, <1>2 DEF NoticesOK
<1>3. CASE Say /\ UNCHANGED ack
  BY <1>1, <1>3, NotifyStep DEF Say, NoticesOK
<1>4. ASSUME NEW m \in Messages, NEW result \in Results,
             Notify(result), ack' = [ack EXCEPT ![m] = result]
      PROVE  NoticesOK'
  BY <1>1, <1>4, NotifyStep DEF NoticesOK
<1>5. ASSUME NEW m \in Messages, UNCHANGED <<slots, notices>>,
             ack' = [ack EXCEPT ![m] = "suppressed_busy"]
      PROVE  NoticesOK'
  BY <1>1, <1>5 DEF NoticesOK
<1>6. QED
  BY <1>2, <1>3, <1>4, <1>5, NoticesOfStep DEF NoticeMove

\* A step's expenses: none, one of them, or a notice.
Expense == UNCHANGED budget \/ (\E k \in FaultKinds : Spend(k)) \/ Say

LEMMA ExpenseOfStep ==
    ASSUME Typed, Next
    PROVE  Expense
<1>1. /\ \A m \in Messages : (IF m[2] = 1 THEN "message" ELSE "more") \in FaultKinds
      /\ "launch" \in FaultKinds /\ "exit" \in FaultKinds /\ "kill" \in FaultKinds
  BY DEF FaultKinds
<1>2. ASSUME NEW m \in Messages, ListenerStep(m)
      PROVE  Expense
  <2>1. CASE Receive(m)
    BY <1>1, <2>1 DEF Receive, Expense
  <2>2. CASE Refuse(m) \/ RecoverSession(m)
    BY <2>2 DEF Refuse, RecoverSession, Expense
  <2>3. CASE Acknowledge(m) \/ Route(m)
    BY <2>3 DEF Acknowledge, Route, Expense, Say
  <2>4. CASE UNCHANGED budget
    BY <2>4 DEF Expense
  <2>5. QED
    BY <1>2, <2>1, <2>2, <2>3, <2>4 DEF ListenerStep, UpdateCursor, ReadRows,
       ListWindow, ReapOrphan, ReopenAfterReap, CountWindow, CountSessions, CreateSession
<1>3. ASSUME NEW m \in Messages, LaunchStep(m)
      PROVE  Expense
  <2>1. CASE AllocatePane(m)
    BY <1>1, <2>1 DEF AllocatePane, Expense
  <2>2. CASE MarkPane(m)
    BY <1>1, <2>2 DEF MarkPane, Expense
  <2>3. CASE WaitForReady(m)
    BY <1>1, <2>3 DEF WaitForReady, Expense
  <2>4. CASE SaveFailed(m)
    BY <2>4 DEF SaveFailed, Expense
  <2>5. CASE UNCHANGED budget
    BY <2>5 DEF Expense
  <2>6. QED
    BY <1>3, <2>1, <2>2, <2>3, <2>4, <2>5 DEF LaunchStep, StartWorker, BeginLaunch, PrepareWindow,
       AttachPane, StartCommand, WorkerComesUp, DispatchMessage, FailLaunch, ReopenAfterLaunch
<1>4. ASSUME NEW c \in Conversations, BeginKill(c)
      PROVE  Expense
  BY <1>1, <1>4 DEF BeginKill, Expense
<1>5. ASSUME NEW p \in DOMAIN panes, WorkerExits(p)
      PROVE  Expense
  BY <1>1, <1>5 DEF WorkerExits, Expense
<1>6. CASE UNCHANGED budget
  BY <1>6 DEF Expense
<1>7. QED
  BY <1>2, <1>3, <1>4, <1>5, <1>6 DEF Next, TurnEnds, KillPane, ReopenAfterKill, MoveKilled, AtRest, vars

LEMMA BudgetTyped ==
    ASSUME Typed, Next
    PROVE  budget' \in [FaultKinds -> Nat]
<1>1. CASE UNCHANGED budget
  BY <1>1 DEF Typed, TypeOK, HistoryOK
<1>2. ASSUME NEW k \in FaultKinds, Spend(k)
      PROVE  budget' \in [FaultKinds -> Nat]
  BY <1>2, SpendType
<1>3. CASE Say
  <2>1. PICK result \in Results : Notify(result)
    BY <1>3 DEF Say
  <2>2. QED
    BY <2>1, NotifyStep
<1>4. QED
  BY <1>1, <1>2, <1>3, ExpenseOfStep DEF Expense

HistoryFine(shut, dead, taken, missing) ==
    /\ shut \in BOOLEAN /\ dead \subseteq Messages /\ taken \subseteq Conversations
    /\ missing \subseteq PaneIds /\ IsFiniteSet(missing)

LEMMA HistoryTyped ==
    ASSUME Typed, Next
    PROVE  HistoryOK' /\ IsFiniteSet(lost')
<1> DEFINE Now == HistoryFine(closed', stranded', robbed', lost')
<1> SUFFICES Now
  BY BudgetTyped DEF HistoryFine, HistoryOK
<1>1. HistoryFine(closed, stranded, robbed, lost) /\ DOMAIN panes \subseteq PaneIds
  BY DEF Typed, TypeOK, HistoryOK, Finite, PoolOK, HistoryFine
<1>2. CASE UNCHANGED faultVars
  BY <1>1, <1>2 DEF faultVars
<1>3. ASSUME NEW m \in Messages, ListWindow(m)
      PROVE  Now
  <2>1. UNCHANGED <<closed, lost, robbed>> /\ stranded' \in {stranded, stranded \cup {m}}
    BY <1>3 DEF ListWindow, Strand
  <2>2. QED
    BY <1>1, <2>1 DEF HistoryFine
<1>4. ASSUME NEW m \in Messages, CountWindow(m)
      PROVE  Now
  <2>1. UNCHANGED <<closed, lost, robbed>> /\ stranded' \in {stranded, stranded \cup {m}}
    BY <1>4 DEF CountWindow, Strand
  <2>2. QED
    BY <1>1, <2>1 DEF HistoryFine
<1>5. ASSUME NEW m \in Messages, NEW p \in listen[m].todo, ReapOrphan(m, p)
      PROVE  Now
  <2>1. UNCHANGED <<closed, lost, stranded>>
    BY <1>5 DEF ReapOrphan
  <2>2. \/ UNCHANGED robbed
        \/ panes[p].mark \in Conversations /\ robbed' = robbed \cup {panes[p].mark}
    BY <1>5 DEF ReapOrphan, InUse
  <2>3. QED
    BY <1>1, <2>1, <2>2 DEF HistoryFine
<1>6. ASSUME NEW m \in Messages, MarkPane(m)
      PROVE  Now
  <2>1. UNCHANGED <<closed, stranded, robbed>>
    BY <1>6 DEF MarkPane
  <2>2. UNCHANGED lost \/ (launch[m].pane \in DOMAIN panes /\ lost' = lost \cup {launch[m].pane})
    BY <1>6 DEF MarkPane, LivePane
  <2>3. \A q : IsFiniteSet(lost \cup {q})
    BY <1>1, FS_AddElement DEF HistoryFine
  <2>4. QED
    BY <1>1, <2>1, <2>2, <2>3 DEF HistoryFine
<1>7. ASSUME NEW p \in DOMAIN panes, WorkerExits(p)
      PROVE  Now
  <2>1. UNCHANGED <<lost, stranded, robbed>>
    BY <1>7 DEF WorkerExits
  <2>2. closed' = (closed \/ PanesOf(panes', panes[p].window) = {})
    BY <1>7 DEF WorkerExits
  <2>3. closed' \in BOOLEAN
    BY <2>2
  <2>4. QED
    BY <1>1, <2>1, <2>3 DEF HistoryFine
<1> HIDE DEF Now
<1>8. ASSUME NEW m \in Messages, ListenerStep(m)
      PROVE  Now
  BY <1>2, <1>3, <1>4, <1>5, <1>8 DEF ListenerStep, ReopenAfterReap, Receive, Refuse, UpdateCursor, Acknowledge,
     Route, ReadRows, CountSessions, CreateSession, RecoverSession
<1>9. ASSUME NEW m \in Messages, LaunchStep(m)
      PROVE  Now
  <2>1. CASE MarkPane(m)
    BY <1>6, <2>1
  <2>2. CASE UNCHANGED faultVars
    BY <1>2, <2>2
  <2>3. QED
    BY <1>9, <2>1, <2>2 DEF LaunchStep, StartWorker, BeginLaunch, PrepareWindow, AllocatePane,
       AttachPane, StartCommand, WorkerComesUp, WaitForReady, DispatchMessage, FailLaunch, ReopenAfterLaunch, SaveFailed
<1>10. QED
  BY <1>2, <1>7, <1>8, <1>9 DEF Next, TurnEnds, BeginKill, KillPane, ReopenAfterKill, MoveKilled, AtRest, vars,
     faultVars

-----------------------------------------------------------------------------
(* Threads *)

LEMMA WindowsType ==
    ASSUME Typed
    PROVE  /\ Len(Windows) \in Nat \ {0} /\ DOMAIN Windows = 1..Len(Windows)
           /\ WindowMax \in Nat \ {0}
           /\ \A i, j \in DOMAIN Windows : Windows[i] = Windows[j] => i = j
<1>1. /\ setup.windows \in Seq(STRING) /\ setup.windows # <<>> /\ setup.max \in Nat \ {0}
      /\ \A i, j \in DOMAIN setup.windows : setup.windows[i] = setup.windows[j] => i = j
  BY PoolAssumption DEF Typed, TypeOK, PoolOK
<1>2. QED
  BY <1>1 DEF Windows, WindowMax

LEMMA WindowFinite ==
    ASSUME Typed, NEW w
    PROVE  /\ IsFiniteSet(ListPanes(w)) /\ Cardinality(ListPanes(w)) \in Nat
           /\ ListPanes(w) \subseteq DOMAIN panes /\ ListPanes(w) \subseteq PaneIds
<1>1. ListPanes(w) \subseteq DOMAIN panes
  BY DEF ListPanes, PanesOf
<1>2. QED
  BY <1>1, FS_Subset, FS_CardinalityType DEF Typed, TypeOK, PoolOK, Finite

ListenGood(r) == r \in ListenRow /\ IsFiniteSet(r.seen) /\ IsFiniteSet(r.todo)

LEMMA ListenMoves ==
    ASSUME Typed, NEW m \in Messages, NEW r, ListenGood(r), Listen(m, r)
    PROVE  /\ listen' \in [Messages -> ListenRow]
           /\ \A n \in Messages : IsFiniteSet(listen'[n].seen) /\ IsFiniteSet(listen'[n].todo)
BY DEF Typed, TypeOK, ThreadsOK, Finite, ListenGood, Listen

LEMMA IdleGood ==
    ASSUME Typed, NEW snap \in SessionRow, NEW for \in {"create", "recover"},
           NEW at \in {"off", "cursor", "refuse", "ack", "route", "rows", "list", "reap", "count",
                       "create", "recover"}
    PROVE  /\ ListenGood([Idle EXCEPT !.at = at, !.snap = snap])
           /\ ListenGood([Idle EXCEPT !.at = at, !.for = for])
           /\ ListenGood([Idle EXCEPT !.at = at]) /\ ListenGood(Idle)
<1>1. IsFiniteSet({}) /\ 1 \in DOMAIN Windows /\ Row("absent", NoPane) \in SessionRow
  BY WindowsType, RowType, FS_EmptySet DEF Statuses
<1>2. QED
  BY <1>1 DEF Idle, ListenGood, ListenRow

LEMMA ListenerThreads ==
    ASSUME Typed, NEW m \in Messages, ListenerStep(m)
    PROVE  UNCHANGED listen \/ \E r : ListenGood(r) /\ Listen(m, r)
<1> DEFINE Moves == \E r : ListenGood(r) /\ Listen(m, r)
           l == listen[m]
           c == Of(m)
           Ats == {"off", "cursor", "refuse", "ack", "route", "rows", "list", "reap", "count",
                   "create", "recover"}
<1> SUFFICES ASSUME ~UNCHANGED listen PROVE Moves
  OBVIOUS
<1>1. ListenGood(l) /\ session[c] \in SessionRow /\ l.for \in {"create", "recover"}
  BY MessageType, RowType DEF Typed, TypeOK, ThreadsOK, Finite, ListenGood, ListenRow
<1>2. \A at \in Ats : ListenGood([l EXCEPT !.at = at])
  BY <1>1 DEF ListenGood, ListenRow
<1>3. CASE Receive(m)
  <2>1. PICK at \in {"rows", "refuse", "cursor"} :
           Listen(m, [Idle EXCEPT !.at = at, !.snap = session[c]])
    BY <1>3 DEF Receive, c
  <2>2. QED
    BY <1>1, <2>1, IdleGood
<1>4. CASE Refuse(m) \/ RecoverSession(m)
  <2>1. Listen(m, Idle)
    BY <1>4 DEF Refuse, RecoverSession
  <2>2. QED
    BY <1>1, <2>1, IdleGood
<1>5. CASE UpdateCursor(m) \/ CountSessions(m)
  <2>1. \E at \in {"ack", "create", "recover", "refuse"} : ListenAt(m, at)
    BY <1>1, <1>5 DEF UpdateCursor, CountSessions
  <2>2. QED
    BY <1>2, <2>1 DEF ListenAt
<1>6. CASE Acknowledge(m)
  <2>1. Listen(m, Idle) \/ ListenAt(m, "route")
    BY <1>6 DEF Acknowledge
  <2>2. QED
    BY <1>1, <1>2, <2>1, IdleGood DEF ListenAt
<1>7. CASE Route(m)
  <2>1. Listen(m, [Idle EXCEPT !.at = "rows", !.for = "recover"]) \/ Listen(m, Idle)
    BY <1>7 DEF Route
  <2>2. QED
    BY <1>1, <2>1, IdleGood
<1>8. CASE ReadRows(m)
  <2> DEFINE C == {d \in Conversations : Status(d) \in RECOVERABLE_TMUX_STATUSES}
             f == [d \in Conversations |-> session[d].pane]
             seen == {session[d].pane : d \in C} \ {NoPane}
             before == {p \in DOMAIN panes : InUse(p)}
             r == [l EXCEPT !.at = "list", !.next = 1, !.live = 0, !.seen = seen,
                            !.before = before]
  <2>1. IsFiniteSet(seen)
    <3>1. IsFiniteSet({f[d] : d \in Conversations})
      BY ConversationsFinite, ImageFinite
    <3>2. seen \subseteq {f[d] : d \in Conversations}
      OBVIOUS
    <3>3. QED
      BY <3>1, <3>2, FS_Subset
  <2>2. seen \subseteq PaneIds /\ before \subseteq PaneIds /\ 1 \in DOMAIN Windows
    BY RowType, WindowsType DEF PaneIds, Typed, TypeOK, PoolOK
  <2>3. Listen(m, r)
    BY <1>8 DEF ReadRows
  <2> HIDE DEF seen, before
  <2>4. ListenGood(r)
    BY <1>1, <2>1, <2>2 DEF ListenGood, ListenRow
  <2>5. QED
    BY <2>3, <2>4
<1>9. CASE ListWindow(m)
  <2> DEFINE w == Windows[l.next]
             todo == {p \in ListPanes(w) : panes[p].mark \in Conversations /\ p \notin l.seen}
             r == [l EXCEPT !.at = "reap", !.todo = todo]
  <2>1. Listen(m, Idle) \/ Listen(m, r)
    BY <1>9 DEF ListWindow, Strand
  <2>2. IsFiniteSet(todo) /\ todo \subseteq PaneIds
    <3>1. IsFiniteSet(ListPanes(w)) /\ ListPanes(w) \subseteq PaneIds
      BY WindowFinite
    <3>2. QED
      BY <3>1, FS_Subset
  <2> HIDE DEF todo
  <2>3. ListenGood(r)
    BY <1>1, <2>2 DEF ListenGood, ListenRow
  <2>4. QED
    BY <1>1, <2>1, <2>3, IdleGood
<1>10. ASSUME NEW p \in l.todo, ReapOrphan(m, p)
       PROVE  Moves
  <2> DEFINE r == [l EXCEPT !.todo = l.todo \ {p}]
  <2>1. Listen(m, r)
    BY <1>10 DEF ReapOrphan
  <2>2. IsFiniteSet(l.todo \ {p})
    BY <1>1, FS_Subset DEF ListenGood
  <2>3. ListenGood(r)
    BY <1>1, <2>2 DEF ListenGood, ListenRow
  <2>4. QED
    BY <2>1, <2>3
<1>11. CASE CountWindow(m)
  <2> DEFINE n == l.live + Cardinality(ListPanes(Windows[l.next]))
             r == [l EXCEPT !.at = "list", !.next = l.next + 1, !.live = n]
  <2>1. \/ Listen(m, Idle)
        \/ l.next < Len(Windows) /\ Listen(m, r)
        \/ \E at \in {"count", "refuse"} : Listen(m, [Idle EXCEPT !.at = at, !.for = l.for])
    BY <1>11 DEF CountWindow, Strand, AnotherWindow
  <2>2. CASE l.next < Len(Windows) /\ Listen(m, r)
    <3>1. n \in Nat
      BY <1>1, WindowFinite DEF ListenGood, ListenRow
    <3>2. l.next + 1 \in DOMAIN Windows
      BY <1>1, <2>2, WindowsType DEF ListenGood, ListenRow
    <3> HIDE DEF n
    <3>3. ListenGood(r)
      BY <1>1, <3>1, <3>2 DEF ListenGood, ListenRow
    <3>4. QED
      BY <2>2, <3>3
  <2>3. QED
    BY <1>1, <2>1, <2>2, IdleGood
<1>12. CASE CreateSession(m)
  <2>1. \/ Listen(m, [Idle EXCEPT !.at = "ack"]) \/ Listen(m, Idle)
        \/ Listen(m, [Idle EXCEPT !.at = "cursor", !.snap = session[c]])
    BY <1>12 DEF CreateSession, c
  <2>2. QED
    BY <1>1, <2>1, IdleGood
<1>13. QED
  BY <1>3, <1>4, <1>5, <1>6, <1>7, <1>8, <1>9, <1>10, <1>11, <1>12
     DEF ListenerStep, ReopenAfterReap

LEMMA LaunchType ==
    ASSUME Typed, NEW m \in Messages, NEW p \in Nat,
           NEW at \in {"off", "start", "launch", "window", "allocate", "attach", "mark", "type",
                       "boot", "dispatch", "fail", "suspend", "fail_error", "fail_suspend"}
    PROVE  Launch(m, at, p) => launch' \in [Messages -> LaunchRow]
BY DEF Typed, TypeOK, ThreadsOK, Launch, LaunchRow

LEMMA LaunchThreads ==
    ASSUME Typed, Next
    PROVE  launch' \in [Messages -> LaunchRow]
<1> DEFINE Good == launch' \in [Messages -> LaunchRow]
<1>1. NoPane \in Nat
  BY DEF NoPane
<1>2. CASE UNCHANGED launch
  BY <1>2 DEF Typed, TypeOK, ThreadsOK
<1>3. ASSUME NEW m \in Messages, ListenerStep(m)
      PROVE  Good
  <2>1. UNCHANGED launch \/ Launch(m, "start", NoPane) \/ Launch(m, "launch", NoPane)
    BY <1>3 DEF ListenerStep, Receive, Refuse, UpdateCursor, Acknowledge, Route, ReadRows,
       ListWindow, ReapOrphan, ReopenAfterReap, CountWindow, CountSessions, CreateSession, RecoverSession
  <2>2. QED
    BY <1>1, <1>2, <2>1, LaunchType
<1>4. ASSUME NEW m \in Messages, LaunchStep(m)
      PROVE  Good
  <2> DEFINE p == launch[m].pane
  <2>1. p \in Nat
    BY RowType
  <2>2. CASE StartWorker(m) \/ BeginLaunch(m) \/ PrepareWindow(m)
    <3>1. \E at \in {"launch", "off", "window", "fail", "allocate"} : LaunchAt(m, at)
      BY <2>2 DEF StartWorker, BeginLaunch, PrepareWindow
    <3>2. QED
      BY <2>1, <3>1, LaunchType DEF LaunchAt
  <2>3. CASE AllocatePane(m)
    <3>1. LaunchAt(m, "fail") \/ (CanAllocate /\ Launch(m, "attach", Allocated(NewId).pane))
      BY <2>3 DEF AllocatePane
    <3>2. CASE CanAllocate /\ Launch(m, "attach", Allocated(NewId).pane)
      <4>1. PICK i \in DOMAIN Windows :
               Allocated(NewId).pane \in Reusable(Windows[i]) \/ Allocated(NewId).pane = NewId
        BY <3>2, AllocatedPane
      <4>2. Allocated(NewId).pane \in PaneIds
        BY <4>1, NewIdIsNew, WindowFinite DEF Reusable
      <4>3. QED
        BY <3>2, <4>2, LaunchType DEF PaneIds
    <3>3. QED
      BY <2>1, <3>1, <3>2, LaunchType DEF LaunchAt
  <2>4. CASE AttachPane(m) \/ MarkPane(m)
    <3>1. Launch(m, "fail", NoPane) \/ LaunchAt(m, "mark") \/ LaunchAt(m, "type")
      BY <2>4 DEF AttachPane, MarkPane
    <3>2. QED
      BY <1>1, <2>1, <3>1, LaunchType DEF LaunchAt
  <2>5. CASE StartCommand(m) \/ WaitForReady(m)
    <3>1. \E at \in {"boot", "fail", "dispatch", "suspend"} : LaunchAt(m, at)
      BY <2>5 DEF StartCommand, WaitForReady
    <3>2. QED
      BY <2>1, <3>1, LaunchType DEF LaunchAt
  <2>6. CASE WorkerComesUp(m)
    BY <1>2, <2>6 DEF WorkerComesUp
  <2>7. CASE DispatchMessage(m) \/ SaveFailed(m)
    <3>1. Launch(m, "off", NoPane) \/ LaunchAt(m, "fail")
      BY <2>7 DEF DispatchMessage, SaveFailed
    <3>2. QED
      BY <1>1, <2>1, <3>1, LaunchType DEF LaunchAt
  <2>8. CASE FailLaunch(m)
    <3>1. \/ Launch(m, "off", NoPane)
          \/ \E at \in {"fail_error", "fail_suspend"} : Launch(m, at, NoPane) \/ LaunchAt(m, at)
      BY <2>8 DEF FailLaunch
    <3>2. QED
      BY <1>1, <2>1, <3>1, LaunchType DEF LaunchAt
  <2>10. CASE ReopenAfterLaunch(m)
    <3>1. launch[m].at \in {"off", "start", "launch", "window", "allocate", "attach", "mark", "type",
                           "boot", "dispatch", "fail", "suspend", "fail_error", "fail_suspend"}
      BY DEF Typed, TypeOK, ThreadsOK, LaunchRow
    <3>2. UNCHANGED launch \/ Launch(m, launch[m].at, NoPane)
      BY <2>10 DEF ReopenAfterLaunch
    <3>3. QED
      BY <1>1, <1>2, <3>1, <3>2, LaunchType
  <2>9. QED
    BY <1>4, <2>2, <2>3, <2>4, <2>5, <2>6, <2>7, <2>8, <2>10 DEF LaunchStep
<1>5. QED
  BY <1>2, <1>3, <1>4 DEF Next, TurnEnds, BeginKill, KillPane, ReopenAfterKill, MoveKilled, WorkerExits, AtRest, vars

LEMMA EndingThread ==
    ASSUME Typed, Next
    PROVE  ending' \in EndingRow /\ (ending'.at = "off" \/ ending'.conv \in Conversations)
<1>1. ending \in EndingRow /\ (ending.at = "off" \/ ending.conv \in Conversations)
  BY DEF Typed, TypeOK, ThreadsOK
<1>2. CASE UNCHANGED ending
  BY <1>1, <1>2
<1>3. CASE Finish
  BY <1>3 DEF Finish, Nobody, EndingRow, NoPane
<1>4. ASSUME NEW c \in Conversations, BeginKill(c)
      PROVE  ending' \in EndingRow /\ ending'.conv \in Conversations
  BY <1>4, RowType DEF BeginKill, EndingRow
<1>5. CASE ending.at = "kill" /\ ending' = [ending EXCEPT !.at = "move"]
  BY <1>1, <1>5 DEF EndingRow
<1>6. ASSUME NEW m \in Messages, ListenerStep(m) \/ LaunchStep(m)
      PROVE  UNCHANGED ending
  BY <1>6 DEF ListenerStep, Receive, Refuse, UpdateCursor, Acknowledge, Route, ReadRows,
     ListWindow, ReapOrphan, ReopenAfterReap, CountWindow, CountSessions, CreateSession, RecoverSession,
     LaunchStep, StartWorker, BeginLaunch, PrepareWindow, AllocatePane, AttachPane, MarkPane,
     StartCommand, WorkerComesUp, WaitForReady, DispatchMessage, FailLaunch, ReopenAfterLaunch, SaveFailed
<1>7. QED
  BY <1>2, <1>3, <1>4, <1>5, <1>6 DEF Next, TurnEnds, KillPane, ReopenAfterKill, MoveKilled, WorkerExits, AtRest, vars

LEMMA ListenersTyped ==
    ASSUME Typed, Next
    PROVE  /\ listen' \in [Messages -> ListenRow]
           /\ \A m \in Messages : IsFiniteSet(listen'[m].seen) /\ IsFiniteSet(listen'[m].todo)
<1>1. CASE UNCHANGED listen
  BY <1>1 DEF Typed, TypeOK, ThreadsOK, Finite
<1>2. ASSUME NEW m \in Messages, NEW r, ListenGood(r), Listen(m, r)
      PROVE  /\ listen' \in [Messages -> ListenRow]
             /\ \A n \in Messages : IsFiniteSet(listen'[n].seen) /\ IsFiniteSet(listen'[n].todo)
  BY <1>2, ListenMoves
<1>3. ASSUME NEW m \in Messages, LaunchStep(m)
      PROVE  UNCHANGED listen
  BY <1>3 DEF LaunchStep, StartWorker, BeginLaunch, PrepareWindow, AllocatePane, AttachPane,
     MarkPane, StartCommand, WorkerComesUp, WaitForReady, DispatchMessage, FailLaunch, ReopenAfterLaunch, SaveFailed
<1>4. UNCHANGED listen \/ \E m \in Messages : \E r : ListenGood(r) /\ Listen(m, r)
  BY <1>3, ListenerThreads
     DEF Next, TurnEnds, BeginKill, KillPane, ReopenAfterKill, MoveKilled, WorkerExits, AtRest, vars
<1>5. QED
  BY <1>1, <1>2, <1>4

-----------------------------------------------------------------------------
(* The types are an invariant *)

LEMMA TypedInit == Init => Typed
<1> SUFFICES ASSUME Init
             PROVE  Typed
  OBVIOUS
<1>1. setup \in Setups /\ IsFiniteSet({})
  BY FS_EmptySet DEF Init, PoolInit
<1>2. /\ Len(Windows) \in Nat \ {0} /\ DOMAIN Windows = 1..Len(Windows)
      /\ setup.budget \in [FaultKinds -> Nat]
  <2>1. setup.windows \in Seq(STRING) /\ setup.windows # <<>> /\ setup.budget \in [FaultKinds -> Nat]
    BY <1>1, PoolAssumption
  <2>2. QED
    BY <2>1 DEF Windows
<1>3. PoolOK /\ IsFiniteSet(DOMAIN panes)
  <2>1. panes = [p \in DOMAIN Windows |-> Pane(Windows[p], "bridge")]
    BY DEF Init, PoolInit
  <2>2. \A p \in DOMAIN Windows : Pane(Windows[p], "bridge") \in PaneRow
    BY DEF Pane, PaneRow, Marks
  <2>3. IsFiniteSet(DOMAIN Windows) /\ DOMAIN Windows \subseteq PaneIds
    <3>1. PICK len \in Nat : len = Len(Windows) /\ DOMAIN Windows = 1..len
      BY <1>2
    <3>2. IsFiniteSet(1..len) /\ 1..len \subseteq PaneIds
      BY FS_Interval DEF PaneIds, NoPane
    <3>3. QED
      BY <3>1, <3>2
  <2>5. /\ opening = <<>> /\ DOMAIN opening = {}
        /\ opening \in [DOMAIN opening -> {Windows[i] : i \in DOMAIN Windows}]
    BY DEF Init, PoolInit
  <2>4. QED
    BY <1>1, <1>2, <2>1, <2>2, <2>3, <2>5 DEF PoolOK
<1>4. RowsOK /\ NoticesOK /\ HistoryOK
  BY <1>2 DEF Init, RowsOK, NoticesOK, HistoryOK, SessionRow, Row, Statuses, NoPane, Results
<1>5. ThreadsOK
  <2>1. 1 \in DOMAIN Windows
    BY <1>2
  <2>2. Idle \in ListenRow
    BY <2>1 DEF Idle, ListenRow, SessionRow, Row, Statuses, NoPane
  <2>3. Off \in LaunchRow /\ Nobody \in EndingRow /\ Nobody.at = "off"
    BY DEF Off, LaunchRow, Nobody, EndingRow, NoPane
  <2>4. QED
    BY <2>2, <2>3 DEF Init, ThreadsOK
<1>6. Finite
  BY <1>1, <1>3 DEF Init, Finite, Idle
<1>7. QED
  BY <1>3, <1>4, <1>5, <1>6 DEF Typed, TypeOK

LEMMA TypedStep == Typed /\ [Next]_vars => Typed'
<1> SUFFICES ASSUME Typed, [Next]_vars
             PROVE  Typed'
  OBVIOUS
<1>1. CASE UNCHANGED vars
  <2>1. ListenRow' = ListenRow /\ PaneRow' = PaneRow /\ Windows' = Windows
    BY <1>1 DEF vars, ListenRow, PaneRow, Windows, Marks
  <2>2. QED
    BY <1>1, <2>1 DEF vars, Typed, TypeOK, PoolOK, RowsOK, NoticesOK, ThreadsOK, HistoryOK, Finite
<1>2. CASE Next
  <2>1. UNCHANGED setup
    BY <1>2, SetupStays
  <2>2. PoolOK' /\ IsFiniteSet(DOMAIN panes')
    BY <1>2, PoolTyped
  <2>3. RowsOK' /\ NoticesOK' /\ HistoryOK' /\ IsFiniteSet(lost')
    BY <1>2, RowsTyped, NoticesTyped, HistoryTyped
  <2>4. ListenRow' = ListenRow
    BY <2>1 DEF ListenRow, Windows
  <2>5. ThreadsOK'
    BY <1>2, <2>4, ListenersTyped, LaunchThreads, EndingThread DEF ThreadsOK
  <2>6. Finite'
    BY <1>2, <2>2, <2>3, ListenersTyped DEF Finite
  <2>7. QED
    BY <2>2, <2>3, <2>5, <2>6 DEF Typed, TypeOK
<1>3. QED
  BY <1>1, <1>2

\* The variables keep their types whatever the pool, the conversations and the number of
\* messages: every pane that a row, a launch or a check names is a pane id.
THEOREM AdmissionTypes == Spec => []TypeOK
<1>1. Typed => TypeOK
  BY DEF Typed
<1>2. QED
  BY <1>1, TypedInit, TypedStep, PTL DEF Spec

LEMMA AlwaysTyped == Spec => []Typed
BY TypedInit, TypedStep, PTL DEF Spec

=============================================================================
