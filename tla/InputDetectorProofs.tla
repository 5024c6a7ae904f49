------------------------ MODULE InputDetectorProofs -------------------------
(***************************************************************************)
(* For any menus, any number of turns, failures and captures in a row: the *)
(* types of InputDetector, that a conversation does not wait without its   *)
(* user knowing, and that a prompt is posted once in its turn.             *)
(***************************************************************************)
EXTENDS InputDetector, TLAPS

-----------------------------------------------------------------------------
(* Types *)

MemoryRow == [marker: Turns \cup {NoTurn}, count: 0..StableCount,
              last: {"none", "prompt", "output"}, notified: SUBSET Notes]

DetectorRow == [at: {"off", "capture", "enter", "notify"},
                copy: [status: {"idle", "busy"}, turn: Turns \cup {NoTurn}],
                cap: Screens \cup {"none"}]

\* A busy row names a turn, and so does whatever the poll loop has in hand.
TurnNamed ==
    /\ row.status = "busy" => row.turn \in Turns
    /\ ~DetectorAt("off") => detector.copy.turn \in Turns
    /\ detector.at \in {"enter", "notify"} => detector.cap \in Screens

Typed == TypeOK /\ TurnNamed

LEMMA InitTyped == Init => Typed
<1> SUFFICES ASSUME Init
             PROVE  Typed
  OBVIOUS
<1>1. row.status = "idle" /\ row \in [status: {"idle", "busy", "waiting"}, turn: Turns \cup {NoTurn}]
  BY DEF Init, Row
<1>2. memory \in MemoryRow
  BY DetectorAssumption DEF Init, Blank, MemoryRow
<1>3. detector \in DetectorRow /\ DetectorAt("off")
  BY DEF Init, Off, Row, DetectorRow, DetectorAt
<1>4. /\ begun \in 0..MaxTurns /\ faults \in 0..MaxFaults /\ screen \in Screens
      /\ reply \in [Turns -> {"off", "send", "tell", "save"}]
  BY DetectorAssumption DEF Init, Screens
<1>5. QED
  BY <1>1, <1>2, <1>3, <1>4
     DEF Init, Typed, TypeOK, TurnNamed, MemoryRow, DetectorRow, DetectorAt

\* A menu is none of the other screens.
LEMMA MenusApart == ASSUME NEW cap \in Menus PROVE cap # "prompt" /\ cap # "output"
BY DetectorAssumption

\* What a capture makes of the memory.
LEMMA CountedType ==
    ASSUME NEW t \in Turns, NEW cap \in Screens, memory \in MemoryRow
    PROVE  /\ OfTurn(t) \in MemoryRow /\ Counted(t, cap) \in MemoryRow
           /\ OfTurn(t).notified = memory.notified
           /\ Counted(t, cap).notified = memory.notified
<1>1. OfTurn(t) \in MemoryRow /\ OfTurn(t).notified = memory.notified
  <2>1. CASE memory.marker = t
    BY <2>1 DEF OfTurn
  <2>2. CASE memory.marker # t
    <3>1. OfTurn(t) = [marker |-> t, count |-> 0, last |-> "none", notified |-> memory.notified]
      BY <2>2 DEF OfTurn, MemoryRow
    <3>2. 0 \in 0..StableCount /\ memory.notified \in SUBSET Notes
      BY DetectorAssumption DEF MemoryRow
    <3>3. QED
      BY <3>1, <3>2 DEF MemoryRow
  <2>3. QED
    BY <2>1, <2>2
<1>2. cap \in Menus \/ cap = "prompt" \/ cap = "output"
  BY DEF Screens
<1>3. CASE cap \in Menus
  BY <1>1, <1>3, MenusApart DEF Counted
<1>4. CASE cap = "prompt" \/ cap = "output"
  <2> DEFINE m == OfTurn(t)
             n == CASE m.last # cap -> 1
                    [] m.last = cap /\ m.count < StableCount -> m.count + 1
                    [] OTHER -> StableCount
  <2>1. cap \notin Menus
    BY <1>4, DetectorAssumption
  <2>2. n \in 0..StableCount /\ 0 \in 0..StableCount
    BY <1>1, DetectorAssumption DEF MemoryRow
  <2>3. \/ Counted(t, cap) = [m EXCEPT !.last = cap, !.count = n]
        \/ Counted(t, cap) = [m EXCEPT !.last = cap, !.count = 0]
    BY <2>1 DEF Counted
  <2> HIDE DEF n
  <2>4. QED
    BY <1>1, <1>4, <2>2, <2>3 DEF MemoryRow
<1>5. QED
  BY <1>1, <1>2, <1>3, <1>4

LEMMA TypedStep == Typed /\ [Next]_vars => Typed'
<1> SUFFICES ASSUME Typed, [Next]_vars
             PROVE  Typed'
  OBVIOUS
<1> USE DetectorAssumption
<1>1. /\ row \in [status: {"idle", "busy", "waiting"}, turn: Turns \cup {NoTurn}]
      /\ memory \in MemoryRow /\ detector \in DetectorRow
      /\ begun \in 0..MaxTurns /\ faults \in 0..MaxFaults
  BY DEF Typed, TypeOK, MemoryRow, DetectorRow
<1>2. /\ CanBegin => NewTurn \in Turns /\ NewTurn \in 0..MaxTurns
      /\ Fault => faults' \in 0..MaxFaults
  BY <1>1 DEF CanBegin, NewTurn, Fault, Turns
<1>3. ASSUME ListBusy
      PROVE  Typed'
  <2>1. row.turn \in Turns
    BY <1>3 DEF ListBusy, Typed, TurnNamed
  <2>2. detector' \in DetectorRow /\ detector'.at = "capture" /\ detector'.copy.turn \in Turns
    <3>1. detector' = [at |-> "capture", copy |-> row, cap |-> "none"]
      BY <1>3 DEF ListBusy, Off
    <3>2. row \in [status: {"idle", "busy"}, turn: Turns \cup {NoTurn}]
      BY <1>1, <1>3 DEF ListBusy
    <3>3. QED
      BY <2>1, <3>1, <3>2 DEF DetectorRow
  <2>3. QED
    BY <1>3, <2>2
       DEF ListBusy, Typed, TypeOK, TurnNamed, DetectorRow, DetectorAt, rowVars, threadVars, askVars, noteVars, knowVars, pastVars
<1>4. ASSUME CapturePane
      PROVE  Typed'
  <2> DEFINE t == detector.copy.turn
  <2>1. t \in Turns /\ screen \in Screens /\ DetectorAt("capture")
    BY <1>4 DEF CapturePane, Typed, TypeOK, TurnNamed, DetectorAt
  <2>2. Counted(t, screen) \in MemoryRow
    BY <1>1, <2>1, CountedType
  <2>3. memory' \in MemoryRow
    <3> DEFINE m == Counted(t, screen)
    <3>1. <<t, screen>> \in Notes
      BY <2>1 DEF Notes
    <3>2. m.notified \cup {<<t, screen>>} \in SUBSET Notes
      BY <2>2, <3>1 DEF MemoryRow
    <3>3. \/ memory' = memory \/ memory' = m
          \/ memory' = [m EXCEPT !.notified = m.notified \cup {<<t, screen>>}]
      BY <1>4 DEF CapturePane
    <3> HIDE DEF m
    <3>4. m \in MemoryRow
      BY <2>2 DEF m
    <3>5. QED
      BY <1>1, <3>2, <3>3, <3>4 DEF MemoryRow
  <2>4. \/ detector' = Off
        \/ detector' = [detector EXCEPT !.at = "enter", !.cap = screen]
    BY <1>4 DEF CapturePane
  <2>5. /\ detector' \in DetectorRow
        /\ detector'.at # "off" => detector'.copy.turn \in Turns
        /\ detector'.at \in {"enter", "notify"} => detector'.cap \in Screens
    <3>1. CASE detector' = Off
      <4>1. detector' = [at |-> "off", copy |-> [status |-> "idle", turn |-> NoTurn], cap |-> "none"]
        BY <3>1 DEF Off, Row
      <4>2. QED
        BY <4>1 DEF DetectorRow
    <3>2. CASE detector' = [detector EXCEPT !.at = "enter", !.cap = screen]
      BY <1>1, <2>1, <3>2 DEF DetectorRow
    <3>3. QED
      BY <2>4, <3>1, <3>2
  <2>6. faults' \in 0..MaxFaults
    BY <1>1, <1>2, <1>4 DEF CapturePane
  <2>7. QED
    BY <1>4, <2>3, <2>5, <2>6
       DEF CapturePane, Typed, TypeOK, TurnNamed, MemoryRow, DetectorRow, DetectorAt, rowVars,
           threadVars, askVars, noteVars, knowVars, pastVars
<1>5. ASSUME EnterWaiting
      PROVE  Typed'
  <2>1. detector.copy.turn \in Turns /\ detector.cap \in Screens /\ detector.at = "enter"
    BY <1>5 DEF EnterWaiting, Typed, TurnNamed, DetectorAt
  <2>2. /\ row' \in [status: {"idle", "busy", "waiting"}, turn: Turns \cup {NoTurn}]
        /\ row'.status = "busy" => row'.turn \in Turns
    BY <1>1, <1>5, <2>1 DEF EnterWaiting, Row, Typed, TurnNamed
  <2>3. /\ detector' \in DetectorRow
        /\ detector'.at # "off" => detector'.copy.turn \in Turns
        /\ detector'.at \in {"enter", "notify"} => detector'.cap \in Screens
    BY <1>1, <1>5, <2>1 DEF EnterWaiting, DetectorRow, Off, Row
  <2>5. known' \in BOOLEAN /\ unheard' \in BOOLEAN
    BY <1>5 DEF EnterWaiting, NewWait, knowVars, Typed, TypeOK
  <2>4. QED
    BY <1>5, <2>2, <2>3, <2>5
       DEF EnterWaiting, Typed, TypeOK, TurnNamed, DetectorRow, DetectorAt, threadVars, askVars, noteVars, knowVars, pastVars
<1>6. ASSUME NotifyQuestion
      PROVE  Typed'
  <2> DEFINE t == detector.copy.turn
  <2>1. t \in Turns /\ <<t, detector.cap>> \in Notes
    BY <1>6 DEF NotifyQuestion, Typed, TurnNamed, DetectorAt, Notes
  <2>2. /\ row' \in [status: {"idle", "busy", "waiting"}, turn: Turns \cup {NoTurn}]
        /\ row'.status = "busy" => row'.turn \in Turns
    BY <1>1, <1>6, <2>1 DEF NotifyQuestion, Heard, Unheard, MoveBack, Row, Typed, TurnNamed
  <2>3. detector' = Off /\ detector' \in DetectorRow
    BY <1>6 DEF NotifyQuestion, Off, Row, DetectorRow
  <2>4. /\ asked' \subseteq Notes /\ failed' \subseteq Notes /\ withheld' \subseteq Notes
        /\ twice' \in BOOLEAN
    BY <1>6, <2>1 DEF NotifyQuestion, Typed, TypeOK
  <2>7. known' \in BOOLEAN /\ unheard' \in BOOLEAN
    BY <1>6 DEF NotifyQuestion, Heard, Unheard, knowVars, Typed, TypeOK
  <2>5. faults' \in 0..MaxFaults
    BY <1>1, <1>2, <1>6 DEF NotifyQuestion
  <2>6. QED
    BY <1>6, <2>2, <2>3, <2>4, <2>5, <2>7
       DEF NotifyQuestion, Typed, TypeOK, TurnNamed, DetectorRow, DetectorAt, Off, threadVars, pastVars
<1>7. ASSUME BeginTurn \/ Answer
      PROVE  Typed'
  <2>1. NewTurn \in Turns /\ begun' \in 0..MaxTurns /\ row' = Row("busy", NewTurn)
    BY <1>2, <1>7 DEF BeginTurn, Answer
  <2>2. reply' \in [Turns -> {"off", "send", "tell", "save"}] /\ known' \in BOOLEAN
        /\ unheard' \in BOOLEAN
    BY <1>7 DEF BeginTurn, Answer, NewWait, Typed, TypeOK, threadVars, askVars, noteVars, knowVars
  <2>3. QED
    BY <1>7, <2>1, <2>2
       DEF BeginTurn, Answer, Row, Typed, TypeOK, TurnNamed, DetectorAt, threadVars, askVars, noteVars, knowVars, pastVars
<1>8. ASSUME GraceEnds
      PROVE  Typed'
  BY <1>8 DEF GraceEnds, Typed, TypeOK, TurnNamed, DetectorAt, threadVars, askVars, noteVars, knowVars, pastVars
<1>9. ASSUME NEW s \in Screens, WorkerShows(s)
      PROVE  Typed'
  BY <1>9 DEF WorkerShows, Typed, TypeOK, TurnNamed, DetectorAt, rowVars, threadVars, askVars, noteVars, knowVars, pastVars
<1>10. ASSUME NEW status \in {"idle", "waiting"}, EndTurn(status)
       PROVE  Typed'
  <2>1. /\ row' = Row(status, NoTurn) /\ clearing' \subseteq Turns
        /\ known' \in BOOLEAN /\ unheard' \in BOOLEAN
    BY <1>1, <1>10 DEF EndTurn, Typed, TypeOK
  <2>2. QED
    BY <1>10, <2>1 DEF EndTurn, Row, Typed, TypeOK, TurnNamed, DetectorAt, noteVars, pastVars
<1>11. ASSUME NEW t \in Turns, SendAnswer(t)
       PROVE  Typed'
  <2>1. /\ row' \in [status: {"idle", "busy", "waiting"}, turn: Turns \cup {NoTurn}]
        /\ row'.status = "busy" => row'.turn \in Turns
    BY <1>1, <1>11 DEF SendAnswer, Row, Typed, TurnNamed
  <2>2. /\ reply' \in [Turns -> {"off", "send", "tell", "save"}]
        /\ known' \in BOOLEAN /\ unheard' \in BOOLEAN
    BY <1>11 DEF SendAnswer, NewWait, knowVars, Typed, TypeOK
  <2>3. QED
    BY <1>11, <2>1, <2>2 DEF SendAnswer, Typed, TypeOK, TurnNamed, DetectorAt, noteVars, pastVars
<1>16. ASSUME NEW t \in Turns, TellSendFailed(t)
       PROVE  Typed'
  <2>1. /\ reply' \in [Turns -> {"off", "send", "tell", "save"}]
        /\ known' \in BOOLEAN /\ unheard' \in BOOLEAN
    BY <1>16 DEF TellSendFailed, Heard, Unheard, Typed, TypeOK
  <2>2. QED
    BY <1>16, <2>1
       DEF TellSendFailed, Typed, TypeOK, TurnNamed, DetectorAt, rowVars, noteVars, pastVars
<1>12. ASSUME NEW t \in Turns, SaveAnswered(t)
       PROVE  Typed'
  BY <1>12 DEF SaveAnswered, Row, Typed, TypeOK, TurnNamed, DetectorAt, askVars, noteVars, knowVars
<1>13. ASSUME NEW t \in Turns, ClearSession(t)
       PROVE  Typed'
  <2>1. memory' \in MemoryRow
    BY <1>13 DEF ClearSession, Blank, MemoryRow
  <2>2. QED
    BY <1>13, <2>1
       DEF ClearSession, Typed, TypeOK, TurnNamed, MemoryRow, DetectorAt, rowVars, askVars, noteVars, knowVars
<1>14. CASE UNCHANGED vars
  BY <1>14 DEF vars, Typed, TypeOK, TurnNamed, DetectorAt
<1>15. QED
  BY <1>3, <1>4, <1>5, <1>6, <1>7, <1>8, <1>9, <1>10, <1>11, <1>12, <1>13, <1>14, <1>16
     DEF Next, DetectorStep

\* For any menus, turns, captures and failures: the row, the threads and what the poll
\* loop remembers keep their types, and nobody has a turn in hand that never was.
THEOREM DetectorTypes == Spec => []TypeOK
<1>1. Init => Typed
  BY InitTyped
<1>2. Typed /\ [Next]_vars => Typed'
  BY TypedStep
<1>3. Typed => TypeOK
  BY DEF Typed
<1>4. QED
  BY <1>1, <1>2, <1>3, PTL DEF Spec

-----------------------------------------------------------------------------
(* Who knows that the conversation waits *)

LEMMA WaitingStep == Typed /\ WaitingIsKnown /\ [Next]_vars => WaitingIsKnown'
<1> SUFFICES ASSUME Typed, WaitingIsKnown, [Next]_vars
             PROVE  WaitingIsKnown'
  OBVIOUS
<1>1. CASE ListBusy \/ CapturePane
  <2>1. /\ UNCHANGED <<row, knowVars, reply>> /\ ~DetectorAt("notify")
    BY <1>1 DEF ListBusy, CapturePane, rowVars, threadVars, askVars, DetectorAt
  <2>2. QED
    BY <2>1 DEF knowVars, WaitingIsKnown
<1>2. CASE EnterWaiting
  <2>1. CASE row.status = "busy"
    <3>1. detector' = [detector EXCEPT !.at = "notify"] /\ detector.at = "enter"
      BY <1>2, <2>1 DEF EnterWaiting, DetectorAt
    <3>2. DetectorAt("notify")'
      BY <3>1 DEF DetectorAt
    <3>3. QED
      BY <3>2 DEF WaitingIsKnown
  <2>2. CASE row.status # "busy"
    BY <1>2, <2>2 DEF EnterWaiting, threadVars, knowVars, WaitingIsKnown, DetectorAt
  <2>3. QED
    BY <2>1, <2>2
<1>3. CASE NotifyQuestion
  <2>1. known' \/ unheard' \/ MoveBack(detector.copy.turn)
    BY <1>3 DEF NotifyQuestion, Heard, Unheard
  <2>2. CASE MoveBack(detector.copy.turn)
    BY <2>2, <1>3 DEF MoveBack, Row, NotifyQuestion, WaitingIsKnown
  <2>3. QED
    BY <2>1, <2>2 DEF WaitingIsKnown
<1>4. CASE BeginTurn \/ Answer
  BY <1>4 DEF BeginTurn, Answer, Row, WaitingIsKnown
<1>5. CASE GraceEnds \/ \E s \in Screens : WorkerShows(s)
  BY <1>5 DEF GraceEnds, WorkerShows, rowVars, threadVars, askVars, knowVars, WaitingIsKnown, DetectorAt
<1>6. ASSUME NEW status \in {"idle", "waiting"}, EndTurn(status)
      PROVE  WaitingIsKnown'
  BY <1>6 DEF EndTurn, Row, WaitingIsKnown
<1>7. ASSUME NEW t \in Turns, SendAnswer(t)
      PROVE  WaitingIsKnown'
  <2>1. reply \in [Turns -> {"off", "send", "tell", "save"}] /\ reply[t] = "send"
    BY <1>7 DEF SendAnswer, Typed, TypeOK
  <2>2. \A u \in Turns : reply[u] = "tell" => reply'[u] = "tell"
    BY <1>7, <2>1 DEF SendAnswer
  <2>3. CASE UNCHANGED <<row, knowVars>>
    BY <1>7, <2>2, <2>3 DEF SendAnswer, knowVars, WaitingIsKnown, DetectorAt
  <2>4. CASE reply' = [reply EXCEPT ![t] = "tell"]
    BY <2>1, <2>4 DEF WaitingIsKnown
  <2>5. QED
    BY <1>7, <2>3, <2>4 DEF SendAnswer
<1>11. ASSUME NEW t \in Turns, TellSendFailed(t)
      PROVE  WaitingIsKnown'
  BY <1>11 DEF TellSendFailed, Heard, Unheard, WaitingIsKnown
<1>8. ASSUME NEW t \in Turns, SaveAnswered(t) \/ ClearSession(t)
      PROVE  WaitingIsKnown'
  BY <1>8 DEF SaveAnswered, ClearSession, Row, rowVars, askVars, noteVars, knowVars, WaitingIsKnown, DetectorAt
<1>9. CASE UNCHANGED vars
  BY <1>9 DEF vars, WaitingIsKnown, DetectorAt
<1>10. QED
  BY <1>1, <1>2, <1>3, <1>4, <1>5, <1>6, <1>7, <1>8, <1>9, <1>11 DEF Next, DetectorStep

\* However detections, failed posts, answers, failed sends and late saves cross: the user
\* of a conversation that waits knows of it or is just being told, unless the note of this
\* very wait was kept back by the limit or raised, or that of a failed answer got lost.  No
\* failed post of a question leaves a conversation waiting for a user who was not asked.
THEOREM NobodyWaitsUnasked == Spec => []WaitingIsKnown
<1>1. Init => WaitingIsKnown
  BY DEF Init, Row, WaitingIsKnown
<1>2. Init => Typed
  BY InitTyped
<1>3. QED
  BY <1>1, <1>2, TypedStep, WaitingStep, PTL DEF Spec

-----------------------------------------------------------------------------
(* A prompt is posted once in its turn *)

\* Turns are counted up: nobody has one in hand that has not begun.
Numbered ==
    /\ row.turn <= begun /\ detector.copy.turn <= begun
    /\ \A n \in asked : n[1] <= begun
    /\ \A t \in Turns : reply[t] # "off" => t <= begun

\* As long as nothing was forgotten or undone: what was posted in the turn of the row, or
\* in the turn in hand, is noted as told; what is in hand is noted and not yet posted.
PostedIsNoted ==
    ~relapsed /\ ~stale =>
        /\ \A n \in asked : n[1] \in {row.turn, detector.copy.turn} => n \in memory.notified
        /\ detector.at \in {"enter", "notify"} =>
              <<detector.copy.turn, detector.cap>> \in memory.notified \ asked
        /\ ~twice

AskInv == Typed /\ Numbered /\ PostedIsNoted

LEMMA NumberedStep == Typed /\ Numbered /\ [Next]_vars => Numbered'
<1> SUFFICES ASSUME Typed, Numbered, [Next]_vars
             PROVE  Numbered'
  OBVIOUS
<1>1. /\ begun \in Nat /\ NoTurn <= begun /\ NewTurn = begun + 1
      /\ row.turn \in Nat /\ detector.copy.turn \in Nat
      /\ \A n \in asked : n[1] \in Nat
      /\ \A t \in Turns : t \in Nat
      /\ reply \in [Turns -> {"off", "send", "tell", "save"}]
  BY DetectorAssumption DEF Typed, TypeOK, Turns, NoTurn, NewTurn, Notes
<1>2. CASE ListBusy
  BY <1>2 DEF ListBusy, Off, rowVars, threadVars, askVars, noteVars, knowVars, Numbered
<1>3. CASE CapturePane
  <2>1. detector'.copy.turn \in {NoTurn, detector.copy.turn}
    <3>1. \/ detector' = Off
          \/ detector' = [detector EXCEPT !.at = "enter", !.cap = screen]
      BY <1>3 DEF CapturePane
    <3>2. CASE detector' = Off
      BY <3>2 DEF Off, Row
    <3>3. CASE detector' = [detector EXCEPT !.at = "enter", !.cap = screen]
      BY <3>3 DEF Typed, TypeOK
    <3>4. QED
      BY <3>1, <3>2, <3>3
  <2>2. QED
    BY <1>1, <1>3, <2>1 DEF CapturePane, rowVars, threadVars, askVars, noteVars, knowVars, Numbered
<1>4. CASE EnterWaiting
  <2>1. row'.turn \in {row.turn, detector.copy.turn}
    BY <1>4 DEF EnterWaiting, Row
  <2>2. detector'.copy.turn \in {NoTurn, detector.copy.turn}
    <3>1. detector' = Off \/ detector' = [detector EXCEPT !.at = "notify"]
      BY <1>4 DEF EnterWaiting
    <3>2. QED
      BY <3>1 DEF Off, Row, Typed, TypeOK
  <2>3. QED
    BY <1>1, <1>4, <2>1, <2>2 DEF EnterWaiting, threadVars, askVars, noteVars, knowVars, Numbered
<1>5. CASE NotifyQuestion
  <2>1. /\ row'.turn \in {row.turn, detector.copy.turn} /\ detector'.copy.turn = NoTurn
        /\ asked' \subseteq asked \cup {<<detector.copy.turn, detector.cap>>}
    BY <1>5 DEF NotifyQuestion, Heard, Unheard, MoveBack, Off, Row
  <2>2. \A n \in asked' : n[1] <= begun
    BY <2>1 DEF Numbered
  <2>3. QED
    BY <1>1, <1>5, <2>1, <2>2 DEF NotifyQuestion, threadVars, Numbered
<1>6. CASE BeginTurn \/ Answer
  <2>1. row'.turn = begun + 1 /\ begun' = begun + 1 /\ UNCHANGED <<detector, asked>>
    BY <1>1, <1>6 DEF BeginTurn, Answer, Row, askVars, noteVars, knowVars
  <2>2. ASSUME NEW t \in Turns, reply'[t] # "off"
        PROVE  t <= begun'
    <3>1. reply' = reply \/ reply' = [reply EXCEPT ![NewTurn] = "send"]
      BY <1>6 DEF BeginTurn, Answer, threadVars
    <3>2. reply[t] # "off" \/ t = NewTurn
      BY <1>1, <2>2, <3>1
    <3>3. QED
      BY <1>1, <2>1, <3>2 DEF Numbered
  <2>3. QED
    BY <1>1, <2>1, <2>2 DEF Numbered
<1>7. CASE GraceEnds \/ \E s \in Screens : WorkerShows(s)
  BY <1>7 DEF GraceEnds, WorkerShows, rowVars, threadVars, askVars, noteVars, knowVars, Numbered
<1>8. ASSUME NEW status \in {"idle", "waiting"}, EndTurn(status)
      PROVE  Numbered'
  BY <1>1, <1>8 DEF EndTurn, Row, noteVars, Numbered
<1>9. ASSUME NEW t \in Turns, SendAnswer(t) \/ SaveAnswered(t)
      PROVE  Numbered'
  <2>1. row'.turn \in {NoTurn, row.turn, t} /\ t <= begun /\ UNCHANGED <<begun, detector, asked>>
    BY <1>9 DEF SendAnswer, SaveAnswered, Row, Numbered, askVars, noteVars, knowVars
  <2>2. \A u \in Turns : reply'[u] # "off" => reply[u] # "off"
    BY <1>1, <1>9 DEF SendAnswer, SaveAnswered
  <2>3. QED
    BY <1>1, <2>1, <2>2 DEF Numbered
<1>13. ASSUME NEW t \in Turns, TellSendFailed(t)
       PROVE  Numbered'
  <2>1. \A u \in Turns : reply'[u] # "off" => reply[u] # "off"
    BY <1>1, <1>13 DEF TellSendFailed
  <2>2. QED
    BY <1>13, <2>1 DEF TellSendFailed, rowVars, noteVars, Numbered
<1>10. ASSUME NEW t \in Turns, ClearSession(t)
       PROVE  Numbered'
  BY <1>10 DEF ClearSession, rowVars, askVars, noteVars, knowVars, Numbered
<1>11. CASE UNCHANGED vars
  BY <1>11 DEF vars, Numbered
<1>12. QED
  BY <1>2, <1>3, <1>4, <1>5, <1>6, <1>7, <1>8, <1>9, <1>10, <1>11, <1>13 DEF Next, DetectorStep

LEMMA PostedStep == AskInv /\ Typed' /\ Numbered' /\ [Next]_vars => PostedIsNoted'
<1> SUFFICES ASSUME AskInv, Typed', Numbered', [Next]_vars, ~relapsed', ~stale'
             PROVE  /\ \A n \in asked' : n[1] \in {row'.turn, detector'.copy.turn} => n \in memory'.notified
                    /\ detector'.at \in {"enter", "notify"} =>
                          <<detector'.copy.turn, detector'.cap>> \in memory'.notified \ asked'
                    /\ ~twice'
  BY DEF PostedIsNoted
<1>1. /\ ~relapsed /\ ~stale
      /\ relapsed \in BOOLEAN /\ stale \in BOOLEAN
  <2>1. relapsed => relapsed'
    BY DEF Next, DetectorStep, ListBusy, CapturePane, EnterWaiting, NotifyQuestion, BeginTurn,
           GraceEnds, Answer, WorkerShows, EndTurn, SendAnswer, TellSendFailed, SaveAnswered, ClearSession,
           pastVars, vars
  <2>2. stale => stale'
    BY DEF Next, DetectorStep, ListBusy, CapturePane, EnterWaiting, NotifyQuestion, BeginTurn,
           GraceEnds, Answer, WorkerShows, EndTurn, SendAnswer, TellSendFailed, SaveAnswered, ClearSession,
           pastVars, vars
  <2>3. QED
    BY <2>1, <2>2 DEF AskInv, Typed, TypeOK
<1>2. /\ \A n \in asked : n[1] \in {row.turn, detector.copy.turn} => n \in memory.notified
      /\ detector.at \in {"enter", "notify"} =>
            <<detector.copy.turn, detector.cap>> \in memory.notified \ asked
      /\ ~twice
  BY <1>1 DEF AskInv, PostedIsNoted
<1>3. /\ \A n \in asked : n[1] \in Turns /\ n[1] <= begun
      /\ begun \in Nat /\ NewTurn = begun + 1 /\ NoTurn \notin Turns
      /\ memory \in MemoryRow
      /\ \A t \in Turns : t \in Nat
  BY DetectorAssumption
     DEF AskInv, Typed, TypeOK, Numbered, Notes, NewTurn, Turns, NoTurn, MemoryRow
<1>4. Off.copy.turn = NoTurn /\ Off.at = "off"
  BY DEF Off, Row
<1>5. CASE ListBusy
  <2>1. detector'.copy.turn = row.turn /\ detector'.at = "capture"
    BY <1>5 DEF ListBusy, Off
  <2>2. QED
    BY <1>2, <1>5, <2>1 DEF ListBusy, rowVars, askVars, noteVars, knowVars
<1>6. CASE CapturePane
  <2> DEFINE t == detector.copy.turn
             m == Counted(t, screen)
             new == Asks(t, screen) /\ ~Told(t, screen)
  <2>1. t \in Turns /\ screen \in Screens
    BY <1>6 DEF CapturePane, AskInv, Typed, TypeOK, TurnNamed, DetectorAt
  <2>2. m \in MemoryRow /\ m.notified = memory.notified /\ OfTurn(t).notified = memory.notified
    BY <1>3, <2>1, CountedType
  <2>3. UNCHANGED <<row, asked, twice>>
    BY <1>6 DEF CapturePane, rowVars, askVars, noteVars, knowVars
  <2>4. CASE detector' = Off /\ memory'.notified = memory.notified
    BY <1>2, <1>3, <1>4, <2>3, <2>4
  <2>5. CASE /\ new /\ memory' = [m EXCEPT !.notified = m.notified \cup {<<t, screen>>}]
             /\ detector' = [detector EXCEPT !.at = "enter", !.cap = screen]
    <3>1. memory'.notified = memory.notified \cup {<<t, screen>>}
      BY <2>2, <2>5 DEF MemoryRow
    <3>2. detector'.copy.turn = t /\ detector'.cap = screen
      BY <2>5 DEF AskInv, Typed, TypeOK
    <3>3. <<t, screen>> \notin asked
      BY <1>2, <2>2, <2>5 DEF Told
    <3>4. QED
      BY <1>2, <2>3, <3>1, <3>2, <3>3
  <2>6. QED
    BY <1>6, <2>2, <2>4, <2>5 DEF CapturePane
<1>7. CASE EnterWaiting
  <2>1. detector.at = "enter" /\ UNCHANGED <<memory, asked, twice>>
    BY <1>7 DEF EnterWaiting, DetectorAt, askVars, noteVars, knowVars
  <2>2. /\ row'.turn \in {row.turn, detector.copy.turn}
        /\ \/ detector' = Off
           \/ detector'.copy = detector.copy /\ detector'.cap = detector.cap
    BY <1>7 DEF EnterWaiting, Row, AskInv, Typed, TypeOK
  <2>3. QED
    BY <1>2, <1>3, <1>4, <2>1, <2>2
<1>8. CASE NotifyQuestion
  <2> DEFINE note == <<detector.copy.turn, detector.cap>>
  <2>1. detector.at = "notify" /\ detector' = Off /\ UNCHANGED memory
        /\ row'.turn \in {row.turn, detector.copy.turn}
    BY <1>8 DEF NotifyQuestion, Heard, Unheard, MoveBack, Row, DetectorAt
  <2>2. \/ asked' = asked \cup {note} /\ twice' = (twice \/ note \in asked)
        \/ UNCHANGED <<asked, twice>>
    BY <1>8 DEF NotifyQuestion
  <2>3. note \in memory.notified \ asked
    BY <1>2, <2>1
  <2>4. ~twice'
    BY <1>2, <2>2, <2>3
  <2>5. \A n \in asked' : n[1] \in {row'.turn, NoTurn} => n \in memory.notified
    BY <1>2, <1>3, <2>1, <2>2, <2>3
  <2>6. QED
    BY <1>4, <2>1, <2>4, <2>5
<1>9. CASE BeginTurn \/ Answer
  <2>1. row'.turn = NewTurn /\ UNCHANGED <<detector, memory, asked, twice>>
    BY <1>9 DEF BeginTurn, Answer, Row, askVars, noteVars, knowVars
  <2>2. \A n \in asked : n[1] # NewTurn
    BY <1>3
  <2>3. QED
    BY <1>2, <2>1, <2>2
<1>10. CASE GraceEnds \/ \E s \in Screens : WorkerShows(s)
  BY <1>2, <1>10 DEF GraceEnds, WorkerShows, rowVars, askVars, noteVars, knowVars
<1>11. CASE row'.turn \in {row.turn, NoTurn} /\ UNCHANGED <<detector, memory, asked, twice>>
  BY <1>2, <1>3, <1>11
<1>12. CASE \/ \E t \in Turns : SendAnswer(t) \/ TellSendFailed(t)
            \/ \E status \in {"idle", "waiting"} : EndTurn(status)
  <2>1. row'.turn \in {row.turn, NoTurn} /\ UNCHANGED <<detector, memory, asked, twice>>
    BY <1>12 DEF SendAnswer, TellSendFailed, EndTurn, Row, rowVars, noteVars
  <2>2. QED
    BY <1>11, <2>1
<1>13. CASE \E t \in Turns : SaveAnswered(t)
  <2>1. UNCHANGED <<row, detector, memory, asked, twice>>
    BY <1>13 DEF SaveAnswered, askVars, noteVars, knowVars
  <2>2. QED
    BY <1>11, <2>1
<1>14. CASE \E t \in Turns : ClearSession(t)
  <2>1. /\ UNCHANGED <<row, detector, asked, twice>>
        /\ \A n \in memory.notified : n[1] # row.turn /\ n[1] # detector.copy.turn
    BY <1>14 DEF ClearSession, rowVars, askVars, noteVars, knowVars
  <2>2. \A n \in asked : n[1] \notin {row.turn, detector.copy.turn}
    BY <1>2, <2>1
  <2>3. detector.at \notin {"enter", "notify"}
    <3>1. <<detector.copy.turn, detector.cap>>[1] = detector.copy.turn
      OBVIOUS
    <3>2. QED
      BY <1>2, <2>1, <3>1
  <2>4. QED
    BY <1>2, <2>1, <2>2, <2>3
<1>15. CASE UNCHANGED vars
  BY <1>2, <1>15 DEF vars
<1>16. QED
  BY <1>5, <1>6, <1>7, <1>8, <1>9, <1>10, <1>12, <1>13, <1>14, <1>15 DEF Next, DetectorStep

\* The same prompt is not put to the user twice in a turn, however long it stays, whichever
\* posts fail and whatever was accepted all the same, unless the detector was made to
\* forget a turn that goes on, or a full-row save brought one back.
THEOREM OneQuestionPerPrompt == Spec => []AskedOncePerTurn
<1>1. Init => AskInv
  <2>1. Init => Numbered
    BY DetectorAssumption DEF Init, Row, Off, NoTurn, Numbered
  <2>2. Init => PostedIsNoted
    BY DEF Init, Off, PostedIsNoted
  <2>3. QED
    BY <2>1, <2>2, InitTyped DEF AskInv
<1>2. AskInv /\ [Next]_vars => AskInv'
  BY TypedStep, NumberedStep, PostedStep DEF AskInv
<1>3. AskInv => AskedOncePerTurn
  BY DEF AskInv, PostedIsNoted, AskedOncePerTurn
<1>4. QED
  BY <1>1, <1>2, <1>3, PTL DEF Spec

=============================================================================
