--------------------------- MODULE InputDetector ----------------------------
(***************************************************************************)
(* What the poll loop of input_detector.py remembers of one conversation,  *)
(* and the threads that change it and the row meanwhile: the hook server   *)
(* that ends a turn and the listener that types an answer.  InputWait has  *)
(* the same detections as steps of a whole conversation, without memory.   *)
(*                                                                         *)
(* A screen is what is left of a captured pane after normalisation: a menu *)
(* (permission dialog, plan approval, choices), the prompt of the free     *)
(* input, or other output.  The recognition of a screen is data.  The      *)
(* conversation keeps its pane, and one pass of the loop over its row, or  *)
(* a clear_session, is one step: neither waits for anything.               *)
(***************************************************************************)
EXTENDS Naturals

CONSTANTS
    Menus,          \* the menus a worker may show
    StableCount,    \* stable_count of the free input: captures in a row
    MaxTurns,       \* turns of the conversation (a model bound)
    MaxFaults       \* captures and questions of the detector that may fail or be kept back
                    \* by the daily limit of notifications (a model bound)

ASSUME DetectorAssumption ==
    /\ {"prompt", "output", "none"} \cap Menus = {}
    /\ StableCount \in Nat \ {0} /\ MaxTurns \in Nat \ {0} /\ MaxFaults \in Nat

VARIABLES
    row,        \* the session row: status and active turn
    begun,      \* the turns there have been
    aged,       \* the turns past FREE_INPUT_GRACE_PERIOD
    screen,     \* what the pane shows
    memory,     \* marker, count, last: of the turn looked at; notified: the prompts told
    detector,   \* the poll loop: the row as listed and the screen as captured
    reply,      \* the listener that opened a turn by an answer
    clearing,   \* turns whose clear_session is still to come
    faults,
    asked,      \* history: the prompts of a turn that are in Slack
    failed,     \* history: the prompts of a turn whose post failed or raised
    withheld,   \* history: the prompts of a turn that the limit kept back
    twice,      \* history: a prompt of a turn was posted again
    known,      \* history: the user knows of this wait
    unheard,    \* history: the note that tells him of it was kept back, failed or raised
    relapsed,   \* history: clear_session came late, in a turn with prompts told
    stale       \* history: save() undid another thread's write

rowVars    == <<row, begun, aged>>
noteVars   == <<asked, failed, withheld, twice>>
knowVars   == <<known, unheard>>
askVars    == <<noteVars, knowVars>>
pastVars   == <<relapsed, stale>>
threadVars == <<reply, clearing>>
vars == <<row, begun, aged, screen, memory, detector, reply, clearing, faults, asked, failed,
          withheld, twice, known, unheard, relapsed, stale>>

Turns   == 1..MaxTurns
NoTurn  == 0
Screens == Menus \cup {"prompt", "output"}

Row(status, turn) == [status |-> status, turn |-> turn]
Blank == [marker |-> NoTurn, count |-> 0, last |-> "none", notified |-> {}]
Off   == [at |-> "off", copy |-> Row("idle", NoTurn), cap |-> "none"]

DetectorAt(where) == detector.at = where
Fault == faults < MaxFaults /\ faults' = faults + 1

\* The user is told of the wait, or he is not.
Heard   == known' = TRUE /\ UNCHANGED unheard
Unheard == unheard' = TRUE /\ UNCHANGED known
\* A wait begins of which he does not know yet.
NewWait == known' = FALSE /\ unheard' = FALSE

-----------------------------------------------------------------------------
(* _match_patterns *)

\* _reset_turn_state_if_needed
OfTurn(t) ==
    IF memory.marker = t THEN memory
    ELSE [memory EXCEPT !.marker = t, !.count = 0, !.last = "none"]

\* The counter of the free input: not touched by a menu, reset by other output and in
\* the grace period of the turn.  Beyond StableCount all counts are alike.
Counted(t, cap) ==
    LET m == OfTurn(t) IN
    CASE cap \in Menus -> m
      [] cap = "prompt" /\ t \in aged ->
            [m EXCEPT !.last = cap,
                      !.count = CASE m.last # cap -> 1
                                  [] m.last = cap /\ m.count < StableCount -> m.count + 1
                                  [] OTHER -> StableCount]
      [] OTHER -> [m EXCEPT !.last = cap, !.count = 0]

\* The screen asks for an answer.
Asks(t, cap) ==
    cap \in Menus \/ (cap = "prompt" /\ t \in aged /\ Counted(t, cap).count = StableCount)

\* A plausible slip: a prompt is compared with the last capture only.
ToldLast(t, cap) == OfTurn(t).last = cap
\* A plausible slip: a prompt counts as told whatever the turn.
ToldInAnyTurn(t, cap) == \E n \in memory.notified : n[2] = cap
\* _prompt_fingerprint: the turn is part of it.
Told(t, cap) == <<t, cap>> \in OfTurn(t).notified

\* _check_all_busy_sessions: the row as list_all gives it, then the pane.
ListBusy ==
    /\ DetectorAt("off") /\ row.status = "busy"
    /\ detector' = [Off EXCEPT !.at = "capture", !.copy = row]
    /\ UNCHANGED <<rowVars, screen, memory, threadVars, faults, askVars, pastVars>>

\* A capture may fail.  _match_patterns, _dedupe_result: the prompt is noted before
\* anybody is told.
CapturePane ==
    LET t   == detector.copy.turn
        m   == Counted(t, screen)
        new == Asks(t, screen) /\ ~Told(t, screen)
    IN
    /\ DetectorAt("capture")
    /\ \/ Fault /\ detector' = Off /\ UNCHANGED memory
       \/ /\ memory' = IF new THEN [m EXCEPT !.notified = @ \cup {<<t, screen>>}] ELSE m
          /\ detector' = IF new THEN [detector EXCEPT !.at = "enter", !.cap = screen] ELSE Off
          /\ UNCHANGED faults
    /\ UNCHANGED <<rowVars, screen, threadVars, askVars, pastVars>>

\* on_input_wait_detected: any busy row will do, the turn is that of the copy.
EnterWaiting ==
    /\ DetectorAt("enter")
    /\ IF row.status = "busy"
       THEN /\ row' = Row("waiting", detector.copy.turn)
            /\ detector' = [detector EXCEPT !.at = "notify"]
            /\ NewWait
       ELSE detector' = Off /\ UNCHANGED <<row, knowVars>>
    /\ UNCHANGED <<begun, aged, screen, memory, threadVars, faults, noteVars, pastVars>>

\* A plausible slip: the row stays where it was moved to.
NotMovedBack(t) == UNCHANGED row
MoveBack(t) == row' = IF row.status = "waiting" THEN Row("busy", t) ELSE row

\* post_to_slack without substantive: the question is posted, or kept back by the limit,
\* which counts as posted; if the call fails (it may have been accepted all the same) the
\* row is moved back.  The claim of a slot before the call, or the row's update after it,
\* may raise: the row stays as it is.
NotifyQuestion ==
    LET t == detector.copy.turn
        note == <<t, detector.cap>>
        posted == asked' = asked \cup {note} /\ twice' = (twice \/ note \in asked)
        silent == UNCHANGED <<asked, twice>>
    IN
    /\ DetectorAt("notify")
    /\ \/ posted /\ Heard /\ UNCHANGED <<row, failed, withheld, faults>>
       \/ /\ Fault /\ silent /\ Unheard
          /\ withheld' = withheld \cup {note}
          /\ UNCHANGED <<row, failed>>
       \/ /\ Fault
          /\ posted \/ silent
          /\ failed' = failed \cup {note}
          /\ MoveBack(t)
          /\ UNCHANGED <<withheld, knowVars>>
       \/ /\ Fault
          /\ (posted /\ Heard) \/ (silent /\ Unheard)
          /\ failed' = failed \cup {note}
          /\ UNCHANGED <<row, withheld>>
    /\ detector' = Off
    /\ UNCHANGED <<begun, aged, screen, memory, threadVars, pastVars>>

DetectorStep == ListBusy \/ CapturePane \/ EnterWaiting \/ NotifyQuestion

-----------------------------------------------------------------------------
(* The turns of the conversation *)

CanBegin == begun < MaxTurns
NewTurn  == begun + 1

\* A message for an idle conversation, or the next of its queue.
BeginTurn ==
    /\ row.status = "idle" /\ CanBegin
    /\ row' = Row("busy", NewTurn) /\ begun' = NewTurn
    /\ UNCHANGED <<aged, screen, memory, detector, threadVars, faults, askVars, pastVars>>

GraceEnds ==
    /\ row.status = "busy" /\ row.turn \notin aged
    /\ aged' = aged \cup {row.turn}
    /\ UNCHANGED <<row, begun, screen, memory, detector, threadVars, faults, askVars, pastVars>>

WorkerShows(s) ==
    /\ screen # s /\ screen' = s
    /\ UNCHANGED <<rowVars, memory, detector, threadVars, faults, askVars, pastVars>>

\* complete_turn: the turn's answer is out, and the worker is done or, with a question
\* in the answer, waits.  Only a worker that was told of the turn answers it.  The
\* detector forgets the conversation a little later.
EndTurn(status) ==
    /\ row.turn # NoTurn /\ reply[row.turn] # "send"
    /\ \/ row.status = "busy" \/ (row.status = "waiting" /\ status = "idle")
    /\ row' = Row(status, NoTurn)
    /\ clearing' = clearing \cup {row.turn}
    /\ known' = (status = "waiting") /\ unheard' = FALSE
    /\ UNCHANGED <<begun, aged, screen, memory, detector, reply, faults, noteVars, pastVars>>

-----------------------------------------------------------------------------
(* The user's answer *)

\* handle_user_reply: a message that finds the conversation waiting.
Answer ==
    /\ row.status = "waiting" /\ CanBegin
    /\ row' = Row("busy", NewTurn) /\ begun' = NewTurn
    /\ reply' = [reply EXCEPT ![NewTurn] = "send"]
    /\ NewWait
    /\ UNCHANGED <<aged, screen, memory, detector, clearing, faults, noteVars, pastVars>>

\* The answer is typed in, or the move is undone.
SendAnswer(t) ==
    /\ reply[t] = "send"
    /\ \/ /\ reply' = [reply EXCEPT ![t] = "save"]
          /\ UNCHANGED <<row, knowVars>>
       \/ /\ reply' = [reply EXCEPT ![t] = "tell"]
          /\ IF row.status = "busy"
             THEN row' = Row("waiting", NoTurn) /\ NewWait
             ELSE UNCHANGED <<row, knowVars>>
    /\ UNCHANGED <<begun, aged, screen, memory, detector, clearing, faults, noteVars, pastVars>>

\* _route_waiting tells the user that his answer was not sent, whatever becomes of the note.
TellSendFailed(t) ==
    /\ reply[t] = "tell"
    /\ reply' = [reply EXCEPT ![t] = "off"]
    /\ Heard \/ Unheard
    /\ UNCHANGED <<rowVars, screen, memory, detector, clearing, faults, noteVars, pastVars>>

\* The row of the move is saved again, in full; clear_session is the last thing.
SaveAnswered(t) ==
    /\ reply[t] = "save"
    /\ row' = Row("busy", t)
    /\ stale' = (stale \/ row # row')
    /\ reply' = [reply EXCEPT ![t] = "off"]
    /\ clearing' = clearing \cup {t}
    /\ UNCHANGED <<begun, aged, screen, memory, detector, faults, askVars, relapsed>>

\* clear_session
ClearSession(t) ==
    /\ t \in clearing /\ clearing' = clearing \ {t}
    /\ memory' = Blank
    /\ relapsed' = (relapsed \/ \E n \in memory.notified : n[1] = row.turn \/ n[1] = detector.copy.turn)
    /\ UNCHANGED <<rowVars, screen, detector, reply, faults, askVars, stale>>

-----------------------------------------------------------------------------

Init ==
    /\ row = Row("idle", NoTurn) /\ begun = 0 /\ aged = {}
    /\ screen = "output" /\ memory = Blank /\ detector = Off
    /\ reply = [t \in Turns |-> "off"] /\ clearing = {} /\ faults = 0
    /\ asked = {} /\ failed = {} /\ withheld = {} /\ twice = FALSE
    /\ known = FALSE /\ unheard = FALSE
    /\ relapsed = FALSE /\ stale = FALSE

Next ==
    \/ DetectorStep
    \/ BeginTurn \/ GraceEnds \/ Answer
    \/ \E s \in Screens : WorkerShows(s)
    \/ \E status \in {"idle", "waiting"} : EndTurn(status)
    \/ \E t \in Turns : SendAnswer(t) \/ TellSendFailed(t) \/ SaveAnswered(t) \/ ClearSession(t)

Spec == Init /\ [][Next]_vars

\* The poll loop goes on, whatever one pass raises; captures and posts have timeouts.
FairSpec == Spec /\ WF_vars(DetectorStep)

-----------------------------------------------------------------------------

Notes == Turns \X Screens

\* The types of the variables.
TypeOK ==
    /\ row \in [status: {"idle", "busy", "waiting"}, turn: Turns \cup {NoTurn}]
    /\ begun \in 0..MaxTurns /\ aged \subseteq Turns /\ screen \in Screens
    /\ memory \in [marker: Turns \cup {NoTurn}, count: 0..StableCount,
                   last: {"none", "prompt", "output"}, notified: SUBSET Notes]
    /\ detector \in [at: {"off", "capture", "enter", "notify"},
                     copy: [status: {"idle", "busy"}, turn: Turns \cup {NoTurn}],
                     cap: Screens \cup {"none"}]
    /\ reply \in [Turns -> {"off", "send", "tell", "save"}] /\ clearing \subseteq Turns
    /\ faults \in 0..MaxFaults
    /\ asked \subseteq Notes /\ failed \subseteq Notes /\ withheld \subseteq Notes
    /\ twice \in BOOLEAN /\ known \in BOOLEAN /\ unheard \in BOOLEAN /\ relapsed \in BOOLEAN /\ stale \in BOOLEAN

\* A prompt is posted once in a turn, though it stays on the screen while the post fails,
\* may have been accepted, and is moved back.  (A clear_session that comes when the next
\* question of its turn is already told makes the detector tell it again, and so may a
\* full-row save that brings a turn back.)
AskedOncePerTurn == twice => relapsed \/ stale

\* The user of a conversation that waits knows of it, or somebody is about to tell him.
\* Only a note that the daily limit kept back, that raised, or that failed to say that his
\* answer was not sent leaves him without: then the conversation waits for a user who was
\* not asked.  A question whose post merely failed does not, it is taken back.
WaitingIsKnown ==
    row.status = "waiting" =>
        known \/ unheard \/ DetectorAt("notify") \/ \E t \in Turns : reply[t] = "tell"

\* What became of a prompt of a turn: posted, kept back, failed or raised.
Noted == asked \cup failed \cup withheld

\* The user is asked about another screen of the turn.
AskedElse(t, s) ==
    /\ row = Row("waiting", t) /\ ~DetectorAt("notify")
    /\ \E u \in Screens \ {s} : <<t, u>> \in Noted

\* A menu that a busy worker shows is told to the user, or its note is kept back or fails,
\* unless it goes, or the row's turn does (it ends, or a slow detection or save puts an
\* earlier one there), or the user is being asked about an earlier screen: that the
\* conversation waits is not enough.
MenuIsTold ==
    \A t \in Turns, s \in Menus :
        (row = Row("busy", t) /\ screen = s) ~>
            \/ <<t, s>> \in Noted
            \/ AskedElse(t, s)
            \/ row.turn # t \/ screen # s \/ stale

=============================================================================
