---------------------------- MODULE MCAdmission -----------------------------
(* Admission for TLC: the pools, the messages that come and what may go wrong. *)
EXTENDS Admission, TLC

CONSTANTS c1, c2, c3    \* conversations (model values)

\* The first messages of so many conversations, so many later ones, and each fault once.
Some(first, later, S) ==
    [k \in FaultKinds |-> CASE k = "message" -> first [] k = "more" -> later
                       [] OTHER -> IF k \in S THEN 1 ELSE 0]

Pool(windows, max, faults) == [windows |-> windows, max |-> max, budget |-> faults]

TwoWindows(max, faults) == Pool(<<"worker", "worker-2">>, max, faults)

\* Three conversations at once, for two panes or four.
Narrow  == Pool(<<"worker">>, 2, Some(3, 0, {"slack"}))
Wide    == TwoWindows(2, Some(3, 0, {}))
\* Launches that fail, workers that end and conversations that are ended and go on.
Failing == TwoWindows(2, Some(2, 0, {"launch", "exit"}))
Ending  == TwoWindows(2, Some(2, 0, {"launch", "kill"}))
EndOfAll == Pool(<<"worker">>, 2, Some(2, 0, {"launch", "exit", "kill"}))
Alone   == TwoWindows(2, Some(1, 1, {"slack", "launch", "exit", "kill"}))

Everything == {Narrow, Wide, Failing, Ending, EndOfAll, Alone}

Symmetry == Permutations(Conversations)
=============================================================================
