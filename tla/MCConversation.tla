--------------------------- MODULE MCConversation ---------------------------
(* Conversation for TLC: the messages, and what may go wrong in each run. *)
EXTENDS Conversation, TLC

CONSTANTS e1, e2, e3    \* Slack messages (model values)

\* Permuting the messages maps behaviours to behaviours; for safety runs only.
Symmetry == Permutations(Events)

\* At most n messages, and each kind of S once.
Once(n, S) == [k \in FaultKinds |-> IF k = "message" THEN n ELSE IF k \in S THEN 1 ELSE 0]

Undisturbed == Once(3, {})
Failures    == [Once(2, {"post", "refuse", "launch", "exit"}) EXCEPT !["send"] = 2]
Crashing    == [Once(2, {"send", "refuse", "launch"}) EXCEPT !["crash"] = 2]
Running     == {Undisturbed, Failures, Crashing}

Interventions == {Once(2, {"cancel", "detect"})}
Endings      == {Once(2, {"timeout"}), Once(2, {"exit", "orphan"}), Once(2, {"kill"})}
ShuttingDown == Once(1, {"shutdown", "send", "post", "launch"})
Progress     == {Once(2, {"send", "launch"}), Once(2, {"post", "refuse"}), ShuttingDown}

Nothing     == {Once(2, {})}
AskingAtEnd == {Once(1, {"detect", "shutdown"})}
=============================================================================
