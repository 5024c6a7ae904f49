---------------------------- MODULE MCCaseReply -----------------------------
(* CaseReply for TLC: two answers, a note and a reaction of a turn, and an answer *)
(* of the next one; what may go wrong in each behaviour. *)
EXTENDS CaseReply, TLC

CONSTANTS answer, other, note, tick, next   \* requests (model values)

MCTurnOf == [r \in Requests |-> IF r = next THEN 2 ELSE 1]

MCAction ==
    [r \in Requests |-> CASE r = note -> "continue" [] r = tick -> "reaction" [] OTHER -> "done"]

Of(n, S) == [k \in FaultKinds |-> IF k = "run" THEN n ELSE IF k \in S THEN 1 ELSE 0]

Slow    == [Of(2, {"giveup"}) EXCEPT !["lapse"] = 2]
Refused == Of(2, {"refuse", "giveup"})
Unclear == Of(2, {"refuse", "unknown", "lapse"})
Ended   == Of(2, {"cancel", "unknown", "lapse"})
Stopped == Of(2, {"stop", "crash", "lapse", "quiet"})
Broken  == Of(2, {"break", "ledger", "lapse"})
Alone   == Of(1, {"refuse", "unknown", "giveup", "lapse", "cancel"})
Everything == {Slow, Refused, Unclear, Ended, Stopped, Broken, Alone}

Settling == {Of(2, {"refuse", "unknown", "giveup"}), Of(1, {"cancel", "lapse", "ledger", "giveup"})}

\* The two answers are alike; for the safety run only.
Symmetry == Permutations({answer, other})
=============================================================================
