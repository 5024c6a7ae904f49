---------------------------- MODULE MCEventQueue ----------------------------
(* Two conversations: two events compete in the first, and a plain text,   *)
(* which may be queued again and again, is in the second.                  *)
EXTENDS EventQueue, TLC

CONSTANTS t1, t2, e1, e2, x1

MCThreadOf == (e1 :> t1) @@ (e2 :> t1) @@ (x1 :> t2)

=============================================================================
