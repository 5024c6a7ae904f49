---------------------------- MODULE TicketQueue -----------------------------
(***************************************************************************)
(* What the durable queue promises, without rows, ledger or leases: every  *)
(* ticket waits, is taken, and is settled once.  Tickets are numbered in   *)
(* the order of arrival; per conversation they are taken in that order; a  *)
(* taken ticket may be put back (a failed send, an expired lease, a        *)
(* restart) and keeps its number, so it is again ahead of later ones.      *)
(***************************************************************************)
EXTENDS Naturals, Sequences

CONSTANT Threads

VARIABLES
    owner,      \* the conversation of each ticket issued so far
    waiting, taken, settled     \* disjoint sets of tickets

tvars == <<owner, waiting, taken, settled>>

NextTicket == Len(owner) + 1

Init ==
    /\ owner = <<>>
    /\ waiting = {} /\ taken = {} /\ settled = {}

Arrive(t) ==
    /\ owner' = Append(owner, t)
    /\ waiting' = waiting \cup {NextTicket}
    /\ UNCHANGED <<taken, settled>>

\* The ticket that opens a conversation is taken as it arrives.
ArriveTaken(t) ==
    /\ owner' = Append(owner, t)
    /\ taken' = taken \cup {NextTicket}
    /\ UNCHANGED <<waiting, settled>>

Take(n) ==
    /\ n \in waiting
    /\ \A m \in waiting : owner[m] = owner[n] => n <= m
    /\ waiting' = waiting \ {n}
    /\ taken' = taken \cup {n}
    /\ UNCHANGED <<owner, settled>>

PutBack(N) ==
    /\ N \subseteq taken
    /\ taken' = taken \ N
    /\ waiting' = waiting \cup N
    /\ UNCHANGED <<owner, settled>>

Settle(N) ==
    /\ N \subseteq waiting \cup taken
    /\ waiting' = waiting \ N
    /\ taken' = taken \ N
    /\ settled' = settled \cup N
    /\ UNCHANGED owner

Next ==
    \/ \E t \in Threads : Arrive(t) \/ ArriveTaken(t)
    \/ \E n \in waiting : Take(n)
    \/ \E N \in SUBSET taken : PutBack(N)
    \/ \E N \in SUBSET (waiting \cup taken) : Settle(N)

Spec == Init /\ [][Next]_tvars

=============================================================================
