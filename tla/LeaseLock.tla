----------------------------- MODULE LeaseLock ------------------------------
(***************************************************************************)
(* A lock with a lease: what a claim in a table of the bridge promises.    *)
(* Whoever holds it may take it again; somebody else gets it only when it  *)
(* is free or its lease has run out; a thing that is retired is never      *)
(* locked again.                                                           *)
(***************************************************************************)
CONSTANTS Things, Owners, NoOwner

VARIABLES
    owner,      \* who holds each thing
    lapsed,     \* the leases that have run out
    retired     \* the things that nobody may lock any more

lvars == <<owner, lapsed, retired>>

Init ==
    /\ owner = [x \in Things |-> NoOwner]
    /\ lapsed = {} /\ retired = {}

Lock(x, o) ==
    /\ x \notin retired
    /\ owner[x] \in {NoOwner, o} \/ x \in lapsed
    /\ owner' = [owner EXCEPT ![x] = o]
    /\ lapsed' = lapsed \ {x}
    /\ UNCHANGED retired

Unlock(x) ==
    /\ owner' = [owner EXCEPT ![x] = NoOwner]
    /\ lapsed' = lapsed \ {x}
    /\ UNCHANGED retired

Lapse(x) ==
    /\ owner[x] # NoOwner
    /\ lapsed' = lapsed \cup {x}
    /\ UNCHANGED <<owner, retired>>

\* Things are retired for good; some of them are unlocked by that, others keep
\* the owner they had.
Retire(X) ==
    /\ retired' = retired \cup X
    /\ owner' \in [Things -> Owners \cup {NoOwner}]
    /\ \A x \in Things : owner'[x] = owner[x] \/ (x \in X /\ owner'[x] = NoOwner)
    /\ lapsed' = {x \in lapsed : owner'[x] # NoOwner}

Next ==
    \/ \E x \in Things : Unlock(x) \/ Lapse(x) \/ \E o \in Owners : Lock(x, o)
    \/ \E X \in SUBSET Things : Retire(X)

Spec == Init /\ [][Next]_lvars

=============================================================================
