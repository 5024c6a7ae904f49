------------------------------ MODULE PanePool ------------------------------
(***************************************************************************)
(* The tmux windows of the pane pool and their panes (tmux_gateway.py,     *)
(* pane_pool.py).  Every tmux call is a process of its own, so panes may   *)
(* come and go between two of them.  A window is there as long as it has a *)
(* pane, and the tmux session as long as it has a window.  allocate_pane   *)
(* is one operator: its callers hold _PANE_LAUNCH_LOCK and it holds        *)
(* _PANE_ALLOCATION_LOCK, so meanwhile panes can only go, which looks like *)
(* a later or an earlier call.  kill_pane is two: the lock is taken for    *)
(* the second of them, ensure_window.  The geometry of a window is left    *)
(* out: a split that does not fit is one of the launch failures of         *)
(* Admission.                                                              *)
(***************************************************************************)
EXTENDS Naturals, Sequences, FiniteSets

CONSTANTS
    Conversations,  \* the conversation identities
    Setups          \* the pools and budgets, one of which is chosen at the start

\* What may go wrong or happen from outside, as often as the budget says.
FaultKinds == {"message", "more", "slack", "launch", "exit", "kill"}

ASSUME PoolAssumption ==
    /\ IsFiniteSet(Conversations) /\ {"none", "bridge"} \cap Conversations = {}
    /\ \A s \in Setups :
          /\ s.windows \in Seq(STRING) /\ s.windows # <<>>
          /\ \A i, j \in DOMAIN s.windows : s.windows[i] = s.windows[j] => i = j
          /\ s.max \in Nat \ {0}
          /\ s.budget \in [FaultKinds -> Nat]

VARIABLES
    setup,  \* windows: the names in order; max: panes per window; budget: the faults
    panes,  \* the live panes: the window, whether a shell still runs in the pane,
            \* and the owner markers
    opening \* the threads in kill_pane that have closed their pane, each with the window
            \* that it has to see to

poolVars == <<setup, panes, opening>>

Windows   == setup.windows
WindowMax == setup.max
PoolMax   == WindowMax * Len(Windows)
NoPane    == 0

\* The markers: none yet, those of the bridge alone, or with a conversation's identity.
Marks == {"none", "bridge"} \cup Conversations

Pane(w, mark) == [window |-> w, shell |-> TRUE, mark |-> mark]

PanesOf(ps, w) == {p \in DOMAIN ps : ps[p].window = w}
ListPanes(w)   == PanesOf(panes, w)
WindowGone(w)  == ListPanes(w) = {}     \* list-panes fails
LivePane(p)    == p \in DOMAIN panes
IsOwned(p)     == LivePane(p) /\ panes[p].mark # "none"

Put(ps, p, r) == [q \in DOMAIN ps \cup {p} |-> IF q = p THEN r ELSE ps[q]]

\* The program of a pane ends: the pane closes, and its window with the last one.
Closed(ps, p) == [q \in DOMAIN ps \ {p} |-> ps[q]]

\* kill_pane in the thread t, which is between its two steps if InKill: a pane of ours is
\* closed ...
InKill(t) == t \in DOMAIN opening

ClosePane(t, p) ==
    /\ IsOwned(p) /\ ~InKill(t)
    /\ panes' = Closed(panes, p)
    /\ opening' = Put(opening, t, panes[p].window)

\* A plausible slip: the window is not looked after.
WindowForgotten(t, new) ==
    InKill(t) /\ DOMAIN panes # {} /\ UNCHANGED panes /\ opening' = Closed(opening, t)

\* ... then ensure_window opens its window again if it is gone by now ...
EnsureWindow(t, new) ==
    /\ InKill(t) /\ DOMAIN panes # {}
    /\ panes' = IF WindowGone(opening[t])
                THEN Put(panes, new, Pane(opening[t], "bridge")) ELSE panes
    /\ opening' = Closed(opening, t)

\* ... which raises if the session went with its last window: only a restart of the
\* bridge makes it again.
NoSession(t) ==
    InKill(t) /\ DOMAIN panes = {} /\ UNCHANGED panes /\ opening' = Closed(opening, t)

\* _reusable_shell_pane: the only pane of its window, ours, without a worker yet.
Reusable(w) ==
    {p \in ListPanes(w) : ListPanes(w) = {p} /\ panes[p].shell /\ IsOwned(p)}

\* A plausible slip: the limit is compared one pane too late.
CanSplitOneMore(w) == Cardinality(ListPanes(w)) <= WindowMax

\* _choose_split_target
CanSplit(w) == Cardinality(ListPanes(w)) < WindowMax

\* new_pane: the first window that has a pane to give.
NewPaneIn(i) ==
    LET usable(j) == Reusable(Windows[j]) # {} \/ CanSplit(Windows[j])
    IN  usable(i) /\ \A j \in 1..(i - 1) : ~usable(j)

\* allocate_pane: the pool's panes are counted, which fails without a window; then its
\* windows are tried.
CanAllocate ==
    /\ \A i \in DOMAIN Windows : ~WindowGone(Windows[i])
    /\ Cardinality(DOMAIN panes) < PoolMax
    /\ \E i \in DOMAIN Windows : NewPaneIn(i)

Allocated(new) ==
    LET w == Windows[CHOOSE i \in DOMAIN Windows : NewPaneIn(i)]
    IN  IF Reusable(w) # {}
        THEN [pane |-> CHOOSE p \in Reusable(w) : TRUE, panes |-> panes]
        ELSE [pane |-> new, panes |-> Put(panes, new, Pane(w, "none"))]

\* TmuxGateway.__init__: every window is there, with a pane that is the bridge's.
PoolInit ==
    /\ setup \in Setups
    /\ panes = [p \in DOMAIN Windows |-> Pane(Windows[p], "bridge")]
    /\ opening = <<>>

=============================================================================
