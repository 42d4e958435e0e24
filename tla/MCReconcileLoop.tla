-------------------------- MODULE MCReconcileLoop --------------------------
(* A policy of each kind, and what it is edited to, for ReconcileLoop.tla. *)
EXTENDS ReconcileLoop

Between(k, s, e) == [kind |-> k, start |-> s, end |-> e, gitops |-> FALSE]
Window(ss, l) == [valid |-> TRUE, starts |-> ss, duration |-> l]
MW(ws) == [kind |-> "MaintenanceWindow", windows |-> ws, gitops |-> FALSE]

Intervals == {Between(k, 1, 3) : k \in {"ChangeFreeze", "FreezeException"}}
               \cup {Between(k, 3, 9) : k \in {"ChangeFreeze", "FreezeException"}}
(* Windows that overlap, a window beside one that never runs in a policy   *)
(* with GitOps, and windows that do not evaluate.                          *)
Overlap == MW(<<Window({2, 9}, 2), Window({3, 9}, 1)>>)
Never == [MW(<<Window({}, 1), Window({3, 9}, 2)>>) EXCEPT !.gitops = TRUE]
Broken == MW(<<Window({1, 9}, 1), [Window({1, 9}, 1) EXCEPT !.valid = FALSE]>>)

MCInitial == Intervals \cup {Overlap, Never, Broken}
MCSpecs == Intervals \cup {Overlap, Broken}
=============================================================================
