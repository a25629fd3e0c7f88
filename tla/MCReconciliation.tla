-------------------------- MODULE MCReconciliation --------------------------
(* An order of two fills, whose status may be answered as one that tells        *)
(* nothing, and an order that executes nothing.                              *)
EXTENDS Reconciliation, TLC

CONSTANTS o1, o2, f1, f2

MCOrders == {o1, o2}
MCFills == {f1, f2}
MCOrderOf == [f \in MCFills |-> o1]
MCVague == {o1}

\* The fills of one order are alike.
AlikeFills == Permutations(MCFills)

\* Bound: answers that tell nothing, the deposit, and what was adopted by a halt after
\* the opening, are followed while there is one order only.
OneAtATime ==
    row[o2] # "absent" =>
        /\ reply.status # "pending" /\ seen[o1].status # "pending" /\ ~deposited
        /\ excused \subseteq {Opening}
=============================================================================
