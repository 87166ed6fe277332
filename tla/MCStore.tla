------------------------------ MODULE MCStore ------------------------------
(* The store and its service threads for TLC.  Between two requests of a  *)
(* thread the key of its last one is not looked at, and a program that    *)
(* has gone astray stays where it is: the view leaves the rest out.       *)
EXTENDS XactoStore, TLC

Symmetry == Permutations(Keys)

MCView ==
    IF undefined THEN <<status, pc>>
    ELSE <<refcnt, keys, entries, transactions, pc, ops, locals,
           [t \in Serving |-> want[t]]>>
=============================================================================
