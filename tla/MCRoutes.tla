------------------------------ MODULE MCRoutes ------------------------------
(* Constants for model checking Routes.                                     *)
EXTENDS Routes, TLC

CONSTANTS e1, e2, p1, p2, g

ThreeRoutes == {1, 2, 3}
Entry(p, rank) == [group |-> g, provider |-> p, priority |-> rank]
TwoRoutes == 1 :> Entry(p1, 0) @@ 2 :> Entry(p2, 1) @@ 3 :> Unused

Payloads == {Entry(p2, 0)}

\* A tab shows the two routes that there are at the start.
BothWays == {1 :> 0 @@ 2 :> 1, 1 :> 1 @@ 2 :> 0}

\* The tabs draw equal timestamps until one has seen the other's.
SlowClocks == 1 :> {1} @@ 2 :> {0}
OneEach == 1 :> 1 @@ 2 :> 1

Symmetry == Permutations(Editor)
=============================================================================
