---------------------------- MODULE MCHoldServer ----------------------------
(* Instances of HoldServer for TLC. *)
EXTENDS HoldServer, TLC

CONSTANTS d1, d2, d3, A, B

\* Two terminals of two machines, and a third that shares a name.
Two == {d1, d3}
Three == {d1, d2, d3}
Names == (d1 :> A) @@ (d2 :> A) @@ (d3 :> B)
TwoNames == [t \in Two |-> Names[t]]

\* d1 and d2 differ in nothing.
Alike == Permutations({d1, d2})

\* Where the primary is, and the place to the left of it.
Leftward == {-1, 0}
=============================================================================
