--------------------------- MODULE MCRedirections ---------------------------
(* Instances of Redirections for TLC. *)
EXTENDS Redirections, FiniteSets, TLC

CONSTANTS in, out, err, Lasting

\* A shell started with its three descriptors, and one whose input is closed.
Three == [d \in Fd |-> CASE d = 0 -> in [] d = 1 -> out [] d = 2 -> err
                         [] OTHER -> Closed]
NoInput == [Three EXCEPT ![0] = Closed]

Alone == {Three}
Either == {Three, NoInput}

\* The properties say nothing once a descriptor has been trodden on, and what
\* is trodden on stays so.
StillClean == Clean

\* Bound: descriptors that differ for good from what the shell started with.
FewLast ==
  \E t \in Given : Cardinality({d \in Fd : plain[d] # t[d]}) <= Lasting
=============================================================================
