---------------------------- MODULE MCJobControl ----------------------------
(* Instances of JobControl for TLC. *)
EXTENDS JobControl, TLC

\* Process ids differ in name only; the launches number the jobs.
PidSymmetry == Permutations(Pid)
=============================================================================
