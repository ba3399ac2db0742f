---------------------------- MODULE MCLifecycle ----------------------------
(* Small instances of Lifecycle for TLC. *)
EXTENDS Lifecycle, TLC

\* Sessions and handlers are interchangeable: sound for the runs that check
\* no liveness.
Symmetry == Permutations(Sessions) \cup Permutations(Tasks)
=============================================================================
