---------------------------- MODULE MCTranscript ----------------------------
(* Small instances of Transcript for TLC. *)
EXTENDS Transcript, TLC

Symmetry == Permutations(Readers)
=============================================================================
