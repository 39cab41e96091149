--------------------------- MODULE MCIntakeSpine ----------------------------
(* Instances of IntakeSpine for TLC. *)
EXTENDS IntakeSpine, TLC

SpineSymmetry == Permutations(Docs) \cup Permutations(Bytes) \cup Permutations(Execs)
=============================================================================
