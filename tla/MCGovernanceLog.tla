--------------------------- MODULE MCGovernanceLog --------------------------
(* Instances of GovernanceLog for TLC. *)
EXTENDS GovernanceLog, TLC

LogSymmetry == Permutations(Txns) \cup Permutations(Records) \cup Permutations(Values)
=============================================================================
