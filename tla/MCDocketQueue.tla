--------------------------- MODULE MCDocketQueue ----------------------------
(* Instances of DocketQueue for TLC. *)
EXTENDS DocketQueue
=============================================================================
