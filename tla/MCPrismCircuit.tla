--------------------------- MODULE MCPrismCircuit ---------------------------
(* An instance of PrismCircuit for TLC. *)
EXTENDS PrismCircuit
=============================================================================
