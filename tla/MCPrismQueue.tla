--------------------------- MODULE MCPrismQueue -----------------------------
(* Instances of PrismQueue for TLC. *)
EXTENDS PrismQueue

CONSTANTS a1, a2, t1, t2, w1, w2, d1, s1, s2

OneAssembly == [a \in {a1} |-> {t1, t2}]
OneTrait == [a \in {a1} |-> {t1}]
SharedTrait == [a \in {a1, a2} |-> {t1}]
NoScope == [w \in Workers |-> {}]
AllScope == [w \in Workers |-> Assemblies]
OneServer == [p \in Procs |-> s1]
OwnServer == [p \in Procs |-> IF p = w1 THEN s1 ELSE s2]
=============================================================================
