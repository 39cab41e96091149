---------------------------- MODULE PrismLedger -----------------------------
(***************************************************************************)
(* What the Prism verification of Civic Genome assemblies promises, with no *)
(* queue, no processes, no failures and no retries: evidence is only ever   *)
(* added, in the order receipt, binding, run, completed row, and each level *)
(* rests on the one below it.                                               *)
(***************************************************************************)
CONSTANTS Assemblies, Traits, TraitsOf, None

Requests == {r \in Assemblies \X Traits : r[2] \in TraitsOf[r[1]]}

VARIABLES
    mirrored,   \* requests with a mirrored receipt
    bound,      \* the request bound to each trait, or None
    verified,   \* assemblies with a verification run
    closed      \* assemblies whose queue row is completed

ledger == <<mirrored, bound, verified, closed>>

Init ==
    /\ mirrored = {}
    /\ bound = [t \in Traits |-> None]
    /\ verified = {}
    /\ closed = {}

Mirror(r) ==
    /\ mirrored' = mirrored \cup {r}
    /\ UNCHANGED <<bound, verified, closed>>

\* A trait is bound once, and only to a receipt of its own.
Bind(a, t) ==
    /\ <<a, t>> \in mirrored
    /\ bound[t] = None
    /\ bound' = [bound EXCEPT ![t] = <<a, t>>]
    /\ UNCHANGED <<mirrored, verified, closed>>

\* A run needs every trait of its assembly.
Verify(a) ==
    /\ \A t \in TraitsOf[a] : bound[t] = <<a, t>>
    /\ verified' = verified \cup {a}
    /\ UNCHANGED <<mirrored, bound, closed>>

\* Rows close only behind runs; the reconciler may close several at once.
Close(done) ==
    /\ done \subseteq verified
    /\ closed' = closed \cup done
    /\ UNCHANGED <<mirrored, bound, verified>>

Next ==
    \/ \E r \in Requests : Mirror(r)
    \/ \E a \in Assemblies : Verify(a) \/ \E t \in TraitsOf[a] : Bind(a, t)
    \/ \E done \in SUBSET Assemblies : Close(done)

Spec == Init /\ [][Next]_ledger
=============================================================================
