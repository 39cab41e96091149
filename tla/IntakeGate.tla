----------------------------- MODULE IntakeGate -----------------------------
(***************************************************************************)
(* What readers of a live-upload intake session see, with no documents,     *)
(* leases, executions or failures.  A projection is published only when     *)
(* every layer run it needs, computed from the evidence of the session as   *)
(* it is now, is sealed; and a change of the evidence withdraws it, with    *)
(* one exception: nobody notices when the last source goes (Forget).        *)
(***************************************************************************)
CONSTANTS Bytes, Params, Contexts

\* The layers an analysis seals, one per kind of input.
Plan(sources, p, c) ==
    {[layer |-> "stabilization", sources |-> {}, params |-> {p}, context |-> {c}],
     [layer |-> "chronology", sources |-> sources, params |-> {}, context |-> {}],
     [layer |-> "rights_and_duties_matrix", sources |-> sources, params |-> {p},
      context |-> {}]}
    \cup {[layer |-> "evidence_preservation", sources |-> {b}, params |-> {p},
           context |-> {}] : b \in sources}

VARIABLES evidence, context, sealed, published

gate == <<evidence, context, sealed, published>>

Init ==
    /\ evidence = {}
    /\ context \in Contexts
    /\ sealed = {}
    /\ published = FALSE

Change ==
    /\ evidence' \in SUBSET Bytes
    /\ context' \in Contexts
    /\ published' = FALSE
    /\ UNCHANGED sealed

Forget ==
    /\ \E b \in Bytes : evidence = {b}
    /\ evidence' = {}
    /\ UNCHANGED <<context, sealed, published>>

Seal ==
    /\ \E s \in SUBSET Bytes, p \in Params, c \in Contexts :
         \E step \in Plan(s, p, c) : sealed' = sealed \cup {step}
    /\ UNCHANGED <<evidence, context, published>>

\* Once the last source has been forgotten, so has what it was.
Publish ==
    /\ \E s \in (SUBSET Bytes) \ {{}}, p \in Params :
         evidence \in {s, {}} /\ Plan(s, p, context) \subseteq sealed
    /\ published' = TRUE
    /\ UNCHANGED <<evidence, context, sealed>>

Next == Change \/ Forget \/ Seal \/ Publish

Spec == Init /\ [][Next]_gate
=============================================================================
