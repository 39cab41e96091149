---------------------------- MODULE DocketLedger ----------------------------
(***************************************************************************)
(* What the docket activation queue promises, with no workers, leases or    *)
(* lost answers: what was observed of a bill is opened once and settled at  *)
(* most once, after a copy at least as new has been kept or enough failures *)
(* have been counted; and a kept copy is never replaced by an older one.    *)
(* Two fetches that overlap void what is said of the bill's copies.         *)
(***************************************************************************)
EXTENDS Integers

CONSTANTS Bills, MaxVersion, UnknownLimit

Generations == Bills \X (0..MaxVersion)

VARIABLES
    state,      \* "absent", "open" or how the generation was settled
    kept,       \* version of the copy kept of a bill: -1 none, 0 the archive's
    failed,     \* failures that count, by generation
    overlapped  \* bills that two fetches have overlapped for

docket == <<state, kept, failed, overlapped>>

Init ==
    /\ state = [g \in Generations |-> "absent"]
    /\ kept = [b \in Bills |-> -1]
    /\ failed = [g \in Generations |-> 0]
    /\ overlapped = [b \in Bills |-> FALSE]

Open(g) ==
    /\ state[g] = "absent"
    /\ state' = [state EXCEPT ![g] = "open"]

Observe(b, v) == Open(<<b, v>>) /\ UNCHANGED <<kept, failed, overlapped>>

\* The archive's copy is kept where there is none; not all of them are opened.
Import(b) ==
    /\ kept[b] = -1
    /\ kept' = [kept EXCEPT ![b] = 0]
    /\ Open(<<b, 0>>) \/ UNCHANGED state
    /\ UNCHANGED <<failed, overlapped>>

Keep(b, v) ==
    /\ kept[b] <= v \/ overlapped[b]
    /\ kept' = [kept EXCEPT ![b] = v]
    /\ UNCHANGED <<state, failed, overlapped>>

Overlap(b) ==
    /\ overlapped' = [overlapped EXCEPT ![b] = TRUE]
    /\ UNCHANGED <<state, kept, failed>>

\* Some of the open ones are settled, all of them the same way.
Settle(gens, how) ==
    /\ \A g \in gens : g[2] <= kept[g[1]] \/ overlapped[g[1]]
    /\ state' = [g \in Generations |-> IF g \in gens THEN how ELSE state[g]]
    /\ UNCHANGED <<kept, failed, overlapped>>

\* A failure is counted, and may be the one too many; one that no retry can
\* mend counts for all of them.
Fail(g, n) ==
    /\ failed' = [failed EXCEPT ![g] = @ + n]
    /\ \/ UNCHANGED state
       \/ /\ state[g] = "open" /\ failed[g] + n >= UnknownLimit
          /\ state' = [state EXCEPT ![g] = "permanent_failure"]
    /\ UNCHANGED <<kept, overlapped>>

Next ==
    \/ \E b \in Bills : Import(b) \/ Overlap(b)
    \/ \E b \in Bills, v \in 1..MaxVersion : Observe(b, v) \/ Keep(b, v)
    \/ \E how \in {"completed", "source_unavailable"} :
          \E gens \in SUBSET {g \in Generations : state[g] = "open"} : Settle(gens, how)
    \/ \E g \in Generations, n \in {1, UnknownLimit} : Fail(g, n)

Spec == Init /\ [][Next]_docket
=============================================================================
