--------------------------- MODULE GovernedLedger ---------------------------
(***************************************************************************)
(* What the governance log promises, with no transactions, locks or         *)
(* failures: a governed record changes together with one new entry that     *)
(* says what it has become, entries are numbered without gaps, and nothing  *)
(* is ever taken back.                                                      *)
(***************************************************************************)
EXTENDS Naturals

CONSTANTS Records, Values, Absent

VARIABLES
    state,      \* what each governed record is
    entries,    \* what the log tells: numbered changes
    height      \* how many there are

ledger == <<state, entries, height>>

Init ==
    /\ state \in [Records -> Values \cup {Absent}]
    /\ entries = {}
    /\ height = 0

\* A change of a record and its entry, in one step.
Change(r, v) ==
    /\ state' = [state EXCEPT ![r] = v]
    /\ entries' = entries \cup {[seqNo |-> height + 1, rec |-> r, newState |-> v]}
    /\ height' = height + 1

\* An event with no table of its own, such as an engine toggle, or the second
\* deletion of a row that another one has deleted.
Event(r) ==
    /\ entries' = entries \cup {[seqNo |-> height + 1, rec |-> r, newState |-> Absent]}
    /\ height' = height + 1
    /\ UNCHANGED state

Next ==
    \/ \E r \in Records, v \in Values \cup {Absent} : Change(r, v)
    \/ \E r \in Records \cup {Absent} : Event(r)

Spec == Init /\ [][Next]_ledger
=============================================================================
