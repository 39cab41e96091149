---------------------------- MODULE PrismCircuit ----------------------------
(***************************************************************************)
(* The circuit breaker that every Prism verification call of one Lighthouse *)
(* process shares (server/services/prism-rosetta-client.ts): the queue      *)
(* cycle, the verify-assembly route and the startup activation all reach    *)
(* call_prism, which asks the breaker for admission, sends one HTTP request *)
(* under an abort timer, records the outcome and releases its reservation.  *)
(*                                                                          *)
(* Time is kept as countdowns: the code only ever reads open_until_ms as    *)
(* remaining_cooldown_ms, and an abort timer only as the time it has left.  *)
(***************************************************************************)
EXTENDS Integers

CONSTANTS
    Callers,    \* concurrent invocations of call_prism in one process
    Requests,   \* request ids; two callers may carry the same one
    None,       \* the null of half_open_probe_request_id
    Threshold,  \* prism_rosetta_circuit_failure_threshold()
    Cooldown,   \* prism_rosetta_circuit_cooldown_ms(), in ticks
    Timeout     \* prism_rosetta_request_timeout_ms(), in ticks

\* 1..10 failures, a cool-down of at least 15 minutes, a request timeout of at
\* most 30 seconds: the clamps of the three configuration readers.
ASSUME CircuitAssumption ==
    /\ None \notin Requests
    /\ Threshold \in Nat \ {0}
    /\ Cooldown \in Nat
    /\ Timeout \in Nat
    /\ Timeout < Cooldown

VARIABLES
    failures,   \* consecutive_failures, counted up to Threshold
    cooling,    \* remaining_cooldown_ms
    probe,      \* half_open_probe_request_id
    flying,     \* callers between admission and the end of their fetch
    carries,    \* the request id each caller carries
    left,       \* what is left of each caller's abort timer
    upstream    \* whether Prism answers: "up" or "down"

vars == <<failures, cooling, probe, flying, carries, left, upstream>>

\* get_prism_rosetta_circuit_snapshot(): the state is derived, never stored.
Open     == cooling > 0

\* Slip: strictly more failures than the threshold.
HalfOpenLate == cooling = 0 /\ failures > Threshold

HalfOpen == cooling = 0 /\ failures >= Threshold
Closed   == cooling = 0 /\ failures < Threshold

\* Slip: a half-open breaker admits requests whether or not a probe is out.
AllowsAnyone == Closed \/ HalfOpen

\* prism_rosetta_circuit_allows_request(): what the queue asks before a claim.
Allows == Closed \/ (HalfOpen /\ probe = None)

Init ==
    /\ failures = 0
    /\ cooling = 0
    /\ probe = None
    /\ flying = {}
    /\ carries \in [Callers -> Requests]
    /\ left = [c \in Callers |-> 0]
    /\ upstream = "up"

\* acquire_prism_rosetta_circuit_request() and the start of the fetch: a closed
\* breaker admits everyone, a half-open one admits one request as its probe.
Acquire(c, r) ==
    /\ c \notin flying
    /\ Allows
    /\ probe' = IF HalfOpen THEN r ELSE probe
    /\ flying' = flying \cup {c}
    /\ carries' = [carries EXCEPT ![c] = r]
    /\ left' = [left EXCEPT ![c] = Timeout]
    /\ UNCHANGED <<failures, cooling, upstream>>

\* Slip: the reservation is not given back.
NotReleased(c, p) == p

\* release_prism_rosetta_circuit_request(): the finally block of call_prism.
Released(c, p) == IF p = carries[c] THEN None ELSE p

\* Slip: a duration in the wrong unit.
CooldownInSeconds(n) == IF n >= Threshold THEN 1 ELSE cooling

\* What record_prism_rosetta_circuit_failure() leaves in open_until_ms.
CooldownAfter(n) == IF n >= Threshold THEN Cooldown ELSE cooling

\* A 2xx answer with a valid receipt: record_prism_rosetta_circuit_success()
\* resets the breaker whatever its state, then the reservation is released.
Succeed(c) ==
    /\ c \in flying
    /\ upstream = "up"
    /\ failures' = 0
    /\ cooling' = 0
    /\ probe' = Released(c, None)
    /\ flying' = flying \ {c}
    /\ UNCHANGED <<carries, left, upstream>>

\* A timeout, a network error, or an HTTP 408, 429 or 5xx.
Break(c) ==
    /\ c \in flying
    /\ upstream = "down"
    /\ failures' = IF failures < Threshold THEN failures + 1 ELSE failures
    /\ cooling' = CooldownAfter(failures + 1)
    /\ probe' = Released(c, None)
    /\ flying' = flying \ {c}
    /\ UNCHANGED <<carries, left, upstream>>

\* Every other failure (authentication, conflict, validation, an unreadable
\* receipt) leaves the breaker alone and only releases the reservation.
Reject(c) ==
    /\ c \in flying
    /\ upstream = "down"
    /\ probe' = Released(c, probe)
    /\ flying' = flying \ {c}
    /\ UNCHANGED <<failures, cooling, carries, left, upstream>>

\* Slip: Math.max(0, ...) is missing.
LessUnclamped(n) == n - 1

\* One tick off a remaining time that is never negative.
Less(n) == IF n > 0 THEN n - 1 ELSE 0

\* Time passes for the cool-down and for every abort timer. A timer that has
\* run out aborts its fetch, so time does not pass over a call with none left.
Tick ==
    /\ \A c \in flying : left[c] > 0
    /\ cooling' = Less(cooling)
    /\ left' = [c \in Callers |-> Less(left[c])]
    /\ UNCHANGED <<failures, probe, flying, carries, upstream>>

\* Prism goes down or comes back.
UpstreamChanges ==
    /\ upstream' = IF upstream = "up" THEN "down" ELSE "up"
    /\ UNCHANGED <<failures, cooling, probe, flying, carries, left>>

Finish(c) == Succeed(c) \/ Break(c) \/ Reject(c)

Next ==
    \/ \E c \in Callers, r \in Requests : Acquire(c, r)
    \/ \E c \in Callers : Finish(c)
    \/ Tick
    \/ UpstreamChanges

\* Every fetch ends (its abort timer fires), time passes, and the queue polls:
\* some caller keeps asking as long as the breaker admits requests.
Fairness ==
    /\ \A c \in Callers : WF_vars(Finish(c))
    /\ WF_vars(Tick)
    /\ WF_vars(\E c \in Callers, r \in Requests : Acquire(c, r))

Spec == Init /\ [][Next]_vars /\ Fairness
-----------------------------------------------------------------------------
TypeOK ==
    /\ failures \in 0..Threshold
    /\ cooling \in 0..Cooldown
    /\ probe \in Requests \cup {None}
    /\ flying \subseteq Callers
    /\ carries \in [Callers -> Requests]
    /\ left \in [Callers -> 0..Timeout]
    /\ upstream \in {"up", "down"}

\* While the breaker is half open, Prism sees one call at a time: the probe.
\* No call admitted before the breaker opened is still in flight by then, so
\* nobody else's release or late answer can end the probe's reservation.
ProbeIsAlone ==
    HalfOpen => \A c, d \in flying : c = d /\ probe = carries[c]

\* A reservation never outlives its call: a probe id with nobody flying it
\* would refuse every later request and hold the breaker half open for good.
ProbeIsFlown ==
    probe # None => HalfOpen /\ \E c \in flying : carries[c] = probe

\* A call in flight while the breaker is open runs out of time before the
\* cool-down does, and the breaker only cools down after Threshold failures.
OldCallsEndFirst ==
    Open => failures >= Threshold /\ \A c \in flying : left[c] < cooling

\* The inductive invariant behind the two properties above.
CircuitInv == TypeOK /\ OldCallsEndFirst /\ ProbeIsAlone /\ ProbeIsFlown

\* get_prism_rosetta_circuit_snapshot().circuit_state
CircuitState == IF Open THEN "open" ELSE IF HalfOpen THEN "half_open" ELSE "closed"

Breaker == INSTANCE PrismBreaker WITH mode <- CircuitState

\* What is derived from a deadline, a counter and a reservation behaves as a
\* breaker should: in particular the cool-down, which nobody ties to the calls
\* in flight, never ends over one of them.
ImplementsBreaker == Breaker!Spec

\* Whatever Prism does, a request is admitted again and again: the breaker has
\* no state that refuses everyone for ever.
NeverStuck == []<>Allows

\* Once Prism answers for good the breaker closes and never opens again.
ClosesAfterRecovery == <>[](upstream = "up") => <>[]Closed
=============================================================================
