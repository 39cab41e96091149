---------------------------- MODULE PrismBreaker ----------------------------
(***************************************************************************)
(* What a circuit breaker promises to those who call through it, with no    *)
(* counters, timers or reservations: it opens only when a call fails, half  *)
(* opens only over an empty wire, then lets one call through and leaves     *)
(* that state by the outcome of a call alone.                               *)
(***************************************************************************)
CONSTANT Callers

VARIABLES
    mode,       \* "closed", "open" or "half_open"
    flying      \* callers with a call on the wire

breaker == <<mode, flying>>

Init == mode = "closed" /\ flying = {}

Admit(c) ==
    /\ mode = "closed" \/ (mode = "half_open" /\ flying = {})
    /\ flying' = flying \cup {c}
    /\ UNCHANGED mode

Lands(c) == c \in flying /\ flying' = flying \ {c}

Succeed(c) == Lands(c) /\ mode' = "closed"

\* A failure may be one too few for a closed breaker, never for a half-open one.
Fail(c) == Lands(c) /\ (mode' = "open" \/ (mode = "closed" /\ UNCHANGED mode))

\* An answer that says nothing about the service.
Reject(c) == Lands(c) /\ UNCHANGED mode

CooldownOver ==
    /\ mode = "open" /\ flying = {}
    /\ mode' = "half_open"
    /\ UNCHANGED flying

\* The process dies, and its breaker and calls with it.
Restart == mode' = "closed" /\ flying' = {}

Next ==
    \/ \E c \in Callers : Admit(c) \/ Succeed(c) \/ Fail(c) \/ Reject(c)
    \/ CooldownOver \/ Restart

Spec == Init /\ [][Next]_breaker
=============================================================================
