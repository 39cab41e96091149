------------------------- MODULE PrismCircuitProofs -------------------------
(***************************************************************************)
(* Machine-checked proofs that the breaker keeps its half-open probe alone, *)
(* for every threshold, cool-down and timeout with Timeout < Cooldown.      *)
(***************************************************************************)
EXTENDS PrismCircuit, TLAPS

\* The initial breaker is closed with nobody in flight: CircuitInv holds.
LEMMA InitCircuit == Init => CircuitInv
<1>1. SUFFICES ASSUME Init PROVE CircuitInv
  OBVIOUS
<1>2. TypeOK
  BY <1>1, CircuitAssumption DEF Init, TypeOK
<1>3. OldCallsEndFirst /\ ProbeIsAlone /\ ProbeIsFlown
  BY <1>1 DEF Init, OldCallsEndFirst, ProbeIsAlone, ProbeIsFlown, Open
<1> QED
  BY <1>2, <1>3 DEF CircuitInv

\* Every step of the breaker, and stuttering, preserves CircuitInv.
LEMMA NextCircuit == CircuitInv /\ [Next]_vars => CircuitInv'
<1>1. SUFFICES ASSUME CircuitInv, [Next]_vars PROVE CircuitInv'
  OBVIOUS
<1> USE CircuitAssumption
<1>2. ASSUME NEW c \in Callers, NEW r \in Requests, Acquire(c, r)
      PROVE  CircuitInv'
  <2>1. TypeOK'
    BY <1>1, <1>2 DEF CircuitInv, TypeOK, Acquire
  <2>2. OldCallsEndFirst'
    BY <1>1, <1>2 DEF CircuitInv, OldCallsEndFirst, Acquire, Allows, Open,
                      Closed, HalfOpen, TypeOK
  <2>3. CASE HalfOpen
    <3>1. flying = {} /\ probe = None
      BY <1>1, <1>2, <2>3 DEF CircuitInv, TypeOK, ProbeIsAlone, Acquire,
                              Allows, Closed, HalfOpen
    <3>2. flying' = {c} /\ probe' = r /\ carries'[c] = r
      BY <1>1, <1>2, <2>3, <3>1 DEF Acquire, CircuitInv, TypeOK
    <3>3. HalfOpen'
      BY <1>2, <2>3 DEF Acquire, HalfOpen
    <3> QED
      BY <2>1, <2>2, <3>2, <3>3 DEF CircuitInv, ProbeIsAlone, ProbeIsFlown
  <2>4. CASE ~HalfOpen
    <3>1. ~HalfOpen' /\ probe = None /\ probe' = None
      BY <1>1, <1>2, <2>4 DEF Acquire, HalfOpen, CircuitInv, ProbeIsFlown
    <3> QED
      BY <2>1, <2>2, <3>1 DEF CircuitInv, ProbeIsAlone, ProbeIsFlown
  <2> QED
    BY <2>3, <2>4
<1>3. ASSUME NEW c \in Callers, Succeed(c)
      PROVE  CircuitInv'
  <2>1. TypeOK'
    BY <1>1, <1>3 DEF CircuitInv, TypeOK, Succeed, Released
  <2>2. ~Open' /\ ~HalfOpen' /\ probe' = None
    BY <1>3 DEF Succeed, Open, HalfOpen, Released
  <2> QED
    BY <2>1, <2>2 DEF CircuitInv, OldCallsEndFirst, ProbeIsAlone, ProbeIsFlown
<1>4. ASSUME NEW c \in Callers, Break(c)
      PROVE  CircuitInv'
  <2>1. TypeOK'
    BY <1>1, <1>4 DEF CircuitInv, TypeOK, Break, Released, CooldownAfter
  <2>2. probe' = None
    BY <1>4 DEF Break, Released
  <2>3. OldCallsEndFirst'
    BY <1>1, <1>4 DEF CircuitInv, TypeOK, OldCallsEndFirst, Break, Open,
                      CooldownAfter
  <2>4. ~HalfOpen'
    BY <1>1, <1>4 DEF CircuitInv, TypeOK, Break, HalfOpen, CooldownAfter
  <2> QED
    BY <2>1, <2>2, <2>3, <2>4 DEF CircuitInv, ProbeIsAlone, ProbeIsFlown
<1>5. ASSUME NEW c \in Callers, Reject(c)
      PROVE  CircuitInv'
  <2>1. TypeOK'
    BY <1>1, <1>5 DEF CircuitInv, TypeOK, Reject, Released
  <2>2. OldCallsEndFirst'
    BY <1>1, <1>5 DEF CircuitInv, OldCallsEndFirst, Reject, Open
  <2>3. CASE HalfOpen
    <3>1. flying' = {} /\ probe' = None
      BY <1>1, <1>5, <2>3 DEF CircuitInv, TypeOK, ProbeIsAlone, Reject,
                              Released
    <3> QED
      BY <2>1, <2>2, <3>1 DEF CircuitInv, ProbeIsAlone, ProbeIsFlown
  <2>4. CASE ~HalfOpen
    <3>1. ~HalfOpen' /\ probe' = None
      BY <1>1, <1>5, <2>4 DEF CircuitInv, ProbeIsFlown, Reject, Released,
                              HalfOpen
    <3> QED
      BY <2>1, <2>2, <3>1 DEF CircuitInv, ProbeIsAlone, ProbeIsFlown
  <2> QED
    BY <2>3, <2>4
<1>6. CASE Tick
  <2>1. TypeOK'
    BY <1>1, <1>6 DEF CircuitInv, TypeOK, Tick, Less
  <2>2. OldCallsEndFirst'
    BY <1>1, <1>6 DEF CircuitInv, TypeOK, OldCallsEndFirst, Tick, Less, Open
  <2>3. ProbeIsAlone' /\ ProbeIsFlown'
    <3>1. CASE Open
      <4>1. probe' = None
        BY <1>1, <1>6, <3>1 DEF CircuitInv, ProbeIsFlown, Tick, Less, Open, HalfOpen,
                                TypeOK
      <4>2. cooling' = 0 => flying' = {}
        BY <1>1, <1>6, <3>1 DEF CircuitInv, TypeOK, OldCallsEndFirst, Tick, Less, Open
      <4> QED
        BY <4>1, <4>2 DEF ProbeIsAlone, ProbeIsFlown, HalfOpen
    <3>2. CASE ~Open
      <4>1. HalfOpen' <=> HalfOpen
        BY <1>1, <1>6, <3>2 DEF CircuitInv, TypeOK, Tick, Less, Open, HalfOpen
      <4> QED
        BY <1>1, <1>6, <4>1 DEF CircuitInv, ProbeIsAlone, ProbeIsFlown, Tick, Less
    <3> QED
      BY <3>1, <3>2
  <2> QED
    BY <2>1, <2>2, <2>3 DEF CircuitInv
<1>7. CASE UpstreamChanges
  BY <1>1, <1>7 DEF CircuitInv, TypeOK, OldCallsEndFirst, ProbeIsAlone,
                    ProbeIsFlown, UpstreamChanges, Open, HalfOpen
<1>8. CASE UNCHANGED vars
  BY <1>1, <1>8 DEF CircuitInv, TypeOK, OldCallsEndFirst, ProbeIsAlone,
                    ProbeIsFlown, vars, Open, HalfOpen
<1> QED
  BY <1>1, <1>2, <1>3, <1>4, <1>5, <1>6, <1>7, <1>8 DEF Next, Finish

\* The breaker's inductive invariant: its types, the probe that is alone and is
\* in flight, and the old calls that end before the cool-down does.
THEOREM CircuitInvariant == Spec => []CircuitInv
<1>1. Init => CircuitInv
  BY InitCircuit
<1>2. CircuitInv /\ [Next]_vars => CircuitInv'
  BY NextCircuit
<1> QED
  BY <1>1, <1>2, PTL DEF Spec

\* acquire_prism_rosetta_circuit_request(): while the breaker is half open the
\* probe is the only call in flight, because a request times out before any
\* cool-down ends.
THEOREM ProbeAlone == Spec => []ProbeIsAlone
<1>1. CircuitInv => ProbeIsAlone
  BY DEF CircuitInv
<1> QED
  BY <1>1, CircuitInvariant, PTL

\* release_prism_rosetta_circuit_request(): no reservation is leaked.
THEOREM ProbeFlown == Spec => []ProbeIsFlown
<1>1. CircuitInv => ProbeIsFlown
  BY DEF CircuitInv
<1> QED
  BY <1>1, CircuitInvariant, PTL

\* record_prism_rosetta_circuit_failure(): every call that was let through before
\* the breaker opened has ended when its cool-down has.
THEOREM OldCallsEnd == Spec => []OldCallsEndFirst
<1>1. CircuitInv => OldCallsEndFirst
  BY DEF CircuitInv
<1> QED
  BY <1>1, CircuitInvariant, PTL

\* The breaker's counters, reservations and timers keep their types.
THEOREM CircuitTypes == Spec => []TypeOK
<1>1. CircuitInv => TypeOK
  BY DEF CircuitInv
<1> QED
  BY <1>1, CircuitInvariant, PTL
-----------------------------------------------------------------------------
(* The refinement *)

LEMMA BreakerInit == Init => Breaker!Init
  BY CircuitAssumption DEF Init, Breaker!Init, CircuitState, Open, HalfOpen

\* acquire_prism_rosetta_circuit_request(): a half-open breaker that is not
\* reserved has nobody on the wire, so the probe is let out alone.
LEMMA AcquireAdmits ==
    ASSUME CircuitInv, NEW c \in Callers, NEW r \in Requests, Acquire(c, r)
    PROVE  Breaker!Admit(c)
<1>1. UNCHANGED CircuitState
  BY DEF Acquire, CircuitState, Open, HalfOpen
<1>2. HalfOpen => flying = {}
  BY CircuitAssumption DEF CircuitInv, TypeOK, ProbeIsAlone, Acquire, Allows, Closed, HalfOpen
<1>3. CircuitState \in {"closed", "half_open"}
  BY DEF Acquire, Allows, Closed, HalfOpen, Open, CircuitState
<1> QED
  BY <1>1, <1>2, <1>3 DEF Breaker!Admit, Acquire, CircuitState

\* record_prism_rosetta_circuit_failure() opens a breaker that has cooled down,
\* and a closed one at the threshold.
LEMMA BreakFails ==
    ASSUME CircuitInv, NEW c \in Callers, Break(c)
    PROVE  Breaker!Fail(c)
<1> USE CircuitAssumption
<1>1. CASE failures + 1 >= Threshold
  <2>1. Open'
    BY <1>1 DEF Break, CooldownAfter, Open
  <2> QED
    BY <2>1 DEF Break, CircuitState, Breaker!Fail, Breaker!Lands
<1>2. CASE failures + 1 < Threshold
  <2>1. ~Open /\ ~Open' /\ ~HalfOpen /\ ~HalfOpen'
    BY <1>2 DEF CircuitInv, TypeOK, OldCallsEndFirst, Break, CooldownAfter, Open, HalfOpen
  <2> QED
    BY <2>1 DEF Break, CircuitState, Breaker!Fail, Breaker!Lands
<1> QED
  BY <1>1, <1>2 DEF CircuitInv, TypeOK

\* The cool-down ends over an empty wire: the calls from before it have timed out.
LEMMA TickCools ==
    ASSUME CircuitInv, Tick
    PROVE  Breaker!CooldownOver \/ UNCHANGED <<CircuitState, flying>>
<1> USE CircuitAssumption
<1>1. CASE Open /\ ~Open'
  <2>1. flying = {} /\ HalfOpen'
    BY <1>1 DEF CircuitInv, TypeOK, OldCallsEndFirst, Tick, Less, Open, HalfOpen
  <2> QED
    BY <1>1, <2>1 DEF Breaker!CooldownOver, CircuitState, Tick
<1>2. CASE Open /\ Open'
  BY <1>2 DEF CircuitState, Tick
<1>3. CASE ~Open
  <2>1. ~Open' /\ (HalfOpen' <=> HalfOpen)
    BY <1>3 DEF CircuitInv, TypeOK, Tick, Less, Open, HalfOpen
  <2> QED
    BY <1>3, <2>1 DEF CircuitState, Tick
<1> QED
  BY <1>1, <1>2, <1>3

LEMMA BreakerNext == CircuitInv /\ [Next]_vars => [Breaker!Next]_(Breaker!breaker)
<1> SUFFICES ASSUME CircuitInv, [Next]_vars
             PROVE  Breaker!Next \/ UNCHANGED <<CircuitState, flying>>
  BY DEF Breaker!breaker
<1>1. ASSUME NEW c \in Callers, NEW r \in Requests, Acquire(c, r)
      PROVE  Breaker!Next
  BY <1>1, AcquireAdmits DEF Breaker!Next
<1>2. ASSUME NEW c \in Callers, Finish(c)
      PROVE  Breaker!Next
  <2>1. CASE Succeed(c)
    <3>1. ~Open' /\ ~HalfOpen'
      BY <2>1, CircuitAssumption DEF Succeed, Open, HalfOpen
    <3> QED
      BY <2>1, <3>1 DEF Succeed, CircuitState, Breaker!Next, Breaker!Succeed, Breaker!Lands
  <2>2. CASE Break(c)
    BY <2>2, BreakFails DEF Breaker!Next
  <2>3. CASE Reject(c)
    BY <2>3 DEF Reject, CircuitState, Open, HalfOpen, Breaker!Next, Breaker!Reject, Breaker!Lands
  <2> QED
    BY <1>2, <2>1, <2>2, <2>3 DEF Finish
<1>3. CASE Tick
  BY <1>3, TickCools DEF Breaker!Next
<1>4. CASE UpstreamChanges \/ UNCHANGED vars
  BY <1>4 DEF UpstreamChanges, vars, CircuitState, Open, HalfOpen
<1> QED
  BY <1>1, <1>2, <1>3, <1>4 DEF Next

\* The state that prism-rosetta-client.ts derives from a deadline, a counter and
\* a reservation implements PrismBreaker, for every number of callers and every
\* request timeout shorter than the cool-down.
THEOREM CircuitImplementsBreaker == Spec => ImplementsBreaker
  BY BreakerInit, BreakerNext, CircuitInvariant, PTL DEF Spec, ImplementsBreaker, Breaker!Spec
=============================================================================
