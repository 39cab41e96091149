SPECIFICATION Spec
CONSTANTS
    Callers = {c1, c2}
    Requests = {r1, r2}
    None = none
    Threshold = 2
    Cooldown = 3
    Timeout = 2
INVARIANTS TypeOK ProbeIsAlone ProbeIsFlown OldCallsEndFirst
PROPERTIES ImplementsBreaker NeverStuck ClosesAfterRecovery
