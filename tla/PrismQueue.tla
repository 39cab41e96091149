----------------------------- MODULE PrismQueue -----------------------------
(***************************************************************************)
(* The Prism Rosetta verification queue of Lighthouse.  An assembly of      *)
(* Civic Genome traits is verified by sending one request per trait to the  *)
(* Prism service, mirroring each receipt, binding it to its trait, and      *)
(* sealing the assembly with a verification run.  Queue workers lease rows  *)
(* of civic_genome_prism_verification_queue; the verify-assembly route and  *)
(* the startup activation ("direct" processes) run the same activation with *)
(* no row and no budget.  Every SQL statement is one atomic step, and any   *)
(* other process may run between two statements.  The processes of one      *)
(* server share its circuit breaker and die together when it restarts.      *)
(*                                                                          *)
(* Wall-clock comparisons are abstracted to what they decide: a row is due  *)
(* or not, its lease has run out or not, a breaker has cooled down or not.  *)
(* An input hash is the number of the document context it was computed      *)
(* from; a request id is its assembly and trait.                            *)
(***************************************************************************)
EXTENDS Naturals, FiniteSets

CONSTANTS
    Assemblies, Traits,
    TraitsOf,       \* the traits of each assembly (re-assemblies may share)
    Workers,        \* processes that run the queue cycle
    Direct,         \* processes that only activate an assembly on request
    Servers,        \* Node processes, each with a breaker of its own
    ServerOf,       \* where each worker and each direct activation runs
    Unscoped,       \* workers with neither a canary id nor batch ids
    Scope,          \* the rows every other worker was given
    MaxNew,         \* PRISM_ROSETTA_QUEUE_MAX_NEW_SUBMISSIONS
    UnknownLimit,   \* UNKNOWN_FAILURE_LIMIT
    GateOpen,       \* assert_genome_rosetta_publication_admitted() returns
    FaultClasses,   \* the failures the environment may inject
    MaxFaults, MaxRestarts, MaxContext,   \* bounds on the environment
    None

Procs == Workers \cup Direct
Requests == {r \in Assemblies \X Traits : r[2] \in TraitsOf[r[1]]}
Hashes == 0..MaxContext

ASSUME QueueAssumption ==
    /\ IsFiniteSet(Traits)
    /\ TraitsOf \in [Assemblies -> (SUBSET Traits) \ {{}}]
    /\ Unscoped \subseteq Workers
    /\ Scope \in [Workers -> SUBSET Assemblies]
    /\ Workers \cap Direct = {}
    /\ ServerOf \in [Procs -> Servers]
    /\ \A v, w \in Workers : ServerOf[v] = ServerOf[w] => v = w
    /\ MaxNew \in Nat /\ UnknownLimit \in Nat /\ MaxContext \in Nat
    /\ MaxFaults \in Nat /\ MaxRestarts \in Nat
    /\ GateOpen \in BOOLEAN
    /\ FaultClasses \subseteq {"transient", "terminal", "unknown"}
    /\ None \notin Assemblies \cup Traits \cup Procs \cup Requests \cup Nat

VARIABLES
    row,        \* the queue row of each assembly
    request,    \* lighthouse_prism_verification_requests: input hash or None
    bridge,     \* its bridge_state
    receipt,    \* lighthouse_prism_verification_receipts: input hash or None
    binding,    \* the request bound to each trait, or None
    sealed,     \* assemblies with a civic_genome_prism_verification_run
    issued,     \* receipts Prism has issued: input hash or None
    context,    \* version of the document context the requests embed
    at,         \* where each process stands in its cycle
    budget,     \* queue_remaining_new_submissions
    charged,    \* queue_submitted_request_ids
    retryable,  \* queue_retryable_submission_job_ids
    circuit,    \* each server's breaker (threshold one)
    faults, restarts

evidence == <<request, bridge, receipt, binding, sealed, issued>>
memory == <<budget, charged, retryable, circuit>>
vars == <<row, evidence, context, at, memory, faults, restarts>>

Idle == [pc |-> "idle", job |-> None, attempts |-> 0, count |-> 0,
         todo |-> {}, partial |-> FALSE, trait |-> None, hash |-> 0, blind |-> FALSE,
         err |-> "none", seen |-> 0]

Req(p) == <<at[p].job, at[p].trait>>

\* Slip: a trait counts as verified whichever assembly's request bound it.
BoundByAnyone(a) == {t \in TraitsOf[a] : binding[t] # None}

\* The traits whose binding carries the assembly's own request id.
Bound(a) == {t \in TraitsOf[a] : binding[t] = <<a, t>>}

Spend == faults < MaxFaults /\ faults' = faults + 1

AbsentRow == [state |-> "absent", due |-> TRUE, lockedBy |-> None,
              expired |-> FALSE, attempts |-> 0, count |-> 0]
EligibleRow == [AbsentRow EXCEPT !.state = "eligible"]

Init ==
    /\ row = [a \in Assemblies |-> AbsentRow]
    /\ request = [r \in Requests |-> None]
    /\ bridge = [r \in Requests |-> None]
    /\ receipt = [r \in Requests |-> None]
    /\ binding = [t \in Traits |-> None]
    /\ sealed = {}
    /\ issued = [r \in Requests |-> None]
    /\ context = 0
    /\ at = [p \in Procs |-> Idle]
    /\ budget = [w \in Workers |-> MaxNew]
    /\ charged = [w \in Workers |-> {}]
    /\ retryable = [w \in Workers |-> {}]
    /\ circuit = [s \in Servers |-> "closed"]
    /\ faults = 0
    /\ restarts = 0
-----------------------------------------------------------------------------
(* The queue table *)

\* The assembly trigger and the scope function insert an eligible row once.
Enqueue(a) ==
    /\ row[a].state = "absent"
    /\ row' = [row EXCEPT ![a] = EligibleRow]
    /\ UNCHANGED <<evidence, context, at, memory, faults, restarts>>

\* A lease is 60 minutes with no heartbeat: it may run out under a live worker.
LeaseExpires(a) ==
    /\ row[a].lockedBy # None /\ ~row[a].expired
    /\ row' = [row EXCEPT ![a].expired = TRUE]
    /\ UNCHANGED <<evidence, context, at, memory, faults, restarts>>

BecomesDue(a) ==
    /\ ~row[a].due
    /\ row' = [row EXCEPT ![a].due = TRUE]
    /\ UNCHANGED <<evidence, context, at, memory, faults, restarts>>

Sees(w, a) == w \in Unscoped \/ a \in Scope[w]

\* Slip: whatever is due and not completed.
ClaimableUnfinished(r) ==
    r.due /\ r.state \notin {"absent", "completed"} /\ (r.lockedBy = None \/ r.expired)

\* Slip: a row stuck under a dead worker's lease is never taken over.
ClaimableUnlocked(r) ==
    /\ r.due
    /\ r.state \in {"eligible", "degraded", "receipt_partial"}
    /\ r.lockedBy = None

Claimable(r) ==
    /\ r.due
    /\ \/ r.state \in {"eligible", "degraded", "receipt_partial"}
       \/ r.state = "submitted" /\ r.expired
    /\ r.lockedBy = None \/ r.expired

Affordable(w, a) == budget[w] > 0 \/ a \in retryable[w]

\* Slip: the final writes forget "and locked_by = $3".
HoldsAnything(w, a) == TRUE

\* The row a worker may rewrite at the end of a job: where locked_by = me.
Holds(w, a) == row[a].lockedBy = w

Unlocked(r) == [r EXCEPT !.lockedBy = None, !.expired = FALSE]

CompletedRow(a, r) ==
    [Unlocked(r) EXCEPT !.state = "completed", !.count = Cardinality(TraitsOf[a])]
-----------------------------------------------------------------------------
(* The queue cycle up to the claim *)

\* Slip: a full set of bindings is taken for a run.
DoneByBindings(w) == {a \in Assemblies : /\ Sees(w, a) /\ Bound(a) = TraitsOf[a]
                                         /\ row[a].state \notin {"absent", "completed"}}

\* Slip: only the rows whose completion write failed.
DoneSubmitted(w) == {a \in sealed : Sees(w, a) /\ row[a].state = "submitted"}

\* reconcile_completed_jobs(): close every row in scope whose run is complete,
\* whatever its state and whoever holds it.
Done(w) == {a \in sealed : Sees(w, a) /\ row[a].state \notin {"absent", "completed"}}

Reconcile(w) ==
    /\ at[w].pc = "idle"
    /\ Done(w) # {}
    /\ row' = [a \in Assemblies |->
                 IF a \in Done(w) THEN CompletedRow(a, row[a]) ELSE row[a]]
    /\ UNCHANGED <<evidence, context, at, memory, faults, restarts>>

\* enqueue_civic_genome_prism_v25_batch_v1(): an unscoped worker inserts the
\* rows that the trigger never saw.
Replenish(w) ==
    /\ at[w].pc = "idle"
    /\ w \in Unscoped
    /\ \E a \in Assemblies : row[a].state = "absent"
    /\ row' = [a \in Assemblies |->
                 IF row[a].state = "absent" THEN EligibleRow ELSE row[a]]
    /\ UNCHANGED <<evidence, context, at, memory, faults, restarts>>

\* Slip: a half-open breaker does not look for the call it let through.
AdmitsHalfOpen(s) == circuit[s] # "open"

\* prism_rosetta_circuit_allows_request(): a half-open breaker waits for the
\* one call it let through (PrismCircuit: no older call is left by then).
Admits(s) ==
    \/ circuit[s] = "closed"
    \/ /\ circuit[s] = "half_open"
       /\ \A p \in Procs : ServerOf[p] = s => at[p].pc # "wait"

\* claim_next_job(): one due, unleased, unsealed row becomes submitted.  The
\* answer may be lost after the update: then nobody works on the leased row.
Claim(w) ==
    /\ at[w].pc = "idle"
    /\ Admits(ServerOf[w])
    /\ \E a \in Assemblies \ sealed :
        /\ Sees(w, a) /\ Claimable(row[a]) /\ Affordable(w, a)
        /\ row' = [row EXCEPT ![a].state = "submitted", ![a].lockedBy = w,
                              ![a].expired = FALSE]
        /\ \/ /\ at' = [at EXCEPT ![w] = [Idle EXCEPT !.pc = "load", !.job = a,
                         !.attempts = row[a].attempts, !.count = row[a].count]]
              /\ UNCHANGED faults
           \/ Spend /\ UNCHANGED at
    /\ UNCHANGED <<evidence, context, memory, restarts>>

\* The verify-assembly route and the startup activation.
StartDirect(d, a) ==
    /\ at[d].pc = "idle"
    /\ at' = [at EXCEPT ![d] = [Idle EXCEPT !.pc = "load", !.job = a]]
    /\ UNCHANGED <<row, evidence, context, memory, faults, restarts>>
-----------------------------------------------------------------------------
(* activate_prism_for_rosetta_assembly() *)

\* An exception leaves the activation: a worker records it on its row, a
\* direct caller answers with an error.
Throw(p, class) ==
    at' = [at EXCEPT ![p] = IF p \in Workers
                            THEN [@ EXCEPT !.pc = "count", !.err = class]
                            ELSE Idle]

\* Slip: an exhausted batch is taken for a finished assembly.
AdvanceAnyway(p, todo, partial) ==
    at' = [at EXCEPT ![p].pc = IF todo = {} THEN "seal" ELSE "enrich",
                     ![p].todo = todo, ![p].partial = partial]

\* The next trait of the batch, the partial yield, or the run.
Advance(p, todo, partial) ==
    IF todo = {} /\ partial THEN Throw(p, "partial")
    ELSE at' = [at EXCEPT ![p].pc = IF todo = {} THEN "seal" ELSE "enrich",
                          ![p].todo = todo, ![p].partial = partial]

\* Slip: the batch is cut one request too late.
FreshAndOne(w) == budget[w] + 1

\* How many requests not yet charged may join the batch.
Fresh(w) == budget[w]

\* The pending traits split into those already charged, always retried, and
\* at most Fresh new ones.
Batch(p, pending, todo) ==
    IF p \in Direct THEN todo = pending
    ELSE LET prior == {t \in pending : <<at[p].job, t>> \in charged[p]}
             new == todo \ prior
         IN  /\ prior \subseteq todo
             /\ IF Fresh(p) < Cardinality(pending \ prior)
                THEN Cardinality(new) = Fresh(p)
                ELSE todo = pending

\* load_assembly, load_traits, load_existing_binding_receipts.
Load(p) ==
    /\ at[p].pc = "load"
    /\ LET pending == TraitsOf[at[p].job] \ Bound(at[p].job)
       IN  \E todo \in SUBSET pending :
             Batch(p, pending, todo) /\ Advance(p, todo, todo # pending)
    /\ UNCHANGED <<row, evidence, context, memory, faults, restarts>>

\* enrich_rosetta_binding_request(), and the snapshot that the statement of
\* record_request() takes.  The context may come from the process cache, so it is
\* any version so far.
Enrich(p) ==
    /\ at[p].pc = "enrich"
    /\ IF ~GateOpen
       THEN Throw(p, "unknown")
       ELSE \E t \in at[p].todo, h \in 0..context :
              at' = [at EXCEPT ![p].pc = "record", ![p].trait = t, ![p].hash = h,
                               ![p].blind = request[<<at[p].job, t>>] = None]
    /\ UNCHANGED <<row, evidence, context, memory, faults, restarts>>

\* Slip: the recorded request is used without comparing its input hash.
SameRequest(p) == TRUE

\* The statement returns what it inserted or else what its snapshot holds, and
\* the input hash it returns must be the one just computed.  A request that was
\* recorded while the statement ran is neither.
SameInput(p) ==
    \/ request[Req(p)] = None
    \/ ~at[p].blind /\ request[Req(p)] = at[p].hash

\* Its insert leaves a recorded request alone.
Recorded(r, h) ==
    /\ request' = IF request[r] = None THEN [request EXCEPT ![r] = h] ELSE request
    /\ bridge' = IF request[r] = None THEN [bridge EXCEPT ![r] = "pending"] ELSE bridge

\* record_request()
Record(p) ==
    /\ at[p].pc = "record"
    /\ Recorded(Req(p), at[p].hash)
    /\ IF SameInput(p)
       THEN at' = [at EXCEPT ![p].pc = "send", ![p].blind = FALSE]
       ELSE Throw(p, "conflict")
    /\ UNCHANGED <<row, receipt, binding, sealed, issued, context, memory,
                   faults, restarts>>

\* on_before_new_submission() throws when a new request finds no budget left.
Overdrawn(p) == p \in Workers /\ Req(p) \notin charged[p] /\ budget[p] = 0

\* Slip: a retry is charged again.
PriceOfEachCall(w) == 1

\* A worker pays once for a request, however often it has to send it.
Price(w) == IF Req(w) \in charged[w] THEN 0 ELSE 1

\* call_prism() up to the fetch: the breaker may refuse; otherwise a request not
\* charged before costs one submission, and running out counts as a failure.
Send(p) ==
    /\ at[p].pc = "send"
    /\ IF ~Admits(ServerOf[p]) \/ Overdrawn(p)
       THEN /\ at' = [at EXCEPT ![p].pc = "settle", ![p].err = "transient"]
            /\ circuit' = IF Admits(ServerOf[p])
                          THEN [circuit EXCEPT ![ServerOf[p]] = "open"] ELSE circuit
            /\ UNCHANGED <<budget, charged, retryable>>
       ELSE /\ at' = [at EXCEPT ![p].pc = "wait"]
            /\ budget' = [w \in Workers |-> IF w = p THEN budget[w] - Price(w)
                                            ELSE budget[w]]
            /\ charged' = [w \in Workers |-> IF w = p THEN charged[w] \cup {Req(w)}
                                             ELSE charged[w]]
            /\ retryable' = [w \in Workers |-> IF w = p THEN retryable[w] \cup {at[w].job}
                                               ELSE retryable[w]]
            /\ UNCHANGED circuit
    /\ UNCHANGED <<row, evidence, context, faults, restarts>>

\* An authentication failure is retried like a transient one.
Injected(class) ==
    (IF class = "authentication" THEN "transient" ELSE class) \in FaultClasses

\* call_prism() before it asks the breaker: the bridge secret is missing, or the
\* request is above the size limit.
Unready(p) ==
    /\ at[p].pc = "send"
    /\ Spend
    /\ \E class \in {"authentication", "terminal"} :
        Injected(class) /\ at' = [at EXCEPT ![p].pc = "settle", ![p].err = class]
    /\ UNCHANGED <<row, evidence, context, memory, restarts>>

\* Prism is idempotent per request id: the first copy of a request it handles
\* issues the receipt, and whatever becomes of the call, later copies reuse it.
Handle(p) ==
    /\ at[p].pc = "wait"
    /\ issued[Req(p)] = None
    /\ issued' = [issued EXCEPT ![Req(p)] = at[p].hash]
    /\ UNCHANGED <<row, request, bridge, receipt, binding, sealed, context, at,
                   memory, faults, restarts>>

\* A 2xx answer whose receipt passes validate_receipt_integrity.
ReplyOk(p) ==
    /\ at[p].pc = "wait"
    /\ issued[Req(p)] = at[p].hash
    /\ circuit' = [circuit EXCEPT ![ServerOf[p]] = "closed"]
    /\ at' = [at EXCEPT ![p].pc = "mirror"]
    /\ UNCHANGED <<row, evidence, context, budget, charged, retryable, faults, restarts>>

\* A failed call: timeout, network and 5xx open the breaker; an authentication
\* refusal, a 4xx or an unreadable receipt do not.
ReplyFailed(p) ==
    /\ at[p].pc = "wait"
    /\ Spend
    /\ \E class \in {"transient", "authentication", "terminal"} :
        /\ Injected(class)
        /\ at' = [at EXCEPT ![p].pc = "settle", ![p].err = class]
        /\ circuit' = IF class = "transient"
                      THEN [circuit EXCEPT ![ServerOf[p]] = "open"] ELSE circuit
    /\ UNCHANGED <<row, evidence, context, budget, charged, retryable, restarts>>

\* mirror_receipt(): insert once, read back and compare.
Mirror(p) ==
    /\ at[p].pc = "mirror"
    /\ receipt' = IF receipt[Req(p)] = None
                  THEN [receipt EXCEPT ![Req(p)] = at[p].hash] ELSE receipt
    /\ at' = [at EXCEPT ![p].pc = "confirm"]
    /\ UNCHANGED <<row, request, bridge, binding, sealed, issued, context,
                   memory, faults, restarts>>

\* The end of mirror_receipt(), and record_attempt() (an append-only log).
Confirm(p) ==
    /\ at[p].pc = "confirm"
    /\ bridge' = [bridge EXCEPT ![Req(p)] = "completed"]
    /\ at' = [at EXCEPT ![p].pc = "bind"]
    /\ UNCHANGED <<row, request, receipt, binding, sealed, issued, context,
                   memory, faults, restarts>>

\* Which state the catch block of submit_rosetta_prism_request() records.
BridgeState(class) ==
    IF class = "transient" THEN "degraded" ELSE "permanent_failure"

\* Slip: the failure is recorded whatever else arrived meanwhile.
AnyRequest(r) == TRUE

\* ... and only where the request has no mirrored receipt.
Unreceipted(r) == receipt[r] = None

FailRequest(p) ==
    bridge' = IF Unreceipted(Req(p))
              THEN [bridge EXCEPT ![Req(p)] = BridgeState(at[p].err)] ELSE bridge

Settle(p) ==
    /\ at[p].pc = "settle"
    /\ FailRequest(p)
    /\ Throw(p, at[p].err)
    /\ UNCHANGED <<row, request, receipt, binding, sealed, issued, context,
                   memory, faults, restarts>>

\* The insert of persist_binding() leaves an existing binding alone.
Attach(p) == binding' = IF binding[at[p].trait] = None
                        THEN [binding EXCEPT ![at[p].trait] = Req(p)] ELSE binding

\* persist_binding(): insert once, read back; another request's binding on the
\* trait is a conflict.
Bind(p) ==
    /\ at[p].pc = "bind"
    /\ Attach(p)
    /\ IF binding[at[p].trait] \in {None, Req(p)}
       THEN Advance(p, at[p].todo \ {at[p].trait}, at[p].partial)
       ELSE Throw(p, "terminal")
    /\ UNCHANGED <<row, request, bridge, receipt, sealed, issued, context,
                   memory, faults, restarts>>

\* persist_run(): insert once; a replay reads back the same manifest.
Seal(p) ==
    /\ at[p].pc = "seal"
    /\ sealed' = sealed \cup {at[p].job}
    /\ at' = [at EXCEPT ![p] = IF p \in Workers
                               THEN [@ EXCEPT !.pc = "mark"] ELSE Idle]
    /\ UNCHANGED <<row, request, bridge, receipt, binding, issued, context,
                   memory, faults, restarts>>
-----------------------------------------------------------------------------
(* The end of a worker's job *)

\* mark_job_completed()
MarkedRow(a, r) == [CompletedRow(a, r) EXCEPT !.attempts = @ + 1]

Mark(w) ==
    /\ at[w].pc = "mark"
    /\ LET a == at[w].job
       IN  /\ row' = IF Holds(w, a) THEN [row EXCEPT ![a] = MarkedRow(a, @)] ELSE row
           /\ retryable' = [retryable EXCEPT ![w] = @ \ {a}]
    /\ at' = [at EXCEPT ![w] = Idle]
    /\ UNCHANGED <<evidence, context, budget, charged, circuit, faults, restarts>>

\* Slip: the unknown-failure limit is applied to every class.
TerminalByCount(class, prior) ==
    class \in {"conflict", "terminal"} \/ prior + 1 >= UnknownLimit

\* classify_prism_queue_failure(): whether the failure ends the row.
Terminal(class, prior) ==
    \/ class \in {"conflict", "terminal"}
    \/ class = "unknown" /\ prior + 1 >= UnknownLimit

FailedState(class, prior, seen) ==
    IF Terminal(class, prior) THEN "permanent_failure"
    ELSE IF class = "partial" \/ seen > 0 THEN "receipt_partial" ELSE "degraded"

\* Slip: mirrored receipts are counted instead of bindings.
ObservedReceipts(a) == Cardinality({t \in TraitsOf[a] : receipt[<<a, t>>] # None})

\* observed_receipt_count(): the bindings of the job's assembly.
Observed(a) == Cardinality(Bound(a))

\* fail_job_for_processing_error() up to its write: the receipts counted now,
\* or the claim's count when that read fails.
Count(w) ==
    /\ at[w].pc = "count"
    /\ \/ at' = [at EXCEPT ![w].pc = "fail",
                           ![w].seen = Observed(at[w].job)]
          /\ UNCHANGED faults
       \/ at' = [at EXCEPT ![w].pc = "fail", ![w].seen = at[w].count]
          /\ Spend
    /\ retryable' =
         IF Terminal(at[w].err, at[w].attempts) \/ at[w].err = "partial"
         THEN [retryable EXCEPT ![w] = @ \ {at[w].job}] ELSE retryable
    /\ UNCHANGED <<row, evidence, context, budget, charged, circuit, restarts>>

\* mark_job_failed(): next_attempt_at moves into the future unless terminal.
FailedRow(j, r) ==
    LET new == FailedState(j.err, j.attempts, j.seen)
    IN  [Unlocked(r) EXCEPT !.state = new, !.count = j.seen, !.attempts = @ + 1,
                            !.due = IF new = "permanent_failure" THEN @ ELSE FALSE]

Fail(w) ==
    /\ at[w].pc = "fail"
    /\ LET a == at[w].job
       IN  row' = IF Holds(w, a) THEN [row EXCEPT ![a] = FailedRow(at[w], @)] ELSE row
    /\ at' = [at EXCEPT ![w] = Idle]
    /\ UNCHANGED <<evidence, context, memory, faults, restarts>>
-----------------------------------------------------------------------------
(* The environment *)

\* A read, a write or an outside lookup fails inside the activation; a write
\* that timed out on the client may have committed.
FaultActivation(p) ==
    /\ at[p].pc \in {"load", "enrich", "record", "bind"}
    /\ Spend
    /\ \E class \in FaultClasses : Throw(p, class)
    /\ \/ UNCHANGED <<request, bridge, binding>>
       \/ at[p].pc = "record" /\ Recorded(Req(p), at[p].hash) /\ UNCHANGED binding
       \/ at[p].pc = "bind" /\ Attach(p) /\ UNCHANGED <<request, bridge>>
    /\ UNCHANGED <<row, receipt, sealed, issued, context, memory, restarts>>

\* persist_run() times out on the client: the insert may have committed.
FaultSeal(p) ==
    /\ at[p].pc = "seal"
    /\ Spend
    /\ sealed' \in {sealed, sealed \cup {at[p].job}}
    /\ \E class \in FaultClasses \ {"terminal"} : Throw(p, class)
    /\ UNCHANGED <<row, request, bridge, receipt, binding, issued, context,
                   memory, restarts>>

\* A bookkeeping write of submit_rosetta_prism_request() fails, before or after
\* it committed.  Outside the catch block the error becomes "network"; inside it
\* the new error replaces the old one.
FaultSubmit(p) ==
    /\ at[p].pc \in {"mirror", "confirm", "settle"}
    /\ Spend
    /\ IF at[p].pc = "settle"
       THEN \E class \in FaultClasses \ {"terminal"} : Throw(p, class)
       ELSE at' = [at EXCEPT ![p].pc = "settle", ![p].err = "transient"]
    /\ \/ UNCHANGED bridge
       \/ at[p].pc = "confirm" /\ bridge' = [bridge EXCEPT ![Req(p)] = "completed"]
       \/ at[p].pc = "settle" /\ FailRequest(p)
    /\ UNCHANGED <<row, request, receipt, binding, sealed, issued, context,
                   memory, restarts>>

\* The final write of a job fails: the row stays submitted under the lease.  A
\* completed job is forgotten (completion_deferred).
FaultEnd(w) ==
    /\ at[w].pc \in {"mark", "fail"}
    /\ Spend
    /\ retryable' = IF at[w].pc = "mark"
                    THEN [retryable EXCEPT ![w] = @ \ {at[w].job}] ELSE retryable
    /\ at' = [at EXCEPT ![w] = Idle]
    /\ UNCHANGED <<row, evidence, context, budget, charged, circuit, restarts>>

\* A server dies or is redeployed wherever its processes stand; a request on the
\* wire may have reached Prism already.
Restart(s) ==
    /\ restarts < MaxRestarts
    /\ restarts' = restarts + 1
    /\ at' = [p \in Procs |-> IF ServerOf[p] = s THEN Idle ELSE at[p]]
    /\ budget' = [w \in Workers |-> IF ServerOf[w] = s THEN MaxNew ELSE budget[w]]
    /\ charged' = [w \in Workers |-> IF ServerOf[w] = s THEN {} ELSE charged[w]]
    /\ retryable' = [w \in Workers |-> IF ServerOf[w] = s THEN {} ELSE retryable[w]]
    /\ circuit' = [circuit EXCEPT ![s] = "closed"]
    /\ UNCHANGED <<row, evidence, context, faults>>

\* The cool-down outlasts every call in flight (PrismCircuit, OldCallsEndFirst).
CooldownOver(s) ==
    /\ circuit[s] = "open"
    /\ \A p \in Procs : ServerOf[p] = s => at[p].pc # "wait"
    /\ circuit' = [circuit EXCEPT ![s] = "half_open"]
    /\ UNCHANGED <<row, evidence, context, at, budget, charged, retryable,
                   faults, restarts>>

\* document_family or adopted changes on the bill version's document.
ContextChanges ==
    /\ context < MaxContext
    /\ context' = context + 1
    /\ UNCHANGED <<row, evidence, at, memory, faults, restarts>>
-----------------------------------------------------------------------------
Activate(p) ==
    \/ Load(p) \/ Enrich(p) \/ Record(p) \/ Send(p) \/ Unready(p)
    \/ Handle(p) \/ ReplyOk(p) \/ ReplyFailed(p) \/ Mirror(p) \/ Confirm(p) \/ Settle(p)
    \/ Bind(p) \/ Seal(p) \/ FaultActivation(p) \/ FaultSeal(p) \/ FaultSubmit(p)

EndJob(w) == Mark(w) \/ Count(w) \/ Fail(w) \/ FaultEnd(w)

Next ==
    \/ \E a \in Assemblies : Enqueue(a) \/ LeaseExpires(a) \/ BecomesDue(a)
    \/ \E w \in Workers : Reconcile(w) \/ Replenish(w) \/ Claim(w) \/ EndJob(w)
    \/ \E d \in Direct, a \in Assemblies : StartDirect(d, a)
    \/ \E p \in Procs : Activate(p)
    \/ \E s \in Servers : Restart(s) \/ CooldownOver(s)
    \/ ContextChanges

\* Timers fire (lease, retry, cool-down); a live worker takes its next step;
\* every cycle starts with the reconciliation once its interval is over.
Fairness ==
    /\ \A a \in Assemblies : WF_vars(LeaseExpires(a)) /\ WF_vars(BecomesDue(a))
    /\ \A s \in Servers : WF_vars(CooldownOver(s))
    /\ \A p \in Procs : WF_vars(Activate(p))
    /\ \A w \in Workers : /\ WF_vars(Claim(w)) /\ WF_vars(EndJob(w))
                          /\ SF_vars(Reconcile(w)) /\ SF_vars(Replenish(w))

Spec == Init /\ [][Next]_vars
FairSpec == Spec /\ Fairness
-----------------------------------------------------------------------------
States == {"absent", "eligible", "submitted", "receipt_partial", "completed",
           "degraded", "permanent_failure"}
Classes == {"none", "partial", "transient", "authentication", "conflict",
            "terminal", "unknown"}
Steps == {"idle", "load", "enrich", "record", "send", "wait", "mirror", "confirm", "settle",
          "bind", "seal", "mark", "count", "fail"}
Rows == [state : States, due : BOOLEAN, lockedBy : Workers \cup {None},
         expired : BOOLEAN, attempts : Nat, count : Nat]
Jobs == [pc : Steps, job : Assemblies \cup {None}, attempts : Nat, count : Nat,
         todo : SUBSET Traits, partial : BOOLEAN, trait : Traits \cup {None},
         hash : Hashes, blind : BOOLEAN, err : Classes, seen : Nat]

TypeOK ==
    /\ row \in [Assemblies -> Rows]
    /\ request \in [Requests -> Hashes \cup {None}]
    /\ bridge \in [Requests -> {None, "pending", "completed", "degraded",
                               "permanent_failure"}]
    /\ receipt \in [Requests -> Hashes \cup {None}]
    /\ binding \in [Traits -> Requests \cup {None}]
    /\ sealed \subseteq Assemblies
    /\ issued \in [Requests -> Hashes \cup {None}]
    /\ context \in Hashes
    /\ at \in [Procs -> Jobs]
    /\ budget \in [Workers -> 0..MaxNew]
    /\ charged \in [Workers -> SUBSET Requests]
    /\ retryable \in [Workers -> SUBSET Assemblies]
    /\ circuit \in [Servers -> {"closed", "half_open", "open"}]
    /\ faults \in 0..MaxFaults
    /\ restarts \in 0..MaxRestarts

\* A verification run stands for a whole assembly: every one of its traits is
\* bound by the assembly's own request, whatever failed or was retried on the
\* way and however small the batches were.
SealedIsBound == \A a \in sealed : \A t \in TraitsOf[a] : binding[t] = <<a, t>>

\* A binding always rests on a mirrored receipt, and the ledger never calls a
\* bound request anything but completed: a late failure of another process on
\* the same request does not take the completion back.
BoundIsReceipted ==
    \A t \in Traits : binding[t] # None =>
        receipt[binding[t]] # None /\ bridge[binding[t]] = "completed"

\* Three ledgers agree on what was verified: the request Lighthouse recorded,
\* the receipt Prism issued and the receipt Lighthouse mirrored carry one input
\* hash, even when the document context changed in between.
ReceiptMatchesRequest ==
    \A r \in Requests : receipt[r] # None =>
        receipt[r] = request[r] /\ receipt[r] = issued[r]

\* A completed row is backed by a run, counts every trait and holds no lease.
CompletedHasRun ==
    \A a \in Assemblies : row[a].state = "completed" =>
        /\ a \in sealed
        /\ row[a].count = Cardinality(TraitsOf[a])
        /\ row[a].lockedBy = None

\* The progress a row reports never exceeds the bindings that exist, although
\* it may be written long after it was counted and by a stale worker.
CountNeverOverstates ==
    \A a \in Assemblies : row[a].count <= Cardinality({t \in TraitsOf[a] : binding[t] = <<a, t>>})

\* The submission budget is exact: what a worker charged and what it has left
\* add up, and no request reaches the wire check without budget, so the check
\* (which would open the breaker) never throws.
BudgetIsExact ==
    /\ \A w \in Workers : Cardinality(charged[w]) + budget[w] = MaxNew
    /\ \A w \in Workers : at[w].pc = "send" => ~Overdrawn(w)

\* A row is never given up: what the code promises where every failure can
\* recover (prism-rosetta-queue-worker.ts:155-156).
StaysRetryable == \A a \in Assemblies : row[a].state # "permanent_failure"

\* A row is given up only for a failure that no retry can mend, or for an
\* unknown one once the row has used up its attempts: a lost lease, a partial
\* batch or an unavailable service never ends it, and no worker judges it by
\* the attempts it had when somebody else failed on it.
GivenUpForCause ==
    [][\A a \in Assemblies :
        row[a].state # "permanent_failure" /\ row'[a].state = "permanent_failure"
        => \E w \in Workers :
             /\ at[w].job = a /\ row[a].lockedBy = w
             /\ \/ at[w].err \in {"conflict", "terminal"}
                \/ at[w].err = "unknown" /\ row[a].attempts + 1 >= UnknownLimit]_vars

\* What request_id_conflict means: the request was recorded for another input.
\* A semantically identical request is to be reused, whoever recorded it.
ConflictMeansChange ==
    [][\A w \in Workers :
        at[w].err # "conflict" /\ at'[w].err = "conflict"
        => request[Req(w)] # at[w].hash]_vars

\* A lease that has not run out ends only by the hand of its holder at the end
\* of its job, or because the assembly is sealed: a worker that overran its own
\* lease cannot disturb the worker that took over.
LiveLeaseHonoured ==
    [][\A a \in Assemblies :
        LET w == row[a].lockedBy
        IN  w # None /\ ~row[a].expired /\ row'[a].lockedBy # w
            => a \in sealed \/ (at[w].job = a /\ at[w].pc \in {"mark", "fail"})]_vars

\* Completion is final, and a row that was given up is only ever revived by the
\* run of an assembly that somebody completed after all.
TerminalIsFinal ==
    [][\A a \in Assemblies :
        /\ row[a].state = "completed" => row'[a].state = "completed"
        /\ row[a].state = "permanent_failure" =>
             \/ row'[a].state = "permanent_failure"
             \/ row'[a].state = "completed" /\ a \in sealed]_vars

\* What the whole system adds up to, seen through the tables alone.
Ledger == INSTANCE PrismLedger WITH
    mirrored <- {r \in Requests : receipt[r] # None},
    bound <- binding,
    verified <- sealed,
    closed <- {a \in Assemblies : row[a].state = "completed"}

\* The queue, its workers and their failures implement the ledger: whatever is
\* interleaved, lost or repeated, every step adds evidence in the promised
\* order or leaves the evidence alone.
ImplementsLedger == Ledger!Spec

Breaker(s) == INSTANCE PrismBreaker WITH
    Callers <- {p \in Procs : ServerOf[p] = s},
    mode <- circuit[s],
    flying <- {p \in Procs : ServerOf[p] = s /\ at[p].pc = "wait"}

\* Every server's breaker keeps what PrismCircuit shows of one breaker, although
\* a worker and the routes of its server share it, retries and budgets run into
\* it and restarts reset it: a failure to count the budget never opens it.
ImplementsBreakers ==
    /\ \A s \in Servers : Breaker(s)!Init
    /\ [][\A s \in Servers : [Breaker(s)!Next]_(Breaker(s)!breaker)]_vars

\* The reconciler closes the row of every sealed assembly, also when the worker
\* died or failed before it could, or the row was leased or given up.
SealedRowsComplete ==
    \A a \in Assemblies : a \in sealed ~> row[a].state = "completed"

\* No row is processed for ever: once the faults stop, retries end it.
EveryRowSettles ==
    \A a \in Assemblies : <>(row[a].state \in {"completed", "permanent_failure"})
=============================================================================
