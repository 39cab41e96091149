# Luminari / Lighthouse: a TLA+ verification of its queues, chains and executions

Lighthouse is the server of this repository (`server/`): a Node process (or several,
one per runtime role) over PostgreSQL.  It takes legislative bills apart, has every
extracted claim verified by an outside service, analyses the documents of user cases,
and logs every change of its own rules.  This project models the four parts of it
whose correctness rests on leases, retries, locks and several writers:

* the **Prism Rosetta pipeline**: an *assembly* is one extraction of a bill's
  *traits*, and every trait is verified by the outside service Prism;
* the **Universal Intake Spine**: the layered analysis of a case's documents, under a
  lease, with a chain of receipts;
* the **governance log**: a hash-chained log of every governed write;
* the **docket activation queue**: it turns observed bills into fetched, registered
  ones.

Paths below are relative to the repository root; in `PROJECT.json` they start with
`src/`.

## 1. Inventory

| Component | Code | State | Operations | Status |
|---|---|---|---|---|
| Prism queue worker | `server/services/prism-rosetta-queue-worker.ts`, `…-queue-selection.ts` | rows of `civic_genome_prism_verification_queue`; in memory: remaining budget, charged request ids, retryable jobs | reconcile, replenish, claim; activate, mark completed, mark failed | modelled (`PrismQueue`) |
| Prism activation | `server/services/prism-rosetta-activation.ts`, `…-startup-activation.ts` | `civic_genome_prism_verification_binding`, `…_run` | load, batch, submit, bind, seal | modelled (`PrismQueue`) |
| Prism client | `server/services/prism-rosetta-client.ts` | `lighthouse_prism_verification_requests`, `…_receipts`, attempts log; in memory: the breaker | record, call, mirror, record failure; acquire, release, open, close | modelled (`PrismQueue`, breaker in full in `PrismCircuit`) |
| Prism context, tables, routes | `…-structural-context.ts`, `supabase/migrations/…`, `server/routes/prism-verification-router.ts` | document context, process cache, triggers | gate, enrich, enqueue, replenish, verify-assembly | partly |
| Intake spine | `server/intake-spine-orchestrator.ts`, `…-case-layer-reader.ts`, uploads in `server/upload-route.ts`, `server/declared-intake-context.ts` and `server/db-legacy.ts`, SQL functions and triggers in `supabase/migrations/` | `documents`, `intake_artifacts`, `intake_sessions`, `intake_spine_execution_leases`, `intake_layer_runs` | upload, replace, resolve, delete, declare; lease, read, seal layers, complete, release; read the projection | partly (`IntakeSpine`) |
| Governance log | `server/governance-log.ts`, `server/governance-hooks.ts` | governed tables, `governance_log`, `governance_snapshots` | governed update, create, delete, event; append, verify, snapshot | partly (`GovernanceLog`) |
| Docket activation queue | `server/docket-jurisdiction-activation-queue-worker.ts`, `docket-bill-detail-acceptance.ts`, `server/routes/docket.ts`, triggers in `supabase/migrations/` | `docket_bill_processing_queue`, `docket_bill_detail_cache`, cached master list | observe, import, visit; claim with supersession, fetch, cache, register, finish, fail | partly (`DocketQueue`) |
| Pool lease guard | `server/database-pool-lease-guard.ts` | leases of pooled connections | checkout, release, expiry, removal | not modelled |
| Base verification bridge, problem intake, LegiScan budget, corpus import, atomic corpus pass, read-through cache, transaction wrapper, readiness gate | see `PROJECT.json` | | | not modelled |
| Legislative version queue | `server/civic-genome-legislative-version-queue-worker.ts` | | retired: returns before it claims | not modelled |
| HTTP shell, React client, schemas, seeds | | | wiring, user interface, data | not modelled |

How they interact.  The four parts share the database server and processes but no
table: each is modelled by itself.  Inside a part everything interacts through
tables, and through the memory of one process:

* The Prism worker, the verify-assembly route and the startup activation all call
  `activate_prism_for_rosetta_assembly`.  They share the evidence tables with every
  other server, and the breaker with everything in their own process.  A server has
  at most one queue cycle at a time, any number of direct activations, and all of it
  dies together.
* Uploads and deletions reach the session of a case through triggers, in the user's
  own transaction, while an execution of the case works for minutes on what it read at
  its start; readers of the case look at the chain of layer runs, not at the execution.
* Every governed write and its log entry are one transaction; two of them meet at the
  governed row, at the tip of the log and at the unique index of its numbers.
* The master list's trigger, the archive import, the page of a bill and the workers of
  every process write the same rows and the same cached copy of a bill.

What is hard.  Hardly anything is a transaction longer than one statement, so any
other process may act between any two statements.  Leases (60 minutes, 120 seconds, 30
minutes) may run out under a live worker.  Workers die anywhere, and a statement that
times out on the client may have committed.  Inputs change while work is being done on
them.  Under READ COMMITTED a statement that waited goes on with what it chose before.
`PROJECT.json` lists each hazard at its line with the property that covers it.

What makes the components correct:

* *Prism evidence*: a run stands on a binding of its own assembly for every trait, a
  binding on a mirrored receipt, a receipt on the input that was recorded;
* *Prism rows and budget*: completed means verified, completion is final, a live lease
  is honoured, progress is never overstated, failures that pass never exhaust a row;
  the budget is exact and never found exhausted in the middle of a call;
* *breaker*: one probe at a time, none leaks, recovery always happens;
* *spine*: receipts of two executions never mix; complete means that every layer is
  sealed for the evidence and the declared context that are active now; a change of
  them withdraws what readers see; a lease is always freed;
* *governance*: the chain never forks; a governed write and its entry commit together
  or not at all; snapshots stay true;
* *docket*: settled generations stay settled, the cached bill is as new as what was
  settled, nothing is given up without cause, and the current version settles.

## 2. Modules

| Module | Content |
|---|---|
| `PrismCircuit` | the breaker with its failure count, cool-down and probe, and the abort timers of the calls it admits |
| `PrismQueue` | workers, direct activations, tables, budgets, leases, Prism, failures and restarts |
| `PrismBreaker` | abstract: a breaker without counters, deadlines or reservations |
| `PrismLedger` | abstract: receipts, bindings, runs and completed rows, with no processes |
| `IntakeSpine` | documents and triggers, the session, its lease, executions, the receipt chain, readers |
| `IntakeGate` | abstract: evidence, declared context, sealed layers, and a projection that is published only when they fit and withdrawn when they change, with one exception by name |
| `GovernanceLog` | governed transactions, their locks, the log, its snapshots |
| `GovernedLedger` | abstract: a write and its entry in one step |
| `DocketQueue` | observations, archive, page visits, claims, jobs, leases, failures |
| `DocketLedger` | abstract: observed generations, kept copies, counted failures, with no workers |
| `MCPrismCircuit`, `MCPrismQueue`, `MCIntakeSpine`, `MCGovernanceLog`, `MCDocketQueue` | instances for TLC |
| `PrismCircuitProofs` | the breaker's inductive invariant, `PrismCircuit` implements `PrismBreaker` |
| `PrismQueueProofs` | type correctness of the queue, the submission budget |
| `PrismEvidenceProofs` | the chain of evidence |
| `PrismRowProofs` | rows, leases, why a row is given up, the progress it reports |
| `PrismRefinementProofs` | `PrismQueue` implements `PrismLedger`, and `PrismBreaker` once per server |
| `IntakeSpineProofs` | types, the fence, the completion check, `IntakeSpine` implements `IntakeGate` |
| `GovernanceLogProofs` | the chain, snapshots, the states entries start from, `GovernanceLog` implements `GovernedLedger` |
| `DocketQueueProofs` | rows, jobs and cached copies stay sound, `DocketQueue` implements `DocketLedger` |

A definition under a comment that starts with *Slip* belongs to no specification: it is
a plausible bug in the definition that follows it, put in its place to see that a
property notices.

### PrismCircuit

`failures`, `cooling` and `probe` are `consecutive_failures`,
`remaining_cooldown_ms` and `half_open_probe_request_id`; the breaker's state is
derived from them, as in `get_prism_rosetta_circuit_snapshot`.  `Acquire`,
`Succeed`, `Break` and `Reject` are the ways through `call_prism`: each ends with the
`finally` block (`Released`).  `PRISM_MAX_ATTEMPTS` is one, so a call is one
request.  Time is a countdown (`Tick`), which cannot pass over a call whose abort
timer has run out.  `failures` is counted up to the threshold only: nothing in the
code distinguishes higher values.

### PrismQueue

A process is a program counter with what its stack holds (`at[p]`), each of its
steps one awaited statement:

| Action | Code |
|---|---|
| `Enqueue`, `Replenish` | the assembly trigger, `enqueue_civic_genome_prism_v25_batch_v1` |
| `Reconcile`, `Claim` | `reconcile_completed_jobs`, `claim_next_job` |
| `StartDirect` | `POST /rosetta/verify-assembly`, the startup activation |
| `Load` | `load_assembly`, `load_traits`, `load_existing_binding_receipts`, the batch |
| `Enrich`, `Record` | `enrich_rosetta_binding_request`, `record_request` |
| `Unready`, `Send`, `ReplyOk`, `ReplyFailed` | `call_prism` |
| `Handle` | Prism itself (external): idempotent per request id |
| `Mirror`, `Confirm`, `Settle` | `mirror_receipt`, its final update, the catch block of `submit_rosetta_prism_request` |
| `Bind`, `Seal` | `persist_binding`, `persist_run` |
| `Mark`, `Count`, `Fail` | `mark_job_completed`, `fail_job_for_processing_error`, `mark_job_failed` |
| `FaultActivation`, `FaultSeal`, `FaultSubmit`, `FaultEnd` | a statement of the group fails, before or after it committed |
| `Restart` | a server dies; memory is lost, tables stay |
| `LeaseExpires`, `BecomesDue`, `CooldownOver`, `ContextChanges` | clocks and the outside world |

Choices made:

* A request id is `<<assembly, trait>>`, since it hashes exactly these (with
  constants of the rule set).  An input hash is the version of the document context
  it was computed from; everything else that enters the hash is immutable.  The
  context may be cached, so `Enrich` may use any version so far.
* Each statement is one step, with one exception that matters: `record_request`
  inserts with ON CONFLICT DO NOTHING and reads back in the same statement.  Its
  snapshot is taken in `Enrich`, its insert happens in `Record`, and a row committed
  in between is in neither.  An insert and its read-back in a *later* statement are
  one step, because these tables are insert-once.
* The batch runs sequentially (`PRISM_CONCURRENCY` is one).
* The breaker has threshold one here, the default; that a half-open breaker only
  waits for its own probe is what `PrismCircuit` shows, and `CooldownOver` waits
  for older calls because `OldCallsEndFirst` holds there.  Both modules are proved to
  implement the one `PrismBreaker`, so the short breaker of `PrismQueue` allows
  nothing that the full one's abstraction does not.
* Error classes are what the classification distinguishes: `partial`, `transient`
  (with timeouts and network), `authentication`, `conflict`, `terminal`, `unknown`.
* A worker that restarts gets a new `queue_worker_id`.  The model reuses the slot's
  name: the old process is gone, so nobody can tell the difference.
* Left out: the branch for a wrong receipt count (trait sets are immutable), the
  `superseded` state (set by migrations only), the reconciler's limit of 100 rows, the
  attempts log, a 409 from Prism (the recorded hash is always the one sent:
  `ReceiptMatchesRequest`).

### IntakeSpine

| Action | Code |
|---|---|
| `StoreUpload`, `CreateDocument` | the upload route's look-up by hash and its file write; `createDocument` with the binding and invalidation triggers |
| `ConfirmDeclaration`, `WithdrawDeclaration` | `register_declared_intake_context_v1`, whose reply may be lost, and the compensation of a registration taken for failed |
| `Replace`, `SetResolution`, `Delete` | `createAndSupersedeDocumentAtomic`, `setDocumentResolution`, `hardDeleteDocument`, with their triggers |
| `Promote`, `Invalidate` | `promote_live_upload_intake_authority_v1`: it looks for a session that has a source artifact, then takes the completion back |
| `Acquire`, `Release`, `Heartbeat`, `Expire` | the lease: insert or take over when expired; the `finally` block; the renewal timer; 120 seconds without a renewal |
| `ReadSession`, `ReadSources` | the session row with its `xmin`, then the active artifacts |
| `Persist` | `register_intake_layer_execution_v4` (the fence) and v2 (a run already sealed for the same input is returned) |
| `Finalize` | `complete_intake_spine_execution_v1`: the lease, then the session's `xmin` |
| `Throw`, `Crash` | a layer that throws, a process that dies |

Choices made:

* `xmin` is a counter of the changes of the session row: only its equality matters.
* A lease has a token and is live or expired.  The expiry of a lease whose execution
  still runs is a fault (its heartbeat failed); of a gone holder's it is time.
* The fourteen layers are four *kinds*, one per kind of input: the parameters alone
  (stabilization), one artifact and the parameters (evidence preservation, one run per
  artifact), all artifacts (chronology), all artifacts and the parameters (the
  matrix).  Two layers with the same kind of input behave alike.  Stabilization also
  takes what the declared context says (`session.context`, the document that declared it
  last).  Withdrawing that document leaves the declaration in the session's metadata, in
  the code and in the model.
* The raw-intake layer also hashes the contents captured before its own in the same
  execution (`existing_hashes`).  They change nothing it returns, for an artifact's
  content is unique in its session; so where the model reuses a run, the code may seal an
  equal one anew.
* A document is `"active"`, `"set aside"` (*corrupted* and *excluded*, which the code
  treats alike), `"superseded"` or deleted.
* A content is an element of `Bytes`; its artifact keeps the first document that
  registered it (`Bind`).  Hence, as in the code, bytes uploaded again after a hard
  delete are an artifact of a deleted document and no evidence.  No line of the
  repository promises otherwise, so this is recorded here and not a property.
* *Published* is what readers take for it: the completion state, whatever evidence is
  left (`intake-case-layer-reader.ts:175`).  The compensation of a failed declaration
  deletes the artifact first and the document after it; if the artifact was the last, the
  trigger on the document finds no session to invalidate, and a complete session stays
  complete.  `IntakeGate` has an action of its own for that, `Forget`; section 3 says why
  it is a disagreement.  `CompletedReflectsEvidence` has nothing to compare with then.

### GovernanceLog

A transaction is a program counter with what its statements have read.  `Begin` is the
unlocked read of the current state, `Write` the governed statement, which waits for the
row's lock, `PickTip` and `LockTip` the two halves of `SELECT … ORDER BY seq_no DESC
LIMIT 1 FOR UPDATE` (the row is chosen in the statement's snapshot, then its lock is
awaited), `Insert` meets the unique index on `seq_no`, `Commit` publishes both, and
`Abort` may take the place of any statement.  `Snapshot` is
`createGovernanceSnapshot`.  A transaction writes one entry, so its id stands for the
entry's hash.  The comment in `governance-log.ts:222` ascribes the order of entries to
the row lock; a writer that waited goes on with an old tip, and what prevents the fork
is the unique index, which refuses it (`InsertAnyway` is the model without it).

### DocketQueue

| Action | Code |
|---|---|
| `ProviderChanges`, `Observe` | LegiScan (external); the refreshed master list and the trigger that enqueues what it shows |
| `Import` | an accepted bulk archive member and its trigger |
| `Visit`, `EndVisit` | `GET /bill/:id`: the fetch, then the store |
| `Start`, `LostClaim` | `claim_jobs`: one statement settles superseded archive rows, claims and leases; its answer may be lost |
| `ReadArchive`, `Fetch`, `Cache`, `Register` | `process_job`, one awaited step each |
| `Finish`, `Fail` | `mark_job_terminal`, `mark_job_failed` with `classify_docket_bill_activation_failure` |
| `Crash`, `LeaseEnds`, `RetryDue` | a process dies, 30 minutes pass, `next_attempt_at` arrives |

Choices made:

* Content is its version.  The provider's copy only grows; the archive's copy is
  version 0, older than anything observed.  (An archive newer than a cached master
  list is outside the model.)  An archive member without a chronology is cached but
  not activated (`held_chronology`): `Import` may or may not enqueue.
* The jobs of a cycle run concurrently in `Slots`; `cycle` is the set of jobs whose
  `Promise.all` is awaited.  When recording a failure throws, `Promise.all` rejects: the
  cycle is over, the next may begin, and the other jobs still run under the same
  worker id.
* Which free slots a claim uses is irrelevant and fixed by CHOOSE.
* A restarted worker has a new id: its rows are held by `Gone`.
* `misses` (failures that count) and `raced` (bills for which two fetches overlapped)
  are history variables; the code has no such state, and no action reads them.
* A bill has at most one page visit at a time.

## 3. Runs

Deadlock is checked for the breaker only: the other systems rightly come to rest when
everything has settled, the requests are used up and the bounded faults are spent.

| Run | Question | Instance |
|---|---|---|
| `prism_circuit` | does the breaker isolate its probe, always recover, and implement `PrismBreaker`? | 2 callers, 2 request ids (so two callers may carry the same one), threshold 2, cool-down 3 > timeout 2 |
| `queue_pair` | do two competing workers keep rows, leases, counts, budgets and evidence consistent, give up only for cause, and does each server have a `PrismBreaker`? | 2 servers, 1 assembly, 2 traits, budget 1 (so partial batches and retries happen), limit 2, 1 fault, 1 restart |
| `queue_routes` | does the evidence chain hold between a worker and the route, and are the ledger and the breaker they share implemented? | a worker and a route of one server, 2 assemblies sharing their only trait, budget 1, a transient fault, a context change |
| `queue_liveness` | do rows settle? | 2 workers, 1 assembly of 1 trait, 1 fault of any kind, 1 restart |
| `queue_closed_gate` | what does the closed gate do to rows? (violation) | no faults at all |
| `queue_record_race` | does a conflict mean a changed input? (violation) | a worker and a direct activation, no faults |
| `spine_race` | do receipts mix, does complete mean complete, and what withdraws a projection, while evidence changes? | 2 documents, 2 contents, 2 executions, 3 changes of the session, 1 fault |
| `spine_progress` | do executions settle and leases come free? | 1 document, 2 executions, 1 fault |
| `spine_reuse` | do readers see the evidence that is active? (violation) | 2 documents, 3 executions, no faults |
| `governance_writes` | does the chain stay whole, do writes and entries stay together, and was every previous state committed? | 3 transactions, 2 rows, 2 values, an abort anywhere, snapshots |
| `governance_history` | does each entry start from the state the last one left? (violation) | 3 transactions, 1 row |
| `docket_queue` | do rows stay settled, fresh and given up for cause, does the current version settle, and is `DocketLedger` implemented? | 1 bill, 2 processes (one archive-only) with 2 slots, batches of 2, limit 2, archive and 2 versions, 2 faults |

Bounds.  `MaxFaults`, `MaxRestarts`, `MaxContext` and `MaxVersion` bound the
environment (in the spine `MaxVersion` bounds the changes of the session row); the
numbers of executions and transactions bound themselves, each runs once.  Attempts need
no bound: they grow by one per job, and jobs end by faults.  Two processes are enough
for every hazard in the list: each is a race of one process with one other, or with its
own successor after a restart or a lease expiry; the log has three writers so that one
may wait for a tip while another commits and a third begins.  Two traits make an
assembly partial, two assemblies make a trait shared, two versions make a context or a
bill stale, two contents make evidence come and go, a limit of two makes the first
failure different from the last.  Two faults in the docket queue are what a lost claim
after a failed attempt, or a lost result after an overrun lease, takes.  Symmetry is
used for contents, documents and executions of `spine_race` and for the transactions and
values of the log, where no liveness is checked.  The theorems below lift the safety
properties to every size.

Fairness.  Each `FairSpec` says what its code's scheduling gives:

* Prism: weak fairness for the steps of a live process (every awaited statement and
  call has a timeout), for timers (lease, retry, cool-down) and for the claim (the poll
  timer).  Strong fairness for `Reconcile` and `Replenish`: they run at the start of each
  cycle once their interval is over, but a worker in the middle of a job is not at the
  start of a cycle, so they are enabled again and again rather than continuously.
  `EveryRowSettles` is stated for a budget that covers every request and an unscoped
  worker: with less budget the code stops on purpose until the next restart.
* Spine: a running execution takes its next step, users ask again, and the lease of a
  holder that is gone runs out.  No evidence has to arrive.
* Docket: the cycle runs on a timer, one of a process's jobs takes its next step, leases
  and retry delays pass, and the master list is refreshed (each weak fairness is over the
  variable its action always changes).  Visits and provider changes need not come.

Nothing is assumed of Prism, LegiScan's changes or failures: the bounded faults may
happen at any time or never.

### Five disagreements the runs show

* `queue_closed_gate`.  While the publication gate is closed, and at this commit
  it always is, every cycle's error is classified *unknown* and the fifth one
  makes the row `permanent_failure`.  The comment in
  `prism-rosetta-queue-worker.ts:155-156` wants the opposite for publication
  eligibility: "Keep queued work retryable without admitting it to Prism."  The
  other runs keep the gate open (`GateOpen = TRUE`), as the repository's own tests
  do.
* `queue_record_race`.  Two processes that record the *identical* request at once:
  the loser's statement returns no row, `undefined !== input_hash` holds, and the
  queue gives the row up for a `request_id_conflict`.  The reconciler revives it
  if the winner finishes the assembly.
* `spine_reuse`.  Evidence {A} is executed, then {A, B}, then B is deleted and {A} is
  executed again: its runs exist, so none is sealed anew, the session is complete, and
  readers, who take the *latest* sealed run of a layer, see that of {A, B}: a document
  that no longer exists is projected.
* `spine_race`, which passes.  A declaration fails to register (or its reply is lost)
  while an execution of the case is under way: the execution reads the declared document,
  `rollback_failed_declared_intake_document` deletes it with its artifact, and the
  session row does not change.  The execution finds the `xmin` it knows and completes the
  session of a document that is gone, and readers get its layers with
  `projection_current = true`.  `20260809051313_invalidate_intake_projection_on_document_delete.sql:1-4`
  wants the opposite: "so a completed session cannot continue projecting results derived
  from a document that no longer exists".  `KeepsPromise` passes because `IntakeGate`
  allows this one step by name (`Forget`: the *last* source goes and nothing else
  changes).  With `Forget` taken out of the gate TLC finds the promise broken with one
  document, one execution and no fault, after 12 states.  Naming it keeps the refinement
  for every other change: no other loss of evidence goes unnoticed.
* `governance_history`.  A governed write reads the current state without a lock.  Of
  two concurrent updates the second entry names a previous state that the row no
  longer had.  `KeepsLedger` is what does hold: rows, new states and the order of
  entries agree.

## 4. Proofs

All theorems hold for every value of the constants that satisfies the module's
assumption (`CircuitAssumption`, `QueueAssumption`, `SpineAssumption`,
`GovernanceAssumption`, `DocketAssumption`; TLC evaluates each in every run of its
module).

**Breaker.**  `CircuitInv` adds to the two probe properties that a call in flight
while the breaker is open has less time left than the cool-down
(`OldCallsEndFirst`).  Without it the probe properties are not inductive: an old
call could survive into the half-open state.  It is inductive because the timeout is
shorter than the cool-down and both count down together.
`CircuitInvariant`, `ProbeAlone`, `ProbeFlown`, `OldCallsEnd`,
`CircuitTypes`.

`CircuitImplementsBreaker`: under `CircuitInv` the state that
`get_prism_rosetta_circuit_snapshot` derives, with the calls in flight, is a
`PrismBreaker`.  The delicate steps are `Tick`, where the deadline passes and the
breaker half-opens (the invariant says that nobody is in flight then), and the end of a
call, where a reset of the counter and of the reservation may only close or open a
half-open breaker if that call was its probe.

**Prism types and budget.**  `TypeCorrect`, by `Typed`: what a process carries belongs
to the one assembly it works on (`JobsFine`).  `BudgetAddsUp`, by `Solvent`: the part of
a worker's batch that it has not paid for (`Unpaid`) never exceeds what it has left.
Every step keeps the batch or shortens it, cuts a new one to the budget, or pays for one
request of it, which takes one from both sides; at `send` the request is part of the
batch, so an unpaid one finds budget.

**Prism evidence.**  `EvidenceInv` strengthens the three evidence properties by
`Supported`: for each point of a process's way, what it has already written (at
`send` the request is recorded with its hash; at `mirror` Prism has issued that hash;
at `bind` the receipt is mirrored and the request completed; in a batch that was not
cut, every trait outside `todo` is bound).  Each step of a process shows its own
support; that no *other* process destroys it is `StaysSupported`, whose reason is
that tables only grow (`Grows`).  `EvidenceChain`, `ReceiptsAgree`,
`BindingsAreReceipted`, `EvidenceOnlyGrows`.

**Prism rows.**  `RowInv` adds completed rows to `EvidenceInv`; every action is shown to
be one of a few row steps.  `CompletedRests`, `LeaseHonoured`, `FinalStates`.
`GivenUpOnlyForCause` needs `AttemptsKnown`: a worker that still holds its row knows the
attempts the row has now.  `CountsAreReal` needs `CountsKnown`: what a process has
counted or claimed does not exceed the bindings of the assembly, and stays so because
bindings are never removed (`ObservedGrows`).

**Prism refinement.**  `QueueImplementsLedger`: under `RowInv` every step of the queue is
a step of `PrismLedger` or leaves its variables alone: `Mirror` maps to `Mirror`, `Bind`
(also a binding whose caller timed out) to `Bind`, `Seal` and `FaultSeal` to `Verify`,
`Mark` and `Reconcile` to `Close`.

`QueueImplementsBreakers`: for every server, the calls on the wire of its processes and
its circuit are a `PrismBreaker`; a restart is the only step that loses a call.  It needs
`Solvent` as well: a request that its budget did not cover would be thrown out of
`call_prism` after the breaker had admitted it, and the breaker would open without a call
having failed.

**Spine.**  `SpineInv` conjoins the types with `Fenced` (whoever sealed before the last
execution did no longer has the lease; this is what makes `RunsDoNotInterleave`
inductive, since only the lease holder seals), `IdleIsFresh` (an execution that has not
begun has sealed and leased nothing), `DoneIsSealed` and `SnapshotHolds` (an execution
whose version is still the session's knows its declared context and has read the active
evidence, of which there was some, or there is none any more).  The last two make
`Finalize` sound.  `Effect` says what any change of the evidence amounts to: a new row
version and no completion, or the same evidence, or the loss of the last source.
`SpineInvariant`, `ReceiptsDoNotMix`, `CompletionIsHonest`, `SpineTypes`, and
`SpineKeepsPromise`: the three cases of `Effect` are `Change`, a stutter and `Forget`,
`Persist` is `Seal`, `Finalize` is `Publish`.

**Governance.**  `ChainInv`: committed numbers are 1 to the height, each once (`Dense`),
each entry links to the one before (`Linked`), a transaction's tip was once a position of
the chain and is the last one after its insert (`TipKnown`), at most one transaction has
an uncommitted row (`OneInserts`), and it holds the governed row it wrote
(`WriteKnown`).  The refinement maps `Commit` to the atomic write and everything else to
a stutter.  `ChainInvariant`, `LogTypes`, `ChainNeverForks`, `SnapshotsTrue`,
`LogKeepsLedger`.

`PreviousStatesAreReal` is what remains of the documented meaning of `previousState`,
which the code does not keep in full (`governance_history`): no entry starts from a state
that only existed inside an unfinished or failed write.  `ReadInv` is the reason: once
the log tells of a record, it tells of the state the record is in (`ValIsTold`); what a
transaction has read is the record's state or one that the log tells of (`ReadKnown`),
since a write that replaced it came with an entry; and no two transactions hold the same
row (`HeldOnce`), so a state is replaced by one transaction at a time.

**Docket.**  `IInv`: only submitted rows have holders; the attempts of a row that is not
settled, and those a job took from its claim, never exceed the failures that counted; a
job past `cache` finds detail at least as new as its generation; and while no two fetches
of a bill have overlapped, at most one copy is on its way and it is not older than the
cached one (`BillIsSound`, without which a store could put back an old copy).
`DocketInvariant`, `DocketTypes`, `GivenUpOnlyForCause`, `CachedIsFresh`, `SettledStays`.

`QueueImplementsLedger`: under `IInv` every step is one of `DocketLedger` or unseen by it.
A claim maps to `Settle` of the archive rows it finds superseded, `Finish` to `Settle` of
one row over a copy that is as new, a failure that counts to `Fail`, a store to `Keep`,
and a fetch to `Overlap` if another one is on its way.  `Keep` says what no property says
alone: the copy kept of a bill never gets older while its fetches do not overlap,
whoever stores it, and the archive never replaces a live copy.

Every safety property the passing runs check is a theorem.  Only model-checked is
everything about liveness (`NeverStuck`, `ClosesAfterRecovery`, `SealedRowsComplete`,
`EveryRowSettles`, `ExecutionsSettle`, `LeaseIsFreed`, `CurrentSettles`): fairness and
ENABLED are out of the prover's reach.

## 5. Not modelled, and known limits

* Prism: with two failures and its budget spent, the only worker of a deployment can
  forget a row that it has paid for: the row leaves
  `queue_retryable_submission_job_ids` (`prism-rosetta-queue-worker.ts:475-477`) before
  its failure is written, and when that write fails the row stays under a lease that runs
  out, to be resumed by a restart, a route or another worker only.  The budget is meant
  to stop a worker, so `EveryRowSettles` is stated with one failure and no property asks
  for more.
* Prism: snapshot effects of other statements than `record_request` (`Settle` looks for
  the receipt and writes the failure in one step); the mismatch branch of
  `mirror_receipt` (`prism-rosetta-client.ts:420-432`), which insert-once receipts that
  match their requests never reach; the candidate filter and the limit of 100 of the
  replenishment, so `Replenish` may insert more than the code; a row that kills
  its worker at every claim (restarts are bounded); the base verification bridge, which
  is the same record, call, mirror protocol without queue and breaker.  Whether a
  truncated 2xx body should be retryable is not stated by the repository, so the model
  follows the code.
* Spine: message-author bindings, the governed registry, the choice among several
  sessions of a case; the content of the layers.  `sealSnapshot` and
  `assertSnapshotMutable` of the older snapshot tables (`db-legacy.ts:486-543`).
* Governance: a governed update of a row that is gone.  `Write` refuses it; hooks 13 and
  14 log an entry although they updated no row (`governance-hooks.ts:668`, `725-730`),
  but no governed hook deletes those rows.
* Governance: signatures, queries of the log, the timer of the verification and the
  owner's notification.  The session audit trail (`insertSerializedAuditEntry`,
  `db-legacy.ts:375-408`) is a second chain, per session and under its own lock.
* Docket: the 24-hour, calendar-year and 100-bill window of the cached list: `Claimable`
  has no such guard and `Observe` never takes a bill off the list.  `CurrentSettles` is
  therefore about bills that stay in the window of a refreshed list.  `DetailIsFresh` and
  `DocketLedger` exempt a bill once two of its fetches have overlapped, for the code then
  stores the older copy last.  Not modelled either: the projection to the Civic
  Genome, and the counters of `docket_jurisdiction_activation_run`: they are counted in one
  statement and written in the next, so of two settlements that commit together the later
  may write a count without the other, until the next settlement corrects it; no code
  under `server/` reads them.  The rehabilitation trigger of `20261002061000` touches only
  rows that earlier releases made permanent for provider errors, which the current code
  does not produce.
* `database-pool-lease-guard.ts`: bookkeeping around the driver, whose own ordering of
  release, error and removal events decides its races.
* LegiScan's budget is one guarded increment in one SQL function; what running out of it
  does is the provider failure of `DocketQueue`.
* Corpus import and the atomic corpus pass are parsers driven by external scripts; the
  read-through cache, the readiness gate and the transaction wrapper have little or no
  state; the HTTP shell, the React client (most of the repository's lines), schemas and
  seeds have no protocol to check.

## 6. Plan

1. *done*: the Prism pipeline with its breaker, ledger and proofs.
2. *done*: the intake spine, its gate and proofs.
3. *done*: the governance log, its ledger and proofs.
4. *done*: the docket activation queue and its proofs.
5. *done*: the abstract breaker and its two implementations; the types of the spine; the
   states that entries start from; the docket ledger and its refinement.
6. The session audit trail as a second instance of the chain; the counters of activation
   runs; the pool lease guard; the read-through cache.
