----------------------------- MODULE DocketQueue ----------------------------
(***************************************************************************)
(* The docket activation queue: an observation of a bill by LegiScan's      *)
(* master list, or its import from an archive, becomes a generation, a row  *)
(* of docket_bill_processing_queue, and the workers of several processes    *)
(* lease rows, fetch the bill's detail and register its documents.          *)
(*                                                                          *)
(* Content is its version: the provider's copy of a bill only grows.  The   *)
(* archive's copy is version 0.                                             *)
(***************************************************************************)
EXTENDS Integers, FiniteSets

CONSTANTS
    Bills,
    Procs,          \* worker processes
    ArchiveOnly,    \* those with the credit-free archive scope
    Slots,          \* jobs a process can have in flight
    Concurrency,    \* rows a cycle claims
    UnknownLimit,   \* UNKNOWN_FAILURE_LIMIT
    MaxVersion,     \* provider versions of a bill
    MaxFaults,      \* failures and overrun leases
    None, Gone      \* no worker; a worker that has died

ASSUME DocketAssumption ==
    /\ ArchiveOnly \subseteq Procs
    /\ None \notin Procs \cup {Gone}
    /\ Gone \notin Procs
    /\ UnknownLimit \in Nat \ {0} /\ MaxVersion \in Nat \ {0} /\ MaxFaults \in Nat
    /\ Concurrency \in Nat \ {0}

Versions == 1..MaxVersion
Generations == Bills \X (0..MaxVersion)
Archived == Bills \X {0}

VARIABLES
    upstream,   \* the provider's version of each bill
    current,    \* the version its state's cached master list shows, 0 before
    row,        \* docket_bill_processing_queue
    detail,     \* docket_bill_detail_cache
    job,        \* jobs in flight, by process and slot
    cycle,      \* the slots each process's queue cycle waits for
    visit,      \* versions fetched by a bill's page and not stored yet
    faults,
    raced,      \* bills that two fetches have overlapped for (history)
    misses      \* failures that count, by row (history)

vars == <<upstream, current, row, detail, job, cycle, visit, faults, raced, misses>>

Absent == [state |-> "absent", attempts |-> 0, holder |-> None, stale |-> FALSE, due |-> TRUE]
Eligible == [Absent EXCEPT !.state = "eligible"]
Free == [pc |-> "free", gen |-> None, prior |-> 0, got |-> 0, err |-> "none"]
NoDetail == [source |-> "none", version |-> -1]

Init ==
    /\ upstream = [b \in Bills |-> 1]
    /\ current = [b \in Bills |-> 0]
    /\ row = [g \in Generations |-> Absent]
    /\ detail = [b \in Bills |-> NoDetail]
    /\ job = [p \in Procs |-> [s \in Slots |-> Free]]
    /\ cycle = [p \in Procs |-> {}]
    /\ visit = [b \in Bills |-> 0]
    /\ faults = 0
    /\ raced = [b \in Bills |-> FALSE]
    /\ misses = [g \in Generations |-> 0]

Fault == faults < MaxFaults /\ faults' = faults + 1
-----------------------------------------------------------------------------
(* Sources *)

ProviderChanges(b) ==
    /\ upstream[b] < MaxVersion
    /\ upstream' = [upstream EXCEPT ![b] = @ + 1]
    /\ UNCHANGED <<current, row, detail, job, cycle, visit, faults, raced, misses>>

\* A refreshed master list: its trigger registers an activation and enqueues
\* a row for a summary never seen.  A list fetched long before may come late.
Observe(b, v) ==
    /\ v \in 1..upstream[b] /\ v # current[b]
    /\ IF v = upstream[b] THEN UNCHANGED faults ELSE Fault
    /\ current' = [current EXCEPT ![b] = v]
    /\ row' = [row EXCEPT ![<<b, v>>] = IF @ = Absent THEN Eligible ELSE @]
    /\ UNCHANGED <<upstream, detail, job, cycle, visit, raced, misses>>

ArchiveDetail == [source |-> "archive", version |-> 0]

\* Slip: an archive member replaces whatever is cached.
ImportOver(b) ==
    /\ detail[b] # ArchiveDetail
    /\ detail' = [detail EXCEPT ![b] = ArchiveDetail]
    /\ UNCHANGED <<upstream, current, row, job, cycle, visit, faults, raced, misses>>

\* A bulk archive member is accepted where no detail is cached, and activated
\* unless its chronology holds it back.
Import(b) ==
    /\ detail[b] = NoDetail
    /\ detail' = [detail EXCEPT ![b] = ArchiveDetail]
    /\ UNCHANGED row \/ row' = [row EXCEPT ![<<b, 0>>] = Eligible]
    /\ UNCHANGED <<upstream, current, job, cycle, visit, faults, raced, misses>>

\* Somebody has fetched the bill and not stored it.
Fetching(b) ==
    \/ visit[b] > 0
    \/ \E p \in Procs, s \in Slots : job[p][s].pc = "cache" /\ job[p][s].gen[1] = b

\* Slip: the live copy is inserted as an archive member is.
StoreOnce(b, v) ==
    detail' = [detail EXCEPT ![b] = IF @ = NoDetail THEN [source |-> "live", version |-> v] ELSE @]

\* accept_docket_bill_detail() for a live copy: the last writer wins.
Store(b, v) == detail' = [detail EXCEPT ![b] = [source |-> "live", version |-> v]]

\* GET /bill/:id with a cache that is empty or old; an archive's copy is shown
\* whatever its age.
Visit(b) ==
    /\ visit[b] = 0 /\ detail[b].source # "archive"
    /\ visit' = [visit EXCEPT ![b] = upstream[b]]
    /\ raced' = [raced EXCEPT ![b] = @ \/ Fetching(b)]
    /\ UNCHANGED <<upstream, current, row, detail, job, cycle, faults, misses>>

EndVisit(b) ==
    /\ visit[b] > 0
    /\ Store(b, visit[b]) \/ UNCHANGED detail
    /\ visit' = [visit EXCEPT ![b] = 0]
    /\ UNCHANGED <<upstream, current, row, job, cycle, faults, raced, misses>>
-----------------------------------------------------------------------------
(* Claims *)

\* Slip: rows a dead worker holds are left to it.
WaitingUnleased(g) == row[g].state \in {"eligible", "degraded"}

Waiting(g) ==
    \/ row[g].state \in {"eligible", "degraded"}
    \/ row[g].state = "submitted" /\ row[g].stale

\* An archive activation counts while the archive's detail is the cached one,
\* a live one while its version is the master list's.
Claimable(p, g) ==
    /\ Waiting(g) /\ row[g].due
    /\ IF g \in Archived THEN detail[g[1]].source = "archive"
       ELSE current[g[1]] = g[2] /\ p \notin ArchiveOnly

\* Archive rows an archive worker settles because live detail has come.
Superseded(p) ==
    IF p \in ArchiveOnly THEN {g \in Archived : Waiting(g) /\ detail[g[1]].source = "live"} ELSE {}

FreeSlots(p) == {s \in Slots : job[p][s].pc = "free"}

Closed(r, state) == [r EXCEPT !.state = state, !.holder = None, !.stale = FALSE]

Leased(p, gens) ==
    LET over == Superseded(p) IN
    row' = [g \in Generations |->
              IF g \in gens THEN [row[g] EXCEPT !.state = "submitted", !.holder = p, !.stale = FALSE]
              ELSE IF g \in over THEN Closed(row[g], "completed") ELSE row[g]]

\* What a claim may return: another may hold rows locked at that moment.
Batches(p) ==
    {gens \in SUBSET {g \in Generations : Claimable(p, g)} : Cardinality(gens) <= Concurrency}

\* One statement settles, claims and leases.
Claim(p, gens) ==
    /\ gens \cup Superseded(p) # {}
    /\ Leased(p, gens)
    /\ UNCHANGED <<upstream, current, detail, visit, raced, misses>>

\* The slots the claimed rows may get.
Placements(p, gens) ==
    {f \in [gens -> FreeSlots(p)] : \A g, h \in gens : f[g] = f[h] => g = h}

\* Slip: the claim is taken to have counted this attempt.
BegunCounted(g) ==
    [pc |-> IF g \in Archived THEN "archive" ELSE "project", gen |-> g,
     prior |-> row[g].attempts - 1, got |-> 0, err |-> "none"]

Begun(g) ==
    [pc |-> IF g \in Archived THEN "archive" ELSE "project", gen |-> g,
     prior |-> row[g].attempts, got |-> 0, err |-> "none"]

\* Each claimed row becomes a job; which slots is all the same.
Start(p, gens) ==
    LET slot == CHOOSE f \in Placements(p, gens) : TRUE IN
    /\ Claim(p, gens)
    /\ Placements(p, gens) # {}
    /\ job' = [job EXCEPT ![p] = [s \in Slots |->
                  IF \E g \in gens : slot[g] = s
                  THEN Begun(CHOOSE g \in gens : slot[g] = s) ELSE job[p][s]]]
    /\ cycle' = [cycle EXCEPT ![p] = {slot[g] : g \in gens}]
    /\ UNCHANGED faults

\* The claim commits and its answer is lost.
LostClaim(p, gens) == Claim(p, gens) /\ Fault /\ UNCHANGED <<job, cycle>>
-----------------------------------------------------------------------------
(* Jobs *)

Goto(p, s, pc) == job' = [job EXCEPT ![p][s].pc = pc]
Throw(p, s, class) ==
    job' = [job EXCEPT ![p][s].pc = "fail", ![p][s].got = 0, ![p][s].err = class]

\* read_docket_archive_detail() and the projection from it.
ReadArchive(p, s) ==
    /\ job[p][s].pc = "archive"
    /\ \/ detail[job[p][s].gen[1]].source = "archive" /\ Goto(p, s, "register") /\ UNCHANGED faults
       \/ detail[job[p][s].gen[1]].source # "archive" /\ Throw(p, s, "unknown") /\ UNCHANGED faults
       \/ Fault /\ Throw(p, s, "unknown")
    /\ UNCHANGED <<upstream, current, row, detail, cycle, visit, raced, misses>>

\* ensure_civic_genome_bill_ready(), then get_bill().
Fetch(p, s) ==
    LET b == job[p][s].gen[1] IN
    /\ job[p][s].pc = "project"
    /\ \/ /\ job' = [job EXCEPT ![p][s].pc = "cache", ![p][s].got = upstream[b]]
          /\ raced' = [raced EXCEPT ![b] = @ \/ Fetching(b)]
          /\ UNCHANGED faults
       \/ /\ Fault
          /\ \E class \in {"provider", "unknown", "deterministic"} : Throw(p, s, class)
          /\ UNCHANGED raced
    /\ UNCHANGED <<upstream, current, row, detail, cycle, visit, misses>>

\* cache_bill_detail(), whose trigger registers the documents as well, unless
\* what was fetched is no bill at all.
Cache(p, s) ==
    LET j == job[p][s] IN
    /\ j.pc = "cache"
    /\ \/ /\ Store(j.gen[1], j.got)
          /\ job' = [job EXCEPT ![p][s].pc = "register", ![p][s].got = 0]
          /\ UNCHANGED faults
       \/ (Store(j.gen[1], j.got) \/ UNCHANGED detail) /\ Fault /\ Throw(p, s, "unknown")
       \/ UNCHANGED detail /\ Fault /\ Throw(p, s, "deterministic")
    /\ UNCHANGED <<upstream, current, row, cycle, visit, raced, misses>>

\* register_legislative_versions()
Register(p, s) ==
    /\ job[p][s].pc = "register"
    /\ \/ Goto(p, s, "finish") /\ UNCHANGED faults
       \/ Fault /\ \E class \in {"unknown", "deterministic"} : Throw(p, s, class)
    /\ UNCHANGED <<upstream, current, row, detail, cycle, visit, raced, misses>>

\* Slip: a result is written whoever holds the row.
HoldsAnyway(p, g) == row[g].state # "absent"

Holds(p, g) == row[g].holder = p

Ended(p, s) ==
    /\ job' = [job EXCEPT ![p][s] = Free]
    /\ cycle' = [cycle EXCEPT ![p] = @ \ {s}]

FinishedRow(r, state) == [Closed(r, state) EXCEPT !.attempts = r.attempts + 1]

\* mark_job_terminal(): completed, or no official documents to be had.  Its
\* failure leaves the lease to run out.
Finish(p, s) ==
    LET g == job[p][s].gen IN
    /\ job[p][s].pc = "finish"
    /\ \/ /\ Holds(p, g)
          /\ \E state \in {"completed", "source_unavailable"} :
               row' = [row EXCEPT ![g] = FinishedRow(@, state)]
          /\ UNCHANGED faults
       \/ ~Holds(p, g) /\ UNCHANGED <<row, faults>>
       \/ Fault /\ UNCHANGED row
    /\ Ended(p, s)
    /\ UNCHANGED <<upstream, current, detail, visit, raced, misses>>

\* Slip: an unavailable provider uses up attempts too.
CountsAll(class) == class \in {"provider", "unknown", "deterministic"}

\* classify_docket_bill_activation_failure()
Counts(class) == class # "provider"
Terminal(class, prior) ==
    \/ class = "deterministic"
    \/ Counts(class) /\ prior + 1 >= UnknownLimit

FailedRow(r, j) ==
    [Closed(r, IF Terminal(j.err, j.prior) THEN "permanent_failure" ELSE "degraded") EXCEPT
        !.attempts = IF Counts(j.err) THEN r.attempts + 1 ELSE r.attempts,
        !.due = Terminal(j.err, j.prior) /\ r.due]

MarkFailed(p, j) == row' = IF Holds(p, j.gen) THEN [row EXCEPT ![j.gen] = FailedRow(@, j)] ELSE row

Missed(j) ==
    IF j.err = "provider" THEN misses
    ELSE [misses EXCEPT ![j.gen] = IF j.err = "deterministic" THEN @ + UnknownLimit ELSE @ + 1]

\* mark_job_failed().  If it throws, Promise.all rejects and the cycle is over
\* although the other jobs run on.
Fail(p, s) ==
    LET j == job[p][s] IN
    /\ j.pc = "fail"
    /\ misses' = Missed(j)
    /\ \/ MarkFailed(p, j) /\ Ended(p, s) /\ UNCHANGED faults
       \/ /\ Fault
          /\ MarkFailed(p, j) \/ UNCHANGED row
          /\ job' = [job EXCEPT ![p][s] = Free]
          /\ cycle' = [cycle EXCEPT ![p] = IF s \in @ THEN {} ELSE @]
    /\ UNCHANGED <<upstream, current, detail, visit, raced>>

Step(p, s) ==
    ReadArchive(p, s) \/ Fetch(p, s) \/ Cache(p, s) \/ Register(p, s) \/ Finish(p, s) \/ Fail(p, s)
-----------------------------------------------------------------------------
(* Time and failure *)

\* A new process has a new worker id.
Crash(p) ==
    /\ Fault
    /\ job' = [job EXCEPT ![p] = [s \in Slots |-> Free]]
    /\ cycle' = [cycle EXCEPT ![p] = {}]
    /\ row' = [g \in Generations |->
                 IF row[g].holder = p THEN [row[g] EXCEPT !.holder = Gone] ELSE row[g]]
    /\ UNCHANGED <<upstream, current, detail, visit, raced, misses>>

\* QUEUE_LEASE_MINUTES pass; that a job takes so long is a fault.
LeaseEnds(g) ==
    /\ row[g].state = "submitted" /\ ~row[g].stale
    /\ IF \E p \in Procs, s \in Slots : row[g].holder = p /\ job[p][s].gen = g
         THEN Fault ELSE UNCHANGED faults
    /\ row' = [row EXCEPT ![g].stale = TRUE]
    /\ UNCHANGED <<upstream, current, detail, job, cycle, visit, raced, misses>>

\* next_attempt_at arrives.
RetryDue(g) ==
    /\ row[g].state = "degraded" /\ ~row[g].due
    /\ row' = [row EXCEPT ![g].due = TRUE]
    /\ UNCHANGED <<upstream, current, detail, job, cycle, visit, faults, raced, misses>>

TimePasses(g) == LeaseEnds(g) \/ RetryDue(g)

\* A cycle begins when the one before is over.
Cycle(p) == cycle[p] = {} /\ \E gens \in Batches(p) : Start(p, gens)
CycleLost(p) == cycle[p] = {} /\ \E gens \in Batches(p) : LostClaim(p, gens)

Next ==
    \/ \E b \in Bills : ProviderChanges(b) \/ Import(b) \/ Visit(b) \/ EndVisit(b)
    \/ \E b \in Bills, v \in Versions : Observe(b, v)
    \/ \E p \in Procs : Cycle(p) \/ CycleLost(p) \/ Crash(p)
    \/ \E p \in Procs, s \in Slots : Step(p, s)
    \/ \E g \in Generations : TimePasses(g)

Spec == Init /\ [][Next]_vars

\* The cycle runs on a timer, some job of a process goes on, leases and delays
\* pass, and the master list is refreshed; visits and changes need not come.
\* Each subscript is what the action always changes.
FairSpec ==
    /\ Spec
    /\ \A p \in Procs : WF_row(Cycle(p)) /\ WF_job(\E s \in Slots : Step(p, s))
    /\ WF_row(\E g \in Generations : TimePasses(g))
    /\ \A b \in Bills : WF_current(Observe(b, upstream[b]))
-----------------------------------------------------------------------------
(* Properties *)

Settled == {"completed", "source_unavailable", "permanent_failure"}

Rows == [state : Settled \cup {"absent", "eligible", "submitted", "degraded"}, attempts : Nat,
         holder : Procs \cup {None, Gone}, stale : BOOLEAN, due : BOOLEAN]
Details == [source : {"none", "archive", "live"}, version : -1..MaxVersion]
Jobs == [pc : {"free", "archive", "project", "cache", "register", "finish", "fail"},
         gen : Generations \cup {None}, prior : Nat, got : 0..MaxVersion,
         err : {"none", "provider", "unknown", "deterministic"}]

TypeOK ==
    /\ upstream \in [Bills -> Versions] /\ current \in [Bills -> 0..MaxVersion]
    /\ row \in [Generations -> Rows]
    /\ detail \in [Bills -> Details]
    /\ job \in [Procs -> [Slots -> Jobs]]
    /\ cycle \in [Procs -> SUBSET Slots]
    /\ visit \in [Bills -> 0..MaxVersion] /\ faults \in 0..MaxFaults
    /\ raced \in [Bills -> BOOLEAN] /\ misses \in [Generations -> Nat]

\* A generation that is settled stays as it is, whichever worker still has a
\* job for it after its lease ("unchanged completed generations must remain
\* terminal", 20261002061000_docket_quota_safe_current_window.sql:10-11).
SettledIsFinal ==
    [][\A g \in Generations : row[g].state \in Settled => row'[g] = row[g]]_vars

\* A row is given up only after a failure that no retry can mend or as many
\* others as allowed; an unavailable provider never counts, whatever leases
\* ran out and answers were lost (docket-jurisdiction-activation-queue-worker.ts:159-161).
GivenUpForCause ==
    \A g \in Generations : row[g].state = "permanent_failure" => misses[g] >= UnknownLimit

\* What is cached of a bill is at least as new as what its settled
\* generations were observed to be ("its already-completed bill-detail
\* generation remains valid"), unless two fetches of it have overlapped: then
\* the older copy may be stored last.
DetailIsFresh ==
    \A g \in Generations :
        row[g].state \in {"completed", "source_unavailable"} /\ ~raced[g[1]]
        => detail[g[1]].version >= g[2]

Mode(r) == IF r.state \in {"eligible", "submitted", "degraded"} THEN "open" ELSE r.state

LedgerState == [g \in Generations |-> Mode(row[g])]
LedgerKept == [b \in Bills |-> detail[b].version]

Ledger == INSTANCE DocketLedger WITH
    state <- LedgerState, kept <- LedgerKept, failed <- misses, overlapped <- raced

\* Workers that lease, fail, overrun and die settle generations as if nobody
\* else were there, and no store puts an older copy back ("Never replace an
\* existing API detail with a potentially older archive snapshot",
\* docket-bill-detail-acceptance.ts:78) but where two live fetches overlap.
ImplementsLedger == Ledger!Spec

\* However workers fail, what the provider shows in the end is settled, for a
\* bill that stays in its refreshed list and in the first 100 of it (the window
\* of the claim, docket-jurisdiction-activation-queue-worker.ts:272-283).
CurrentSettles ==
    \A b \in Bills : <>[](current[b] = upstream[b] /\ row[<<b, current[b]>>].state \in Settled)
=============================================================================
