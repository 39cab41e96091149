--------------------------- MODULE PrismRowProofs ---------------------------
(***************************************************************************)
(* The rows of the verification queue: who may end a lease, what a finished *)
(* row rests on, and which states are final.                                *)
(***************************************************************************)
EXTENDS PrismEvidenceProofs

\* A lease is only ever held on a submitted row.
LeasedIsSubmitted ==
    \A a \in Assemblies : row[a].lockedBy # None => row[a].state = "submitted"

RowInv == EvidenceInv /\ LeasedIsSubmitted /\ CompletedHasRun

\* What a step may do to one row: nothing that matters here, or one of the
\* handlers that rewrite it.
Same(a) ==
    /\ row'[a].state = row[a].state /\ row'[a].count = row[a].count
    /\ row'[a].lockedBy = row[a].lockedBy

Inserted(a) ==
    /\ row[a].state = "absent"
    /\ row'[a] = EligibleRow

Claimed(a) ==
    /\ Claimable(row[a])
    /\ row'[a].state = "submitted"
    /\ row'[a].lockedBy \in Workers

Reconciled(a) ==
    /\ a \in sealed
    /\ row[a].state \notin {"absent", "completed"}
    /\ row'[a] = CompletedRow(a, row[a])

Ended(a) ==
    \E w \in Workers :
        /\ row[a].lockedBy = w /\ at[w].job = a
        /\ \/ at[w].pc = "mark" /\ a \in sealed /\ row'[a] = MarkedRow(a, row[a])
           \/ at[w].pc = "fail" /\ row'[a] = FailedRow(at[w], row[a])

RowStep(a) == Same(a) \/ Inserted(a) \/ Claimed(a) \/ Reconciled(a) \/ Ended(a)
-----------------------------------------------------------------------------
LEMMA RowUnchanged ==
    ASSUME UNCHANGED row
    PROVE  \A a \in Assemblies : RowStep(a)
  BY DEF RowStep, Same

LEMMA RowTables ==
    ASSUME Typed,
           \/ \E b \in Assemblies : Enqueue(b) \/ LeaseExpires(b) \/ BecomesDue(b)
           \/ \E w \in Workers : Reconcile(w) \/ Replenish(w) \/ Claim(w)
    PROVE  \A a \in Assemblies : RowStep(a)
<1> SUFFICES ASSUME NEW a \in Assemblies PROVE RowStep(a)
  OBVIOUS
<1>1. row \in [Assemblies -> Rows] /\ row[a] \in Rows
  BY DEF Typed, TypeOK
<1>2. ASSUME NEW b \in Assemblies, Enqueue(b) PROVE RowStep(a)
  BY <1>1, <1>2 DEF Enqueue, RowStep, Same, Inserted
<1>3. ASSUME NEW b \in Assemblies, LeaseExpires(b) \/ BecomesDue(b) PROVE RowStep(a)
  <2>1. CASE LeaseExpires(b)
    BY <1>1, <2>1 DEF LeaseExpires, RowStep, Same, Rows
  <2>2. CASE BecomesDue(b)
    BY <1>1, <2>2 DEF BecomesDue, RowStep, Same, Rows
  <2> QED
    BY <1>3, <2>1, <2>2
<1>4. ASSUME NEW w \in Workers, Reconcile(w) PROVE RowStep(a)
  BY <1>1, <1>4 DEF Reconcile, Done, RowStep, Same, Reconciled
<1>5. ASSUME NEW w \in Workers, Replenish(w) PROVE RowStep(a)
  BY <1>1, <1>5 DEF Replenish, RowStep, Same, Inserted
<1>6. ASSUME NEW w \in Workers, Claim(w) PROVE RowStep(a)
  <2>1. PICK b \in Assemblies :
          /\ Claimable(row[b])
          /\ row' = [row EXCEPT ![b].state = "submitted", ![b].lockedBy = w,
                               ![b].expired = FALSE]
    BY <1>6 DEF Claim
  <2>2. row' = [row EXCEPT ![b] = [row[b] EXCEPT !.state = "submitted", !.lockedBy = w,
                                                 !.expired = FALSE]]
    BY <1>1, <2>1
  <2>3. CASE a = b
    <3>1. row'[a].state = "submitted" /\ row'[a].lockedBy = w
      BY <1>1, <2>2, <2>3 DEF Rows
    <3> QED
      BY <2>1, <2>3, <3>1 DEF RowStep, Claimed
  <2>4. CASE a # b
    BY <1>1, <2>2, <2>4 DEF RowStep, Same
  <2> QED
    BY <2>3, <2>4
<1> QED
  BY <1>2, <1>3, <1>4, <1>5, <1>6

LEMMA RowEnds ==
    ASSUME EvidenceInv, NEW w \in Workers, Mark(w) \/ Fail(w)
    PROVE  \A a \in Assemblies : RowStep(a)
<1> SUFFICES ASSUME NEW a \in Assemblies PROVE RowStep(a)
  OBVIOUS
<1>1. /\ row \in [Assemblies -> Rows] /\ at[w] \in Jobs
      /\ JobFine(at[w]) /\ Supported(at[w])
  BY DEF EvidenceInv, Typed, TypeOK, JobsFine, AllSupported, Procs
<1>2. CASE Mark(w)
  <2>1. at[w].pc = "mark" /\ at[w].job \in Assemblies /\ at[w].job \in sealed
    BY <1>1, <1>2 DEF Mark, JobFine, Supported
  <2> QED
    BY <1>1, <1>2, <2>1 DEF Mark, Holds, RowStep, Same, Ended
<1>3. CASE Fail(w)
  <2>1. at[w].pc = "fail" /\ at[w].job \in Assemblies
    BY <1>1, <1>3 DEF Fail, JobFine
  <2> QED
    BY <1>1, <1>3, <2>1 DEF Fail, Holds, RowStep, Same, Ended
<1> QED
  BY <1>2, <1>3

\* Every step of the system does one of these things to every row.
LEMMA RowNext ==
    ASSUME EvidenceInv, [Next]_vars
    PROVE  \A a \in Assemblies : RowStep(a)
<1>1. Typed
  BY DEF EvidenceInv
<1>2. CASE \E a \in Assemblies : Enqueue(a) \/ LeaseExpires(a) \/ BecomesDue(a)
  BY <1>1, <1>2, RowTables
<1>3. ASSUME NEW w \in Workers, Reconcile(w) \/ Replenish(w) \/ Claim(w) \/ EndJob(w)
      PROVE \A a \in Assemblies : RowStep(a)
  <2>1. CASE Count(w) \/ FaultEnd(w)
    BY <2>1, RowUnchanged DEF Count, FaultEnd
  <2> QED
    BY <1>1, <1>3, <2>1, RowTables, RowEnds DEF EndJob
<1>4. ASSUME NEW d \in Direct, NEW a \in Assemblies, StartDirect(d, a)
      PROVE \A b \in Assemblies : RowStep(b)
  BY <1>4, RowUnchanged DEF StartDirect
<1>5. ASSUME NEW p \in Procs, Activate(p) PROVE \A a \in Assemblies : RowStep(a)
  <2>1. UNCHANGED row
    BY <1>5 DEF Activate, Load, Enrich, Record, Send, Unready, Handle, ReplyOk, ReplyFailed,
                Mirror, Confirm, Settle, Bind, Seal, FaultActivation, FaultSeal, FaultSubmit
  <2> QED
    BY <2>1, RowUnchanged
<1>6. ASSUME NEW s \in Servers, Restart(s) \/ CooldownOver(s)
      PROVE \A a \in Assemblies : RowStep(a)
  BY <1>6, RowUnchanged DEF Restart, CooldownOver
<1>7. CASE ContextChanges \/ UNCHANGED vars
  BY <1>7, RowUnchanged DEF ContextChanges, vars
<1> QED
  BY <1>2, <1>3, <1>4, <1>5, <1>6, <1>7 DEF Next
-----------------------------------------------------------------------------
\* How the handlers leave a row.
LEMMA WrittenRows ==
    ASSUME NEW a \in Assemblies, NEW r \in Rows, NEW j \in Jobs
    PROVE  /\ EligibleRow.state = "eligible" /\ EligibleRow.lockedBy = None
           /\ CompletedRow(a, r).state = "completed"
           /\ CompletedRow(a, r).lockedBy = None
           /\ CompletedRow(a, r).count = Cardinality(TraitsOf[a])
           /\ MarkedRow(a, r).state = "completed"
           /\ MarkedRow(a, r).lockedBy = None
           /\ MarkedRow(a, r).count = Cardinality(TraitsOf[a])
           /\ FailedRow(j, r).state # "completed"
           /\ FailedRow(j, r).lockedBy = None
<1>1. EligibleRow.state = "eligible" /\ EligibleRow.lockedBy = None
  BY DEF EligibleRow, AbsentRow
<1>2. /\ CompletedRow(a, r) \in Rows
      /\ CompletedRow(a, r).state = "completed"
      /\ CompletedRow(a, r).lockedBy = None
      /\ CompletedRow(a, r).count = Cardinality(TraitsOf[a])
  BY CompletedRowType DEF CompletedRow, Unlocked, Rows
<1>3. /\ MarkedRow(a, r).state = "completed"
      /\ MarkedRow(a, r).lockedBy = None
      /\ MarkedRow(a, r).count = Cardinality(TraitsOf[a])
  BY <1>2 DEF MarkedRow, Rows
<1>4. FailedRow(j, r).state # "completed" /\ FailedRow(j, r).lockedBy = None
  <2>1. FailedState(j.err, j.attempts, j.seen) # "completed"
    BY DEF FailedState
  <2>2. /\ FailedRow(j, r).state = FailedState(j.err, j.attempts, j.seen)
        /\ FailedRow(j, r).lockedBy = None
    BY DEF FailedRow, Unlocked, Rows
  <2> QED
    BY <2>1, <2>2
<1> QED
  BY <1>1, <1>2, <1>3, <1>4

LEMMA RowsNext ==
    ASSUME RowInv, [Next]_vars
    PROVE  LeasedIsSubmitted' /\ CompletedHasRun'
<1>1. EvidenceInv /\ EvidenceStep /\ Typed
  BY EvidenceNext DEF RowInv, EvidenceInv
<1>2. sealed \subseteq sealed'
  BY <1>1 DEF EvidenceStep, Grows
<1>3. ASSUME NEW a \in Assemblies
      PROVE /\ row'[a].lockedBy # None => row'[a].state = "submitted"
            /\ row'[a].state = "completed" =>
                 /\ a \in sealed'
                 /\ row'[a].count = Cardinality(TraitsOf[a])
                 /\ row'[a].lockedBy = None
  <2>1. RowStep(a) /\ row[a] \in Rows /\ \A w \in Workers : at[w] \in Jobs
    BY <1>1, RowNext DEF Typed, TypeOK, Procs
  <2>2. CASE Same(a)
    BY <1>2, <2>2 DEF Same, RowInv, LeasedIsSubmitted, CompletedHasRun
  <2>3. CASE Inserted(a)
    BY <2>3 DEF Inserted, EligibleRow, AbsentRow
  <2>4. CASE Claimed(a)
    BY <2>4 DEF Claimed
  <2>5. CASE Reconciled(a)
    BY <1>2, <2>1, <2>5, WrittenRows, ConstantTypes DEF Reconciled
  <2>6. CASE Ended(a)
    BY <1>2, <2>1, <2>6, WrittenRows DEF Ended
  <2> QED
    BY <2>1, <2>2, <2>3, <2>4, <2>5, <2>6 DEF RowStep
<1> QED
  BY <1>3 DEF LeasedIsSubmitted, CompletedHasRun

LEMMA RowAlways == Spec => []RowInv
<1>1. Init => LeasedIsSubmitted /\ CompletedHasRun
  BY DEF Init, AbsentRow, LeasedIsSubmitted, CompletedHasRun
<1>2. RowInv /\ [Next]_vars => LeasedIsSubmitted' /\ CompletedHasRun'
  BY RowsNext
<1>3. LeasedIsSubmitted /\ CompletedHasRun /\ EvidenceInv <=> RowInv
  BY DEF RowInv
<1> QED
  BY <1>1, <1>2, <1>3, EvidenceAlways, PTL DEF Spec

\* A completed row is backed by a verification run, reports every trait and is
\* held by nobody, however its worker, a stale worker and the reconciler raced.
THEOREM CompletedRests == Spec => []CompletedHasRun
<1>1. RowInv => CompletedHasRun
  BY DEF RowInv
<1> QED
  BY <1>1, RowAlways, PTL

\* A lease that has not run out is ended only by its holder finishing its job,
\* or because the assembly has its verification run.
THEOREM LeaseHonoured == Spec => LiveLeaseHonoured
<1>1. ASSUME RowInv, [Next]_vars, NEW a \in Assemblies,
             row[a].lockedBy # None, ~row[a].expired,
             row'[a].lockedBy # row[a].lockedBy
      PROVE  \/ a \in sealed
             \/ /\ at[row[a].lockedBy].job = a
                /\ at[row[a].lockedBy].pc \in {"mark", "fail"}
  <2>1. RowStep(a) /\ row[a].state = "submitted"
    BY <1>1, RowNext DEF RowInv, LeasedIsSubmitted
  <2>2. ~Same(a) /\ ~Inserted(a) /\ ~Claimed(a)
    BY <1>1, <2>1 DEF Same, Inserted, Claimed, Claimable
  <2> QED
    BY <2>1, <2>2 DEF RowStep, Reconciled, Ended
<1>2. RowInv /\ [Next]_vars =>
        [\A a \in Assemblies :
          LET w == row[a].lockedBy
          IN  w # None /\ ~row[a].expired /\ row'[a].lockedBy # w
              => a \in sealed \/ (at[w].job = a /\ at[w].pc \in {"mark", "fail"})]_vars
  BY <1>1
<1> QED
  BY <1>2, RowAlways, PTL DEF Spec, LiveLeaseHonoured

\* Completion is final; a row that was given up leaves that state only because
\* its assembly got a verification run after all.
THEOREM FinalStates == Spec => TerminalIsFinal
<1>1. ASSUME RowInv, [Next]_vars, NEW a \in Assemblies
      PROVE  /\ row[a].state = "completed" => row'[a].state = "completed"
             /\ row[a].state = "permanent_failure" =>
                  \/ row'[a].state = "permanent_failure"
                  \/ row'[a].state = "completed" /\ a \in sealed
  <2>1. RowStep(a) /\ row[a] \in Rows
    BY <1>1, RowNext DEF RowInv, EvidenceInv, Typed, TypeOK
  <2>2. row[a].state \in {"completed", "permanent_failure"} => row[a].lockedBy = None
    BY <1>1 DEF RowInv, LeasedIsSubmitted
  <2>3. Ended(a) => row[a].lockedBy # None
    BY QueueAssumption DEF Ended, Procs
  <2>4. row[a].state \in {"completed", "permanent_failure"} => Same(a) \/ Reconciled(a)
    BY <2>1, <2>2, <2>3 DEF RowStep, Inserted, Claimed, Claimable
  <2>5. Reconciled(a) => a \in sealed /\ row'[a].state = "completed"
    BY <2>1, ConstantTypes, WrittenRows DEF Reconciled
  <2> QED
    BY <2>4, <2>5 DEF Same
<1>2. RowInv /\ [Next]_vars =>
        [\A a \in Assemblies :
          /\ row[a].state = "completed" => row'[a].state = "completed"
          /\ row[a].state = "permanent_failure" =>
               \/ row'[a].state = "permanent_failure"
               \/ row'[a].state = "completed" /\ a \in sealed]_vars
  BY <1>1
<1> QED
  BY <1>2, RowAlways, PTL DEF Spec, TerminalIsFinal
-----------------------------------------------------------------------------
(* Why a row is given up *)

\* The holder of a row judges its failure by the attempts the row has now.
AttemptsKnown ==
    /\ \A w \in Workers : at[w].pc = "idle" => at[w].job = None
    /\ \A w \in Workers, a \in Assemblies :
         row[a].lockedBy = w /\ at[w].job = a => at[w].attempts = row[a].attempts

\* A process ends its job or goes on with it.
GoesOn(w) ==
    \/ at'[w] = Idle
    \/ /\ at'[w].job = at[w].job
       /\ at'[w].attempts = at[w].attempts /\ at'[w].count = at[w].count
       /\ at'[w].pc = "idle" => at[w].pc = "idle"
       /\ at'[w].pc = "fail" =>
            \/ at[w].pc = "fail" /\ at'[w].seen = at[w].seen
            \/ at'[w].seen \in {at[w].count, Observed(at[w].job)}

\* A row is left alone, or let go with a count that somebody has taken.
LetBe(a) ==
    \/ /\ row'[a].lockedBy = row[a].lockedBy
       /\ row'[a].attempts = row[a].attempts /\ row'[a].count = row[a].count
    \/ /\ row'[a].lockedBy = None
       /\ \/ row'[a].count = 0
          \/ a \in sealed /\ row'[a].count = Cardinality(TraitsOf[a])
          \/ \E w \in Workers :
               at[w].job = a /\ at[w].pc = "fail" /\ row'[a].count = at[w].seen

LEMMA StillGoesOn ==
    ASSUME UNCHANGED at
    PROVE  \A w \in Workers : GoesOn(w)
  BY DEF GoesOn

LEMMA ThrowGoesOn ==
    ASSUME Typed, NEW p \in Procs, NEW class \in Classes, Throw(p, class)
    PROVE  \A w \in Workers : GoesOn(w)
<1>1. at \in [Procs -> Jobs] /\ Workers \subseteq Procs
  BY DEF Typed, TypeOK, Procs
<1>2. CASE p \in Workers
  <2>1. at' = [at EXCEPT ![p] = [at[p] EXCEPT !.pc = "count", !.err = class]]
    BY <1>1, <1>2 DEF Throw
  <2> QED
    BY <1>1, <2>1 DEF GoesOn, Jobs
<1>3. CASE p \notin Workers
  BY <1>1, <1>3 DEF Throw, GoesOn
<1> QED
  BY <1>2, <1>3

LEMMA AdvanceGoesOn ==
    ASSUME Typed, NEW p \in Procs, NEW todo, NEW partial, Advance(p, todo, partial)
    PROVE  \A w \in Workers : GoesOn(w)
<1>1. at \in [Procs -> Jobs] /\ Workers \subseteq Procs
  BY DEF Typed, TypeOK, Procs
<1>2. CASE todo = {} /\ partial
  BY <1>2, ThrowGoesOn DEF Advance, Classes
<1>3. CASE ~(todo = {} /\ partial)
  <2> DEFINE j == [at[p] EXCEPT !.pc = IF todo = {} THEN "seal" ELSE "enrich",
                                !.todo = todo, !.partial = partial]
  <2>1. at' = [at EXCEPT ![p] = j]
    BY <1>1, <1>3 DEF Advance
  <2>2. j.job = at[p].job /\ j.attempts = at[p].attempts /\ j.count = at[p].count
        /\ j.pc \notin {"idle", "fail"}
    BY <1>1 DEF Jobs
  <2> HIDE DEF j
  <2> QED
    BY <1>1, <2>1, <2>2 DEF GoesOn
<1> QED
  BY <1>2, <1>3

\* No step of an activation changes what its process has to do.
LEMMA ActivateGoesOn ==
    ASSUME Typed, NEW p \in Procs, Activate(p)
    PROVE  \A w \in Workers : GoesOn(w)
<1>1. at \in [Procs -> Jobs] /\ Workers \subseteq Procs /\ at[p].err \in Classes
  BY DEF Typed, TypeOK, Procs, Jobs
<1>2. FaultClasses \subseteq Classes
  BY QueueAssumption DEF Classes
<1>3. CASE Load(p) \/ Bind(p)
  BY <1>3, AdvanceGoesOn, ThrowGoesOn DEF Load, Bind, Classes
<1>4. CASE Enrich(p)
  <2>1. CASE GateOpen
    <3>1. PICK t \in at[p].todo, h \in 0..context :
            at' = [at EXCEPT ![p].pc = "record", ![p].trait = t, ![p].hash = h,
                             ![p].blind = request[<<at[p].job, t>>] = None]
      BY <1>4, <2>1 DEF Enrich
    <3> DEFINE b == request[<<at[p].job, t>>] = None
               j == [at[p] EXCEPT !.pc = "record", !.trait = t, !.hash = h, !.blind = b]
    <3>2. at' = [at EXCEPT ![p] = j]
      BY <1>1, <3>1
    <3>3. j.job = at[p].job /\ j.attempts = at[p].attempts /\ j.count = at[p].count
          /\ j.pc \notin {"idle", "fail"}
      <4> HIDE DEF b
      <4> QED
        BY <1>1 DEF Jobs
    <3> HIDE DEF j
    <3> QED
      BY <1>1, <3>2, <3>3 DEF GoesOn
  <2>2. CASE ~GateOpen
    BY <1>4, <2>2, ThrowGoesOn DEF Enrich, Classes
  <2> QED
    BY <2>1, <2>2
<1>5. CASE Record(p)
  <2>1. CASE SameInput(p)
    BY <1>1, <1>5, <2>1 DEF Record, GoesOn, Jobs
  <2>2. CASE ~SameInput(p)
    BY <1>5, <2>2, ThrowGoesOn DEF Record, Classes
  <2> QED
    BY <2>1, <2>2
<1>6. CASE Send(p) \/ Unready(p)
  BY <1>1, <1>6 DEF Send, Unready, GoesOn, Jobs
<1>7. CASE Handle(p)
  BY <1>7, StillGoesOn DEF Handle
<1>8. CASE ReplyOk(p) \/ ReplyFailed(p) \/ Mirror(p) \/ Confirm(p)
  BY <1>1, <1>8 DEF ReplyOk, ReplyFailed, Mirror, Confirm, GoesOn, Jobs
<1>9. CASE Settle(p)
  BY <1>1, <1>9, ThrowGoesOn DEF Settle
<1>10. CASE Seal(p)
  <2>1. CASE p \in Workers
    <3>1. at' = [at EXCEPT ![p] = [at[p] EXCEPT !.pc = "mark"]]
      BY <1>1, <1>10, <2>1 DEF Seal
    <3> QED
      BY <1>1, <3>1 DEF GoesOn, Jobs
  <2>2. CASE p \notin Workers
    BY <1>1, <1>10, <2>2 DEF Seal, GoesOn
  <2> QED
    BY <2>1, <2>2
<1>11. CASE FaultActivation(p) \/ FaultSeal(p)
  BY <1>2, <1>11, ThrowGoesOn DEF FaultActivation, FaultSeal
<1>12. CASE FaultSubmit(p)
  <2>1. CASE at[p].pc = "settle"
    BY <1>2, <1>12, <2>1, ThrowGoesOn DEF FaultSubmit
  <2>2. CASE at[p].pc # "settle"
    BY <1>1, <1>12, <2>2 DEF FaultSubmit, GoesOn, Jobs
  <2> QED
    BY <2>1, <2>2
<1> QED
  BY <1>3, <1>4, <1>5, <1>6, <1>7, <1>8, <1>9, <1>10, <1>11, <1>12 DEF Activate

\* Only a claim gives a job and a row to a worker, and it gives both.
ClaimedBy(w, a) ==
    /\ at' = at \/ at' = [at EXCEPT ![w] = at'[w]]
    /\ at'[w].pc # "idle" =>
         /\ at'[w].pc = "load" /\ at'[w].job = a
         /\ at'[w].attempts = row[a].attempts /\ at'[w].count = row[a].count
    /\ at'[w].pc = "idle" => at'[w] = at[w] /\ at[w].pc = "idle"
    /\ row'[a].lockedBy = w
    /\ row'[a].attempts = row[a].attempts /\ row'[a].count = row[a].count
    /\ \A b \in Assemblies : b # a => row'[b] = row[b]

LEMMA AttemptsSteps ==
    ASSUME EvidenceInv, [Next]_vars
    PROVE  \/ /\ \A w \in Workers : GoesOn(w)
              /\ \A a \in Assemblies : LetBe(a)
           \/ \E w \in Workers, a \in Assemblies : ClaimedBy(w, a)
<1>1. /\ at \in [Procs -> Jobs] /\ Workers \subseteq Procs
      /\ row \in [Assemblies -> Rows] /\ Typed
  BY DEF EvidenceInv, Typed, TypeOK, Procs
<1>2. UNCHANGED row => \A a \in Assemblies : LetBe(a)
  BY DEF LetBe
<1>3. CASE \E a \in Assemblies : Enqueue(a) \/ LeaseExpires(a) \/ BecomesDue(a)
  <2>1. \A w \in Workers : GoesOn(w)
    BY <1>3, StillGoesOn DEF Enqueue, LeaseExpires, BecomesDue
  <2>2. PICK a \in Assemblies : Enqueue(a) \/ LeaseExpires(a) \/ BecomesDue(a)
    BY <1>3
  <2>3. \A b \in Assemblies : LetBe(b)
    BY <1>1, <2>2 DEF Enqueue, LeaseExpires, BecomesDue, EligibleRow, AbsentRow, LetBe, Rows
  <2> QED
    BY <2>1, <2>3
<1>4. ASSUME NEW w \in Workers, Reconcile(w) \/ Replenish(w)
      PROVE  /\ \A v \in Workers : GoesOn(v)
             /\ \A a \in Assemblies : LetBe(a)
  <2>1. \A v \in Workers : GoesOn(v)
    BY <1>4, StillGoesOn DEF Reconcile, Replenish
  <2>2. \A a \in Assemblies : /\ CompletedRow(a, row[a]).lockedBy = None
                              /\ CompletedRow(a, row[a]).count = Cardinality(TraitsOf[a])
    BY <1>1, WrittenRows, ConstantTypes
  <2>3. EligibleRow.lockedBy = None /\ EligibleRow.count = 0
    BY DEF EligibleRow, AbsentRow
  <2>4. \A a \in Assemblies : LetBe(a)
    BY <1>4, <2>2, <2>3 DEF Reconcile, Replenish, Done, LetBe
  <2> QED
    BY <2>1, <2>4
<1>5. ASSUME NEW w \in Workers, Claim(w)
      PROVE  \E a \in Assemblies : ClaimedBy(w, a)
  <2>1. PICK a \in Assemblies :
          /\ row' = [row EXCEPT ![a].state = "submitted", ![a].lockedBy = w,
                               ![a].expired = FALSE]
          /\ \/ at' = [at EXCEPT ![w] = [Idle EXCEPT !.pc = "load", !.job = a,
                         !.attempts = row[a].attempts, !.count = row[a].count]]
             \/ UNCHANGED at
    BY <1>5 DEF Claim
  <2>2. /\ row'[a].lockedBy = w
        /\ row'[a].attempts = row[a].attempts /\ row'[a].count = row[a].count
        /\ \A b \in Assemblies : b # a => row'[b] = row[b]
    BY <1>1, <2>1 DEF Rows
  <2>3. at[w].pc = "idle"
    BY <1>5 DEF Claim
  <2>4. CASE at' = at
    BY <2>2, <2>3, <2>4 DEF ClaimedBy
  <2>5. CASE at' = [at EXCEPT ![w] = [Idle EXCEPT !.pc = "load", !.job = a,
                         !.attempts = row[a].attempts, !.count = row[a].count]]
    BY <1>1, <2>2, <2>5 DEF ClaimedBy, Idle
  <2> QED
    BY <2>1, <2>4, <2>5
<1>6. ASSUME NEW w \in Workers, EndJob(w)
      PROVE  /\ \A v \in Workers : GoesOn(v)
             /\ \A a \in Assemblies : LetBe(a)
  <2>1. CASE Count(w)
    <3>1. \A v \in Workers : GoesOn(v)
      BY <1>1, <2>1 DEF Count, GoesOn, Jobs
    <3> QED
      BY <1>2, <2>1, <3>1 DEF Count
  <2>2. CASE FaultEnd(w)
    BY <1>1, <1>2, <2>2 DEF FaultEnd, GoesOn
  <2>3. CASE Mark(w) \/ Fail(w)
    <3>1. at' = [at EXCEPT ![w] = Idle]
      BY <2>3 DEF Mark, Fail
    <3>2. \A v \in Workers : GoesOn(v)
      BY <1>1, <3>1 DEF GoesOn
    <3>3. \A a \in Assemblies : /\ MarkedRow(a, row[a]).lockedBy = None
                                /\ MarkedRow(a, row[a]).count = Cardinality(TraitsOf[a])
                                /\ FailedRow(at[w], row[a]).lockedBy = None
                                /\ FailedRow(at[w], row[a]).count = at[w].seen
      <4>1. \A a \in Assemblies : FailedRow(at[w], row[a]).count = at[w].seen
        BY <1>1 DEF FailedRow, Unlocked, Rows
      <4> QED
        BY <1>1, <4>1, WrittenRows
    <3>4. at[w].pc = "mark" => at[w].job \in sealed
      BY <1>1 DEF EvidenceInv, AllSupported, Supported
    <3>5. ASSUME NEW a \in Assemblies PROVE LetBe(a)
      <4>1. CASE row'[a] = row[a]
        BY <4>1 DEF LetBe
      <4>2. CASE Mark(w) /\ row'[a] # row[a]
        <5>1. at[w].job = a /\ row'[a] = MarkedRow(a, row[a]) /\ at[w].pc = "mark"
          BY <1>1, <4>2 DEF Mark
        <5> QED
          BY <3>3, <3>4, <5>1 DEF LetBe
      <4>3. CASE Fail(w) /\ row'[a] # row[a]
        <5>1. at[w].job = a /\ row'[a] = FailedRow(at[w], row[a]) /\ at[w].pc = "fail"
          BY <1>1, <4>3 DEF Fail
        <5> QED
          BY <3>3, <5>1 DEF LetBe
      <4> QED
        BY <2>3, <4>1, <4>2, <4>3
    <3> QED
      BY <3>2, <3>5
  <2> QED
    BY <1>6, <2>1, <2>2, <2>3 DEF EndJob
<1>7. ASSUME NEW d \in Direct, NEW a \in Assemblies, StartDirect(d, a)
      PROVE  /\ \A v \in Workers : GoesOn(v)
             /\ \A b \in Assemblies : LetBe(b)
  <2>1. \A v \in Workers : at'[v] = at[v]
    BY <1>1, <1>7, QueueAssumption DEF StartDirect, Procs
  <2> QED
    BY <1>2, <1>7, <2>1 DEF StartDirect, GoesOn
<1>8. ASSUME NEW p \in Procs, Activate(p)
      PROVE  /\ \A v \in Workers : GoesOn(v)
             /\ \A a \in Assemblies : LetBe(a)
  <2>1. UNCHANGED row
    BY <1>8 DEF Activate, Load, Enrich, Record, Send, Unready, Handle, ReplyOk, ReplyFailed,
                Mirror, Confirm, Settle, Bind, Seal, FaultActivation, FaultSeal, FaultSubmit
  <2> QED
    BY <1>1, <1>2, <1>8, <2>1, ActivateGoesOn
<1>9. ASSUME NEW s \in Servers, Restart(s) \/ CooldownOver(s)
      PROVE  /\ \A v \in Workers : GoesOn(v)
             /\ \A a \in Assemblies : LetBe(a)
  BY <1>1, <1>2, <1>9 DEF Restart, CooldownOver, GoesOn
<1>10. CASE ContextChanges \/ UNCHANGED vars
  BY <1>2, <1>10, StillGoesOn DEF ContextChanges, vars
<1> QED
  BY <1>3, <1>4, <1>5, <1>6, <1>7, <1>8, <1>9, <1>10 DEF Next

LEMMA AttemptsNext == EvidenceInv /\ AttemptsKnown /\ [Next]_vars => AttemptsKnown'
<1> SUFFICES ASSUME EvidenceInv, AttemptsKnown, [Next]_vars PROVE AttemptsKnown'
  OBVIOUS
<1>1. /\ None \notin Workers /\ None \notin Assemblies
      /\ Idle.pc = "idle" /\ Idle.job = None
      /\ at \in [Procs -> Jobs] /\ Workers \subseteq Procs
  BY QueueAssumption DEF Procs, Idle, EvidenceInv, Typed, TypeOK
<1>2. CASE /\ \A w \in Workers : GoesOn(w)
           /\ \A a \in Assemblies : LetBe(a)
  BY <1>1, <1>2 DEF AttemptsKnown, GoesOn, LetBe
<1>3. CASE \E w \in Workers, a \in Assemblies : ClaimedBy(w, a)
  <2>1. PICK w \in Workers, a \in Assemblies : ClaimedBy(w, a)
    BY <1>3
  <2>2. \A v \in Workers : v # w => at'[v] = at[v]
    BY <1>1, <2>1 DEF ClaimedBy
  <2> QED
    BY <1>1, <2>1, <2>2 DEF AttemptsKnown, ClaimedBy
<1> QED
  BY <1>2, <1>3, AttemptsSteps

LEMMA AttemptsAlways == Spec => []AttemptsKnown
<1>1. Init => AttemptsKnown
  BY QueueAssumption DEF Init, AttemptsKnown, AbsentRow, Idle, Procs
<1> QED
  BY <1>1, AttemptsNext, EvidenceAlways, PTL DEF Spec

\* However leases ran out, answers were lost and batches stayed partial: a row
\* is given up only for a failure that no retry can mend, or for an unknown one
\* that is the last of the attempts it is allowed.
THEOREM GivenUpOnlyForCause == Spec => GivenUpForCause
<1>1. ASSUME RowInv, AttemptsKnown, [Next]_vars, NEW a \in Assemblies,
             row[a].state # "permanent_failure", row'[a].state = "permanent_failure"
      PROVE  \E w \in Workers :
               /\ at[w].job = a /\ row[a].lockedBy = w
               /\ \/ at[w].err \in {"conflict", "terminal"}
                  \/ at[w].err = "unknown" /\ row[a].attempts + 1 >= UnknownLimit
  <2>1. /\ RowStep(a) /\ row[a] \in Rows
        /\ \A w \in Workers : at[w] \in Jobs
    BY <1>1, RowNext DEF RowInv, EvidenceInv, Typed, TypeOK, Procs
  <2>2. ~Same(a) /\ ~Inserted(a) /\ ~Claimed(a) /\ ~Reconciled(a)
    BY <1>1, <2>1, WrittenRows, ConstantTypes DEF Same, Inserted, Claimed, Reconciled
  <2>3. PICK w \in Workers :
          /\ row[a].lockedBy = w /\ at[w].job = a
          /\ \/ row'[a] = MarkedRow(a, row[a])
             \/ row'[a] = FailedRow(at[w], row[a])
    BY <2>1, <2>2 DEF RowStep, Ended
  <2>4. row'[a] = FailedRow(at[w], row[a])
    BY <1>1, <2>1, <2>3, WrittenRows
  <2>5. FailedRow(at[w], row[a]).state = FailedState(at[w].err, at[w].attempts, at[w].seen)
    BY <2>1 DEF FailedRow, Unlocked, Rows
  <2>6. Terminal(at[w].err, at[w].attempts)
    BY <1>1, <2>4, <2>5 DEF FailedState
  <2>7. at[w].attempts = row[a].attempts
    BY <1>1, <2>3 DEF AttemptsKnown
  <2> QED
    BY <2>3, <2>6, <2>7 DEF Terminal
<1>2. RowInv /\ AttemptsKnown /\ [Next]_vars =>
        [\A a \in Assemblies :
           row[a].state # "permanent_failure" /\ row'[a].state = "permanent_failure"
           => \E w \in Workers :
                /\ at[w].job = a /\ row[a].lockedBy = w
                /\ \/ at[w].err \in {"conflict", "terminal"}
                   \/ at[w].err = "unknown" /\ row[a].attempts + 1 >= UnknownLimit]_vars
  BY <1>1
<1> QED
  BY <1>2, RowAlways, AttemptsAlways, PTL DEF Spec, GivenUpForCause
-----------------------------------------------------------------------------
(* The progress a row reports *)

\* What rows report and workers have counted is there.
CountsKnown ==
    /\ \A a \in Assemblies : row[a].count <= Observed(a)
    /\ \A w \in Workers, a \in Assemblies : at[w].job = a =>
         /\ at[w].count <= Observed(a)
         /\ at[w].pc = "fail" => at[w].seen <= Observed(a)

\* Bindings are only added, and a sealed assembly has all of them.
LEMMA ObservedGrows ==
    ASSUME EvidenceInv, [Next]_vars, NEW a \in Assemblies
    PROVE  /\ Observed(a) \in Nat /\ Observed(a)' \in Nat /\ Observed(a) <= Observed(a)'
           /\ a \in sealed => Observed(a) = Cardinality(TraitsOf[a])
<1>1. EvidenceStep
  BY EvidenceNext
<1>2. TraitsOf[a] \subseteq Traits /\ IsFiniteSet(TraitsOf[a])
  BY ConstantTypes, QueueAssumption, FS_Subset
<1>3. /\ IsFiniteSet(Bound(a)) /\ IsFiniteSet(Bound(a)')
      /\ Bound(a) \subseteq TraitsOf[a] /\ Bound(a)' \subseteq TraitsOf[a]
  BY <1>2, FS_Subset DEF Bound
<1>4. Bound(a) \subseteq Bound(a)'
  <2>1. \A t \in TraitsOf[a] : <<a, t>> \in Requests
    BY <1>2 DEF Requests
  <2>2. None \notin Requests
    BY NoneIsNoHash DEF EvidenceInv
  <2>3. \A t \in TraitsOf[a] : <<a, t>> # None
    BY <2>1, <2>2
  <2> QED
    BY <1>1, <1>2, <2>3 DEF Bound, EvidenceStep, Grows
<1>5. /\ Cardinality(Bound(a)) \in Nat /\ Cardinality(Bound(a)') \in Nat
      /\ Cardinality(Bound(a)) <= Cardinality(Bound(a)')
  BY <1>3, <1>4, FS_CardinalityType, FS_Subset
<1>6. a \in sealed => Bound(a) = TraitsOf[a]
  BY DEF EvidenceInv, Evidence, SealedIsBound, Bound
<1> QED
  BY <1>5, <1>6 DEF Observed

LEMMA CountsNext == EvidenceInv /\ CountsKnown /\ [Next]_vars => CountsKnown'
<1> SUFFICES ASSUME EvidenceInv, CountsKnown, [Next]_vars PROVE CountsKnown'
  OBVIOUS
<1>1. /\ None \notin Assemblies /\ Idle.job = None
      /\ at \in [Procs -> Jobs] /\ Workers \subseteq Procs
      /\ row \in [Assemblies -> Rows]
  BY QueueAssumption DEF Procs, Idle, EvidenceInv, Typed, TypeOK
<1>2. \A a \in Assemblies : row[a].count \in Nat
  BY <1>1 DEF Rows
<1>3. \A w \in Workers : at[w].count \in Nat /\ at[w].seen \in Nat
  BY <1>1 DEF Jobs
<1>4. \A a \in Assemblies :
        /\ Observed(a) \in Nat /\ Observed(a)' \in Nat /\ Observed(a) <= Observed(a)'
        /\ a \in sealed => Observed(a) = Cardinality(TraitsOf[a])
  BY ObservedGrows
<1>5. CASE /\ \A w \in Workers : GoesOn(w)
           /\ \A a \in Assemblies : LetBe(a)
  <2>1. ASSUME NEW a \in Assemblies PROVE row'[a].count <= Observed(a)'
    <3>1. row'[a].count \in Nat /\ row'[a].count <= Observed(a)
      BY <1>2, <1>3, <1>4, <1>5 DEF LetBe, CountsKnown
    <3> QED
      BY <1>4, <3>1
  <2>2. ASSUME NEW w \in Workers, NEW a \in Assemblies, at'[w].job = a
        PROVE  /\ at'[w].count <= Observed(a)'
               /\ at'[w].pc = "fail" => at'[w].seen <= Observed(a)'
    <3>1. at'[w] # Idle
      BY <1>1, <2>2
    <3>2. /\ at[w].job = a /\ at'[w].count = at[w].count
          /\ at'[w].pc = "fail" =>
               \/ at[w].pc = "fail" /\ at'[w].seen = at[w].seen
               \/ at'[w].seen \in {at[w].count, Observed(a)}
      BY <1>5, <2>2, <3>1 DEF GoesOn
    <3>3. at[w].count <= Observed(a) /\ (at[w].pc = "fail" => at[w].seen <= Observed(a))
      BY <3>2 DEF CountsKnown
    <3>4. at'[w].count <= Observed(a)'
      BY <1>3, <1>4, <3>2, <3>3
    <3>5. ASSUME at'[w].pc = "fail" PROVE at'[w].seen <= Observed(a)'
      BY <1>3, <1>4, <3>2, <3>3, <3>5
    <3> QED
      BY <3>4, <3>5
  <2> QED
    BY <2>1, <2>2 DEF CountsKnown
<1>6. ASSUME NEW v \in Workers, NEW b \in Assemblies, ClaimedBy(v, b)
      PROVE  CountsKnown'
  <2>1. ASSUME NEW a \in Assemblies PROVE row'[a].count <= Observed(a)'
    <3>1. row'[a].count = row[a].count
      BY <1>6 DEF ClaimedBy
    <3> QED
      BY <1>2, <1>4, <3>1 DEF CountsKnown
  <2>2. ASSUME NEW w \in Workers, NEW a \in Assemblies, at'[w].job = a
        PROVE  /\ at'[w].count <= Observed(a)'
               /\ at'[w].pc = "fail" => at'[w].seen <= Observed(a)'
    <3>1. CASE at'[w] = at[w]
      BY <1>3, <1>4, <2>2, <3>1 DEF CountsKnown
    <3>2. CASE at'[w] # at[w]
      <4>1. w = v
        BY <1>1, <1>6, <3>2 DEF ClaimedBy
      <4>2. a = b /\ at'[w].pc = "load" /\ at'[w].count = row[a].count
        BY <1>6, <2>2, <3>2, <4>1 DEF ClaimedBy
      <4> QED
        BY <1>2, <1>4, <4>2 DEF CountsKnown
    <3> QED
      BY <3>1, <3>2
  <2> QED
    BY <2>1, <2>2 DEF CountsKnown
<1> QED
  BY <1>5, <1>6, AttemptsSteps

\* However late and by whichever worker it is written, a row never reports more
\* receipts than the assembly has bindings (fail_job_for_processing_error).
THEOREM CountsAreReal == Spec => []CountNeverOverstates
<1>1. Init => CountsKnown
  <2> SUFFICES ASSUME Init PROVE CountsKnown
    OBVIOUS
  <2>1. \A a \in Assemblies : Observed(a) \in Nat
    <3> SUFFICES ASSUME NEW a \in Assemblies PROVE Observed(a) \in Nat
      OBVIOUS
    <3>1. IsFiniteSet(Bound(a))
      <4>1. Bound(a) \subseteq Traits
        BY ConstantTypes DEF Bound
      <4> QED
        BY <4>1, QueueAssumption, FS_Subset
    <3> QED
      BY <3>1, FS_CardinalityType DEF Observed
  <2>2. \A w \in Workers : at[w] = Idle
    BY DEF Init, Procs
  <2>3. \A a \in Assemblies : row[a].count = 0
    BY DEF Init, AbsentRow
  <2>4. Idle.job = None /\ None \notin Assemblies
    BY QueueAssumption DEF Idle
  <2> QED
    BY <2>1, <2>2, <2>3, <2>4 DEF CountsKnown
<1>2. CountsKnown => CountNeverOverstates
  BY DEF CountsKnown, CountNeverOverstates, Observed, Bound
<1> QED
  BY <1>1, <1>2, CountsNext, EvidenceAlways, PTL DEF Spec
=============================================================================
