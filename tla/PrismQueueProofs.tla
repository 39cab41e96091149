-------------------------- MODULE PrismQueueProofs --------------------------
(***************************************************************************)
(* Proofs about PrismQueue, for every value of its constants: its types,    *)
(* and the budget of new submissions that every worker has.                 *)
(***************************************************************************)
EXTENDS PrismQueue, FiniteSetTheorems, TLAPS

Sending == {"record", "send", "wait", "mirror", "confirm", "settle", "bind"}
Batching == {"enrich", "seal"} \cup Sending

\* What a process that is not idle carries is part of one assembly.
JobFine(j) ==
    /\ j.pc # "idle" => j.job \in Assemblies
    /\ j.pc \in Batching => j.todo \subseteq TraitsOf[j.job]
    /\ j.pc \in Sending => j.trait \in j.todo

JobsFine == \A p \in Procs : JobFine(at[p])

Typed == TypeOK /\ JobsFine
-----------------------------------------------------------------------------
LEMMA ConstantTypes ==
    /\ TraitsOf \in [Assemblies -> SUBSET Traits]
    /\ 0 \in Hashes /\ Hashes \subseteq Nat
    /\ Idle \in Jobs /\ JobFine(Idle)
    /\ AbsentRow \in Rows /\ EligibleRow \in Rows
    /\ \A p \in Procs : ServerOf[p] \in Servers
<1>1. TraitsOf \in [Assemblies -> SUBSET Traits]
  BY QueueAssumption
<1>2. 0 \in Hashes /\ Hashes \subseteq Nat
  BY QueueAssumption DEF Hashes
<1>3. Idle \in Jobs /\ JobFine(Idle)
  BY <1>2 DEF Idle, Jobs, Steps, Classes, JobFine, Batching, Sending
<1>4. AbsentRow \in Rows /\ EligibleRow \in Rows
  BY DEF AbsentRow, EligibleRow, Rows, States
<1>5. \A p \in Procs : ServerOf[p] \in Servers
  BY QueueAssumption
<1> QED
  BY <1>1, <1>2, <1>3, <1>4, <1>5

\* The request a process is working on exists.
LEMMA ReqType ==
    ASSUME Typed, NEW p \in Procs, at[p].pc \in Sending
    PROVE  /\ Req(p) \in Requests
           /\ at[p].trait \in Traits /\ at[p].job \in Assemblies
           /\ at[p].trait \in TraitsOf[at[p].job]
<1>1. at[p] \in Jobs /\ JobFine(at[p])
  BY DEF Typed, TypeOK, JobsFine
<1>2. at[p].job \in Assemblies /\ at[p].trait \in TraitsOf[at[p].job]
  BY <1>1 DEF JobFine, Sending, Batching
<1>3. at[p].trait \in Traits
  BY <1>2, ConstantTypes
<1> QED
  BY <1>2, <1>3 DEF Req, Requests

\* One process moves to a well-typed place.
LEMMA MoveTyped ==
    ASSUME Typed, NEW p \in Procs, NEW j \in Jobs, JobFine(j),
           at' = [at EXCEPT ![p] = j]
    PROVE  at' \in [Procs -> Jobs] /\ JobsFine'
  BY DEF Typed, TypeOK, JobsFine, JobFine

\* An exception leaves a well-typed process behind.
LEMMA ThrowTyped ==
    ASSUME Typed, NEW p \in Procs, at[p].pc # "idle",
           NEW class \in Classes, Throw(p, class)
    PROVE  at' \in [Procs -> Jobs] /\ JobsFine'
<1> DEFINE j == IF p \in Workers THEN [at[p] EXCEPT !.pc = "count", !.err = class]
                ELSE Idle
<1>1. at[p] \in Jobs /\ JobFine(at[p])
  BY DEF Typed, TypeOK, JobsFine
<1>2. j \in Jobs
  <2>1. CASE p \in Workers
    BY <1>1, <2>1 DEF Jobs, Steps
  <2>2. CASE p \notin Workers
    BY <2>2, ConstantTypes
  <2> QED
    BY <2>1, <2>2
<1>3. JobFine(j)
  BY <1>1, ConstantTypes DEF JobFine, Jobs, Batching, Sending
<1>4. at' = [at EXCEPT ![p] = j]
  BY DEF Throw
<1> QED
  BY <1>2, <1>3, <1>4, MoveTyped

\* So does the step to the next trait.
LEMMA AdvanceTyped ==
    ASSUME Typed, NEW p \in Procs, at[p].pc # "idle",
           NEW todo \in SUBSET TraitsOf[at[p].job], NEW partial \in BOOLEAN,
           Advance(p, todo, partial)
    PROVE  at' \in [Procs -> Jobs] /\ JobsFine'
<1>1. CASE todo = {} /\ partial
  BY <1>1, ThrowTyped DEF Advance, Classes
<1>2. CASE ~(todo = {} /\ partial)
  <2> DEFINE j == [at[p] EXCEPT !.pc = IF todo = {} THEN "seal" ELSE "enrich",
                                !.todo = todo, !.partial = partial]
  <2>1. at[p] \in Jobs /\ JobFine(at[p])
    BY DEF Typed, TypeOK, JobsFine
  <2>2. todo \in SUBSET Traits
    BY <2>1, ConstantTypes DEF JobFine
  <2>3. j \in Jobs /\ JobFine(j)
    BY <2>1, <2>2 DEF Jobs, Steps, JobFine, Batching, Sending
  <2>4. at' = [at EXCEPT ![p] = j]
    BY <1>2, <2>1 DEF Advance, Typed, TypeOK
  <2> QED
    BY <2>3, <2>4, MoveTyped
<1> QED
  BY <1>1, <1>2
-----------------------------------------------------------------------------
\* Counts are numbers because there are finitely many traits.
LEMMA CountType ==
    ASSUME NEW a \in Assemblies
    PROVE  /\ Cardinality(TraitsOf[a]) \in Nat
           /\ Observed(a) \in Nat
<1>1. IsFiniteSet(Traits) /\ TraitsOf[a] \subseteq Traits
  BY QueueAssumption
<1>2. IsFiniteSet(TraitsOf[a]) /\ IsFiniteSet(Bound(a))
  BY <1>1, FS_Subset DEF Bound
<1> QED
  BY <1>2, FS_CardinalityType DEF Observed

LEMMA CompletedRowType ==
    ASSUME NEW a \in Assemblies, NEW r \in Rows
    PROVE  CompletedRow(a, r) \in Rows
  BY CountType DEF CompletedRow, Unlocked, Rows, States

LEMMA FailedRowType ==
    ASSUME NEW j \in Jobs, NEW r \in Rows
    PROVE  FailedRow(j, r) \in Rows
<1> DEFINE new == FailedState(j.err, j.attempts, j.seen)
           u == Unlocked(r)
           n == u.attempts + 1
           due == IF new = "permanent_failure" THEN u.due ELSE FALSE
<1>1. new \in States
  BY DEF FailedState, States
<1>2. u \in Rows /\ j.seen \in Nat
  BY DEF Unlocked, Rows, Jobs
<1>3. n \in Nat /\ u.due \in BOOLEAN
  BY <1>2 DEF Rows
<1>4. due \in BOOLEAN
  BY <1>3
<1>5. [u EXCEPT !.state = new, !.count = j.seen, !.attempts = n, !.due = due] \in Rows
  <2> HIDE DEF new, u, n, due
  <2> QED
    BY <1>1, <1>2, <1>3, <1>4 DEF Rows
<1>6. FailedRow(j, r)
        = [u EXCEPT !.state = new, !.count = j.seen, !.attempts = n, !.due = due]
  BY DEF FailedRow
<1> QED
  BY <1>5, <1>6

\* Recording a request keeps its tables well typed.
LEMMA RecordTyped ==
    ASSUME Typed, NEW r, NEW h \in Hashes, Recorded(r, h)
    PROVE  /\ request' \in [Requests -> Hashes \cup {None}]
           /\ bridge' \in [Requests -> {None, "pending", "completed", "degraded",
                                        "permanent_failure"}]
  BY DEF Recorded, Typed, TypeOK

LEMMA EnrichTyped ==
    ASSUME Typed, NEW p \in Procs, Enrich(p)
    PROVE  Typed'
<1>1. CASE ~GateOpen
  <2>1. at' \in [Procs -> Jobs] /\ JobsFine'
    BY <1>1, ThrowTyped DEF Enrich, Classes
  <2> QED
    BY <1>1, <2>1 DEF Typed, TypeOK, Enrich, evidence, memory
<1>2. CASE GateOpen
  <2>1. PICK t \in at[p].todo, h \in 0..context :
          at' = [at EXCEPT ![p].pc = "record", ![p].trait = t, ![p].hash = h,
                           ![p].blind = request[<<at[p].job, t>>] = None]
    BY <1>2 DEF Enrich
  <2>2. /\ at[p] \in Jobs /\ JobFine(at[p]) /\ at[p].pc = "enrich"
        /\ at \in [Procs -> Jobs]
    BY DEF Typed, TypeOK, JobsFine, Enrich
  <2>3. h \in Hashes
    BY QueueAssumption DEF Typed, TypeOK, Hashes
  <2> DEFINE b == request[<<at[p].job, t>>] = None
             j == [at[p] EXCEPT !.pc = "record", !.trait = t, !.hash = h, !.blind = b]
  <2>4. t \in Traits /\ b \in BOOLEAN
    BY <2>2 DEF Jobs
  <2>5. at' = [at EXCEPT ![p] = j]
    BY <2>1, <2>2
  <2>6. j \in Jobs /\ JobFine(j)
    <3> HIDE DEF b
    <3> QED
      BY <2>2, <2>3, <2>4 DEF Jobs, Steps, JobFine, Batching, Sending
  <2>7. at' \in [Procs -> Jobs] /\ JobsFine'
    BY <2>5, <2>6, MoveTyped
  <2> QED
    BY <2>7 DEF Typed, TypeOK, Enrich, evidence, memory
<1> QED
  BY <1>1, <1>2

LEMMA RecordStepTyped ==
    ASSUME Typed, NEW p \in Procs, Record(p)
    PROVE  Typed'
<1>1. /\ at[p] \in Jobs /\ JobFine(at[p]) /\ at[p].pc = "record"
      /\ at \in [Procs -> Jobs] /\ at[p].hash \in Hashes
  BY DEF Typed, TypeOK, JobsFine, Record, Jobs
<1>2. /\ request' \in [Requests -> Hashes \cup {None}]
      /\ bridge' \in [Requests -> {None, "pending", "completed", "degraded",
                                   "permanent_failure"}]
  BY <1>1, RecordTyped DEF Record
<1>3. at' \in [Procs -> Jobs] /\ JobsFine'
  <2>1. CASE SameInput(p)
    <3> DEFINE j == [at[p] EXCEPT !.pc = "send", !.blind = FALSE]
    <3>1. j \in Jobs /\ JobFine(j)
      BY <1>1 DEF Jobs, Steps, JobFine, Batching, Sending
    <3>2. at' = [at EXCEPT ![p] = j]
      BY <1>1, <2>1 DEF Record
    <3> QED
      BY <3>1, <3>2, MoveTyped
  <2>2. CASE ~SameInput(p)
    BY <1>1, <2>2, ThrowTyped DEF Record, Classes
  <2> QED
    BY <2>1, <2>2
<1> QED
  BY <1>2, <1>3 DEF Typed, TypeOK, Record, memory

LEMMA SendTyped ==
    ASSUME Typed, NEW p \in Procs, Send(p)
    PROVE  Typed'
<1>1. at[p] \in Jobs /\ JobFine(at[p]) /\ at[p].pc = "send"
  BY DEF Typed, TypeOK, JobsFine, Send
<1>2. Req(p) \in Requests /\ at[p].job \in Assemblies
  BY <1>1, ReqType DEF Sending
<1>3. CASE ~Admits(ServerOf[p]) \/ Overdrawn(p)
  <2> DEFINE j == [at[p] EXCEPT !.pc = "settle", !.err = "transient"]
  <2>1. j \in Jobs /\ JobFine(j)
    BY <1>1 DEF Jobs, Steps, Classes, JobFine, Batching, Sending
  <2>2. at' = [at EXCEPT ![p] = j]
    BY <1>3 DEF Send, Typed, TypeOK
  <2>3. at' \in [Procs -> Jobs] /\ JobsFine'
    BY <2>1, <2>2, MoveTyped
  <2> QED
    BY <1>3, <2>3 DEF Typed, TypeOK, Send, evidence
<1>4. CASE Admits(ServerOf[p]) /\ ~Overdrawn(p)
  <2> DEFINE j == [at[p] EXCEPT !.pc = "wait"]
  <2>1. j \in Jobs /\ JobFine(j)
    BY <1>1 DEF Jobs, Steps, JobFine, Batching, Sending
  <2>2. at' = [at EXCEPT ![p] = j]
    BY <1>4 DEF Send, Typed, TypeOK
  <2>3. at' \in [Procs -> Jobs] /\ JobsFine'
    BY <2>1, <2>2, MoveTyped
  <2>4. budget' \in [Workers -> 0..MaxNew]
    <3>1. budget' = [w \in Workers |-> IF w = p THEN budget[w] - Price(w) ELSE budget[w]]
      BY <1>4 DEF Send
    <3>2. p \in Workers => Price(p) = 0 \/ (Price(p) = 1 /\ budget[p] # 0)
      BY <1>4 DEF Overdrawn, Price
    <3> QED
      BY <3>1, <3>2, QueueAssumption DEF Typed, TypeOK
  <2>5. charged' \in [Workers -> SUBSET Requests]
    BY <1>2, <1>4 DEF Send, Typed, TypeOK
  <2>6. retryable' \in [Workers -> SUBSET Assemblies]
    BY <1>2, <1>4 DEF Send, Typed, TypeOK
  <2> QED
    BY <1>4, <2>3, <2>4, <2>5, <2>6 DEF Typed, TypeOK, Send, evidence
<1> QED
  BY <1>3, <1>4

-----------------------------------------------------------------------------
\* Types, one lemma per group of actions.

LEMMA TypedTables ==
    ASSUME Typed,
           \/ \E a \in Assemblies : Enqueue(a) \/ LeaseExpires(a) \/ BecomesDue(a)
           \/ \E w \in Workers : Reconcile(w) \/ Replenish(w)
           \/ \E s \in Servers : CooldownOver(s)
           \/ ContextChanges
           \/ UNCHANGED vars
    PROVE  Typed'
<1>1. row \in [Assemblies -> Rows]
  BY DEF Typed, TypeOK
<1>2. JobsFine' \/ at' # at
  BY DEF Typed, JobsFine, JobFine
<1>3. ASSUME NEW a \in Assemblies, Enqueue(a) PROVE Typed'
  BY <1>1, <1>2, <1>3, ConstantTypes
     DEF Typed, TypeOK, Enqueue, evidence, memory
<1>4. ASSUME NEW a \in Assemblies, LeaseExpires(a) PROVE Typed'
  <2>1. row' \in [Assemblies -> Rows]
    BY <1>1, <1>4 DEF LeaseExpires, Rows
  <2> QED
    BY <2>1, <1>2, <1>4 DEF Typed, TypeOK, LeaseExpires, evidence, memory
<1>5. ASSUME NEW a \in Assemblies, BecomesDue(a) PROVE Typed'
  <2>1. row' \in [Assemblies -> Rows]
    BY <1>1, <1>5 DEF BecomesDue, Rows
  <2> QED
    BY <2>1, <1>2, <1>5 DEF Typed, TypeOK, BecomesDue, evidence, memory
<1>6. ASSUME NEW w \in Workers, Reconcile(w) PROVE Typed'
  <2>1. \A a \in Assemblies : CompletedRow(a, row[a]) \in Rows
    BY <1>1, CompletedRowType
  <2>2. row' \in [Assemblies -> Rows]
    BY <1>1, <1>6, <2>1 DEF Reconcile
  <2> QED
    BY <2>2, <1>2, <1>6 DEF Typed, TypeOK, Reconcile, evidence, memory
<1>7. ASSUME NEW w \in Workers, Replenish(w) PROVE Typed'
  BY <1>1, <1>2, <1>7, ConstantTypes
     DEF Typed, TypeOK, Replenish, evidence, memory
<1>8. ASSUME NEW s \in Servers, CooldownOver(s) PROVE Typed'
  BY <1>2, <1>8 DEF Typed, TypeOK, CooldownOver, evidence, memory
<1>9. CASE ContextChanges
  BY <1>2, <1>9, QueueAssumption
     DEF Typed, TypeOK, ContextChanges, Hashes, evidence, memory
<1>10. CASE UNCHANGED vars
  BY <1>2, <1>10 DEF Typed, TypeOK, vars, evidence, memory
<1> QED
  BY <1>3, <1>4, <1>5, <1>6, <1>7, <1>8, <1>9, <1>10

LEMMA TypedStarts ==
    ASSUME Typed,
           \/ \E w \in Workers : Claim(w)
           \/ \E d \in Direct, a \in Assemblies : StartDirect(d, a)
           \/ \E p \in Procs : Load(p) \/ Enrich(p) \/ Record(p) \/ Send(p) \/ Unready(p)
    PROVE  Typed'
<1>1. ASSUME NEW w \in Workers, Claim(w) PROVE Typed'
  <2>1. PICK a \in Assemblies :
          /\ row' = [row EXCEPT ![a].state = "submitted", ![a].lockedBy = w,
                               ![a].expired = FALSE]
          /\ \/ /\ at' = [at EXCEPT ![w] = [Idle EXCEPT !.pc = "load", !.job = a,
                           !.attempts = row[a].attempts, !.count = row[a].count]]
                /\ UNCHANGED faults
             \/ Spend /\ UNCHANGED at
    BY <1>1 DEF Claim
  <2>2. row \in [Assemblies -> Rows]
    BY DEF Typed, TypeOK
  <2>3. row' \in [Assemblies -> Rows]
    <3>1. [row[a] EXCEPT !.state = "submitted", !.lockedBy = w, !.expired = FALSE]
            \in Rows
      BY <2>2 DEF Rows, States
    <3> QED
      BY <2>1, <2>2, <3>1
  <2>4. CASE UNCHANGED at /\ Spend
    <3>1. JobsFine' /\ faults' \in 0..MaxFaults
      BY <2>4, QueueAssumption DEF Typed, TypeOK, JobsFine, JobFine, Spend
    <3> QED
      BY <1>1, <2>3, <2>4, <3>1 DEF Typed, TypeOK, Claim, evidence, memory
  <2> DEFINE j == [Idle EXCEPT !.pc = "load", !.job = a,
                     !.attempts = row[a].attempts, !.count = row[a].count]
  <2>5. CASE at' = [at EXCEPT ![w] = j] /\ UNCHANGED faults
    <3>1. j \in Jobs /\ JobFine(j)
      BY <2>2, ConstantTypes DEF Jobs, Steps, Rows, JobFine, Batching, Sending, Idle
    <3>2. at' \in [Procs -> Jobs] /\ JobsFine'
      BY <2>5, <3>1, MoveTyped DEF Procs
    <3> QED
      BY <1>1, <2>3, <2>5, <3>2 DEF Typed, TypeOK, Claim, evidence, memory
  <2> QED
    BY <2>1, <2>4, <2>5
<1>2. ASSUME NEW d \in Direct, NEW a \in Assemblies, StartDirect(d, a) PROVE Typed'
  <2>1. [Idle EXCEPT !.pc = "load", !.job = a] \in Jobs
    BY ConstantTypes DEF Jobs, Steps
  <2>2. JobFine([Idle EXCEPT !.pc = "load", !.job = a])
    BY DEF JobFine, Batching, Sending, Idle
  <2>3. at' \in [Procs -> Jobs] /\ JobsFine'
    BY <1>2, <2>1, <2>2, MoveTyped DEF StartDirect, Procs
  <2> QED
    BY <1>2, <2>3 DEF Typed, TypeOK, StartDirect, evidence, memory
<1>3. ASSUME NEW p \in Procs, Load(p) PROVE Typed'
  <2>1. PICK todo \in SUBSET (TraitsOf[at[p].job] \ Bound(at[p].job)) :
          Advance(p, todo, todo # TraitsOf[at[p].job] \ Bound(at[p].job))
    BY <1>3 DEF Load
  <2>2. at' \in [Procs -> Jobs] /\ JobsFine'
    BY <1>3, <2>1, AdvanceTyped DEF Load
  <2> QED
    BY <1>3, <2>2 DEF Typed, TypeOK, Load, evidence, memory
<1>4. ASSUME NEW p \in Procs, Enrich(p) PROVE Typed'
  BY <1>4, EnrichTyped
<1>5. ASSUME NEW p \in Procs, Send(p) PROVE Typed'
  BY <1>5, SendTyped
<1>6. ASSUME NEW p \in Procs, Unready(p) PROVE Typed'
  <2>1. PICK class \in {"authentication", "terminal"} :
          at' = [at EXCEPT ![p].pc = "settle", ![p].err = class]
    BY <1>6 DEF Unready
  <2> DEFINE j == [at[p] EXCEPT !.pc = "settle", !.err = class]
  <2>2. at[p] \in Jobs /\ JobFine(at[p]) /\ at[p].pc = "send" /\ at \in [Procs -> Jobs]
    BY <1>6 DEF Unready, Typed, TypeOK, JobsFine
  <2>3. j \in Jobs /\ JobFine(j)
    BY <2>2 DEF Jobs, Steps, Classes, JobFine, Batching, Sending
  <2>4. at' = [at EXCEPT ![p] = j]
    BY <2>1, <2>2
  <2>5. at' \in [Procs -> Jobs] /\ JobsFine'
    BY <2>3, <2>4, MoveTyped
  <2>6. faults' \in 0..MaxFaults
    BY <1>6, QueueAssumption DEF Unready, Spend, Typed, TypeOK
  <2> QED
    BY <1>6, <2>5, <2>6 DEF Typed, TypeOK, Unready, evidence, memory
<1>7. ASSUME NEW p \in Procs, Record(p) PROVE Typed'
  BY <1>7, RecordStepTyped
<1> QED
  BY <1>1, <1>2, <1>3, <1>4, <1>5, <1>6, <1>7

LEMMA TypedReplies ==
    ASSUME Typed, NEW p \in Procs,
           \/ Handle(p) \/ ReplyOk(p) \/ ReplyFailed(p)
           \/ Mirror(p) \/ Confirm(p) \/ Settle(p)
    PROVE  Typed'
<1> DEFINE Went(j) == j \in Jobs /\ JobFine(j) /\ at' = [at EXCEPT ![p] = j]
<1>1. at[p] \in Jobs /\ JobFine(at[p]) /\ at \in [Procs -> Jobs]
  BY DEF Typed, TypeOK, JobsFine
<1>2. CASE ReplyOk(p)
  <2>1. Went([at[p] EXCEPT !.pc = "mirror"])
    BY <1>1, <1>2 DEF ReplyOk, Jobs, Steps, JobFine, Batching, Sending
  <2>2. at' \in [Procs -> Jobs] /\ JobsFine'
    BY <2>1, MoveTyped
  <2> QED
    BY <1>2, <2>2 DEF Typed, TypeOK, ReplyOk, evidence
<1>3. CASE ReplyFailed(p)
  <2>1. PICK class \in {"transient", "authentication", "terminal"} :
          /\ at' = [at EXCEPT ![p].pc = "settle", ![p].err = class]
          /\ circuit' = IF class = "transient"
                        THEN [circuit EXCEPT ![ServerOf[p]] = "open"] ELSE circuit
    BY <1>3 DEF ReplyFailed
  <2>2. Went([at[p] EXCEPT !.pc = "settle", !.err = class])
    BY <1>1, <1>3, <2>1
       DEF ReplyFailed, Jobs, Steps, Classes, JobFine, Batching, Sending
  <2>3. at' \in [Procs -> Jobs] /\ JobsFine'
    BY <2>2, MoveTyped
  <2>5. faults' \in 0..MaxFaults
    BY <1>3, QueueAssumption DEF ReplyFailed, Spend, Typed, TypeOK
  <2>6. circuit' \in [Servers -> {"closed", "half_open", "open"}]
    BY <2>1 DEF Typed, TypeOK
  <2> QED
    BY <1>3, <2>3, <2>5, <2>6 DEF Typed, TypeOK, ReplyFailed, evidence
<1>4. CASE Mirror(p)
  <2>1. Went([at[p] EXCEPT !.pc = "confirm"])
    BY <1>1, <1>4 DEF Mirror, Jobs, Steps, JobFine, Batching, Sending
  <2>2. at' \in [Procs -> Jobs] /\ JobsFine'
    BY <2>1, MoveTyped
  <2>3. receipt' \in [Requests -> Hashes \cup {None}]
    <3>1. at[p].hash \in Hashes
      BY <1>1 DEF Jobs
    <3> QED
      BY <1>4, <3>1 DEF Mirror, Typed, TypeOK
  <2> QED
    BY <1>4, <2>2, <2>3 DEF Typed, TypeOK, Mirror, memory
<1>5. CASE Confirm(p)
  <2>1. Went([at[p] EXCEPT !.pc = "bind"])
    BY <1>1, <1>5 DEF Confirm, Jobs, Steps, JobFine, Batching, Sending
  <2>2. at' \in [Procs -> Jobs] /\ JobsFine'
    BY <2>1, MoveTyped
  <2> QED
    BY <1>5, <2>2 DEF Typed, TypeOK, Confirm, memory
<1>6. CASE Settle(p)
  <2>1. at[p].err \in Classes /\ at[p].pc # "idle"
    BY <1>1, <1>6 DEF Settle, Jobs
  <2>2. at' \in [Procs -> Jobs] /\ JobsFine'
    BY <1>6, <2>1, ThrowTyped DEF Settle
  <2> QED
    BY <1>6, <2>2 DEF Typed, TypeOK, Settle, FailRequest, BridgeState, memory
<1>7. CASE Handle(p)
  <2>1. JobsFine'
    BY <1>7 DEF Handle, Typed, JobsFine, JobFine
  <2>2. issued' \in [Requests -> Hashes \cup {None}]
    BY <1>1, <1>7 DEF Handle, Jobs, Typed, TypeOK
  <2> QED
    BY <1>7, <2>1, <2>2 DEF Typed, TypeOK, Handle, memory
<1> QED
  BY <1>2, <1>3, <1>4, <1>5, <1>6, <1>7

LEMMA TypedEnds ==
    ASSUME Typed, NEW p \in Procs,
           \/ Bind(p) \/ Seal(p)
           \/ p \in Workers /\ (Mark(p) \/ Count(p) \/ Fail(p))
    PROVE  Typed'
<1>1. at[p] \in Jobs /\ JobFine(at[p]) /\ at \in [Procs -> Jobs]
  BY DEF Typed, TypeOK, JobsFine
<1>2. CASE Bind(p)
  <2>1. at[p].pc = "bind" /\ Req(p) \in Requests /\ at[p].trait \in Traits
    BY <1>2, ReqType DEF Bind, Sending
  <2>2. binding' \in [Traits -> Requests \cup {None}]
    BY <1>2, <2>1 DEF Bind, Attach, Typed, TypeOK
  <2>3. at' \in [Procs -> Jobs] /\ JobsFine'
    <3>1. CASE Advance(p, at[p].todo \ {at[p].trait}, at[p].partial)
      <4>1. at[p].todo \ {at[p].trait} \in SUBSET TraitsOf[at[p].job]
        BY <1>1, <2>1 DEF JobFine, Batching, Sending
      <4>2. at[p].partial \in BOOLEAN
        BY <1>1 DEF Jobs
      <4> QED
        BY <2>1, <3>1, <4>1, <4>2, AdvanceTyped
    <3>2. CASE Throw(p, "terminal")
      BY <2>1, <3>2, ThrowTyped DEF Classes
    <3> QED
      BY <1>2, <3>1, <3>2 DEF Bind
  <2> QED
    BY <1>2, <2>2, <2>3 DEF Typed, TypeOK, Bind, memory
<1>3. CASE Seal(p)
  <2> DEFINE j == IF p \in Workers THEN [at[p] EXCEPT !.pc = "mark"] ELSE Idle
  <2>1. j \in Jobs
    <3>1. CASE p \in Workers
      BY <1>1, <3>1 DEF Jobs, Steps
    <3>2. CASE p \notin Workers
      BY <3>2, ConstantTypes
    <3> QED
      BY <3>1, <3>2
  <2>2. JobFine(j)
    BY <1>1, <1>3, ConstantTypes DEF Seal, JobFine, Jobs, Batching, Sending
  <2>3. at' \in [Procs -> Jobs] /\ JobsFine'
    BY <1>3, <2>1, <2>2, MoveTyped DEF Seal
  <2>4. at[p].job \in Assemblies
    BY <1>1, <1>3 DEF Seal, JobFine
  <2> QED
    BY <1>3, <2>3, <2>4 DEF Typed, TypeOK, Seal, memory
<1>4. CASE p \in Workers /\ Mark(p)
  <2>1. at' \in [Procs -> Jobs] /\ JobsFine'
    BY <1>4, ConstantTypes, MoveTyped DEF Mark
  <2>2. row' \in [Assemblies -> Rows]
    <3> DEFINE a == at[p].job
    <3>1. a \in Assemblies /\ row \in [Assemblies -> Rows]
      BY <1>1, <1>4 DEF Mark, JobFine, Typed, TypeOK
    <3>2. CompletedRow(a, row[a]) \in Rows
      BY <3>1, CompletedRowType
    <3>3. MarkedRow(a, row[a]) \in Rows
      BY <3>2 DEF MarkedRow, Rows
    <3> QED
      BY <1>4, <3>1, <3>3 DEF Mark
  <2> QED
    BY <1>4, <2>1, <2>2 DEF Typed, TypeOK, Mark, evidence
<1>5. CASE p \in Workers /\ Count(p)
  <2>1. PICK n \in {Observed(at[p].job), at[p].count} :
          at' = [at EXCEPT ![p].pc = "fail", ![p].seen = n]
    BY <1>5 DEF Count
  <2>2. n \in Nat
    BY <1>1, <1>5, <2>1, CountType DEF Count, JobFine, Jobs
  <2>3. /\ [at[p] EXCEPT !.pc = "fail", !.seen = n] \in Jobs
        /\ JobFine([at[p] EXCEPT !.pc = "fail", !.seen = n])
    BY <1>1, <1>5, <2>2 DEF Count, Jobs, Steps, JobFine, Batching, Sending
  <2>4. at' = [at EXCEPT ![p] = [at[p] EXCEPT !.pc = "fail", !.seen = n]]
    BY <1>1, <2>1
  <2>5. at' \in [Procs -> Jobs] /\ JobsFine'
    BY <2>3, <2>4, MoveTyped
  <2>6. faults' \in 0..MaxFaults
    BY <1>5, QueueAssumption DEF Count, Spend, Typed, TypeOK
  <2> QED
    BY <1>5, <2>5, <2>6 DEF Typed, TypeOK, Count, evidence
<1>6. CASE p \in Workers /\ Fail(p)
  <2>1. at' \in [Procs -> Jobs] /\ JobsFine'
    BY <1>6, ConstantTypes, MoveTyped DEF Fail
  <2>2. row' \in [Assemblies -> Rows]
    <3> DEFINE a == at[p].job
    <3>1. a \in Assemblies /\ row \in [Assemblies -> Rows]
      BY <1>1, <1>6 DEF Fail, JobFine, Typed, TypeOK
    <3>2. FailedRow(at[p], row[a]) \in Rows
      BY <1>1, <3>1, FailedRowType
    <3> QED
      BY <1>6, <3>1, <3>2 DEF Fail
  <2> QED
    BY <1>6, <2>1, <2>2 DEF Typed, TypeOK, Fail, evidence, memory
<1> QED
  BY <1>2, <1>3, <1>4, <1>5, <1>6

LEMMA TypedFaults ==
    ASSUME Typed, NEW p \in Procs,
           \/ FaultActivation(p) \/ FaultSeal(p) \/ FaultSubmit(p)
           \/ p \in Workers /\ FaultEnd(p)
    PROVE  Typed'
<1>1. at[p] \in Jobs /\ JobFine(at[p]) /\ at \in [Procs -> Jobs]
  BY DEF Typed, TypeOK, JobsFine
<1>2. FaultClasses \subseteq Classes
  BY QueueAssumption DEF Classes
<1>3. Spend => faults' \in 0..MaxFaults
  BY QueueAssumption DEF Spend, Typed, TypeOK
<1>4. CASE FaultActivation(p)
  <2>1. PICK class \in Classes : Throw(p, class)
    BY <1>2, <1>4 DEF FaultActivation
  <2>2. at' \in [Procs -> Jobs] /\ JobsFine'
    BY <1>4, <2>1, ThrowTyped DEF FaultActivation
  <2>3. /\ request' \in [Requests -> Hashes \cup {None}]
        /\ bridge' \in [Requests -> {None, "pending", "completed", "degraded",
                                     "permanent_failure"}]
        /\ binding' \in [Traits -> Requests \cup {None}]
    <3>1. CASE UNCHANGED <<request, bridge, binding>>
      BY <3>1 DEF Typed, TypeOK
    <3>2. CASE Recorded(Req(p), at[p].hash) /\ UNCHANGED binding
      BY <1>1, <3>2, RecordTyped DEF Typed, TypeOK, Jobs
    <3>3. CASE at[p].pc = "bind" /\ Attach(p) /\ UNCHANGED <<request, bridge>>
      BY <3>3, ReqType DEF Sending, Attach, Typed, TypeOK
    <3> QED
      BY <1>4, <3>1, <3>2, <3>3 DEF FaultActivation
  <2> QED
    BY <1>3, <1>4, <2>2, <2>3 DEF Typed, TypeOK, FaultActivation, memory
<1>5. CASE FaultSeal(p)
  <2>1. PICK class \in Classes : Throw(p, class)
    BY <1>2, <1>5 DEF FaultSeal
  <2>2. at' \in [Procs -> Jobs] /\ JobsFine'
    BY <1>5, <2>1, ThrowTyped DEF FaultSeal
  <2>3. at[p].job \in Assemblies
    BY <1>1, <1>5 DEF FaultSeal, JobFine
  <2>4. sealed' \subseteq Assemblies
    BY <1>5, <2>3 DEF FaultSeal, Typed, TypeOK
  <2> QED
    BY <1>3, <1>5, <2>2, <2>4 DEF Typed, TypeOK, FaultSeal, memory
<1>6. CASE FaultSubmit(p)
  <2>1. at' \in [Procs -> Jobs] /\ JobsFine'
    <3>1. CASE at[p].pc = "settle"
      <4>1. PICK class \in Classes : Throw(p, class)
        BY <1>2, <1>6, <3>1 DEF FaultSubmit
      <4> QED
        BY <3>1, <4>1, ThrowTyped
    <3>2. CASE at[p].pc # "settle"
      <4> DEFINE j == [at[p] EXCEPT !.pc = "settle", !.err = "transient"]
      <4>1. j \in Jobs /\ JobFine(j)
        BY <1>1, <1>6, <3>2
           DEF FaultSubmit, Jobs, Steps, Classes, JobFine, Batching, Sending
      <4>2. at' = [at EXCEPT ![p] = j]
        BY <1>1, <1>6, <3>2 DEF FaultSubmit
      <4> QED
        BY <4>1, <4>2, MoveTyped
    <3> QED
      BY <3>1, <3>2
  <2>2. bridge' \in [Requests -> {None, "pending", "completed", "degraded",
                                 "permanent_failure"}]
    BY <1>6 DEF FaultSubmit, FailRequest, BridgeState, Typed, TypeOK
  <2> QED
    BY <1>3, <1>6, <2>1, <2>2 DEF Typed, TypeOK, FaultSubmit, memory
<1>7. CASE p \in Workers /\ FaultEnd(p)
  <2>1. at' \in [Procs -> Jobs] /\ JobsFine'
    BY <1>7, ConstantTypes, MoveTyped DEF FaultEnd
  <2> QED
    BY <1>3, <1>7, <2>1 DEF Typed, TypeOK, FaultEnd, evidence
<1> QED
  BY <1>4, <1>5, <1>6, <1>7

LEMMA TypedRestart ==
    ASSUME Typed, NEW s \in Servers, Restart(s)
    PROVE  Typed'
<1>1. at' \in [Procs -> Jobs] /\ JobsFine'
  BY ConstantTypes DEF Restart, Typed, TypeOK, JobsFine, JobFine
<1>2. /\ budget' \in [Workers -> 0..MaxNew]
      /\ charged' \in [Workers -> SUBSET Requests]
      /\ retryable' \in [Workers -> SUBSET Assemblies]
      /\ restarts' \in 0..MaxRestarts
  BY QueueAssumption DEF Restart, Typed, TypeOK
<1> QED
  BY <1>1, <1>2 DEF Typed, TypeOK, Restart, evidence

LEMMA TypedInit == Init => Typed
<1> SUFFICES ASSUME Init PROVE Typed
  OBVIOUS
<1>1. row \in [Assemblies -> Rows]
  BY ConstantTypes DEF Init
<1>2. at \in [Procs -> Jobs] /\ JobsFine
  BY ConstantTypes DEF Init, JobsFine
<1>3. context \in Hashes /\ budget \in [Workers -> 0..MaxNew]
  BY ConstantTypes, QueueAssumption DEF Init
<1>4. faults \in 0..MaxFaults /\ restarts \in 0..MaxRestarts
  BY QueueAssumption DEF Init
<1> QED
  BY <1>1, <1>2, <1>3, <1>4 DEF Init, Typed, TypeOK

LEMMA TypedNext == Typed /\ [Next]_vars => Typed'
<1> SUFFICES ASSUME Typed, [Next]_vars PROVE Typed'
  OBVIOUS
<1>1. CASE \E a \in Assemblies : Enqueue(a) \/ LeaseExpires(a) \/ BecomesDue(a)
  BY <1>1, TypedTables
<1>2. ASSUME NEW w \in Workers, Reconcile(w) \/ Replenish(w) \/ Claim(w) PROVE Typed'
  BY <1>2, TypedTables, TypedStarts
<1>3. ASSUME NEW w \in Workers, EndJob(w) PROVE Typed'
  BY <1>3, TypedEnds, TypedFaults DEF EndJob, Procs
<1>4. CASE \E d \in Direct, a \in Assemblies : StartDirect(d, a)
  BY <1>4, TypedStarts
<1>5. ASSUME NEW p \in Procs, Activate(p) PROVE Typed'
  BY <1>5, TypedStarts, TypedReplies, TypedEnds, TypedFaults DEF Activate
<1>6. ASSUME NEW s \in Servers, Restart(s) \/ CooldownOver(s) PROVE Typed'
  BY <1>6, TypedRestart, TypedTables
<1>7. CASE ContextChanges \/ UNCHANGED vars
  BY <1>7, TypedTables
<1> QED
  BY <1>1, <1>2, <1>3, <1>4, <1>5, <1>6, <1>7 DEF Next

\* Every variable keeps its type, whatever the processes interleave; what a
\* process carries always belongs to the one assembly it works on.
THEOREM TypeCorrect == Spec => []TypeOK
<1>1. Spec => []Typed
  BY TypedInit, TypedNext, PTL DEF Spec
<1>2. Typed => TypeOK
  BY DEF Typed
<1> QED
  BY <1>1, <1>2, PTL
-----------------------------------------------------------------------------
(* The budget of new submissions *)

\* What is left of a worker's batch that it has not paid for.
Unpaid(w) == {t \in at[w].todo : <<at[w].job, t>> \notin charged[w]}

\* A batch is cut to what the budget still covers, and only payments touch both.
Solvent(w) ==
    /\ IsFiniteSet(charged[w])
    /\ Cardinality(charged[w]) + budget[w] = MaxNew
    /\ at[w].pc \in Batching => Cardinality(Unpaid(w)) <= budget[w]

BudgetInv == Typed /\ \A w \in Workers : Solvent(w)

\* What a step may do to a worker's account.
KeepsBatch(w) ==
    /\ charged'[w] = charged[w] /\ budget'[w] = budget[w]
    /\ at'[w].pc \in Batching =>
         /\ at[w].pc \in Batching
         /\ at'[w].job = at[w].job /\ at'[w].todo \subseteq at[w].todo

CutsBatch(w) ==
    /\ charged'[w] = charged[w] /\ budget'[w] = budget[w]
    /\ at'[w].pc \in Batching => Cardinality(Unpaid(w)') <= budget[w]

Pays(w) ==
    /\ at[w].pc = "send" /\ ~Overdrawn(w)
    /\ charged'[w] = charged[w] \cup {Req(w)}
    /\ budget'[w] = budget[w] - Price(w)
    /\ at'[w].job = at[w].job /\ at'[w].todo = at[w].todo

Account(w) ==
    \/ KeepsBatch(w) \/ CutsBatch(w) \/ Pays(w)
    \/ charged'[w] = {} /\ budget'[w] = MaxNew /\ at'[w].pc = "idle"

LEMMA ThrowKeepsBatch ==
    ASSUME Typed, NEW p \in Procs, NEW class, Throw(p, class), UNCHANGED <<budget, charged>>
    PROVE  \A w \in Workers : KeepsBatch(w)
<1> SUFFICES ASSUME NEW w \in Workers PROVE KeepsBatch(w)
  OBVIOUS
<1>1. at \in [Procs -> Jobs] /\ w \in Procs
  BY DEF Typed, TypeOK, Procs
<1>2. CASE p = w
  <2>1. at'[w] = [at[w] EXCEPT !.pc = "count", !.err = class]
    BY <1>1, <1>2 DEF Throw
  <2>2. at'[w].pc = "count"
    BY <1>1, <2>1 DEF Jobs
  <2> QED
    BY <2>2 DEF KeepsBatch, Batching, Sending
<1>3. CASE p # w
  BY <1>1, <1>3 DEF Throw, KeepsBatch
<1> QED
  BY <1>2, <1>3

LEMMA StillKeepsBatch ==
    ASSUME UNCHANGED <<at, budget, charged>>
    PROVE  \A w \in Workers : KeepsBatch(w)
  BY DEF KeepsBatch

\* A process that is not this worker leaves its account alone.
LEMMA OtherKeepsBatch ==
    ASSUME Typed, NEW p \in Procs, NEW w \in Workers, p # w,
           at'[w] = at[w], UNCHANGED <<budget, charged>>
    PROVE  KeepsBatch(w)
  BY DEF KeepsBatch

LEMMA LoadAccount ==
    ASSUME Typed, NEW p \in Procs, Load(p)
    PROVE  \A w \in Workers : Account(w)
<1> SUFFICES ASSUME NEW w \in Workers PROVE Account(w)
  OBVIOUS
<1> DEFINE a == at[p].job
           pending == TraitsOf[a] \ Bound(a)
           prior == {t \in pending : <<a, t>> \in charged[p]}
<1>1. PICK todo \in SUBSET pending :
        Batch(p, pending, todo) /\ Advance(p, todo, todo # pending)
  BY DEF Load
<1>2. UNCHANGED <<budget, charged>>
  BY DEF Load, memory
<1>3. at \in [Procs -> Jobs] /\ w \in Procs /\ a \in Assemblies
      /\ budget \in [Workers -> 0..MaxNew]
  BY DEF Typed, TypeOK, Procs, JobsFine, JobFine, Load
<1>4. CASE todo = {} /\ todo # pending
  BY <1>1, <1>2, <1>4, ThrowKeepsBatch DEF Advance, Account
<1>5. CASE ~(todo = {} /\ todo # pending)
  <2>1. at' = [at EXCEPT ![p].pc = IF todo = {} THEN "seal" ELSE "enrich",
                         ![p].todo = todo, ![p].partial = (todo # pending)]
    BY <1>1, <1>5 DEF Advance
  <2>2. CASE p = w
    <3>1. at'[w].job = a /\ at'[w].todo = todo
      <4>1. at[w] \in Jobs
        BY <1>3
      <4>2. at'[w] = [at[w] EXCEPT !.pc = IF todo = {} THEN "seal" ELSE "enrich",
                                   !.todo = todo, !.partial = (todo # pending)]
        BY <1>3, <2>1, <2>2
      <4> HIDE DEF pending
      <4> QED
        BY <2>2, <4>1, <4>2 DEF Jobs
    <3>2. Unpaid(w)' = todo \ prior
      <4>1. Unpaid(w)' = {t \in todo : <<a, t>> \notin charged[p]}
        BY <1>2, <2>2, <3>1 DEF Unpaid
      <4>2. \A t \in todo : t \in prior <=> <<a, t>> \in charged[p]
        BY <1>1
      <4> HIDE DEF prior
      <4> QED
        BY <4>1, <4>2
    <3>3. w \notin Direct
      BY QueueAssumption
    <3>4. /\ Fresh(w) < Cardinality(pending \ prior) => Cardinality(todo \ prior) = Fresh(w)
          /\ ~(Fresh(w) < Cardinality(pending \ prior)) => todo = pending
      BY <1>1, <2>2, <3>3 DEF Batch
    <3>5. Cardinality(pending \ prior) \in Nat
      <4>1. IsFiniteSet(Traits) /\ TraitsOf[a] \subseteq Traits
        BY <1>3, QueueAssumption
      <4>2. pending \ prior \subseteq Traits
        BY <4>1
      <4> HIDE DEF pending, prior
      <4> QED
        BY <4>1, <4>2, FS_Subset, FS_CardinalityType
    <3>6. budget[w] \in Nat /\ Fresh(w) = budget[w]
      BY <1>3, QueueAssumption DEF Fresh
    <3>7. Cardinality(todo \ prior) <= budget[w]
      <4> HIDE DEF pending, prior
      <4> QED
        BY <3>4, <3>5, <3>6
    <3> QED
      BY <1>2, <3>2, <3>7 DEF Account, CutsBatch
  <2>3. CASE p # w
    BY <1>2, <1>3, <2>1, <2>3, OtherKeepsBatch DEF Account
  <2> QED
    BY <2>2, <2>3
<1> QED
  BY <1>4, <1>5

LEMMA SendAccount ==
    ASSUME Typed, NEW p \in Procs, Send(p)
    PROVE  \A w \in Workers : Account(w)
<1> SUFFICES ASSUME NEW w \in Workers PROVE Account(w)
  OBVIOUS
<1>1. /\ at \in [Procs -> Jobs] /\ w \in Procs /\ at[p].pc = "send"
      /\ at'[p].job = at[p].job /\ at'[p].todo = at[p].todo
      /\ w # p => at'[w] = at[w]
  BY DEF Typed, TypeOK, Procs, Send, Jobs
<1>2. CASE UNCHANGED <<budget, charged>>
  BY <1>1, <1>2 DEF KeepsBatch, Account, Batching, Sending
<1>3. CASE ~UNCHANGED <<budget, charged>>
  <2>1. /\ ~Overdrawn(p)
        /\ budget'[w] = IF w = p THEN budget[w] - Price(w) ELSE budget[w]
        /\ charged'[w] = IF w = p THEN charged[w] \cup {Req(w)} ELSE charged[w]
    BY <1>3 DEF Send
  <2>2. CASE w = p
    BY <1>1, <2>1, <2>2 DEF Pays, Account
  <2>3. CASE w # p
    BY <1>1, <2>1, <2>3 DEF KeepsBatch, Account
  <2> QED
    BY <2>2, <2>3
<1> QED
  BY <1>2, <1>3

LEMMA ActivateAccount ==
    ASSUME Typed, NEW p \in Procs, Activate(p)
    PROVE  \A w \in Workers : Account(w)
<1>1. at \in [Procs -> Jobs] /\ Workers \subseteq Procs
  BY DEF Typed, TypeOK, Procs
<1>2. CASE Load(p) \/ Send(p)
  BY <1>2, LoadAccount, SendAccount
<1>3. CASE UNCHANGED <<budget, charged>> /\ \E class : Throw(p, class)
  BY <1>3, ThrowKeepsBatch DEF Account
<1>4. CASE Enrich(p)
  <2>1. CASE GateOpen
    <3>1. PICK t \in at[p].todo, h \in 0..context :
            at' = [at EXCEPT ![p].pc = "record", ![p].trait = t, ![p].hash = h,
                             ![p].blind = request[<<at[p].job, t>>] = None]
      BY <1>4, <2>1 DEF Enrich
    <3>2. at'[p].job = at[p].job /\ at'[p].todo = at[p].todo
          /\ \A w \in Workers : w # p => at'[w] = at[w]
      BY <1>1, <3>1 DEF Jobs
    <3> QED
      BY <1>1, <1>4, <3>2 DEF Enrich, memory, KeepsBatch, Account, Batching, Sending
  <2>2. CASE ~GateOpen
    BY <1>3, <1>4, <2>2 DEF Enrich, memory
  <2> QED
    BY <2>1, <2>2
<1>5. CASE Record(p)
  <2>1. CASE SameInput(p)
    <3>1. at' = [at EXCEPT ![p].pc = "send", ![p].blind = FALSE]
      BY <1>5, <2>1 DEF Record
    <3>2. at'[p].job = at[p].job /\ at'[p].todo = at[p].todo
          /\ \A w \in Workers : w # p => at'[w] = at[w]
      BY <1>1, <3>1 DEF Jobs
    <3> QED
      BY <1>5, <3>2 DEF Record, memory, KeepsBatch, Account, Batching, Sending
  <2>2. CASE ~SameInput(p)
    BY <1>3, <1>5, <2>2 DEF Record, memory
  <2> QED
    BY <2>1, <2>2
<1>6. CASE Handle(p)
  BY <1>6, StillKeepsBatch DEF Handle, memory, Account
<1>7. CASE Unready(p) \/ ReplyOk(p) \/ ReplyFailed(p) \/ Mirror(p) \/ Confirm(p)
  <2>1. /\ at'[p].job = at[p].job /\ at'[p].todo = at[p].todo
        /\ \A w \in Workers : w # p => at'[w] = at[w]
        /\ at[p].pc \in Batching
    BY <1>1, <1>7 DEF Unready, ReplyOk, ReplyFailed, Mirror, Confirm, Jobs, Batching, Sending
  <2>2. UNCHANGED <<budget, charged>>
    BY <1>7 DEF Unready, ReplyOk, ReplyFailed, Mirror, Confirm, memory
  <2> QED
    BY <2>1, <2>2 DEF KeepsBatch, Account
<1>8. CASE Settle(p) \/ FaultActivation(p) \/ FaultSeal(p)
  <2>1. \E class : Throw(p, class)
    BY <1>8 DEF Settle, FaultActivation, FaultSeal
  <2>2. UNCHANGED <<budget, charged>>
    BY <1>8 DEF Settle, FaultActivation, FaultSeal, memory
  <2> QED
    BY <1>3, <2>1, <2>2
<1>9. CASE Bind(p)
  <2>1. UNCHANGED <<budget, charged>>
    BY <1>9 DEF Bind, memory
  <2>2. CASE \E class : Throw(p, class)
    BY <1>3, <2>1, <2>2
  <2>3. CASE ~\E class : Throw(p, class)
    <3>1. at' = [at EXCEPT ![p].pc = IF at[p].todo \ {at[p].trait} = {}
                                     THEN "seal" ELSE "enrich",
                           ![p].todo = at[p].todo \ {at[p].trait},
                           ![p].partial = at[p].partial]
      BY <1>9, <2>3 DEF Bind, Advance
    <3>2. at'[p].job = at[p].job /\ at'[p].todo \subseteq at[p].todo
      <4>1. at[p] \in Jobs
        BY <1>1
      <4>2. at'[p] = [at[p] EXCEPT !.pc = IF at[p].todo \ {at[p].trait} = {}
                                         THEN "seal" ELSE "enrich",
                                   !.todo = at[p].todo \ {at[p].trait},
                                   !.partial = at[p].partial]
        BY <1>1, <3>1
      <4> QED
        BY <4>1, <4>2 DEF Jobs
    <3>3. \A w \in Workers : w # p => at'[w] = at[w]
      BY <1>1, <3>1
    <3>4. at[p].pc \in Batching
      BY <1>9 DEF Bind, Batching, Sending
    <3> QED
      BY <2>1, <3>2, <3>3, <3>4 DEF KeepsBatch, Account
  <2> QED
    BY <2>2, <2>3
<1>10. CASE Seal(p)
  <2>1. /\ at'[p].pc \notin Batching
        /\ \A w \in Workers : w # p => at'[w] = at[w]
    BY <1>1, <1>10 DEF Seal, Idle, Jobs, Batching, Sending
  <2> QED
    BY <1>10, <2>1 DEF Seal, memory, KeepsBatch, Account
<1>11. CASE FaultSubmit(p)
  <2>1. UNCHANGED <<budget, charged>>
    BY <1>11 DEF FaultSubmit, memory
  <2>2. CASE at[p].pc = "settle"
    BY <1>3, <1>11, <2>1, <2>2 DEF FaultSubmit
  <2>3. CASE at[p].pc # "settle"
    <3>1. at' = [at EXCEPT ![p].pc = "settle", ![p].err = "transient"]
      BY <1>11, <2>3 DEF FaultSubmit
    <3>2. /\ at'[p].job = at[p].job /\ at'[p].todo = at[p].todo
          /\ \A w \in Workers : w # p => at'[w] = at[w]
          /\ at[p].pc \in Batching
      BY <1>1, <1>11, <2>3, <3>1 DEF FaultSubmit, Jobs, Batching, Sending
    <3> QED
      BY <2>1, <3>2 DEF KeepsBatch, Account
  <2> QED
    BY <2>2, <2>3
<1> QED
  BY <1>2, <1>4, <1>5, <1>6, <1>7, <1>8, <1>9, <1>10, <1>11 DEF Activate

LEMMA AccountNext ==
    ASSUME Typed, [Next]_vars
    PROVE  \A w \in Workers : Account(w)
<1>1. at \in [Procs -> Jobs] /\ Workers \subseteq Procs /\ Idle.pc = "idle"
  BY DEF Typed, TypeOK, Procs, Idle
<1>2. CASE UNCHANGED <<at, budget, charged>>
  BY <1>2, StillKeepsBatch DEF Account
<1>3. CASE \E a \in Assemblies : Enqueue(a) \/ LeaseExpires(a) \/ BecomesDue(a)
  BY <1>2, <1>3 DEF Enqueue, LeaseExpires, BecomesDue, memory
<1>4. ASSUME NEW v \in Workers, Reconcile(v) \/ Replenish(v)
      PROVE  \A w \in Workers : Account(w)
  BY <1>2, <1>4 DEF Reconcile, Replenish, memory
<1>5. ASSUME NEW v \in Workers, Claim(v) \/ EndJob(v)
      PROVE  \A w \in Workers : Account(w)
  <2>1. UNCHANGED <<budget, charged>>
    BY <1>5 DEF Claim, EndJob, Mark, Count, Fail, FaultEnd, memory
  <2>2. at'[v].pc \notin Batching \/ at'[v] = at[v]
    <3>1. CASE Claim(v)
      <4>1. PICK a \in Assemblies :
              \/ at' = [at EXCEPT ![v] = [Idle EXCEPT !.pc = "load", !.job = a,
                          !.attempts = row[a].attempts, !.count = row[a].count]]
              \/ UNCHANGED at
        BY <3>1 DEF Claim
      <4>2. [Idle EXCEPT !.pc = "load", !.job = a, !.attempts = row[a].attempts,
                         !.count = row[a].count].pc = "load"
        BY DEF Idle
      <4>3. at'[v].pc = "load" \/ at'[v] = at[v]
        BY <1>1, <4>1, <4>2
      <4> QED
        BY <4>3 DEF Batching, Sending
    <3>2. CASE Mark(v) \/ Fail(v) \/ FaultEnd(v)
      BY <1>1, <3>2 DEF Mark, Fail, FaultEnd, Batching, Sending
    <3>3. CASE Count(v)
      <4>1. at'[v].pc = "fail"
        BY <1>1, <3>3 DEF Count, Jobs
      <4> QED
        BY <4>1 DEF Batching, Sending
    <3> QED
      BY <1>5, <3>1, <3>2, <3>3 DEF EndJob
  <2>3. \A w \in Workers : w # v => at'[w] = at[w]
    BY <1>1, <1>5 DEF Claim, EndJob, Mark, Count, Fail, FaultEnd
  <2> QED
    BY <2>1, <2>2, <2>3 DEF KeepsBatch, Account
<1>6. ASSUME NEW d \in Direct, NEW a \in Assemblies, StartDirect(d, a)
      PROVE  \A w \in Workers : Account(w)
  <2>1. \A w \in Workers : at'[w] = at[w]
    BY <1>1, <1>6, QueueAssumption DEF StartDirect, Procs
  <2> QED
    BY <1>6, <2>1 DEF StartDirect, memory, KeepsBatch, Account
<1>7. ASSUME NEW p \in Procs, Activate(p) PROVE \A w \in Workers : Account(w)
  BY <1>7, ActivateAccount
<1>8. ASSUME NEW s \in Servers, Restart(s) PROVE \A w \in Workers : Account(w)
  BY <1>1, <1>8 DEF Restart, KeepsBatch, Account
<1>9. CASE (\E s \in Servers : CooldownOver(s)) \/ ContextChanges \/ UNCHANGED vars
  BY <1>2, <1>9 DEF CooldownOver, ContextChanges, memory, vars
<1> QED
  BY <1>3, <1>4, <1>5, <1>6, <1>7, <1>8, <1>9 DEF Next

LEMMA SolventNext ==
    ASSUME BudgetInv, Typed', NEW w \in Workers, Account(w)
    PROVE  Solvent(w)'
<1>1. /\ w \in Procs /\ at[w] \in Jobs /\ at'[w] \in Jobs
      /\ JobFine(at[w]) /\ JobFine(at'[w])
      /\ budget[w] \in 0..MaxNew /\ Solvent(w) /\ MaxNew \in Nat
  BY QueueAssumption DEF BudgetInv, Typed, TypeOK, JobsFine, Procs
<1>2. /\ IsFiniteSet(Traits)
      /\ Unpaid(w) \subseteq Traits /\ Unpaid(w)' \subseteq Traits
  BY <1>1, QueueAssumption DEF Unpaid, Jobs
<1>3. /\ IsFiniteSet(Unpaid(w)) /\ Cardinality(Unpaid(w)) \in Nat
      /\ IsFiniteSet(Unpaid(w)') /\ Cardinality(Unpaid(w)') \in Nat
      /\ Cardinality(charged[w]) \in Nat
  BY <1>1, <1>2, FS_Subset, FS_CardinalityType DEF Solvent
<1>4. CASE KeepsBatch(w)
  <2>1. at'[w].pc \in Batching => Unpaid(w)' \subseteq Unpaid(w)
    BY <1>4 DEF KeepsBatch, Unpaid
  <2>2. at'[w].pc \in Batching => Cardinality(Unpaid(w)') <= Cardinality(Unpaid(w))
    BY <1>3, <2>1, FS_Subset
  <2> QED
    BY <1>1, <1>3, <1>4, <2>2 DEF KeepsBatch, Solvent
<1>5. CASE CutsBatch(w)
  BY <1>1, <1>5 DEF CutsBatch, Solvent
<1>6. CASE Pays(w)
  <2>1. at[w].pc \in Batching /\ at[w].trait \in at[w].todo
    BY <1>1, <1>6 DEF Pays, JobFine, Batching, Sending
  <2>2. CASE Req(w) \in charged[w]
    <3>1. charged'[w] = charged[w] /\ budget'[w] = budget[w]
      BY <1>1, <1>6, <2>2 DEF Pays, Price
    <3> QED
      BY <1>4, <1>6, <2>1, <3>1 DEF Pays, KeepsBatch
  <2>3. CASE Req(w) \notin charged[w]
    <3>1. at[w].trait \in Unpaid(w)
      BY <2>1, <2>3 DEF Unpaid, Req
    <3>2. Unpaid(w)' = Unpaid(w) \ {at[w].trait}
      BY <1>6 DEF Pays, Unpaid, Req
    <3>3. Cardinality(Unpaid(w)') = Cardinality(Unpaid(w)) - 1
      BY <1>3, <3>1, <3>2, FS_RemoveElement
    <3>4. /\ IsFiniteSet(charged'[w])
          /\ Cardinality(charged'[w]) = Cardinality(charged[w]) + 1
      <4>1. IsFiniteSet(charged[w]) /\ charged'[w] = charged[w] \cup {Req(w)}
        BY <1>1, <1>6 DEF Pays, Solvent
      <4> QED
        BY <2>3, <4>1, FS_AddElement
    <3>5. budget'[w] = budget[w] - 1
      BY <1>6, <2>3 DEF Pays, Price
    <3> QED
      BY <1>1, <1>3, <2>1, <3>3, <3>4, <3>5 DEF Solvent
  <2> QED
    BY <2>2, <2>3
<1>7. CASE charged'[w] = {} /\ budget'[w] = MaxNew /\ at'[w].pc = "idle"
  BY <1>1, <1>7, FS_EmptySet DEF Solvent, Batching, Sending
<1> QED
  BY <1>4, <1>5, <1>6, <1>7 DEF Account

\* However often a worker retries, restarts or loses its row, what it charged
\* and what it has left add up to its budget, and no batch reaches the check
\* before the wire with a request that the budget does not cover: running out
\* of budget never opens the breaker (prism-rosetta-queue-worker.ts:494-516).
THEOREM BudgetAddsUp == Spec => []BudgetIsExact
<1>1. Init => BudgetInv
  <2> SUFFICES ASSUME Init PROVE BudgetInv
    OBVIOUS
  <2>1. \A w \in Workers : at[w].pc = "idle"
    BY DEF Init, Idle, Procs
  <2> QED
    BY <2>1, TypedInit, FS_EmptySet, QueueAssumption
       DEF Init, BudgetInv, Solvent, Batching, Sending
<1>2. BudgetInv /\ [Next]_vars => BudgetInv'
  <2> SUFFICES ASSUME BudgetInv, [Next]_vars PROVE BudgetInv'
    OBVIOUS
  <2>1. Typed /\ Typed'
    BY TypedNext DEF BudgetInv
  <2>2. ASSUME NEW w \in Workers PROVE Solvent(w)'
    BY <2>1, AccountNext, SolventNext
  <2> QED
    BY <2>1, <2>2 DEF BudgetInv
<1>3. BudgetInv => BudgetIsExact
  <2> SUFFICES ASSUME BudgetInv, NEW w \in Workers, at[w].pc = "send", Overdrawn(w)
               PROVE  FALSE
    BY DEF BudgetInv, Solvent, BudgetIsExact
  <2>1. at[w] \in Jobs /\ at[w].trait \in at[w].todo /\ Solvent(w)
    BY DEF BudgetInv, Typed, TypeOK, JobsFine, JobFine, Batching, Sending, Procs
  <2>2. at[w].trait \in Unpaid(w) /\ budget[w] = 0
    BY <2>1 DEF Overdrawn, Unpaid, Req
  <2>3. Unpaid(w) \subseteq Traits /\ IsFiniteSet(Unpaid(w))
    BY <2>1, QueueAssumption, FS_Subset DEF Unpaid, Jobs
  <2>4. Cardinality(Unpaid(w)) \in Nat /\ Cardinality(Unpaid(w)) # 0
    BY <2>2, <2>3, FS_CardinalityType, FS_EmptySet
  <2>5. Cardinality(Unpaid(w)) <= 0
    BY <2>1, <2>2 DEF Solvent, Batching, Sending
  <2> QED
    BY <2>4, <2>5
<1> QED
  BY <1>1, <1>2, <1>3, PTL DEF Spec
=============================================================================
