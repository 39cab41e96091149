----------------------- MODULE PrismRefinementProofs ------------------------
(***************************************************************************)
(* The queue implements the ledger: every step of every process either is   *)
(* one of the four steps of PrismLedger or leaves its four tables alone.    *)
(* And on each of its servers it implements the breaker that PrismCircuit   *)
(* implements too, which is what ties the two modules together.             *)
(***************************************************************************)
EXTENDS PrismRowProofs

\* The tables of the ledger, as the tables of the queue show them.
Mirrored == {r \in Requests : receipt[r] # None}
Closed == {a \in Assemblies : row[a].state = "completed"}

LedgerTables == <<Mirrored, binding, sealed, Closed>>

\* A step of the ledger, with its variables spelled out.
LedgerStep ==
    \/ \E r \in Requests : /\ Mirrored' = Mirrored \cup {r}
                           /\ UNCHANGED <<binding, sealed, Closed>>
    \/ \E a \in Assemblies, t \in Traits :
         /\ t \in TraitsOf[a] /\ <<a, t>> \in Mirrored
         /\ binding[t] = None /\ binding' = [binding EXCEPT ![t] = <<a, t>>]
         /\ UNCHANGED <<Mirrored, sealed, Closed>>
    \/ \E a \in Assemblies :
         /\ \A t \in TraitsOf[a] : binding[t] = <<a, t>>
         /\ sealed' = sealed \cup {a}
         /\ UNCHANGED <<Mirrored, binding, Closed>>
    \/ \E done \in SUBSET Assemblies :
         /\ done \subseteq sealed
         /\ Closed' = Closed \cup done
         /\ UNCHANGED <<Mirrored, binding, sealed>>
    \/ UNCHANGED LedgerTables
-----------------------------------------------------------------------------
\* Rows close behind runs, and never open again.
LEMMA ClosedGrows ==
    ASSUME RowInv, [Next]_vars
    PROVE  \E done \in SUBSET Assemblies : done \subseteq sealed /\ Closed' = Closed \cup done
<1>1. \A a \in Assemblies : RowStep(a) /\ row[a] \in Rows
  BY RowNext DEF RowInv, EvidenceInv, Typed, TypeOK
<1>2. \A w \in Workers : w # None /\ at[w] \in Jobs
  BY QueueAssumption DEF RowInv, EvidenceInv, Typed, TypeOK, Procs
<1>3. ASSUME NEW a \in Assemblies, row[a].state = "completed"
      PROVE row'[a].state = "completed"
  <2>1. row[a].lockedBy = None
    BY <1>3 DEF RowInv, CompletedHasRun
  <2>2. Same(a)
    BY <1>1, <1>2, <1>3, <2>1 DEF RowStep, Inserted, Claimed, Claimable, Reconciled, Ended
  <2> QED
    BY <1>3, <2>2 DEF Same
<1>4. ASSUME NEW a \in Assemblies, row[a].state # "completed", row'[a].state = "completed"
      PROVE a \in sealed
  <2>1. Reconciled(a) \/ Ended(a)
    BY <1>1, <1>4 DEF RowStep, Same, Inserted, Claimed, EligibleRow, AbsentRow
  <2>2. CASE Reconciled(a)
    BY <2>2 DEF Reconciled
  <2>3. CASE Ended(a)
    BY <1>1, <1>2, <1>4, <2>3, WrittenRows DEF Ended
  <2> QED
    BY <2>1, <2>2, <2>3
<1> DEFINE done == {a \in Assemblies : row[a].state # "completed" /\ row'[a].state = "completed"}
<1>5. done \subseteq sealed /\ Closed' = Closed \cup done
  BY <1>3, <1>4 DEF Closed
<1> QED
  BY <1>5

\* Steps that touch no evidence.
LEMMA QuietLedger ==
    ASSUME RowInv, [Next]_vars, UNCHANGED <<receipt, binding, sealed>>
    PROVE  LedgerStep
<1>1. UNCHANGED Mirrored
  BY DEF Mirrored
<1> QED
  BY <1>1, ClosedGrows DEF LedgerStep

LEMMA MirrorLedger ==
    ASSUME RowInv, NEW p \in Procs, Mirror(p)
    PROVE  LedgerStep
<1>1. Typed /\ Req(p) \in Requests /\ at[p].hash # None
  BY ReqType, NoneIsNoHash DEF RowInv, EvidenceInv, Mirror, Sending
<1>2. Mirrored' = Mirrored \cup {Req(p)}
  BY <1>1 DEF Mirror, Mirrored, Typed, TypeOK
<1>3. UNCHANGED <<binding, sealed, Closed>>
  BY DEF Mirror, Closed
<1> QED
  BY <1>1, <1>2, <1>3 DEF LedgerStep

LEMMA BindLedger ==
    ASSUME RowInv, NEW p \in Procs, at[p].pc = "bind", Attach(p),
           UNCHANGED <<row, receipt, sealed>>
    PROVE  LedgerStep
<1>1. /\ Req(p) \in Requests /\ Req(p) = <<at[p].job, at[p].trait>>
      /\ at[p].trait \in Traits /\ at[p].job \in Assemblies
      /\ at[p].trait \in TraitsOf[at[p].job]
  BY ReqType DEF RowInv, EvidenceInv, Sending, Req
<1>2. Req(p) \in Mirrored
  BY <1>1, NoneIsNoHash DEF RowInv, EvidenceInv, AllSupported, Supported, Mirrored
<1>3. UNCHANGED <<Mirrored, sealed, Closed>>
  BY DEF Mirrored, Closed
<1>4. CASE binding[at[p].trait] = None
  BY <1>1, <1>2, <1>3, <1>4 DEF Attach, LedgerStep
<1>5. CASE binding[at[p].trait] # None
  BY <1>3, <1>5 DEF Attach, LedgerStep, LedgerTables
<1> QED
  BY <1>4, <1>5

LEMMA SealLedger ==
    ASSUME RowInv, NEW p \in Procs, Seal(p) \/ FaultSeal(p)
    PROVE  LedgerStep
<1>1. at[p].pc = "seal" /\ sealed' \in {sealed, sealed \cup {at[p].job}}
      /\ UNCHANGED <<row, receipt, binding>>
  BY DEF Seal, FaultSeal
<1>2. /\ at[p].job \in Assemblies
      /\ \A t \in TraitsOf[at[p].job] : binding[t] = <<at[p].job, t>>
  BY <1>1 DEF RowInv, EvidenceInv, Typed, JobsFine, JobFine, AllSupported, Supported, Batching
<1>3. UNCHANGED <<Mirrored, binding, Closed>>
  BY <1>1 DEF Mirrored, Closed
<1>4. CASE sealed' = sealed \cup {at[p].job}
  BY <1>2, <1>3, <1>4 DEF LedgerStep
<1>5. CASE sealed' = sealed
  BY <1>3, <1>5 DEF LedgerStep, LedgerTables
<1> QED
  BY <1>1, <1>4, <1>5

LEMMA NextLedger == RowInv /\ [Next]_vars => LedgerStep
<1> SUFFICES ASSUME RowInv, [Next]_vars PROVE LedgerStep
  OBVIOUS
<1>1. CASE UNCHANGED <<receipt, binding, sealed>>
  BY <1>1, QuietLedger
<1>2. ASSUME NEW p \in Procs, Activate(p) PROVE LedgerStep
  <2>1. CASE Mirror(p)
    BY <2>1, MirrorLedger
  <2>2. CASE Bind(p)
    BY <2>2, BindLedger DEF Bind
  <2>3. CASE FaultActivation(p) /\ binding' # binding
    BY <2>3, BindLedger DEF FaultActivation
  <2>4. CASE Seal(p) \/ FaultSeal(p)
    BY <2>4, SealLedger
  <2>5. ~Mirror(p) /\ ~Bind(p) /\ ~Seal(p) /\ ~FaultSeal(p)
          /\ ~(FaultActivation(p) /\ binding' # binding)
          => UNCHANGED <<receipt, binding, sealed>>
    BY <1>2 DEF Activate, Load, Enrich, Record, Send, Unready, Handle, ReplyOk, ReplyFailed,
                Confirm, Settle, FaultActivation, FaultSubmit, evidence
  <2> QED
    BY <1>1, <2>1, <2>2, <2>3, <2>4, <2>5
<1>3. \/ \E p \in Procs : Activate(p)
      \/ UNCHANGED <<receipt, binding, sealed>>
  BY DEF Next, vars, evidence, Enqueue, LeaseExpires, BecomesDue, Reconcile, Replenish,
         Claim, EndJob, Mark, Count, Fail, FaultEnd, StartDirect, Restart, CooldownOver,
         ContextChanges
<1> QED
  BY <1>1, <1>2, <1>3
-----------------------------------------------------------------------------
LEMMA LedgerInit == Init => Ledger!Init
<1> SUFFICES ASSUME Init PROVE Ledger!Init
  OBVIOUS
<1>1. \A r \in Requests : receipt[r] = None
  BY DEF Init
<1>2. \A a \in Assemblies : row[a].state # "completed"
  BY DEF Init, AbsentRow
<1> QED
  BY <1>1, <1>2 DEF Init, Ledger!Init

LEMMA LedgerNext == LedgerStep => [Ledger!Next]_(Ledger!ledger)
  BY DEF LedgerStep, LedgerTables, Mirrored, Closed, Ledger!Next, Ledger!ledger,
         Ledger!Mirror, Ledger!Bind, Ledger!Verify, Ledger!Close, Requests, Ledger!Requests

\* The queue with all its processes, leases, budgets, failures and restarts
\* implements the ledger: receipts, then bindings, then runs, then completed
\* rows, each resting on the one before and none ever taken back.
THEOREM QueueImplementsLedger == Spec => ImplementsLedger
<1>1. RowInv /\ [Next]_vars => [Ledger!Next]_(Ledger!ledger)
  BY NextLedger, LedgerNext
<1> QED
  BY LedgerInit, <1>1, RowAlways, PTL DEF Spec, ImplementsLedger, Ledger!Spec-----------------------------------------------------------------------------
(* The breakers *)

\* The calls that the processes of a server have on the wire.
Wire(s) == {p \in Procs : ServerOf[p] = s /\ at[p].pc = "wait"}

\* A step after which a process is not waiting, and every other is where it was.
Leaves(p) == at'[p].pc # "wait" /\ \A q \in Procs \ {p} : at'[q] = at[q]

LEMMA LeavesWire ==
    ASSUME NEW p \in Procs, Leaves(p), NEW s \in Servers
    PROVE  Wire(s)' = Wire(s) \ {p}
  BY DEF Leaves, Wire

LEMMA ThrowLeaves ==
    ASSUME Typed, NEW p \in Procs, NEW class, Throw(p, class)
    PROVE  Leaves(p)
<1>1. at \in [Procs -> Jobs]
  BY DEF Typed, TypeOK
<1>2. at'[p].pc \in {"count", "idle"}
  BY <1>1 DEF Throw, Jobs, Idle
<1> QED
  BY <1>1, <1>2 DEF Throw, Leaves

LEMMA AdvanceLeaves ==
    ASSUME Typed, NEW p \in Procs, NEW todo, NEW partial, Advance(p, todo, partial)
    PROVE  Leaves(p)
<1>1. at \in [Procs -> Jobs]
  BY DEF Typed, TypeOK
<1>2. CASE todo = {} /\ partial
  BY <1>2, ThrowLeaves DEF Advance
<1>3. CASE ~(todo = {} /\ partial)
  <2>1. at' = [at EXCEPT ![p].pc = IF todo = {} THEN "seal" ELSE "enrich",
                         ![p].todo = todo, ![p].partial = partial]
    BY <1>3 DEF Advance
  <2>2. at'[p] = [at[p] EXCEPT !.pc = IF todo = {} THEN "seal" ELSE "enrich",
                               !.todo = todo, !.partial = partial]
    BY <1>1, <2>1
  <2>3. at'[p].pc \in {"seal", "enrich"}
    BY <1>1, <2>2 DEF Jobs
  <2> QED
    BY <1>1, <2>1, <2>3 DEF Leaves
<1> QED
  BY <1>2, <1>3

\* Every step that does not start a call leaves the wire, or was never on it.
LEMMA ActivationLeaves ==
    ASSUME Typed, NEW p \in Procs,
           \/ Load(p) \/ Enrich(p) \/ Record(p) \/ Unready(p) \/ ReplyOk(p) \/ ReplyFailed(p)
           \/ Mirror(p) \/ Confirm(p) \/ Settle(p) \/ Bind(p) \/ Seal(p)
           \/ FaultActivation(p) \/ FaultSeal(p) \/ FaultSubmit(p)
    PROVE  Leaves(p)
<1>1. at \in [Procs -> Jobs] /\ at[p] \in Jobs
  BY DEF Typed, TypeOK
<1>2. CASE Load(p) \/ Bind(p)
  BY <1>2, ThrowLeaves, AdvanceLeaves DEF Load, Bind
<1>3. CASE Enrich(p)
  <2>1. CASE ~GateOpen
    BY <1>3, <2>1, ThrowLeaves DEF Enrich
  <2>2. CASE GateOpen
    <3>1. PICK t \in at[p].todo, h \in 0..context :
            at' = [at EXCEPT ![p].pc = "record", ![p].trait = t, ![p].hash = h,
                             ![p].blind = request[<<at[p].job, t>>] = None]
      BY <1>3, <2>2 DEF Enrich
    <3>2. at'[p] = [at[p] EXCEPT !.pc = "record", !.trait = t, !.hash = h,
                                 !.blind = request[<<at[p].job, t>>] = None]
      BY <1>1, <3>1
    <3> QED
      BY <1>1, <3>1, <3>2 DEF Leaves, Jobs
  <2> QED
    BY <2>1, <2>2
<1>8. CASE Record(p)
  <2>1. CASE SameInput(p)
    <3>1. at' = [at EXCEPT ![p].pc = "send", ![p].blind = FALSE]
      BY <1>8, <2>1 DEF Record
    <3>2. at'[p] = [at[p] EXCEPT !.pc = "send", !.blind = FALSE]
      BY <1>1, <3>1
    <3> QED
      BY <1>1, <3>1, <3>2 DEF Leaves, Jobs
  <2>2. CASE ~SameInput(p)
    BY <1>8, <2>2, ThrowLeaves DEF Record
  <2> QED
    BY <2>1, <2>2
<1>4. CASE Unready(p) \/ ReplyOk(p) \/ ReplyFailed(p) \/ Mirror(p) \/ Confirm(p)
  BY <1>1, <1>4 DEF Unready, ReplyOk, ReplyFailed, Mirror, Confirm, Leaves, Jobs
<1>5. CASE Settle(p) \/ FaultActivation(p) \/ FaultSeal(p)
  BY <1>5, ThrowLeaves DEF Settle, FaultActivation, FaultSeal
<1>6. CASE Seal(p)
  BY <1>1, <1>6 DEF Seal, Leaves, Jobs, Idle
<1>7. CASE FaultSubmit(p)
  <2>1. CASE at[p].pc = "settle"
    BY <1>7, <2>1, ThrowLeaves DEF FaultSubmit
  <2>2. CASE at[p].pc # "settle"
    BY <1>1, <1>7, <2>2 DEF FaultSubmit, Leaves, Jobs
  <2> QED
    BY <2>1, <2>2
<1> QED
  BY <1>2, <1>3, <1>4, <1>5, <1>6, <1>7, <1>8

\* So do the steps of a queue cycle outside the activation.
LEMMA CycleLeaves ==
    ASSUME Typed, NEW p \in Procs,
           \/ p \in Workers /\ (Claim(p) \/ EndJob(p))
           \/ \E a \in Assemblies : StartDirect(p, a)
    PROVE  UNCHANGED at \/ (Leaves(p) /\ at[p].pc # "wait")
<1>1. at \in [Procs -> Jobs] /\ at[p] \in Jobs
  BY DEF Typed, TypeOK
<1>2. CASE p \in Workers /\ Claim(p)
  <2>1. at[p].pc = "idle"
    BY <1>2 DEF Claim
  <2>2. CASE UNCHANGED at
    BY <2>2
  <2>3. CASE \E a \in Assemblies : at' = [at EXCEPT ![p] = [Idle EXCEPT !.pc = "load",
               !.job = a, !.attempts = row[a].attempts, !.count = row[a].count]]
    <3>1. PICK a \in Assemblies : at' = [at EXCEPT ![p] = [Idle EXCEPT !.pc = "load",
               !.job = a, !.attempts = row[a].attempts, !.count = row[a].count]]
      BY <2>3
    <3>2. at'[p].pc = "load"
      BY <1>1, <3>1 DEF Idle
    <3> QED
      BY <1>1, <2>1, <3>1, <3>2 DEF Leaves
  <2> QED
    BY <1>2, <2>2, <2>3 DEF Claim
<1>4. ASSUME NEW a \in Assemblies, StartDirect(p, a)
      PROVE  Leaves(p) /\ at[p].pc # "wait"
  BY <1>1, <1>4 DEF StartDirect, Leaves, Idle
<1>3. CASE EndJob(p)
  BY <1>1, <1>3 DEF EndJob, Mark, Count, Fail, FaultEnd, Leaves, Idle, Jobs
<1> QED
  BY <1>2, <1>3, <1>4
-----------------------------------------------------------------------------
\* What is left of a step once the abstract breaker of a server is taken out of it.
Still(s) == UNCHANGED <<circuit[s], Wire(s)>>

\* A call starts: its own breaker admits it, or nothing happens to any breaker.
\* That no budget runs out here, which would open the breaker, is BudgetIsExact.
LEMMA SendAdmits ==
    ASSUME Typed, BudgetIsExact, NEW p \in Procs, Send(p), NEW s \in Servers
    PROVE  Breaker(s)!Next \/ Still(s)
<1>1. at \in [Procs -> Jobs] /\ at[p] \in Jobs /\ at[p].pc = "send"
  BY DEF Typed, TypeOK, Send
<1>2. ~Overdrawn(p) /\ UNCHANGED circuit
  BY <1>1 DEF BudgetIsExact, Overdrawn, Send
<1>3. CASE ~Admits(ServerOf[p])
  <2>1. Leaves(p)
    BY <1>1, <1>3 DEF Send, Leaves, Jobs
  <2> QED
    BY <1>1, <1>2, <2>1, LeavesWire DEF Still, Wire
<1>4. CASE Admits(ServerOf[p])
  <2>1. at' = [at EXCEPT ![p].pc = "wait"]
    BY <1>2, <1>4 DEF Send
  <2>2. at'[p].pc = "wait" /\ \A q \in Procs \ {p} : at'[q] = at[q]
    BY <1>1, <2>1 DEF Jobs
  <2>3. CASE ServerOf[p] = s
    <3>1. Wire(s)' = Wire(s) \cup {p}
      BY <2>2, <2>3 DEF Wire
    <3>2. circuit[s] = "closed" \/ (circuit[s] = "half_open" /\ Wire(s) = {})
      BY <1>4, <2>3 DEF Admits, Wire
    <3> QED
      BY <1>2, <2>3, <3>1, <3>2 DEF Wire, Breaker!Next, Breaker!Admit
  <2>4. CASE ServerOf[p] # s
    BY <1>2, <2>2, <2>4 DEF Wire, Still
  <2> QED
    BY <2>3, <2>4
<1> QED
  BY <1>3, <1>4

\* A call ends: its outcome is what its own breaker learns.
LEMMA ReplyLands ==
    ASSUME Typed, NEW p \in Procs, ReplyOk(p) \/ ReplyFailed(p), NEW s \in Servers
    PROVE  Breaker(s)!Next \/ Still(s)
<1>1. /\ circuit \in [Servers -> {"closed", "half_open", "open"}]
      /\ at[p].pc = "wait" /\ ServerOf[p] \in Servers
  BY ConstantTypes DEF Typed, TypeOK, ReplyOk, ReplyFailed
<1>2. Wire(s)' = Wire(s) \ {p}
  BY ActivationLeaves, LeavesWire
<1>3. CASE ServerOf[p] = s
  <2>1. p \in Wire(s)
    BY <1>1, <1>3 DEF Wire
  <2>2. circuit'[s] = circuit[s] \/ circuit'[s] \in {"open", "closed"}
    BY <1>1, <1>3 DEF ReplyOk, ReplyFailed
  <2>3. circuit'[s] = "open" \/ circuit'[s] = "closed" \/ circuit'[s] = circuit[s]
    BY <2>2
  <2> QED
    BY <1>2, <1>3, <2>1, <2>3 DEF Wire, Breaker!Next, Breaker!Lands, Breaker!Succeed,
                              Breaker!Fail, Breaker!Reject
<1>4. CASE ServerOf[p] # s
  <2>1. Wire(s)' = Wire(s)
    BY <1>2, <1>4 DEF Wire
  <2>2. circuit'[s] = circuit[s]
    BY <1>1, <1>4 DEF ReplyOk, ReplyFailed
  <2> QED
    BY <2>1, <2>2 DEF Still
<1> QED
  BY <1>3, <1>4

LEMMA RestartsBreaker ==
    ASSUME Typed, NEW r \in Servers, Restart(r) \/ CooldownOver(r), NEW s \in Servers
    PROVE  Breaker(s)!Next \/ Still(s)
<1>1. at \in [Procs -> Jobs] /\ circuit \in [Servers -> {"closed", "half_open", "open"}]
  BY DEF Typed, TypeOK
<1>2. CASE Restart(r)
  <2>1. \A p \in Procs : at'[p] = IF ServerOf[p] = r THEN Idle ELSE at[p]
    BY <1>2 DEF Restart
  <2>2. CASE r = s
    <3>1. Wire(s)' = {} /\ circuit'[s] = "closed"
      BY <1>1, <1>2, <2>1, <2>2 DEF Restart, Wire, Idle
    <3> QED
      BY <3>1 DEF Wire, Breaker!Next, Breaker!Restart
  <2>3. CASE r # s
    <3>1. Wire(s)' = Wire(s)
      BY <2>1, <2>3 DEF Wire
    <3>2. circuit'[s] = circuit[s]
      BY <1>1, <1>2, <2>3 DEF Restart
    <3> QED
      BY <3>1, <3>2 DEF Still
  <2> QED
    BY <2>2, <2>3
<1>3. CASE CooldownOver(r)
  <2>1. Wire(s)' = Wire(s)
    BY <1>3 DEF CooldownOver, Wire
  <2>2. CASE r = s
    <3>1. circuit[s] = "open" /\ circuit'[s] = "half_open" /\ Wire(s) = {}
      BY <1>1, <1>3, <2>2 DEF CooldownOver, Wire
    <3> QED
      BY <2>1, <3>1 DEF Wire, Breaker!Next, Breaker!CooldownOver
  <2>3. CASE r # s
    BY <1>1, <1>3, <2>1, <2>3 DEF CooldownOver, Still
  <2> QED
    BY <2>2, <2>3
<1> QED
  BY <1>2, <1>3

LEMMA BreakersNext ==
    ASSUME Typed, BudgetIsExact, [Next]_vars, NEW s \in Servers
    PROVE  [Breaker(s)!Next]_(Breaker(s)!breaker)
<1> SUFFICES Breaker(s)!Next \/ Still(s)
  BY DEF Still, Wire, Breaker!breaker
<1>1. ASSUME NEW p \in Procs, Activate(p)
      PROVE  Breaker(s)!Next \/ Still(s)
  <2>1. CASE Send(p)
    BY <2>1, SendAdmits
  <2>2. CASE ReplyOk(p) \/ ReplyFailed(p)
    BY <2>2, ReplyLands
  <2>3. CASE Handle(p)
    BY <2>3 DEF Handle, memory, Still, Wire
  <2>4. CASE ~Send(p) /\ ~ReplyOk(p) /\ ~ReplyFailed(p) /\ ~Handle(p)
    <3>1. Leaves(p)
      BY <1>1, <2>4, ActivationLeaves DEF Activate
    <3>2. at[p].pc # "wait" /\ UNCHANGED circuit
      <4>1. CASE Load(p) \/ Enrich(p) \/ Record(p) \/ Unready(p) \/ Mirror(p)
        BY <4>1 DEF Load, Enrich, Record, Unready, Mirror, memory
      <4>2. CASE \/ Confirm(p) \/ Settle(p) \/ Bind(p) \/ Seal(p)
                 \/ FaultActivation(p) \/ FaultSeal(p) \/ FaultSubmit(p)
        BY <4>2 DEF Confirm, Settle, Bind, Seal, FaultActivation, FaultSeal, FaultSubmit, memory
      <4> QED
        BY <1>1, <2>4, <4>1, <4>2 DEF Activate
    <3> QED
      BY <3>1, <3>2, LeavesWire DEF Still, Wire
  <2> QED
    BY <2>1, <2>2, <2>3, <2>4
<1>2. ASSUME NEW p \in Procs,
             \/ p \in Workers /\ (Claim(p) \/ EndJob(p))
             \/ \E a \in Assemblies : StartDirect(p, a)
      PROVE  Still(s)
  <2>1. UNCHANGED at \/ (Leaves(p) /\ at[p].pc # "wait")
    BY <1>2, CycleLeaves
  <2>2. UNCHANGED circuit
    <3>1. CASE Claim(p)
      BY <3>1 DEF Claim, memory
    <3>2. CASE EndJob(p)
      BY <3>2 DEF EndJob, Mark, Count, Fail, FaultEnd, memory
    <3>3. CASE \E a \in Assemblies : StartDirect(p, a)
      BY <3>3 DEF StartDirect, memory
    <3> QED
      BY <1>2, <3>1, <3>2, <3>3
  <2> QED
    BY <2>1, <2>2, LeavesWire DEF Still, Wire
<1>3. CASE \/ \E a \in Assemblies : Enqueue(a) \/ LeaseExpires(a) \/ BecomesDue(a)
           \/ \E w \in Workers : Reconcile(w) \/ Replenish(w)
           \/ ContextChanges \/ UNCHANGED vars
  BY <1>3 DEF Enqueue, LeaseExpires, BecomesDue, Reconcile, Replenish, ContextChanges, vars,
              memory, Still, Wire
<1>4. CASE \E r \in Servers : Restart(r) \/ CooldownOver(r)
  BY <1>4, RestartsBreaker
<1> QED
  BY <1>1, <1>2, <1>3, <1>4 DEF Next, Procs

LEMMA BreakersInit ==
    ASSUME Init, NEW s \in Servers
    PROVE  Breaker(s)!Init
  BY DEF Init, Idle, Breaker!Init

\* Workers and routes that share a server's breaker, with their retries, budgets
\* and restarts, keep what one breaker alone was shown to keep by PrismCircuit.
THEOREM QueueImplementsBreakers == Spec => ImplementsBreakers
<1> DEFINE Heard == \A s \in Servers : [Breaker(s)!Next]_(Breaker(s)!breaker)
<1>1. EvidenceInv /\ BudgetIsExact /\ [Next]_vars => Heard
  BY BreakersNext DEF EvidenceInv
<1>2. Init => \A s \in Servers : Breaker(s)!Init
  BY BreakersInit
<1> HIDE DEF Heard
<1>3. Spec => [][Heard]_vars
  BY <1>1, EvidenceAlways, BudgetAddsUp, PTL DEF Spec
<1> QED
  BY <1>2, <1>3, PTL DEF Spec, ImplementsBreakers, Heard
=============================================================================
