------------------------ MODULE PrismEvidenceProofs -------------------------
(***************************************************************************)
(* The chain of evidence of PrismQueue: tables only grow, every process is  *)
(* backed by what it has already written, and so a verification run stands  *)
(* on bindings, receipts and requests that agree.                           *)
(***************************************************************************)
EXTENDS PrismQueueProofs

\* What a step may do to the tables of evidence: add, never take back.
Grows ==
    /\ \A r \in Requests :
        /\ request[r] # None => request'[r] = request[r]
        /\ receipt[r] # None => receipt'[r] = receipt[r]
        /\ issued[r] # None => issued'[r] = issued[r]
        /\ receipt[r] # None /\ bridge[r] = "completed" => bridge'[r] = "completed"
    /\ \A t \in Traits : binding[t] # None => binding'[t] = binding[t]
    /\ sealed \subseteq sealed'

Resting == {"idle", "load", "settle", "count", "fail"}

\* What a process has behind it at each point of its way through a request and
\* a batch: this is what makes the evidence inductive.
Supported(j) ==
    LET r == <<j.job, j.trait>>
    IN  /\ j.pc \in {"send", "wait", "mirror", "confirm", "bind"} => request[r] = j.hash
        /\ j.pc \in {"mirror", "confirm", "bind"} => issued[r] = j.hash
        /\ j.pc \in {"confirm", "bind"} => receipt[r] = j.hash
        /\ j.pc = "bind" => bridge[r] = "completed"
        /\ j.pc \in Batching \ {"settle"} /\ ~j.partial
             => \A t \in TraitsOf[j.job] \ j.todo : binding[t] = <<j.job, t>>
        /\ j.pc = "seal" => j.todo = {} /\ ~j.partial
        /\ j.pc = "mark" => j.job \in sealed

AllSupported == \A p \in Procs : Supported(at[p])

Evidence == ReceiptMatchesRequest /\ BoundIsReceipted /\ SealedIsBound

EvidenceInv == Typed /\ Evidence /\ AllSupported
-----------------------------------------------------------------------------
LEMMA NoneIsNoHash ==
    ASSUME Typed
    PROVE  /\ None \notin Hashes /\ None \notin Requests
           /\ \A p \in Procs : at[p].hash \in Hashes
           /\ \A r \in Requests : /\ request[r] \in Hashes \cup {None}
                                  /\ receipt[r] \in Hashes \cup {None}
                                  /\ issued[r] \in Hashes \cup {None}
  BY QueueAssumption, ConstantTypes DEF Typed, TypeOK, Jobs

LEMMA RestingSupported ==
    ASSUME NEW j, j.pc \in Resting
    PROVE  Supported(j)
  BY DEF Supported, Resting, Batching, Sending

\* A process that does not move stays supported.
LEMMA StaysSupported ==
    ASSUME EvidenceInv, Grows, NEW q \in Procs, at'[q] = at[q]
    PROVE  Supported(at[q])'
<1> DEFINE j == at[q]
           r == <<j.job, j.trait>>
<1>1. Typed /\ at[q] \in Jobs /\ JobFine(at[q]) /\ Supported(at[q])
  BY DEF EvidenceInv, Typed, TypeOK, JobsFine, AllSupported
<1>2. CASE j.pc \in {"send", "wait", "mirror", "confirm", "bind"}
  <2>1. r \in Requests
    BY <1>1, <1>2, ReqType DEF Req, Sending
  <2>2. j.hash \in Hashes /\ None \notin Hashes
    BY <1>1, NoneIsNoHash
  <2>3. /\ request'[r] = j.hash
        /\ j.pc \in {"mirror", "confirm", "bind"} => issued'[r] = j.hash
        /\ j.pc \in {"confirm", "bind"} => receipt'[r] = j.hash
        /\ j.pc = "bind" => bridge'[r] = "completed"
    BY <1>1, <1>2, <2>1, <2>2 DEF Supported, Grows
  <2>4. ~j.partial => \A t \in TraitsOf[j.job] \ j.todo : binding'[t] = <<j.job, t>>
    <3>1. \A t \in TraitsOf[j.job] : t \in Traits
      BY <1>1, <1>2, ConstantTypes DEF JobFine
    <3>2. \A t : <<j.job, t>> # None \/ t \notin TraitsOf[j.job]
      BY <1>1, <1>2, <3>1, NoneIsNoHash DEF Requests, JobFine
    <3> QED
      BY <1>1, <1>2, <3>1, <3>2 DEF Supported, Grows, Batching, Sending
  <2> QED
    BY <1>2, <2>3, <2>4 DEF Supported
<1>3. CASE j.pc \in {"enrich", "record", "seal"}
  <2>1. \A t \in TraitsOf[j.job] : t \in Traits
    BY <1>1, <1>3, ConstantTypes DEF JobFine
  <2>2. \A t : <<j.job, t>> # None \/ t \notin TraitsOf[j.job]
    BY <1>1, <1>3, <2>1, NoneIsNoHash DEF Requests, JobFine
  <2>3. ~j.partial => \A t \in TraitsOf[j.job] \ j.todo : binding'[t] = <<j.job, t>>
    BY <1>1, <1>3, <2>1, <2>2 DEF Supported, Grows, Batching, Sending
  <2> QED
    BY <1>1, <1>3, <2>3 DEF Supported
<1>4. CASE j.pc = "mark"
  BY <1>1, <1>4 DEF Supported, Grows, Batching, Sending
<1>5. CASE j.pc \in Resting
  BY <1>5 DEF Supported, Resting, Batching, Sending
<1> QED
  BY <1>1, <1>2, <1>3, <1>4, <1>5 DEF Jobs, Steps, Resting

\* Evidence that nobody adds to stays evidence.
LEMMA EvidenceStays ==
    ASSUME EvidenceInv, Grows
    PROVE  /\ receipt' = receipt => ReceiptMatchesRequest'
           /\ binding' = binding => BoundIsReceipted'
           /\ sealed' = sealed => SealedIsBound'
<1>1. Typed /\ Evidence
  BY DEF EvidenceInv
<1>2. ASSUME receipt' = receipt PROVE ReceiptMatchesRequest'
  BY <1>1, <1>2, NoneIsNoHash DEF Evidence, ReceiptMatchesRequest, Grows
<1>3. ASSUME binding' = binding PROVE BoundIsReceipted'
  <2>1. \A t \in Traits : binding[t] \in Requests \cup {None}
    BY <1>1 DEF Typed, TypeOK
  <2>2. ASSUME NEW t \in Traits, binding[t] # None
        PROVE  receipt'[binding[t]] # None /\ bridge'[binding[t]] = "completed"
    <3>1. /\ binding[t] \in Requests
          /\ receipt[binding[t]] # None /\ bridge[binding[t]] = "completed"
      BY <1>1, <2>1, <2>2 DEF Evidence, BoundIsReceipted
    <3> QED
      BY <3>1 DEF Grows
  <2> QED
    BY <1>3, <2>2 DEF BoundIsReceipted
<1>4. ASSUME sealed' = sealed PROVE SealedIsBound'
  <2>1. \A a \in sealed : \A t \in TraitsOf[a] :
          t \in Traits /\ <<a, t>> # None
    BY <1>1, ConstantTypes, NoneIsNoHash DEF Typed, TypeOK, Requests
  <2>2. \A a \in sealed : \A t \in TraitsOf[a] : binding[t] = <<a, t>>
    BY <1>1 DEF Evidence, SealedIsBound
  <2>3. ASSUME NEW a \in sealed, NEW t \in TraitsOf[a] PROVE binding'[t] = <<a, t>>
    BY <2>1, <2>2 DEF Grows
  <2> QED
    BY <1>4, <2>3 DEF SealedIsBound
<1> QED
  BY <1>2, <1>3, <1>4
-----------------------------------------------------------------------------
\* Only process p moves.
Only(p) == \A q \in Procs : q # p => at'[q] = at[q]

EvidenceStep == Grows /\ Evidence' /\ AllSupported'

LEMMA MovedSupported ==
    ASSUME EvidenceInv, Grows, NEW p \in Procs, Only(p), Supported(at[p])'
    PROVE  AllSupported'
  BY StaysSupported DEF Only, AllSupported

LEMMA QuietGrows ==
    ASSUME EvidenceInv, UNCHANGED evidence
    PROVE  Grows /\ Evidence'
<1>1. Grows
  BY DEF evidence, Grows
<1> QED
  BY <1>1, EvidenceStays DEF evidence, Evidence

LEMMA QuietStep ==
    ASSUME EvidenceInv, UNCHANGED evidence, NEW p \in Procs, Only(p), Supported(at[p])'
    PROVE  EvidenceStep
  BY QuietGrows, MovedSupported DEF EvidenceStep

LEMMA StillStep ==
    ASSUME EvidenceInv, UNCHANGED <<evidence, at>>
    PROVE  EvidenceStep
<1>1. Grows /\ Evidence'
  BY QuietGrows
<1>2. AllSupported'
  BY <1>1, StaysSupported DEF AllSupported
<1> QED
  BY <1>1, <1>2 DEF EvidenceStep

LEMMA ThrowSupported ==
    ASSUME Typed, NEW p \in Procs, NEW class, Throw(p, class)
    PROVE  Only(p) /\ Supported(at[p])'
<1>1. at \in [Procs -> Jobs]
  BY DEF Typed, TypeOK
<1>2. Only(p) /\ at'[p].pc \in {"count", "idle"}
  BY <1>1 DEF Throw, Only, Idle, Jobs
<1> QED
  BY <1>2 DEF Supported, Batching, Sending

LEMMA AdvanceSupported ==
    ASSUME Typed, NEW p \in Procs, NEW todo, NEW partial \in BOOLEAN,
           Advance(p, todo, partial),
           ~partial => \A t \in TraitsOf[at[p].job] \ todo :
                         binding'[t] = <<at[p].job, t>>
    PROVE  Only(p) /\ Supported(at[p])'
<1>1. CASE todo = {} /\ partial
  BY <1>1, ThrowSupported DEF Advance
<1>2. CASE ~(todo = {} /\ partial)
  <2>1. at \in [Procs -> Jobs]
    BY DEF Typed, TypeOK
  <2>2. /\ Only(p)
        /\ at'[p].pc = IF todo = {} THEN "seal" ELSE "enrich"
        /\ at'[p].todo = todo /\ at'[p].partial = partial
        /\ at'[p].job = at[p].job
    <3> DEFINE j == [at[p] EXCEPT !.pc = IF todo = {} THEN "seal" ELSE "enrich",
                                  !.todo = todo, !.partial = partial]
    <3>1. at' = [at EXCEPT ![p] = j]
      BY <1>2, <2>1 DEF Advance
    <3>2. Only(p) /\ at'[p] = j
      BY <2>1, <3>1 DEF Only
    <3> QED
      BY <2>1, <3>2 DEF Jobs
  <2> QED
    BY <1>2, <2>2 DEF Supported
<1> QED
  BY <1>1, <1>2

LEMMA EvidenceQuiet ==
    ASSUME EvidenceInv,
           \/ \E a \in Assemblies : Enqueue(a) \/ LeaseExpires(a) \/ BecomesDue(a)
           \/ \E w \in Workers : Reconcile(w) \/ Replenish(w)
           \/ \E s \in Servers : CooldownOver(s)
           \/ ContextChanges
           \/ UNCHANGED vars
    PROVE  EvidenceStep
<1>1. UNCHANGED <<evidence, at>>
  BY DEF Enqueue, LeaseExpires, BecomesDue, Reconcile, Replenish, CooldownOver,
         ContextChanges, vars
<1> QED
  BY <1>1, StillStep

LEMMA EvidenceMoves ==
    ASSUME EvidenceInv,
           \/ \E w \in Workers : Claim(w) \/ Mark(w) \/ Count(w) \/ Fail(w) \/ FaultEnd(w)
           \/ \E d \in Direct, a \in Assemblies : StartDirect(d, a)
           \/ \E p \in Procs : Load(p) \/ Unready(p)
           \/ \E s \in Servers : Restart(s)
    PROVE  EvidenceStep
<1>1. Typed /\ at \in [Procs -> Jobs]
  BY DEF EvidenceInv, Typed, TypeOK
<1>2. ASSUME NEW w \in Workers, Claim(w) \/ Mark(w) \/ Count(w) \/ Fail(w) \/ FaultEnd(w)
      PROVE EvidenceStep
  <2>1. UNCHANGED evidence
    BY <1>2 DEF Claim, Mark, Count, Fail, FaultEnd
  <2>2. CASE UNCHANGED at
    BY <2>1, <2>2, StillStep
  <2>3. CASE at' # at
    <3>1. Only(w) /\ at'[w].pc \in {"load", "idle", "fail"}
      <4>1. CASE Claim(w)
        <5>1. PICK a \in Assemblies :
                at' = [at EXCEPT ![w] = [Idle EXCEPT !.pc = "load", !.job = a,
                         !.attempts = row[a].attempts, !.count = row[a].count]]
          BY <2>3, <4>1 DEF Claim
        <5>2. Only(w) /\ at'[w] = [Idle EXCEPT !.pc = "load", !.job = a,
                         !.attempts = row[a].attempts, !.count = row[a].count]
          BY <1>1, <5>1 DEF Only, Procs
        <5>3. at'[w].pc = "load"
          BY <5>2 DEF Idle
        <5> QED
          BY <5>2, <5>3
      <4>2. CASE Mark(w) \/ Fail(w) \/ FaultEnd(w)
        BY <1>1, <4>2 DEF Mark, Fail, FaultEnd, Only, Idle, Procs
      <4>3. CASE Count(w)
        <5>1. PICK n : at' = [at EXCEPT ![w].pc = "fail", ![w].seen = n]
          BY <4>3 DEF Count
        <5>2. at' = [at EXCEPT ![w] = [at[w] EXCEPT !.pc = "fail", !.seen = n]]
          BY <5>1
        <5> QED
          BY <1>1, <5>2 DEF Only, Procs, Jobs
      <4> QED
        BY <1>2, <4>1, <4>2, <4>3
    <3>2. Supported(at[w])'
      BY <3>1 DEF Supported, Batching, Sending
    <3> QED
      BY <2>1, <3>1, <3>2, QuietStep DEF Procs
  <2> QED
    BY <2>2, <2>3
<1>3. ASSUME NEW d \in Direct, NEW a \in Assemblies, StartDirect(d, a)
      PROVE EvidenceStep
  <2>1. Only(d) /\ at'[d].pc = "load"
    BY <1>1, <1>3 DEF StartDirect, Only, Idle, Procs
  <2>2. Supported(at[d])'
    BY <2>1 DEF Supported, Batching, Sending
  <2> QED
    BY <1>3, <2>1, <2>2, QuietStep DEF StartDirect, Procs
<1>4. ASSUME NEW p \in Procs, Load(p) PROVE EvidenceStep
  <2> DEFINE pending == TraitsOf[at[p].job] \ Bound(at[p].job)
  <2>1. PICK todo \in SUBSET pending : Advance(p, todo, todo # pending)
    BY <1>4 DEF Load
  <2>2. todo = pending => \A t \in TraitsOf[at[p].job] \ todo :
                            binding'[t] = <<at[p].job, t>>
    BY <1>4 DEF Load, Bound, evidence
  <2>3. Only(p) /\ Supported(at[p])'
    BY <1>1, <2>1, <2>2, AdvanceSupported
  <2> QED
    BY <1>4, <2>3, QuietStep DEF Load
<1>5. ASSUME NEW p \in Procs, Unready(p) PROVE EvidenceStep
  <2>1. PICK class : at' = [at EXCEPT ![p].pc = "settle", ![p].err = class]
    BY <1>5 DEF Unready
  <2>2. at' = [at EXCEPT ![p] = [at[p] EXCEPT !.pc = "settle", !.err = class]]
    BY <2>1
  <2>3. Only(p) /\ at'[p].pc = "settle"
    BY <1>1, <2>2 DEF Only, Jobs
  <2>4. Supported(at[p])'
    BY <2>3 DEF Supported
  <2> QED
    BY <1>5, <2>3, <2>4, QuietStep DEF Unready
<1>6. ASSUME NEW s \in Servers, Restart(s) PROVE EvidenceStep
  <2>1. Grows /\ Evidence'
    BY <1>6, QuietGrows DEF Restart
  <2>2. \A p \in Procs : Supported(at[p])'
    <3> TAKE p \in Procs
    <3>1. CASE ServerOf[p] = s
      <4>1. at'[p].pc = "idle"
        BY <1>6, <3>1 DEF Restart, Idle
      <4> QED
        BY <4>1 DEF Supported, Batching, Sending
    <3>2. CASE ServerOf[p] # s
      <4>1. at'[p] = at[p]
        BY <1>6, <3>2 DEF Restart
      <4> QED
        BY <2>1, <4>1, StaysSupported
    <3> QED
      BY <3>1, <3>2
  <2> QED
    BY <2>1, <2>2 DEF EvidenceStep, AllSupported
<1> QED
  BY <1>2, <1>3, <1>4, <1>5, <1>6
-----------------------------------------------------------------------------
\* The steps of a process between two traits.

\* The request recorded first wins; recording one again changes nothing.
LEMMA RecordGrows ==
    ASSUME EvidenceInv, NEW r \in Requests, NEW h, Recorded(r, h),
           UNCHANGED <<receipt, binding, sealed, issued>>
    PROVE  Grows
<1>1. Typed /\ Evidence
  BY DEF EvidenceInv
<1>2. request[r] = None => receipt[r] = None
  BY <1>1, NoneIsNoHash DEF Evidence, ReceiptMatchesRequest
<1>3. \A q \in Requests : request[q] # None => request'[q] = request[q]
  BY <1>1 DEF Recorded, Typed, TypeOK
<1>4. \A q \in Requests :
        receipt[q] # None /\ bridge[q] = "completed" => bridge'[q] = "completed"
  BY <1>1, <1>2 DEF Recorded, Typed, TypeOK
<1> QED
  BY <1>3, <1>4 DEF Grows

LEMMA EvidenceEnrich ==
    ASSUME EvidenceInv, NEW p \in Procs, Enrich(p)
    PROVE  EvidenceStep
<1>1. /\ Typed /\ at \in [Procs -> Jobs] /\ at[p] \in Jobs
      /\ Supported(at[p]) /\ at[p].pc = "enrich"
  BY DEF EvidenceInv, Typed, TypeOK, AllSupported, Enrich
<1>2. UNCHANGED evidence
  BY DEF Enrich
<1>3. Only(p) /\ Supported(at[p])'
  <2>1. CASE ~GateOpen
    BY <1>1, <2>1, ThrowSupported DEF Enrich
  <2>2. CASE GateOpen
    <3>1. PICK t, h : at' = [at EXCEPT ![p].pc = "record", ![p].trait = t, ![p].hash = h,
                                       ![p].blind = request[<<at[p].job, t>>] = None]
      BY <2>2 DEF Enrich
    <3> DEFINE b == request[<<at[p].job, t>>] = None
               j == [at[p] EXCEPT !.pc = "record", !.trait = t, !.hash = h, !.blind = b]
    <3>2. Only(p) /\ at'[p] = j
      BY <1>1, <3>1 DEF Only
    <3>3. /\ at'[p].pc = "record" /\ at'[p].job = at[p].job
          /\ at'[p].todo = at[p].todo /\ at'[p].partial = at[p].partial
      BY <1>1, <3>2 DEF Jobs
    <3> QED
      BY <1>1, <1>2, <3>2, <3>3 DEF Supported, Batching, Sending, evidence
  <2> QED
    BY <2>1, <2>2
<1> QED
  BY <1>2, <1>3, QuietStep

\* Only a request that computes the recorded input hash is sent.
LEMMA EvidenceRecord ==
    ASSUME EvidenceInv, NEW p \in Procs, Record(p)
    PROVE  EvidenceStep
<1>1. /\ Typed /\ at \in [Procs -> Jobs] /\ at[p] \in Jobs
      /\ Supported(at[p]) /\ at[p].pc = "record" /\ Req(p) \in Requests
  BY ReqType DEF EvidenceInv, Typed, TypeOK, AllSupported, Record, Sending
<1>2. Recorded(Req(p), at[p].hash) /\ UNCHANGED <<receipt, binding, sealed, issued>>
  BY DEF Record
<1>3. Grows
  BY <1>1, <1>2, RecordGrows
<1>4. Only(p) /\ Supported(at[p])'
  <2>1. CASE SameInput(p)
    <3>1. Only(p) /\ at'[p] = [at[p] EXCEPT !.pc = "send", !.blind = FALSE]
      BY <1>1, <2>1 DEF Record, Only
    <3>2. /\ at'[p].pc = "send" /\ at'[p].trait = at[p].trait
          /\ at'[p].hash = at[p].hash /\ at'[p].job = at[p].job
          /\ at'[p].todo = at[p].todo /\ at'[p].partial = at[p].partial
      BY <1>1, <3>1 DEF Jobs
    <3>3. request'[Req(p)] = at[p].hash
      BY <1>1, <1>2, <2>1 DEF Recorded, SameInput, Typed, TypeOK
    <3> QED
      BY <1>1, <1>2, <3>1, <3>2, <3>3 DEF Supported, Batching, Sending, Req
  <2>2. CASE ~SameInput(p)
    BY <1>1, <2>2, ThrowSupported DEF Record
  <2> QED
    BY <2>1, <2>2
<1> QED
  BY <1>2, <1>3, <1>4, EvidenceStays, MovedSupported DEF EvidenceStep, Evidence

LEMMA EvidenceSend ==
    ASSUME EvidenceInv, NEW p \in Procs, Send(p)
    PROVE  EvidenceStep
<1>1. /\ at \in [Procs -> Jobs] /\ at[p] \in Jobs
      /\ Supported(at[p]) /\ at[p].pc = "send"
  BY DEF EvidenceInv, Typed, TypeOK, AllSupported, Send
<1>2. Only(p) /\ Supported(at[p])'
  <2>1. CASE at' = [at EXCEPT ![p].pc = "settle", ![p].err = "transient"]
    <3>1. at' = [at EXCEPT ![p] = [at[p] EXCEPT !.pc = "settle", !.err = "transient"]]
      BY <2>1
    <3>2. Only(p) /\ at'[p].pc = "settle"
      BY <1>1, <3>1 DEF Only, Jobs
    <3> QED
      BY <3>2 DEF Supported
  <2>2. CASE at' = [at EXCEPT ![p].pc = "wait"]
    <3>1. Only(p) /\ at'[p] = [at[p] EXCEPT !.pc = "wait"]
      BY <1>1, <2>2 DEF Only
    <3>2. /\ at'[p].pc = "wait" /\ at'[p].trait = at[p].trait
          /\ at'[p].hash = at[p].hash /\ at'[p].job = at[p].job
          /\ at'[p].todo = at[p].todo /\ at'[p].partial = at[p].partial
      BY <1>1, <3>1 DEF Jobs
    <3>3. UNCHANGED <<request, binding>>
      BY DEF Send, evidence
    <3> QED
      BY <1>1, <3>1, <3>2, <3>3 DEF Supported, Batching, Sending
  <2> QED
    BY <2>1, <2>2 DEF Send
<1> QED
  BY <1>2, QuietStep DEF Send

\* Prism issues one receipt per request, for the input hash it was sent.
LEMMA EvidenceHandle ==
    ASSUME EvidenceInv, NEW p \in Procs, Handle(p)
    PROVE  EvidenceStep
<1>1. UNCHANGED <<request, bridge, receipt, binding, sealed, at>>
  BY DEF Handle
<1>2. Grows
  BY <1>1 DEF Handle, EvidenceInv, Typed, TypeOK, Grows
<1>3. AllSupported'
  BY <1>1, <1>2, StaysSupported DEF AllSupported
<1> QED
  BY <1>1, <1>2, <1>3, EvidenceStays DEF EvidenceStep, Evidence

LEMMA EvidenceReplies ==
    ASSUME EvidenceInv, NEW p \in Procs, ReplyOk(p) \/ ReplyFailed(p)
    PROVE  EvidenceStep
<1>1. /\ Typed /\ at \in [Procs -> Jobs] /\ at[p] \in Jobs /\ Supported(at[p])
  BY DEF EvidenceInv, Typed, TypeOK, AllSupported
<1>2. UNCHANGED evidence
  BY DEF ReplyOk, ReplyFailed
<1>3. Only(p) /\ Supported(at[p])'
  <2>1. CASE ReplyOk(p)
    <3>1. at'[p] = [at[p] EXCEPT !.pc = "mirror"] /\ Only(p) /\ at[p].pc = "wait"
      BY <1>1, <2>1 DEF ReplyOk, Only
    <3>2. /\ at'[p].pc = "mirror" /\ at'[p].trait = at[p].trait
          /\ at'[p].hash = at[p].hash /\ at'[p].job = at[p].job
          /\ at'[p].todo = at[p].todo /\ at'[p].partial = at[p].partial
      BY <1>1, <3>1 DEF Jobs
    <3>3. issued[Req(p)] = at[p].hash
      BY <2>1 DEF ReplyOk
    <3>4. UNCHANGED <<request, issued, binding>>
      BY <1>2 DEF evidence
    <3> QED
      BY <1>1, <3>1, <3>2, <3>3, <3>4 DEF Supported, Batching, Sending, Req
  <2>2. CASE ReplyFailed(p)
    <3>1. PICK class : at' = [at EXCEPT ![p].pc = "settle", ![p].err = class]
      BY <2>2 DEF ReplyFailed
    <3>2. at' = [at EXCEPT ![p] = [at[p] EXCEPT !.pc = "settle", !.err = class]]
      BY <3>1
    <3>3. Only(p) /\ at'[p].pc = "settle"
      BY <1>1, <3>2 DEF Only, Jobs
    <3> QED
      BY <3>3 DEF Supported
  <2> QED
    BY <2>1, <2>2
<1> QED
  BY <1>2, <1>3, QuietStep

\* The receipt that is mirrored is the one Prism issued for the recorded
\* request, also when another process mirrored it first.
LEMMA EvidenceMirror ==
    ASSUME EvidenceInv, NEW p \in Procs, Mirror(p)
    PROVE  EvidenceStep
<1>1. /\ Typed /\ Evidence /\ at \in [Procs -> Jobs] /\ at[p] \in Jobs
      /\ Supported(at[p]) /\ at[p].pc = "mirror" /\ Req(p) \in Requests
  BY ReqType DEF EvidenceInv, Typed, TypeOK, AllSupported, Mirror, Sending
<1>2. UNCHANGED <<request, bridge, binding, sealed, issued>>
  BY DEF Mirror
<1>3. at[p].hash # None
  BY <1>1, NoneIsNoHash
<1>4. request[Req(p)] = at[p].hash /\ issued[Req(p)] = at[p].hash
  BY <1>1 DEF Supported, Req
<1>5. /\ \A r \in Requests : r # Req(p) => receipt'[r] = receipt[r]
      /\ receipt'[Req(p)] = at[p].hash
  BY <1>1, <1>4 DEF Mirror, Typed, TypeOK, Evidence, ReceiptMatchesRequest
<1>6. Grows
  BY <1>1, <1>2, <1>4, <1>5 DEF Grows, Evidence, ReceiptMatchesRequest
<1>7. ReceiptMatchesRequest'
  BY <1>1, <1>2, <1>4, <1>5 DEF Evidence, ReceiptMatchesRequest
<1>8. Only(p) /\ Supported(at[p])'
  <2>1. Only(p) /\ at'[p] = [at[p] EXCEPT !.pc = "confirm"]
    BY <1>1 DEF Mirror, Only
  <2>2. /\ at'[p].pc = "confirm" /\ at'[p].trait = at[p].trait
        /\ at'[p].hash = at[p].hash /\ at'[p].job = at[p].job
        /\ at'[p].todo = at[p].todo /\ at'[p].partial = at[p].partial
    BY <1>1, <2>1 DEF Jobs
  <2> QED
    BY <1>1, <1>2, <1>5, <2>1, <2>2 DEF Supported, Batching, Sending, Req
<1> QED
  BY <1>2, <1>6, <1>7, <1>8, EvidenceStays, MovedSupported DEF EvidenceStep, Evidence

LEMMA EvidenceConfirm ==
    ASSUME EvidenceInv, NEW p \in Procs, Confirm(p)
    PROVE  EvidenceStep
<1>1. /\ Typed /\ at \in [Procs -> Jobs] /\ at[p] \in Jobs
      /\ Supported(at[p]) /\ at[p].pc = "confirm" /\ Req(p) \in Requests
  BY ReqType DEF EvidenceInv, Typed, TypeOK, AllSupported, Confirm, Sending
<1>2. UNCHANGED <<request, receipt, binding, sealed, issued>>
  BY DEF Confirm
<1>3. /\ \A r \in Requests : bridge[r] = "completed" => bridge'[r] = "completed"
      /\ bridge'[Req(p)] = "completed"
  BY <1>1 DEF Confirm, Typed, TypeOK
<1>4. Grows
  BY <1>2, <1>3 DEF Grows
<1>5. Only(p) /\ Supported(at[p])'
  <2>1. Only(p) /\ at'[p] = [at[p] EXCEPT !.pc = "bind"]
    BY <1>1 DEF Confirm, Only
  <2>2. /\ at'[p].pc = "bind" /\ at'[p].trait = at[p].trait
        /\ at'[p].hash = at[p].hash /\ at'[p].job = at[p].job
        /\ at'[p].todo = at[p].todo /\ at'[p].partial = at[p].partial
    BY <1>1, <2>1 DEF Jobs
  <2> QED
    BY <1>1, <1>2, <1>3, <2>1, <2>2 DEF Supported, Batching, Sending, Req
<1> QED
  BY <1>2, <1>4, <1>5, EvidenceStays, MovedSupported DEF EvidenceStep, Evidence

\* A recorded failure spares a request that has its receipt.
LEMMA EvidenceSettle ==
    ASSUME EvidenceInv, NEW p \in Procs, Settle(p) \/ FaultSubmit(p)
    PROVE  EvidenceStep
<1>1. /\ Typed /\ at \in [Procs -> Jobs] /\ at[p] \in Jobs
      /\ at[p].pc \in Sending /\ Req(p) \in Requests
  BY ReqType DEF EvidenceInv, Typed, TypeOK, Settle, FaultSubmit, Sending
<1>2. UNCHANGED <<request, receipt, binding, sealed, issued>>
  BY DEF Settle, FaultSubmit
<1>3. \A r \in Requests :
        receipt[r] # None /\ bridge[r] = "completed" => bridge'[r] = "completed"
  <2>1. CASE Settle(p)
    BY <1>1, <2>1 DEF Settle, FailRequest, Unreceipted, Typed, TypeOK
  <2>2. CASE FaultSubmit(p)
    BY <1>1, <2>2 DEF FaultSubmit, FailRequest, Unreceipted, Typed, TypeOK
  <2> QED
    BY <2>1, <2>2
<1>4. Grows
  BY <1>2, <1>3 DEF Grows
<1>5. Only(p) /\ Supported(at[p])'
  <2>1. CASE \E class : Throw(p, class)
    BY <1>1, <2>1, ThrowSupported
  <2>2. CASE at' = [at EXCEPT ![p].pc = "settle", ![p].err = "transient"]
    <3>1. at' = [at EXCEPT ![p] = [at[p] EXCEPT !.pc = "settle", !.err = "transient"]]
      BY <2>2
    <3>2. Only(p) /\ at'[p].pc = "settle"
      BY <1>1, <3>1 DEF Only, Jobs
    <3> QED
      BY <3>2 DEF Supported
  <2> QED
    BY <2>1, <2>2 DEF Settle, FaultSubmit
<1> QED
  BY <1>2, <1>4, <1>5, EvidenceStays, MovedSupported DEF EvidenceStep, Evidence

\* A binding is made for a mirrored, completed request, and only on a trait
\* that has none.
LEMMA EvidenceBind ==
    ASSUME EvidenceInv, NEW p \in Procs, Bind(p)
    PROVE  EvidenceStep
<1>1. /\ Typed /\ Evidence /\ at \in [Procs -> Jobs] /\ at[p] \in Jobs /\ JobFine(at[p])
      /\ Supported(at[p]) /\ at[p].pc = "bind" /\ Req(p) \in Requests
      /\ at[p].trait \in Traits
  BY ReqType DEF EvidenceInv, Typed, TypeOK, JobsFine, AllSupported, Bind, Sending
<1>2. UNCHANGED <<request, bridge, receipt, sealed, issued>>
  BY DEF Bind
<1>3. \A t \in Traits : binding[t] # None => binding'[t] = binding[t]
  BY <1>1 DEF Bind, Attach, Typed, TypeOK
<1>4. Grows
  BY <1>2, <1>3 DEF Grows
<1>5. BoundIsReceipted'
  <2>1. receipt[Req(p)] # None /\ bridge[Req(p)] = "completed"
    BY <1>1, NoneIsNoHash DEF Supported, Req
  <2>2. \A t \in Traits : binding'[t] = binding[t] \/ binding'[t] = Req(p)
    BY <1>1 DEF Bind, Attach, Typed, TypeOK
  <2> QED
    BY <1>1, <1>2, <2>1, <2>2 DEF Evidence, BoundIsReceipted
<1>6. Only(p) /\ Supported(at[p])'
  <2>1. CASE Advance(p, at[p].todo \ {at[p].trait}, at[p].partial)
            /\ binding[at[p].trait] \in {None, Req(p)}
    <3>1. binding'[at[p].trait] = <<at[p].job, at[p].trait>>
      BY <1>1, <2>1 DEF Bind, Attach, Req, Typed, TypeOK
    <3>2. \A t \in TraitsOf[at[p].job] : t \in Traits /\ <<at[p].job, t>> # None
      BY <1>1, ConstantTypes, NoneIsNoHash DEF JobFine, Batching, Sending, Requests
    <3>3. ~at[p].partial => \A t \in TraitsOf[at[p].job] \ (at[p].todo \ {at[p].trait}) :
                              binding'[t] = <<at[p].job, t>>
      BY <1>1, <1>3, <3>1, <3>2 DEF Supported, Batching, Sending
    <3>4. at[p].partial \in BOOLEAN
      BY <1>1 DEF Jobs
    <3> QED
      BY <1>1, <2>1, <3>3, <3>4, AdvanceSupported
  <2>2. CASE Throw(p, "terminal")
    BY <1>1, <2>2, ThrowSupported
  <2> QED
    BY <2>1, <2>2 DEF Bind
<1> QED
  BY <1>2, <1>4, <1>5, <1>6, EvidenceStays, MovedSupported DEF EvidenceStep, Evidence

\* A write that committed before its caller gave up leaves the same evidence.
LEMMA EvidenceFault ==
    ASSUME EvidenceInv, NEW p \in Procs, FaultActivation(p)
    PROVE  EvidenceStep
<1>1. /\ Typed /\ Evidence /\ at[p] \in Jobs /\ JobFine(at[p]) /\ Supported(at[p])
  BY DEF EvidenceInv, Typed, TypeOK, JobsFine, AllSupported
<1>2. Only(p) /\ Supported(at[p])'
  BY <1>1, ThrowSupported DEF FaultActivation
<1>3. UNCHANGED <<receipt, sealed, issued>>
  BY DEF FaultActivation
<1>4. CASE UNCHANGED <<request, bridge, binding>>
  BY <1>2, <1>3, <1>4, QuietStep DEF evidence
<1>5. CASE at[p].pc = "record" /\ Recorded(Req(p), at[p].hash) /\ UNCHANGED binding
  <2>1. Req(p) \in Requests
    BY <1>1, <1>5, ReqType DEF Sending
  <2>2. Grows
    BY <1>3, <1>5, <2>1, RecordGrows
  <2> QED
    BY <1>2, <1>3, <1>5, <2>2, EvidenceStays, MovedSupported DEF EvidenceStep, Evidence
<1>6. CASE at[p].pc = "bind" /\ Attach(p) /\ UNCHANGED <<request, bridge>>
  <2>1. Req(p) \in Requests /\ at[p].trait \in Traits
    BY <1>1, <1>6, ReqType DEF Sending
  <2>2. Grows
    BY <1>1, <1>3, <1>6, <2>1 DEF Attach, Grows, Typed, TypeOK
  <2>3. receipt[Req(p)] # None /\ bridge[Req(p)] = "completed"
    BY <1>1, <1>6, NoneIsNoHash DEF Supported, Req
  <2>4. \A t \in Traits : binding'[t] = binding[t] \/ binding'[t] = Req(p)
    BY <1>1, <1>6 DEF Attach, Typed, TypeOK
  <2>5. BoundIsReceipted'
    BY <1>1, <1>3, <1>6, <2>3, <2>4 DEF Evidence, BoundIsReceipted
  <2> QED
    BY <1>2, <1>3, <2>2, <2>5, EvidenceStays, MovedSupported DEF EvidenceStep, Evidence
<1> QED
  BY <1>4, <1>5, <1>6 DEF FaultActivation

\* A run is persisted only when the batch was the whole assembly.
LEMMA EvidenceSeal ==
    ASSUME EvidenceInv, NEW p \in Procs, Seal(p) \/ FaultSeal(p)
    PROVE  EvidenceStep
<1>1. /\ Typed /\ Evidence /\ at \in [Procs -> Jobs] /\ at[p] \in Jobs
      /\ Supported(at[p]) /\ at[p].pc = "seal"
  BY DEF EvidenceInv, Typed, TypeOK, AllSupported, Seal, FaultSeal
<1>2. UNCHANGED <<request, bridge, receipt, binding, issued>>
  BY DEF Seal, FaultSeal
<1>3. sealed' \in {sealed, sealed \cup {at[p].job}}
  BY DEF Seal, FaultSeal
<1>4. Grows
  BY <1>2, <1>3 DEF Grows
<1>5. SealedIsBound'
  <2>1. \A t \in TraitsOf[at[p].job] : binding[t] = <<at[p].job, t>>
    BY <1>1 DEF Supported, Batching
  <2> QED
    BY <1>1, <1>2, <1>3, <2>1 DEF Evidence, SealedIsBound
<1>6. Only(p) /\ Supported(at[p])'
  <2>1. CASE Seal(p) /\ p \in Workers
    <3>1. Only(p) /\ at'[p] = [at[p] EXCEPT !.pc = "mark"]
      BY <1>1, <2>1 DEF Seal, Only
    <3>2. at'[p].pc = "mark" /\ at'[p].job = at[p].job /\ at[p].job \in sealed'
      BY <1>1, <2>1, <3>1 DEF Seal, Jobs
    <3> QED
      BY <3>1, <3>2 DEF Supported, Batching, Sending
  <2>2. CASE Seal(p) /\ p \notin Workers
    <3>1. Only(p) /\ at'[p].pc = "idle"
      BY <1>1, <2>2 DEF Seal, Only, Idle
    <3> QED
      BY <3>1 DEF Supported, Batching, Sending
  <2>3. CASE FaultSeal(p)
    BY <1>1, <2>3, ThrowSupported DEF FaultSeal
  <2> QED
    BY <2>1, <2>2, <2>3
<1> QED
  BY <1>2, <1>4, <1>5, <1>6, EvidenceStays, MovedSupported DEF EvidenceStep, Evidence
-----------------------------------------------------------------------------
LEMMA EvidenceInit == Init => EvidenceInv
<1> SUFFICES ASSUME Init PROVE EvidenceInv
  OBVIOUS
<1>1. Evidence
  BY DEF Init, Evidence, ReceiptMatchesRequest, BoundIsReceipted, SealedIsBound
<1>2. AllSupported
  BY DEF Init, Idle, AllSupported, Supported, Batching, Sending
<1> QED
  BY <1>1, <1>2, TypedInit DEF EvidenceInv

LEMMA EvidenceNext == EvidenceInv /\ [Next]_vars => EvidenceStep
<1> SUFFICES ASSUME EvidenceInv, [Next]_vars PROVE EvidenceStep
  OBVIOUS
<1>1. CASE \E a \in Assemblies : Enqueue(a) \/ LeaseExpires(a) \/ BecomesDue(a)
  BY <1>1, EvidenceQuiet
<1>2. ASSUME NEW w \in Workers, Reconcile(w) \/ Replenish(w) \/ Claim(w) \/ EndJob(w)
      PROVE EvidenceStep
  BY <1>2, EvidenceQuiet, EvidenceMoves DEF EndJob
<1>3. CASE \E d \in Direct, a \in Assemblies : StartDirect(d, a)
  BY <1>3, EvidenceMoves
<1>4. ASSUME NEW p \in Procs, Activate(p) PROVE EvidenceStep
  BY <1>4, EvidenceMoves, EvidenceEnrich, EvidenceRecord, EvidenceSend, EvidenceHandle, EvidenceReplies,
     EvidenceMirror, EvidenceConfirm, EvidenceSettle, EvidenceBind, EvidenceFault,
     EvidenceSeal DEF Activate
<1>5. ASSUME NEW s \in Servers, Restart(s) \/ CooldownOver(s) PROVE EvidenceStep
  BY <1>5, EvidenceMoves, EvidenceQuiet
<1>6. CASE ContextChanges \/ UNCHANGED vars
  BY <1>6, EvidenceQuiet
<1> QED
  BY <1>1, <1>2, <1>3, <1>4, <1>5, <1>6 DEF Next

LEMMA EvidenceAlways == Spec => []EvidenceInv
<1>1. EvidenceInv /\ [Next]_vars => EvidenceInv'
  BY EvidenceNext, TypedNext DEF EvidenceInv, EvidenceStep
<1> QED
  BY EvidenceInit, <1>1, PTL DEF Spec

\* The chain of evidence: receipts agree with the request recorded and with
\* what Prism issued, bindings rest on mirrored receipts of completed requests,
\* and a run stands on a binding of its own assembly for every trait.
THEOREM EvidenceChain ==
    Spec => [](ReceiptMatchesRequest /\ BoundIsReceipted /\ SealedIsBound)
<1>1. EvidenceInv => ReceiptMatchesRequest /\ BoundIsReceipted /\ SealedIsBound
  BY DEF EvidenceInv, Evidence
<1> QED
  BY <1>1, EvidenceAlways, PTL

\* The recorded request, the issued receipt and the mirrored one carry one input
\* hash, whatever happens to the context (record_request, mirror_receipt).
THEOREM ReceiptsAgree == Spec => []ReceiptMatchesRequest
  BY EvidenceChain, PTL

\* A binding rests on a mirrored receipt and its request stays completed, however
\* late another process records a failure of it (persist_binding).
THEOREM BindingsAreReceipted == Spec => []BoundIsReceipted
  BY EvidenceChain, PTL

\* Evidence is only ever added: no step of any process, failure or restart
\* changes a recorded request, a receipt, a binding or a run.
THEOREM EvidenceOnlyGrows == Spec => [][Grows]_vars
<1>1. EvidenceInv /\ [Next]_vars => [Grows]_vars
  BY EvidenceNext DEF EvidenceStep
<1> QED
  BY <1>1, EvidenceAlways, PTL DEF Spec
=============================================================================
