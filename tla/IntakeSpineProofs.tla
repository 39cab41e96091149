------------------------- MODULE IntakeSpineProofs --------------------------
(***************************************************************************)
(* Proofs about IntakeSpine, for any documents, contents, parameters and    *)
(* executions: its types, the fence between executions, the completion      *)
(* check, and that the module implements IntakeGate.                        *)
(***************************************************************************)
EXTENDS IntakeSpine, TLAPS

States == Resolutions \cup {"absent", "storing", "deleted"}
Sessions == [version : Nat, complete : BOOLEAN, context : Contexts]

EvidenceTypeOK ==
    /\ documents \in [Docs -> [bytes : Bytes \cup {None}, state : States]]
    /\ declaring \in [Docs -> {"no", "pending", "failed"}]
    /\ artifacts \in [Bytes -> Docs \cup {None}]
    /\ session \in Sessions
    /\ faults \in Nat

\* An execution that has not started has sealed nothing and leased nothing.
IdleIsFresh ==
    \A e \in Execs : exec[e].pc = "idle" =>
        lease.token # e /\ \A i \in DOMAIN runs : runs[i].by # e

\* Whoever sealed before the last execution did has lost the lease for good.
Fenced ==
    \A i \in DOMAIN runs : runs[i].by # runs[Len(runs)].by => lease.token # runs[i].by

\* What an execution counts as done is sealed.
DoneIsSealed == \A e \in Execs : exec[e].done \subseteq SealedSteps

\* An unchanged row version means the same declared context and the same
\* evidence, or none at all.
Snapshot(e) ==
    /\ exec[e].version <= session.version
    /\ exec[e].pc \in {"leased", "versioned", "layers"} => exec[e].param \in Params
    /\ exec[e].pc = "layers" => exec[e].sources # {}
    /\ (exec[e].pc \in {"versioned", "layers"} /\ exec[e].version = session.version)
          => exec[e].context = session.context
    /\ (exec[e].pc = "layers" /\ exec[e].version = session.version)
          => exec[e].sources = Sources \/ Sources = {}

SnapshotHolds == \A e \in Execs : Snapshot(e)

SpineInv ==
    /\ TypeOK
    /\ IdleIsFresh /\ Fenced /\ RunsDoNotInterleave
    /\ DoneIsSealed /\ SnapshotHolds /\ CompletedReflectsEvidence
-----------------------------------------------------------------------------
(* Facts about the operators *)

LEMMA AppendFacts ==
    ASSUME NEW S, NEW s \in Seq(S), NEW x \in S
    PROVE  /\ Append(s, x) \in Seq(S)
           /\ Len(Append(s, x)) = Len(s) + 1
           /\ DOMAIN s = 1..Len(s)
           /\ DOMAIN Append(s, x) = 1..(Len(s) + 1)
           /\ \A i \in 1..Len(s) : Append(s, x)[i] = s[i]
           /\ Append(s, x)[Len(s) + 1] = x
           /\ Len(s) \in Nat
  OBVIOUS

LEMMA ElementTyped ==
    ASSUME NEW S, NEW s \in Seq(S), NEW i \in DOMAIN s
    PROVE  s[i] \in S
  OBVIOUS

LEMMA PlanIsSteps ==
    ASSUME NEW s \in SUBSET Bytes, NEW p \in Params, NEW c \in Contexts
    PROVE  Plan(s, p, c) \subseteq Steps
  BY DEF Steps

LEMMA SourcesAreBytes == Sources \subseteq Bytes /\ Sources' \subseteq Bytes
  BY DEF Sources, Joined

\* Sealing a run adds its step to the sealed ones and no other.
LEMMA SealingAdds ==
    ASSUME runs \in Seq([step : Steps, by : Execs]),
           NEW r \in [step : Steps, by : Execs], runs' = Append(runs, r)
    PROVE  SealedSteps' = SealedSteps \cup {r.step}
  <1>1. /\ DOMAIN runs = 1..Len(runs) /\ DOMAIN runs' = 1..(Len(runs) + 1)
        /\ \A i \in 1..Len(runs) : runs'[i] = runs[i]
        /\ runs'[Len(runs) + 1] = r /\ Len(runs) \in Nat
    BY AppendFacts
  <1>2. SealedSteps' \subseteq SealedSteps \cup {r.step}
    <2> SUFFICES ASSUME NEW i \in DOMAIN runs'
                 PROVE  runs'[i].step \in SealedSteps \cup {r.step}
      BY DEF SealedSteps
    <2>1. CASE i \in 1..Len(runs) BY <1>1, <2>1 DEF SealedSteps
    <2>2. CASE i = Len(runs) + 1 BY <1>1, <2>2
    <2> QED BY <1>1, <2>1, <2>2
  <1>3. SealedSteps \subseteq SealedSteps'
    <2> SUFFICES ASSUME NEW i \in DOMAIN runs PROVE runs[i].step \in SealedSteps'
      BY DEF SealedSteps
    <2> QED BY <1>1 DEF SealedSteps
  <1>4. r.step \in SealedSteps'
    <2>1. Len(runs) + 1 \in DOMAIN runs' BY <1>1
    <2> QED BY <1>1, <2>1 DEF SealedSteps
  <1> QED BY <1>2, <1>3, <1>4

LEMMA BindTyped ==
    ASSUME artifacts \in [Bytes -> Docs \cup {None}], NEW d \in Docs, NEW b, Bind(d, b)
    PROVE  artifacts' \in [Bytes -> Docs \cup {None}]
  BY DEF Bind

LEMMA InvalidateTyped ==
    ASSUME session \in Sessions, Invalidate
    PROVE  /\ session' \in Sessions
           /\ session'.version = session.version + 1 /\ session'.complete = FALSE
  <1>1. session' = [session EXCEPT !.version = session.version + 1, !.complete = FALSE]
    BY DEF Invalidate
  <1>2. session.version + 1 \in Nat BY DEF Sessions
  <1> QED BY <1>1, <1>2 DEF Sessions

LEMMA StateTyped ==
    ASSUME NEW docs \in [Docs -> [bytes : Bytes \cup {None}, state : States]],
           NEW d \in Docs, NEW s \in States
    PROVE  /\ [docs EXCEPT ![d].state = s] \in [Docs -> [bytes : Bytes \cup {None}, state : States]]
           /\ \A x \in Docs : x # d => [docs EXCEPT ![d].state = s][x] = docs[x]
           /\ [docs EXCEPT ![d].state = s][d].state = s
  OBVIOUS

LEMMA BudgetTyped ==
    ASSUME SpineAssumption, faults \in Nat, NEW spent, Budgeted(spent)
    PROVE  faults' \in Nat
  BY DEF Budgeted, Spend, SpineAssumption

\* The effect of a change of the evidence: it renews the session row, or it
\* leaves the active evidence as it was, or it takes the last source away.
Effect ==
    \/ session'.version = session.version + 1 /\ session'.complete = FALSE
    \/ session' = session /\ Sources' = Sources
    \/ session' = session /\ Sources' = {} /\ \E b \in Bytes : Sources = {b}

Changed == EvidenceTypeOK' /\ Effect /\ UNCHANGED <<lease, runs, exec>>

\* The trigger renews the session row, unless no source artifact is left.
LEMMA PromoteTyped ==
    ASSUME session \in Sessions, NEW arts \in [Bytes -> Docs \cup {None}], Promote(arts)
    PROVE  /\ session' \in Sessions
           /\ \/ session'.version = session.version + 1 /\ session'.complete = FALSE
              \/ session' = session /\ \A b \in Bytes : arts[b] = None
  <1>1. CASE \E b \in Bytes : arts[b] # None
    BY <1>1, InvalidateTyped DEF Promote
  <1>2. CASE \A b \in Bytes : arts[b] = None
    BY <1>2 DEF Promote
  <1> QED BY <1>1, <1>2

\* When the trigger finds no session there was no evidence to lose.
LEMMA PromoteEffect ==
    ASSUME EvidenceTypeOK, Promote(artifacts), artifacts' = artifacts
    PROVE  Effect /\ session' \in Sessions
  <1>1. CASE \A b \in Bytes : artifacts[b] = None
    BY <1>1, PromoteTyped DEF EvidenceTypeOK, Effect, Sources, Joined
  <1>2. CASE \E b \in Bytes : artifacts[b] # None
    BY <1>2, PromoteTyped DEF EvidenceTypeOK, Effect
  <1> QED BY <1>1, <1>2

\* A change among states none of which is "active" leaves the evidence alone.
LEMMA SameActive ==
    ASSUME \A x \in Docs : documents'[x].state = "active" <=> documents[x].state = "active",
           artifacts \in [Bytes -> Docs \cup {None}], artifacts' = artifacts,
           session' = session
    PROVE  Effect
  BY DEF Effect, Sources, Joined

LEMMA StoreChanges ==
    ASSUME EvidenceTypeOK, NEW d \in Docs, NEW b \in Bytes, StoreUpload(d, b)
    PROVE  Changed
  <1> USE DEF EvidenceTypeOK, States, Resolutions
  <1>1. \A x \in Docs : documents'[x].state = "active" <=> documents[x].state = "active"
    BY DEF StoreUpload
  <1>2. Effect BY <1>1, SameActive DEF StoreUpload
  <1> QED BY <1>2 DEF StoreUpload, Changed

LEMMA CreateChanges ==
    ASSUME EvidenceTypeOK, NEW d \in Docs, NEW declared \in BOOLEAN, CreateDocument(d, declared)
    PROVE  Changed
  <1> USE DEF EvidenceTypeOK
  <1>1. documents' \in [Docs -> [bytes : Bytes \cup {None}, state : States]]
    BY StateTyped, ZenonT(60) DEF CreateDocument, States, Resolutions
  <1>2. declaring' \in [Docs -> {"no", "pending", "failed"}] BY DEF CreateDocument
  <1>3. artifacts' \in [Bytes -> Docs \cup {None}] BY BindTyped DEF CreateDocument
  <1> QED BY <1>1, <1>2, <1>3, InvalidateTyped DEF CreateDocument, Effect, Changed

LEMMA ConfirmChanges ==
    ASSUME SpineAssumption, EvidenceTypeOK, NEW d \in Docs, NEW lost \in BOOLEAN,
           ConfirmDeclaration(d, lost)
    PROVE  Changed
  <1> USE DEF EvidenceTypeOK
  <1>1. declaring' \in [Docs -> {"no", "pending", "failed"}] BY DEF ConfirmDeclaration
  <1>2. faults' \in Nat BY BudgetTyped DEF ConfirmDeclaration
  <1>3. session' \in Sessions BY DEF ConfirmDeclaration, Sessions, Contexts
  <1> QED BY <1>1, <1>2, <1>3 DEF ConfirmDeclaration, Effect, Changed

LEMMA WithdrawChanges ==
    ASSUME EvidenceTypeOK, NEW d \in Docs, WithdrawDeclaration(d)
    PROVE  Changed
  <1> USE DEF EvidenceTypeOK
  <1> DEFINE b == documents[d].bytes
             left == IF artifacts[b] = d THEN [artifacts EXCEPT ![b] = None] ELSE artifacts
  <1>0. /\ declaring' \in [Docs -> {"no", "pending", "failed"}]
        /\ UNCHANGED <<lease, runs, exec, faults>>
    BY DEF WithdrawDeclaration
  <1>1. CASE ~Row(d)
    <2>1. UNCHANGED <<documents, artifacts, session>> BY <1>1 DEF WithdrawDeclaration
    <2> QED BY <1>0, <2>1 DEF Effect, Changed, Sources, Joined
  <1>2. CASE Row(d)
    <2>1. /\ documents' = [documents EXCEPT ![d].state = "deleted"]
          /\ artifacts' = left /\ left \in [Bytes -> Docs \cup {None}]
      BY <1>2 DEF WithdrawDeclaration
    <2>2. documents' \in [Docs -> [bytes : Bytes \cup {None}, state : States]]
      BY <2>1, StateTyped DEF States
    <2>3. \A c \in Bytes : left[c] = artifacts[c] \/ (c = b /\ artifacts[c] = d /\ left[c] = None)
      OBVIOUS
    <2>4. CASE documents[d].state = "active"
      <3>1. Promote(left) BY <1>2, <2>4 DEF WithdrawDeclaration
      <3> HIDE DEF left, b
      <3>2. CASE session' = session /\ \A c \in Bytes : left[c] = None
        <4>1. Sources' = {} BY <2>1, <3>2 DEF Sources, Joined
        <4>2. \A c \in Sources : c = b BY <2>3, <3>2 DEF Sources, Joined
        <4>3. Sources = {} \/ (b \in Bytes /\ Sources = {b}) BY <4>2, SourcesAreBytes
        <4> QED BY <1>0, <2>1, <2>2, <3>2, <4>1, <4>3 DEF Effect, Changed
      <3> QED BY <1>0, <2>1, <2>2, <3>1, <3>2, PromoteTyped DEF Effect, Changed
    <2>5. CASE documents[d].state # "active"
      <3>1. session' = session BY <1>2, <2>5 DEF WithdrawDeclaration
      <3>2. \A x \in Docs : documents'[x].state = "active" <=> documents[x].state = "active"
        BY <2>1, <2>5
      <3> HIDE DEF left
      <3>3. Sources' = Sources BY <2>1, <2>3, <2>5, <3>2 DEF Sources, Joined
      <3> QED BY <1>0, <2>1, <2>2, <3>1, <3>3 DEF Effect, Changed
    <2> QED BY <2>4, <2>5
  <1> QED BY <1>1, <1>2

LEMMA ReplaceChanges ==
    ASSUME EvidenceTypeOK, NEW d \in Docs, NEW old \in Docs, Replace(old, d)
    PROVE  Changed
  <1> USE DEF EvidenceTypeOK
  <1> DEFINE stored == [documents EXCEPT ![d].state = "active"]
  <1>1. stored \in [Docs -> [bytes : Bytes \cup {None}, state : States]]
    BY StateTyped, ZenonT(60) DEF States, Resolutions
  <1>2. documents' = [stored EXCEPT ![old].state = "superseded"] BY DEF Replace
  <1> HIDE DEF stored
  <1>3. documents' \in [Docs -> [bytes : Bytes \cup {None}, state : States]]
    BY <1>1, <1>2, StateTyped, ZenonT(60) DEF States, Resolutions
  <1>4. artifacts' \in [Bytes -> Docs \cup {None}] BY BindTyped DEF Replace
  <1> QED BY <1>3, <1>4, InvalidateTyped DEF Replace, Effect, Changed

LEMMA ResolveChanges ==
    ASSUME EvidenceTypeOK, NEW d \in Docs, NEW s \in Resolutions, SetResolution(d, s)
    PROVE  Changed
  <1> USE DEF EvidenceTypeOK
  <1>1. documents' \in [Docs -> [bytes : Bytes \cup {None}, state : States]]
    BY StateTyped, ZenonT(60) DEF SetResolution, States
  <1>2. Effect /\ session' \in Sessions BY PromoteEffect DEF SetResolution
  <1> QED BY <1>1, <1>2 DEF SetResolution, Changed

LEMMA DeleteChanges ==
    ASSUME EvidenceTypeOK, NEW d \in Docs, Delete(d)
    PROVE  Changed
  <1> USE DEF EvidenceTypeOK
  <1>1. documents' = [documents EXCEPT ![d].state = "deleted"] BY DEF Delete
  <1>2. documents' \in [Docs -> [bytes : Bytes \cup {None}, state : States]]
    BY <1>1, StateTyped, ZenonT(60) DEF States
  <1>3. Effect /\ session' \in Sessions
    <2>1. CASE documents[d].state = "active" BY <2>1, PromoteEffect DEF Delete
    <2>2. CASE documents[d].state # "active"
      <3>1. \A x \in Docs : documents'[x].state = "active" <=> documents[x].state = "active"
        BY <1>1, <2>2
      <3> QED BY <2>2, <3>1, SameActive DEF Delete
    <2> QED BY <2>1, <2>2
  <1> QED BY <1>2, <1>3 DEF Delete, Changed

LEMMA EvidenceStep ==
    ASSUME SpineAssumption, EvidenceTypeOK, ChangeEvidence
    PROVE  Changed
  BY StoreChanges, CreateChanges, ConfirmChanges, WithdrawChanges, ReplaceChanges,
     ResolveChanges, DeleteChanges DEF ChangeEvidence
-----------------------------------------------------------------------------
(* Steps that seal nothing and complete nothing *)

ExecRecords ==
    [pc : {"idle", "leased", "versioned", "layers", "ending", "over"},
     param : Params \cup {None}, version : Nat, context : Contexts,
     sources : SUBSET Bytes, done : SUBSET Steps, active : BOOLEAN]

Early == {"leased", "versioned", "layers"}

\* Execution e moves on: what it read is the row version and the evidence of
\* this moment, or what it had.
Moves(e) ==
    /\ exec' \in [Execs -> ExecRecords]
    /\ \A x \in Execs : x # e => exec'[x] = exec[x]
    /\ exec[e].pc # "idle" /\ exec'[e].pc # "idle"
    /\ exec'[e].done = exec[e].done /\ exec'[e].param = exec[e].param
    /\ exec'[e].pc \in Early => exec[e].pc \in Early
    /\ \/ exec'[e].version = exec[e].version /\ exec'[e].context = exec[e].context
             /\ (exec'[e].pc \in {"versioned", "layers"}
                    => exec[e].pc \in {"versioned", "layers"})
       \/ exec'[e].version = session.version /\ exec'[e].context = session.context
    /\ exec'[e].pc = "layers" =>
          \/ exec'[e].sources = Sources /\ Sources # {}
          \/ /\ exec[e].pc = "layers" /\ exec'[e].version = exec[e].version
             /\ exec'[e].sources = exec[e].sources

Quiet ==
    /\ UNCHANGED <<tables, runs>>
    /\ lease' \in [token : Execs \cup {None}, live : BOOLEAN]
    /\ lease'.token = lease.token \/ lease'.token = None
    /\ faults' \in Nat
    /\ exec' = exec \/ \E e \in Execs : Moves(e)

LEMMA QuietStep ==
    ASSUME SpineAssumption, TypeOK,
           \/ Expire
           \/ \E e \in Execs :
                 \/ ReadSession(e) \/ ReadSources(e) \/ Throw(e) \/ Heartbeat(e) \/ Crash(e)
                 \/ \E lost \in BOOLEAN : Release(e, lost)
    PROVE  Quiet
  <1>0. /\ exec \in [Execs -> ExecRecords] /\ faults \in Nat
        /\ lease \in [token : Execs \cup {None}, live : BOOLEAN]
        /\ session \in Sessions /\ Sources \subseteq Bytes
    BY SourcesAreBytes DEF TypeOK, ExecRecords, Sessions
  <1>1. CASE Expire
    BY <1>0, <1>1, BudgetTyped DEF Expire, Quiet
  <1>2. ASSUME NEW e \in Execs, ReadSession(e) PROVE Quiet
    <2> DEFINE r == [exec[e] EXCEPT !.pc = "versioned", !.version = session.version,
                                    !.context = session.context]
    <2>2. exec[e] \in ExecRecords BY <1>0
    <2>3. /\ r \in ExecRecords /\ r.pc = "versioned" /\ r.version = session.version
          /\ r.context = session.context /\ r.done = exec[e].done /\ r.param = exec[e].param
      BY <1>0, <2>2 DEF ExecRecords, Sessions
    <2>4. exec' = [exec EXCEPT ![e] = r] /\ exec[e].pc = "leased" BY <1>2 DEF ReadSession
    <2> HIDE DEF r
    <2>1. Moves(e) BY <1>0, <2>3, <2>4 DEF Moves, Early
    <2> QED BY <1>0, <1>2, <2>1 DEF ReadSession, Quiet
  <1>3. ASSUME NEW e \in Execs, ReadSources(e) PROVE Quiet
    <2> DEFINE r == [exec[e] EXCEPT !.pc = IF Sources = {} THEN "ending" ELSE "layers",
                                    !.sources = Sources]
    <2>2. exec[e] \in ExecRecords BY <1>0
    <2>3. /\ r \in ExecRecords /\ r.pc \in {"ending", "layers"} /\ r.sources = Sources
          /\ r.version = exec[e].version /\ r.done = exec[e].done /\ r.param = exec[e].param
          /\ r.context = exec[e].context /\ (r.pc = "layers" => Sources # {})
      BY <1>0, <2>2 DEF ExecRecords
    <2>4. exec' = [exec EXCEPT ![e] = r] /\ exec[e].pc = "versioned" BY <1>3 DEF ReadSources
    <2> HIDE DEF r
    <2>1. Moves(e) BY <1>0, <2>3, <2>4 DEF Moves, Early
    <2> QED BY <1>0, <1>3, <2>1 DEF ReadSources, Quiet
  <1>4. ASSUME NEW e \in Execs, Throw(e) PROVE Quiet
    <2>1. Moves(e) BY <1>0, <1>4 DEF Throw, Goto, Moves, ExecRecords, Early
    <2> QED BY <1>0, <1>4, <2>1 DEF Throw, Spend, Quiet, SpineAssumption
  <1>5. ASSUME NEW e \in Execs, Heartbeat(e) PROVE Quiet
    <2>1. exec' = [exec EXCEPT ![e].active = FALSE] BY <1>5 DEF Heartbeat
    <2>2. exec[e].pc # "idle" BY <1>5 DEF Heartbeat, Running
    <2> DEFINE r == [exec[e] EXCEPT !.active = FALSE]
    <2>3. exec[e] \in ExecRecords BY <1>0
    <2>5. /\ r \in ExecRecords /\ r.pc = exec[e].pc /\ r.sources = exec[e].sources
          /\ r.version = exec[e].version /\ r.done = exec[e].done /\ r.param = exec[e].param
          /\ r.context = exec[e].context
      BY <2>3 DEF ExecRecords
    <2>6. exec' = [exec EXCEPT ![e] = r] BY <2>1
    <2> HIDE DEF r
    <2>4. Moves(e) BY <1>0, <2>2, <2>5, <2>6 DEF Moves, Early
    <2> QED BY <1>0, <1>5, <2>4 DEF Heartbeat, Quiet
  <1>6. ASSUME NEW e \in Execs, Crash(e) PROVE Quiet
    <2>1. Moves(e) BY <1>0, <1>6 DEF Crash, Running, Goto, Moves, ExecRecords, Early
    <2> QED BY <1>0, <1>6, <2>1 DEF Crash, Spend, Quiet, SpineAssumption
  <1>7. ASSUME NEW e \in Execs, NEW lost \in BOOLEAN, Release(e, lost) PROVE Quiet
    <2>1. Moves(e) BY <1>0, <1>7 DEF Release, Moves, ExecRecords, Early
    <2>2. faults' \in Nat BY <1>0, <1>7, BudgetTyped DEF Release
    <2> QED BY <1>0, <1>7, <2>1, <2>2 DEF Release, Quiet
  <1> QED BY <1>1, <1>2, <1>3, <1>4, <1>5, <1>6, <1>7

LEMMA QuietKeeps ==
    ASSUME SpineAssumption, SpineInv, Quiet
    PROVE  SpineInv'
  <1> USE DEF SpineInv
  <1>0. /\ session' = session /\ runs' = runs /\ Sources' = Sources /\ SealedSteps' = SealedSteps
        /\ session.version \in Nat
    BY DEF Quiet, tables, Sources, SealedSteps, TypeOK
  <1>1. TypeOK'
    <2>1. exec' \in [Execs -> ExecRecords] BY DEF Quiet, Moves, TypeOK, ExecRecords
    <2> QED BY <2>1 DEF Quiet, tables, TypeOK, ExecRecords
  <1>2. \A e \in Execs : exec'[e].pc = "idle" => exec[e].pc = "idle"
    BY DEF Quiet, Moves
  <1>3. IdleIsFresh'
    <2> SUFFICES ASSUME NEW e \in Execs, exec'[e].pc = "idle"
                 PROVE  lease'.token # e /\ \A i \in DOMAIN runs : runs[i].by # e
      BY <1>0 DEF IdleIsFresh
    <2> QED BY <1>2 DEF IdleIsFresh, Quiet, SpineAssumption
  <1>4. Fenced'
    <2> SUFFICES ASSUME NEW i \in DOMAIN runs, runs[i].by # runs[Len(runs)].by
                 PROVE  lease'.token # runs[i].by
      BY <1>0 DEF Fenced
    <2>1. runs[i].by \in Execs
      <3>2. runs \in Seq([step : Steps, by : Execs]) BY DEF TypeOK
      <3>1. runs[i] \in [step : Steps, by : Execs] BY <3>2, ElementTyped
      <3> QED BY <3>1
    <2> QED BY <2>1 DEF Fenced, Quiet, SpineAssumption
  <1>5. RunsDoNotInterleave' BY <1>0 DEF RunsDoNotInterleave
  <1>6. DoneIsSealed' BY <1>0 DEF DoneIsSealed, Quiet, Moves
  <1>7. SnapshotHolds'
    <2> SUFFICES ASSUME NEW e \in Execs PROVE Snapshot(e)'
      BY DEF SnapshotHolds
    <2>0. Snapshot(e) BY DEF SnapshotHolds
    <2>1. CASE exec'[e] = exec[e] BY <1>0, <2>0, <2>1 DEF Snapshot
    <2>2. CASE Moves(e)
      <3>1. exec'[e].version <= session.version
        BY <1>0, <2>0, <2>2 DEF Snapshot, Moves
      <3>2. exec'[e].pc \in Early => exec'[e].param \in Params
        BY <2>0, <2>2 DEF Snapshot, Moves, Early
      <3>3. exec'[e].pc = "layers" => exec'[e].sources # {}
        BY <2>0, <2>2 DEF Snapshot, Moves
      <3>4. (exec'[e].pc \in {"versioned", "layers"} /\ exec'[e].version = session.version)
               => exec'[e].context = session.context
        BY <2>0, <2>2 DEF Snapshot, Moves
      <3>5. (exec'[e].pc = "layers" /\ exec'[e].version = session.version)
               => exec'[e].sources = Sources \/ Sources = {}
        BY <2>0, <2>2 DEF Snapshot, Moves
      <3> QED BY <1>0, <3>1, <3>2, <3>3, <3>4, <3>5 DEF Snapshot, Early
    <2> QED BY <2>1, <2>2 DEF Quiet, Moves
  <1>8. CompletedReflectsEvidence' BY <1>0 DEF CompletedReflectsEvidence
  <1> QED BY <1>1, <1>3, <1>4, <1>5, <1>6, <1>7, <1>8
-----------------------------------------------------------------------------
(* The steps that matter *)

LEMMA EvidenceKeeps ==
    ASSUME SpineAssumption, SpineInv, ChangeEvidence
    PROVE  SpineInv'
  <1> USE DEF SpineInv
  <1>0. EvidenceTypeOK BY DEF TypeOK, EvidenceTypeOK, States, Sessions
  <1>1. EvidenceTypeOK' /\ Effect /\ UNCHANGED <<lease, runs, exec>>
    BY <1>0, EvidenceStep DEF Changed
  <1>2. TypeOK' BY <1>1 DEF TypeOK, EvidenceTypeOK, States, Sessions
  <1>3. IdleIsFresh' /\ Fenced' /\ RunsDoNotInterleave' /\ DoneIsSealed'
    BY <1>1 DEF IdleIsFresh, Fenced, RunsDoNotInterleave, DoneIsSealed, SealedSteps
  <1>4. SealedSteps' = SealedSteps BY <1>1 DEF SealedSteps
  <1>5. session.version \in Nat /\ \A e \in Execs : exec[e].version \in Nat
    BY DEF TypeOK
  <1>6. CASE session'.version = session.version + 1 /\ session'.complete = FALSE
    <2>1. SnapshotHolds' BY <1>1, <1>5, <1>6 DEF SnapshotHolds, Snapshot
    <2>2. CompletedReflectsEvidence' BY <1>6 DEF CompletedReflectsEvidence
    <2> QED BY <1>2, <1>3, <2>1, <2>2
  <1>7. CASE session' = session /\ (Sources' = Sources \/ Sources' = {})
    <2>1. SnapshotHolds' BY <1>1, <1>7 DEF SnapshotHolds, Snapshot
    <2>2. CompletedReflectsEvidence' BY <1>4, <1>7 DEF CompletedReflectsEvidence
    <2> QED BY <1>2, <1>3, <2>1, <2>2
  <1> QED BY <1>1, <1>6, <1>7 DEF Effect

LEMMA AcquireKeeps ==
    ASSUME SpineAssumption, SpineInv,
           NEW e \in Execs, NEW p \in Params, NEW lost \in BOOLEAN, Acquire(e, p, lost)
    PROVE  SpineInv'
  <1> USE DEF SpineInv
  <1>0. /\ session' = session /\ runs' = runs /\ Sources' = Sources /\ SealedSteps' = SealedSteps
        /\ session.version \in Nat /\ exec[e].pc = "idle" /\ lease'.token = e
    BY DEF Acquire, tables, Sources, SealedSteps, TypeOK
  <1>1. exec' \in [Execs -> ExecRecords]
        /\ (\A x \in Execs : x # e => exec'[x] = exec[x])
        /\ exec'[e].pc \in {"leased", "over"} /\ exec'[e].param = p
        /\ exec'[e].version = 0 /\ exec'[e].done = {}
    BY DEF Acquire, TypeOK, ExecRecords, NotStarted, Contexts
  <1>2. TypeOK'
    <2>1. faults' \in Nat BY BudgetTyped DEF Acquire, TypeOK
    <2> QED BY <1>1, <2>1 DEF Acquire, tables, TypeOK, ExecRecords
  <1>3. \A i \in DOMAIN runs : runs[i].by # e BY <1>0 DEF IdleIsFresh
  <1>4. IdleIsFresh' BY <1>0, <1>1 DEF IdleIsFresh
  <1>5. Fenced' BY <1>0, <1>3 DEF Fenced
  <1>6. RunsDoNotInterleave' BY <1>0 DEF RunsDoNotInterleave
  <1>7. DoneIsSealed'
    <2> SUFFICES ASSUME NEW x \in Execs PROVE exec'[x].done \subseteq SealedSteps
      BY <1>0 DEF DoneIsSealed
    <2> QED BY <1>1 DEF DoneIsSealed
  <1>8. SnapshotHolds'
    <2> SUFFICES ASSUME NEW x \in Execs PROVE Snapshot(x)'
      BY DEF SnapshotHolds
    <2>1. CASE x = e BY <1>0, <1>1, <2>1 DEF Snapshot
    <2>2. CASE x # e BY <1>0, <1>1, <2>2 DEF SnapshotHolds, Snapshot
    <2> QED BY <2>1, <2>2
  <1>9. CompletedReflectsEvidence' BY <1>0 DEF CompletedReflectsEvidence
  <1> QED BY <1>2, <1>4, <1>5, <1>6, <1>7, <1>8, <1>9

\* What an execution still has to seal belongs to the plan of what it read.
LEMMA NextStepsArePlanned ==
    ASSUME TypeOK, SnapshotHolds, NEW e \in Execs, exec[e].pc = "layers",
           NEW step \in NextSteps(e)
    PROVE  /\ step \in Plan(exec[e].sources, exec[e].param, exec[e].context)
           /\ exec[e].sources \in SUBSET Bytes /\ exec[e].param \in Params
           /\ exec[e].context \in Contexts /\ step \in Steps
  <1>1. /\ exec[e].sources \in SUBSET Bytes /\ exec[e].param \in Params
        /\ exec[e].context \in Contexts
    BY DEF TypeOK, SnapshotHolds, Snapshot
  <1>2. step \in Plan(exec[e].sources, exec[e].param, exec[e].context)
    BY DEF NextSteps, Pending
  <1> QED BY <1>1, <1>2, PlanIsSteps

\* The one step that extends the chain: the holder of the live lease seals a
\* run of its own, and no earlier sealer but itself still holds the lease.
LEMMA SealKeeps ==
    ASSUME SpineAssumption, SpineInv, NEW e \in Execs, NEW step \in Steps,
           lease.token = e, exec[e].pc # "idle",
           runs' = Append(runs, [step |-> step, by |-> e]), lease' = lease
    PROVE  /\ Fenced' /\ RunsDoNotInterleave'
           /\ SealedSteps' = SealedSteps \cup {step}
           /\ \A i \in DOMAIN runs' : (i \in DOMAIN runs /\ runs'[i] = runs[i]) \/ runs'[i].by = e
  <1> USE DEF SpineInv
  <1> DEFINE r == [step |-> step, by |-> e]
  <1>0. r \in [step : Steps, by : Execs] /\ runs \in Seq([step : Steps, by : Execs])
    BY DEF TypeOK
  <1>1. /\ DOMAIN runs = 1..Len(runs) /\ DOMAIN runs' = 1..(Len(runs) + 1)
        /\ \A i \in 1..Len(runs) : runs'[i] = runs[i]
        /\ runs'[Len(runs) + 1] = r /\ Len(runs) \in Nat
        /\ Len(runs') = Len(runs) + 1
    BY <1>0, AppendFacts
  <1>2. \A i \in DOMAIN runs' : (i \in DOMAIN runs /\ runs'[i] = runs[i]) \/ runs'[i].by = e
    BY <1>1
  <1>3. Fenced' BY <1>1, <1>2 DEF Fenced
  <1>4. SealedSteps' = SealedSteps \cup {step}
    <2>1. SealedSteps' = SealedSteps \cup {r.step} BY <1>0, SealingAdds
    <2> QED BY <2>1
  <1>5. RunsDoNotInterleave'
    <2> SUFFICES ASSUME NEW i \in DOMAIN runs', NEW k \in DOMAIN runs',
                        runs'[i].by = runs'[k].by, NEW j \in DOMAIN runs', i < j, j < k
                 PROVE  runs'[j].by = runs'[i].by
      BY DEF RunsDoNotInterleave
    <2>1. /\ i \in DOMAIN runs /\ j \in DOMAIN runs
          /\ runs'[i] = runs[i] /\ runs'[j] = runs[j]
      BY <1>1
    <2>2. CASE k \in DOMAIN runs
      BY <1>1, <2>1, <2>2 DEF RunsDoNotInterleave
    <2>3. CASE k = Len(runs) + 1
      <3>1. runs[i].by = e BY <1>1, <2>1, <2>3
      <3>2. Len(runs) \in DOMAIN runs /\ j <= Len(runs) BY <1>1, <2>1
      <3>3. runs[Len(runs)].by = e BY <2>1, <3>1 DEF Fenced
      <3>4. CASE j = Len(runs) BY <2>1, <3>1, <3>3, <3>4
      <3>5. CASE j < Len(runs) BY <2>1, <3>1, <3>2, <3>3, <3>5 DEF RunsDoNotInterleave
      <3> QED BY <1>1, <2>1, <3>2, <3>4, <3>5
    <2> QED BY <1>1, <2>2, <2>3
  <1> QED BY <1>2, <1>3, <1>4, <1>5

LEMMA PersistKeeps ==
    ASSUME SpineAssumption, SpineInv, NEW e \in Execs, NEW step \in NextSteps(e),
           NEW lost \in BOOLEAN, Persist(e, step, lost)
    PROVE  SpineInv'
  <1> USE DEF SpineInv
  <1>0. /\ session' = session /\ lease' = lease /\ Sources' = Sources /\ exec[e].pc = "layers"
        /\ session.version \in Nat /\ step \in Steps
    BY NextStepsArePlanned DEF Persist, tables, Sources, TypeOK
  <1>1. CASE ~(exec[e].active /\ Leased(e))
    <2>1. exec' = [exec EXCEPT ![e].pc = "ending"] BY <1>1 DEF Persist, Goto
    <2> DEFINE x == [exec[e] EXCEPT !.pc = "ending"]
    <2>a. exec \in [Execs -> ExecRecords] /\ exec[e] \in ExecRecords
      <3>1. TypeOK OBVIOUS
      <3>2. exec \in [Execs -> ExecRecords] BY <3>1 DEF TypeOK, ExecRecords
      <3> QED BY <3>2
    <2>b. exec' = [exec EXCEPT ![e] = x] BY <2>1, <2>a
    <2>c. /\ x \in ExecRecords /\ x.pc = "ending"
          /\ x.done = exec[e].done /\ x.param = exec[e].param /\ x.version = exec[e].version
          /\ x.context = exec[e].context
      BY <2>a DEF ExecRecords
    <2>2. Moves(e)
      <3> HIDE DEF x
      <3> QED BY <1>0, <2>a, <2>b, <2>c DEF Moves, Early
    <2>3. Quiet BY <1>1, <2>2 DEF Persist, Quiet, TypeOK
    <2> QED BY <2>3, QuietKeeps
  <1>2. CASE exec[e].active /\ Leased(e)
    <2>1. exec' = [exec EXCEPT ![e].pc = IF lost THEN "ending" ELSE @, ![e].done = @ \cup {step}]
      BY <1>2 DEF Persist
    <2> DEFINE r == [exec[e] EXCEPT !.pc = IF lost THEN "ending" ELSE @, !.done = @ \cup {step}]
    <2>a. exec \in [Execs -> ExecRecords] /\ exec[e] \in ExecRecords
      BY DEF TypeOK, ExecRecords
    <2>b. /\ r \in ExecRecords /\ r.pc \in {"layers", "ending"} /\ r.sources = exec[e].sources
          /\ r.version = exec[e].version /\ r.done = exec[e].done \cup {step}
          /\ r.param = exec[e].param /\ r.context = exec[e].context
      BY <1>0, <2>a DEF ExecRecords
    <2>c. exec' = [exec EXCEPT ![e] = r] BY <2>1
    <2> HIDE DEF r
    <2>2. exec' \in [Execs -> ExecRecords] /\ faults' \in Nat
      <3>1. faults' \in Nat BY <1>2, BudgetTyped DEF Persist, TypeOK
      <3> QED BY <2>a, <2>b, <2>c, <3>1
    <2>3. /\ \A x \in Execs : x # e => exec'[x] = exec[x]
          /\ exec'[e].done = exec[e].done \cup {step}
          /\ exec'[e].pc \in {"layers", "ending"}
          /\ exec'[e].version = exec[e].version /\ exec'[e].sources = exec[e].sources
          /\ exec'[e].param = exec[e].param /\ exec'[e].context = exec[e].context
      BY <2>a, <2>b, <2>c
    <2>4. /\ runs' \in Seq([step : Steps, by : Execs])
          /\ Fenced' /\ RunsDoNotInterleave' /\ SealedSteps' = SealedSteps \cup {step}
          /\ \A i \in DOMAIN runs' : (i \in DOMAIN runs /\ runs'[i] = runs[i]) \/ runs'[i].by = e
      <3>1. CASE step \in SealedSteps
        <4>1. runs' = runs BY <1>2, <3>1 DEF Persist
        <4> QED BY <1>0, <3>1, <4>1 DEF Fenced, RunsDoNotInterleave, SealedSteps, TypeOK
      <3>2. CASE step \notin SealedSteps
        <4>1. runs' = Append(runs, [step |-> step, by |-> e]) BY <1>2, <3>2 DEF Persist
        <4>2. [step |-> step, by |-> e] \in [step : Steps, by : Execs]
              /\ runs \in Seq([step : Steps, by : Execs])
          BY <1>0 DEF TypeOK
        <4>3. runs' \in Seq([step : Steps, by : Execs]) BY <4>1, <4>2, AppendFacts
        <4> QED BY <1>0, <1>2, <4>1, <4>3, SealKeeps DEF Leased
      <3> QED BY <3>1, <3>2
    <2>5. TypeOK' BY <2>2, <2>4 DEF Persist, tables, TypeOK, ExecRecords
    <2>6. IdleIsFresh'
      <3> SUFFICES ASSUME NEW x \in Execs, exec'[x].pc = "idle"
                   PROVE  lease.token # x /\ \A i \in DOMAIN runs' : runs'[i].by # x
        BY <1>0 DEF IdleIsFresh
      <3>1. x # e /\ exec[x].pc = "idle" BY <2>3
      <3> QED BY <2>4, <3>1 DEF IdleIsFresh
    <2>7. DoneIsSealed'
      <3> SUFFICES ASSUME NEW x \in Execs PROVE exec'[x].done \subseteq SealedSteps'
        BY DEF DoneIsSealed
      <3> QED BY <2>3, <2>4 DEF DoneIsSealed
    <2>8. SnapshotHolds'
      <3> SUFFICES ASSUME NEW x \in Execs PROVE Snapshot(x)'
        BY DEF SnapshotHolds
      <3>1. Snapshot(x) BY DEF SnapshotHolds
      <3>2. CASE x = e BY <1>0, <2>3, <3>1, <3>2 DEF Snapshot
      <3>3. CASE x # e BY <1>0, <2>3, <3>1, <3>3 DEF Snapshot
      <3> QED BY <3>2, <3>3
    <2>9. CompletedReflectsEvidence' BY <1>0, <2>4 DEF CompletedReflectsEvidence
    <2> QED BY <2>4, <2>5, <2>6, <2>7, <2>8, <2>9
  <1> QED BY <1>1, <1>2

\* Completion: the lease is live and the row version is the one the execution
\* read before it read the evidence.
LEMMA FinalizeKeeps ==
    ASSUME SpineAssumption, SpineInv, NEW e \in Execs, Finalize(e)
    PROVE  SpineInv'
  <1> USE DEF SpineInv
  <1> DEFINE r == [exec[e] EXCEPT !.pc = "ending"]
  <1>0. /\ UNCHANGED <<documents, declaring, artifacts, lease, runs, faults>>
        /\ exec' = [exec EXCEPT ![e] = r] /\ exec[e].pc = "layers" /\ Pending(e) = {}
        /\ session.version \in Nat /\ exec[e].version \in Nat
    BY DEF Finalize, CompleteIf, Goto, TypeOK
  <1>1. exec \in [Execs -> ExecRecords] /\ exec[e] \in ExecRecords
    BY DEF TypeOK, ExecRecords
  <1>2. /\ r \in ExecRecords /\ r.pc = "ending" /\ r.version = exec[e].version
        /\ r.done = exec[e].done /\ r.sources = exec[e].sources /\ r.param = exec[e].param
        /\ r.context = exec[e].context
    BY <1>1 DEF ExecRecords
  <1> HIDE DEF r
  <1>3. Sources' = Sources /\ SealedSteps' = SealedSteps BY <1>0 DEF Sources, SealedSteps
  <1>4. CASE session' = session
    <2>1. Moves(e) BY <1>0, <1>1, <1>2 DEF Moves, Early
    <2>2. Quiet BY <1>0, <1>4, <2>1 DEF Quiet, tables, TypeOK
    <2> QED BY <2>2, QuietKeeps
  <1>5. CASE /\ session' = [session EXCEPT !.version = @ + 1, !.complete = TRUE]
             /\ session.version = exec[e].version
    <2>0. /\ session' \in Sessions /\ session'.version = session.version + 1
          /\ session'.context = session.context
      <3>1. session \in Sessions /\ session.version + 1 \in Nat BY DEF TypeOK, Sessions
      <3>2. session' = [session EXCEPT !.version = session.version + 1, !.complete = TRUE]
        BY <1>5
      <3> QED BY <3>1, <3>2 DEF Sessions
    <2>1. TypeOK'
      <3>1. exec' \in [Execs -> ExecRecords] BY <1>0, <1>1, <1>2
      <3> QED BY <1>0, <2>0, <3>1 DEF TypeOK, ExecRecords, Sessions
    <2>2. \A x \in Execs : exec'[x] = IF x = e THEN r ELSE exec[x] BY <1>0, <1>1
    <2>3. IdleIsFresh' BY <1>0, <1>2, <2>2 DEF IdleIsFresh
    <2>4. Fenced' /\ RunsDoNotInterleave' BY <1>0 DEF Fenced, RunsDoNotInterleave
    <2>5. DoneIsSealed'
      <3> SUFFICES ASSUME NEW x \in Execs PROVE exec'[x].done \subseteq SealedSteps
        BY <1>3 DEF DoneIsSealed
      <3> QED BY <1>2, <2>2 DEF DoneIsSealed
    <2>6. SnapshotHolds'
      <3> SUFFICES ASSUME NEW x \in Execs PROVE Snapshot(x)'
        BY DEF SnapshotHolds
      <3>1. Snapshot(x) /\ exec[x].version \in Nat BY DEF TypeOK, SnapshotHolds
      <3>2. CASE x = e BY <1>0, <1>2, <2>0, <2>2, <3>1, <3>2 DEF Snapshot
      <3>3. CASE x # e BY <1>0, <2>0, <2>2, <3>1, <3>3 DEF Snapshot
      <3> QED BY <3>2, <3>3
    <2>7. CompletedReflectsEvidence'
      <3>1. /\ exec[e].param \in Params /\ exec[e].context = session.context
            /\ exec[e].sources = Sources \/ Sources = {}
        BY <1>0, <1>5 DEF SnapshotHolds, Snapshot
      <3>2. Plan(exec[e].sources, exec[e].param, exec[e].context) \subseteq SealedSteps
        BY <1>0 DEF Pending, DoneIsSealed
      <3> QED BY <1>3, <2>0, <3>1, <3>2 DEF CompletedReflectsEvidence
    <2> QED BY <2>1, <2>3, <2>4, <2>5, <2>6, <2>7
  <1> QED BY <1>4, <1>5 DEF Finalize, CompleteIf
-----------------------------------------------------------------------------
(* The theorems *)

LEMMA SpineStart == SpineAssumption /\ Init => SpineInv
  <1> SUFFICES ASSUME SpineAssumption, Init PROVE SpineInv
    OBVIOUS
  <1>1. DOMAIN runs = {} /\ runs \in Seq([step : Steps, by : Execs]) BY DEF Init
  <1>2. NotStarted \in ExecRecords BY DEF NotStarted, ExecRecords, Contexts
  <1>3. TypeOK
    <2>1. documents \in [Docs -> [bytes : Bytes \cup {None}, state : States]]
      BY DEF Init, NoDocument, States
    <2>2. exec \in [Execs -> ExecRecords] BY <1>2 DEF Init
    <2>3. session \in Sessions BY DEF Init, Sessions, Contexts
    <2> QED BY <1>1, <2>1, <2>2, <2>3 DEF Init, TypeOK, ExecRecords, States, Sessions
  <1>4. IdleIsFresh /\ Fenced /\ RunsDoNotInterleave
    BY <1>1 DEF Init, IdleIsFresh, Fenced, RunsDoNotInterleave, SpineAssumption
  <1>5. DoneIsSealed /\ SnapshotHolds /\ CompletedReflectsEvidence
    BY DEF Init, NotStarted, DoneIsSealed, SnapshotHolds, Snapshot, CompletedReflectsEvidence
  <1> QED BY <1>3, <1>4, <1>5 DEF SpineInv

LEMMA SpineStep == SpineAssumption /\ SpineInv /\ [Next]_vars => SpineInv'
  <1> SUFFICES ASSUME SpineAssumption, SpineInv, [Next]_vars PROVE SpineInv'
    OBVIOUS
  <1>1. CASE UNCHANGED vars
    <2>1. Quiet BY <1>1 DEF vars, Quiet, SpineInv, TypeOK
    <2> QED BY <2>1, QuietKeeps
  <1>2. CASE ChangeEvidence BY <1>2, EvidenceKeeps
  <1>3. CASE Expire
    <2>1. Quiet BY <1>3, QuietStep DEF SpineInv
    <2> QED BY <2>1, QuietKeeps
  <1>4. ASSUME NEW e \in Execs, Request(e) \/ Execute(e) \/ Fail(e) PROVE SpineInv'
    <2>1. CASE \E p \in Params, lost \in BOOLEAN : Acquire(e, p, lost) BY <2>1, AcquireKeeps
    <2>2. CASE \E step \in NextSteps(e), lost \in BOOLEAN : Persist(e, step, lost)
      BY <2>2, PersistKeeps
    <2>3. CASE Finalize(e) BY <2>3, FinalizeKeeps
    <2>4. CASE \/ ReadSession(e) \/ ReadSources(e) \/ Throw(e) \/ Heartbeat(e) \/ Crash(e)
               \/ \E lost \in BOOLEAN : Release(e, lost)
      <3>1. Quiet BY <2>4, QuietStep DEF SpineInv
      <3> QED BY <3>1, QuietKeeps
    <2> QED BY <1>4, <2>1, <2>2, <2>3, <2>4 DEF Request, Execute, Fail
  <1> QED BY <1>1, <1>2, <1>3, <1>4 DEF Next

\* The inductive invariant of the intake spine holds in every behaviour.
THEOREM SpineInvariant == Spec => []SpineInv
  <1>1. Init => SpineInv BY SpineAssumption, SpineStart
  <1>2. SpineInv /\ [Next]_vars => SpineInv' BY SpineAssumption, SpineStep
  <1> QED BY <1>1, <1>2, PTL DEF Spec

\* The session, its evidence, its receipts and its executions keep their types,
\* whoever fails between two statements.
THEOREM SpineTypes == Spec => []TypeOK
  <1>1. SpineInv => TypeOK BY DEF SpineInv
  <1> QED BY <1>1, SpineInvariant, PTL

\* The receipts of two executions never mix in the chain, for any number of
\* executions, crashes and takeovers (register_intake_layer_execution_v4).
THEOREM ReceiptsDoNotMix == Spec => []RunsDoNotInterleave
  <1>1. SpineInv => RunsDoNotInterleave BY DEF SpineInv
  <1> QED BY <1>1, SpineInvariant, PTL

\* A complete session has every layer sealed for the declared context and the
\* evidence active now, if any is left
\* (complete_intake_spine_execution_v1 and the triggers on documents).
THEOREM CompletionIsHonest == Spec => []CompletedReflectsEvidence
  <1>1. SpineInv => CompletedReflectsEvidence BY DEF SpineInv
  <1> QED BY <1>1, SpineInvariant, PTL
-----------------------------------------------------------------------------
(* The refinement *)

Shown == <<Sources, session.context, SealedSteps, session.complete>>

LEMMA RefinesStart == Init => Promise!Init
  <1> SUFFICES ASSUME Init PROVE Promise!Init
    OBVIOUS
  <1>1. Sources = {}
    BY DEF Init, Sources, Joined
  <1>2. SealedSteps = {}
    BY DEF Init, SealedSteps
  <1>3. session.context \in Contexts /\ session.complete = FALSE
    BY DEF Init, Contexts
  <1> QED BY <1>1, <1>2, <1>3 DEF Promise!Init

\* A change of the evidence withdraws what is published, or takes the last
\* source away behind the readers' back.
LEMMA RefinesChange ==
    ASSUME SpineAssumption, SpineInv, ChangeEvidence
    PROVE  Promise!Change \/ Promise!Forget \/ UNCHANGED Shown
  <1>0. EvidenceTypeOK BY DEF SpineInv, TypeOK, EvidenceTypeOK, States, Sessions
  <1>1. EvidenceTypeOK' /\ Effect /\ runs' = runs BY <1>0, EvidenceStep DEF Changed
  <1>2. SealedSteps' = SealedSteps BY <1>1 DEF SealedSteps
  <1>3. CASE session'.complete = FALSE
    <2>1. session'.context \in Contexts BY <1>1 DEF EvidenceTypeOK, Sessions
    <2> QED BY <1>2, <1>3, <2>1, SourcesAreBytes DEF Promise!Change
  <1>4. CASE session' = session /\ Sources' = Sources
    BY <1>2, <1>4 DEF Shown
  <1>5. CASE session' = session /\ Sources' = {} /\ \E b \in Bytes : Sources = {b}
    BY <1>2, <1>5 DEF Promise!Forget
  <1> QED BY <1>1, <1>3, <1>4, <1>5 DEF Effect

LEMMA RefinesPersist ==
    ASSUME SpineAssumption, SpineInv, NEW e \in Execs, NEW step \in NextSteps(e),
           NEW lost \in BOOLEAN, Persist(e, step, lost)
    PROVE  Promise!Seal \/ UNCHANGED Shown
  <1>1. session' = session /\ Sources' = Sources /\ exec[e].pc = "layers"
    BY DEF Persist, tables, Sources
  <1>2. CASE runs' = runs
    BY <1>1, <1>2 DEF SealedSteps, Shown
  <1>3. CASE runs' = Append(runs, [step |-> step, by |-> e])
    <2>1. /\ step \in Plan(exec[e].sources, exec[e].param, exec[e].context) /\ step \in Steps
          /\ exec[e].sources \in SUBSET Bytes /\ exec[e].param \in Params
          /\ exec[e].context \in Contexts
      BY <1>1, NextStepsArePlanned DEF SpineInv
    <2> DEFINE r == [step |-> step, by |-> e]
    <2>2. r \in [step : Steps, by : Execs] /\ runs \in Seq([step : Steps, by : Execs])
      BY <2>1 DEF SpineInv, TypeOK
    <2>3. SealedSteps' = SealedSteps \cup {r.step} BY <1>3, <2>2, SealingAdds
    <2>4. SealedSteps' = SealedSteps \cup {step} BY <2>3
    <2> QED BY <1>1, <2>1, <2>4 DEF Promise!Seal, Plan
  <1> QED BY <1>2, <1>3 DEF Persist

\* An execution completes what it read: that is the evidence and the context of
\* this moment, unless the last source was forgotten meanwhile.
LEMMA RefinesFinalize ==
    ASSUME SpineAssumption, SpineInv, NEW e \in Execs, Finalize(e)
    PROVE  Promise!Publish \/ UNCHANGED Shown
  <1>1. Sources' = Sources /\ SealedSteps' = SealedSteps
    BY DEF Finalize, CompleteIf, Sources, SealedSteps
  <1>2. CASE session' = session BY <1>1, <1>2 DEF Shown
  <1>3. CASE /\ session' = [session EXCEPT !.version = @ + 1, !.complete = TRUE]
             /\ session.version = exec[e].version
    <2>1. exec[e].pc = "layers" /\ Pending(e) = {} BY DEF Finalize, CompleteIf
    <2>2. /\ exec[e].param \in Params /\ exec[e].context = session.context
          /\ exec[e].sources \in (SUBSET Bytes) \ {{}}
          /\ Sources \in {exec[e].sources, {}}
      <3>1. Snapshot(e) BY DEF SpineInv, SnapshotHolds
      <3>2. exec[e].sources \subseteq Bytes /\ exec[e].sources # {}
        BY <2>1, <3>1 DEF SpineInv, TypeOK, Snapshot
      <3> QED BY <1>3, <2>1, <3>1, <3>2 DEF Snapshot
    <2>3. Promise!Plan(exec[e].sources, exec[e].param, session.context) \subseteq SealedSteps
      BY <2>1, <2>2 DEF Pending, SpineInv, DoneIsSealed, Plan
    <2>4. session'.complete = TRUE /\ session'.context = session.context
      BY <1>3 DEF SpineInv, TypeOK
    <2> QED BY <1>1, <2>2, <2>3, <2>4 DEF Promise!Publish
  <1> QED BY <1>2, <1>3 DEF Finalize, CompleteIf

\* Every step of the intake spine is a step of the gate or invisible to it.
LEMMA RefinesStep ==
    SpineInv /\ [Next]_vars => [Promise!Next]_(Promise!gate)
  <1> SUFFICES ASSUME SpineInv, [Next]_vars
               PROVE  Promise!Next \/ UNCHANGED Shown
    BY DEF Promise!gate, Shown
  <1> USE SpineAssumption
  <1>0. ASSUME Quiet
        PROVE  UNCHANGED Shown
    BY <1>0 DEF Quiet, tables, Sources, SealedSteps, Shown
  <1>1. CASE UNCHANGED vars
    BY <1>1 DEF vars, tables, Sources, SealedSteps, Shown
  <1>2. CASE ChangeEvidence BY <1>2, RefinesChange DEF Promise!Next
  <1>3. CASE Expire BY <1>0, <1>3, QuietStep DEF SpineInv
  <1>4. ASSUME NEW e \in Execs, Request(e) \/ Execute(e) \/ Fail(e)
        PROVE  Promise!Next \/ UNCHANGED Shown
    <2>1. CASE \E p \in Params, lost \in BOOLEAN : Acquire(e, p, lost)
      BY <2>1 DEF Acquire, tables, Sources, SealedSteps, Shown
    <2>2. CASE \E step \in NextSteps(e), lost \in BOOLEAN : Persist(e, step, lost)
      BY <2>2, RefinesPersist DEF Promise!Next
    <2>3. CASE Finalize(e) BY <2>3, RefinesFinalize DEF Promise!Next
    <2>4. CASE \/ ReadSession(e) \/ ReadSources(e) \/ Throw(e) \/ Heartbeat(e) \/ Crash(e)
               \/ \E lost \in BOOLEAN : Release(e, lost)
      <3>1. Quiet BY <2>4, QuietStep DEF SpineInv
      <3> QED BY <1>0, <3>1
    <2> QED BY <1>4, <2>1, <2>2, <2>3, <2>4 DEF Request, Execute, Fail
  <1> QED BY <1>1, <1>2, <1>3, <1>4 DEF Next

\* What readers see published, which is what the completion state says
\* (intake-case-layer-reader.ts:175), follows the gate: it takes sealed runs
\* for a whole analysis of the evidence and the declared context as they are,
\* and every change of them withdraws it.  The exception is in the gate by
\* name: nobody notices when the last source goes (Forget).
THEOREM SpineKeepsPromise == Spec => KeepsPromise
  <1>1. Init => Promise!Init BY RefinesStart
  <1>2. SpineInv /\ [Next]_vars => [Promise!Next]_(Promise!gate) BY RefinesStep
  <1>3. Spec => []SpineInv BY SpineInvariant
  <1> QED BY <1>1, <1>2, <1>3, PTL DEF Spec, KeepsPromise, Promise!Spec
=============================================================================
