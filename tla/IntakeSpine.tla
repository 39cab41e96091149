---------------------------- MODULE IntakeSpine -----------------------------
(***************************************************************************)
(* The Universal Intake Spine of one case.  Uploads register documents and  *)
(* bind their bytes to the case's live-upload session; an execution leases  *)
(* the session, reads its active evidence, seals one layer run after        *)
(* another in the receipt chain and at last marks the session complete;     *)
(* readers then take the latest sealed run of a layer as the projection.    *)
(* Every SQL function is one atomic step (each runs in one transaction      *)
(* under the lease row's lock) and anything may happen between two of them. *)
(*                                                                          *)
(* The xmin of the session row is a counter.  A lease is live or has run    *)
(* out; when it does is the environment's choice, for the heartbeat of a    *)
(* running execution may fail for as long as the lease lasts.               *)
(***************************************************************************)
EXTENDS Naturals, Sequences

CONSTANTS
    Docs,           \* document ids, never reused
    Bytes,          \* file contents (the artifact key is their sha256)
    Params,         \* jurisdiction and as-of date of an execution request
    Execs,          \* execution requests, each run once
    MaxVersion,     \* bound on the changes of the session row
    MaxFaults,      \* bound on crashes, failures, lost replies and lapses
    None

ASSUME SpineAssumption ==
    /\ MaxVersion \in Nat /\ MaxFaults \in Nat
    /\ None \notin Docs \cup Bytes \cup Execs

VARIABLES
    documents,  \* public.documents: contents and resolution
    declaring,  \* the registration of a declared-context document
    artifacts,  \* intake_artifacts: legacy_document_id of each content, or None
    session,    \* intake_sessions: row version, complete or not, declared context
    lease,      \* intake_spine_execution_leases: token, live or expired
    runs,       \* intake_layer_runs, sealed, in receipt-chain order
    exec,       \* each execution's progress
    faults

tables == <<documents, declaring, artifacts, session>>
vars == <<tables, lease, runs, exec, faults>>

NoDocument == [bytes |-> None, state |-> "absent"]
Resolutions == {"active", "set aside", "superseded"}
Row(d) == documents[d].state \in Resolutions
Known(b) == \E d \in Docs : Row(d) /\ documents[d].bytes = b

\* The source artifacts joined to an active document.
Joined(docs, arts) ==
    {b \in Bytes : arts[b] # None /\ docs[arts[b]].state = "active"}
Sources == Joined(documents, artifacts)

SealedSteps == {runs[i].step : i \in DOMAIN runs}

\* What readers see: they publish on the completion state alone.
Contexts == Docs \cup {None}
Promise == INSTANCE IntakeGate WITH
    evidence <- Sources,
    context <- session.context,
    sealed <- SealedSteps,
    published <- session.complete

Plan(sources, p, c) == Promise!Plan(sources, p, c)

\* The order in which an execution persists its layers.
Stage(step) ==
    CASE step.layer = "stabilization" -> 1
      [] step.layer = "evidence_preservation" -> 2
      [] step.layer = "chronology" -> 3
      [] step.layer = "rights_and_duties_matrix" -> 4

NotStarted == [pc |-> "idle", param |-> None, version |-> 0, context |-> None,
               sources |-> {}, done |-> {}, active |-> FALSE]

Init ==
    /\ documents = [d \in Docs |-> NoDocument]
    /\ declaring = [d \in Docs |-> "no"]
    /\ artifacts = [b \in Bytes |-> None]
    /\ session = [version |-> 0, complete |-> FALSE, context |-> None]
    /\ lease = [token |-> None, live |-> FALSE]
    /\ runs = <<>>
    /\ exec = [e \in Execs |-> NotStarted]
    /\ faults = 0

Spend == faults < MaxFaults /\ faults' = faults + 1
Budgeted(spent) == IF spent THEN Spend ELSE UNCHANGED faults
-----------------------------------------------------------------------------
(* Evidence: the documents table and its triggers *)

CanChange == session.version < MaxVersion
Invalidate ==
    session' = [session EXCEPT !.version = @ + 1, !.complete = FALSE]

\* promote_live_upload_intake_authority_v1 looks for a session that has a
\* source artifact: without one it returns before it invalidates.
Promote(arts) ==
    IF \E b \in Bytes : arts[b] # None THEN Invalidate ELSE UNCHANGED session

\* Slip: the artifact is registered under its key, not under its document.
BindKey(d, b) ==
    artifacts' = [artifacts EXCEPT ![b] = IF @ = None THEN b ELSE @]

\* The artifact of some bytes keeps the document that registered them first.
Bind(d, b) ==
    artifacts' = [artifacts EXCEPT ![b] = IF @ = None THEN d ELSE @]

\* The upload route looks for a row with the same hash, then stores the bytes.
StoreUpload(d, b) ==
    /\ documents[d].state = "absent"
    /\ ~Known(b)
    /\ documents' = [documents EXCEPT ![d] = [bytes |-> b, state |-> "storing"]]
    /\ UNCHANGED <<declaring, artifacts, session, lease, runs, exec, faults>>

\* createDocument, for an upload or for a declared intake context.
CreateDocument(d, declared) ==
    /\ CanChange
    /\ documents[d].state = "storing"
    /\ documents' = [documents EXCEPT ![d].state = "active"]
    /\ declaring' = [declaring EXCEPT ![d] = IF declared THEN "pending" ELSE @]
    /\ Bind(d, documents[d].bytes)
    /\ Invalidate
    /\ UNCHANGED <<lease, runs, exec, faults>>

\* register_declared_intake_context_v1: the artifact must be the document's.
\* When the reply is lost the declaration is taken for a failed one.
ConfirmDeclaration(d, lost) ==
    /\ CanChange
    /\ declaring[d] = "pending"
    /\ Row(d) /\ artifacts[documents[d].bytes] = d
    /\ declaring' = [declaring EXCEPT ![d] = IF lost THEN "failed" ELSE "no"]
    /\ session' = [version |-> session.version + 1, complete |-> FALSE, context |-> d]
    /\ Budgeted(lost)
    /\ UNCHANGED <<documents, artifacts, lease, runs, exec>>

\* The compensation of a failed registration deletes the artifact, then the
\* document, whose trigger comes too late for the last source artifact.
WithdrawDeclaration(d) ==
    LET b == documents[d].bytes
        left == IF artifacts[b] = d THEN [artifacts EXCEPT ![b] = None] ELSE artifacts
    IN  /\ CanChange
        /\ declaring[d] \in {"pending", "failed"}
        /\ declaring' = [declaring EXCEPT ![d] = "no"]
        /\ IF Row(d)
             THEN /\ documents' = [documents EXCEPT ![d].state = "deleted"]
                  /\ artifacts' = left
                  /\ IF documents[d].state = "active" THEN Promote(left)
                                                     ELSE UNCHANGED session
             ELSE UNCHANGED <<documents, artifacts, session>>
        /\ UNCHANGED <<lease, runs, exec, faults>>

\* createAndSupersedeDocumentAtomic: one transaction, the hash checked again.
Replace(old, d) ==
    /\ CanChange
    /\ Row(old) /\ documents[old].state # "superseded"
    /\ documents[d].state = "storing"
    /\ ~Known(documents[d].bytes)
    /\ documents' = [documents EXCEPT ![d].state = "active", ![old].state = "superseded"]
    /\ Bind(d, documents[d].bytes)
    /\ Invalidate
    /\ UNCHANGED <<declaring, lease, runs, exec, faults>>

\* setDocumentResolution: corrupted or excluded (both set the document aside),
\* superseded, or active again.
SetResolution(d, resolution) ==
    /\ CanChange
    /\ Row(d)
    /\ documents' = [documents EXCEPT ![d].state = resolution]
    /\ Promote(artifacts)
    /\ UNCHANGED <<declaring, artifacts, lease, runs, exec, faults>>

\* Slip: deletions have no trigger, as before migration 20260809051313.
SilentDelete(d) ==
    /\ CanChange /\ Row(d)
    /\ documents' = [documents EXCEPT ![d].state = "deleted"]
    /\ UNCHANGED <<declaring, artifacts, session, lease, runs, exec, faults>>

\* hardDeleteDocument: the trigger fires only for an active document.
Delete(d) ==
    /\ CanChange
    /\ Row(d)
    /\ documents' = [documents EXCEPT ![d].state = "deleted"]
    /\ IF documents[d].state = "active" THEN Promote(artifacts) ELSE UNCHANGED session
    /\ UNCHANGED <<declaring, artifacts, lease, runs, exec, faults>>

ChangeEvidence ==
    \E d \in Docs :
        \/ \E b \in Bytes : StoreUpload(d, b)
        \/ \E declared \in BOOLEAN : CreateDocument(d, declared)
        \/ \E lost \in BOOLEAN : ConfirmDeclaration(d, lost)
        \/ WithdrawDeclaration(d)
        \/ \E old \in Docs : Replace(old, d)
        \/ \E resolution \in Resolutions : SetResolution(d, resolution)
        \/ Delete(d)
-----------------------------------------------------------------------------
(* Executions *)

Running(e) == exec[e].pc \in {"leased", "versioned", "layers", "ending"}
Leased(e) == lease.token = e /\ lease.live
Goto(e, pc) == exec' = [exec EXCEPT ![e].pc = pc]

\* The row is inserted, or taken over when it has expired.  When the reply is
\* lost the request fails without a lease object and nobody releases the row.
Acquire(e, p, lost) ==
    /\ exec[e].pc = "idle"
    /\ ~lease.live
    /\ lease' = [token |-> e, live |-> TRUE]
    /\ exec' = [exec EXCEPT ![e] = [NotStarted EXCEPT
                   !.pc = IF lost THEN "over" ELSE "leased",
                   !.param = p, !.active = ~lost]]
    /\ Budgeted(lost)
    /\ UNCHANGED <<tables, runs>>

\* The session row, with its xmin, is read first, the artifacts after it.
ReadSession(e) ==
    /\ exec[e].pc = "leased"
    /\ exec' = [exec EXCEPT ![e].pc = "versioned", ![e].version = session.version,
                            ![e].context = session.context]
    /\ UNCHANGED <<tables, lease, runs, faults>>

ReadSources(e) ==
    /\ exec[e].pc = "versioned"
    /\ exec' = [exec EXCEPT ![e].pc = IF Sources = {} THEN "ending" ELSE "layers",
                            ![e].sources = Sources]
    /\ UNCHANGED <<tables, lease, runs, faults>>

Pending(e) == Plan(exec[e].sources, exec[e].param, exec[e].context) \ exec[e].done
NextSteps(e) == {s \in Pending(e) : \A t \in Pending(e) : Stage(s) <= Stage(t)}

\* Slip: v3 is called directly, without the fence of v4.
PersistUnfenced(e, step, lost) ==
    /\ exec[e].pc = "layers" /\ step \in NextSteps(e)
    /\ runs' = IF step \in SealedSteps THEN runs ELSE Append(runs, [step |-> step, by |-> e])
    /\ exec' = [exec EXCEPT ![e].pc = IF lost THEN "ending" ELSE @, ![e].done = @ \cup {step}]
    /\ Budgeted(lost)
    /\ UNCHANGED <<tables, lease>>

\* register_intake_layer_execution_v4 -> v2: only the live lease may seal, and
\* a run already sealed for the same input is returned instead of a new row.
Persist(e, step, lost) ==
    /\ exec[e].pc = "layers" /\ step \in NextSteps(e)
    /\ IF exec[e].active /\ Leased(e)
         THEN /\ runs' = IF step \in SealedSteps THEN runs
                         ELSE Append(runs, [step |-> step, by |-> e])
              /\ exec' = [exec EXCEPT ![e].pc = IF lost THEN "ending" ELSE @,
                                      ![e].done = @ \cup {step}]
              /\ Budgeted(lost)
         ELSE /\ ~lost
              /\ Goto(e, "ending")
              /\ UNCHANGED <<runs, faults>>
    /\ UNCHANGED <<tables, lease>>

CompleteIf(e, condition) ==
    /\ exec[e].pc = "layers" /\ Pending(e) = {}
    /\ session' = IF exec[e].active /\ Leased(e) /\ condition
                    THEN [session EXCEPT !.version = @ + 1, !.complete = TRUE]
                    ELSE session
    /\ Goto(e, "ending")
    /\ UNCHANGED <<documents, declaring, artifacts, lease, runs, faults>>

\* Slip: the session is completed whatever happened to its row since.
FinalizeBlindly(e) == CompleteIf(e, TRUE)

\* Slip: a session that is complete already is not completed again.
FinalizeOnce(e) == CompleteIf(e, session.version = exec[e].version /\ ~session.complete)

\* complete_intake_spine_execution_v1: the lease, then the session's xmin.
Finalize(e) == CompleteIf(e, session.version = exec[e].version)

\* Bytes missing, a hash mismatch, semantic quality: any layer may throw.
Throw(e) ==
    /\ exec[e].pc \in {"leased", "versioned", "layers"}
    /\ Spend
    /\ Goto(e, "ending")
    /\ UNCHANGED <<tables, lease, runs>>

\* The heartbeat learns that the lease is no longer its own; a failed query
\* teaches it nothing.
Heartbeat(e) ==
    /\ Running(e) /\ exec[e].active
    /\ ~Leased(e)
    /\ exec' = [exec EXCEPT ![e].active = FALSE]
    /\ UNCHANGED <<tables, lease, runs, faults>>

\* The finally block deletes the execution's own row, if the query gets through.
Release(e, lost) ==
    /\ exec[e].pc = "ending"
    /\ exec' = [exec EXCEPT ![e].pc = "over", ![e].active = FALSE]
    /\ lease' = IF lease.token = e /\ ~lost THEN [token |-> None, live |-> FALSE] ELSE lease
    /\ Budgeted(lost)
    /\ UNCHANGED <<tables, runs>>

Crash(e) ==
    /\ Running(e)
    /\ Spend
    /\ Goto(e, "over")
    /\ UNCHANGED <<tables, lease, runs>>

\* Slip: only the lease of an execution that still runs can run out.
ExpireRunning ==
    /\ lease.live /\ \E e \in Execs : lease.token = e /\ Running(e)
    /\ lease' = [lease EXCEPT !.live = FALSE]
    /\ Spend
    /\ UNCHANGED <<tables, runs, exec>>

\* 120 seconds without a renewal: always for a holder that is gone, and a
\* fault while its heartbeat still runs.
Expire ==
    /\ lease.live
    /\ lease' = [lease EXCEPT !.live = FALSE]
    /\ Budgeted(\E e \in Execs : lease.token = e /\ Running(e))
    /\ UNCHANGED <<tables, runs, exec>>

Execute(e) ==
    \/ ReadSession(e) \/ ReadSources(e) \/ Finalize(e)
    \/ \E step \in NextSteps(e) : Persist(e, step, FALSE)
    \/ Release(e, FALSE)

Fail(e) ==
    \/ \E p \in Params : Acquire(e, p, TRUE)
    \/ \E step \in NextSteps(e) : Persist(e, step, TRUE)
    \/ Throw(e) \/ Heartbeat(e) \/ Release(e, TRUE) \/ Crash(e)

Request(e) == \E p \in Params : Acquire(e, p, FALSE)

Next ==
    \/ ChangeEvidence
    \/ Expire
    \/ \E e \in Execs : Request(e) \/ Execute(e) \/ Fail(e)

Spec == Init /\ [][Next]_vars

\* A running execution goes on, a dead holder's lease runs out, and the users
\* of a case ask again.  Nothing forces evidence to arrive or faults to happen.
FairSpec ==
    /\ Spec
    /\ \A e \in Execs : WF_vars(Execute(e)) /\ WF_vars(Request(e))
    /\ WF_vars(Expire /\ \A e \in Execs : lease.token = e => ~Running(e))
-----------------------------------------------------------------------------
(* Readers: the latest sealed run of a layer is its projection *)

RunsOf(layer) == {i \in DOMAIN runs : runs[i].step.layer = layer}
Projected(layer) ==
    runs[CHOOSE i \in RunsOf(layer) : \A j \in RunsOf(layer) : j <= i].step
-----------------------------------------------------------------------------
(* Properties *)

Steps == UNION {Plan(s, p, c) : s \in SUBSET Bytes, p \in Params, c \in Contexts}

TypeOK ==
    /\ documents \in [Docs -> [bytes : Bytes \cup {None},
                               state : Resolutions \cup {"absent", "storing", "deleted"}]]
    /\ declaring \in [Docs -> {"no", "pending", "failed"}]
    /\ artifacts \in [Bytes -> Docs \cup {None}]
    /\ session \in [version : Nat, complete : BOOLEAN, context : Contexts]
    /\ lease \in [token : Execs \cup {None}, live : BOOLEAN]
    /\ runs \in Seq([step : Steps, by : Execs])
    /\ exec \in [Execs -> [pc : {"idle", "leased", "versioned", "layers", "ending", "over"},
                           param : Params \cup {None}, version : Nat, context : Contexts,
                           sources : SUBSET Bytes, done : SUBSET Steps, active : BOOLEAN]]
    /\ faults \in Nat

\* Two executions of one session never mix their receipts: the runs one of
\* them adds to the chain lie side by side, whatever expires, crashes or is
\* taken over (the fence of register_intake_layer_execution_v4).
RunsDoNotInterleave ==
    \A i, k \in DOMAIN runs : runs[i].by = runs[k].by =>
        \A j \in DOMAIN runs : i < j /\ j < k => runs[j].by = runs[i].by

\* A session marked governed_execution_complete has every layer sealed for the
\* declared context and the evidence that are active now, although both may
\* have changed at any moment of the execution (the xmin captured before the
\* artifacts are read).  When the last source is gone there is nothing to
\* compare with: see Forget in IntakeGate.
CompletedReflectsEvidence ==
    session.complete /\ Sources # {} =>
        \E p \in Params : Plan(Sources, p, session.context) \subseteq SealedSteps

\* What readers see published (intake-case-layer-reader.ts:175) behaves like
\* IntakeGate: a change of the evidence or of the declared context withdraws
\* it, and only a full set of runs publishes it.  The one change that does not,
\* the gate says by name: when the last source goes, which only the rollback of
\* a failed declaration can do to a complete session, it stays published.
KeepsPromise == Promise!Spec

\* A lease holder that has read the session comes to an end that others can
\* see: it completes the session, unless the evidence changed meanwhile (the
\* rollback of the only declaration leaves no trace) or something failed.
ExecutionsSettle ==
    \A e \in Execs, f \in 0..MaxFaults :
        (/\ exec[e].pc = "versioned" /\ Leased(e) /\ session.version = exec[e].version
         /\ Sources # {} /\ faults = f)
            ~> (session.version # exec[e].version \/ Sources = {} \/ faults > f)

\* A lease is never stuck: its holder releases it or it runs out, whoever
\* crashed and whichever reply was lost, so that a later request can run.
LeaseIsFreed == lease.live ~> ~lease.live

\* What a deletion promises of readers (20260809051313, lines 1-4): a
\* complete session does not project results of documents that are gone.
ProjectionIsOfEvidence ==
    session.complete /\ Sources # {} => Projected("chronology").sources = Sources
=============================================================================
