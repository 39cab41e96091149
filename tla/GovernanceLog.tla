---------------------------- MODULE GovernanceLog ---------------------------
(***************************************************************************)
(* Governed writes (governance-hooks.ts) and the hash-chained log they      *)
(* write to (governance-log.ts), as PostgreSQL runs them: every hook is one *)
(* READ COMMITTED transaction, each of its statements sees what was         *)
(* committed when the statement began, and row locks and the unique index   *)
(* on seq_no are all that orders two of them.                               *)
(*                                                                          *)
(* A transaction writes one entry, so its id stands for the entry's hash.   *)
(***************************************************************************)
EXTENDS Naturals

CONSTANTS
    Txns,       \* transactions, each run once
    Records,    \* governed rows: thresholds, streams, signals, paths, engines
    Values,
    Absent,     \* a row that does not exist, an event about no row
    Genesis     \* the hash before the first

ASSUME GovernanceAssumption ==
    /\ Genesis \notin Txns
    /\ Absent \notin Records \cup Values

VARIABLES
    val,        \* the governed tables, committed
    log,        \* governance_log, committed rows
    snapshots,  \* governance_snapshots
    tx          \* the transactions

vars == <<val, log, snapshots, tx>>

NotBegun == [pc |-> "idle", kind |-> "note", rec |-> Absent, set |-> Absent,
             before |-> Absent, after |-> Absent, holds |-> Absent,
             tip |-> 0, tipHash |-> Genesis]

Init ==
    /\ val \in [Records -> Values \cup {Absent}]
    /\ log = {}
    /\ snapshots = {}
    /\ tx = [t \in Txns |-> NotBegun]

Height(rows) ==
    IF rows = {} THEN 0
    ELSE CHOOSE n \in {e.seqNo : e \in rows} : \A e \in rows : e.seqNo <= n

HashAt(n) ==
    IF n = 0 THEN Genesis ELSE (CHOOSE e \in log : e.seqNo = n).entryHash

\* What a transaction holds until it ends.
HoldsRow(t, r) == tx[t].holds = r
HoldsTip(t, n) == tx[t].pc \in {"locked", "inserted"} /\ tx[t].tip = n /\ n > 0
Inserted(t, n) == tx[t].pc = "inserted" /\ tx[t].tip + 1 = n

Goto(t, pc) == tx' = [tx EXCEPT ![t].pc = pc]
Rollback(t) == tx' = [tx EXCEPT ![t].pc = "over", ![t].holds = Absent]

\* The current state is read without a lock; creations and events read nothing.
Begin(t, kind, r, v) ==
    /\ tx[t].pc = "idle"
    /\ kind \in {"update", "delete"} => val[r] # Absent
    /\ tx' = [tx EXCEPT
                 ![t].pc = IF kind = "note" THEN "written" ELSE "read",
                 ![t].kind = kind,
                 ![t].rec = IF kind = "note" THEN Absent ELSE r,
                 ![t].set = IF kind \in {"note", "delete"} THEN Absent ELSE v,
                 ![t].before = IF kind \in {"update", "delete"} THEN val[r] ELSE Absent]
    /\ UNCHANGED <<val, log, snapshots>>

\* The statement waits for the row and then sees its newest version.  A key
\* that exists refuses a creation; an update that finds no row has no new
\* state to log; a deletion that finds none is logged all the same.
Write(t) ==
    LET r == tx[t].rec
        refused == \/ tx[t].kind = "create" /\ val[r] # Absent
                   \/ tx[t].kind = "update" /\ val[r] = Absent
        row == IF tx[t].kind = "delete" /\ val[r] = Absent THEN Absent ELSE r IN
    /\ tx[t].pc = "read"
    /\ \A u \in Txns \ {t} : ~HoldsRow(u, r)
    /\ IF refused
         THEN Rollback(t)
         ELSE tx' = [tx EXCEPT ![t].pc = "written", ![t].after = tx[t].set, ![t].holds = row]
    /\ UNCHANGED <<val, log, snapshots>>

\* SELECT ... ORDER BY seq_no DESC LIMIT 1 FOR UPDATE chooses the row in the
\* statement's snapshot, and may then have to wait for its lock.
PickTip(t) ==
    /\ tx[t].pc = "written"
    /\ tx' = [tx EXCEPT ![t].pc = "tipped", ![t].tip = Height(log),
                        ![t].tipHash = HashAt(Height(log))]
    /\ UNCHANGED <<val, log, snapshots>>

LockTip(t) ==
    /\ tx[t].pc = "tipped"
    /\ \A u \in Txns \ {t} : ~HoldsTip(u, tx[t].tip)
    /\ Goto(t, "locked")
    /\ UNCHANGED <<val, log, snapshots>>

\* Slip: seq_no without its unique constraint.
InsertAnyway(t) ==
    /\ tx[t].pc = "locked"
    /\ Goto(t, "inserted")
    /\ UNCHANGED <<val, log, snapshots>>

\* The unique index waits for an uncommitted row with the same number and
\* refuses a committed one.
Insert(t) ==
    LET n == tx[t].tip + 1 IN
    /\ tx[t].pc = "locked"
    /\ \A u \in Txns \ {t} : ~Inserted(u, n)
    /\ IF \E e \in log : e.seqNo = n THEN Rollback(t) ELSE Goto(t, "inserted")
    /\ UNCHANGED <<val, log, snapshots>>

\* Slip: the entry links to the number of the one before.
EntryByNumber(t) == [seqNo |-> tx[t].tip + 1, rec |-> tx[t].rec, previousState |-> tx[t].before,
             newState |-> tx[t].after, previousHash |-> tx[t].tip, entryHash |-> t]

\* Slip: the state before is read from the row that the update returned.
EntryReadLate(t) == [seqNo |-> tx[t].tip + 1, rec |-> tx[t].rec, previousState |-> tx[t].after,
             newState |-> tx[t].after, previousHash |-> tx[t].tipHash, entryHash |-> t]

Entry(t) == [seqNo |-> tx[t].tip + 1, rec |-> tx[t].rec, previousState |-> tx[t].before,
             newState |-> tx[t].after, previousHash |-> tx[t].tipHash, entryHash |-> t]

\* The row as this transaction leaves it, if it has written it.
Published(t) == IF tx[t].holds = Absent THEN val ELSE [val EXCEPT ![tx[t].holds] = tx[t].after]

Commit(t) ==
    /\ tx[t].pc = "inserted"
    /\ val' = Published(t)
    /\ log' = log \cup {Entry(t)}
    /\ tx' = [tx EXCEPT ![t].pc = "over", ![t].holds = Absent]
    /\ UNCHANGED snapshots

\* Slip: the log write is caught and the governed write committed without it.
AbortKeepingWrite(t) ==
    /\ tx[t].pc \in {"read", "written", "tipped", "locked", "inserted"}
    /\ val' = Published(t)
    /\ Rollback(t)
    /\ UNCHANGED <<log, snapshots>>

\* A rationale refused, a statement that fails, a lost connection, a crash.
Abort(t) ==
    /\ tx[t].pc \in {"read", "written", "tipped", "locked", "inserted"}
    /\ Rollback(t)
    /\ UNCHANGED <<val, log, snapshots>>

\* Slip: the snapshot signs the number it was asked for.
SnapshotAsAsked(upTo) ==
    LET rows == {e \in log : e.seqNo <= upTo} IN
    /\ rows # {}
    /\ snapshots' = snapshots \cup {[upToSeqNo |-> upTo, entries |-> rows]}
    /\ UNCHANGED <<val, log, tx>>

\* createGovernanceSnapshot signs the entries up to a number, or all of them.
Snapshot(upTo) ==
    LET rows == {e \in log : e.seqNo <= upTo} IN
    /\ rows # {}
    /\ snapshots' = snapshots \cup {[upToSeqNo |-> Height(rows), entries |-> rows]}
    /\ UNCHANGED <<val, log, tx>>

Kinds == {"create", "update", "delete", "note"}

Step(t) == Write(t) \/ PickTip(t) \/ LockTip(t) \/ Insert(t) \/ Commit(t) \/ Abort(t)

Next ==
    \/ \E t \in Txns : Step(t)
    \/ \E t \in Txns, kind \in Kinds, r \in Records, v \in Values : Begin(t, kind, r, v)
    \/ \E upTo \in {e.seqNo + i : e \in log, i \in {0, 1}} : Snapshot(upTo)

Spec == Init /\ [][Next]_vars
-----------------------------------------------------------------------------
(* Properties *)

Row == [seqNo : Nat, rec : Records \cup {Absent}, previousState : Values \cup {Absent},
        newState : Values \cup {Absent}, previousHash : Txns \cup {Genesis}, entryHash : Txns]

Transaction ==
    [pc : {"idle", "read", "written", "tipped", "locked", "inserted", "over"},
     kind : Kinds, rec : Records \cup {Absent}, set : Values \cup {Absent},
     before : Values \cup {Absent}, after : Values \cup {Absent}, holds : Records \cup {Absent},
     tip : Nat, tipHash : Txns \cup {Genesis}]

TypeOK ==
    /\ val \in [Records -> Values \cup {Absent}]
    /\ log \subseteq Row
    /\ snapshots \subseteq [upToSeqNo : Nat, entries : SUBSET Row]
    /\ tx \in [Txns -> Transaction]

\* verifyGovernanceChain on some rows: in order of seq_no, each previous_hash
\* is the entry_hash of the row before, and the first one the genesis hash.
Verifies(rows) ==
    \A e \in rows :
        LET below == {f \in rows : f.seqNo < e.seqNo} IN
        /\ \A f \in rows : f.seqNo = e.seqNo => f = e
        /\ IF below = {} THEN e.previousHash = Genesis
           ELSE \E f \in below : /\ f.entryHash = e.previousHash
                                 /\ \A g \in below : g.seqNo <= f.seqNo

\* The chain never forks and the periodic verification never alarms the
\* owner while nobody tampers, although writers that wait for the tip's lock
\* go on with a tip that is no longer the last (governance-log.ts:222-231).
ChainVerifies == Verifies(log)

\* What a snapshot has signed stays what the log says up to that number,
\* whatever was still uncommitted when it was taken.
SnapshotsStayTrue ==
    \A s \in snapshots :
        /\ s.entries = {e \in log : e.seqNo <= s.upToSeqNo}
        /\ \E e \in s.entries : e.seqNo = s.upToSeqNo

Ledger == INSTANCE GovernedLedger WITH
    state <- val,
    entries <- {[seqNo |-> e.seqNo, rec |-> e.rec, newState |-> e.newState] : e \in log},
    height <- Height(log)

\* No governed write without its entry and no entry without its write, in any
\* interleaving and after any failure (governance-log.ts:4-9).
KeepsLedger == Ledger!Spec

\* What holds of the state that an entry starts from, which is read without a
\* lock: the record is in it now, or an earlier entry already tells of it.  No
\* entry names a state that only existed inside an unfinished or failed write.
PreviousStateWasCommitted ==
    [][\A f \in log' \ log : f.rec # Absent =>
          \/ f.previousState = val[f.rec]
          \/ \E e \in log : e.rec = f.rec /\ f.previousState \in {e.previousState, e.newState}]_vars

\* Each entry about a record starts from the state the entry before left it
\* in ("canonical JSON of previous state", drizzle/schema.ts).
EntryStartsFromState ==
    \A e, f \in log :
        /\ e.rec = f.rec /\ e.rec # Absent /\ e.seqNo < f.seqNo
        /\ \A g \in log : g.rec = e.rec => ~(e.seqNo < g.seqNo /\ g.seqNo < f.seqNo)
        => f.previousState = e.newState
=============================================================================
