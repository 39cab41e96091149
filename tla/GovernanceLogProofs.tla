------------------------ MODULE GovernanceLogProofs -------------------------
(***************************************************************************)
(* The log of GovernanceLog never forks, its snapshots stay true and it     *)
(* implements GovernedLedger, for any transactions, records and values.     *)
(***************************************************************************)
EXTENDS GovernanceLog, TLAPS

\* The committed rows are numbered 1 to h, each number once.
Dense(rows, h) ==
    /\ h \in Nat
    /\ \A e \in rows : e.seqNo \in 1..h
    /\ \A n \in 1..h : \E e \in rows : e.seqNo = n
    /\ \A e, f \in rows : e.seqNo = f.seqNo => e = f

\* A number and a hash that belong together: a row's, or the genesis.
Position(n, hash) ==
    \/ n = 0 /\ hash = Genesis
    \/ \E f \in log : f.seqNo = n /\ f.entryHash = hash

Linked == \A e \in log : Position(e.seqNo - 1, e.previousHash)

\* What a transaction knows of the tip: an old one, until its row is in.
TipKnown(t) ==
    /\ tx[t].pc \in {"tipped", "locked", "inserted"} => Position(tx[t].tip, tx[t].tipHash)
    /\ tx[t].pc = "inserted" => tx[t].tip = Height(log)

\* A transaction that has written holds an existing record's row; one that has
\* not reports a deletion or an event.
WriteKnown(t) ==
    /\ tx[t].pc = "idle" =>
          tx[t].kind = "note" /\ tx[t].holds = Absent /\ tx[t].after = Absent
    /\ tx[t].pc = "read" => tx[t].rec \in Records
    /\ tx[t].kind \in {"delete", "note"} => tx[t].set = Absent /\ tx[t].after = Absent
    /\ tx[t].holds \in {tx[t].rec, Absent}
    /\ tx[t].pc \in {"written", "tipped", "locked", "inserted"} /\ tx[t].holds = Absent
          => tx[t].after = Absent

OneInserts ==
    \A t, u \in Txns : tx[t].pc = "inserted" /\ tx[u].pc = "inserted" => t = u

ChainInv ==
    /\ TypeOK
    /\ Dense(log, Height(log))
    /\ Linked
    /\ \A t \in Txns : TipKnown(t) /\ WriteKnown(t)
    /\ OneInserts
    /\ \A s \in snapshots : s.upToSeqNo <= Height(log)
    /\ SnapshotsStayTrue
-----------------------------------------------------------------------------
(* The highest number of dense rows *)

\* Dense rows determine their height.
LEMMA HeightOfDense ==
    ASSUME NEW rows, NEW h, Dense(rows, h)
    PROVE  Height(rows) = h
<1>1. CASE rows = {}
    <2>1. h = 0
        BY <1>1 DEF Dense
    <2> QED
        BY <1>1, <2>1 DEF Height
<1>2. CASE rows # {}
    <2> DEFINE numbers == {e.seqNo : e \in rows}
               Top(n) == \A e \in rows : e.seqNo <= n
    <2>1. h \in numbers /\ Top(h)
        BY <1>2 DEF Dense
    <2>2. \A n \in numbers : Top(n) => n = h
        BY <2>1 DEF Dense
    <2>3. (CHOOSE n \in numbers : Top(n)) = h
        BY <2>1, <2>2
    <2> QED
        BY <1>2, <2>3 DEF Height
<1> QED
    BY <1>1, <1>2

\* A row on top of dense rows.
LEMMA DenseGrows ==
    ASSUME NEW rows, NEW h, Dense(rows, h), NEW e, e.seqNo = h + 1
    PROVE  Dense(rows \cup {e}, h + 1) /\ Height(rows \cup {e}) = h + 1
<1>1. Dense(rows \cup {e}, h + 1)
    BY DEF Dense
<1> QED
    BY <1>1, HeightOfDense

\* A part of dense rows up to a number.
LEMMA DensePart ==
    ASSUME NEW rows, NEW h, Dense(rows, h), NEW m \in Nat,
           {e \in rows : e.seqNo <= m} # {}
    PROVE  /\ Height({e \in rows : e.seqNo <= m}) <= h
           /\ Height({e \in rows : e.seqNo <= m}) \in Nat
           /\ {e \in rows : e.seqNo <= m}
                = {e \in rows : e.seqNo <= Height({f \in rows : f.seqNo <= m})}
           /\ \E e \in rows : e.seqNo <= m /\ e.seqNo = Height({f \in rows : f.seqNo <= m})
<1> DEFINE k == IF m <= h THEN m ELSE h
           part == {e \in rows : e.seqNo <= m}
<1>1. Dense(part, k) /\ k >= 1
    BY DEF Dense
<1>2. Height(part) = k
    BY <1>1, HeightOfDense
<1>3. part = {e \in rows : e.seqNo <= k}
    BY DEF Dense
<1>4. \E e \in part : e.seqNo = k
    BY <1>1 DEF Dense
<1> HIDE DEF part
<1>5. Height(part) <= h /\ Height(part) \in Nat
    BY <1>2 DEF Dense
<1> QED
    BY <1>2, <1>3, <1>4, <1>5 DEF part
-----------------------------------------------------------------------------
(* Types *)

\* The tip read from typed, dense rows is typed.
LEMMA TipTyped ==
    ASSUME ChainInv
    PROVE  Height(log) \in Nat /\ Position(Height(log), HashAt(Height(log)))
<1>0. Dense(log, Height(log))
    BY DEF ChainInv
<1>1. Height(log) \in Nat
    BY <1>0 DEF Dense
<1>2. CASE Height(log) = 0
    BY <1>2 DEF HashAt, Position
<1>3. CASE Height(log) # 0
    <2>1. \E e \in log : e.seqNo = Height(log)
        BY <1>0, <1>1, <1>3 DEF Dense
    <2> DEFINE top == CHOOSE e \in log : e.seqNo = Height(log)
    <2>2. top \in log /\ top.seqNo = Height(log)
        BY <2>1
    <2>3. HashAt(Height(log)) = top.entryHash
        BY <1>3 DEF HashAt
    <2> QED
        BY <1>1, <2>2, <2>3 DEF Position
<1> QED
    BY <1>1, <1>2, <1>3

\* Every step keeps the types.
LEMMA TypeStep ==
    ASSUME ChainInv, [Next]_vars
    PROVE  TypeOK'
<1> USE GovernanceAssumption
<1>0. TypeOK
    BY DEF ChainInv
<1>1. ASSUME NEW t \in Txns, NEW kind \in Kinds, NEW r \in Records, NEW v \in Values,
             Begin(t, kind, r, v)
      PROVE  TypeOK'
    <2> DEFINE pc == IF kind = "note" THEN "written" ELSE "read"
               rec == IF kind = "note" THEN Absent ELSE r
               set == IF kind \in {"note", "delete"} THEN Absent ELSE v
               before == IF kind \in {"update", "delete"} THEN val[r] ELSE Absent
    <2>1. /\ pc \in {"written", "read"} /\ rec \in Records \cup {Absent}
          /\ set \in Values \cup {Absent} /\ before \in Values \cup {Absent}
        BY <1>0 DEF TypeOK
    <2>2. /\ tx' = [tx EXCEPT ![t].pc = pc, ![t].kind = kind, ![t].rec = rec,
                              ![t].set = set, ![t].before = before]
          /\ UNCHANGED <<val, log, snapshots>>
        BY <1>1 DEF Begin
    <2>3. tx[t] \in Transaction
        BY <1>0 DEF TypeOK
    <2> HIDE DEF pc, rec, set, before
    <2>4. [tx[t] EXCEPT !.pc = pc, !.kind = kind, !.rec = rec, !.set = set, !.before = before]
            \in Transaction
        BY <2>1, <2>3 DEF Transaction
    <2> QED
        BY <1>0, <2>2, <2>4 DEF TypeOK
<1>2. ASSUME NEW t \in Txns, Write(t)
      PROVE  TypeOK'
    <2> DEFINE row == IF tx[t].kind = "delete" /\ val[tx[t].rec] = Absent
                        THEN Absent ELSE tx[t].rec
    <2>1. row \in Records \cup {Absent}
        BY <1>0 DEF TypeOK, Transaction
    <2>2. CASE Rollback(t)
        <3>1. [tx[t] EXCEPT !.pc = "over", !.holds = Absent] \in Transaction
            BY <1>0, ZenonT(60) DEF TypeOK, Transaction
        <3> QED
            BY <1>0, <1>2, <2>2, <3>1 DEF TypeOK, Write, Rollback
    <2>3. CASE tx' = [tx EXCEPT ![t].pc = "written", ![t].after = tx[t].set, ![t].holds = row]
        <3> HIDE DEF row
        <3>1. UNCHANGED <<val, log, snapshots>>
            BY <1>2 DEF Write
        <3>2. [tx[t] EXCEPT !.pc = "written", !.after = tx[t].set, !.holds = row] \in Transaction
            BY <1>0, <2>1, ZenonT(60) DEF TypeOK, Transaction
        <3> QED
            BY <1>0, <2>3, <3>1, <3>2 DEF TypeOK
    <2> QED
        BY <1>2, <2>2, <2>3 DEF Write
<1>3. ASSUME NEW t \in Txns, PickTip(t)
      PROVE  TypeOK'
    <2>1. Height(log) \in Nat /\ HashAt(Height(log)) \in Txns \cup {Genesis}
        BY <1>0, TipTyped DEF Position, TypeOK, Row
    <2> DEFINE top == Height(log)
               hash == HashAt(top)
    <2>2. /\ tx' = [tx EXCEPT ![t].pc = "tipped", ![t].tip = top, ![t].tipHash = hash]
          /\ UNCHANGED <<val, log, snapshots>>
        BY <1>3 DEF PickTip
    <2>0. top \in Nat /\ hash \in Txns \cup {Genesis}
        BY <2>1
    <2> HIDE DEF top, hash
    <2>3. [tx[t] EXCEPT !.pc = "tipped", !.tip = top, !.tipHash = hash] \in Transaction
        BY <1>0, <2>0, ZenonT(60) DEF TypeOK, Transaction
    <2> QED
        BY <1>0, <2>2, <2>3 DEF TypeOK
<1>4. ASSUME NEW t \in Txns, LockTip(t) \/ Insert(t) \/ Abort(t)
      PROVE  TypeOK'
    BY <1>0, <1>4 DEF TypeOK, Transaction, LockTip, Insert, Abort, Rollback, Goto
<1>5. ASSUME NEW t \in Txns, Commit(t)
      PROVE  TypeOK'
    <2>1. Entry(t) \in Row
        BY <1>0 DEF TypeOK, Transaction, Entry, Row
    <2>2. Published(t) \in [Records -> Values \cup {Absent}]
        BY <1>0 DEF TypeOK, Transaction, Published
    <2>3. [tx[t] EXCEPT !.pc = "over", !.holds = Absent] \in Transaction
        BY <1>0, ZenonT(60) DEF TypeOK, Transaction
    <2> QED
        BY <1>0, <1>5, <2>1, <2>2, <2>3 DEF TypeOK, Commit
<1>6. ASSUME NEW upTo, Snapshot(upTo), upTo \in Nat
      PROVE  TypeOK'
    <2> DEFINE rows == {e \in log : e.seqNo <= upTo}
    <2>1. Height(rows) \in Nat
        BY <1>6, DensePart DEF Snapshot, ChainInv
    <2>2. rows \in SUBSET Row
        BY <1>0 DEF TypeOK
    <2> QED
        BY <1>0, <1>6, <2>1, <2>2 DEF TypeOK, Snapshot
<1>7. CASE UNCHANGED vars
    BY <1>0, <1>7 DEF TypeOK, vars
<1>8. \A e \in log, i \in {0, 1} : e.seqNo + i \in Nat
    BY <1>0 DEF TypeOK, Row
<1> QED
    BY <1>1, <1>2, <1>3, <1>4, <1>5, <1>6, <1>7, <1>8 DEF Next, Step
-----------------------------------------------------------------------------
(* Steps *)

\* A step of one transaction that leaves the tables alone.
LEMMA QuietStep ==
    ASSUME ChainInv, TypeOK', NEW t \in Txns, UNCHANGED <<log, snapshots>>,
           \A u \in Txns \ {t} : tx'[u] = tx[u],
           TipKnown(t)', WriteKnown(t)',
           tx'[t].pc = "inserted" =>
               \A u \in Txns \ {t} : tx[u].pc = "inserted" => tx[u].tip # Height(log)
    PROVE  ChainInv'
<1>1. \A u \in Txns : TipKnown(u)' /\ WriteKnown(u)'
    <2> TAKE u \in Txns
    <2>1. CASE u = t
        BY <2>1
    <2>2. CASE u # t
        BY <2>2 DEF ChainInv, TipKnown, WriteKnown, Position
    <2> QED
        BY <2>1, <2>2
<1>2. OneInserts'
    BY DEF ChainInv, OneInserts, TipKnown
<1> QED
    BY <1>1, <1>2 DEF ChainInv, Linked, Position, SnapshotsStayTrue, Dense

\* Reading, writing and choosing the tip.
LEMMA BeforeLogging ==
    ASSUME ChainInv, TypeOK', NEW t \in Txns,
           \/ \E kind \in Kinds, r \in Records, v \in Values : Begin(t, kind, r, v)
           \/ Write(t) \/ PickTip(t) \/ LockTip(t) \/ Abort(t)
    PROVE  ChainInv'
<1>0. TypeOK /\ TipKnown(t) /\ WriteKnown(t)
    BY DEF ChainInv
<1>1. CASE \E kind \in Kinds, r \in Records, v \in Values : Begin(t, kind, r, v)
    <2>1. PICK kind \in Kinds, r \in Records, v \in Values : Begin(t, kind, r, v)
        BY <1>1
    <2>2. /\ \A u \in Txns \ {t} : tx'[u] = tx[u]
          /\ UNCHANGED <<val, log, snapshots>>
        BY <1>0, <2>1 DEF Begin, TypeOK
    <2>3. /\ tx[t].pc = "idle" /\ tx[t].holds = Absent /\ tx[t].after = Absent
          /\ tx'[t].holds = tx[t].holds /\ tx'[t].after = tx[t].after
        <3>1. tx[t].pc = "idle" /\ tx[t].holds = Absent /\ tx[t].after = Absent
            BY <1>0, <2>1 DEF Begin, WriteKnown
        <3>2. tx'[t].holds = tx[t].holds /\ tx'[t].after = tx[t].after
            BY <1>0, <2>1, ZenonT(60) DEF Begin, TypeOK, Transaction
        <3> QED
            BY <3>1, <3>2
    <2>4. CASE kind = "note"
        <3>1. tx'[t].pc = "written" /\ tx'[t].set = Absent
            BY <1>0, <2>1, <2>4, ZenonT(60) DEF Begin, TypeOK, Transaction
        <3> QED
            BY <2>2, <2>3, <3>1, QuietStep DEF TipKnown, WriteKnown
    <2>5. CASE kind # "note"
        <3>1. /\ tx'[t].pc = "read" /\ tx'[t].rec = r /\ tx'[t].kind = kind
              /\ kind = "delete" => tx'[t].set = Absent
            BY <1>0, <2>1, <2>5, ZenonT(60) DEF Begin, TypeOK, Transaction
        <3> QED
            BY <2>2, <2>3, <2>5, <3>1, QuietStep DEF TipKnown, WriteKnown
    <2> QED
        BY <2>4, <2>5
<1>2. CASE Write(t)
    <2>1. /\ \A u \in Txns \ {t} : tx'[u] = tx[u]
          /\ UNCHANGED <<val, log, snapshots>>
        BY <1>0, <1>2 DEF Write, Rollback, TypeOK
    <2>2. CASE Rollback(t)
        <3>1. TipKnown(t)' /\ WriteKnown(t)' /\ tx'[t].pc # "inserted"
            BY <1>0, <2>2 DEF Rollback, TipKnown, WriteKnown, TypeOK, Transaction
        <3> QED
            BY <2>1, <3>1, QuietStep
    <2>3. CASE ~Rollback(t)
        <3> DEFINE gone == tx[t].kind = "delete" /\ val[tx[t].rec] = Absent
        <3>1. tx' = [tx EXCEPT ![t].pc = "written", ![t].after = tx[t].set,
                               ![t].holds = IF gone THEN Absent ELSE tx[t].rec]
            BY <1>2, <2>3 DEF Write
        <3>2. /\ tx'[t].pc = "written" /\ tx'[t].after = tx[t].set /\ tx'[t].set = tx[t].set
              /\ tx'[t].kind = tx[t].kind /\ tx'[t].rec = tx[t].rec
            BY <1>0, <3>1 DEF TypeOK, Transaction
        <3>3. tx[t].rec # Absent
            BY <1>0, <1>2, GovernanceAssumption DEF Write, WriteKnown
        <3>4. /\ gone => tx'[t].holds = Absent /\ tx[t].kind = "delete"
              /\ ~gone => tx'[t].holds = tx[t].rec
            BY <1>0, <3>1 DEF TypeOK, Transaction
        <3> QED
            BY <1>0, <2>1, <3>2, <3>3, <3>4, QuietStep DEF TipKnown, WriteKnown
    <2> QED
        BY <2>2, <2>3
<1>3. CASE PickTip(t)
    <2>1. TipKnown(t)'
        BY <1>0, <1>3, TipTyped DEF PickTip, TipKnown, TypeOK, Transaction, Position
    <2>2. WriteKnown(t)' /\ tx'[t].pc # "inserted"
        BY <1>0, <1>3 DEF PickTip, WriteKnown, TypeOK, Transaction
    <2> QED
        BY <1>0, <1>3, <2>1, <2>2, QuietStep DEF PickTip, TypeOK, Transaction
<1>4. CASE LockTip(t)
    <2>1. TipKnown(t)' /\ WriteKnown(t)' /\ tx'[t].pc # "inserted"
        BY <1>0, <1>4 DEF LockTip, Goto, TipKnown, WriteKnown, TypeOK, Transaction, Position
    <2> QED
        BY <1>0, <1>4, <2>1, QuietStep DEF LockTip, Goto, TypeOK, Transaction
<1>5. CASE Abort(t)
    <2>1. TipKnown(t)' /\ WriteKnown(t)' /\ tx'[t].pc # "inserted"
        BY <1>0, <1>5 DEF Abort, Rollback, TipKnown, WriteKnown, TypeOK, Transaction
    <2> QED
        BY <1>0, <1>5, <2>1, QuietStep DEF Abort, Rollback, TypeOK, Transaction
<1> QED
    BY <1>1, <1>2, <1>3, <1>4, <1>5

\* A row goes in only if no committed row has its number, which means that
\* its tip is the last one after all.
LEMMA InsertStep ==
    ASSUME ChainInv, TypeOK', NEW t \in Txns, Insert(t)
    PROVE  ChainInv'
<1>0. TypeOK /\ TipKnown(t) /\ WriteKnown(t) /\ Dense(log, Height(log))
    BY DEF ChainInv
<1>1. CASE \E e \in log : e.seqNo = tx[t].tip + 1
    <2>1. TipKnown(t)' /\ WriteKnown(t)' /\ tx'[t].pc # "inserted"
        BY <1>0, <1>1 DEF Insert, Rollback, TipKnown, WriteKnown, TypeOK, Transaction
    <2> QED
        BY <1>0, <1>1, <2>1, QuietStep DEF Insert, Rollback, TypeOK, Transaction
<1>2. CASE ~ \E e \in log : e.seqNo = tx[t].tip + 1
    <2>1. tx[t].tip \in 0..Height(log)
        BY <1>0 DEF TipKnown, Position, Dense, TypeOK, Transaction, Insert
    <2>2. tx[t].tip = Height(log)
        BY <1>0, <1>2, <2>1 DEF Dense
    <2>3. TipKnown(t)' /\ WriteKnown(t)'
        BY <1>0, <1>2, <2>2 DEF Insert, Goto, TipKnown, WriteKnown, TypeOK, Transaction, Position
    <2>4. \A u \in Txns \ {t} : tx[u].pc = "inserted" => tx[u].tip # Height(log)
        BY <1>0, <2>2 DEF Insert, Inserted, TypeOK, Transaction
    <2> QED
        BY <1>0, <1>2, <2>3, <2>4, QuietStep DEF Insert, Goto, TypeOK, Transaction
<1> QED
    BY <1>1, <1>2

\* Committed, the row is the next one of the chain.
LEMMA CommitStep ==
    ASSUME ChainInv, TypeOK', NEW t \in Txns, Commit(t)
    PROVE  ChainInv' /\ Height(log') = Height(log) + 1
<1> DEFINE h == Height(log)
<1>0. TypeOK /\ TipKnown(t) /\ WriteKnown(t) /\ Dense(log, h) /\ tx[t].pc = "inserted"
    BY DEF ChainInv, Commit
<1>1. Entry(t).seqNo = h + 1 /\ log' = log \cup {Entry(t)}
    BY <1>0 DEF Entry, TipKnown, Commit
<1>2. Dense(log', h + 1) /\ Height(log') = h + 1
    BY <1>0, <1>1, DenseGrows
<1>3. \A n, hash : Position(n, hash) => Position(n, hash)'
    BY <1>1 DEF Position
<1>4. Linked'
    <2>1. Position(Entry(t).seqNo - 1, Entry(t).previousHash)
        BY <1>0 DEF Entry, TipKnown, TypeOK, Transaction
    <2> QED
        BY <1>1, <1>3, <2>1 DEF Linked, ChainInv
<1>5. \A u \in Txns : TipKnown(u)' /\ WriteKnown(u)'
    <2> TAKE u \in Txns
    <2>1. CASE u = t
        BY <1>0, <2>1 DEF Commit, TipKnown, WriteKnown, TypeOK, Transaction
    <2>2. CASE u # t
        <3>1. tx'[u] = tx[u] /\ tx[u].pc # "inserted"
            BY <1>0, <2>2 DEF Commit, TypeOK, Transaction, ChainInv, OneInserts
        <3> QED
            BY <1>3, <3>1 DEF TipKnown, WriteKnown, ChainInv
    <2> QED
        BY <2>1, <2>2
<1>6. OneInserts'
    BY <1>0 DEF OneInserts, ChainInv, Commit, TypeOK, Transaction
<1>7. SnapshotsStayTrue' /\ \A s \in snapshots' : s.upToSeqNo <= h + 1
    <2>1. ASSUME NEW s \in snapshots
          PROVE  /\ s.upToSeqNo <= h + 1
                 /\ s.entries = {e \in log' : e.seqNo <= s.upToSeqNo}
                 /\ \E e \in s.entries : e.seqNo = s.upToSeqNo
        <3>1. s.upToSeqNo \in Nat /\ s.upToSeqNo <= h /\ h \in Nat
            BY <1>0 DEF ChainInv, TypeOK, Transaction, Dense
        <3>2. {e \in log' : e.seqNo <= s.upToSeqNo} = {e \in log : e.seqNo <= s.upToSeqNo}
            BY <1>1, <3>1
        <3> QED
            BY <3>1, <3>2 DEF ChainInv, SnapshotsStayTrue
    <2> QED
        BY <2>1 DEF SnapshotsStayTrue, Commit
<1> QED
    BY <1>2, <1>4, <1>5, <1>6, <1>7 DEF ChainInv

\* A snapshot ends at a row that exists.
LEMMA SnapshotStep ==
    ASSUME ChainInv, TypeOK', NEW upTo \in Nat, Snapshot(upTo)
    PROVE  ChainInv'
<1> DEFINE rows == {e \in log : e.seqNo <= upTo}
<1>1. /\ Height(rows) <= Height(log)
      /\ rows = {e \in log : e.seqNo <= Height(rows)}
      /\ \E e \in rows : e.seqNo = Height(rows)
    BY DensePart DEF ChainInv, Snapshot
<1>2. SnapshotsStayTrue' /\ \A s \in snapshots' : s.upToSeqNo <= Height(log)
    BY <1>1 DEF Snapshot, SnapshotsStayTrue, ChainInv
<1>3. UNCHANGED <<log, tx>>
    BY DEF Snapshot
<1> QED
    BY <1>2, <1>3 DEF ChainInv, Linked, Position, TipKnown, WriteKnown, OneInserts, Dense

\* Every step keeps the invariant.
LEMMA ChainStep ==
    ASSUME ChainInv, [Next]_vars
    PROVE  ChainInv'
<1>1. TypeOK'
    BY TypeStep
<1>2. \A e \in log, i \in {0, 1} : e.seqNo + i \in Nat
    BY DEF ChainInv, TypeOK, Transaction, Row
<1>3. CASE UNCHANGED vars
    BY <1>3 DEF ChainInv, TypeOK, Transaction, Linked, Position, TipKnown, WriteKnown, OneInserts,
                SnapshotsStayTrue, Dense, vars
<1> QED
    BY <1>1, <1>2, <1>3, BeforeLogging, InsertStep, CommitStep, SnapshotStep DEF Next, Step

LEMMA ChainInit == Init => ChainInv
<1> SUFFICES ASSUME Init PROVE ChainInv
    OBVIOUS
<1> USE GovernanceAssumption
<1>1. TypeOK
    BY DEF Init, TypeOK, Transaction, NotBegun, Kinds
<1>2. Dense({}, 0)
    BY DEF Dense
<1>3. Height({}) = 0
    BY DEF Height
<1> QED
    BY <1>1, <1>2, <1>3 DEF Init, ChainInv, NotBegun, Linked, TipKnown, WriteKnown, OneInserts,
                            SnapshotsStayTrue

\* The inductive invariant holds in every state.
THEOREM ChainInvariant == Spec => []ChainInv
<1> QED
    BY ChainInit, ChainStep, PTL DEF Spec

\* Types are kept.
THEOREM LogTypes == Spec => []TypeOK
<1>1. ChainInv => TypeOK
    BY DEF ChainInv
<1> QED
    BY <1>1, ChainInvariant, PTL

\* The chain always verifies: nothing the code does can fork it.
THEOREM ChainNeverForks == Spec => []ChainVerifies
<1>1. ChainInv => ChainVerifies
    <2> SUFFICES ASSUME ChainInv, NEW e \in log
                 PROVE  LET below == {f \in log : f.seqNo < e.seqNo} IN
                        /\ \A f \in log : f.seqNo = e.seqNo => f = e
                        /\ IF below = {} THEN e.previousHash = Genesis
                           ELSE \E f \in below : /\ f.entryHash = e.previousHash
                                                 /\ \A g \in below : g.seqNo <= f.seqNo
        BY DEF ChainVerifies, Verifies
    <2> DEFINE below == {f \in log : f.seqNo < e.seqNo}
    <2>0. Dense(log, Height(log)) /\ Position(e.seqNo - 1, e.previousHash)
        BY DEF ChainInv, Linked
    <2>1. \A f \in log : f.seqNo \in Nat \ {0}
        BY <2>0 DEF Dense
    <2>2. CASE e.seqNo = 1
        <3>1. below = {}
            BY <2>1, <2>2
        <3>2. e.previousHash = Genesis
            BY <2>0, <2>1, <2>2 DEF Position
        <3> QED
            BY <2>0, <3>1, <3>2 DEF Dense
    <2>3. CASE e.seqNo # 1
        <3>1. PICK f \in log : f.seqNo = e.seqNo - 1 /\ f.entryHash = e.previousHash
            BY <2>0, <2>1, <2>3 DEF Position
        <3>2. f \in below /\ \A g \in below : g.seqNo <= f.seqNo
            BY <2>1, <3>1
        <3> QED
            BY <2>0, <3>1, <3>2 DEF Dense
    <2> QED
        BY <2>2, <2>3
<1> QED
    BY <1>1, ChainInvariant, PTL

\* What a snapshot has signed remains true.
THEOREM SnapshotsTrue == Spec => []SnapshotsStayTrue
<1>1. ChainInv => SnapshotsStayTrue
    BY DEF ChainInv
<1> QED
    BY <1>1, ChainInvariant, PTL
-----------------------------------------------------------------------------
(* Refinement *)

\* A committed transaction is a change with its entry, or an event; everything
\* else leaves the ledger as it is.
LEMMA LedgerStep ==
    ASSUME ChainInv, [Next]_vars
    PROVE  [Ledger!Next]_Ledger!ledger
<1> DEFINE told(rows) == {[seqNo |-> e.seqNo, rec |-> e.rec, newState |-> e.newState] : e \in rows}
<1>1. ASSUME NEW t \in Txns, Commit(t)
      PROVE  Ledger!Next
    <2>0. TypeOK /\ TipKnown(t) /\ WriteKnown(t) /\ tx[t].pc = "inserted"
        BY <1>1 DEF ChainInv, Commit
    <2>1. Height(log') = Height(log) + 1
        BY <1>1, CommitStep, TypeStep DEF Next, Step
    <2>2. /\ Entry(t).seqNo = Height(log) + 1
          /\ Entry(t).rec = tx[t].rec /\ Entry(t).newState = tx[t].after
        BY <2>0 DEF Entry, TipKnown
    <2>3. told(log') = told(log) \cup
            {[seqNo |-> Height(log) + 1, rec |-> tx[t].rec, newState |-> tx[t].after]}
        <3>1. log' = log \cup {Entry(t)}
            BY <1>1 DEF Commit
        <3> QED
            BY <2>2, <3>1
    <2>4. CASE tx[t].holds # Absent
        <3>1. tx[t].rec \in Records /\ tx[t].after \in Values \cup {Absent}
            BY <2>0, <2>4 DEF WriteKnown, TypeOK, Transaction
        <3>2. val' = [val EXCEPT ![tx[t].rec] = tx[t].after]
            BY <1>1, <2>0, <2>4 DEF Commit, Published, WriteKnown
        <3> QED
            BY <2>1, <2>3, <3>1, <3>2 DEF Ledger!Change, Ledger!Next
    <2>5. CASE tx[t].holds = Absent
        <3>1. tx[t].after = Absent /\ tx[t].rec \in Records \cup {Absent}
            BY <2>0, <2>5 DEF WriteKnown, TypeOK, Transaction
        <3>2. val' = val
            BY <1>1, <2>5 DEF Commit, Published
        <3> QED
            BY <2>1, <2>3, <3>1, <3>2 DEF Ledger!Event, Ledger!Next
    <2> QED
        BY <2>4, <2>5
<1>2. ASSUME UNCHANGED <<val, log>>
      PROVE  UNCHANGED Ledger!ledger
    BY <1>2 DEF Ledger!ledger, Height
<1>3. (~ \E t \in Txns : Commit(t)) => UNCHANGED <<val, log>>
    <2> SUFFICES ASSUME ~ \E t \in Txns : Commit(t)
                 PROVE  UNCHANGED <<val, log>>
        OBVIOUS
    <2>1. ASSUME NEW t \in Txns, Step(t)
          PROVE  UNCHANGED <<val, log>>
        BY <2>1 DEF Step, Write, PickTip, LockTip, Insert, Abort
    <2>2. ASSUME NEW t, NEW kind, NEW r, NEW v, Begin(t, kind, r, v)
          PROVE  UNCHANGED <<val, log>>
        BY <2>2 DEF Begin
    <2>3. ASSUME NEW upTo, Snapshot(upTo)
          PROVE  UNCHANGED <<val, log>>
        BY <2>3 DEF Snapshot
    <2> QED
        BY <2>1, <2>2, <2>3 DEF Next, vars
<1> QED
    BY <1>1, <1>2, <1>3

\* Governed writes implement the ledger.
THEOREM LogKeepsLedger == Spec => KeepsLedger
<1>1. Init => Ledger!Init
    BY DEF Init, Ledger!Init, Height
<1> QED
    BY <1>1, LedgerStep, ChainInvariant, PTL DEF Spec, KeepsLedger, Ledger!Spec
-----------------------------------------------------------------------------
(* The states before *)

Wrote == {"written", "tipped", "locked", "inserted"}

Spoken(r) == \E e \in log : e.rec = r
Told(r, v) == \E e \in log : e.rec = r /\ v \in {e.previousState, e.newState}

\* The log tells of every state a record is in, once it tells of the record.
ValIsTold ==
    \A r \in Records : Spoken(r) => \E e \in log : e.rec = r /\ e.newState = val[r]

\* What a transaction has read: the state the record is in, or one that the log
\* tells of; and what it found when it wrote.  A deletion that found no row
\* came after another write of the record.
ReadKnown(t) ==
    tx[t].pc \in {"read"} \cup Wrote =>
        LET r == tx[t].rec
        IN  /\ tx[t].kind = "note" => r = Absent
            /\ tx[t].kind # "note" => r \in Records
            /\ tx[t].kind \in {"update", "delete"} =>
                  tx[t].before # Absent /\ (tx[t].before = val[r] \/ Told(r, tx[t].before))
            /\ tx[t].kind = "create" => tx[t].before = Absent
            /\ tx[t].kind = "create" /\ tx[t].pc \in Wrote => tx[t].holds = r /\ val[r] = Absent
            /\ tx[t].kind = "update" /\ tx[t].pc \in Wrote => tx[t].holds = r
            /\ tx[t].kind = "delete" /\ tx[t].pc \in Wrote => tx[t].holds = r \/ Spoken(r)

HeldOnce ==
    \A t, u \in Txns : tx[t].holds = tx[u].holds /\ tx[t].holds # Absent => t = u

ReadInv == ValIsTold /\ HeldOnce /\ \A t \in Txns : ReadKnown(t)

\* A step of one transaction that leaves the tables alone.
LEMMA QuietRead ==
    ASSUME ReadInv, NEW t \in Txns, UNCHANGED <<val, log>>,
           \A u \in Txns \ {t} : tx'[u] = tx[u],
           ReadKnown(t)',
           tx'[t].holds \in {tx[t].holds, Absent} \/ \A u \in Txns \ {t} : tx[u].holds # tx'[t].holds
    PROVE  ReadInv'
<1>1. HeldOnce'
    BY DEF ReadInv, HeldOnce
<1>2. ValIsTold'
    BY DEF ReadInv, ValIsTold, Spoken
<1>3. ASSUME NEW u \in Txns, u # t PROVE ReadKnown(u)'
    BY <1>3 DEF ReadInv, ReadKnown, Told, Spoken
<1> QED
    BY <1>1, <1>2, <1>3 DEF ReadInv

\* One that changes nothing but where the transaction stands.
LEMMA WaitingRead ==
    ASSUME ChainInv, ReadInv, NEW t \in Txns,
           PickTip(t) \/ LockTip(t) \/ Insert(t) \/ Abort(t)
    PROVE  ReadInv'
<1>0. TypeOK
    BY DEF ChainInv
<1>1. /\ UNCHANGED <<val, log>>
      /\ \A u \in Txns \ {t} : tx'[u] = tx[u]
    BY <1>0 DEF PickTip, LockTip, Insert, Abort, Goto, Rollback, TypeOK
<1>2. CASE Rollback(t)
    <2>1. tx'[t].pc = "over" /\ tx'[t].holds = Absent
        BY <1>0, <1>2 DEF Rollback, TypeOK, Transaction
    <2> QED
        BY <1>1, <2>1, QuietRead DEF ReadKnown, Wrote
<1>3. CASE ~Rollback(t)
    <2>1. /\ tx[t].pc \in Wrote /\ tx'[t].pc \in Wrote
          /\ tx'[t].kind = tx[t].kind /\ tx'[t].rec = tx[t].rec
          /\ tx'[t].before = tx[t].before /\ tx'[t].holds = tx[t].holds
        <3>1. CASE PickTip(t)
            BY <1>0, <3>1 DEF PickTip, TypeOK, Transaction, Wrote
        <3>2. CASE ~PickTip(t)
            BY <1>0, <1>3, <3>2 DEF LockTip, Insert, Abort, Goto, TypeOK, Transaction, Wrote
        <3> QED
            BY <3>1, <3>2
    <2>2. ReadKnown(t)'
        BY <1>1, <2>1 DEF ReadInv, ReadKnown, Told, Spoken
    <2> QED
        BY <1>1, <2>1, <2>2, QuietRead
<1> QED
    BY <1>2, <1>3

\* The state is read as it is committed.
LEMMA BeginRead ==
    ASSUME ChainInv, ReadInv, NEW t \in Txns, NEW kind \in Kinds, NEW r \in Records,
           NEW v \in Values, Begin(t, kind, r, v)
    PROVE  ReadInv'
<1> DEFINE before == IF kind \in {"update", "delete"} THEN val[r] ELSE Absent
           rec == IF kind = "note" THEN Absent ELSE r
           pc == IF kind = "note" THEN "written" ELSE "read"
           set == IF kind \in {"note", "delete"} THEN Absent ELSE v
<1>0. TypeOK /\ WriteKnown(t)
    BY DEF ChainInv
<1>1. /\ tx' = [tx EXCEPT ![t].pc = pc, ![t].kind = kind, ![t].rec = rec,
                          ![t].set = set, ![t].before = before]
      /\ UNCHANGED <<val, log>>
    BY DEF Begin
<1>4. kind \in {"update", "delete"} => val[r] # Absent
    BY DEF Begin
<1>5. UNCHANGED <<val, log>>
    BY <1>1
<1> HIDE DEF before, rec, pc, set
<1>2. /\ tx'[t].pc = pc /\ tx'[t].kind = kind /\ tx'[t].rec = rec /\ tx'[t].before = before
      /\ tx'[t].holds = tx[t].holds
      /\ \A u \in Txns \ {t} : tx'[u] = tx[u]
    BY <1>0, <1>1 DEF TypeOK, Transaction
<1>3. ReadKnown(t)'
    <2>1. CASE kind = "note"
        BY <1>2, <2>1 DEF ReadKnown, rec
    <2>2. CASE kind # "note"
        <3>1. tx'[t].pc = "read" /\ tx'[t].rec = r
            BY <1>2, <2>2 DEF rec, pc
        <3>2. /\ kind \in {"update", "delete"} => tx'[t].before = val'[r] /\ tx'[t].before # Absent
              /\ kind = "create" => tx'[t].before = Absent
            BY <1>2, <1>4, <1>5 DEF before
        <3> QED
            BY <1>2, <2>2, <3>1, <3>2 DEF ReadKnown, Wrote
    <2> QED
        BY <2>1, <2>2
<1> QED
    BY <1>2, <1>3, <1>5, QuietRead

\* The write finds the row as the locks leave it.
LEMMA WriteRead ==
    ASSUME ChainInv, ReadInv, NEW t \in Txns, Write(t)
    PROVE  ReadInv'
<1> DEFINE r == tx[t].rec
           gone == tx[t].kind = "delete" /\ val[r] = Absent
<1>0. TypeOK
    BY DEF ChainInv
<1>1. /\ UNCHANGED <<val, log>> /\ tx[t].pc = "read"
      /\ \A u \in Txns \ {t} : tx'[u] = tx[u] /\ tx[u].holds # r
    BY <1>0 DEF Write, Rollback, TypeOK, HoldsRow
<1>2. CASE Rollback(t)
    <2>1. tx'[t].pc = "over" /\ tx'[t].holds = Absent
        BY <1>0, <1>2 DEF Rollback, TypeOK, Transaction
    <2> QED
        BY <1>1, <2>1, QuietRead DEF ReadKnown, Wrote
<1>3. CASE ~Rollback(t)
    <2>1. /\ tx' = [tx EXCEPT ![t].pc = "written", ![t].after = tx[t].set,
                              ![t].holds = IF gone THEN Absent ELSE r]
          /\ ~(tx[t].kind = "create" /\ val[r] # Absent)
        BY <1>3 DEF Write
    <2>2. /\ tx'[t].pc = "written" /\ tx'[t].kind = tx[t].kind /\ tx'[t].rec = r
          /\ tx'[t].before = tx[t].before
          /\ gone => tx'[t].holds = Absent
          /\ ~gone => tx'[t].holds = r
        BY <1>0, <2>1 DEF TypeOK, Transaction
    <2>3. ReadKnown(t)
        BY DEF ReadInv
    <2>4. gone => Spoken(r)
        BY <1>1, <2>3 DEF ReadKnown, Told, Spoken
    <2>5. ReadKnown(t)'
        BY <1>1, <2>1, <2>2, <2>3, <2>4 DEF ReadKnown, Told, Spoken, Wrote
    <2> QED
        BY <1>1, <2>2, <2>5, QuietRead
<1> QED
    BY <1>2, <1>3

\* What a transaction that commits says of the state before.
CommittedBefore(t) ==
    tx[t].rec # Absent => tx[t].before = val[tx[t].rec] \/ Told(tx[t].rec, tx[t].before)

LEMMA CommitSays ==
    ASSUME ChainInv, ReadInv, NEW t \in Txns, Commit(t)
    PROVE  CommittedBefore(t)
<1>1. tx[t].pc = "inserted" /\ tx[t].kind \in Kinds /\ ReadKnown(t)
    BY DEF Commit, ChainInv, TypeOK, Transaction, ReadInv
<1> QED
    BY <1>1 DEF ReadKnown, CommittedBefore, Wrote, Kinds

\* The entry tells of the state the record is in from now on, and the entries
\* of the record of the state it was in.
LEMMA CommitRead ==
    ASSUME ChainInv, ReadInv, NEW t \in Txns, Commit(t)
    PROVE  ReadInv'
<1> DEFINE r == tx[t].rec
<1>0. TypeOK /\ WriteKnown(t) /\ ReadKnown(t) /\ tx[t].pc = "inserted" /\ tx[t].kind \in Kinds
    BY DEF ChainInv, Commit, ReadInv, TypeOK, Transaction
<1>1. /\ log' = log \cup {Entry(t)} /\ val' = Published(t)
      /\ Entry(t).rec = r /\ Entry(t).newState = tx[t].after
      /\ Entry(t).previousState = tx[t].before
    BY DEF Commit, Entry
<1>2. /\ \A u \in Txns \ {t} : tx'[u] = tx[u]
      /\ tx'[t].pc = "over" /\ tx'[t].holds = Absent
    BY <1>0 DEF Commit, TypeOK, Transaction
<1>3. HeldOnce'
    BY <1>2 DEF ReadInv, HeldOnce
<1>4. \A q, v : (Spoken(q) => Spoken(q)') /\ (Told(q, v) => Told(q, v)')
    BY <1>1 DEF Spoken, Told
<1>5. CommittedBefore(t)
    BY CommitSays
<1>6. r \in Records =>
        /\ tx[t].holds = r => val'[r] = tx[t].after
        /\ tx[t].holds # r => val'[r] = val[r] /\ Spoken(r)
    BY <1>0, <1>1, GovernanceAssumption
       DEF Published, WriteKnown, ReadKnown, Wrote, TypeOK, Kinds
<1>7. \A q \in Records : q # tx[t].holds => val'[q] = val[q]
    BY <1>0, <1>1 DEF Published, TypeOK
<1>8. ValIsTold'
    <2> SUFFICES ASSUME NEW q \in Records, Spoken(q)'
                 PROVE  \E e \in log' : e.rec = q /\ e.newState = val'[q]
        BY DEF ValIsTold
    <2>1. CASE q = r /\ tx[t].holds = r
        BY <1>1, <1>6, <2>1
    <2>2. CASE q # tx[t].holds
        <3>1. Spoken(q) /\ val'[q] = val[q]
            BY <1>1, <1>6, <1>7, <2>2 DEF Spoken
        <3> QED
            BY <1>1, <3>1 DEF ReadInv, ValIsTold
    <2> QED
        BY <1>0, <2>1, <2>2, GovernanceAssumption DEF WriteKnown
<1>9. \A q \in Records : \A v : v = val[q] => v = val'[q] \/ Told(q, v)'
    <2> SUFFICES ASSUME NEW q \in Records, NEW v, v = val[q], v # val'[q]
                 PROVE  Told(q, v)'
        OBVIOUS
    <2>1. q = tx[t].holds /\ q = r
        BY <1>0, <1>7, GovernanceAssumption DEF WriteKnown
    <2>2. CASE Spoken(q)
        <3>1. Told(q, v)
            BY <2>2 DEF ReadInv, ValIsTold, Told
        <3> QED
            BY <1>1, <3>1 DEF Told
    <2>3. CASE ~Spoken(q)
        <3>1. tx[t].before = v
            BY <1>5, <2>1, <2>3, GovernanceAssumption DEF CommittedBefore, Told, Spoken
        <3> QED
            BY <1>1, <2>1, <3>1 DEF Told
    <2> QED
        BY <2>2, <2>3
<1>10. ASSUME NEW u \in Txns PROVE ReadKnown(u)'
    <2>1. CASE u = t
        BY <1>2, <2>1 DEF ReadKnown, Wrote
    <2>2. CASE u # t
        <3>1. tx'[u] = tx[u] /\ ReadKnown(u)
            BY <1>2, <2>2 DEF ReadInv
        <3>2. tx[u].holds \in Records => val'[tx[u].holds] = val[tx[u].holds]
            BY <1>7, <2>2, GovernanceAssumption DEF ReadInv, HeldOnce
        <3>3. ASSUME NEW q \in Records, NEW v, v = val[q] \/ Told(q, v)
              PROVE  v = val'[q] \/ Told(q, v)'
            BY <1>4, <1>9, <3>3
        <3> QED
            BY <1>4, <3>1, <3>2, <3>3 DEF ReadKnown, Wrote
    <2> QED
        BY <2>1, <2>2
<1> QED
    BY <1>3, <1>8, <1>10 DEF ReadInv

LEMMA ReadStep ==
    ASSUME ChainInv, ReadInv, [Next]_vars
    PROVE  ReadInv'
<1>1. CASE UNCHANGED <<val, log, tx>>
    BY <1>1 DEF ReadInv, ValIsTold, HeldOnce, ReadKnown, Told, Spoken
<1>2. UNCHANGED vars \/ (\E upTo : Snapshot(upTo)) => UNCHANGED <<val, log, tx>>
    BY DEF vars, Snapshot
<1> QED
    BY <1>1, <1>2, WaitingRead, BeginRead, WriteRead, CommitRead DEF Next, Step

LEMMA ReadInit == Init => ReadInv
    BY DEF Init, NotBegun, ReadInv, ValIsTold, HeldOnce, ReadKnown, Spoken, Wrote

\* The state that an entry says it starts from was once committed, although the
\* hooks of governance-hooks.ts read it without a lock.
THEOREM PreviousStatesAreReal == Spec => PreviousStateWasCommitted
<1>1. ChainInv /\ ReadInv /\ [Next]_vars => ReadInv'
    BY ReadStep
<1>2. Spec => [](ChainInv /\ ReadInv)
    BY <1>1, ReadInit, ChainInvariant, PTL DEF Spec
<1> DEFINE Real ==
        \A f \in log' \ log : f.rec # Absent =>
            \/ f.previousState = val[f.rec]
            \/ \E e \in log : e.rec = f.rec /\ f.previousState \in {e.previousState, e.newState}
<1>3. ChainInv /\ ReadInv /\ [Next]_vars => Real
    <2> SUFFICES ASSUME ChainInv, ReadInv, [Next]_vars PROVE Real
        OBVIOUS
    <2>1. ASSUME NEW t \in Txns, Commit(t) PROVE Real
        <3>1. CommittedBefore(t) /\ log' = log \cup {Entry(t)}
            BY <2>1, CommitSays DEF Commit
        <3> QED
            BY <3>1 DEF CommittedBefore, Told, Entry
    <2>2. (~ \E t \in Txns : Commit(t)) => log' = log
        <3>1. \A t \in Txns : Write(t) \/ PickTip(t) \/ LockTip(t) \/ Insert(t) \/ Abort(t)
                  => log' = log
            BY DEF Write, PickTip, LockTip, Insert, Abort
        <3>2. \A t \in Txns, kind \in Kinds, r \in Records, v \in Values :
                  Begin(t, kind, r, v) => log' = log
            BY DEF Begin
        <3>3. \A upTo : Snapshot(upTo) => log' = log
            BY DEF Snapshot
        <3> QED
            BY <3>1, <3>2, <3>3 DEF Next, Step, vars
    <2> QED
        BY <2>1, <2>2
<1> HIDE DEF Real
<1>4. Spec => [][Real]_vars
    BY <1>2, <1>3, PTL DEF Spec
<1> QED
    BY <1>4 DEF PreviousStateWasCommitted, Real
=============================================================================
