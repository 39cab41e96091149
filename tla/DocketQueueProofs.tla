------------------------- MODULE DocketQueueProofs -------------------------
(***************************************************************************)
(* Rows, jobs and cached copies of DocketQueue stay sound, settled rows     *)
(* stay settled, and the queue implements DocketLedger, for any bills,      *)
(* processes, slots, versions and faults.                                   *)
(***************************************************************************)
EXTENDS DocketQueue, TLAPS

\* Only a submitted row has a holder; a row stands for something that was
\* observed or imported; its attempts are failures that count, until it is
\* completed; and what completed it has been cached.
RowIsSound(g) ==
    /\ row[g].holder # None => row[g].state = "submitted"
    /\ row[g].state # "absent" =>
         g[2] <= upstream[g[1]] /\ (g[2] = 0 => detail[g[1]].version >= 0)
    /\ row[g].state \notin {"completed", "source_unavailable"} => row[g].attempts <= misses[g]
    /\ row[g].state = "permanent_failure" => misses[g] >= UnknownLimit
    /\ row[g].state \in {"completed", "source_unavailable"} /\ ~raced[g[1]]
         => detail[g[1]].version >= g[2]

\* What a job knows of its row and of the bill.
JobIsSound(j) ==
    j.pc # "free" =>
        /\ j.gen \in Generations
        /\ row[j.gen].state # "absent"
        /\ j.prior <= misses[j.gen]
        /\ j.pc = "archive" => j.gen[2] = 0
        /\ j.pc = "cache" => j.gen[2] <= j.got /\ 1 <= j.got /\ j.got <= upstream[j.gen[1]]
        /\ j.pc \in {"register", "finish"} /\ ~raced[j.gen[1]]
             => j.gen[2] <= detail[j.gen[1]].version

\* Where no two fetches of a bill overlap, at most one copy of it is on its
\* way, and that one is not older than the cached one.
Caching(j, b) == j.pc = "cache" /\ j.gen[1] = b

BillIsSound(b) ==
    /\ detail[b].version <= upstream[b] /\ visit[b] <= upstream[b]
    /\ detail[b].version = -1 <=> detail[b].source = "none"
    /\ ~raced[b] =>
        /\ visit[b] > 0 => detail[b].version <= visit[b]
        /\ \A p \in Procs, s \in Slots : Caching(job[p][s], b) =>
             /\ visit[b] = 0
             /\ detail[b].version <= job[p][s].got
             /\ \A q \in Procs, t \in Slots : Caching(job[q][t], b) => q = p /\ t = s

IInv ==
    /\ TypeOK
    /\ \A g \in Generations : RowIsSound(g)
    /\ \A p \in Procs, s \in Slots : JobIsSound(job[p][s])
    /\ \A b \in Bills : BillIsSound(b)

\* What every step keeps of rows, failures and versions.
Grows ==
    /\ \A g \in Generations : row[g].state # "absent" => row'[g].state # "absent"
    /\ \A g \in Generations : misses[g] <= misses'[g]
    /\ \A b \in Bills : upstream[b] <= upstream'[b]
    /\ \A b \in Bills : raced[b] => raced'[b]
    /\ \A b \in Bills : detail[b].version >= 0 => detail'[b].version >= 0
    /\ \A b \in Bills : ~raced'[b] => detail[b].version <= detail'[b].version
-----------------------------------------------------------------------------
(* Types *)

\* The initial values have their types.
LEMMA ValuesTyped ==
    /\ Absent \in Rows /\ Eligible \in Rows /\ NoDetail \in Details /\ Free \in Jobs
    /\ \A g \in Generations : g[1] \in Bills /\ g[2] \in 0..MaxVersion
    /\ \A b \in Bills, v \in 0..MaxVersion : <<b, v>> \in Generations
    /\ Archived \subseteq Generations
    /\ \A g \in Archived : g[2] = 0
    /\ \A g \in Generations : g[2] = 0 => g \in Archived
<1>1. MaxVersion \in Nat \ {0} BY DocketAssumption
<1>2. Absent \in Rows BY DEF Absent, Rows
<1>3. Eligible \in Rows BY DEF Eligible, Absent, Rows
<1>4. NoDetail \in Details BY <1>1 DEF NoDetail, Details
<1>5. Free \in Jobs BY <1>1 DEF Free, Jobs
<1>6. /\ \A g \in Generations : g[1] \in Bills /\ g[2] \in 0..MaxVersion
      /\ \A b \in Bills, v \in 0..MaxVersion : <<b, v>> \in Generations
  BY DEF Generations
<1>7. /\ Archived \subseteq Generations
      /\ \A g \in Archived : g[2] = 0
      /\ \A g \in Generations : g[2] = 0 => g \in Archived
  BY <1>1 DEF Archived, Generations
<1> QED BY <1>2, <1>3, <1>4, <1>5, <1>6, <1>7

\* What the statements make of a row.
LEMMA RowForms ==
    ASSUME NEW r \in Rows
    PROVE  /\ [r EXCEPT !.stale = TRUE] \in Rows /\ [r EXCEPT !.due = TRUE] \in Rows
           /\ \A p \in Procs :
                /\ [r EXCEPT !.state = "submitted", !.holder = p, !.stale = FALSE] \in Rows
                /\ [r EXCEPT !.holder = Gone] \in Rows
           /\ \A x \in Settled \cup {"degraded"} :
                /\ Closed(r, x) \in Rows /\ Closed(r, x).state = x
                /\ Closed(r, x).holder = None /\ Closed(r, x).attempts = r.attempts
<1>1. [r EXCEPT !.stale = TRUE] \in Rows BY DEF Rows
<1>2. [r EXCEPT !.due = TRUE] \in Rows BY DEF Rows
<1>3. ASSUME NEW p \in Procs
      PROVE  /\ [r EXCEPT !.state = "submitted", !.holder = p, !.stale = FALSE] \in Rows
             /\ [r EXCEPT !.holder = Gone] \in Rows
  <2>1. [r EXCEPT !.state = "submitted", !.holder = p, !.stale = FALSE] \in Rows BY DEF Rows
  <2>2. [r EXCEPT !.holder = Gone] \in Rows BY DEF Rows
  <2> QED BY <2>1, <2>2
<1>4. ASSUME NEW x \in Settled \cup {"degraded"}
      PROVE  /\ Closed(r, x) \in Rows /\ Closed(r, x).state = x
             /\ Closed(r, x).holder = None /\ Closed(r, x).attempts = r.attempts
  <2>1. [r EXCEPT !.state = x, !.holder = None, !.stale = FALSE] \in Rows BY DEF Rows
  <2>2. /\ Closed(r, x).state = x /\ Closed(r, x).holder = None
        /\ Closed(r, x).attempts = r.attempts
    BY DEF Closed, Rows
  <2> QED BY <2>1, <2>2 DEF Closed
<1> QED BY <1>1, <1>2, <1>3, <1>4

\* A row that is not touched, or only so as not to matter, stays sound.
LEMMA RowStaysSound ==
    ASSUME TypeOK, TypeOK', Grows, NEW g \in Generations, RowIsSound(g),
           row'[g].state = row[g].state, row'[g].attempts = row[g].attempts,
           row'[g].holder # None => row[g].holder # None
    PROVE  RowIsSound(g)'
<1>1. g[1] \in Bills /\ g[2] \in 0..MaxVersion BY ValuesTyped
<1>2. /\ misses[g] \in Nat /\ misses'[g] \in Nat /\ row[g].attempts \in Nat
      /\ upstream[g[1]] \in Nat /\ upstream'[g[1]] \in Nat
      /\ detail[g[1]].version \in Int /\ detail'[g[1]].version \in Int
      /\ g[2] \in Nat /\ UnknownLimit \in Nat /\ MaxVersion \in Nat
  BY <1>1, DocketAssumption DEF TypeOK, Rows, Details, Versions
<1> QED BY <1>1, <1>2 DEF Grows, RowIsSound

\* So does a job.
LEMMA JobStaysSound ==
    ASSUME TypeOK, TypeOK', Grows, NEW j \in Jobs, JobIsSound(j)
    PROVE  JobIsSound(j)'
<1>1. CASE j.pc = "free" BY <1>1 DEF JobIsSound
<1>2. CASE j.pc # "free"
  <2>1. j.gen \in Generations BY <1>2 DEF JobIsSound
  <2>2. j.gen[1] \in Bills /\ j.gen[2] \in 0..MaxVersion BY <2>1, ValuesTyped
  <2>3. /\ misses[j.gen] \in Nat /\ misses'[j.gen] \in Nat /\ j.prior \in Nat
        /\ upstream[j.gen[1]] \in Nat /\ upstream'[j.gen[1]] \in Nat
        /\ detail[j.gen[1]].version \in Int /\ detail'[j.gen[1]].version \in Int
        /\ j.gen[2] \in Nat /\ j.got \in Nat /\ MaxVersion \in Nat
    BY <2>1, <2>2, DocketAssumption DEF TypeOK, Details, Jobs, Versions
  <2> QED BY <1>2, <2>1, <2>2, <2>3 DEF Grows, JobIsSound
<1> QED BY <1>1, <1>2

\* A bill is as sound as before when nothing was stored and no new copy of it
\* is on its way.
LEMMA BillStaysSound ==
    ASSUME TypeOK, TypeOK', NEW b \in Bills, BillIsSound(b),
           upstream[b] <= upstream'[b],
           detail'[b] = detail[b], visit'[b] = visit[b], raced'[b] = raced[b],
           \A p \in Procs, s \in Slots :
               Caching(job'[p][s], b) => Caching(job[p][s], b) /\ job'[p][s].got = job[p][s].got
    PROVE  BillIsSound(b)'
<1>1. /\ upstream[b] \in Nat /\ upstream'[b] \in Nat /\ visit[b] \in Nat
      /\ detail[b].version \in Int
  BY DocketAssumption DEF TypeOK, Details, Versions
<1> QED BY <1>1 DEF BillIsSound, Caching

\* Only what a step changes has to be looked at.
LEMMA StepKeeps ==
    ASSUME IInv, TypeOK', Grows,
           \A g \in Generations : row'[g] = row[g] \/ RowIsSound(g)',
           \A p \in Procs, s \in Slots : job'[p][s] = job[p][s] \/ JobIsSound(job[p][s])',
           \A b \in Bills : BillIsSound(b)'
    PROVE  IInv'
<1>1. \A g \in Generations : RowIsSound(g)' BY RowStaysSound DEF IInv
<1>2. ASSUME NEW p \in Procs, NEW s \in Slots PROVE JobIsSound(job[p][s])'
  <2>1. CASE job'[p][s] = job[p][s]
    <3>1. job[p][s] \in Jobs BY DEF IInv, TypeOK
    <3>2. JobIsSound(job[p][s]) BY DEF IInv
    <3>3. PICK j \in Jobs : j = job[p][s] BY <3>1
    <3>4. JobIsSound(j) BY <3>2, <3>3
    <3>5. JobIsSound(j)' BY <3>4, JobStaysSound DEF IInv
    <3> QED BY <2>1, <3>3, <3>5 DEF JobIsSound
  <2> QED BY <2>1
<1> QED BY <1>1, <1>2 DEF IInv

\* One job moves.
Becomes(p, s, j) == job' = [job EXCEPT ![p][s] = j]

LEMMA JobMoves ==
    ASSUME TypeOK, NEW p \in Procs, NEW s \in Slots, NEW j \in Jobs,
           Becomes(p, s, j)
    PROVE  /\ job' \in [Procs -> [Slots -> Jobs]]
           /\ job'[p][s] = j
           /\ \A q \in Procs, t \in Slots : (q # p \/ t # s) => job'[q][t] = job[q][t]
<1>1. job \in [Procs -> [Slots -> Jobs]] BY DEF TypeOK
<1>2. [job[p] EXCEPT ![s] = j] \in [Slots -> Jobs] BY <1>1
<1>3. job' = [job EXCEPT ![p] = [job[p] EXCEPT ![s] = j]] BY <1>1 DEF Becomes
<1> QED BY <1>1, <1>2, <1>3

\* A step that stores and fetches nothing keeps the bills sound.
LEMMA BillsStaySound ==
    ASSUME IInv, TypeOK', \A b \in Bills : upstream[b] <= upstream'[b],
           UNCHANGED <<detail, visit, raced>>,
           \A p \in Procs, s \in Slots : job'[p][s] = job[p][s] \/ job'[p][s].pc # "cache"
    PROVE  \A b \in Bills : BillIsSound(b)'
<1> SUFFICES ASSUME NEW b \in Bills PROVE BillIsSound(b)' OBVIOUS
<1>1. \A p \in Procs, s \in Slots :
         Caching(job'[p][s], b) => Caching(job[p][s], b) /\ job'[p][s].got = job[p][s].got
  BY DEF Caching
<1> QED BY <1>1, BillStaysSound DEF IInv

\* Nothing shrinks where only rows and jobs change.
LEMMA NothingShrinks ==
    ASSUME TypeOK, UNCHANGED <<detail, raced>>,
           \A b \in Bills : upstream[b] <= upstream'[b],
           \A g \in Generations : misses[g] <= misses'[g],
           \A g \in Generations : row[g].state # "absent" => row'[g].state # "absent"
    PROVE  Grows
<1>1. \A b \in Bills : detail[b].version \in Int BY DEF TypeOK, Details
<1> QED BY <1>1 DEF Grows
-----------------------------------------------------------------------------
(* The sources *)

LEMMA ProviderStep ==
    ASSUME IInv, NEW b \in Bills, ProviderChanges(b)
    PROVE  IInv'
<1> USE DocketAssumption
<1>1. TypeOK' BY DEF IInv, TypeOK, ProviderChanges, Versions
<1>2. \A c \in Bills : upstream[c] <= upstream'[c]
  BY DEF IInv, TypeOK, ProviderChanges, Versions
<1>3. \A g \in Generations : misses[g] \in Nat BY DEF IInv, TypeOK
<1>4. Grows BY <1>2, <1>3, NothingShrinks DEF IInv, ProviderChanges
<1>5. \A c \in Bills : BillIsSound(c)' BY <1>1, <1>2, BillsStaySound DEF ProviderChanges
<1> QED BY <1>1, <1>4, <1>5, StepKeeps DEF ProviderChanges

LEMMA ObserveStep ==
    ASSUME IInv, NEW b \in Bills, NEW v \in Versions, Observe(b, v)
    PROVE  IInv'
<1> USE DocketAssumption
<1>0. /\ TypeOK /\ <<b, v>> \in Generations /\ v \in Nat /\ v # 0
      /\ <<b, v>>[1] = b /\ <<b, v>>[2] = v
  BY ValuesTyped DEF IInv, Versions
<1>1. TypeOK'
  <2>1. faults' \in 0..MaxFaults BY DEF Observe, Fault, IInv, TypeOK
  <2>2. current' \in [Bills -> 0..MaxVersion] BY <1>0 DEF Observe, TypeOK, Versions
  <2>3. row' \in [Generations -> Rows] BY <1>0, ValuesTyped DEF Observe, TypeOK
  <2> QED BY <2>1, <2>2, <2>3 DEF Observe, IInv, TypeOK
<1>2. /\ \A c \in Bills : upstream[c] <= upstream'[c]
      /\ \A g \in Generations : misses[g] <= misses'[g]
  BY DEF IInv, TypeOK, Observe, Versions
<1>3. row'[<<b, v>>] = Eligible \/ row'[<<b, v>>] = row[<<b, v>>] BY <1>0 DEF Observe, TypeOK
<1>4. \A g \in Generations : g # <<b, v>> => row'[g] = row[g] BY <1>0 DEF Observe, TypeOK
<1>5. Grows BY <1>0, <1>2, <1>3, <1>4, NothingShrinks DEF Observe, Eligible, Absent
<1>6. \A c \in Bills : BillIsSound(c)' BY <1>1, <1>2, BillsStaySound DEF Observe
<1>7. ASSUME row'[<<b, v>>] = Eligible PROVE RowIsSound(<<b, v>>)'
  <2>1. v <= upstream'[b] BY DEF Observe
  <2>2. misses'[<<b, v>>] \in Nat BY <1>0, <1>1 DEF TypeOK
  <2> QED BY <1>0, <1>7, <2>1, <2>2 DEF RowIsSound, Eligible, Absent
<1>8. \A g \in Generations : row'[g] = row[g] \/ RowIsSound(g)' BY <1>3, <1>4, <1>7
<1> QED BY <1>1, <1>5, <1>6, <1>8, StepKeeps DEF Observe

LEMMA ImportStep ==
    ASSUME IInv, NEW b \in Bills, Import(b)
    PROVE  IInv'
<1> USE DocketAssumption
<1> DEFINE new == ArchiveDetail
<1>0. /\ TypeOK /\ <<b, 0>> \in Generations /\ <<b, 0>>[1] = b /\ <<b, 0>>[2] = 0
      /\ new \in Details
  BY ValuesTyped DEF IInv, Details, ArchiveDetail
<1>1. TypeOK'
  <2>1. row' \in [Generations -> Rows] BY <1>0, ValuesTyped DEF Import, TypeOK
  <2>2. detail' \in [Bills -> Details] BY <1>0 DEF Import, TypeOK
  <2> QED BY <1>0, <2>1, <2>2 DEF Import, TypeOK
<1>2. /\ detail'[b].source = "archive" /\ detail'[b].version = 0
      /\ row'[<<b, 0>>] \in {row[<<b, 0>>], Eligible}
  BY <1>0 DEF Import, TypeOK, ArchiveDetail
<1>3. \A c \in Bills : c # b => detail'[c] = detail[c] BY <1>0 DEF Import, TypeOK
<1>4. \A g \in Generations : g # <<b, 0>> => row'[g] = row[g] BY <1>0 DEF Import, TypeOK
<1>5. detail[b].version = -1 BY DEF Import, NoDetail
<1>6. Grows
  <2>1. \A c \in Bills : detail[c].version \in Int /\ upstream[c] \in Nat
    BY <1>0 DEF TypeOK, Details, Versions
  <2>2. \A g \in Generations : misses[g] \in Nat BY <1>0 DEF TypeOK
  <2> QED BY <1>2, <1>3, <1>4, <1>5, <2>1, <2>2 DEF Grows, Import, Eligible, Absent
<1>7. ASSUME NEW c \in Bills PROVE BillIsSound(c)'
  <2>1. CASE c # b
    <3>1. upstream[c] <= upstream'[c] BY <1>0 DEF Import, TypeOK, Versions
    <3> QED BY <1>0, <1>1, <1>3, <2>1, <3>1, BillStaysSound DEF IInv, Import
  <2>2. CASE c = b
    <3>1. /\ upstream[b] \in Nat \ {0} /\ visit[b] \in Nat /\ BillIsSound(b)
          /\ \A p \in Procs, s \in Slots : JobIsSound(job[p][s])
      BY <1>0 DEF IInv, TypeOK, Versions
    <3>2. visit'[b] > 0 => 0 <= visit'[b] BY <3>1 DEF Import
    <3>3. \A p \in Procs, s \in Slots : Caching(job[p][s], b) => 0 <= job[p][s].got
      BY <1>0 DEF TypeOK, Jobs
    <3> QED BY <1>2, <1>5, <2>2, <3>1, <3>2, <3>3 DEF BillIsSound, Import, Caching
  <2> QED BY <2>1, <2>2
<1>8. row'[<<b, 0>>] = Eligible => RowIsSound(<<b, 0>>)'
  <2>1. misses'[<<b, 0>>] \in Nat /\ upstream'[b] \in Nat BY <1>0, <1>1 DEF TypeOK, Versions
  <2> QED BY <1>0, <1>2, <2>1 DEF RowIsSound, Eligible, Absent
<1>9. \A g \in Generations : row'[g] = row[g] \/ RowIsSound(g)' BY <1>2, <1>4, <1>8
<1> QED BY <1>1, <1>6, <1>7, <1>9, StepKeeps DEF Import

LEMMA VisitStep ==
    ASSUME IInv, NEW b \in Bills, Visit(b)
    PROVE  IInv'
<1> USE DocketAssumption
<1>0. TypeOK BY DEF IInv
<1>1. TypeOK'
  <2>1. visit' \in [Bills -> 0..MaxVersion] BY <1>0 DEF Visit, TypeOK, Versions
  <2>2. raced' \in [Bills -> BOOLEAN]
    <3>1. (raced[b] \/ Fetching(b)) \in BOOLEAN BY DEF Fetching
    <3> QED BY <1>0, <3>1 DEF Visit, TypeOK
  <2> QED BY <1>0, <2>1, <2>2 DEF Visit, TypeOK
<1>2. /\ visit'[b] = upstream[b] /\ raced'[b] = (raced[b] \/ Fetching(b))
      /\ \A c \in Bills : c # b => visit'[c] = visit[c] /\ raced'[c] = raced[c]
  BY <1>0 DEF Visit, TypeOK
<1>3. Grows
  <2>1. \A c \in Bills : detail[c].version \in Int /\ upstream[c] \in Nat
    BY <1>0 DEF TypeOK, Details, Versions
  <2>2. \A g \in Generations : misses[g] \in Nat BY <1>0 DEF TypeOK
  <2>3. \A c \in Bills : raced[c] => raced'[c] BY <1>2
  <2> QED BY <2>1, <2>2, <2>3 DEF Grows, Visit
<1>4. ASSUME NEW c \in Bills PROVE BillIsSound(c)'
  <2>1. CASE c # b
    <3>1. upstream[c] <= upstream'[c] BY <1>0 DEF Visit, TypeOK, Versions
    <3> QED BY <1>0, <1>1, <1>2, <2>1, <3>1, BillStaysSound DEF IInv, Visit
  <2>2. CASE c = b
    <3>1. /\ upstream[b] \in Nat \ {0} /\ visit[b] \in Nat /\ BillIsSound(b)
          /\ detail[b].version \in Int
      BY <1>0 DEF IInv, TypeOK, Versions, Details
    <3>2. ~raced'[b] => \A p \in Procs, s \in Slots : ~Caching(job[p][s], b)
      BY <1>2 DEF Fetching, Caching
    <3> QED BY <1>2, <2>2, <3>1, <3>2 DEF BillIsSound, Visit
  <2> QED BY <2>1, <2>2
<1> QED BY <1>1, <1>3, <1>4, StepKeeps DEF Visit

LEMMA EndVisitStep ==
    ASSUME IInv, NEW b \in Bills, EndVisit(b)
    PROVE  IInv'
<1> USE DocketAssumption
<1> DEFINE new == [source |-> "live", version |-> visit[b]]
<1>0. TypeOK /\ new \in Details
  <2>1. visit[b] \in -1..MaxVersion BY DEF IInv, TypeOK
  <2> QED BY <2>1 DEF IInv, Details
<1>1. TypeOK'
  <2>1. visit' \in [Bills -> 0..MaxVersion] BY <1>0 DEF EndVisit, TypeOK
  <2>2. detail' \in [Bills -> Details] BY <1>0 DEF EndVisit, Store, TypeOK
  <2> QED BY <1>0, <2>1, <2>2 DEF EndVisit, TypeOK
<1>2. /\ visit[b] > 0 /\ visit'[b] = 0 /\ detail'[b] \in {detail[b], new}
      /\ \A c \in Bills : c # b => visit'[c] = visit[c] /\ detail'[c] = detail[c]
  BY <1>0 DEF EndVisit, Store, TypeOK
<1>3. /\ upstream[b] \in Nat \ {0} /\ visit[b] \in Nat /\ BillIsSound(b)
      /\ detail[b].version \in Int
  BY <1>0 DEF IInv, TypeOK, Versions, Details
<1>4. ~raced[b] => detail[b].version <= visit[b] BY <1>2, <1>3 DEF BillIsSound
<1>5. detail'[b].version \in {detail[b].version, visit[b]} BY <1>2
<1>6. Grows
  <2>1. \A c \in Bills : detail[c].version \in Int /\ upstream[c] \in Nat
    BY <1>0 DEF TypeOK, Details, Versions
  <2>2. \A g \in Generations : misses[g] \in Nat BY <1>0 DEF TypeOK
  <2>3. \A c \in Bills : ~raced[c] => detail[c].version <= detail'[c].version
    BY <1>2, <1>3, <1>4, <1>5, <2>1
  <2>4. \A c \in Bills : detail[c].version >= 0 => detail'[c].version >= 0
    BY <1>2, <1>3, <1>5, <2>1
  <2> QED BY <2>1, <2>2, <2>3, <2>4 DEF Grows, EndVisit
<1>7. ASSUME NEW c \in Bills PROVE BillIsSound(c)'
  <2>1. CASE c # b
    <3>1. upstream[c] <= upstream'[c] BY <1>0 DEF EndVisit, TypeOK, Versions
    <3> QED BY <1>0, <1>1, <1>2, <2>1, <3>1, BillStaysSound DEF IInv, EndVisit
  <2>2. CASE c = b
    <3>1. ~raced[b] => \A p \in Procs, s \in Slots : ~Caching(job[p][s], b)
      BY <1>2, <1>3 DEF BillIsSound
    <3>2. detail'[b].version <= upstream[b] BY <1>3, <1>5 DEF BillIsSound
    <3>3. detail'[b].version = -1 <=> detail'[b].source = "none"
      BY <1>2, <1>3 DEF BillIsSound
    <3> QED BY <1>2, <1>3, <2>2, <3>1, <3>2, <3>3 DEF BillIsSound, EndVisit
  <2> QED BY <2>1, <2>2
<1> QED BY <1>1, <1>6, <1>7, StepKeeps DEF EndVisit
-----------------------------------------------------------------------------
(* Claims and time *)

LEMMA LeaseEndsStep ==
    ASSUME IInv, NEW g \in Generations, LeaseEnds(g)
    PROVE  IInv'
<1> USE DocketAssumption
<1>0. TypeOK BY DEF IInv
<1>1. row' = [row EXCEPT ![g] = [row[g] EXCEPT !.stale = TRUE]] BY <1>0 DEF LeaseEnds, TypeOK
<1>2. [row[g] EXCEPT !.stale = TRUE] \in Rows BY <1>0, RowForms DEF TypeOK
<1>3. TypeOK'
  <2>1. row' \in [Generations -> Rows] BY <1>0, <1>1, <1>2 DEF TypeOK
  <2>2. faults' \in 0..MaxFaults BY <1>0 DEF LeaseEnds, Fault, TypeOK
  <2> QED BY <1>0, <2>1, <2>2 DEF LeaseEnds, TypeOK
<1>4. \A h \in Generations :
        /\ row'[h].state = row[h].state /\ row'[h].attempts = row[h].attempts
        /\ row'[h].holder = row[h].holder
  BY <1>0, <1>1 DEF TypeOK, Rows
<1>5. /\ \A b \in Bills : upstream[b] <= upstream'[b]
      /\ \A h \in Generations : misses[h] <= misses'[h]
  BY <1>0 DEF TypeOK, LeaseEnds, Versions
<1>6. Grows BY <1>0, <1>4, <1>5, NothingShrinks DEF LeaseEnds
<1>7. \A h \in Generations : RowIsSound(h)' BY <1>0, <1>3, <1>4, <1>6, RowStaysSound DEF IInv
<1>8. \A b \in Bills : BillIsSound(b)' BY <1>3, <1>5, BillsStaySound DEF LeaseEnds
<1> QED BY <1>3, <1>6, <1>7, <1>8, StepKeeps DEF LeaseEnds

LEMMA RetryDueStep ==
    ASSUME IInv, NEW g \in Generations, RetryDue(g)
    PROVE  IInv'
<1> USE DocketAssumption
<1>0. TypeOK BY DEF IInv
<1>1. row' = [row EXCEPT ![g] = [row[g] EXCEPT !.due = TRUE]] BY <1>0 DEF RetryDue, TypeOK
<1>2. [row[g] EXCEPT !.due = TRUE] \in Rows BY <1>0, RowForms DEF TypeOK
<1>3. TypeOK'
  <2>1. row' \in [Generations -> Rows] BY <1>0, <1>1, <1>2 DEF TypeOK
  <2> QED BY <1>0, <2>1 DEF RetryDue, TypeOK
<1>4. \A h \in Generations :
        /\ row'[h].state = row[h].state /\ row'[h].attempts = row[h].attempts
        /\ row'[h].holder = row[h].holder
  BY <1>0, <1>1 DEF TypeOK, Rows
<1>5. /\ \A b \in Bills : upstream[b] <= upstream'[b]
      /\ \A h \in Generations : misses[h] <= misses'[h]
  BY <1>0 DEF TypeOK, RetryDue, Versions
<1>6. Grows BY <1>0, <1>4, <1>5, NothingShrinks DEF RetryDue
<1>7. \A h \in Generations : RowIsSound(h)' BY <1>0, <1>3, <1>4, <1>6, RowStaysSound DEF IInv
<1>8. \A b \in Bills : BillIsSound(b)' BY <1>3, <1>5, BillsStaySound DEF RetryDue
<1> QED BY <1>3, <1>6, <1>7, <1>8, StepKeeps DEF RetryDue

LEMMA CrashStep ==
    ASSUME IInv, NEW p \in Procs, Crash(p)
    PROVE  IInv'
<1> USE DocketAssumption
<1>0. TypeOK BY DEF IInv
<1>1. ASSUME NEW g \in Generations
      PROVE  /\ row'[g] \in Rows /\ row'[g].state = row[g].state
             /\ row'[g].attempts = row[g].attempts
             /\ row'[g].holder # None => row[g].holder # None
  <2>1. CASE row[g].holder = p
    <3>1. row'[g] = [row[g] EXCEPT !.holder = Gone] BY <2>1 DEF Crash
    <3>2. row[g] \in Rows BY <1>0 DEF TypeOK
    <3> QED BY <2>1, <3>1, <3>2 DEF Rows
  <2>2. CASE row[g].holder # p
    <3>1. row'[g] = row[g] BY <2>2 DEF Crash
    <3> QED BY <1>0, <3>1 DEF TypeOK
  <2> QED BY <2>1, <2>2
<1>2. TypeOK'
  <2>1. row' \in [Generations -> Rows] BY <1>1 DEF Crash
  <2>2. [s \in Slots |-> Free] \in [Slots -> Jobs] BY ValuesTyped
  <2>3. job' \in [Procs -> [Slots -> Jobs]] BY <1>0, <2>2 DEF Crash, TypeOK
  <2>4. cycle' \in [Procs -> SUBSET Slots] BY <1>0 DEF Crash, TypeOK
  <2>5. faults' \in 0..MaxFaults BY <1>0 DEF Crash, Fault, TypeOK
  <2> QED BY <1>0, <2>1, <2>3, <2>4, <2>5 DEF Crash, TypeOK
<1>3. \A q \in Procs, s \in Slots : job'[q][s] = job[q][s] \/ job'[q][s] = Free
  BY <1>0 DEF Crash, TypeOK
<1>4. /\ \A b \in Bills : upstream[b] <= upstream'[b]
      /\ \A h \in Generations : misses[h] <= misses'[h]
  BY <1>0 DEF TypeOK, Crash, Versions
<1>5. Grows BY <1>0, <1>1, <1>4, NothingShrinks DEF Crash
<1>6. \A h \in Generations : RowIsSound(h)' BY <1>0, <1>1, <1>2, <1>5, RowStaysSound DEF IInv
<1>7. \A b \in Bills : BillIsSound(b)' BY <1>2, <1>3, <1>4, BillsStaySound DEF Crash, Free
<1>8. \A q \in Procs, s \in Slots : job'[q][s] = job[q][s] \/ JobIsSound(job[q][s])'
  BY <1>3 DEF JobIsSound, Free
<1> QED BY <1>2, <1>5, <1>6, <1>7, <1>8, StepKeeps

\* What a claim makes of the rows.
LEMMA ClaimedRows ==
    ASSUME IInv, NEW p \in Procs, NEW gens \in Batches(p), Claim(p, gens)
    PROVE  /\ gens \subseteq Generations /\ \A g \in gens : Claimable(p, g)
           /\ row' \in [Generations -> Rows]
           /\ \A g \in gens : /\ row[g].state \in {"eligible", "degraded", "submitted"}
                              /\ row'[g].state = "submitted"
                              /\ row'[g].attempts = row[g].attempts
           /\ \A g \in Generations \ gens :
                \/ row'[g] = row[g]
                \/ /\ g \in Superseded(p)
                   /\ row'[g] = Closed(row[g], "completed")
<1> USE DocketAssumption
<1>1. /\ TypeOK /\ gens \subseteq Generations /\ \A g \in gens : Claimable(p, g)
      /\ Superseded(p) \subseteq Generations
  BY ValuesTyped DEF IInv, Batches, Superseded
<1>2. ASSUME NEW g \in Generations
      PROVE  /\ row'[g] \in Rows
             /\ g \in gens => /\ row'[g].state = "submitted"
                              /\ row'[g].attempts = row[g].attempts
             /\ g \notin gens =>
                  \/ row'[g] = row[g]
                  \/ g \in Superseded(p) /\ row'[g] = Closed(row[g], "completed")
  <2>1. row[g] \in Rows BY <1>1 DEF TypeOK
  <2>2. CASE g \in gens
    <3>1. row'[g] = [row[g] EXCEPT !.state = "submitted", !.holder = p, !.stale = FALSE]
      BY <2>2 DEF Claim, Leased
    <3>2. row'[g] \in Rows
      <4>1. [row[g] EXCEPT !.state = "submitted", !.holder = p, !.stale = FALSE] \in Rows
        BY <2>1, RowForms
      <4> QED BY <3>1, <4>1
    <3>3. row'[g].state = "submitted" /\ row'[g].attempts = row[g].attempts
      BY <2>1, <3>1 DEF Rows
    <3> QED BY <2>2, <3>2, <3>3
  <2>3. CASE g \notin gens /\ g \in Superseded(p)
    <3>1. row'[g] = Closed(row[g], "completed") BY <2>3 DEF Claim, Leased
    <3>2. Closed(row[g], "completed") \in Rows BY <2>1, RowForms DEF Settled
    <3> QED BY <2>3, <3>1, <3>2
  <2>4. CASE g \notin gens /\ g \notin Superseded(p)
    <3>1. row'[g] = row[g] BY <2>4 DEF Claim, Leased
    <3> QED BY <2>1, <2>4, <3>1
  <2> QED BY <2>2, <2>3, <2>4
<1>3. row' \in [Generations -> Rows] BY <1>2 DEF Claim, Leased
<1>4. \A g \in gens : row[g].state \in {"eligible", "degraded", "submitted"}
  BY <1>1 DEF Claimable, Waiting
<1> QED BY <1>1, <1>2, <1>3, <1>4

LEMMA ClaimKeepsRows ==
    ASSUME IInv, TypeOK', Grows, NEW p \in Procs, NEW gens \in Batches(p), Claim(p, gens)
    PROVE  \A g \in Generations : RowIsSound(g)'
<1> USE DocketAssumption
<1> SUFFICES ASSUME NEW g \in Generations PROVE RowIsSound(g)' OBVIOUS
<1>0. /\ TypeOK /\ RowIsSound(g) /\ g[1] \in Bills /\ g[2] \in Nat
  BY ValuesTyped DEF IInv
<1>1. /\ upstream' = upstream /\ detail' = detail /\ raced' = raced /\ misses' = misses
      /\ misses[g] \in Nat /\ row[g].attempts \in Nat
  BY <1>0 DEF Claim, TypeOK, Rows
<1>2. CASE g \in gens
  <2>1. /\ row[g].state \in {"eligible", "degraded", "submitted"}
        /\ row'[g].state = "submitted" /\ row'[g].attempts = row[g].attempts
    BY <1>2, ClaimedRows
  <2> QED BY <1>0, <1>1, <2>1 DEF RowIsSound
<1>3. CASE g \notin gens /\ row'[g] = row[g]
  BY <1>0, <1>3, RowStaysSound
<1>4. CASE g \in Superseded(p) /\ row'[g] = Closed(row[g], "completed")
  <2>1. g[2] = 0 /\ detail[g[1]].source = "live" /\ Waiting(g)
    BY <1>4, ValuesTyped DEF Superseded
  <2>2. row[g] \in Rows /\ detail[g[1]] \in Details /\ BillIsSound(g[1])
    BY <1>0 DEF TypeOK, IInv
  <2>3. row'[g].state = "completed" /\ row'[g].holder = None
    BY <1>4, <2>2 DEF Closed, Rows
  <2>4. row[g].state # "absent" BY <2>1 DEF Waiting
  <2>5. detail[g[1]].version >= 0 BY <2>1, <2>2 DEF BillIsSound, Details
  <2> QED BY <1>0, <1>1, <2>1, <2>3, <2>4, <2>5 DEF RowIsSound
<1> QED BY <1>2, <1>3, <1>4, ClaimedRows

LEMMA ClaimGrows ==
    ASSUME IInv, NEW p \in Procs, NEW gens \in Batches(p), Claim(p, gens)
    PROVE  Grows
<1> USE DocketAssumption
<1>0. TypeOK BY DEF IInv
<1>1. ASSUME NEW g \in Generations, row[g].state # "absent" PROVE row'[g].state # "absent"
  <2>1. row[g] \in Rows BY <1>0 DEF TypeOK
  <2>2. Closed(row[g], "completed").state = "completed" BY <2>1, RowForms DEF Settled
  <2> QED BY <1>0, <1>1, <2>2, ClaimedRows
<1>2. /\ \A b \in Bills : upstream[b] <= upstream'[b]
      /\ \A h \in Generations : misses[h] <= misses'[h]
  BY <1>0 DEF TypeOK, Claim, Versions
<1> QED BY <1>0, <1>1, <1>2, NothingShrinks DEF Claim

LEMMA LostClaimStep ==
    ASSUME IInv, NEW p \in Procs, NEW gens \in Batches(p), LostClaim(p, gens)
    PROVE  IInv'
<1> USE DocketAssumption
<1>0. TypeOK /\ Claim(p, gens) BY DEF IInv, LostClaim
<1>1. row' \in [Generations -> Rows] BY <1>0, ClaimedRows
<1>2. faults' \in 0..MaxFaults BY <1>0 DEF LostClaim, Fault, TypeOK
<1>3. TypeOK' BY <1>0, <1>1, <1>2 DEF LostClaim, Claim, TypeOK
<1>4. Grows BY <1>0, ClaimGrows
<1>5. \A g \in Generations : RowIsSound(g)' BY <1>0, <1>3, <1>4, ClaimKeepsRows
<1>6. \A b \in Bills : upstream[b] <= upstream'[b] BY <1>4 DEF Grows
<1>7. \A b \in Bills : BillIsSound(b)'
  BY <1>0, <1>3, <1>6, BillsStaySound DEF LostClaim, Claim
<1> QED BY <1>3, <1>4, <1>5, <1>7, StepKeeps DEF LostClaim

LEMMA StartStep ==
    ASSUME IInv, NEW p \in Procs, NEW gens \in Batches(p), Start(p, gens)
    PROVE  IInv'
<1> USE DocketAssumption
<1> DEFINE slot == CHOOSE f \in Placements(p, gens) : TRUE
<1>0. TypeOK /\ Claim(p, gens) /\ gens \subseteq Generations
  BY ClaimedRows DEF IInv, Start
<1>1. row' \in [Generations -> Rows] BY <1>0, ClaimedRows
<1>2. slot \in [gens -> FreeSlots(p)] BY DEF Start, Placements
<1>3. {slot[g] : g \in gens} \in SUBSET Slots BY <1>2 DEF FreeSlots
<1>4. ASSUME NEW g \in gens
      PROVE  Begun(g) \in Jobs /\ \A j \in Jobs : j = Begun(g) => JobIsSound(j)'
  <2>1. g \in Generations /\ row[g] \in Rows /\ misses[g] \in Nat
    BY <1>0 DEF TypeOK
  <2>2. Begun(g) \in Jobs
    <3>1. row[g].attempts \in Nat BY <2>1 DEF Rows
    <3> QED BY <2>1, <3>1 DEF Begun, Jobs
  <2>3. /\ Begun(g).gen = g /\ Begun(g).prior = row[g].attempts
        /\ Begun(g).pc = IF g \in Archived THEN "archive" ELSE "project"
    BY DEF Begun
  <2>4. row[g].state \in {"eligible", "degraded", "submitted"} /\ row'[g].state = "submitted"
    BY <1>0, ClaimedRows
  <2>5. row[g].attempts <= misses[g] BY <2>1, <2>4 DEF IInv, RowIsSound
  <2>6. g \in Archived => g[2] = 0 BY ValuesTyped
  <2>7. ASSUME NEW j \in Jobs, j = Begun(g) PROVE JobIsSound(j)'
    <3>1. /\ j.gen = g /\ j.prior <= misses'[g]
          /\ j.pc = IF g \in Archived THEN "archive" ELSE "project"
      BY <2>3, <2>5, <2>7, <1>0 DEF Claim
    <3> QED BY <2>1, <2>4, <2>6, <3>1 DEF JobIsSound
  <2> QED BY <2>2, <2>7
<1>5. ASSUME NEW q \in Procs, NEW s \in Slots
      PROVE  \/ job'[q][s] = job[q][s]
             \/ \E g \in gens : job'[q][s] = Begun(g)
  <2>1. CASE q = p
    <3>1. job'[p][s] = IF \E g \in gens : slot[g] = s
                       THEN Begun(CHOOSE g \in gens : slot[g] = s) ELSE job[p][s]
      BY <1>0 DEF Start, TypeOK
    <3>2. CASE \E g \in gens : slot[g] = s
      <4>1. (CHOOSE g \in gens : slot[g] = s) \in gens BY <3>2
      <4> HIDE DEF slot
      <4> QED BY <2>1, <3>1, <3>2, <4>1
    <3>3. CASE ~\E g \in gens : slot[g] = s
      <4> HIDE DEF slot
      <4> QED BY <2>1, <3>1, <3>3
    <3> QED BY <3>2, <3>3
  <2>2. CASE q # p BY <1>0, <2>2 DEF Start, TypeOK
  <2> QED BY <2>1, <2>2
<1> HIDE DEF slot
<1>6. TypeOK'
  <2>1. job' \in [Procs -> [Slots -> Jobs]]
    <3>1. job \in [Procs -> [Slots -> Jobs]] BY <1>0 DEF TypeOK
    <3>2. \A q \in Procs, s \in Slots : job'[q][s] \in Jobs BY <1>4, <1>5, <3>1
    <3> DEFINE own == [s \in Slots |-> IF \E g \in gens : slot[g] = s
                                      THEN Begun(CHOOSE g \in gens : slot[g] = s) ELSE job[p][s]]
    <3>3. job' = [job EXCEPT ![p] = own] BY DEF Start, slot
    <3> HIDE DEF own
    <3>4. job'[p] = own BY <3>1, <3>3
    <3>5. own \in [Slots -> Jobs]
      <4>1. \A s \in Slots : own[s] \in Jobs BY <3>2, <3>4
      <4> QED BY <4>1 DEF own
    <3> QED BY <3>1, <3>3, <3>5
  <2>2. cycle' \in [Procs -> SUBSET Slots]
    <3>1. cycle' = [cycle EXCEPT ![p] = {slot[g] : g \in gens}] BY DEF Start, slot
    <3> QED BY <1>0, <1>3, <3>1 DEF TypeOK
  <2> QED BY <1>0, <1>1, <2>1, <2>2 DEF Start, Claim, TypeOK
<1>7. Grows BY <1>0, ClaimGrows
<1>8. \A g \in Generations : RowIsSound(g)' BY <1>0, <1>6, <1>7, ClaimKeepsRows
<1>9. ASSUME NEW q \in Procs, NEW s \in Slots
      PROVE  /\ job'[q][s] = job[q][s] \/ JobIsSound(job[q][s])'
             /\ job'[q][s] = job[q][s] \/ job'[q][s].pc # "cache"
  <2>1. CASE job'[q][s] = job[q][s] BY <2>1
  <2>2. CASE \E g \in gens : job'[q][s] = Begun(g)
    <3>1. PICK g \in gens : job'[q][s] = Begun(g) BY <2>2
    <3>2. PICK j \in Jobs : j = Begun(g) BY <1>4
    <3>3. JobIsSound(j)' BY <1>4, <3>2
    <3>4. j.pc # "cache" BY <3>2 DEF Begun
    <3> QED BY <3>1, <3>2, <3>3, <3>4 DEF JobIsSound
  <2> QED BY <1>5, <2>1, <2>2
<1>10. \A b \in Bills : upstream[b] <= upstream'[b] BY <1>7 DEF Grows
<1>11. \A b \in Bills : BillIsSound(b)' BY <1>0, <1>6, <1>9, <1>10, BillsStaySound DEF Claim
<1> QED BY <1>6, <1>7, <1>8, <1>9, <1>11, StepKeeps
-----------------------------------------------------------------------------
(* Jobs *)

\* A step of a job that leaves rows, copies and failures alone.
LEMMA JobStepKeeps ==
    ASSUME IInv, NEW p \in Procs, NEW s \in Slots, NEW j \in Jobs,
           Becomes(p, s, j), j.pc # "cache",
           JobIsSound(j), faults' \in 0..MaxFaults,
           UNCHANGED <<upstream, current, row, detail, cycle, visit, raced, misses>>
    PROVE  IInv'
<1> USE DocketAssumption
<1>0. TypeOK BY DEF IInv
<1>1. /\ job' \in [Procs -> [Slots -> Jobs]]
      /\ job'[p][s] = j
      /\ \A q \in Procs, t \in Slots : (q # p \/ t # s) => job'[q][t] = job[q][t]
  BY <1>0, JobMoves
<1>2. TypeOK' BY <1>0, <1>1 DEF TypeOK
<1>3. /\ \A b \in Bills : upstream[b] <= upstream'[b]
      /\ \A g \in Generations : misses[g] <= misses'[g]
  BY <1>0 DEF TypeOK, Versions
<1>4. Grows BY <1>0, <1>3, NothingShrinks
<1>5. \A q \in Procs, t \in Slots : job'[q][t] = job[q][t] \/ job'[q][t].pc # "cache"
  BY <1>1
<1>6. \A b \in Bills : BillIsSound(b)' BY <1>2, <1>3, <1>5, BillsStaySound
<1>7. JobIsSound(j)' BY <1>0, <1>2, <1>4, JobStaysSound
<1>8. \A q \in Procs, t \in Slots : job'[q][t] = job[q][t] \/ JobIsSound(job[q][t])'
  BY <1>1, <1>7 DEF JobIsSound
<1> QED BY <1>2, <1>4, <1>6, <1>8, StepKeeps

\* The two ways most steps end.
LEMMA JobForms ==
    ASSUME TypeOK, NEW p \in Procs, NEW s \in Slots
    PROVE  /\ \A pc \in {"register", "finish", "cache"} : Goto(p, s, pc) =>
                \E j \in Jobs : /\ Becomes(p, s, j)
                              /\ j = [job[p][s] EXCEPT !.pc = pc]
                              /\ j.pc = pc /\ j.gen = job[p][s].gen /\ j.prior = job[p][s].prior
           /\ \A class \in {"provider", "unknown", "deterministic"} : Throw(p, s, class) =>
                \E j \in Jobs : /\ Becomes(p, s, j)
                              /\ j.pc = "fail" /\ j.gen = job[p][s].gen
                              /\ j.prior = job[p][s].prior
<1>1. job \in [Procs -> [Slots -> Jobs]] BY DEF TypeOK
<1>2. PICK i \in Jobs : i = job[p][s] BY <1>1
<1>3. ASSUME NEW pc \in {"register", "finish", "cache"}, Goto(p, s, pc)
      PROVE  \E j \in Jobs : /\ Becomes(p, s, j)
                            /\ j = [job[p][s] EXCEPT !.pc = pc]
                            /\ j.pc = pc /\ j.gen = job[p][s].gen /\ j.prior = job[p][s].prior
  <2>1. [i EXCEPT !.pc = pc] \in Jobs BY DEF Jobs
  <2>2. Becomes(p, s, [i EXCEPT !.pc = pc]) BY <1>1, <1>2, <1>3 DEF Goto, Becomes
  <2>3. /\ [i EXCEPT !.pc = pc].pc = pc /\ [i EXCEPT !.pc = pc].gen = i.gen
        /\ [i EXCEPT !.pc = pc].prior = i.prior
    BY DEF Jobs
  <2> QED BY <1>2, <2>1, <2>2, <2>3
<1>4. ASSUME NEW class \in {"provider", "unknown", "deterministic"}, Throw(p, s, class)
      PROVE  \E j \in Jobs : /\ Becomes(p, s, j)
                            /\ j.pc = "fail" /\ j.gen = job[p][s].gen
                            /\ j.prior = job[p][s].prior
  <2> DEFINE new == [i EXCEPT !.pc = "fail", !.got = 0, !.err = class]
  <2>1. new \in Jobs
    <3>1. 0 \in 0..MaxVersion BY DocketAssumption
    <3> QED BY <3>1 DEF Jobs
  <2>2. Becomes(p, s, new) BY <1>1, <1>2, <1>4 DEF Throw, Becomes
  <2>3. new.pc = "fail" /\ new.gen = i.gen /\ new.prior = i.prior BY DEF Jobs
  <2> QED BY <1>2, <2>1, <2>2, <2>3
<1> QED BY <1>3, <1>4

LEMMA FailIsSound ==
    ASSUME IInv, NEW p \in Procs, NEW s \in Slots, job[p][s].pc # "free",
           NEW j \in Jobs, j.pc \in {"fail", "finish"}, j.gen = job[p][s].gen, j.prior = job[p][s].prior,
           j.pc = "finish" => job[p][s].pc = "register"
    PROVE  JobIsSound(j)
<1>1. JobIsSound(job[p][s]) BY DEF IInv
<1> QED BY <1>1 DEF JobIsSound

LEMMA FaultTyped == ASSUME TypeOK, UNCHANGED faults \/ Fault PROVE faults' \in 0..MaxFaults
BY DocketAssumption DEF TypeOK, Fault

LEMMA ReadArchiveStep ==
    ASSUME IInv, NEW p \in Procs, NEW s \in Slots, ReadArchive(p, s)
    PROVE  IInv'
<1> USE DocketAssumption
<1>0. /\ TypeOK /\ job[p][s].pc = "archive" /\ JobIsSound(job[p][s])
      /\ faults' \in 0..MaxFaults
  BY FaultTyped DEF IInv, ReadArchive
<1>1. CASE Throw(p, s, "unknown")
  <2>1. PICK j \in Jobs : /\ Becomes(p, s, j) /\ j.pc = "fail"
                          /\ j.gen = job[p][s].gen /\ j.prior = job[p][s].prior
    BY <1>0, <1>1, JobForms
  <2>2. JobIsSound(j) BY <1>0, <2>1, FailIsSound
  <2> QED BY <1>0, <2>1, <2>2, JobStepKeeps DEF ReadArchive
<1>2. CASE detail[job[p][s].gen[1]].source = "archive" /\ Goto(p, s, "register")
  <2>1. PICK j \in Jobs : /\ Becomes(p, s, j) /\ j.pc = "register"
                          /\ j.gen = job[p][s].gen /\ j.prior = job[p][s].prior
    BY <1>0, <1>2, JobForms
  <2>2. JobIsSound(j)
    <3>1. j.gen \in Generations /\ j.gen[2] = 0 /\ j.gen[1] \in Bills
      BY <1>0, <2>1, ValuesTyped DEF JobIsSound
    <3>2. detail[j.gen[1]] \in Details /\ BillIsSound(j.gen[1]) BY <1>0, <3>1 DEF IInv, TypeOK
    <3> DEFINE d == detail[j.gen[1]]
    <3>3. 0 <= d.version
      <4>1. d.source # "none" BY <1>2, <2>1
      <4>2. d.version # -1 BY <3>2, <4>1 DEF BillIsSound
      <4>3. d.version \in -1..MaxVersion BY <3>2 DEF Details
      <4> QED BY <4>2, <4>3
    <3> QED BY <1>0, <2>1, <3>1, <3>3 DEF JobIsSound
  <2> QED BY <1>0, <2>1, <2>2, JobStepKeeps DEF ReadArchive
<1> QED BY <1>1, <1>2 DEF ReadArchive

LEMMA RegisterStep ==
    ASSUME IInv, NEW p \in Procs, NEW s \in Slots, Register(p, s)
    PROVE  IInv'
<1> USE DocketAssumption
<1>0. /\ TypeOK /\ job[p][s].pc = "register" /\ faults' \in 0..MaxFaults
  BY FaultTyped DEF IInv, Register
<1>1. PICK j \in Jobs : /\ Becomes(p, s, j) /\ j.pc \in {"fail", "finish"}
                        /\ j.gen = job[p][s].gen /\ j.prior = job[p][s].prior
  BY <1>0, JobForms DEF Register
<1>2. JobIsSound(j) BY <1>0, <1>1, FailIsSound
<1> QED BY <1>0, <1>1, <1>2, JobStepKeeps DEF Register

LEMMA FetchStep ==
    ASSUME IInv, NEW p \in Procs, NEW s \in Slots, Fetch(p, s)
    PROVE  IInv'
<1> USE DocketAssumption
<1>0. /\ TypeOK /\ job[p][s].pc = "project" /\ JobIsSound(job[p][s]) /\ job[p][s] \in Jobs
      /\ faults' \in 0..MaxFaults
  BY FaultTyped DEF IInv, Fetch, TypeOK
<1>b. PICK b \in Bills : b = job[p][s].gen[1]
  BY <1>0, ValuesTyped DEF JobIsSound
<1> DEFINE j == [job[p][s] EXCEPT !.pc = "cache", !.got = upstream[b]]
<1>1. CASE \E class \in {"provider", "unknown", "deterministic"} : Throw(p, s, class) /\ UNCHANGED raced
  <2>1. PICK i \in Jobs : /\ Becomes(p, s, i) /\ i.pc = "fail"
                          /\ i.gen = job[p][s].gen /\ i.prior = job[p][s].prior
    BY <1>0, <1>1, JobForms
  <2>2. JobIsSound(i) BY <1>0, <2>1, FailIsSound
  <2> QED BY <1>0, <1>1, <2>1, <2>2, JobStepKeeps DEF Fetch
<1>2. CASE /\ job' = [job EXCEPT ![p][s].pc = "cache", ![p][s].got = upstream[b]]
           /\ raced' = [raced EXCEPT ![b] = @ \/ Fetching(b)]
  <2>0. /\ job[p][s].gen \in Generations /\ b = job[p][s].gen[1]
        /\ upstream[b] \in 0..MaxVersion /\ upstream[b] >= 1
        /\ row[job[p][s].gen].state # "absent" /\ RowIsSound(job[p][s].gen)
        /\ BillIsSound(b) /\ detail[b].version \in Int /\ visit[b] \in Nat
    BY <1>0, <1>b, ValuesTyped, SMTT(30) DEF JobIsSound, IInv, TypeOK, Versions, Details
  <2>1. j \in Jobs /\ j.pc = "cache" /\ j.gen = job[p][s].gen /\ j.prior = job[p][s].prior
        /\ j.got = upstream[b]
    <3>1. ASSUME NEW i \in Jobs, NEW v \in 0..MaxVersion
          PROVE  /\ [i EXCEPT !.pc = "cache", !.got = v] \in Jobs
                 /\ [i EXCEPT !.pc = "cache", !.got = v].pc = "cache"
                 /\ [i EXCEPT !.pc = "cache", !.got = v].gen = i.gen
                 /\ [i EXCEPT !.pc = "cache", !.got = v].prior = i.prior
                 /\ [i EXCEPT !.pc = "cache", !.got = v].got = v
      BY DEF Jobs
    <3> QED BY <1>0, <2>0, <3>1, ZenonT(60)
  <2>2. Becomes(p, s, j) BY <1>0, <1>2 DEF Becomes, TypeOK
  <2> HIDE DEF j
  <2>3. /\ job' \in [Procs -> [Slots -> Jobs]] /\ job'[p][s] = j
        /\ \A q \in Procs, t \in Slots : (q # p \/ t # s) => job'[q][t] = job[q][t]
    BY <1>0, <2>1, <2>2, JobMoves
  <2>4. TypeOK'
    <3>1. (raced[b] \/ Fetching(b)) \in BOOLEAN BY DEF Fetching
    <3>2. raced' \in [Bills -> BOOLEAN] BY <1>0, <1>2, <2>0, <3>1 DEF TypeOK
    <3> QED BY <1>0, <2>3, <3>2 DEF Fetch, TypeOK
  <2>5. /\ raced'[b] = (raced[b] \/ Fetching(b))
        /\ \A c \in Bills : c # b => raced'[c] = raced[c]
    BY <1>0, <1>2, <2>0 DEF TypeOK
  <2>6. Grows
    <3>1. \A c \in Bills : detail[c].version \in Int /\ upstream[c] \in Nat
      BY <1>0 DEF TypeOK, Details, Versions
    <3>2. \A g \in Generations : misses[g] \in Nat BY <1>0 DEF TypeOK
    <3>3. \A c \in Bills : raced[c] => raced'[c] BY <2>5
    <3> QED BY <3>1, <3>2, <3>3 DEF Grows, Fetch
  <2>7. JobIsSound(job[p][s])'
    <3>1. j.gen[2] <= upstream[b] BY <2>0, <2>1 DEF RowIsSound
    <3>2. j.prior <= misses'[j.gen] BY <1>0, <2>1 DEF JobIsSound, Fetch
    <3>3. row' = row /\ upstream' = upstream BY DEF Fetch
    <3>4. j.gen \in Generations /\ row'[j.gen].state # "absent" BY <2>0, <2>1, <3>3
    <3>5. j.gen[2] <= j.got /\ 1 <= j.got /\ j.got <= upstream'[j.gen[1]]
      BY <2>0, <2>1, <3>1, <3>3
    <3>6. j.pc \notin {"archive", "register", "finish"} BY <2>1
    <3> QED BY <2>3, <3>2, <3>4, <3>5, <3>6 DEF JobIsSound
  <2>8. ASSUME NEW c \in Bills PROVE BillIsSound(c)'
    <3>1. CASE c # b
      <4>1. \A q \in Procs, t \in Slots :
              Caching(job'[q][t], c) => Caching(job[q][t], c) /\ job'[q][t].got = job[q][t].got
        BY <2>0, <2>1, <2>3, <3>1 DEF Caching
      <4>2. upstream[c] <= upstream'[c] BY <1>0 DEF Fetch, TypeOK, Versions
      <4> QED BY <1>0, <2>4, <2>5, <3>1, <4>1, <4>2, BillStaysSound DEF IInv, Fetch
    <3>2. CASE c = b
      <4>1. ~raced'[b] => /\ visit[b] = 0
                          /\ \A q \in Procs, t \in Slots : ~Caching(job[q][t], b)
        <5>1. ~raced'[b] => ~Fetching(b) BY <2>5
        <5> QED BY <2>0, <5>1 DEF Fetching, Caching
      <4>2. ~raced'[b] => \A q \in Procs, t \in Slots : Caching(job'[q][t], b) => q = p /\ t = s
        BY <2>3, <4>1
      <4>3. job'[p][s].got = upstream[b] BY <2>1, <2>3
      <4>4. detail[b].version <= upstream[b] BY <2>0 DEF BillIsSound
      <4>5. /\ detail' = detail /\ visit' = visit /\ upstream' = upstream BY DEF Fetch
      <4>6. ASSUME ~raced'[b], NEW q \in Procs, NEW t \in Slots, Caching(job'[q][t], b)
            PROVE  /\ visit'[b] = 0 /\ detail'[b].version <= job'[q][t].got
                   /\ \A r \in Procs, u \in Slots : Caching(job'[r][u], b) => r = q /\ u = t
        <5>1. q = p /\ t = s BY <4>2, <4>6
        <5>2. \A r \in Procs, u \in Slots : Caching(job'[r][u], b) => r = p /\ u = s
          BY <4>2, <4>6
        <5> QED BY <4>1, <4>3, <4>4, <4>5, <4>6, <5>1, <5>2
      <4>7. ~raced'[b] /\ visit'[b] > 0 => detail'[b].version <= visit'[b]
        BY <2>0, <4>1, <4>5
      <4>8. BillIsSound(b)' BY <2>0, <4>5, <4>6, <4>7, ZenonT(60) DEF BillIsSound, Caching
      <4> QED BY <3>2, <4>8
    <3> QED BY <3>1, <3>2
  <2>9. \A q \in Procs, t \in Slots : job'[q][t] = job[q][t] \/ JobIsSound(job[q][t])'
    BY <2>3, <2>7
  <2> QED BY <2>4, <2>6, <2>8, <2>9, StepKeeps DEF Fetch
<1> QED BY <1>1, <1>2, <1>b DEF Fetch

LEMMA CacheStep ==
    ASSUME IInv, NEW p \in Procs, NEW s \in Slots, Cache(p, s)
    PROVE  IInv'
<1> USE DocketAssumption
<1>0. /\ TypeOK /\ job[p][s].pc = "cache" /\ JobIsSound(job[p][s]) /\ job[p][s] \in Jobs
      /\ faults' \in 0..MaxFaults
  BY FaultTyped DEF IInv, Cache, TypeOK
<1>1. PICK b \in Bills : b = job[p][s].gen[1] BY <1>0, ValuesTyped DEF JobIsSound
<1>2. PICK v \in 0..MaxVersion : v = job[p][s].got BY <1>0 DEF Jobs
<1>3. PICK j \in Jobs : /\ Becomes(p, s, j) /\ j.pc \in {"fail", "register"}
                        /\ j.gen = job[p][s].gen /\ j.prior = job[p][s].prior
                        /\ Store(b, v) \/ detail' = detail
                        /\ j.pc = "register" => Store(b, v)
  <2>1. CASE /\ \E class \in {"unknown", "deterministic"} : Throw(p, s, class)
             /\ Store(b, v) \/ UNCHANGED detail
    BY <1>0, <2>1, JobForms
  <2>2. CASE Store(b, v) /\ job' = [job EXCEPT ![p][s].pc = "register", ![p][s].got = 0]
    <3>1. PICK i \in Jobs : i = job[p][s] BY <1>0
    <3> DEFINE new == [i EXCEPT !.pc = "register", !.got = 0]
    <3>2. 0 \in 0..MaxVersion OBVIOUS
    <3>3. new \in Jobs BY <3>2 DEF Jobs
    <3>4. new.pc = "register" /\ new.gen = i.gen /\ new.prior = i.prior BY DEF Jobs
    <3>5. Becomes(p, s, new) BY <1>0, <2>2, <3>1 DEF Becomes, TypeOK
    <3> HIDE DEF new
    <3> QED BY <2>2, <3>1, <3>3, <3>4, <3>5
  <2> QED BY <1>1, <1>2, <2>1, <2>2 DEF Cache
<1>4. /\ job' \in [Procs -> [Slots -> Jobs]] /\ job'[p][s] = j
      /\ \A q \in Procs, t \in Slots : (q # p \/ t # s) => job'[q][t] = job[q][t]
  BY <1>0, <1>3, JobMoves
<1>5. /\ detail' \in [Bills -> Details]
      /\ \A c \in Bills : c # b => detail'[c] = detail[c]
      /\ detail'[b] = detail[b] \/ detail'[b] = [source |-> "live", version |-> v]
      /\ j.pc = "register" => detail'[b].version = v
  <2>1. [source |-> "live", version |-> v] \in Details BY DEF Details
  <2> QED BY <1>0, <1>3, <2>1 DEF Store, TypeOK
<1>6. TypeOK' BY <1>0, <1>4, <1>5 DEF Cache, TypeOK
<1>7. /\ upstream[b] \in Nat /\ visit[b] \in Nat /\ detail[b].version \in Int
      /\ BillIsSound(b) /\ 1 <= v /\ v <= upstream[b] /\ job[p][s].gen[2] <= v
      /\ Caching(job[p][s], b)
  BY <1>0, <1>1, <1>2 DEF IInv, TypeOK, Versions, Details, JobIsSound, Caching
<1>8. ~raced[b] => /\ detail[b].version <= v /\ visit[b] = 0
                   /\ \A q \in Procs, t \in Slots : Caching(job[q][t], b) => q = p /\ t = s
  BY <1>2, <1>7 DEF BillIsSound
<1>9. detail'[b].version \in {detail[b].version, v} BY <1>5
<1>10. Grows
  <2>1. \A c \in Bills : detail[c].version \in Int /\ upstream[c] \in Nat
    BY <1>0 DEF TypeOK, Details, Versions
  <2>2. \A g \in Generations : misses[g] \in Nat BY <1>0 DEF TypeOK
  <2>3. \A c \in Bills : ~raced[c] => detail[c].version <= detail'[c].version
    BY <1>5, <1>7, <1>8, <1>9, <2>1
  <2>4. \A c \in Bills : detail[c].version >= 0 => detail'[c].version >= 0
    BY <1>5, <1>7, <1>9, <2>1
  <2> QED BY <2>1, <2>2, <2>3, <2>4 DEF Grows, Cache
<1>11. JobIsSound(job[p][s])'
  <2>1. /\ j.gen \in Generations /\ row[j.gen].state # "absent" /\ j.prior <= misses[j.gen]
    BY <1>0, <1>3 DEF JobIsSound
  <2>2. j.pc = "register" => j.gen[2] <= detail'[j.gen[1]].version
    BY <1>1, <1>3, <1>5, <1>7
  <2> QED BY <1>3, <1>4, <2>1, <2>2 DEF JobIsSound, Cache
<1>12. ASSUME NEW c \in Bills PROVE BillIsSound(c)'
  <2>1. CASE c # b
    <3>1. \A q \in Procs, t \in Slots :
            Caching(job'[q][t], c) => Caching(job[q][t], c) /\ job'[q][t].got = job[q][t].got
      BY <1>3, <1>4 DEF Caching
    <3>2. upstream[c] <= upstream'[c] BY <1>0 DEF Cache, TypeOK, Versions
    <3> QED BY <1>0, <1>5, <1>6, <2>1, <3>1, <3>2, BillStaysSound DEF IInv, Cache
  <2>2. CASE c = b
    <3>1. ~raced[b] => \A q \in Procs, t \in Slots : ~Caching(job'[q][t], b)
      BY <1>3, <1>4, <1>8 DEF Caching
    <3>2. detail'[b].version <= upstream[b] BY <1>7, <1>9 DEF BillIsSound
    <3>3. detail'[b].version = -1 <=> detail'[b].source = "none"
      BY <1>5, <1>7 DEF BillIsSound
    <3>4. upstream' = upstream /\ visit' = visit /\ raced' = raced BY DEF Cache
    <3>5. BillIsSound(b)' BY <1>7, <1>8, <3>1, <3>2, <3>3, <3>4 DEF BillIsSound, Caching
    <3> QED BY <2>2, <3>5
  <2> QED BY <2>1, <2>2
<1>13. \A q \in Procs, t \in Slots : job'[q][t] = job[q][t] \/ JobIsSound(job[q][t])'
  BY <1>4, <1>11
<1> QED BY <1>6, <1>10, <1>12, <1>13, StepKeeps DEF Cache

\* A job that ends may change its row, if it still holds it.
LEMMA JobEnds ==
    ASSUME IInv, NEW p \in Procs, NEW s \in Slots, job[p][s].pc # "free",
           NEW g \in Generations, g = job[p][s].gen, NEW r \in Rows,
           row' = row \/ (Holds(p, g) /\ row' = [row EXCEPT ![g] = r]),
           Becomes(p, s, Free), cycle' \in [Procs -> SUBSET Slots], faults' \in 0..MaxFaults,
           misses' \in [Generations -> Nat], \A h \in Generations : misses[h] <= misses'[h],
           UNCHANGED <<upstream, current, detail, visit, raced>>,
           r.state \in Settled \cup {"degraded"}, r.holder = None,
           row' # row => RowIsSound(g)'
    PROVE  IInv'
<1> USE DocketAssumption
<1>0. TypeOK /\ RowIsSound(g) BY DEF IInv
<1>1. /\ job' \in [Procs -> [Slots -> Jobs]] /\ job'[p][s] = Free
      /\ \A q \in Procs, t \in Slots : (q # p \/ t # s) => job'[q][t] = job[q][t]
  BY <1>0, ValuesTyped, JobMoves
<1>2. row' \in [Generations -> Rows] BY <1>0 DEF TypeOK
<1>3. TypeOK' BY <1>0, <1>1, <1>2 DEF TypeOK
<1>4. \A h \in Generations : h # g => row'[h] = row[h] BY <1>0 DEF TypeOK
<1>5. row' # row => row'[g] = r /\ row[g].state = "submitted"
  BY <1>0 DEF TypeOK, Holds, RowIsSound
<1>6. \A h \in Generations : row'[h] = row[h] \/ RowIsSound(h)' BY <1>4, <1>5
<1>7. Grows
  <2>1. \A b \in Bills : upstream[b] <= upstream'[b] BY <1>0 DEF TypeOK, Versions
  <2>2. \A h \in Generations : row[h].state # "absent" => row'[h].state # "absent"
    BY <1>4, <1>5 DEF Settled
  <2> QED BY <1>0, <2>1, <2>2, NothingShrinks
<1>8. \A b \in Bills : BillIsSound(b)'
  <2>1. \A q \in Procs, t \in Slots : job'[q][t] = job[q][t] \/ job'[q][t].pc # "cache"
    BY <1>1 DEF Free
  <2>2. \A b \in Bills : upstream[b] <= upstream'[b] BY <1>0 DEF TypeOK, Versions
  <2> QED BY <1>3, <2>1, <2>2, BillsStaySound
<1>9. \A q \in Procs, t \in Slots : job'[q][t] = job[q][t] \/ JobIsSound(job[q][t])'
  BY <1>1 DEF JobIsSound, Free
<1> QED BY <1>3, <1>6, <1>7, <1>8, <1>9, StepKeeps

LEMMA FinishStep ==
    ASSUME IInv, NEW p \in Procs, NEW s \in Slots, Finish(p, s)
    PROVE  IInv'
<1> USE DocketAssumption
<1>0. /\ TypeOK /\ job[p][s].pc = "finish" /\ JobIsSound(job[p][s])
      /\ faults' \in 0..MaxFaults
  BY FaultTyped DEF IInv, Finish
<1>1. PICK g \in Generations : g = job[p][s].gen BY <1>0 DEF JobIsSound
<1>2. cycle' \in [Procs -> SUBSET Slots] BY <1>0 DEF Finish, Ended, TypeOK
<1>3. Becomes(p, s, Free) BY DEF Finish, Ended, Becomes
<1>4. PICK x \in {"completed", "source_unavailable"} :
         row' = row \/ (Holds(p, g) /\ row' = [row EXCEPT ![g] = FinishedRow(row[g], x)])
  BY <1>0, <1>1 DEF Finish, TypeOK
<1>5. FinishedRow(row[g], x) \in Rows /\ FinishedRow(row[g], x).state = x
      /\ FinishedRow(row[g], x).holder = None
  <2>1. PICK q \in Rows : q = row[g] BY <1>0 DEF TypeOK
  <2>2. q.attempts + 1 \in Nat BY DEF Rows
  <2>3. /\ Closed(q, x) \in Rows /\ Closed(q, x).state = x /\ Closed(q, x).holder = None
    BY RowForms DEF Settled
  <2>4. ASSUME NEW c \in Rows, NEW n \in Nat
        PROVE  /\ [c EXCEPT !.attempts = n] \in Rows
               /\ [c EXCEPT !.attempts = n].state = c.state
               /\ [c EXCEPT !.attempts = n].holder = c.holder
    BY DEF Rows
  <2> QED BY <2>1, <2>2, <2>3, <2>4 DEF FinishedRow
<1>6. PICK r \in Rows : r = FinishedRow(row[g], x) BY <1>5
<1>7. /\ r.state = x /\ r.holder = None
      /\ row' = row \/ (Holds(p, g) /\ row' = [row EXCEPT ![g] = r])
  BY <1>4, <1>5, <1>6
<1>8. row' # row => RowIsSound(g)'
  <2>1. row' # row => row'[g] = r BY <1>0, <1>7 DEF TypeOK
  <2>2. /\ row[g].state # "absent"
        /\ ~raced[g[1]] => g[2] <= detail[g[1]].version
    BY <1>0, <1>1 DEF JobIsSound
  <2>3. RowIsSound(g) BY DEF IInv
  <2>4. /\ g[1] \in Bills /\ g[2] \in Nat /\ detail[g[1]].version \in Int
    BY <1>0, ValuesTyped DEF TypeOK, Details
  <2> QED BY <1>7, <2>1, <2>2, <2>3, <2>4 DEF RowIsSound, Finish
<1>9. /\ misses' \in [Generations -> Nat]
      /\ \A h \in Generations : misses[h] <= misses'[h]
  BY <1>0 DEF TypeOK, Finish
<1> QED BY <1>0, <1>1, <1>2, <1>3, <1>7, <1>8, <1>9, JobEnds DEF Finish, Settled

LEMMA FailedRowForm ==
    ASSUME NEW r \in Rows, NEW j \in Jobs
    PROVE  /\ FailedRow(r, j) \in Rows
           /\ FailedRow(r, j).state = IF Terminal(j.err, j.prior) THEN "permanent_failure"
                                      ELSE "degraded"
           /\ FailedRow(r, j).holder = None
           /\ FailedRow(r, j).attempts = IF Counts(j.err) THEN r.attempts + 1 ELSE r.attempts
<1> DEFINE x == IF Terminal(j.err, j.prior) THEN "permanent_failure" ELSE "degraded"
           n == IF Counts(j.err) THEN r.attempts + 1 ELSE r.attempts
           d == Terminal(j.err, j.prior) /\ r.due
<1>1. x \in Settled \cup {"degraded"} BY DEF Settled
<1>2. n \in Nat BY DEF Rows
<1>3. d \in BOOLEAN BY DEF Rows, Terminal, Counts
<1>4. FailedRow(r, j) = [Closed(r, x) EXCEPT !.attempts = n, !.due = d] BY DEF FailedRow
<1> HIDE DEF x, n, d
<1>5. Closed(r, x) \in Rows /\ Closed(r, x).state = x /\ Closed(r, x).holder = None
  BY <1>1, RowForms
<1>6. ASSUME NEW c \in Rows
      PROVE  /\ [c EXCEPT !.attempts = n, !.due = d] \in Rows
             /\ [c EXCEPT !.attempts = n, !.due = d].state = c.state
             /\ [c EXCEPT !.attempts = n, !.due = d].holder = c.holder
             /\ [c EXCEPT !.attempts = n, !.due = d].attempts = n
  BY <1>2, <1>3 DEF Rows
<1>7. /\ FailedRow(r, j) \in Rows /\ FailedRow(r, j).state = x
      /\ FailedRow(r, j).holder = None /\ FailedRow(r, j).attempts = n
  BY <1>4, <1>5, <1>6
<1> QED BY <1>7 DEF x, n

LEMMA FailStep ==
    ASSUME IInv, NEW p \in Procs, NEW s \in Slots, Fail(p, s)
    PROVE  IInv'
<1> USE DocketAssumption
<1>0. TypeOK /\ JobIsSound(job[p][s]) /\ faults' \in 0..MaxFaults
  BY FaultTyped DEF IInv, Fail
<1>1. PICK j \in Jobs : j = job[p][s] /\ j.pc = "fail" BY <1>0 DEF Fail, TypeOK
<1>2. PICK g \in Generations : g = j.gen BY <1>0, <1>1 DEF JobIsSound
<1>3. misses' = IF j.err = "provider" THEN misses
                ELSE [misses EXCEPT ![g] = IF j.err = "deterministic" THEN @ + UnknownLimit ELSE @ + 1]
  BY <1>1, <1>2 DEF Fail, Missed
<1>4. /\ misses' \in [Generations -> Nat]
      /\ \A h \in Generations : misses[h] <= misses'[h]
      /\ j.err = "deterministic" => misses'[g] = misses[g] + UnknownLimit
      /\ j.err \notin {"provider", "deterministic"} => misses'[g] = misses[g] + 1
  BY <1>0, <1>3 DEF TypeOK
<1>5. cycle' \in [Procs -> SUBSET Slots]
  <2>1. CASE Ended(p, s) BY <1>0, <2>1 DEF Ended, TypeOK
  <2>2. CASE cycle' = [cycle EXCEPT ![p] = IF s \in @ THEN {} ELSE @] BY <1>0, <2>2 DEF TypeOK
  <2> QED BY <2>1, <2>2 DEF Fail
<1>6. Becomes(p, s, Free) BY DEF Fail, Ended, Becomes
<1>7. row' = row \/ (Holds(p, g) /\ row' = [row EXCEPT ![g] = FailedRow(row[g], j)])
  BY <1>0, <1>1, <1>2 DEF Fail, MarkFailed, TypeOK
<1>8. row[g] \in Rows BY <1>0 DEF TypeOK
<1>9. PICK r \in Rows : r = FailedRow(row[g], j) BY <1>8, FailedRowForm
<1>10. /\ r.state = IF Terminal(j.err, j.prior) THEN "permanent_failure" ELSE "degraded"
       /\ r.holder = None
       /\ r.attempts = IF Counts(j.err) THEN row[g].attempts + 1 ELSE row[g].attempts
  BY <1>8, <1>9, FailedRowForm
<1>11. row' # row => RowIsSound(g)'
  <2> SUFFICES ASSUME row' # row PROVE RowIsSound(g)' OBVIOUS
  <2>1. row'[g] = r BY <1>0, <1>7, <1>9 DEF TypeOK
  <2>2. row[g].state = "submitted" /\ RowIsSound(g) BY <1>7 DEF Holds, IInv, RowIsSound
  <2>3. /\ misses[g] \in Nat /\ misses'[g] \in Nat /\ row[g].attempts \in Nat /\ j.prior \in Nat
    BY <1>0, <1>4 DEF TypeOK, Rows, Jobs
  <2>4. row[g].attempts <= misses[g] /\ j.prior <= misses[g]
    BY <1>0, <1>1, <1>2, <2>2 DEF RowIsSound, JobIsSound
  <2>5. r.attempts <= misses'[g] BY <1>4, <1>10, <2>3, <2>4 DEF Counts
  <2>6. Terminal(j.err, j.prior) => misses'[g] >= UnknownLimit
    BY <1>4, <2>3, <2>4 DEF Terminal, Counts
  <2>7. /\ upstream' = upstream /\ detail' = detail /\ raced' = raced BY DEF Fail
  <2>8. /\ row'[g].holder = None /\ row'[g].state \notin {"completed", "source_unavailable"}
        /\ row'[g].state = "permanent_failure" => Terminal(j.err, j.prior)
        /\ row'[g].attempts <= misses'[g]
    BY <1>10, <2>1, <2>5
  <2> QED BY <2>2, <2>6, <2>7, <2>8 DEF RowIsSound
<1>12. r.state \in Settled \cup {"degraded"} BY <1>10 DEF Settled
<1>13. row' = row \/ (Holds(p, g) /\ row' = [row EXCEPT ![g] = r]) BY <1>7, <1>9
<1>14. job[p][s].pc # "free" /\ g = job[p][s].gen BY <1>1, <1>2
<1>15. UNCHANGED <<upstream, current, detail, visit, raced>> BY DEF Fail
<1> QED BY <1>0, <1>4, <1>5, <1>6, <1>10, <1>11, <1>12, <1>13, <1>14, <1>15, JobEnds
-----------------------------------------------------------------------------
(* The invariant *)

LEMMA InitialState == Init => IInv
<1> USE DocketAssumption
<1> SUFFICES ASSUME Init PROVE IInv OBVIOUS
<1>1. TypeOK BY ValuesTyped DEF Init, TypeOK, Versions
<1>2. \A g \in Generations : row[g] = Absent /\ misses[g] = 0 BY DEF Init
<1>3. \A g \in Generations : RowIsSound(g) BY <1>2 DEF RowIsSound, Absent
<1>4. \A p \in Procs, s \in Slots : job[p][s].pc = "free" BY DEF Init, Free
<1>5. \A p \in Procs, s \in Slots : JobIsSound(job[p][s]) BY <1>4 DEF JobIsSound
<1>6. \A b \in Bills : upstream[b] = 1 /\ visit[b] = 0 /\ detail[b] = NoDetail BY DEF Init
<1>7. \A b \in Bills : BillIsSound(b) BY <1>4, <1>6 DEF BillIsSound, Caching, NoDetail
<1> QED BY <1>1, <1>3, <1>5, <1>7 DEF IInv

LEMMA StutterStep == IInv /\ UNCHANGED vars => IInv'
BY DEF vars, IInv, TypeOK, RowIsSound, JobIsSound, BillIsSound, Caching

LEMMA NextStep == IInv /\ [Next]_vars => IInv'
<1> SUFFICES ASSUME IInv, [Next]_vars PROVE IInv' OBVIOUS
<1>1. ASSUME NEW b \in Bills, ProviderChanges(b) \/ Import(b) \/ Visit(b) \/ EndVisit(b)
      PROVE  IInv'
  BY <1>1, ProviderStep, ImportStep, VisitStep, EndVisitStep
<1>2. ASSUME NEW b \in Bills, NEW v \in Versions, Observe(b, v) PROVE IInv'
  BY <1>2, ObserveStep
<1>3. ASSUME NEW p \in Procs, Cycle(p) PROVE IInv' BY <1>3, StartStep DEF Cycle
<1>4. ASSUME NEW p \in Procs, CycleLost(p) PROVE IInv' BY <1>4, LostClaimStep DEF CycleLost
<1>5. ASSUME NEW p \in Procs, Crash(p) PROVE IInv' BY <1>5, CrashStep
<1>6. ASSUME NEW p \in Procs, NEW s \in Slots, Step(p, s) PROVE IInv'
  BY <1>6, ReadArchiveStep, FetchStep, CacheStep, RegisterStep, FinishStep, FailStep DEF Step
<1>7. ASSUME NEW g \in Generations, TimePasses(g) PROVE IInv'
  BY <1>7, LeaseEndsStep, RetryDueStep DEF TimePasses
<1> QED BY <1>1, <1>2, <1>3, <1>4, <1>5, <1>6, <1>7, StutterStep DEF Next

\* Whatever is fetched, stored, claimed, lost or restarted, rows, jobs and
\* cached copies stay sound and every variable keeps its type.
THEOREM DocketInvariant == Spec => []IInv
BY InitialState, NextStep, PTL DEF Spec

\* Every variable keeps its type.
THEOREM DocketTypes == Spec => []TypeOK
<1>1. IInv => TypeOK BY DEF IInv
<1> QED BY <1>1, DocketInvariant, PTL

\* A row is given up only after enough failures that count.
THEOREM GivenUpOnlyForCause == Spec => []GivenUpForCause
<1>1. IInv => GivenUpForCause BY DEF IInv, RowIsSound, GivenUpForCause
<1> QED BY <1>1, DocketInvariant, PTL

\* The cached copy is as new as what settled, unless fetches overlapped.
THEOREM CachedIsFresh == Spec => []DetailIsFresh
<1>1. IInv => DetailIsFresh BY DEF IInv, RowIsSound, DetailIsFresh
<1> QED BY <1>1, DocketInvariant, PTL
-----------------------------------------------------------------------------
(* Settled rows *)

LEMMA StepKeepsSettled ==
    ASSUME IInv, [Next]_vars, NEW g \in Generations, row[g].state \in Settled
    PROVE  row'[g] = row[g]
<1> USE DocketAssumption
<1>0. TypeOK /\ row[g].holder = None BY DEF IInv, RowIsSound, Settled
<1>1. row[g] # Absent /\ row[g].state # "absent" BY DEF Absent, Settled
<1>2. ASSUME NEW b \in Bills, Import(b) PROVE row'[g] = row[g]
  <2>1. g # <<b, 0>>
    <3>1. BillIsSound(b) /\ detail[b].version = -1 BY <1>2 DEF IInv, Import, NoDetail
    <3>2. <<b, 0>> \in Generations /\ <<b, 0>>[1] = b /\ <<b, 0>>[2] = 0 BY ValuesTyped
    <3>3. g = <<b, 0>> => detail[b].version >= 0 BY <1>1, <3>2 DEF IInv, RowIsSound
    <3> QED BY <3>1, <3>3
  <2> QED BY <1>0, <1>2, <2>1 DEF Import, TypeOK
<1>3. ASSUME NEW b \in Bills, NEW v \in Versions, Observe(b, v) PROVE row'[g] = row[g]
  BY <1>0, <1>1, <1>3 DEF Observe, TypeOK
<1>4. ASSUME NEW p \in Procs, NEW gens \in Batches(p), Claim(p, gens) PROVE row'[g] = row[g]
  <2>1. g \notin gens BY <1>4, ClaimedRows DEF Settled
  <2>2. g \notin Superseded(p) BY DEF Superseded, Waiting, Settled
  <2> QED BY <1>4, <2>1, <2>2, ClaimedRows
<1>5. ASSUME NEW p \in Procs, Crash(p) PROVE row'[g] = row[g] BY <1>0, <1>5 DEF Crash
<1>6. ASSUME NEW p \in Procs, NEW s \in Slots, Step(p, s) PROVE row'[g] = row[g]
  <2>1. ~Holds(p, g) BY <1>0 DEF Holds
  <2>2. CASE Finish(p, s) BY <1>0, <2>1, <2>2 DEF Finish, TypeOK
  <2>3. CASE Fail(p, s) BY <1>0, <2>1, <2>3 DEF Fail, MarkFailed, TypeOK
  <2> QED BY <1>6, <2>2, <2>3 DEF Step, ReadArchive, Fetch, Cache, Register
<1>7. ASSUME NEW h \in Generations, TimePasses(h) PROVE row'[g] = row[g]
  <2>1. h # g BY <1>7 DEF TimePasses, LeaseEnds, RetryDue, Settled
  <2> QED BY <1>0, <1>7, <2>1 DEF TimePasses, LeaseEnds, RetryDue, TypeOK
<1>8. CASE UNCHANGED vars BY <1>8 DEF vars
<1>9. ASSUME NEW b \in Bills, ProviderChanges(b) \/ Visit(b) \/ EndVisit(b) PROVE row'[g] = row[g]
  BY <1>9 DEF ProviderChanges, Visit, EndVisit
<1>10. ASSUME NEW p \in Procs, Cycle(p) \/ CycleLost(p) PROVE row'[g] = row[g]
  BY <1>4, <1>10 DEF Cycle, CycleLost, Start, LostClaim
<1> QED BY <1>2, <1>3, <1>5, <1>6, <1>7, <1>8, <1>9, <1>10 DEF Next

\* A settled generation stays as it is, whichever worker still has a job for it.
THEOREM SettledStays == Spec => SettledIsFinal
<1>1. IInv /\ [Next]_vars
      => [\A g \in Generations : row[g].state \in Settled => row'[g] = row[g]]_vars
  BY StepKeepsSettled
<1> QED BY <1>1, DocketInvariant, PTL DEF Spec, SettledIsFinal
-----------------------------------------------------------------------------
(* The ledger *)

\* Rows that do not open or settle leave the ledger's states alone.
LEMMA SameStates ==
    ASSUME \A g \in Generations : Mode(row'[g]) = Mode(row[g])
    PROVE  LedgerState' = LedgerState
BY DEF LedgerState

\* One row opens or settles.
LEMMA OneState ==
    ASSUME NEW g \in Generations, \A h \in Generations : h # g => row'[h] = row[h],
           NEW m, Mode(row'[g]) = m
    PROVE  LedgerState' = [LedgerState EXCEPT ![g] = m]
BY DEF LedgerState

\* A job's copy is stored, if it is.
LEMMA OneKept ==
    ASSUME TypeOK, TypeOK', NEW b \in Bills, \A c \in Bills : c # b => detail'[c] = detail[c]
    PROVE  LedgerKept' = [LedgerKept EXCEPT ![b] = detail'[b].version]
BY DEF LedgerKept

LEMMA Quiet ==
    ASSUME UNCHANGED <<detail, misses, raced>>,
           \A g \in Generations : Mode(row'[g]) = Mode(row[g])
    PROVE  UNCHANGED Ledger!docket
<1>1. LedgerState' = LedgerState BY SameStates
<1>2. LedgerKept' = LedgerKept BY DEF LedgerKept
<1> QED BY <1>1, <1>2 DEF Ledger!docket

\* Whoever stores a copy keeps one that is not older, unless fetches overlapped.
LEMMA StoreKeeps ==
    ASSUME TypeOK, TypeOK', NEW b \in Bills, NEW v \in 1..MaxVersion,
           Store(b, v) \/ UNCHANGED detail, UNCHANGED <<row, misses, raced>>,
           ~raced[b] => detail[b].version <= v
    PROVE  Ledger!Keep(b, v) \/ UNCHANGED Ledger!docket
<1>1. LedgerState' = LedgerState BY SameStates
<1>2. CASE UNCHANGED detail BY <1>2, Quiet
<1>3. CASE Store(b, v)
  <2>1. detail'[b].version = v /\ \A c \in Bills : c # b => detail'[c] = detail[c]
    BY <1>3 DEF Store, TypeOK
  <2>2. LedgerKept' = [LedgerKept EXCEPT ![b] = v] BY <2>1, OneKept
  <2>3. LedgerKept[b] = detail[b].version BY DEF LedgerKept
  <2>4. LedgerKept[b] <= v \/ raced[b] BY <2>3 DEF TypeOK
  <2> QED BY <1>1, <2>2, <2>4 DEF Ledger!Keep
<1> QED BY <1>2, <1>3

LEMMA ObserveLedger ==
    ASSUME IInv, NEW b \in Bills, NEW v \in Versions, Observe(b, v)
    PROVE  Ledger!Observe(b, v) \/ UNCHANGED Ledger!docket
<1> DEFINE g == <<b, v>>
<1>0. TypeOK /\ g \in Generations BY ValuesTyped, DocketAssumption DEF IInv, Versions
<1>1. \A h \in Generations : h # g => row'[h] = row[h] BY <1>0 DEF Observe, TypeOK
<1>2. UNCHANGED <<detail, misses, raced>> BY DEF Observe
<1>3. CASE row'[g] = row[g] BY <1>1, <1>2, <1>3, Quiet
<1>4. CASE row[g] = Absent /\ row'[g] = Eligible
  <2>1. LedgerState[g] = "absent" BY <1>0, <1>4 DEF LedgerState, Mode, Absent
  <2>2. Mode(row'[g]) = "open" BY <1>4 DEF Mode, Eligible, Absent
  <2>3. LedgerState' = [LedgerState EXCEPT ![g] = "open"] BY <1>0, <1>1, <2>2, OneState
  <2>4. LedgerKept' = LedgerKept BY <1>2 DEF LedgerKept
  <2> QED BY <1>2, <2>1, <2>3, <2>4 DEF Ledger!Observe, Ledger!Open
<1> QED BY <1>0, <1>3, <1>4 DEF Observe, TypeOK

LEMMA ImportLedger ==
    ASSUME IInv, NEW b \in Bills, Import(b)
    PROVE  Ledger!Import(b)
<1> DEFINE g == <<b, 0>>
<1>0. TypeOK /\ TypeOK' /\ g \in Generations /\ g[1] = b /\ g[2] = 0
  BY ValuesTyped, ImportStep, DocketAssumption DEF IInv
<1>1. detail[b].version = -1 BY DEF Import, NoDetail
<1>2. row[g].state = "absent" BY <1>0, <1>1 DEF IInv, RowIsSound
<1>3. /\ detail'[b].version = 0 /\ \A c \in Bills : c # b => detail'[c] = detail[c]
      /\ UNCHANGED <<misses, raced>>
  BY <1>0 DEF Import, TypeOK, ArchiveDetail
<1>4. LedgerKept' = [LedgerKept EXCEPT ![b] = 0] /\ LedgerKept[b] = -1
  <2>1. LedgerKept' = [LedgerKept EXCEPT ![b] = 0] BY <1>0, <1>3, OneKept
  <2>2. LedgerKept[b] = -1 BY <1>1 DEF LedgerKept
  <2> QED BY <2>1, <2>2
<1>5. CASE UNCHANGED row
  <2>1. LedgerState' = LedgerState BY <1>5, SameStates
  <2> QED BY <1>3, <1>4, <2>1 DEF Ledger!Import
<1>6. CASE row' = [row EXCEPT ![g] = Eligible]
  <2>1. row'[g] = Eligible /\ \A h \in Generations : h # g => row'[h] = row[h]
    BY <1>0, <1>6 DEF TypeOK
  <2>2. Mode(row'[g]) = "open" BY <2>1 DEF Mode, Eligible, Absent
  <2>3. LedgerState' = [LedgerState EXCEPT ![g] = "open"] BY <1>0, <2>1, <2>2, OneState
  <2>4. LedgerState[g] = "absent" BY <1>0, <1>2 DEF LedgerState, Mode
  <2>5. Ledger!Open(g) BY <2>3, <2>4 DEF Ledger!Open
  <2> QED BY <1>3, <1>4, <2>5 DEF Ledger!Import
<1> QED BY <1>5, <1>6 DEF Import

\* A fetch overlaps another one, or the ledger does not see it.
LEMMA FetchOverlaps ==
    ASSUME TypeOK, NEW b \in Bills, UNCHANGED <<row, detail, misses>>,
           raced' = [raced EXCEPT ![b] = @ \/ Fetching(b)]
    PROVE  Ledger!Overlap(b) \/ UNCHANGED Ledger!docket
<1>1. LedgerState' = LedgerState /\ LedgerKept' = LedgerKept BY DEF LedgerState, LedgerKept
<1>2. CASE Fetching(b)
  <2>1. raced' = [raced EXCEPT ![b] = TRUE] BY <1>2 DEF TypeOK
  <2> QED BY <1>1, <2>1 DEF Ledger!Overlap
<1>3. CASE ~Fetching(b)
  <2>1. raced' = raced BY <1>3 DEF TypeOK
  <2> QED BY <1>1, <2>1 DEF Ledger!docket
<1> QED BY <1>2, <1>3

LEMMA EndVisitLedger ==
    ASSUME IInv, NEW b \in Bills, EndVisit(b)
    PROVE  (\E v \in 1..MaxVersion : Ledger!Keep(b, v)) \/ UNCHANGED Ledger!docket
<1>0. TypeOK /\ TypeOK' /\ BillIsSound(b) BY EndVisitStep DEF IInv
<1>1. PICK v \in 1..MaxVersion : v = visit[b] BY <1>0, DocketAssumption DEF EndVisit, TypeOK
<1>2. ~raced[b] => detail[b].version <= v BY <1>0, <1>1 DEF BillIsSound, EndVisit
<1> QED BY <1>0, <1>1, <1>2, StoreKeeps DEF EndVisit

LEMMA CacheLedger ==
    ASSUME IInv, NEW p \in Procs, NEW s \in Slots, Cache(p, s)
    PROVE  (\E b \in Bills, v \in 1..MaxVersion : Ledger!Keep(b, v)) \/ UNCHANGED Ledger!docket
<1>0. /\ TypeOK /\ TypeOK' /\ job[p][s].pc = "cache" /\ job[p][s] \in Jobs
      /\ JobIsSound(job[p][s])
  BY CacheStep DEF IInv, TypeOK, Cache
<1>1. PICK b \in Bills : b = job[p][s].gen[1] BY <1>0, ValuesTyped DEF JobIsSound
<1>2. PICK v \in 1..MaxVersion : v = job[p][s].got
  BY <1>0, DocketAssumption DEF JobIsSound, Jobs
<1>3. ~raced[b] => detail[b].version <= v
  BY <1>0, <1>1, <1>2 DEF IInv, BillIsSound, Caching
<1>4. Store(b, v) \/ UNCHANGED detail BY <1>1, <1>2 DEF Cache
<1>5. UNCHANGED <<row, misses, raced>> BY DEF Cache
<1> QED BY <1>0, <1>3, <1>4, <1>5, StoreKeeps

\* A claim settles the archive's rows that live detail has superseded.
LEMMA ClaimLedger ==
    ASSUME IInv, NEW p \in Procs, NEW gens \in Batches(p), Claim(p, gens)
    PROVE  Ledger!Settle(Superseded(p) \ gens, "completed")
           /\ Superseded(p) \ gens \subseteq {g \in Generations : LedgerState[g] = "open"}
<1> DEFINE late == Superseded(p) \ gens
<1>0. TypeOK /\ UNCHANGED <<detail, misses, raced>> BY DEF IInv, Claim
<1>1. late \subseteq Generations BY ValuesTyped DEF Superseded
<1>2. ASSUME NEW g \in late
      PROVE  /\ LedgerState[g] = "open" /\ g[2] <= LedgerKept[g[1]]
             /\ Mode(row'[g]) = "completed"
  <2>1. g \in Generations /\ g[1] \in Bills /\ g[2] = 0 /\ Waiting(g)
        /\ detail[g[1]].source = "live"
    BY <1>1, ValuesTyped DEF Superseded
  <2>2. LedgerState[g] = "open" BY <2>1 DEF LedgerState, Mode, Waiting
  <2>3. detail[g[1]] \in Details /\ BillIsSound(g[1]) BY <1>0, <2>1 DEF TypeOK, IInv
  <2>4. detail[g[1]].version >= 0 BY <2>1, <2>3, DocketAssumption DEF BillIsSound, Details
  <2>5. row[g] \in Rows BY <1>0, <2>1 DEF TypeOK
  <2>6. row'[g] = Closed(row[g], "completed") BY <2>1 DEF Claim, Leased
  <2>7. Closed(row[g], "completed").state = "completed" BY <2>5, RowForms DEF Settled
  <2>8. Mode(row'[g]) = "completed" BY <2>6, <2>7 DEF Mode
  <2> QED BY <2>1, <2>2, <2>4, <2>8 DEF LedgerKept
<1>3. ASSUME NEW g \in Generations \ late PROVE Mode(row'[g]) = Mode(row[g])
  <2>1. CASE g \in gens BY <2>1, ClaimedRows DEF Mode
  <2>2. CASE g \notin gens BY <2>2 DEF Claim, Leased
  <2> QED BY <2>1, <2>2
<1> HIDE DEF late
<1>4. LedgerState' = [g \in Generations |-> IF g \in late THEN "completed" ELSE LedgerState[g]]
  BY <1>2, <1>3 DEF LedgerState
<1>5. LedgerKept' = LedgerKept BY <1>0 DEF LedgerKept
<1>6. Ledger!Generations = Generations BY DEF Ledger!Generations, Generations
<1>7. Ledger!Settle(late, "completed") BY <1>0, <1>2, <1>4, <1>5, <1>6 DEF Ledger!Settle
<1>8. late \subseteq {g \in Generations : LedgerState[g] = "open"} BY <1>1, <1>2
<1> QED BY <1>7, <1>8 DEF late

LEMMA FinishLedger ==
    ASSUME IInv, NEW p \in Procs, NEW s \in Slots, Finish(p, s)
    PROVE  \/ UNCHANGED Ledger!docket
           \/ \E g \in Generations, how \in {"completed", "source_unavailable"} :
                LedgerState[g] = "open" /\ Ledger!Settle({g}, how)
<1>0. /\ TypeOK /\ job[p][s].pc = "finish" /\ JobIsSound(job[p][s])
      /\ UNCHANGED <<detail, misses, raced>>
  BY DEF IInv, Finish
<1>1. PICK g \in Generations : g = job[p][s].gen BY <1>0 DEF JobIsSound
<1>2. CASE UNCHANGED row BY <1>0, <1>2, Quiet
<1>3. ASSUME Holds(p, g), NEW how \in {"completed", "source_unavailable"},
             row' = [row EXCEPT ![g] = FinishedRow(row[g], how)]
      PROVE  LedgerState[g] = "open" /\ Ledger!Settle({g}, how)
  <2>1. row[g].state = "submitted" /\ g[1] \in Bills
    BY <1>3, ValuesTyped, DocketAssumption DEF IInv, RowIsSound, Holds
  <2>2. LedgerState[g] = "open" BY <2>1 DEF LedgerState, Mode
  <2>3. g[2] <= LedgerKept[g[1]] \/ raced[g[1]]
    BY <1>0, <1>1, <2>1 DEF JobIsSound, LedgerKept, TypeOK
  <2>4. Mode(row'[g]) = how
    <3>1. PICK q \in Rows : q = row[g] BY <1>0 DEF TypeOK
    <3>2. Closed(q, how) \in Rows /\ Closed(q, how).state = how BY RowForms DEF Settled
    <3>3. FinishedRow(q, how).state = how BY <3>2 DEF FinishedRow, Rows
    <3>4. row'[g] = FinishedRow(q, how) BY <1>0, <1>3, <3>1 DEF TypeOK
    <3> QED BY <3>3, <3>4 DEF Mode
  <2>5. \A h \in Generations : h # g => row'[h] = row[h] BY <1>0, <1>3 DEF TypeOK
  <2>6. LedgerState' = [h \in Generations |-> IF h \in {g} THEN how ELSE LedgerState[h]]
    BY <2>4, <2>5 DEF LedgerState
  <2>7. LedgerKept' = LedgerKept BY <1>0 DEF LedgerKept
  <2>8. Ledger!Generations = Generations BY DEF Ledger!Generations, Generations
  <2> QED BY <1>0, <2>2, <2>3, <2>6, <2>7, <2>8 DEF Ledger!Settle
<1>4. \/ UNCHANGED row
      \/ /\ Holds(p, g)
         /\ \E how \in {"completed", "source_unavailable"} :
              row' = [row EXCEPT ![g] = FinishedRow(row[g], how)]
  BY <1>0, <1>1 DEF Finish, TypeOK
<1> QED BY <1>2, <1>3, <1>4

LEMMA FailLedger ==
    ASSUME IInv, NEW p \in Procs, NEW s \in Slots, Fail(p, s)
    PROVE  \/ UNCHANGED Ledger!docket
           \/ \E g \in Generations, n \in {1, UnknownLimit} : Ledger!Fail(g, n)
<1>0. TypeOK /\ JobIsSound(job[p][s]) /\ UNCHANGED <<detail, raced>> BY DEF IInv, Fail
<1>1. PICK j \in Jobs : j = job[p][s] /\ j.pc = "fail" BY <1>0 DEF Fail, TypeOK
<1>2. PICK g \in Generations : g = j.gen BY <1>0, <1>1 DEF JobIsSound
<1>3. row' = row \/ (Holds(p, g) /\ row' = [row EXCEPT ![g] = FailedRow(row[g], j)])
  BY <1>0, <1>1, <1>2 DEF Fail, MarkFailed, TypeOK
<1>4. /\ \A h \in Generations : h # g => row'[h] = row[h]
      /\ \/ row'[g] = row[g]
         \/ /\ row[g].state = "submitted"
            /\ row'[g].state = IF Terminal(j.err, j.prior) THEN "permanent_failure"
                               ELSE "degraded"
  <2>1. CASE row' = row BY <2>1
  <2>2. CASE Holds(p, g) /\ row' = [row EXCEPT ![g] = FailedRow(row[g], j)]
    <3>1. row[g].state = "submitted" BY <2>2, DocketAssumption DEF IInv, RowIsSound, Holds
    <3>2. row[g] \in Rows BY <1>0 DEF TypeOK
    <3> QED BY <1>0, <2>2, <3>1, <3>2, FailedRowForm DEF TypeOK
  <2> QED BY <1>3, <2>1, <2>2
<1>5. LedgerKept' = LedgerKept BY <1>0 DEF LedgerKept
<1>6. CASE j.err = "provider"
  <2>1. misses' = misses BY <1>1, <1>6 DEF Fail, Missed
  <2>2. Mode(row'[g]) = Mode(row[g]) BY <1>4, <1>6 DEF Mode, Terminal, Counts
  <2> QED BY <1>0, <1>4, <2>1, <2>2, Quiet
<1>7. CASE j.err # "provider"
  <2>1. PICK n \in {1, UnknownLimit} :
          /\ n = IF j.err = "deterministic" THEN UnknownLimit ELSE 1
          /\ misses' = [misses EXCEPT ![g] = @ + n]
    BY <1>1, <1>2, <1>7 DEF Fail, Missed
  <2>2. j.prior <= misses[g] /\ j.prior \in Nat /\ misses[g] \in Nat
    BY <1>0, <1>1, <1>2 DEF JobIsSound, TypeOK, Jobs
  <2>3. Terminal(j.err, j.prior) => misses[g] + n >= UnknownLimit
    BY <2>1, <2>2, DocketAssumption DEF Terminal, Counts
  <2>4. CASE Mode(row'[g]) = Mode(row[g])
    <3>1. LedgerState' = LedgerState BY <1>4, <2>4, SameStates
    <3>2. Ledger!Fail(g, n) BY <1>0, <1>5, <2>1, <3>1 DEF Ledger!Fail
    <3> QED BY <3>2
  <2>5. CASE Mode(row'[g]) # Mode(row[g])
    <3>1. /\ row[g].state = "submitted" /\ row'[g].state = "permanent_failure"
          /\ Terminal(j.err, j.prior)
      BY <1>4, <2>5 DEF Mode
    <3>2. LedgerState[g] = "open" /\ Mode(row'[g]) = "permanent_failure"
      BY <3>1 DEF LedgerState, Mode
    <3>3. LedgerState' = [LedgerState EXCEPT ![g] = "permanent_failure"]
      BY <1>4, <3>2, OneState
    <3>4. Ledger!Fail(g, n) BY <1>0, <1>5, <2>1, <2>3, <3>1, <3>2, <3>3 DEF Ledger!Fail
    <3> QED BY <3>4
  <2> QED BY <2>4, <2>5
<1> QED BY <1>6, <1>7

\* The other steps of a job, a crash and the clock.
LEMMA UnseenSteps ==
    ASSUME IInv, NEW p \in Procs,
           \/ \E s \in Slots : ReadArchive(p, s) \/ Register(p, s)
           \/ Crash(p)
    PROVE  UNCHANGED Ledger!docket
<1>1. UNCHANGED <<detail, misses, raced>> BY DEF ReadArchive, Register, Crash
<1>2. ASSUME NEW h \in Generations PROVE Mode(row'[h]) = Mode(row[h])
  <2>1. row[h] \in Rows BY DEF IInv, TypeOK
  <2>2. CASE Crash(p) BY <2>1, <2>2 DEF Crash, Rows, Mode
  <2>3. ASSUME NEW s \in Slots, ReadArchive(p, s) \/ Register(p, s) PROVE row' = row
    BY <2>3 DEF ReadArchive, Register
  <2> QED BY <2>2, <2>3
<1> QED BY <1>1, <1>2, Quiet

LEMMA UnseenTime ==
    ASSUME IInv, NEW g \in Generations, TimePasses(g)
    PROVE  UNCHANGED Ledger!docket
<1>1. UNCHANGED <<detail, misses, raced>> BY DEF TimePasses, LeaseEnds, RetryDue
<1>2. ASSUME NEW h \in Generations PROVE Mode(row'[h]) = Mode(row[h])
  <2>1. row[h] \in Rows /\ row \in [Generations -> Rows] BY DEF IInv, TypeOK
  <2> QED BY <2>1 DEF TimePasses, LeaseEnds, RetryDue, Rows, Mode
<1> QED BY <1>1, <1>2, Quiet

LEMMA LedgerStep == IInv /\ [Next]_vars => [Ledger!Next]_(Ledger!docket)
<1> SUFFICES ASSUME IInv, [Next]_vars PROVE Ledger!Next \/ UNCHANGED Ledger!docket
  OBVIOUS
<1> USE DocketAssumption
<1>0. TypeOK /\ Ledger!Generations = Generations
  BY DEF IInv, Ledger!Generations, Generations
<1>a. \A b \in Bills : Ledger!Overlap(b) \/ Ledger!Import(b) => Ledger!Next BY DEF Ledger!Next
<1>b. \A b \in Bills, v \in 1..MaxVersion : Ledger!Keep(b, v) \/ Ledger!Observe(b, v) => Ledger!Next
  BY DEF Ledger!Next
<1>c. \A gens \in SUBSET {g \in Generations : LedgerState[g] = "open"} :
        \A how \in {"completed", "source_unavailable"} : Ledger!Settle(gens, how) => Ledger!Next
  BY <1>0 DEF Ledger!Next
<1>d. \A g \in Generations, n \in {1, UnknownLimit} : Ledger!Fail(g, n) => Ledger!Next
  BY <1>0 DEF Ledger!Next
<1>1. ASSUME NEW b \in Bills, ProviderChanges(b) PROVE UNCHANGED Ledger!docket
  <2>1. UNCHANGED <<row, detail, misses, raced>> BY <1>1 DEF ProviderChanges
  <2> QED BY <2>1, Quiet
<1>2. ASSUME NEW b \in Bills, Import(b) PROVE Ledger!Next BY <1>2, <1>a, ImportLedger
<1>3. ASSUME NEW b \in Bills, Visit(b) PROVE Ledger!Next \/ UNCHANGED Ledger!docket
  BY <1>0, <1>3, <1>a, FetchOverlaps DEF Visit
<1>4. ASSUME NEW b \in Bills, EndVisit(b) PROVE Ledger!Next \/ UNCHANGED Ledger!docket
  BY <1>4, <1>b, EndVisitLedger
<1>5. ASSUME NEW b \in Bills, NEW v \in Versions, Observe(b, v)
      PROVE  Ledger!Next \/ UNCHANGED Ledger!docket
  BY <1>5, <1>b, ObserveLedger DEF Versions
<1>6. ASSUME NEW p \in Procs, NEW gens \in Batches(p), Claim(p, gens) PROVE Ledger!Next
  BY <1>6, <1>c, ClaimLedger
<1>7. ASSUME NEW p \in Procs, NEW s \in Slots, Fetch(p, s)
      PROVE  Ledger!Next \/ UNCHANGED Ledger!docket
  <2>1. UNCHANGED <<row, detail, misses>> BY <1>7 DEF Fetch
  <2>2. job[p][s].pc = "project" /\ JobIsSound(job[p][s]) BY <1>7 DEF IInv, Fetch
  <2>3. PICK b \in Bills : b = job[p][s].gen[1] BY <2>2, ValuesTyped DEF JobIsSound
  <2>4. CASE UNCHANGED raced BY <2>1, <2>4, Quiet
  <2>5. CASE raced' = [raced EXCEPT ![b] = @ \/ Fetching(b)]
    BY <1>0, <1>a, <2>1, <2>5, FetchOverlaps
  <2> QED BY <1>7, <2>3, <2>4, <2>5 DEF Fetch
<1>8. ASSUME NEW p \in Procs, NEW s \in Slots, Cache(p, s)
      PROVE  Ledger!Next \/ UNCHANGED Ledger!docket
  BY <1>8, <1>b, CacheLedger
<1>9. ASSUME NEW p \in Procs, NEW s \in Slots, Finish(p, s)
      PROVE  Ledger!Next \/ UNCHANGED Ledger!docket
  BY <1>9, <1>c, FinishLedger
<1>10. ASSUME NEW p \in Procs, NEW s \in Slots, Fail(p, s)
       PROVE  Ledger!Next \/ UNCHANGED Ledger!docket
  BY <1>10, <1>d, FailLedger
<1>11. ASSUME NEW p \in Procs, NEW s \in Slots, ReadArchive(p, s) \/ Register(p, s)
       PROVE  UNCHANGED Ledger!docket
  BY <1>11, UnseenSteps
<1>12. ASSUME NEW p \in Procs, Crash(p) PROVE UNCHANGED Ledger!docket BY <1>12, UnseenSteps
<1>13. ASSUME NEW g \in Generations, TimePasses(g) PROVE UNCHANGED Ledger!docket
  BY <1>13, UnseenTime
<1>14. ASSUME NEW p \in Procs, Cycle(p) \/ CycleLost(p) PROVE Ledger!Next
  BY <1>6, <1>14 DEF Cycle, CycleLost, Start, LostClaim
<1>15. CASE UNCHANGED vars
  <2>1. UNCHANGED <<row, detail, misses, raced>> BY <1>15 DEF vars
  <2> QED BY <2>1, Quiet
<1> QED BY <1>1, <1>2, <1>3, <1>4, <1>5, <1>7, <1>8, <1>9, <1>10, <1>11, <1>12, <1>13,
           <1>14, <1>15 DEF Next, Step

\* The docket queue, whatever its workers lease, lose and repeat, implements
\* the ledger of observed bills, kept copies and settled generations.
THEOREM QueueImplementsLedger == Spec => ImplementsLedger
<1>1. Init => Ledger!Init
  <2> SUFFICES ASSUME Init PROVE Ledger!Init OBVIOUS
  <2>1. LedgerState = [g \in Generations |-> "absent"] BY DEF Init, LedgerState, Mode, Absent
  <2>2. LedgerKept = [b \in Bills |-> -1] BY DEF Init, LedgerKept, NoDetail
  <2>3. Ledger!Generations = Generations BY DEF Ledger!Generations, Generations
  <2> QED BY <2>1, <2>2, <2>3 DEF Init, Ledger!Init
<1> QED BY <1>1, LedgerStep, DocketInvariant, PTL DEF Spec, ImplementsLedger, Ledger!Spec
=============================================================================
