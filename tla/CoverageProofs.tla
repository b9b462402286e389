---------------------------- MODULE CoverageProofs ----------------------------
(***************************************************************************)
(* The order of delta and store that Coverage promises, for any number of  *)
(* sessions and ingests that run at once, crash or lose each other's       *)
(* updates; what the store holds while they run one after the other; and   *)
(* that the dashboard's page adds up, whatever they are in the middle of.  *)
(***************************************************************************)
EXTENDS Dashboard, FiniteSetTheorems, SequenceTheorems, WellFoundedInduction, TLAPS

\* A session has written its delta, or has said that it could not.
Settled(s) == delta[s] \in {"written", "failed"}

\* Whoever has got as far as the temporary file has a delta that is settled,
\* and a session that has not written its own has not saved either.
DeltaInv ==
  /\ delta \in [Sessions -> {"none", "partial", "failed", "written"}]
  /\ pc \in [Procs -> {"idle", "delta", "open", "write", "rename", "done", "failed", "crashed"}]
  /\ saved \in Seq(Procs)
  /\ \A p \in Procs : pc[p] \in {"open", "write", "rename"} => Settled(Source[p])
  /\ \A p \in Procs : pc[p] = "delta" => p \in Sessions
  /\ \A s \in Sessions : pc[s] \in {"idle", "delta"} => delta[s] = "none"
  /\ DeltaBeforeStore

\* A step that leaves every delta and the list of saves alone, and in which
\* only process p moves on.
LEMMA OnlyMoves ==
  ASSUME DeltaInv, NEW p \in Procs, NEW at,
         at \in {"open", "write", "rename", "done", "failed", "crashed"},
         at \in {"open", "write", "rename"} => Settled(Source[p]),
         Goes(p, at), UNCHANGED <<delta, saved>>
  PROVE  DeltaInv'
  BY DEF DeltaInv, Goes, Settled, DeltaBeforeStore

\* A step in which session p leaves its delta in some state.
LEMMA Writes ==
  ASSUME DeltaInv, NEW p \in Procs, pc[p] = "delta", NEW at, NEW outcome,
         \/ at = "open" /\ outcome \in {"written", "failed"}
         \/ at = "crashed" /\ outcome = "partial",
         delta' = [delta EXCEPT ![p] = outcome], Goes(p, at), UNCHANGED saved
  PROVE  DeltaInv'
<1>1. p \in Sessions /\ delta[p] = "none" /\ Source[p] = p
  BY CoverageAssumption DEF DeltaInv, CoverageAssumption
<1>2. Source \in [Procs -> Sessions]
  BY CoverageAssumption DEF CoverageAssumption
<1>3. ASSUME NEW s \in Sessions, Settled(s) PROVE s # p /\ Settled(s)'
  BY <1>1, <1>3 DEF Settled, DeltaInv
<1>4. DeltaBeforeStore'
  <2>1. \A n \in DOMAIN saved : Source[saved[n]] \in Sessions /\ Settled(Source[saved[n]])
    BY <1>2 DEF DeltaInv, DeltaBeforeStore, Settled
  <2> QED
    BY <1>3, <2>1 DEF DeltaBeforeStore, Settled
<1>5. ASSUME NEW q \in Procs, pc'[q] \in {"open", "write", "rename"} PROVE Settled(Source[q])'
  <2>1. CASE q = p
    BY <1>1, <1>5, <2>1 DEF DeltaInv, Goes, Settled
  <2>2. CASE q # p
    BY <1>2, <1>3, <1>5, <2>2 DEF DeltaInv, Goes
  <2> QED
    BY <2>1, <2>2
<1>6. \A s \in Sessions : pc'[s] \in {"idle", "delta"} => delta'[s] = "none"
  BY <1>1 DEF DeltaInv, Goes
<1> QED
  BY <1>1, <1>4, <1>5, <1>6 DEF DeltaInv, Goes

\* Before the first session nothing is owed to a delta.
LEMMA DeltaInit == CoverageInit => DeltaInv
  BY DEF CoverageInit, DeltaInv, DeltaBeforeStore, Procs

\* No step of a session or an ingest owes to the store what no delta has.
LEMMA DeltaStep == DeltaInv /\ [CoverageNext]_coverageVars => DeltaInv'
<1> SUFFICES ASSUME DeltaInv, [CoverageNext]_coverageVars PROVE DeltaInv'
  OBVIOUS
<1>1. ASSUME NEW p \in Procs, Loads(p) PROVE DeltaInv'
  <2>1. CASE p \in Sessions
    BY <1>1, <2>1 DEF Loads, Goes, DeltaInv, Settled, DeltaBeforeStore
  <2>2. CASE p \notin Sessions
    <3>1. Settled(Source[p])
      BY <1>1, <2>2 DEF Loads, Procs, Settled
    <3> QED
      BY <1>1, <2>2, <3>1, OnlyMoves DEF Loads
  <2> QED
    BY <2>1, <2>2
<1>2. ASSUME NEW p \in Procs, LoadFails(p) PROVE DeltaInv'
  BY <1>2, OnlyMoves DEF LoadFails
<1>3. ASSUME NEW p \in Procs, WritesDelta(p) PROVE DeltaInv'
  BY <1>3, Writes DEF WritesDelta
<1>4. ASSUME NEW p \in Procs, DeltaFails(p) PROVE DeltaInv'
  BY <1>4, Writes DEF DeltaFails
<1>5. ASSUME NEW p \in Procs, OpensTmp(p) PROVE DeltaInv'
  <2>1. Settled(Source[p])
    BY <1>5 DEF OpensTmp, DeltaInv
  <2> QED
    BY <1>5, <2>1, OnlyMoves DEF OpensTmp
<1>6. ASSUME NEW p \in Procs, WritesTmp(p) PROVE DeltaInv'
  <2>1. Settled(Source[p])
    BY <1>6 DEF WritesTmp, DeltaInv
  <2> QED
    BY <1>6, <2>1, OnlyMoves DEF WritesTmp
<1>7. ASSUME NEW p \in Procs, Renames(p) PROVE DeltaInv'
  <2>1. Settled(Source[p])
    BY <1>7 DEF Renames, DeltaInv
  <2>2. saved' \in Seq(Procs)
    BY <1>7 DEF Renames, DeltaInv
  <2>3. DeltaBeforeStore'
    BY <1>7, <2>1 DEF Renames, DeltaInv, DeltaBeforeStore, Settled
  <2> QED
    BY <1>7, <2>2, <2>3 DEF Renames, Goes, DeltaInv, Settled
<1>8. ASSUME NEW p \in Procs, RenameFails(p) PROVE DeltaInv'
  BY <1>8, OnlyMoves DEF RenameFails
<1>9. ASSUME NEW p \in Procs, Crashes(p) PROVE DeltaInv'
  <2>1. CASE UNCHANGED delta
    BY <1>9, <2>1, OnlyMoves DEF Crashes
  <2>2. CASE pc[p] = "delta" /\ delta' = [delta EXCEPT ![p] = "partial"]
    BY <1>9, <2>2, Writes DEF Crashes
  <2> QED
    BY <1>9, <2>1, <2>2 DEF Crashes
<1>10. ASSUME LosesStore PROVE DeltaInv'
  BY <1>10 DEF LosesStore, DeltaInv, Settled, DeltaBeforeStore
<1>11. ASSUME UNCHANGED coverageVars PROVE DeltaInv'
  BY <1>11 DEF coverageVars, DeltaInv, Settled, DeltaBeforeStore
<1> QED
  BY <1>1, <1>2, <1>3, <1>4, <1>5, <1>6, <1>7, <1>8, <1>9, <1>10, <1>11
  DEF CoverageNext

\* What the store owes to a session is in the session's own bundle, unless it
\* said that it could not write it, for any number of processes that overlap
\* and crash (recordCoverage, ingestDelta).
THEOREM CoverageIsRebuildable == CoverageSpec => []DeltaBeforeStore
<1>1. DeltaInv => DeltaBeforeStore
  BY DEF DeltaInv
<1> QED
  BY <1>1, DeltaInit, DeltaStep, PTL DEF CoverageSpec

-----------------------------------------------------------------------------
(* What the store holds                                                    *)

Less == {e \in Nat \X Nat : e[1] < e[2]}

\* A nonempty set of naturals has a least element.
LEMMA Least ==
  ASSUME NEW S, S \subseteq Nat, S # {}
  PROVE  \E m \in S : \A n \in S : m <= n
<1>1. IsWellFoundedOn(Less, Nat)
  <2>1. Less = OpToRel(<, Nat)
    BY Zenon DEF Less, OpToRel
  <2> QED
    BY <2>1, NatLessThanWellFounded, Zenon
<1>2. PICK m \in S : \A n \in S : <<n, m>> \notin Less
  BY <1>1, WFMin
<1>3. ASSUME NEW n \in S PROVE m <= n
  <2>1. m \in Nat /\ n \in Nat /\ <<n, m>> \notin Less
    BY <1>2
  <2> QED
    BY <2>1 DEF Less
<1> QED
  BY <1>3

\* The recursion of FoldOf, as a relation.
IsFold(fold, order) ==
  fold = [n \in 0 .. Len(order) |->
          IF n = 0 THEN Bootstrap ELSE Folded(fold[n - 1], Source[order[n]])]

\* FoldOf is the end of a fold, if there is one.
LEMMA FoldOfIsFold ==
  ASSUME NEW order, NEW fold, IsFold(fold, order)
  PROVE  \E d : IsFold(d, order) /\ FoldOf(order) = d[Len(order)]
<1>1. IsFold(CHOOSE d : IsFold(d, order), order)
  OBVIOUS
<1> QED
  BY <1>1 DEF FoldOf, IsFold

\* Two folds agree as long as their orders do.
LEMMA FoldsAgree ==
  ASSUME NEW a \in Seq(Procs), NEW b \in Seq(Procs), NEW f, NEW g,
         IsFold(f, a), IsFold(g, b), Len(a) <= Len(b),
         \A n \in 1 .. Len(a) : a[n] = b[n]
  PROVE  \A n \in 0 .. Len(a) : f[n] = g[n]
<1> DEFINE Differ == {n \in 0 .. Len(a) : f[n] # g[n]}
<1>1. Len(a) \in Nat /\ Len(b) \in Nat
  OBVIOUS
<1>2. SUFFICES ASSUME Differ # {} PROVE FALSE
  BY <1>2
<1>3. Differ \subseteq Nat
  BY <1>1
<1> HIDE DEF Differ
<1>4. PICK n \in Differ : \A m \in Differ : n <= m
  BY <1>2, <1>3, Least
<1>5. n \in 0 .. Len(a) /\ f[n] # g[n]
  BY DEF Differ
<1>6. n # 0
  BY <1>1, <1>5 DEF IsFold
<1>7. n - 1 \in 0 .. Len(a) /\ n - 1 \notin Differ
  BY <1>1, <1>3, <1>4, <1>5, <1>6
<1>8. f[n - 1] = g[n - 1]
  BY <1>7 DEF Differ
<1>9. f[n] = Folded(f[n - 1], Source[a[n]])
  BY <1>1, <1>5, <1>6 DEF IsFold
<1>10. n \in 0 .. Len(b) /\ g[n] = Folded(g[n - 1], Source[b[n]])
  BY <1>1, <1>5, <1>6 DEF IsFold
<1>11. a[n] = b[n]
  BY <1>1, <1>5, <1>6
<1> QED
  BY <1>5, <1>8, <1>9, <1>10, <1>11

\* One more save is one more Folded.
LEMMA FoldExtends ==
  ASSUME NEW order \in Seq(Procs), NEW fold, IsFold(fold, order), NEW p \in Procs
  PROVE  /\ \E d : IsFold(d, Append(order, p))
         /\ FoldOf(Append(order, p)) = Folded(FoldOf(order), Source[p])
<1> DEFINE longer == Append(order, p)
<1> DEFINE next ==
      [n \in 0 .. Len(longer) |->
        IF n <= Len(order) THEN fold[n] ELSE Folded(fold[Len(order)], Source[p])]
<1>1. /\ Len(order) \in Nat
      /\ longer \in Seq(Procs)
      /\ Len(longer) = Len(order) + 1
      /\ longer[Len(longer)] = p
      /\ \A n \in 1 .. Len(order) : longer[n] = order[n]
  OBVIOUS
<1> HIDE DEF longer
<1>2. IsFold(next, longer)
  <2>1. ASSUME NEW n \in 0 .. Len(longer)
        PROVE  next[n] = IF n = 0 THEN Bootstrap ELSE Folded(next[n - 1], Source[longer[n]])
    <3>1. CASE n = 0
      BY <1>1, <3>1 DEF IsFold
    <3>2. CASE n # 0 /\ n <= Len(order)
      <4>1. next[n] = fold[n] /\ next[n - 1] = fold[n - 1]
        BY <1>1, <3>2
      <4>2. fold[n] = Folded(fold[n - 1], Source[order[n]])
        BY <1>1, <3>2 DEF IsFold
      <4> QED
        BY <1>1, <3>2, <4>1, <4>2
    <3>3. CASE n = Len(longer)
      <4>1. next[n] = Folded(fold[Len(order)], Source[p]) /\ next[n - 1] = fold[Len(order)]
        BY <1>1, <3>3
      <4> QED
        BY <1>1, <3>3, <4>1
    <3> QED
      BY <1>1, <3>1, <3>2, <3>3
  <2> HIDE DEF next
  <2>2. next = [n \in 0 .. Len(longer) |-> next[n]]
    BY DEF next
  <2> QED
    BY <2>1, <2>2 DEF IsFold
<1> HIDE DEF next
<1>3. PICK f : IsFold(f, order) /\ FoldOf(order) = f[Len(order)]
  BY FoldOfIsFold
<1>4. PICK g : IsFold(g, longer) /\ FoldOf(longer) = g[Len(longer)]
  BY <1>2, FoldOfIsFold
<1>5. f[Len(order)] = g[Len(order)]
  BY <1>1, <1>3, <1>4, FoldsAgree
<1>6. g[Len(longer)] = Folded(g[Len(order)], Source[p])
  BY <1>1, <1>4 DEF IsFold
<1> QED
  BY <1>2, <1>3, <1>4, <1>5, <1>6 DEF longer

\* Before the first save.
LEMMA FoldStarts == (\E d : IsFold(d, <<>>)) /\ FoldOf(<<>>) = Bootstrap
<1> DEFINE first == [n \in 0 .. 0 |-> Bootstrap]
<1>1. IsFold(first, <<>>)
  BY DEF IsFold
<1>2. PICK d : IsFold(d, <<>>) /\ FoldOf(<<>>) = d[0]
  BY <1>1, FoldOfIsFold
<1>3. d[0] = Bootstrap
  BY <1>2 DEF IsFold
<1> QED
  BY <1>1, <1>2, <1>3

\* What the one process that runs has in memory and in the temporary file.
FoldInMemory(p) ==
  /\ local[p] = Folded(FoldOf(saved), Source[p])
  /\ pc[p] = "write" => fd[p] = "tmp" /\ tmp = Partial
  /\ pc[p] = "rename" => tmp = local[p]

\* As long as no two processes have run at once, the store is the fold of what
\* was saved, and the process that runs is about to add itself.
FoldInv ==
  /\ pc \in [Procs -> {"idle", "delta", "open", "write", "rename", "done", "failed", "crashed"}]
  /\ DOMAIN local = Procs /\ DOMAIN fd = Procs
  /\ saved \in Seq(Procs) /\ \E d : IsFold(d, saved)
  /\ ~overlapped =>
       /\ \A p, q \in Running : p = q
       /\ IF store = Absent THEN saved = <<>> ELSE store = FoldOf(saved)
       /\ \A p \in Running : FoldInMemory(p)

\* An empty store is the fold of nothing.
LEMMA FoldInit == CoverageInit => FoldInv
<1> SUFFICES ASSUME CoverageInit PROVE FoldInv
  OBVIOUS
<1>1. Running = {}
  BY DEF CoverageInit, Running
<1> QED
  BY <1>1, FoldStarts DEF CoverageInit, FoldInv

\* A step of one process that leaves the store alone, and what it knows true.
LEMMA FoldMoves ==
  ASSUME FoldInv, NEW p \in Procs, NEW at, Goes(p, at),
         at \in {"delta", "open", "write", "rename", "done", "failed", "crashed"},
         p \in Running \/ p \notin Running',
         local' = local, DOMAIN fd' = Procs, UNCHANGED <<store, saved, overlapped>>,
         ~overlapped /\ p \in Running' => FoldInMemory(p)',
         p \in Running \/ UNCHANGED <<tmp, fd>>
  PROVE  FoldInv'
<1>1. \A q \in Procs : q # p => pc'[q] = pc[q]
  BY DEF FoldInv, Goes
<1>2. Running' \subseteq Running
  BY <1>1 DEF Running
<1>3. ASSUME ~overlapped, NEW q \in Running' PROVE FoldInMemory(q)'
  <2>1. CASE q = p
    BY <1>3, <2>1
  <2>2. CASE q # p
    <3>1. q \in Running /\ q \in Procs /\ p \notin Running
      BY <1>2, <1>3, <2>2 DEF FoldInv, Running
    <3>2. FoldInMemory(q) /\ UNCHANGED <<tmp, fd>> /\ pc'[q] = pc[q]
      BY <1>1, <1>3, <2>2, <3>1 DEF FoldInv
    <3> QED
      BY <3>2 DEF FoldInMemory
  <2> QED
    BY <2>1, <2>2
<1>4. pc' \in [Procs -> {"idle", "delta", "open", "write", "rename", "done", "failed", "crashed"}]
  BY DEF FoldInv, Goes
<1> QED
  BY <1>2, <1>3, <1>4 DEF FoldInv

\* Every step leaves the store the fold of the updates that were saved.
LEMMA FoldStep == FoldInv /\ [CoverageNext]_coverageVars => FoldInv'
<1> SUFFICES ASSUME FoldInv, [CoverageNext]_coverageVars PROVE FoldInv'
  OBVIOUS
<1>1. ASSUME NEW p \in Procs, Loads(p) PROVE FoldInv'
  <2>1. /\ \A q \in Procs : q # p => pc'[q] = pc[q] /\ local'[q] = local[q]
        /\ p \notin Running /\ pc'[p] \in {"delta", "open"}
        /\ UNCHANGED <<store, tmp, fd, saved>>
    BY <1>1 DEF Loads, Goes, FoldInv, Running
  <2>2. Running' = Running \cup {p}
    BY <2>1 DEF Running
  <2>3. ASSUME ~overlapped' PROVE Running = {} /\ ~overlapped
    BY <1>1, <2>3 DEF Loads
  <2>4. ASSUME ~overlapped' PROVE FoldInMemory(p)'
    <3>1. FoldOf(saved) = IF store = Absent THEN Bootstrap ELSE store
      BY <2>3, <2>4, FoldStarts DEF FoldInv
    <3>2. local'[p] = Folded(FoldOf(saved), Source[p])
      BY <1>1, <3>1 DEF Loads, FoldInv
    <3> QED
      BY <2>1, <3>2 DEF FoldInMemory
  <2>5. pc' \in [Procs -> {"idle", "delta", "open", "write", "rename", "done", "failed", "crashed"}]
    BY <1>1 DEF Loads, Goes, FoldInv
  <2>6. DOMAIN local' = Procs
    BY <1>1 DEF Loads, FoldInv
  <2> QED
    BY <2>1, <2>2, <2>3, <2>4, <2>5, <2>6 DEF FoldInv
<1>2. ASSUME NEW p \in Procs, LoadFails(p) PROVE FoldInv'
  <2>1. p \notin Running'
    BY <1>2 DEF LoadFails, Goes, FoldInv, Running
  <2> QED
    BY <1>2, <2>1, FoldMoves DEF LoadFails, FoldInv
<1>3. ASSUME NEW p \in Procs, WritesDelta(p) \/ DeltaFails(p) PROVE FoldInv'
  <2>1. p \in Running /\ pc'[p] = "open"
    BY <1>3 DEF WritesDelta, DeltaFails, Goes, FoldInv, Running
  <2>2. ~overlapped => FoldInMemory(p)'
    BY <1>3, <2>1 DEF WritesDelta, DeltaFails, FoldInv, FoldInMemory
  <2> QED
    BY <1>3, <2>1, <2>2, FoldMoves DEF WritesDelta, DeltaFails, FoldInv
<1>4. ASSUME NEW p \in Procs, OpensTmp(p) PROVE FoldInv'
  <2>1. p \in Running /\ pc'[p] = "write" /\ fd'[p] = "tmp" /\ DOMAIN fd' = Procs
    BY <1>4 DEF OpensTmp, Goes, FoldInv, Running
  <2>2. ~overlapped => FoldInMemory(p)'
    BY <1>4, <2>1 DEF OpensTmp, FoldInv, FoldInMemory
  <2> QED
    BY <1>4, <2>1, <2>2, FoldMoves DEF OpensTmp
<1>5. ASSUME NEW p \in Procs, WritesTmp(p) PROVE FoldInv'
  <2>1. p \in Running /\ pc'[p] = "rename" /\ pc[p] = "write" /\ UNCHANGED fd
    BY <1>5 DEF WritesTmp, Goes, FoldInv, Running
  <2>2. CASE ~overlapped
    <3>1. FoldInMemory(p) /\ fd[p] = "tmp" /\ tmp = Partial
      BY <2>1, <2>2 DEF FoldInv, FoldInMemory
    <3>2. tmp' = local[p] /\ UNCHANGED store
      BY <1>5, <3>1 DEF WritesTmp, Overwrites
    <3>3. FoldInMemory(p)'
      BY <1>5, <2>1, <3>1, <3>2 DEF WritesTmp, FoldInMemory
    <3> QED
      BY <1>5, <2>1, <3>2, <3>3, FoldMoves DEF WritesTmp, FoldInv
  <2>3. CASE overlapped
    BY <1>5, <2>3 DEF WritesTmp, Goes, FoldInv
  <2> QED
    BY <2>2, <2>3
<1>6. ASSUME NEW p \in Procs, Renames(p) PROVE FoldInv'
  <2>1. saved' \in Seq(Procs) /\ saved' = Append(saved, p)
    BY <1>6 DEF Renames, FoldInv
  <2>2. /\ \E d : IsFold(d, saved')
        /\ FoldOf(saved') = Folded(FoldOf(saved), Source[p])
    BY <2>1, FoldExtends DEF FoldInv
  <2>3. p \in Running /\ pc[p] = "rename" /\ Running' \subseteq Running \ {p}
    BY <1>6 DEF Renames, Goes, FoldInv, Running
  <2>4. ASSUME ~overlapped PROVE Running' = {} /\ store' # Absent /\ store' = FoldOf(saved')
    <3>1. Running = {p} /\ FoldInMemory(p)
      BY <2>3, <2>4 DEF FoldInv
    <3>2. store' = tmp /\ tmp # Absent /\ tmp = local[p]
      BY <1>6, <2>3, <3>1 DEF Renames, FoldInMemory
    <3> QED
      BY <2>2, <2>3, <3>1, <3>2 DEF FoldInMemory
  <2>5. pc' \in [Procs -> {"idle", "delta", "open", "write", "rename", "done", "failed", "crashed"}]
    BY <1>6 DEF Renames, Goes, FoldInv
  <2>6. UNCHANGED <<local, overlapped>> /\ DOMAIN fd' = Procs
    BY <1>6 DEF Renames
  <2> QED
    BY <2>1, <2>2, <2>4, <2>5, <2>6 DEF FoldInv
<1>7. ASSUME NEW p \in Procs, RenameFails(p) PROVE FoldInv'
  <2>1. p \in Running /\ p \notin Running'
    BY <1>7 DEF RenameFails, Goes, FoldInv, Running
  <2> QED
    BY <1>7, <2>1, FoldMoves DEF RenameFails, FoldInv
<1>8. ASSUME NEW p \in Procs, Crashes(p) PROVE FoldInv'
  <2>1. p \in Running /\ p \notin Running'
    BY <1>8 DEF Crashes, Goes, FoldInv, Running
  <2> QED
    BY <1>8, <2>1, FoldMoves DEF Crashes, FoldInv
<1>9. ASSUME LosesStore PROVE FoldInv'
  <2>1. Running = {} /\ Running' = {} /\ saved' = <<>> /\ store' = Absent
    BY <1>9 DEF LosesStore, Running
  <2> QED
    BY <1>9, <2>1, FoldStarts DEF LosesStore, FoldInv
<1>10. ASSUME UNCHANGED coverageVars PROVE FoldInv'
  BY <1>10 DEF coverageVars, FoldInv, Running, FoldInMemory
<1> QED
  BY <1>1, <1>2, <1>3, <1>4, <1>5, <1>6, <1>7, <1>8, <1>9, <1>10 DEF CoverageNext

\* Of processes that run one after the other, every one that saved is in the
\* store, none twice and none partly, however many others were killed or failed
\* in between (Document.Save, coverage.Load).
THEOREM CoverageStoreIsFold == CoverageSpec => []StoreIsFold
<1>1. FoldInv => StoreIsFold
  BY DEF FoldInv, StoreIsFold
<1> QED
  BY <1>1, FoldInit, FoldStep, PTL DEF CoverageSpec

\* Observe never takes anything from an entry.
LEMMA ObserveGrows ==
  ASSUME NEW entry \in [state : Ranks, count : Nat, first : Sessions \cup {None}],
         NEW key, key.decoded \in BOOLEAN, NEW s \in Sessions
  PROVE  /\ ObserveKey(entry, key, s) \in [state : Ranks, count : Nat, first : Sessions \cup {None}]
         /\ ObserveKey(entry, key, s).state >= entry.state
         /\ ObserveKey(entry, key, s).count >= entry.count
         /\ entry.first # None => ObserveKey(entry, key, s).first = entry.first
<1>1. CASE key \notin Seen[s]
  BY <1>1 DEF ObserveKey, Ranks
<1>2. CASE key \in Seen[s]
  BY <1>2 DEF ObserveKey, Observe, Ranks
<1> QED
  BY <1>1, <1>2

\* Nor does folding a session in take anything from a document.
LEMMA FoldedGrows ==
  ASSUME NEW d \in Docs, NEW s \in Sessions
  PROVE  /\ Folded(d, s) \in Docs
         /\ \A e \in Elements :
              /\ Folded(d, s)[e].state >= d[e].state
              /\ Folded(d, s)[e].count >= d[e].count
              /\ d[e].first # None => Folded(d, s)[e].first = d[e].first
<1> DEFINE Entries == [state : Ranks, count : Nat, first : Sessions \cup {None}]
<1>1. ASSUME NEW e \in Elements
      PROVE  /\ Folded(d, s)[e] \in Entries
             /\ Folded(d, s)[e].state >= d[e].state
             /\ Folded(d, s)[e].count >= d[e].count
             /\ d[e].first # None => Folded(d, s)[e].first = d[e].first
  <2> DEFINE seen == [element |-> e, decoded |-> FALSE]
  <2> DEFINE read == [element |-> e, decoded |-> TRUE]
  <2> DEFINE once == ObserveKey(d[e], seen, s)
  <2> DEFINE twice == ObserveKey(once, read, s)
  <2>1. d[e] \in Entries /\ seen.decoded \in BOOLEAN /\ read.decoded \in BOOLEAN
    BY DEF Docs
  <2> HIDE DEF seen, read
  <2>2. /\ once \in Entries /\ once.state >= d[e].state /\ once.count >= d[e].count
        /\ d[e].first # None => once.first = d[e].first
    BY <2>1, ObserveGrows
  <2> HIDE DEF once
  <2>3. /\ twice \in Entries /\ twice.state >= once.state /\ twice.count >= once.count
        /\ once.first # None => twice.first = once.first
    BY <2>1, <2>2, ObserveGrows
  <2>4. Folded(d, s)[e] = twice
    BY DEF Folded, once, seen, read
  <2> HIDE DEF twice
  <2> QED
    BY <2>1, <2>2, <2>3, <2>4 DEF Ranks
<1>2. Folded(d, s) \in Docs
  BY <1>1 DEF Docs, Folded
<1> QED
  BY <1>1, <1>2

\* A step that changes the store of processes that run one at a time folds one
\* more session into it.
LEMMA StoreGrows ==
  ASSUME FoldInv, [CoverageNext]_coverageVars, store \in Docs, lost' = lost, ~overlapped'
  PROVE  store' = store \/ \E s \in Sessions : store' = Folded(store, s)
<1>1. ASSUME NEW p \in Procs, WritesTmp(p) PROVE store' = store
  <2>1. ~overlapped /\ p \in Running /\ pc[p] = "write"
    BY <1>1 DEF WritesTmp, Running
  <2>2. fd[p] = "tmp"
    BY <2>1 DEF FoldInv, FoldInMemory
  <2> QED
    BY <1>1, <2>2 DEF WritesTmp
<1>2. ASSUME NEW p \in Procs, Renames(p) PROVE store' = Folded(store, Source[p])
  <2>1. ~overlapped /\ p \in Running /\ pc[p] = "rename"
    BY <1>2 DEF Renames, Running
  <2>2. store = FoldOf(saved)
    BY <2>1, CoverageAssumption DEF CoverageAssumption, FoldInv
  <2>3. tmp = Folded(FoldOf(saved), Source[p])
    BY <2>1 DEF FoldInv, FoldInMemory
  <2> QED
    BY <1>2, <2>2, <2>3 DEF Renames
<1>3. Source \in [Procs -> Sessions]
  BY CoverageAssumption DEF CoverageAssumption
<1> QED
  BY <1>1, <1>2, <1>3
  DEF CoverageNext, coverageVars, Loads, LoadFails, WritesDelta, DeltaFails,
      OpensTmp, RenameFails, Crashes, LosesStore

\* While the store is not deleted and no two processes have run at once, no
\* element of it moves back, is counted less, or changes who saw it first
\* (coverage.State: "State never regresses").
THEOREM CoverageNeverRegresses == CoverageSpec => NeverRegresses
<1>1. ASSUME FoldInv, [CoverageNext]_coverageVars, store \in Docs, lost' = lost, ~overlapped'
      PROVE  store' \in Docs /\ \A e \in Elements : ~Regresses(e)
  <2>1. CASE store' = store
    BY <1>1, <2>1 DEF Regresses, Docs, Ranks
  <2>2. ASSUME NEW s \in Sessions, store' = Folded(store, s)
        PROVE  store' \in Docs /\ \A e \in Elements : ~Regresses(e)
    <3>1. \A e \in Elements : /\ store[e].state \in Int /\ store'[e].state \in Int
                               /\ store[e].count \in Int /\ store'[e].count \in Int
      BY <1>1, <2>2, FoldedGrows DEF Docs, Ranks
    <3> QED
      BY <1>1, <2>2, <3>1, FoldedGrows DEF Regresses
  <2> QED
    BY <1>1, <2>1, <2>2, StoreGrows
<1>2. FoldInv /\ [CoverageNext]_coverageVars
        => [(store \in Docs /\ lost' = lost /\ ~overlapped') =>
              store' \in Docs /\ \A e \in Elements : ~Regresses(e)]_coverageVars
  BY <1>1
<1> QED
  BY <1>2, FoldInit, FoldStep, PTL DEF CoverageSpec, NeverRegresses

-----------------------------------------------------------------------------
(* What the page adds up                                                   *)

\* What holds of 0 and of each number after one it holds of, up to n.
LEMMA Upward ==
  ASSUME NEW n \in Nat, NEW S, 0 \in S,
         \A k \in 1 .. n : k - 1 \in S => k \in S
  PROVE  \A k \in 0 .. n : k \in S
<1> DEFINE Rest == {k \in 0 .. n : k \notin S}
<1>1. SUFFICES ASSUME Rest # {} PROVE FALSE
  BY <1>1
<1>2. Rest \subseteq Nat
  OBVIOUS
<1> HIDE DEF Rest
<1>3. PICK k \in Rest : \A j \in Rest : k <= j
  BY <1>1, <1>2, Least
<1>4. k \in 0 .. n /\ k \notin S
  BY DEF Rest
<1>5. k \in 1 .. n /\ k - 1 \in 0 .. n /\ k - 1 \notin Rest
  BY <1>2, <1>3, <1>4
<1> QED
  BY <1>4, <1>5 DEF Rest

\* The elements of a document that are in one of these states.
InState(d, ranks) == {e \in Elements : d[e].state \in ranks}

\* Those of them that are of one of these kinds.
InKinds(d, ranks, kinds) == {e \in InState(d, ranks) : Kind[e] \in kinds}

\* One kind more is its own elements more.
LEMMA KindAdds ==
  ASSUME NEW d, NEW ranks, NEW kinds \in SUBSET Kinds, NEW k \in kinds
  PROVE  Cardinality(InKinds(d, ranks, kinds))
           = Count(d, k, ranks) + Cardinality(InKinds(d, ranks, kinds \ {k}))
<1> DEFINE own == {e \in Elements : Kind[e] = k /\ d[e].state \in ranks}
           rest == InKinds(d, ranks, kinds \ {k})
<1>1. IsFiniteSet(Elements)
  BY DashboardAssumption DEF DashboardAssumption
<1>2. own \in SUBSET Elements /\ rest \in SUBSET Elements
  BY DEF InKinds, InState
<1>3. InKinds(d, ranks, kinds) = own \cup rest /\ own \cap rest = {}
  BY DEF InKinds, InState
<1>4. Count(d, k, ranks) = Cardinality(own)
  BY DEF Count
<1> HIDE DEF own, rest
<1>5. /\ IsFiniteSet(own) /\ IsFiniteSet(rest)
      /\ Cardinality(own) \in Nat /\ Cardinality(rest) \in Nat
  BY <1>1, <1>2, FS_Subset, FS_CardinalityType
<1>6. Cardinality(own \cup rest) = Cardinality(own) + Cardinality(rest) - Cardinality(own \cap rest)
  BY <1>5, FS_Union
<1>7. Cardinality(own \cap rest) = 0
  BY <1>3, FS_EmptySet
<1> QED
  BY <1>3, <1>4, <1>5, <1>6, <1>7 DEF rest

\* The recursion of the sum over the kinds, as a relation.
IsTotal(iter, d, ranks) ==
  iter = [s \in SUBSET Kinds |->
           IF s = {} THEN 0
           ELSE LET k == CHOOSE x \in s : TRUE
                IN  Count(d, k, ranks) + iter[s \ {k}]]

\* The sum over the kinds is what such a recursion ends with, if there is one.
LEMMA TotalIsTotal ==
  ASSUME NEW d, NEW ranks, NEW iter, IsTotal(iter, d, ranks)
  PROVE  \E f : /\ IsTotal(f, d, ranks)
                /\ Total(d, ranks) = f[Kinds]
<1>1. IsTotal(CHOOSE f : IsTotal(f, d, ranks), d, ranks)
  OBVIOUS
<1> QED
  BY <1>1 DEF Total, MapThenSumSet, MapThenFoldSet, IsTotal

\* It counts every element that is in one of the states, of whatever kind.
LEMMA TotalCounts ==
  ASSUME NEW d, NEW ranks
  PROVE  Total(d, ranks) = Cardinality(InState(d, ranks))
<1> DEFINE size(s) == Cardinality(InKinds(d, ranks, s))
<1>1. IsFiniteSet(Kinds) /\ Kind \in [Elements -> Kinds]
  BY DashboardAssumption DEF DashboardAssumption
<1>2. size({}) = 0
  <2>1. InKinds(d, ranks, {}) = {}
    BY DEF InKinds
  <2> QED
    BY <2>1, FS_EmptySet
<1>3. ASSUME NEW s \in SUBSET Kinds, s # {}
      PROVE  LET k == CHOOSE x \in s : TRUE
             IN  k \in s /\ size(s) = Count(d, k, ranks) + size(s \ {k})
  <2>1. (CHOOSE x \in s : TRUE) \in s
    BY <1>3
  <2>2. ASSUME NEW k \in s PROVE size(s) = Count(d, k, ranks) + size(s \ {k})
    BY KindAdds
  <2> HIDE DEF size
  <2> QED
    BY <2>1, <2>2
<1>4. \E iter : IsTotal(iter, d, ranks)
  <2> DEFINE iter == [s \in SUBSET Kinds |-> size(s)]
  <2>1. ASSUME NEW s \in SUBSET Kinds
        PROVE  size(s) = IF s = {} THEN 0
                         ELSE LET k == CHOOSE x \in s : TRUE
                              IN  Count(d, k, ranks) + iter[s \ {k}]
    <3> HIDE DEF size
    <3> QED
      BY <1>2, <1>3
  <2> HIDE DEF size
  <2>2. IsTotal(iter, d, ranks)
    BY <2>1 DEF IsTotal
  <2> QED
    BY <2>2
<1>5. PICK f : /\ IsTotal(f, d, ranks)
               /\ Total(d, ranks) = f[Kinds]
  BY <1>4, TotalIsTotal
<1> DEFINE Wrong == {s \in SUBSET Kinds : f[s] # size(s)}
<1>6. Wrong = {}
  <2> DEFINE Sizes == {Cardinality(s) : s \in Wrong}
  <2>1. SUFFICES ASSUME Wrong # {} PROVE FALSE
    OBVIOUS
  <2>2. \A s \in SUBSET Kinds : IsFiniteSet(s) /\ Cardinality(s) \in Nat
    BY <1>1, FS_Subset, FS_CardinalityType
  <2>3. Sizes \subseteq Nat /\ Sizes # {}
    BY <2>1, <2>2
  <2> HIDE DEF Sizes
  <2>4. PICK n \in Sizes : \A m \in Sizes : n <= m
    BY <2>3, Least
  <2>5. PICK s \in Wrong : n = Cardinality(s)
    BY DEF Sizes
  <2> DEFINE k == CHOOSE x \in s : TRUE
  <2>6. s \in SUBSET Kinds /\ f[s] # size(s)
    OBVIOUS
  <2>7. f[s] = IF s = {} THEN 0 ELSE Count(d, k, ranks) + f[s \ {k}]
    BY <1>5, <2>6 DEF IsTotal
  <2> HIDE DEF size
  <2>8. s # {}
    BY <1>2, <2>6, <2>7
  <2>9. k \in s /\ size(s) = Count(d, k, ranks) + size(s \ {k})
    BY <1>3, <2>6, <2>8
  <2> HIDE DEF k
  <2>10. s \ {k} \in Wrong
    BY <2>6, <2>7, <2>8, <2>9
  <2>11. Cardinality(s \ {k}) \in Sizes
    BY <2>10 DEF Sizes
  <2>12. Cardinality(s \ {k}) = Cardinality(s) - 1 /\ Cardinality(s) \in Nat
    BY <2>2, <2>6, <2>9, FS_RemoveElement
  <2>13. Cardinality(s) <= Cardinality(s) - 1
    BY <2>4, <2>5, <2>11, <2>12
  <2> QED
    BY <2>12, <2>13
<1>7. f[Kinds] = size(Kinds)
  BY <1>6
<1>8. InKinds(d, ranks, Kinds) = InState(d, ranks)
  BY <1>1 DEF InKinds, InState
<1> QED
  BY <1>5, <1>7, <1>8

\* What the totals of a document are.
LEMMA TotalsCount ==
  ASSUME NEW d \in Docs
  PROVE  /\ Totals(d).known = Cardinality(Elements) /\ Cardinality(Elements) \in Nat
         /\ Totals(d).never
              = Cardinality(Elements) - Cardinality({e \in Elements : d[e].state # 0})
<1>1. IsFiniteSet(Elements)
  BY DashboardAssumption DEF DashboardAssumption
<1>2. \A e \in Elements : d[e].state \in 0 .. 2
  BY DEF Docs, Ranks
<1>3. InState(d, Ranks) = Elements
  BY <1>2 DEF InState, Ranks
<1>4. /\ InState(d, {2}) \cup InState(d, {1}) = {e \in Elements : d[e].state # 0}
      /\ InState(d, {2}) \cap InState(d, {1}) = {}
  BY <1>2 DEF InState
<1>5. InState(d, {2}) \in SUBSET Elements /\ InState(d, {1}) \in SUBSET Elements
  BY DEF InState
<1>6. /\ IsFiniteSet(InState(d, {2})) /\ Cardinality(InState(d, {2})) \in Nat
      /\ IsFiniteSet(InState(d, {1})) /\ Cardinality(InState(d, {1})) \in Nat
      /\ Cardinality(Elements) \in Nat
  BY <1>1, <1>5, FS_Subset, FS_CardinalityType
<1>7. Cardinality({e \in Elements : d[e].state # 0})
        = Cardinality(InState(d, {2})) + Cardinality(InState(d, {1}))
            - Cardinality(InState(d, {2}) \cap InState(d, {1}))
  BY <1>4, <1>6, FS_Union
<1>8. Cardinality(InState(d, {2}) \cap InState(d, {1})) = 0
  BY <1>4, FS_EmptySet
<1>9. /\ Totals(d).known = Cardinality(InState(d, Ranks))
      /\ Totals(d).never = Cardinality(InState(d, Ranks)) - Cardinality(InState(d, {2}))
                             - Cardinality(InState(d, {1}))
  BY TotalCounts DEF Totals
<1> QED
  BY <1>3, <1>6, <1>7, <1>8, <1>9

-----------------------------------------------------------------------------
(* What the journey counts down                                            *)

\* The elements that the first n sessions of the journey were the first to see.
SawBy(d, order, n) == UNION {Credited(d, order[i]) : i \in 1 .. n}

\* An order lists every session with credit, and none twice.
LEMMA OrderLists ==
  ASSUME NEW d, NEW order \in Orders(d)
  PROVE  /\ Len(order) \in Nat /\ DOMAIN order = 1 .. Len(order)
         /\ \A i \in 1 .. Len(order) : order[i] \in Sessions /\ Credited(d, order[i]) # {}
         /\ \A i, j \in 1 .. Len(order) : i # j => order[i] # order[j]
         /\ \A s \in Sessions : Credited(d, s) # {} => \E i \in 1 .. Len(order) : order[i] = s
<1> DEFINE credited == {s \in Sessions : Credited(d, s) # {}}
           n == Cardinality(credited)
<1>1. IsFiniteSet(Sessions) /\ credited \in SUBSET Sessions
  BY DashboardAssumption DEF DashboardAssumption
<1>2. IsFiniteSet(credited) /\ n \in Nat
  BY <1>1, FS_Subset, FS_CardinalityType
<1>3. order \in [1 .. n -> credited] /\ \A i, j \in 1 .. n : i # j => order[i] # order[j]
  BY DEF Orders, SetToSeqs
<1>4. \A i \in 1 .. n : order[i] \in Sessions /\ Credited(d, order[i]) # {}
  BY <1>3
<1> HIDE DEF credited
<1> HIDE DEF n
<1>5. Len(order) = n /\ DOMAIN order = 1 .. n
  BY <1>2, <1>3
<1>6. order \in Injection(1 .. n, credited)
  BY <1>3 DEF Injection, IsInjective
<1>7. Cardinality(1 .. n) = n
  BY <1>2, FS_Interval
<1>8. order \in Surjection(1 .. n, credited)
  BY <1>2, <1>6, <1>7, FS_Injection DEF n
<1>9. \A s \in credited : \E i \in 1 .. n : order[i] = s
  BY <1>8 DEF Surjection
<1> QED
  BY <1>2, <1>3, <1>4, <1>5, <1>9 DEF credited

\* Each session of the journey adds to what had been seen before it, and the
\* last leaves nothing out that has been observed.
LEMMA SawByGrows ==
  ASSUME NEW d \in Docs, NEW order \in Orders(d),
         \A e \in Elements : d[e].state # 0 => d[e].first \in Sessions
  PROVE  /\ \A n \in 0 .. Len(order) : /\ IsFiniteSet(SawBy(d, order, n))
                                       /\ Cardinality(SawBy(d, order, n)) \in Nat
         /\ Cardinality(SawBy(d, order, 0)) = 0
         /\ \A n \in 1 .. Len(order) :
              Cardinality(SawBy(d, order, n - 1)) < Cardinality(SawBy(d, order, n))
         /\ SawBy(d, order, Len(order)) = {e \in Elements : d[e].state # 0}
<1> DEFINE saw(n) == SawBy(d, order, n)
<1>1. IsFiniteSet(Elements)
  BY DashboardAssumption DEF DashboardAssumption
<1>2. /\ Len(order) \in Nat
      /\ \A i \in 1 .. Len(order) : order[i] \in Sessions /\ Credited(d, order[i]) # {}
      /\ \A i, j \in 1 .. Len(order) : i # j => order[i] # order[j]
      /\ \A s \in Sessions : Credited(d, s) # {} => \E i \in 1 .. Len(order) : order[i] = s
  BY OrderLists
<1>3. ASSUME NEW n \in 0 .. Len(order)
      PROVE  IsFiniteSet(saw(n)) /\ Cardinality(saw(n)) \in Nat
  <2>1. saw(n) \in SUBSET Elements
    BY DEF SawBy, Credited
  <2> QED
    BY <1>1, <2>1, FS_Subset, FS_CardinalityType
<1>4. Cardinality(saw(0)) = 0
  <2>1. saw(0) = {}
    BY DEF SawBy
  <2> QED
    BY <2>1, FS_EmptySet
<1>5. ASSUME NEW n \in 1 .. Len(order) PROVE Cardinality(saw(n - 1)) < Cardinality(saw(n))
  <2>1. n - 1 \in 0 .. Len(order) /\ n \in 0 .. Len(order)
    BY <1>2
  <2>2. \A i \in 1 .. n - 1 : i \in 1 .. n /\ i \in 1 .. Len(order) /\ i # n
    BY <1>2
  <2>3. saw(n - 1) \in SUBSET saw(n)
    BY <2>2 DEF SawBy
  <2>4. PICK e : e \in Credited(d, order[n])
    BY <1>2
  <2>5. e \in saw(n)
    BY <2>4 DEF SawBy
  <2>6. e \notin saw(n - 1)
    BY <1>2, <2>2, <2>4 DEF SawBy, Credited
  <2>7. saw(n - 1) # saw(n)
    BY <2>5, <2>6
  <2> HIDE DEF saw
  <2>8. /\ Cardinality(saw(n - 1)) <= Cardinality(saw(n))
        /\ Cardinality(saw(n - 1)) # Cardinality(saw(n))
    BY <1>3, <2>1, <2>3, <2>7, FS_Subset
  <2> QED
    BY <1>3, <2>1, <2>8
<1>6. saw(Len(order)) = {e \in Elements : d[e].state # 0}
  <2>1. ASSUME NEW e \in Elements, d[e].state # 0 PROVE e \in saw(Len(order))
    <3>1. d[e].first \in Sessions /\ e \in Credited(d, d[e].first)
      BY <2>1 DEF Credited
    <3>2. PICK i \in 1 .. Len(order) : order[i] = d[e].first
      BY <1>2, <3>1
    <3> QED
      BY <3>1, <3>2 DEF SawBy
  <2>2. saw(Len(order)) \subseteq {e \in Elements : d[e].state # 0}
    BY DEF SawBy, Credited
  <2> QED
    BY <2>1, <2>2
<1> QED
  BY <1>3, <1>4, <1>5, <1>6

\* The points before they are collapsed: no step but the first is called Start,
\* each goes down.
Descends(points, P) ==
  /\ points \in Seq(P) /\ Len(points) # 0
  /\ \A p \in P : p.value \in Int
  /\ \A n \in 2 .. Len(points) : /\ points[n].value < points[n - 1].value
                                 /\ points[n].label # points[1].label

\* What the first n points have been collapsed to.
Merged(m, points, n, P) ==
  /\ m \in Seq(P) /\ Len(m) # 0
  /\ m[1] = points[1]
  /\ m[Len(m)] = points[n]
  /\ n # 1 => Len(m) # 1
  /\ \A k \in 2 .. Len(m) : m[k].value < m[k - 1].value /\ m[k].label # m[k - 1].label

\* All but the last of a sequence.
LEMMA FrontOf ==
  ASSUME NEW P, NEW m \in Seq(P), Len(m) # 0
  PROVE  /\ Front(m) \in Seq(P) /\ Len(Front(m)) = Len(m) - 1
         /\ \A k \in 1 .. Len(m) - 1 : Front(m)[k] = m[k]
<1> DEFINE n == Len(m) - 1
<1>1. n \in Nat
  OBVIOUS
<1>2. \A i \in 1 .. n : m[i] \in P
  OBVIOUS
<1> HIDE DEF n
<1>3. /\ SubSeq(m, 1, n) \in Seq(P)
      /\ Len(SubSeq(m, 1, n)) = IF 1 <= n THEN n - 1 + 1 ELSE 0
      /\ \A i \in 1 .. n - 1 + 1 : SubSeq(m, 1, n)[i] = m[1 + i - 1]
  BY <1>1, <1>2, SubSeqProperties
<1>4. Len(SubSeq(m, 1, n)) = n /\ \A i \in 1 .. n : SubSeq(m, 1, n)[i] = m[i]
  BY <1>1, <1>3
<1> QED
  BY <1>3, <1>4 DEF Front, n

\* A point with the label of the last one takes its place, another comes after it.
LEMMA MergeStep ==
  ASSUME NEW P, NEW points, Descends(points, P), NEW n \in 2 .. Len(points),
         NEW m, Merged(m, points, n - 1, P)
  PROVE  Merged(Merge(m, points[n]), points, n, P)
<1> DEFINE p == points[n]
           next == Merge(m, p)
<1>1. /\ Len(points) \in Nat /\ n \in 2 .. Len(points) /\ n \in Nat /\ n - 1 # 0 /\ n # 1
      /\ p \in P /\ points[n - 1] \in P
      /\ p.value < points[n - 1].value /\ p.label # points[1].label
  BY DEF Descends
<1>2. /\ m \in Seq(P) /\ Len(m) \in Nat \ {0}
      /\ m[1] = points[1] /\ m[Len(m)] = points[n - 1]
      /\ n - 1 # 1 => Len(m) # 1
      /\ \A k \in 2 .. Len(m) : m[k].value < m[k - 1].value /\ m[k].label # m[k - 1].label
  BY DEF Merged
<1> HIDE DEF p
<1>3. CASE m[Len(m)].label = p.label
  <2>1. Len(m) # 1
    BY <1>1, <1>2, <1>3
  <2>2. next = Append(Front(m), p)
    BY <1>3 DEF Merge, Last
  <2>3. /\ Front(m) \in Seq(P) /\ Len(Front(m)) = Len(m) - 1
        /\ \A k \in 1 .. Len(m) - 1 : Front(m)[k] = m[k]
    BY <1>2, FrontOf
  <2>4. /\ next \in Seq(P) /\ Len(next) = Len(m) /\ next[Len(m)] = p
        /\ \A k \in 1 .. Len(m) - 1 : next[k] = m[k]
    BY <1>1, <1>2, <2>2, <2>3
  <2> HIDE DEF next
  <2>5. next[1] = points[1]
    BY <1>2, <2>1, <2>4
  <2>6. ASSUME NEW k \in 2 .. Len(next)
        PROVE  next[k].value < next[k - 1].value /\ next[k].label # next[k - 1].label
    <3>1. k \in 2 .. Len(m) /\ k - 1 \in 1 .. Len(m) - 1 /\ next[k - 1] = m[k - 1]
      BY <1>2, <2>4
    <3>2. m[k].value < m[k - 1].value /\ m[k].label # m[k - 1].label
      BY <1>2, <3>1
    <3>3. CASE k = Len(m)
      <4>1. m[k].value \in Int /\ m[k - 1].value \in Int /\ p.value \in Int
        BY <1>1, <1>2, <3>1 DEF Descends
      <4>2. next[k] = p /\ p.value < m[k].value /\ p.label = m[k].label
        BY <1>1, <1>2, <1>3, <2>4, <3>3
      <4>3. \A a, b, c \in Int : a < b /\ b < c => a < c
        OBVIOUS
      <4>4. p.value < m[k - 1].value /\ p.label # m[k - 1].label
        BY <3>2, <4>1, <4>2, <4>3
      <4> QED
        BY <3>1, <4>2, <4>4
    <3>4. CASE k # Len(m)
      <4>1. k \in 1 .. Len(m) - 1
        BY <1>2, <3>1, <3>4
      <4>2. next[k] = m[k]
        BY <2>4, <4>1
      <4> QED
        BY <3>1, <3>2, <4>2
    <3> QED
      BY <3>3, <3>4
  <2> QED
    BY <1>2, <2>1, <2>4, <2>5, <2>6 DEF Merged, next, p
<1>4. CASE m[Len(m)].label # p.label
  <2>2. next = Append(m, p)
    BY <1>4 DEF Merge, Last
  <2>4. /\ next \in Seq(P) /\ Len(next) = Len(m) + 1 /\ next[Len(m) + 1] = p
        /\ \A k \in 1 .. Len(m) : next[k] = m[k]
    BY <1>1, <1>2, <2>2
  <2> HIDE DEF next
  <2>5. next[1] = points[1]
    BY <1>2, <2>4
  <2>6. ASSUME NEW k \in 2 .. Len(next)
        PROVE  next[k].value < next[k - 1].value /\ next[k].label # next[k - 1].label
    <3>1. k \in 2 .. Len(m) + 1 /\ k - 1 \in 1 .. Len(m) /\ next[k - 1] = m[k - 1]
      BY <1>2, <2>4
    <3>2. CASE k = Len(m) + 1
      <4>1. next[k] = p /\ m[k - 1] = points[n - 1]
        BY <1>2, <2>4, <3>2
      <4>2. p.label # m[k - 1].label
        BY <1>2, <1>4, <3>2
      <4> QED
        BY <1>1, <3>1, <4>1, <4>2
    <3>3. CASE k # Len(m) + 1
      <4>1. \A a \in Nat : \A b \in 2 .. a + 1 : b # a + 1 => b \in 1 .. a /\ b \in 2 .. a
        OBVIOUS
      <4>3. k \in 1 .. Len(m) /\ k \in 2 .. Len(m)
        BY <1>2, <3>1, <3>3, <4>1
      <4>2. next[k] = m[k]
        BY <2>4, <4>3
      <4> QED
        BY <1>2, <3>1, <4>2, <4>3
    <3> QED
      BY <3>2, <3>3
  <2> QED
    BY <1>1, <1>2, <2>4, <2>5, <2>6 DEF Merged, next, p
<1> QED
  BY <1>3, <1>4

\* The recursion of Collapsed up to n, as a relation.
AreMerged(f, points, n) ==
  f = [k \in 1 .. n |-> IF k = 1 THEN <<points[1]>> ELSE Merge(f[k - 1], points[k])]

\* It has a solution.
LEMMA MergedExist ==
  ASSUME NEW points, NEW n \in Nat
  PROVE  \E f : AreMerged(f, points, n)
<1> DEFINE S == {k \in Nat : \E f : AreMerged(f, points, k)}
<1>1. 0 \in S
  <2> DEFINE f == [k \in 1 .. 0 |-> <<>>]
  <2>1. AreMerged(f, points, 0)
    BY DEF AreMerged
  <2> QED
    BY <2>1
<1>2. ASSUME NEW k \in 1 .. n, k - 1 \in S PROVE k \in S
  <2>1. PICK f : AreMerged(f, points, k - 1)
    BY <1>2
  <2> DEFINE last == IF k = 1 THEN <<points[1]>> ELSE Merge(f[k - 1], points[k])
             g == [j \in 1 .. k |-> IF j = k THEN last ELSE f[j]]
  <2>2. \A j \in 1 .. k - 1 : f[j] = IF j = 1 THEN <<points[1]>> ELSE Merge(f[j - 1], points[j])
    BY <2>1 DEF AreMerged
  <2>3. ASSUME NEW j \in 1 .. k
        PROVE  g[j] = IF j = 1 THEN <<points[1]>> ELSE Merge(g[j - 1], points[j])
    <3>1. CASE j = k
      <4>1. k # 1 => k - 1 \in 1 .. k /\ g[k - 1] = f[k - 1]
        OBVIOUS
      <4>2. g[k] = last
        OBVIOUS
      <4> HIDE DEF g
      <4> QED
        BY <3>1, <4>1, <4>2
    <3>2. CASE j # k
      <4>1. j \in 1 .. k - 1 /\ (j # 1 => j - 1 \in 1 .. k /\ j - 1 # k)
        BY <3>2
      <4>2. g[j] = f[j] /\ (j # 1 => g[j - 1] = f[j - 1])
        BY <3>2, <4>1
      <4> HIDE DEF g
      <4> QED
        BY <2>2, <4>1, <4>2
    <3> QED
      BY <3>1, <3>2
  <2>4. g = [j \in 1 .. k |-> g[j]]
    OBVIOUS
  <2> HIDE DEF g
  <2> HIDE DEF last
  <2>5. \A j \in 1 .. k : g[j] = IF j = 1 THEN <<points[1]>> ELSE Merge(g[j - 1], points[j])
    BY <2>3
  <2>6. AreMerged(g, points, k)
    BY ONLY <2>4, <2>5 DEF AreMerged
  <2> QED
    BY <2>6
<1> HIDE DEF S
<1>3. \A k \in 0 .. n : k \in S
  BY <1>1, <1>2, Upward
<1>4. n \in S
  BY <1>3
<1> QED
  BY <1>4 DEF S

\* What the journey shows of points that go down: from the first to the last of
\* them, with no two steps of one name side by side.
LEMMA CollapsedDescends ==
  ASSUME NEW P, NEW points, Descends(points, P)
  PROVE  Merged(Collapsed(points), points, Len(points), P)
<1> DEFINE n == Len(points)
<1>1. n \in Nat /\ n # 0 /\ points[1] \in P
  BY DEF Descends
<1>2. PICK f : AreMerged(f, points, n) /\ Collapsed(points) = f[n]
  <2>1. \E f : AreMerged(f, points, n)
    BY <1>1, MergedExist
  <2>2. AreMerged(CHOOSE f : AreMerged(f, points, n), points, n)
    BY <2>1
  <2> QED
    BY <2>2 DEF Collapsed, AreMerged
<1> DEFINE S == {k \in 0 .. n : k # 0 => Merged(f[k], points, k, P)}
<1>3. ASSUME NEW k \in 1 .. n, k - 1 \in S PROVE k \in S
  <2>1. CASE k = 1
    <3>1. f[1] = <<points[1]>>
      BY <1>1, <1>2 DEF AreMerged
    <3>2. Merged(<<points[1]>>, points, 1, P)
      BY <1>1 DEF Merged
    <3> QED
      BY <1>1, <2>1, <3>1, <3>2
  <2>2. CASE k # 1
    <3>1. k \in 2 .. Len(points) /\ k - 1 # 0
      BY <1>1, <2>2
    <3>2. f[k] = Merge(f[k - 1], points[k])
      BY <1>2, <2>2 DEF AreMerged
    <3>3. Merged(f[k - 1], points, k - 1, P)
      BY <1>3, <3>1
    <3>4. Merged(f[k], points, k, P)
      BY <3>1, <3>2, <3>3, MergeStep
    <3> QED
      BY <3>4
  <2> QED
    BY <2>1, <2>2
<1>4. 0 \in S
  BY <1>1
<1> HIDE DEF S
<1>5. \A k \in 0 .. n : k \in S
  BY <1>1, <1>3, <1>4, Upward
<1>6. n \in S
  BY <1>1, <1>5
<1> QED
  BY <1>1, <1>2, <1>6 DEF S

\* The points of the journey before they are collapsed.
Points(d, order) ==
  [n \in 1 .. Len(order) + 1 |->
    Point(IF n = 1 THEN Start ELSE Scenario[order[n - 1]],
          Totals(d).known - Cardinality(SawBy(d, order, n - 1)))]

\* The journey of a document in which whatever has been observed was first seen
\* in some session goes from every element to those that were never observed.
LEMMA JourneyAddsUp ==
  ASSUME NEW d \in Docs, NEW order \in Orders(d),
         \A e \in Elements : d[e].state # 0 => d[e].first \in Sessions
  PROVE  LET j == Journey(d, order) IN
         /\ j[1] = Point(Start, Totals(d).known)
         /\ Last(j).value = Totals(d).never
         /\ \A n \in 2 .. Len(j) : j[n].value < j[n - 1].value /\ j[n].label # j[n - 1].label
<1> DEFINE known == Totals(d).known
           saw(n) == Cardinality(SawBy(d, order, n))
           N == Len(order)
           points == Points(d, order)
           P == {points[n] : n \in 1 .. N + 1}
           j == Journey(d, order)
<1>1. /\ known \in Nat
      /\ Totals(d).never = known - Cardinality({e \in Elements : d[e].state # 0})
  BY TotalsCount
<1>2. /\ N \in Nat
      /\ \A i \in 1 .. N : order[i] \in Sessions
  BY OrderLists
<1>3. /\ \A n \in 0 .. N : saw(n) \in Nat
      /\ saw(0) = 0
      /\ \A n \in 1 .. N : saw(n - 1) < saw(n)
      /\ saw(N) = Cardinality({e \in Elements : d[e].state # 0})
  BY SawByGrows
<1>4. Start \notin {Scenario[s] : s \in Sessions}
  BY DashboardAssumption DEF DashboardAssumption
<1>5. j = Collapsed(points)
  BY DEF Journey, Points, SawBy
<1>6. \A n \in 1 .. N + 1 : points[n] = Point(IF n = 1 THEN Start ELSE Scenario[order[n - 1]],
                                              known - saw(n - 1))
  BY DEF Points
<1>7. points \in Seq(P) /\ Len(points) = N + 1
  <2>1. points \in [1 .. N + 1 -> P]
    BY DEF Points
  <2> QED
    BY <1>2, <2>1 DEF Points
<1> HIDE DEF known
<1> HIDE DEF saw
<1> HIDE DEF N
<1> HIDE DEF points
<1> HIDE DEF j
<1>8. \A label, value : Point(label, value).label = label /\ Point(label, value).value = value
  BY DEF Point
<1>9. ASSUME NEW n \in 1 .. N + 1
      PROVE  /\ points[n].label = IF n = 1 THEN Start ELSE Scenario[order[n - 1]]
             /\ points[n].value = known - saw(n - 1) /\ points[n].value \in Int
  <2>1. n - 1 \in 0 .. N
    BY <1>2
  <2>2. saw(n - 1) \in Nat
    BY <1>3, <2>1
  <2>3. known - saw(n - 1) \in Int
    BY <1>1, <2>2
  <2>4. points[n] = Point(IF n = 1 THEN Start ELSE Scenario[order[n - 1]], known - saw(n - 1))
    BY <1>6
  <2> QED
    BY <1>8, <2>3, <2>4
<1>10. points[1] = Point(Start, known) /\ points[N + 1].value = Totals(d).never
  BY <1>1, <1>2, <1>3, <1>6, <1>9
<1>11. ASSUME NEW n \in 2 .. N + 1
       PROVE  points[n].value < points[n - 1].value /\ points[n].label # points[1].label
  <2>1. n \in 1 .. N + 1 /\ n - 1 \in 1 .. N + 1 /\ n - 1 \in 1 .. N /\ n # 1
        /\ n - 1 - 1 \in 0 .. N /\ n - 1 \in 0 .. N
    BY <1>2
  <2>2. saw(n - 1 - 1) < saw(n - 1) /\ saw(n - 1 - 1) \in Nat /\ saw(n - 1) \in Nat
    BY <1>3, <2>1
  <2>3. points[n].value = known - saw(n - 1) /\ points[n - 1].value = known - saw(n - 1 - 1)
    BY <1>9, <2>1
  <2>4. points[n].label = Scenario[order[n - 1]] /\ points[1].label = Start
    BY <1>9, <1>10, <1>8, <2>1
  <2>5. Scenario[order[n - 1]] # Start
    BY <1>2, <1>4, <2>1
  <2> QED
    BY <1>1, <2>2, <2>3, <2>4, <2>5
<1>12. Descends(points, P)
  <2>1. \A p \in P : p.value \in Int
    BY <1>9
  <2>2. Len(points) # 0
    BY <1>2, <1>7
  <2>3. \A n \in 2 .. Len(points) : /\ points[n].value < points[n - 1].value
                                    /\ points[n].label # points[1].label
    BY <1>7, <1>11
  <2> HIDE DEF P
  <2> QED
    BY <1>7, <2>1, <2>2, <2>3 DEF Descends
<1> HIDE DEF P
<1>13. Merged(j, points, N + 1, P)
  BY <1>5, <1>7, <1>12, CollapsedDescends
<1> QED
  BY <1>10, <1>13 DEF Merged, Last, j, known

-----------------------------------------------------------------------------
(* What the page is built from                                             *)

\* What a document says of an element is what the session it names has seen, and
\* that session is one of those that may be named.
Vouched(entry, e, named) ==
  IF entry.first = None THEN entry.state = 0
  ELSE /\ entry.first \in named
       /\ \E decoded \in BOOLEAN : [element |-> e, decoded |-> decoded] \in Seen[entry.first]

Sound(d, named) == d \in Docs /\ \A e \in Elements : Vouched(d[e], e, named)

Settlers == {s \in Sessions : Settled(s)}

\* Who may still owe a delta to the document that p has in memory.
Owing(p) == IF pc[p] \in {"delta", "crashed"} THEN {Source[p]} ELSE {}

\* A document in memory may name those whose delta it owes too.
MemoryInv == \A p \in Procs : Sound(local[p], Settlers \cup Owing(p))

\* Every document names sessions whose delta is settled, but for the one a
\* session is about to write or has died over; and the last page adds up.
PageInv ==
  /\ DeltaInv
  /\ DOMAIN local = Procs
  /\ store \in {Absent, Partial} \/ Sound(store, Settlers)
  /\ tmp \in {Absent, Partial} \/ Sound(tmp, Settlers)
  /\ MemoryInv
  /\ doc = None \/ Sound(doc, Settlers)
  /\ PageAddsUp

\* A document stays sound when more sessions may be named.
LEMMA SoundGrows ==
  ASSUME NEW d, NEW named, NEW more, named \subseteq more, Sound(d, named)
  PROVE  Sound(d, more)
  BY DEF Sound, Vouched

\* An element observed once more is still vouched for, by whoever saw it first.
LEMMA ObserveVouched ==
  ASSUME NEW entry, NEW e, NEW named, NEW s \in Sessions \cap named,
         Vouched(entry, e, named), NEW b \in BOOLEAN
  PROVE  Vouched(ObserveKey(entry, [element |-> e, decoded |-> b], s), e, named)
<1> DEFINE key == [element |-> e, decoded |-> b]
<1>1. CASE key \notin Seen[s]
  BY <1>1 DEF ObserveKey
<1>2. CASE key \in Seen[s]
  <2> DEFINE next == Observe(entry, key.decoded, s)
  <2>1. ObserveKey(entry, key, s) = next
    BY <1>2 DEF ObserveKey
  <2>2. next.first = IF entry.first = None THEN s ELSE entry.first
    BY DEF Observe
  <2>3. s # None
    BY CoverageAssumption DEF CoverageAssumption
  <2> HIDE DEF next
  <2>4. CASE entry.first = None
    BY <1>2, <2>1, <2>2, <2>3, <2>4 DEF Vouched
  <2>5. CASE entry.first # None
    BY <2>1, <2>2, <2>5 DEF Vouched
  <2> QED
    BY <2>4, <2>5
<1> QED
  BY <1>1, <1>2

\* A session folded into a sound document may be named by it, and no other new.
LEMMA FoldedSound ==
  ASSUME NEW d, NEW named, NEW s \in Sessions, Sound(d, named)
  PROVE  Sound(Folded(d, s), named \cup {s})
<1>1. Folded(d, s) \in Docs
  BY FoldedGrows DEF Sound
<1>2. ASSUME NEW e \in Elements PROVE Vouched(Folded(d, s)[e], e, named \cup {s})
  <2> DEFINE seen == [element |-> e, decoded |-> FALSE]
             read == [element |-> e, decoded |-> TRUE]
             once == ObserveKey(d[e], seen, s)
  <2>1. s \in Sessions \cap (named \cup {s})
    OBVIOUS
  <2>2. Vouched(d[e], e, named \cup {s})
    BY DEF Sound, Vouched
  <2>3. Vouched(once, e, named \cup {s})
    BY <2>1, <2>2, ObserveVouched
  <2> HIDE DEF once
  <2>4. Vouched(ObserveKey(once, read, s), e, named \cup {s})
    BY <2>1, <2>3, ObserveVouched
  <2> QED
    BY <2>4 DEF Folded, once
<1> QED
  BY <1>1, <1>2 DEF Sound

\* Before anything has been observed.
LEMMA BootstrapSound == \A named : Sound(Bootstrap, named)
  BY DEF Sound, Bootstrap, Docs, Ranks, Vouched

\* A delta that is settled stays so, and one that failed stays failed.
LEMMA SettledStays ==
  ASSUME DeltaInv, [CoverageNext]_coverageVars
  PROVE  /\ Settlers \subseteq Settlers'
         /\ \A s \in Sessions : delta[s] = "failed" => delta'[s] = "failed"
<1>1. ASSUME NEW p \in Procs, NEW outcome, pc[p] = "delta",
             delta' = [delta EXCEPT ![p] = outcome]
      PROVE  \A s \in Sessions : Settled(s) => delta'[s] = delta[s]
  BY <1>1 DEF DeltaInv, Settled
<1>2. \A s \in Sessions : Settled(s) => delta'[s] = delta[s]
  BY <1>1
  DEF CoverageNext, coverageVars, Loads, LoadFails, WritesDelta, DeltaFails, OpensTmp,
      WritesTmp, Renames, RenameFails, Crashes, LosesStore
<1> QED
  BY <1>2 DEF Settlers, Settled

\* A step of p that leaves what is in memory alone.
LEMMA MemoryStays ==
  ASSUME PageInv, NEW p \in Procs, NEW at, Goes(p, at), UNCHANGED local,
         Settlers \subseteq Settlers', Owing(p) \subseteq Settlers' \/ at = "crashed"
  PROVE  MemoryInv'
<1>1. ASSUME NEW q \in Procs PROVE Owing(q) \subseteq Settlers' \cup Owing(q)'
  <2>1. CASE q = p
    BY <2>1 DEF Owing, Goes, PageInv, DeltaInv
  <2>2. CASE q # p
    BY <2>2 DEF Owing, Goes, PageInv, DeltaInv
  <2> QED
    BY <2>1, <2>2
<1>2. ASSUME NEW q \in Procs PROVE Sound(local[q], Settlers' \cup Owing(q)')
  <2>1. Settlers \cup Owing(q) \subseteq Settlers' \cup Owing(q)'
    BY <1>1
  <2>2. Sound(local[q], Settlers \cup Owing(q))
    BY DEF PageInv, MemoryInv
  <2> QED
    BY <2>1, <2>2, SoundGrows
<1> QED
  BY <1>2 DEF MemoryInv

\* A session or an ingest leaves every document sound.
LEMMA FilesSound ==
  ASSUME PageInv, [CoverageNext]_coverageVars
  PROVE  /\ store' \in {Absent, Partial} \/ Sound(store', Settlers')
         /\ tmp' \in {Absent, Partial} \/ Sound(tmp', Settlers')
<1>1. Settlers \subseteq Settlers'
  BY SettledStays DEF PageInv
<1>2. ASSUME NEW d, Sound(d, Settlers) PROVE Sound(d, Settlers')
  BY <1>1, <1>2, SoundGrows
<1>3. ASSUME NEW p \in Procs, WritesTmp(p) PROVE Sound(local[p], Settlers)
  <2>1. Owing(p) = {}
    BY <1>3 DEF WritesTmp, Owing
  <2>2. Settlers \cup Owing(p) = Settlers
    BY <2>1
  <2> QED
    BY <2>2 DEF PageInv, MemoryInv
<1>4. /\ store' \in {Absent, Partial} \/ Sound(store', Settlers)
      /\ tmp' \in {Absent, Partial} \/ Sound(tmp', Settlers)
  <2>1. ASSUME NEW p \in Procs, WritesTmp(p)
        PROVE  store' \in {store, local[p], Partial} /\ tmp' \in {tmp, local[p], Partial}
    BY <2>1 DEF WritesTmp, Overwrites
  <2>2. CASE \E p \in Procs : WritesTmp(p)
    BY <1>3, <2>1, <2>2 DEF PageInv
  <2>3. CASE ~\E p \in Procs : WritesTmp(p)
    <3>1. store' \in {store, tmp, Absent} /\ tmp' \in {tmp, Partial, Absent}
      BY <2>3
      DEF CoverageNext, coverageVars, Loads, LoadFails, WritesDelta, DeltaFails, OpensTmp,
          Renames, RenameFails, Crashes, LosesStore
    <3> QED
      BY <3>1 DEF PageInv
  <2> QED
    BY <2>2, <2>3
<1> QED
  BY <1>2, <1>4

\* Nor does it fold a session into memory without owing that session's delta.
LEMMA MemorySound ==
  ASSUME PageInv, [CoverageNext]_coverageVars
  PROVE  DOMAIN local' = Procs /\ MemoryInv'
<1>1. Settlers \subseteq Settlers'
  BY SettledStays DEF PageInv
<1>2. Source \in [Procs -> Sessions] /\ \A s \in Sessions : Source[s] = s
  BY CoverageAssumption DEF CoverageAssumption
<1>3. DOMAIN local = Procs /\ DOMAIN local' = Procs
  BY DEF PageInv, CoverageNext, coverageVars, Loads, LoadFails, WritesDelta, DeltaFails,
     OpensTmp, WritesTmp, Renames, RenameFails, Crashes, LosesStore
<1>4. ASSUME NEW p \in Procs, Loads(p)
      PROVE  MemoryInv'
  <2> DEFINE base == IF store = Absent THEN Bootstrap ELSE store
             s == Source[p]
  <2>1. Sound(base, Settlers)
    BY <1>4, BootstrapSound DEF Loads, PageInv
  <2>2. local'[p] = Folded(base, s) /\ \A q \in Procs : q # p => local'[q] = local[q]
    BY <1>3, <1>4 DEF Loads
  <2> HIDE DEF base
  <2>3. s \in Sessions
    BY <1>2
  <2>4. Sound(local'[p], Settlers \cup {s})
    BY <2>1, <2>2, <2>3, FoldedSound
  <2>5. s \in Settlers' \cup Owing(p)'
    <3>1. CASE p \in Sessions
      BY <1>4, <3>1 DEF Loads, Goes, Owing, PageInv, DeltaInv
    <3>2. CASE p \notin Sessions
      <4>1. Settled(s)
        BY <1>4, <3>2 DEF Loads, Procs, Settled
      <4>2. s \in Settlers
        BY <2>3, <4>1 DEF Settlers
      <4> QED
        BY <1>1, <4>2
    <3> QED
      BY <3>1, <3>2
  <2>6. ASSUME NEW q \in Procs PROVE Sound(local'[q], Settlers' \cup Owing(q)')
    <3>1. CASE q = p
      <4>1. Settlers \cup {s} \subseteq Settlers' \cup Owing(p)'
        BY <1>1, <2>5
      <4> QED
        BY <2>4, <3>1, <4>1, SoundGrows
    <3>2. CASE q # p
      <4>1. Owing(q)' = Owing(q)
        BY <1>4, <3>2 DEF Owing, Loads, Goes, PageInv, DeltaInv
      <4>2. Settlers \cup Owing(q) \subseteq Settlers' \cup Owing(q)'
        BY <1>1, <4>1
      <4>3. Sound(local[q], Settlers \cup Owing(q))
        BY DEF PageInv, MemoryInv
      <4>4. Sound(local[q], Settlers' \cup Owing(q)')
        BY <4>2, <4>3, SoundGrows
      <4> QED
        BY <2>2, <3>2, <4>4
    <3> QED
      BY <3>1, <3>2
  <2> QED
    BY <2>6 DEF MemoryInv
<1>5. ASSUME NEW p \in Procs, WritesDelta(p) \/ DeltaFails(p)
      PROVE  MemoryInv'
  <2>1. p \in Sessions /\ Source[p] = p /\ delta'[p] \in {"written", "failed"}
    BY <1>2, <1>5 DEF WritesDelta, DeltaFails, PageInv, DeltaInv
  <2>2. Owing(p) \subseteq Settlers'
    BY <2>1 DEF Owing, Settlers, Settled
  <2> QED
    BY <1>1, <1>5, <2>2, MemoryStays DEF WritesDelta, DeltaFails
<1>6. ASSUME NEW p \in Procs, Crashes(p)
      PROVE  MemoryInv'
  BY <1>1, <1>6, MemoryStays DEF Crashes
<1>7. ASSUME NEW p \in Procs,
             \/ LoadFails(p) \/ OpensTmp(p) \/ WritesTmp(p) \/ Renames(p) \/ RenameFails(p)
      PROVE  MemoryInv'
  <2>1. Owing(p) = {}
    BY <1>7 DEF LoadFails, OpensTmp, WritesTmp, Renames, RenameFails, Owing
  <2>2. PICK at : Goes(p, at) /\ UNCHANGED local
    BY <1>7 DEF LoadFails, OpensTmp, WritesTmp, Renames, RenameFails
  <2> QED
    BY <1>1, <2>1, <2>2, MemoryStays
<1>8. ASSUME LosesStore \/ UNCHANGED coverageVars
      PROVE  MemoryInv'
  <2>1. UNCHANGED <<delta, pc, local>>
    BY <1>8 DEF LosesStore, coverageVars
  <2>2. \A q \in Procs : Owing(q)' = Owing(q)
    BY <2>1 DEF Owing
  <2>3. Settlers' = Settlers
    BY <2>1 DEF Settlers, Settled
  <2> QED
    BY <2>1, <2>2, <2>3 DEF PageInv, MemoryInv
<1> QED
  BY <1>3, <1>4, <1>5, <1>6, <1>7, <1>8 DEF CoverageNext

\* A session is credited with what its delta lists at most.
LEMMA CreditIsSeen ==
  ASSUME NEW d, Sound(d, Settlers), NEW s \in Sessions
  PROVE  Cardinality(Credited(d, s)) <= Rows[s] \/ delta[s] = "failed"
<1> DEFINE element == [key \in Seen[s] |-> key.element]
           elements == {element[key] : key \in Seen[s]}
<1>1. IsFiniteSet(Seen[s])
  BY DashboardAssumption DEF DashboardAssumption
<1>2. Cardinality(Seen[s]) \in Nat
  BY <1>1, FS_CardinalityType
<1>3. element \in Surjection(Seen[s], elements)
  BY DEF Surjection
<1>4. IsFiniteSet(elements) /\ Cardinality(elements) <= Cardinality(Seen[s])
  BY <1>1, <1>3, FS_Surjection
<1>5. ASSUME NEW e \in Credited(d, s) PROVE e \in elements /\ s \in Settlers
  <2>1. Vouched(d[e], e, Settlers) /\ d[e].state # 0 /\ d[e].first = s
    BY DEF Sound, Credited
  <2>2. PICK b \in BOOLEAN : s \in Settlers /\ [element |-> e, decoded |-> b] \in Seen[s]
    BY <2>1 DEF Vouched
  <2>3. element[[element |-> e, decoded |-> b]] = e
    BY <2>2
  <2> QED
    BY <2>2, <2>3
<1> HIDE DEF element
<1> HIDE DEF elements
<1>6. Credited(d, s) \in SUBSET elements
  BY <1>5
<1>7. Cardinality(Credited(d, s)) <= Cardinality(elements)
      /\ Cardinality(Credited(d, s)) \in Nat /\ Cardinality(elements) \in Nat
  BY <1>4, <1>6, FS_Subset, FS_CardinalityType
<1>8. Rows[s] = IF delta[s] = "written" THEN Cardinality(Seen[s]) ELSE 0
  BY DEF Rows
<1>9. CASE Credited(d, s) = {}
  <2>1. Cardinality(Credited(d, s)) = 0
    BY <1>9, FS_EmptySet
  <2> QED
    BY <1>2, <1>8, <2>1
<1>10. CASE Credited(d, s) # {}
  <2>1. delta[s] \in {"written", "failed"}
    BY <1>5, <1>10 DEF Settlers, Settled
  <2> QED
    BY <1>2, <1>4, <1>7, <1>8, <2>1
<1> QED
  BY <1>9, <1>10

\* The page that is built from a sound document adds up.
LEMMA BuildAddsUp ==
  ASSUME PageInv, Builds
  PROVE  PageAddsUp'
<1>1. Sound(doc, Settlers) /\ doc \in Docs
  BY DEF Builds, PageInv, Sound
<1>2. PICK order \in Orders(doc) :
        page' = [totals |-> Totals(doc), journey |-> Journey(doc, order), rows |-> Rows,
                 credited |-> [s \in Sessions |-> Cardinality(Credited(doc, s))]]
  BY DEF Builds
<1>3. \A e \in Elements : doc[e].state # 0 => doc[e].first \in Sessions
  BY <1>1 DEF Sound, Vouched, Settlers
<1>4. LET j == Journey(doc, order) IN
      /\ j[1] = Point(Start, Totals(doc).known)
      /\ Last(j).value = Totals(doc).never
      /\ \A n \in 2 .. Len(j) : j[n].value < j[n - 1].value /\ j[n].label # j[n - 1].label
  BY <1>1, <1>3, JourneyAddsUp
<1>5. /\ page'.journey = Journey(doc, order) /\ page'.totals = Totals(doc)
      /\ page'.rows = Rows
      /\ \A s \in Sessions : page'.credited[s] = Cardinality(Credited(doc, s))
  BY <1>2
<1>6. delta' = delta
  BY DEF Builds, coverageVars
<1>7. \A s \in Sessions : page'.credited[s] <= page'.rows[s] \/ delta'[s] = "failed"
  BY <1>1, <1>5, <1>6, CreditIsSeen
<1> QED
  BY <1>4, <1>5, <1>7 DEF PageAddsUp

\* A page that has been served goes on adding up.
LEMMA PageStays ==
  ASSUME PageAddsUp, UNCHANGED page,
         \A s \in Sessions : delta[s] = "failed" => delta'[s] = "failed"
  PROVE  PageAddsUp'
  BY DEF PageAddsUp

\* Nothing has been served yet.
LEMMA PageInit == DashboardInit => PageInv
<1> SUFFICES ASSUME DashboardInit PROVE PageInv
  OBVIOUS
<1>1. DeltaInv
  BY DeltaInit DEF DashboardInit
<1>2. MemoryInv
  BY BootstrapSound DEF DashboardInit, CoverageInit, MemoryInv
<1>3. PageAddsUp
  BY DEF DashboardInit, PageAddsUp
<1> QED
  BY <1>1, <1>2, <1>3 DEF DashboardInit, CoverageInit, PageInv

\* No step of a session, of an ingest or of the server makes a page that does not.
LEMMA PageStep == PageInv /\ [DashboardNext]_dashboardVars => PageInv'
<1> SUFFICES ASSUME PageInv, [DashboardNext]_dashboardVars PROVE PageInv'
  OBVIOUS
<1>1. [CoverageNext]_coverageVars
  BY DEF DashboardNext, dashboardVars, LoadsStore, Builds
<1>2. DeltaInv'
  BY <1>1, DeltaStep DEF PageInv
<1>3. /\ Settlers \subseteq Settlers'
      /\ \A s \in Sessions : delta[s] = "failed" => delta'[s] = "failed"
  BY <1>1, SettledStays DEF PageInv
<1>4. /\ store' \in {Absent, Partial} \/ Sound(store', Settlers')
      /\ tmp' \in {Absent, Partial} \/ Sound(tmp', Settlers')
  BY <1>1, FilesSound
<1>5. DOMAIN local' = Procs /\ MemoryInv'
  BY <1>1, MemorySound
<1>6. doc' = None \/ Sound(doc', Settlers')
  <2>1. doc' = None \/ Sound(doc', Settlers)
    BY DEF DashboardNext, dashboardVars, LoadsStore, Builds, PageInv
  <2> QED
    BY <1>3, <2>1, SoundGrows
<1>7. PageAddsUp'
  <2>1. CASE Builds
    BY <2>1, BuildAddsUp
  <2>2. CASE UNCHANGED page
    BY <1>3, <2>2, PageStays DEF PageInv
  <2>3. CASE page' = Unavailable
    BY <2>3 DEF PageAddsUp
  <2> QED
    BY <2>1, <2>2, <2>3 DEF DashboardNext, dashboardVars, LoadsStore
<1> QED
  BY <1>2, <1>4, <1>5, <1>6, <1>7 DEF PageInv

\* For any number of sessions, ingests, elements and kinds, and whoever is
\* writing, crashing or losing updates while the page is built: its journey goes
\* down, one step per scenario, from every known element to those that the totals
\* call never observed, and credits no session with more than its row of the
\* bundle table, unless that bundle's delta failed to be written (build, readBundles).
THEOREM DashboardPageAddsUp == DashboardSpec => []PageAddsUp
<1>1. PageInv => PageAddsUp
  BY DEF PageInv
<1> QED
  BY <1>1, PageInit, PageStep, PTL DEF DashboardSpec

\* What the store says was observed, the session it names has seen, and that
\* session's delta was written, or was reported to have failed.
StoreNamesWitnesses ==
  store \in Docs =>
    \A e \in Elements : store[e].state # 0 =>
      /\ store[e].first \in Sessions /\ Settled(store[e].first)
      /\ \E decoded \in BOOLEAN : [element |-> e, decoded |-> decoded] \in Seen[store[e].first]

\* Also when processes overlap, lose each other's updates or are killed, the store
\* says of no element that it was observed unless some bundle bears it out: the
\* session it names has seen the element, and its delta is settled (Observe,
\* recordCoverage).
THEOREM StoreIsBorneOut == DashboardSpec => []StoreNamesWitnesses
<1>1. PageInv => StoreNamesWitnesses
  <2> SUFFICES ASSUME PageInv, store \in Docs PROVE StoreNamesWitnesses
    BY DEF StoreNamesWitnesses
  <2>1. Absent \notin Docs /\ Partial \notin Docs
    BY CoverageAssumption DEF CoverageAssumption
  <2>2. Sound(store, Settlers)
    BY <2>1 DEF PageInv
  <2> QED
    BY <2>2 DEF Sound, Vouched, Settlers, StoreNamesWitnesses
<1> QED
  BY <1>1, PageInit, PageStep, PTL DEF DashboardSpec
=============================================================================
