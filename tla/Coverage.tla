------------------------------- MODULE Coverage -------------------------------
(***************************************************************************)
(* The machine-wide coverage store (internal/coverage, recordCoverage,     *)
(* sccap coverage --ingest): every process loads coverage.json, folds its  *)
(* observations in and replaces the file through one shared temporary      *)
(* name, with no lock.  A session leaves a delta in its own bundle first.  *)
(*                                                                         *)
(* A file is an inode: renaming coverage.json.tmp moves the inode, and who *)
(* still has it open goes on writing to it under its new name.  An element *)
(* unknown to the build (Novelty) is kept like one that is known.          *)
(***************************************************************************)
EXTENDS Integers, Sequences, FiniteSets

CONSTANTS
  Elements,
  Sessions,    \* capture sessions that reach recordCoverage
  Ingests,     \* runs of sccap coverage --ingest
  Source,      \* whose observations a process folds in: its own, or a bundle's
  Seen,        \* per session: stats.ObservedElements, as [element, decoded]
  MaxRunning,  \* how many processes run at the same time
  None,
  Absent,      \* there is no such file
  Partial      \* the file is not a whole document

Procs == Sessions \cup Ingests

\* never_observed, observed_undecoded and decoded, by rank.
Ranks == 0 .. 2

Docs == [Elements -> [state : Ranks, count : Nat, first : Sessions \cup {None}]]

ASSUME CoverageAssumption ==
  /\ Sessions \cap Ingests = {}
  /\ Source \in [Procs -> Sessions]
  /\ \A s \in Sessions : Source[s] = s
  /\ Seen \in [Sessions -> SUBSET [element : Elements, decoded : BOOLEAN]]
  /\ MaxRunning \in Nat \ {0}
  /\ None \notin Sessions
  /\ Absent \notin Docs /\ Partial \notin Docs

VARIABLES
  store,  \* coverage.json: a document, Absent or Partial
  tmp,    \* coverage.json.tmp, likewise
  delta,  \* per session: coverage-delta.json is "none", "partial" or "written",
          \* or "failed": writing it reported an error, and it is not whole
  pc,     \* per process
  local,  \* per process: the document in memory
  fd,     \* per process: the name its open temporary file has now
  saved,  \* who replaced the store, in order
  lost,   \* the store has been deleted once
  overlapped  \* two processes have been running at the same time

coverageVars == <<store, tmp, delta, pc, local, fd, saved, lost, overlapped>>

Bootstrap == [e \in Elements |-> [state |-> 0, count |-> 0, first |-> None]]

\* Mutant: the latest observation decides the state.
ObserveLatest(entry, decoded, s) ==
  [state |-> IF decoded THEN 2 ELSE 1,
   count |-> entry.count + 1,
   first |-> IF entry.first = None THEN s ELSE entry.first]

Observe(entry, decoded, s) ==
  LET next == IF decoded THEN 2 ELSE 1
  IN  [state |-> IF next > entry.state THEN next ELSE entry.state,
       count |-> entry.count + 1,
       first |-> IF entry.first = None THEN s ELSE entry.first]

\* An element that was also decoded is observed twice, by both of its keys, in
\* either order to the same effect.
ObserveKey(entry, key, s) == IF key \in Seen[s] THEN Observe(entry, key.decoded, s) ELSE entry

Folded(doc, s) ==
  [e \in Elements |->
    ObserveKey(ObserveKey(doc[e], [element |-> e, decoded |-> FALSE], s),
               [element |-> e, decoded |-> TRUE], s)]

Running == {p \in Procs : pc[p] \notin {"idle", "done", "failed", "crashed"}}

Goes(p, at) == pc' = [pc EXCEPT ![p] = at]

-----------------------------------------------------------------------------
\* Mutant: the delta is left for later.
LoadsAndSaves(p) ==
  /\ pc[p] = "idle"
  /\ Cardinality(Running) < MaxRunning
  /\ store # Partial
  /\ p \in Ingests => delta[Source[p]] = "written"
  /\ local' = [local EXCEPT ![p] = Folded(IF store = Absent THEN Bootstrap ELSE store, Source[p])]
  /\ Goes(p, "open")
  /\ overlapped' = (overlapped \/ Running # {})
  /\ UNCHANGED <<store, tmp, delta, fd, saved, lost>>

\* coverage.Load and the loop over the observations.
Loads(p) ==
  /\ pc[p] = "idle"
  /\ Cardinality(Running) < MaxRunning
  /\ store # Partial
  /\ p \in Ingests => delta[Source[p]] = "written"
  /\ local' = [local EXCEPT ![p] = Folded(IF store = Absent THEN Bootstrap ELSE store, Source[p])]
  /\ Goes(p, IF p \in Sessions THEN "delta" ELSE "open")
  /\ overlapped' = (overlapped \/ Running # {})
  /\ UNCHANGED <<store, tmp, delta, fd, saved, lost>>

\* The document is not valid JSON, or the bundle to ingest has no whole delta.
\* A session then returns before it has written its own delta.
LoadFails(p) ==
  /\ pc[p] = "idle"
  /\ Cardinality(Running) < MaxRunning
  /\ \/ store = Partial
     \/ p \in Ingests /\ delta[Source[p]] # "written"
  /\ Goes(p, "failed")
  /\ UNCHANGED <<store, tmp, delta, local, fd, saved, lost, overlapped>>

WritesDelta(p) ==
  /\ pc[p] = "delta"
  /\ delta' = [delta EXCEPT ![p] = "written"]
  /\ Goes(p, "open")
  /\ UNCHANGED <<store, tmp, local, fd, saved, lost, overlapped>>

\* WriteDelta reports an error, which recordCoverage prints before it goes on.
DeltaFails(p) ==
  /\ pc[p] = "delta"
  /\ delta' = [delta EXCEPT ![p] = "failed"]
  /\ Goes(p, "open")
  /\ UNCHANGED <<store, tmp, local, fd, saved, lost, overlapped>>

\* Mutant: the store itself is opened and truncated.
OpensStore(p) ==
  /\ pc[p] = "open"
  /\ store' = Partial
  /\ fd' = [fd EXCEPT ![p] = "store"]
  /\ Goes(p, "write")
  /\ UNCHANGED <<tmp, delta, local, saved, lost, overlapped>>

\* Document.Save: os.WriteFile opens and truncates the temporary file ...
OpensTmp(p) ==
  /\ pc[p] = "open"
  /\ tmp' = Partial
  /\ fd' = [fd EXCEPT ![p] = "tmp"]
  /\ Goes(p, "write")
  /\ UNCHANGED <<store, delta, local, saved, lost, overlapped>>

\* ... and writes from the start of it.  Over a whole document of another
\* process it may leave that one's tail behind.
Overwrites(p, file) == {local[p]} \cup (IF file = Partial THEN {} ELSE {Partial})

WritesTmp(p) ==
  /\ pc[p] = "write"
  /\ \/ fd[p] = "tmp" /\ tmp' \in Overwrites(p, tmp) /\ UNCHANGED store
     \/ fd[p] = "store" /\ store' \in Overwrites(p, store) /\ UNCHANGED tmp
  /\ Goes(p, "rename")
  /\ UNCHANGED <<delta, local, fd, saved, lost, overlapped>>

Renames(p) ==
  /\ pc[p] = "rename" /\ tmp # Absent
  /\ store' = tmp
  /\ tmp' = Absent
  /\ fd' = [q \in Procs |-> IF fd[q] = "tmp" THEN "store" ELSE "gone"]
  /\ saved' = Append(saved, p)
  /\ Goes(p, "done")
  /\ UNCHANGED <<delta, local, lost, overlapped>>

\* Another process has renamed the file away: Save reports an error.
RenameFails(p) ==
  /\ pc[p] = "rename" /\ tmp = Absent
  /\ Goes(p, "failed")
  /\ UNCHANGED <<store, tmp, delta, local, fd, saved, lost, overlapped>>

\* A process is killed between any two steps, or inside writing its delta; an
\* I/O error inside Save leaves the same files behind.
Crashes(p) ==
  /\ p \in Running
  /\ Goes(p, "crashed")
  /\ \/ UNCHANGED delta
     \/ pc[p] = "delta" /\ delta' = [delta EXCEPT ![p] = "partial"]
  /\ UNCHANGED <<store, tmp, local, fd, saved, lost, overlapped>>

\* The store is deleted while nothing runs.
LosesStore ==
  /\ ~lost /\ Running = {} /\ store # Absent
  /\ lost' = TRUE
  /\ store' = Absent
  /\ saved' = <<>>
  /\ UNCHANGED <<tmp, delta, pc, local, fd, overlapped>>

CoverageInit ==
  /\ store = Absent /\ tmp = Absent
  /\ delta = [s \in Sessions |-> "none"]
  /\ pc = [p \in Procs |-> "idle"]
  /\ local = [p \in Procs |-> Bootstrap]
  /\ fd = [p \in Procs |-> "gone"]
  /\ saved = <<>>
  /\ lost = FALSE
  /\ overlapped = FALSE

CoverageNext ==
  \/ \E p \in Procs :
       \/ Loads(p) \/ LoadFails(p) \/ WritesDelta(p) \/ DeltaFails(p)
       \/ OpensTmp(p) \/ WritesTmp(p) \/ Renames(p) \/ RenameFails(p)
       \/ Crashes(p)
  \/ LosesStore

CoverageSpec == CoverageInit /\ [][CoverageNext]_coverageVars

-----------------------------------------------------------------------------
(* Properties                                                              *)

Regresses(e) ==
  \/ store'[e].state < store[e].state
  \/ store'[e].count < store[e].count
  \/ store[e].first # None /\ store'[e].first # store[e].first

\* "State never regresses" (coverage.State): while the store is not deleted
\* and no two processes have run at once, no element of it moves back, is
\* counted less, or changes who saw it first, whatever was killed or failed.
NeverRegresses ==
  [][(store \in Docs /\ lost' = lost /\ ~overlapped') =>
       store' \in Docs /\ \A e \in Elements : ~Regresses(e)]_coverageVars

\* The document after these saves, one after the other.
FoldOf(order) ==
  LET doc[n \in 0 .. Len(order)] ==
        IF n = 0 THEN Bootstrap ELSE Folded(doc[n - 1], Source[order[n]])
  IN  doc[Len(order)]

\* "A crash mid-write cannot leave a corrupt document" (Document.Save): of
\* processes that run one after the other, every one that saved is in the
\* store, none twice and none partly; the document is whole and is the fold of
\* their observations in the order of their saves.
StoreIsFold == store # Absent /\ ~overlapped => store = FoldOf(saved)

\* "Coverage can be rebuilt from bundles alone if the store is lost"
\* (recordCoverage): what the store owes to a session is in its delta, unless
\* the session said that it could not write it; also after kills, with
\* processes that overlap and with lost updates.
DeltaBeforeStore ==
  \A n \in DOMAIN saved : delta[Source[saved[n]]] \in {"written", "failed"}
=============================================================================
