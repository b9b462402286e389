----------------------------- MODULE PostHocProofs -----------------------------
(***************************************************************************)
(* What the tools that come after a session promise of its manifest, for   *)
(* any number of their runs, in any order, whichever of them die.          *)
(***************************************************************************)
EXTENDS PostHoc, TLAPS

Stages == {"idle", "replay", "delta", "hash", "rename", "anomaly", "hash again",
           "rename again", "done", "failed", "stale"}

Busy(t) == pc[t] \notin {"idle", "done", "failed", "stale"}

Unharmed == markers = 0 /\ \A t \in Tools : pc[t] \notin {"failed", "stale"}

\* One tool runs at a time, so what it is about to rename into place is what
\* is there; and the manifest is right whenever none runs and nothing failed.
PostHocInv ==
  /\ pc \in [Tools -> Stages]
  /\ markers \in Nat
  /\ \A s, t \in Tools : Busy(s) /\ Busy(t) => s = t
  /\ \A t \in Tools : pc[t] \in {"rename", "rename again"} => hashed = Contents
  /\ AtRestVerifies

\* A closed session has left the sums of its files, a killed one none.
LEMMA PostHocStarts == PostHocInit => PostHocInv
<1> SUFFICES ASSUME PostHocInit PROVE PostHocInv
  OBVIOUS
<1>1. Verifies
  BY DEF PostHocInit, Verifies, Matches, Contents
<1>2. pc = [t \in Tools |-> "idle"] /\ markers = 0
  BY DEF PostHocInit
<1> QED
  BY <1>1, <1>2 DEF PostHocInv, Stages, Busy, AtRestVerifies

\* A tool that runs goes to a stage in which it still runs.
LEMMA RunsOn ==
  ASSUME PostHocInv, NEW t \in Tools, Busy(t), NEW at \in Stages, Goes(t, at),
         at \notin {"idle", "done", "failed", "stale"}, markers' = markers,
         at \in {"rename", "rename again"} => hashed' = Contents'
  PROVE  PostHocInv'
<1>1. \A s \in Tools : s # t => ~Busy(s)
  BY DEF PostHocInv
<1>2. pc'[t] = at /\ \A s \in Tools : s # t => pc'[s] = pc[s]
  BY DEF PostHocInv, Goes
<1>3. ~Idle'
  BY <1>2 DEF Idle
<1>4. \A s \in Tools : pc'[s] \in {"rename", "rename again"} => s = t
  BY <1>1, <1>2 DEF Busy
<1>5. \A r, s \in Tools : Busy(r)' /\ Busy(s)' => r = s
  BY <1>1, <1>2 DEF Busy
<1>6. pc' \in [Tools -> Stages]
  BY DEF PostHocInv, Goes
<1> QED
  BY <1>2, <1>3, <1>4, <1>5, <1>6 DEF PostHocInv, AtRestVerifies

\* A tool ends: well, and then the manifest is right, or without its sums.
LEMMA Ends ==
  ASSUME PostHocInv, NEW t \in Tools, Busy(t) \/ Idle, NEW at \in {"done", "failed", "stale"},
         Goes(t, at), markers' \in Nat, at = "done" => (Unharmed' => Verifies')
  PROVE  PostHocInv'
<1>1. \A s \in Tools : s # t => ~Busy(s)
  BY DEF PostHocInv, Idle, Busy
<1>2. pc'[t] = at /\ \A s \in Tools : s # t => pc'[s] = pc[s]
  BY DEF PostHocInv, Goes
<1>3. \A s \in Tools : ~Busy(s)' /\ pc'[s] \notin {"rename", "rename again"}
  BY <1>1, <1>2 DEF Busy
<1>4. AtRestVerifies'
  BY <1>2 DEF AtRestVerifies, Unharmed
<1>5. pc' \in [Tools -> Stages]
  BY DEF PostHocInv, Goes, Stages
<1> QED
  BY <1>3, <1>4, <1>5 DEF PostHocInv

\* A tool begins when none runs.
LEMMA Begins ==
  ASSUME PostHocInv, NEW t \in Tools, Idle, NEW at \in {"replay", "hash"}, Goes(t, at),
         markers' = markers
  PROVE  PostHocInv'
<1>1. \A s \in Tools : ~Busy(s)
  BY DEF Idle, Busy
<1>2. pc'[t] = at /\ \A s \in Tools : s # t => pc'[s] = pc[s]
  BY DEF PostHocInv, Goes
<1>3. ~Idle'
  BY <1>2 DEF Idle
<1>4. \A r, s \in Tools : Busy(r)' /\ Busy(s)' => r = s
  BY <1>1, <1>2 DEF Busy
<1>5. \A s \in Tools : pc'[s] \notin {"rename", "rename again"}
  BY <1>1, <1>2 DEF Busy
<1>6. pc' \in [Tools -> Stages]
  BY DEF PostHocInv, Goes, Stages
<1> QED
  BY <1>2, <1>3, <1>4, <1>5, <1>6 DEF PostHocInv, AtRestVerifies

\* Hashing notes what is there.
LEMMA HashingInv ==
  ASSUME PostHocInv, NEW t \in Tools, NEW from \in {"hash", "hash again"},
         NEW to \in {"rename", "rename again"}, HashesAll(t, from, to)
  PROVE  PostHocInv'
<1>1. Busy(t) /\ hashed' = Contents' /\ markers' = markers
  BY DEF HashesAll, Busy, Contents, bundleVars
<1>2. Goes(t, to) /\ to \in Stages
  BY DEF HashesAll, Stages
<1> QED
  BY <1>1, <1>2, RunsOn

\* The manifest that is renamed into place is that of what is there.
LEMMA RenamingVerifies ==
  ASSUME PostHocInv, NEW t \in Tools, NEW from \in {"rename", "rename again"}, NEW to,
         RenamesSums(t, from, to)
  PROVE  Verifies' /\ Busy(t) /\ markers' = markers /\ Goes(t, to) /\ hashed' = hashed
<1>1. hashed = Contents
  BY DEF RenamesSums, PostHocInv
<1>2. sums' = Contents'
  BY <1>1 DEF RenamesSums, Contents, bundleVars
<1>3. Verifies'
  BY <1>2 DEF Verifies, Matches, Contents
<1> QED
  BY <1>3 DEF RenamesSums, Busy, bundleVars

\* A tool whose last WriteSums fails ends without its sums.
LEMMA StalingInv ==
  ASSUME PostHocInv, NEW t \in Tools, NEW stages, SumsGoStale(t, stages), Busy(t)
  PROVE  PostHocInv'
<1>1. Goes(t, "stale") /\ markers' \in Nat
  BY DEF SumsGoStale, PostHocInv, bundleVars
<1> QED
  BY <1>1, Ends

\* Every step of a bundle tool keeps the invariant.
LEMMA PostHocStep == PostHocInv /\ [PostHocNext]_postHocVars => PostHocInv'
<1> SUFFICES ASSUME PostHocInv, [PostHocNext]_postHocVars PROVE PostHocInv'
  OBVIOUS
<1> USE DEF Tools
<1>1. ASSUME NEW t \in Rebuilds, Rebuild(t) PROVE PostHocInv'
  <2>1. CASE RebuildStarts(t)
    BY <2>1, Begins DEF RebuildStarts
  <2>2. CASE Replays(t)
    BY <2>2, RunsOn DEF Replays, Busy, Stages
  <2>3. CASE ReplayRefuses(t)
    <3>1. Busy(t) /\ markers' \in Nat
      BY <2>3 DEF ReplayRefuses, Busy, PostHocInv, bundleVars
    <3> QED
      BY <2>3, <3>1, Ends DEF ReplayRefuses
  <2>4. CASE RefreshesDelta(t)
    BY <2>4, RunsOn DEF RefreshesDelta, Busy, Stages
  <2>5. CASE HashesAll(t, "hash", "rename")
    BY <2>5, HashingInv
  <2>6. CASE RenamesSums(t, "rename", "done")
    <3>1. Verifies' /\ Busy(t) /\ markers' = markers /\ Goes(t, "done")
      BY <2>6, RenamingVerifies
    <3> QED
      BY <3>1, Ends DEF PostHocInv
  <2>7. CASE SumsGoStale(t, {"hash", "rename"})
    BY <2>7, StalingInv DEF SumsGoStale, Busy
  <2> QED
    BY <1>1, <2>1, <2>2, <2>3, <2>4, <2>5, <2>6, <2>7 DEF Rebuild
<1>2. ASSUME NEW t \in SumWriters, WriteSums(t) PROVE PostHocInv'
  <2>1. CASE SumsExist(t)
    <3>1. Idle /\ Goes(t, "done") /\ markers' \in Nat
      BY <2>1 DEF SumsExist, PostHocInv, bundleVars
    <3>2. Unharmed' => Unharmed
      BY <2>1 DEF SumsExist, Goes, Unharmed, PostHocInv, bundleVars
    <3>3. Verifies' = Verifies
      BY <2>1 DEF SumsExist, Verifies, Matches, bundleVars
    <3>4. Unharmed => Verifies
      BY <3>1 DEF PostHocInv, AtRestVerifies, Unharmed
    <3> QED
      BY <3>1, <3>2, <3>3, <3>4, Ends
  <2>2. CASE SumsStart(t)
    BY <2>2, Begins DEF SumsStart, bundleVars
  <2>3. CASE HashesAll(t, "hash", "rename")
    BY <2>3, HashingInv
  <2>4. CASE RenamesSums(t, "rename", "anomaly")
    <3>1. Busy(t) /\ markers' = markers /\ Goes(t, "anomaly")
      BY <2>4, RenamingVerifies
    <3> QED
      BY <3>1, RunsOn DEF Stages
  <2>5. CASE RecordsAnomaly(t)
    BY <2>5, RunsOn DEF RecordsAnomaly, Busy, Stages
  <2>6. CASE HashesAll(t, "hash again", "rename again")
    BY <2>6, HashingInv
  <2>7. CASE RenamesSums(t, "rename again", "done")
    <3>1. Verifies' /\ Busy(t) /\ markers' = markers /\ Goes(t, "done")
      BY <2>7, RenamingVerifies
    <3> QED
      BY <3>1, Ends DEF PostHocInv
  <2>8. CASE SumsGoStale(t, {"hash again", "rename again"})
    BY <2>8, StalingInv DEF SumsGoStale, Busy
  <2> QED
    BY <1>2, <2>1, <2>2, <2>3, <2>4, <2>5, <2>6, <2>7, <2>8 DEF WriteSums
<1>3. ASSUME NEW t \in Marks, Mark(t) PROVE PostHocInv'
  <2>1. Idle /\ Goes(t, "done") /\ markers' = markers + 1
    BY <1>3 DEF Mark
  <2>2. markers \in Nat
    BY DEF PostHocInv
  <2>3. markers' \in Nat /\ markers' # 0
    BY <2>1, <2>2
  <2> QED
    BY <2>1, <2>3, Ends DEF Unharmed
<1>4. ASSUME NEW t \in Tools, Fails(t) PROVE PostHocInv'
  <2>1. Busy(t) /\ Goes(t, "failed") /\ markers' \in Nat
    BY <1>4 DEF Fails, Busy, PostHocInv, bundleVars
  <2> QED
    BY <2>1, Ends
<1>5. ASSUME UNCHANGED postHocVars PROVE PostHocInv'
  BY <1>5 DEF postHocVars, bundleVars, PostHocInv, Busy, Contents, AtRestVerifies, Idle,
    Verifies, Matches
<1> QED
  BY <1>1, <1>2, <1>3, <1>4, <1>5 DEF PostHocNext

\* Whatever tools have run on a bundle, one after the other: if none died, none
\* failed to write its last sums and no marker was stamped, verify finds the
\* manifest in order (contracts/cli.md, runIndex, runVerify).
THEOREM ToolsLeaveSumsInOrder == PostHocSpec => []AtRestVerifies
<1>1. PostHocInv => AtRestVerifies
  BY DEF PostHocInv
<1> QED
  BY <1>1, PostHocStarts, PostHocStep, PTL DEF PostHocSpec

\* A rebuild whose last WriteSums succeeds leaves a manifest of what is there, however
\* many tools had died on the bundle or gone stale before (runIndex).
THEOREM RebuildRepairs == PostHocSpec => RebuildHeals
<1>1. PostHocInv /\ [PostHocNext]_postHocVars
        => [\A t \in Rebuilds : pc[t] = "rename" /\ pc'[t] = "done" => Verifies']_postHocVars
  <2> SUFFICES ASSUME PostHocInv, PostHocNext, NEW t \in Rebuilds, pc[t] = "rename",
                      pc'[t] = "done"
               PROVE  Verifies'
    OBVIOUS
  <2>1. t \in Tools /\ ~Idle
    BY DEF Tools, Idle
  <2>2. ASSUME NEW s \in Tools, NEW at, Goes(s, at) PROVE s = t /\ at = "done"
    BY <2>1, <2>2 DEF Goes, PostHocInv
  <2>3. CASE \E s \in Rebuilds : Rebuild(s)
    <3>1. PICK s \in Rebuilds : Rebuild(s)
      BY <2>3
    <3>2. s = t
      BY <2>2, <3>1 DEF Tools, Rebuild, RebuildStarts, Replays, ReplayRefuses,
        RefreshesDelta, HashesAll, RenamesSums, SumsGoStale
    <3>3. RenamesSums(t, "rename", "done")
      BY <3>1, <3>2 DEF Rebuild, RebuildStarts, Replays, ReplayRefuses, RefreshesDelta,
        HashesAll, SumsGoStale, Goes, PostHocInv
    <3> QED
      BY <2>1, <3>3, RenamingVerifies
  <2>4. CASE \E s \in SumWriters : WriteSums(s)
    <3>1. PICK s \in SumWriters : WriteSums(s)
      BY <2>4
    <3>2. \E at : Goes(s, at)
      BY <3>1 DEF WriteSums, SumsExist, SumsStart, HashesAll, RenamesSums,
        RecordsAnomaly, SumsGoStale
    <3> QED
      BY <2>2, <3>2, PostHocAssumption DEF Tools, PostHocAssumption
  <2>5. CASE \E s \in Marks : Mark(s)
    BY <2>1, <2>5 DEF Mark
  <2>6. CASE \E s \in Tools : Fails(s)
    BY <2>2, <2>6 DEF Fails
  <2> QED
    BY <2>3, <2>4, <2>5, <2>6 DEF PostHocNext
<1> QED
  BY <1>1, PostHocStarts, PostHocStep, PTL DEF PostHocSpec, RebuildHeals
=============================================================================
