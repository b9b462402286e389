------------------------------- MODULE PostHoc -------------------------------
(***************************************************************************)
(* What happens to a bundle after its session: sccap index --rebuild,      *)
(* sccap verify --write-sums and sccap mark --bundle, one tool at a time,  *)
(* each of which may die or meet an I/O error between any two of its       *)
(* steps.                                                                  *)
(*                                                                         *)
(* A file is represented by what is in it, as far as its hash can tell.    *)
(* The pcapng segments are covered too, and no tool here writes to them.   *)
(***************************************************************************)
EXTENDS Integers, FiniteSets

CONSTANTS
  Rebuilds, SumWriters, Marks,  \* runs of the three tools
  Absent

Tools == Rebuilds \cup SumWriters \cup Marks

ASSUME PostHocAssumption ==
  Rebuilds \cap SumWriters = {} /\ Rebuilds \cap Marks = {} /\ SumWriters \cap Marks = {}

VARIABLES
  index,     \* index.jsonl: "live", "partial" or "rebuilt"
  delta,     \* coverage-delta.json: Absent, "live", "partial" or "rebuilt"
  markers,   \* how many lines markers.log has gained
  anomaly,   \* session.json says that sums were generated post hoc
  sums,      \* SHA256SUMS: what was hashed, or Absent
  ended,     \* how the session ended: "clean" or "killed"
  headers,   \* every segment begins with a readable header
  pc,        \* per tool
  hashed     \* the manifest the running tool is about to rename into place

bundleVars == <<index, delta, markers, anomaly>>
postHocVars == <<bundleVars, sums, ended, headers, pc, hashed>>

\* HashDir, of the files that can change.
Contents == [index |-> index, delta |-> delta, markers |-> markers, anomaly |-> anomaly]

\* verifySums: every file listed is there and matches; a file that is not
\* listed is a warning.
Matches(manifest) ==
  /\ manifest.index = index
  /\ manifest.delta \in {delta, Absent}
  /\ manifest.markers = markers
  /\ manifest.anomaly = anomaly

\* "stale" is a run that went on although its last WriteSums failed.
Idle == \A t \in Tools : pc[t] \in {"idle", "done", "failed", "stale"}

Goes(t, at) == pc' = [pc EXCEPT ![t] = at]

-----------------------------------------------------------------------------
(* journal.WriteSums: hash everything, then rename the manifest into place *)

HashesAll(t, from, to) ==
  /\ pc[t] = from
  /\ hashed' = Contents
  /\ Goes(t, to)
  /\ UNCHANGED <<bundleVars, sums, ended, headers>>

RenamesSums(t, from, to) ==
  /\ pc[t] = from
  /\ sums' = hashed
  /\ Goes(t, to)
  /\ UNCHANGED <<bundleVars, ended, headers, hashed>>

\* The last WriteSums of a run fails and leaves the manifest as it was: runIndex
\* warns and exits 0, runVerify discards the error and goes on to Verify.
SumsGoStale(t, stages) ==
  /\ pc[t] \in stages
  /\ Goes(t, "stale")
  /\ UNCHANGED <<bundleVars, sums, ended, headers, hashed>>

-----------------------------------------------------------------------------
(* sccap index --rebuild                                                   *)

\* index.Create truncates the index in place.
RebuildStarts(t) ==
  /\ Idle /\ pc[t] = "idle"
  /\ index' = "partial"
  /\ Goes(t, "replay")
  /\ UNCHANGED <<delta, markers, anomaly, sums, ended, headers, hashed>>

\* decode.Replay to the end, and w.Close.
Replays(t) ==
  /\ pc[t] = "replay" /\ headers
  /\ index' = "rebuilt"
  /\ Goes(t, "delta")
  /\ UNCHANGED <<delta, markers, anomaly, sums, ended, headers, hashed>>

\* "not a readable pcapng: EOF" is not the torn tail that Replay forgives.
ReplayRefuses(t) ==
  /\ pc[t] = "replay" /\ ~headers
  /\ Goes(t, "failed")
  /\ UNCHANGED <<bundleVars, sums, ended, headers, hashed>>

\* refreshDelta: an error is a warning.
RefreshesDelta(t) ==
  /\ pc[t] = "delta"
  /\ delta' \in {"rebuilt", "partial", delta}
  /\ Goes(t, "hash")
  /\ UNCHANGED <<index, markers, anomaly, sums, ended, headers, hashed>>

\* Mutant: the files are hashed before the delta is refreshed.
RebuildHashesFirst(t) ==
  \/ RebuildStarts(t) \/ Replays(t) \/ ReplayRefuses(t)
  \/ HashesAll(t, "delta", "hash")
  \/ /\ pc[t] = "hash"
     /\ delta' = "rebuilt"
     /\ Goes(t, "rename")
     /\ UNCHANGED <<index, markers, anomaly, sums, ended, headers, hashed>>
  \/ RenamesSums(t, "rename", "done")
  \/ SumsGoStale(t, {"hash", "rename"})

Rebuild(t) ==
  \/ RebuildStarts(t) \/ Replays(t) \/ ReplayRefuses(t) \/ RefreshesDelta(t)
  \/ HashesAll(t, "hash", "rename")
  \/ RenamesSums(t, "rename", "done")
  \/ SumsGoStale(t, {"hash", "rename"})

-----------------------------------------------------------------------------
(* sccap verify --write-sums                                               *)

SumsExist(t) ==
  /\ Idle /\ pc[t] = "idle"
  /\ sums # Absent
  /\ Goes(t, "done")
  /\ UNCHANGED <<bundleVars, sums, ended, headers, hashed>>

SumsStart(t) ==
  /\ Idle /\ pc[t] = "idle"
  /\ sums = Absent
  /\ Goes(t, "hash")
  /\ UNCHANGED <<bundleVars, sums, ended, headers, hashed>>

\* Mutant: session.json is not hashed again.
RecordsAnomalyLast(t) ==
  /\ pc[t] = "anomaly"
  /\ anomaly' = TRUE
  /\ Goes(t, "done")
  /\ UNCHANGED <<index, delta, markers, sums, ended, headers, hashed>>

\* meta.Anomaly and meta.Write, whose error is discarded.
RecordsAnomaly(t) ==
  /\ pc[t] = "anomaly"
  /\ anomaly' \in {TRUE, anomaly}
  /\ Goes(t, "hash again")
  /\ UNCHANGED <<index, delta, markers, sums, ended, headers, hashed>>

WriteSums(t) ==
  \/ SumsExist(t) \/ SumsStart(t)
  \/ HashesAll(t, "hash", "rename")
  \/ RenamesSums(t, "rename", "anomaly")
  \/ RecordsAnomaly(t)
  \/ HashesAll(t, "hash again", "rename again")
  \/ RenamesSums(t, "rename again", "done")
  \/ SumsGoStale(t, {"hash again", "rename again"})

-----------------------------------------------------------------------------
\* sccap mark --bundle: the log line is synced, nothing else is touched.
Mark(t) ==
  /\ Idle /\ pc[t] = "idle"
  /\ markers' = markers + 1
  /\ Goes(t, "done")
  /\ UNCHANGED <<index, delta, anomaly, sums, ended, headers, hashed>>

\* The run is killed, or an error that the tool reports ends it: a failing last
\* WriteSums is not one (SumsGoStale).
Fails(t) ==
  /\ pc[t] \notin {"idle", "done", "failed", "stale"}
  /\ Goes(t, "failed")
  /\ UNCHANGED <<bundleVars, sums, ended, headers, hashed>>

\* A session that closed left its sums; a killed one has none, and has reached
\* its delta and a whole header or not.
PostHocInit ==
  /\ index = "live" /\ markers = 0 /\ anomaly = FALSE
  /\ ended \in {"clean", "killed"}
  /\ delta \in IF ended = "clean" THEN {"live"} ELSE {Absent, "live", "partial"}
  /\ headers \in IF ended = "clean" THEN {TRUE} ELSE BOOLEAN
  /\ sums = IF ended = "clean" THEN Contents ELSE Absent
  /\ hashed = Absent
  /\ pc = [t \in Tools |-> "idle"]

PostHocNext ==
  \/ \E t \in Rebuilds : Rebuild(t)
  \/ \E t \in SumWriters : WriteSums(t)
  \/ \E t \in Marks : Mark(t)
  \/ \E t \in Tools : Fails(t)

PostHocSpec == PostHocInit /\ [][PostHocNext]_postHocVars

-----------------------------------------------------------------------------
(* Properties                                                              *)

Verifies == sums = Absent \/ Matches(sums)

\* "verify after a rebuild must still pass" (contracts/cli.md), and after sums
\* were written post hoc: whatever tools ran, in whatever order, a bundle
\* matches its manifest when none runs, if none died or reported an error, no
\* last WriteSums failed and no marker was stamped after the close. That a
\* delta was not refreshed, or the anomaly not recorded, does not matter; that
\* the last WriteSums failed does, and no tool reports that as its failure.
AtRestVerifies ==
  Idle /\ markers = 0 /\ (\A t \in Tools : pc[t] \notin {"failed", "stale"}) => Verifies

\* A rebuild whose last WriteSums succeeds repairs whatever earlier runs that
\* died or went stale, and markers stamped after the close, had left out of
\* step with the manifest.
RebuildHeals ==
  [][\A t \in Rebuilds : pc[t] = "rename" /\ pc'[t] = "done" => Verifies']_postHocVars
=============================================================================
