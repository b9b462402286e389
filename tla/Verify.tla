-------------------------------- MODULE Verify --------------------------------
(***************************************************************************)
(* sccap verify: the verdict on a bundle (internal/verify, cmd/sccap).     *)
(* Operators only.  A bundle is what its files show:                       *)
(*   meta        "ok", "schema" (unknown major) or "broken"                *)
(*   idMatches   session.json names this directory                         *)
(*   termination, utcEnd, drops, sensitive, anchorsOk   from session.json  *)
(*   listed      how many segments session.json lists                      *)
(*   sums        "absent", "unreadable", "match", "mismatch", "missing"    *)
(*   segments    in name order, [readable, truncated, frames]              *)
(*   index       "absent", "ok", "torn", "dangling" (missing segment)      *)
(* Permissions, filter and snaplen only ever add a warning.                *)
(***************************************************************************)
EXTENDS Integers, Sequences

Finding(check, level) == [check |-> check, level |-> level]

TerminationFindings(b) ==
  CASE b.termination = "clean" /\ ~b.utcEnd -> {Finding("termination", "fail")}
    [] b.termination = "clean" /\ b.utcEnd  -> {Finding("termination", "ok")}
    [] OTHER                                -> {Finding("termination", "warn")}

SumsFindings(b) ==
  CASE b.sums = "match"  -> {Finding("integrity", "ok")}
    [] b.sums = "absent" -> {Finding("integrity", "warn")}
    [] OTHER             -> {Finding("integrity", "fail")}

\* walkSegment and the case analysis on its result: an unreadable header is
\* not a truncation, and a truncation is forgiven in the last segment only.
SegmentLevel(b, i) ==
  LET s == b.segments[i]
  IN  CASE ~s.readable                                                -> "fail"
        [] s.readable /\ s.truncated /\ i = Len(b.segments)           -> "warn"
        [] s.readable /\ s.truncated /\ i # Len(b.segments)           -> "fail"
        [] s.readable /\ ~s.truncated                                 -> "ok"

SegmentFindings(b) ==
  IF b.segments = <<>> THEN {Finding("segments", "fail")}
  ELSE {Finding("segments", SegmentLevel(b, i)) : i \in DOMAIN b.segments}
       \cup IF b.listed > 0 /\ b.listed # Len(b.segments)
            THEN {Finding("segments", "warn")} ELSE {}

\* verifyIndex looks for the segment a record cites, never for the frame.
IndexFindings(b) ==
  CASE b.index = "absent" -> {}
    [] b.index = "ok"     -> {Finding("index", "ok")}
    [] OTHER              -> {Finding("index", "warn")}

\* Findings made after the status has been set from the termination state.
LaterFindings(b) ==
  TerminationFindings(b) \cup SumsFindings(b) \cup SegmentFindings(b)
  \cup {Finding("drops", IF b.drops THEN "fail" ELSE "ok")}
  \cup {Finding("clock", IF b.anchorsOk THEN "ok" ELSE "fail")}
  \cup (IF b.sensitive THEN {} ELSE {Finding("sensitivity", "fail")})
  \cup IndexFindings(b)

Findings(b) ==
  IF b.meta = "broken" THEN {Finding("session.json", "fail")}
  ELSE LaterFindings(b)
       \cup IF b.idMatches THEN {} ELSE {Finding("bundle id", "fail")}

\* Result.Status.  The bundle-id check sets it first; the termination switch
\* then assigns "interrupted" over it; every later failure sets it again.
Status(b) ==
  CASE b.meta = "schema" -> "refused"
    [] b.meta = "broken" -> "failed"
    [] b.meta = "ok" /\ \E f \in LaterFindings(b) : f.level = "fail" -> "failed"
    [] OTHER -> IF b.termination \notin {"clean", "disk_floor"} THEN "interrupted"
                ELSE IF ~b.idMatches THEN "failed" ELSE "clean"
=============================================================================
