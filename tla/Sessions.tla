------------------------------- MODULE Sessions -------------------------------
(***************************************************************************)
(* The sessions of one machine and the commands that look for them: how a  *)
(* capture claims a bundle and starts (session/bundle.go, captureSession), *)
(* the pointer to the running session (session/live.go), and the marker    *)
(* log of a bundle (annotate.Beacon, sccap mark), in which each process    *)
(* keeps its own count of the sequence numbers.                            *)
(*                                                                         *)
(* All captures begin in the same second with the same labels, so that     *)
(* bundles differ in the last part of their names only.  The frames of a   *)
(* session are in Capture.                                                 *)
(***************************************************************************)
EXTENDS Integers, Sequences, FiniteSetsExt

CONSTANTS
  Captures,   \* capture processes
  Marks,      \* runs of sccap mark, one-shot or console
  MaxSeqs,    \* how many bundles may have the same name but for the number
  MaxDerived, \* bound: markers that a capture stamps between its start and end
  MaxStamps,  \* bound: markers that a mark stamps
  MaxUnwritten,  \* bound: markers that could not be written
  None

Procs == Captures \cup Marks

Dirs == 0 .. MaxSeqs - 1

ASSUME SessionsAssumption ==
  /\ Captures \cap Marks = {}
  /\ None \notin [meta : BOOLEAN, segment : BOOLEAN]
  /\ MaxSeqs \in Nat \ {0} /\ {MaxDerived, MaxStamps} \subseteq Nat /\ MaxUnwritten \in Nat
  /\ None \notin Captures \cup Nat

VARIABLES
  bundle,   \* per directory: None, or what it holds, [meta, segment]
  log,      \* per directory: markers.log
  live,     \* current-session.json: the capture it names, or None
  capture,  \* per capture: how far it has come
  seqNo,    \* per capture: the number that CreateBundle tries next
  dir,      \* per process: the bundle that it writes to, or None
  mark,     \* per mark: "idle", "found", "open" or "exited"
  seq,      \* per process: Beacon.seq
  openedAt, \* how many markers the log held when the process opened it
  stamped,  \* how many markers the process has stamped
  met,      \* captures that published while another one was published
  hidden    \* captures whose pointer could not be written

sessionsVars ==
  <<bundle, log, live, capture, seqNo, dir, mark, seq, openedAt, stamped, met, hidden>>

beaconVars == <<log, seq, openedAt, stamped>>
pointerVars == <<live, met, hidden>>

NewBundle == [meta |-> FALSE, segment |-> FALSE]

\* What a process id tells: the capture has begun and has not ended.
Over == {"failed", "exited", "killed"}
Alive(c) == capture[c] \notin {"idle"} \cup Over

\* The captures that have called PublishLive and have not ended.
Published == {c \in Captures : capture[c] \in {"published", "live", "stopped"}}

Goes(c, stage) == capture' = [capture EXCEPT ![c] = stage]

-----------------------------------------------------------------------------
(* annotate.Beacon                                                         *)

\* Mutant: the number in the last line is taken for the largest.
SeqOfLastLine(lines) == IF lines = <<>> THEN 0 ELSE lines[Len(lines)].seq

LastSeq(lines) == Max({0} \cup {lines[k].seq : k \in DOMAIN lines})

\* OpenBeacon: the count goes on from the largest number in the log.
OpenBeacon(p, d) ==
  /\ seq' = [seq EXCEPT ![p] = LastSeq(log[d])]
  /\ openedAt' = [openedAt EXCEPT ![p] = Len(log[d])]
  /\ UNCHANGED <<log, stamped>>

Unwritten ==
  MapThenSumSet(LAMBDA p : stamped[p], Procs) - MapThenSumSet(LAMBDA d : Len(log[d]), Dirs)

\* Beacon.Stamp: O_APPEND, and synced before it returns.  A number whose line
\* could not be written is used up.
Stamp(p) ==
  /\ seq' = [seq EXCEPT ![p] = @ + 1]
  /\ stamped' = [stamped EXCEPT ![p] = @ + 1]
  /\ \/ log' = [log EXCEPT ![dir[p]] = Append(@, [seq |-> seq[p] + 1, by |-> p])]
     \/ Unwritten < MaxUnwritten /\ UNCHANGED log
  /\ UNCHANGED openedAt

-----------------------------------------------------------------------------
(* captureSession, up to the loop                                          *)

\* Mutant: a directory without a sidecar is taken for a free one.
MkdirUnlessDescribed(c) ==
  LET d == seqNo[c]
  IN  IF bundle[d] # None /\ bundle[d].meta
      THEN seqNo' = [seqNo EXCEPT ![c] = @ + 1] /\ UNCHANGED <<bundle, dir, capture>>
      ELSE /\ bundle' = [bundle EXCEPT ![d] = NewBundle]
           /\ dir' = [dir EXCEPT ![c] = d]
           /\ Goes(c, "named")
           /\ UNCHANGED seqNo

\* One turn of CreateBundle's loop: os.Mkdir fails on what exists.
Mkdir(c) ==
  LET d == seqNo[c]
  IN  IF bundle[d] # None
      THEN seqNo' = [seqNo EXCEPT ![c] = @ + 1] /\ UNCHANGED <<bundle, dir, capture>>
      ELSE /\ bundle' = [bundle EXCEPT ![d] = NewBundle]
           /\ dir' = [dir EXCEPT ![c] = d]
           /\ Goes(c, "named")
           /\ UNCHANGED seqNo

Names(c) ==
  /\ capture[c] = "idle"
  /\ seqNo[c] \in Dirs
  /\ Mkdir(c)
  /\ UNCHANGED <<mark, beaconVars, pointerVars>>

\* Every number is taken, or os.Mkdir fails for another reason.
NotNamed(c) ==
  /\ capture[c] = "idle"
  /\ Goes(c, "failed")
  /\ UNCHANGED <<bundle, seqNo, dir, mark, beaconVars, pointerVars>>

\* The first meta.Write.
Describes(c) ==
  /\ capture[c] = "named"
  /\ bundle' = [bundle EXCEPT ![dir[c]].meta = TRUE]
  /\ Goes(c, "described")
  /\ UNCHANGED <<seqNo, dir, mark, beaconVars, pointerVars>>

\* journal.NewWriter
OpensJournal(c) ==
  /\ capture[c] = "described"
  /\ bundle' = [bundle EXCEPT ![dir[c]].segment = TRUE]
  /\ Goes(c, "journaling")
  /\ UNCHANGED <<seqNo, dir, mark, beaconVars, pointerVars>>

\* OpenBeacon, and capture.Open of every interface.
OpensSources(c) ==
  /\ capture[c] = "journaling"
  /\ OpenBeacon(c, dir[c])
  /\ Goes(c, "sourced")
  /\ UNCHANGED <<bundle, seqNo, dir, mark, pointerVars>>

\* Mutant: an error of the first meta.Write is ignored, as a later one's is.
FailsLater(c) ==
  /\ \/ /\ capture[c] \in {"described", "journaling", "published"}
        /\ Goes(c, "failed")
     \/ /\ capture[c] = "named"
        /\ Goes(c, "described")
  /\ UNCHANGED <<bundle, seqNo, dir, mark, beaconVars, pointerVars>>

\* The next step of the start reports an error and the process exits.  After
\* PublishLive that step is index.Create, and the pointer stays.  A NewWriter that
\* fails may have created its first segment.
FailsToStart(c) ==
  /\ capture[c] \in {"named", "described", "journaling", "published"}
  /\ \/ UNCHANGED bundle
     \/ capture[c] = "described" /\ bundle' = [bundle EXCEPT ![dir[c]].segment = TRUE]
  /\ Goes(c, "failed")
  /\ UNCHANGED <<seqNo, dir, mark, beaconVars, pointerVars>>

\* Mutant: a pointer that is there is respected.
PointsOnce(c) ==
  \/ live' = (IF live = None THEN c ELSE live) /\ UNCHANGED hidden
  \/ UNCHANGED live /\ hidden' = hidden \cup {c}

\* PublishLive replaces the pointer, whoever it names; its error is ignored.
Points(c) ==
  \/ live' = c /\ UNCHANGED hidden
  \/ UNCHANGED live /\ hidden' = hidden \cup {c}

Publishes(c) ==
  /\ capture[c] = "sourced"
  /\ Points(c)
  /\ met' = IF Published = {} THEN met ELSE met \cup Published \cup {c}
  /\ Goes(c, "published")
  /\ UNCHANGED <<bundle, seqNo, dir, mark, beaconVars>>

\* index.Create, and "capture started".
Starts(c) ==
  /\ capture[c] = "published"
  /\ Stamp(c)
  /\ Goes(c, "live")
  /\ UNCHANGED <<bundle, seqNo, dir, mark, pointerVars>>

-----------------------------------------------------------------------------
(* captureSession, the loop and the end                                    *)

\* Deriver.Observe, at a tick.
CaptureStamps(c) ==
  /\ capture[c] = "live"
  /\ stamped[c] <= MaxDerived
  /\ Stamp(c)
  /\ UNCHANGED <<bundle, capture, seqNo, dir, mark, pointerVars>>

\* "capture stopped"; then the beacon is closed and the files are hashed.
Stops(c) ==
  /\ capture[c] = "live"
  /\ Stamp(c)
  /\ Goes(c, "stopped")
  /\ UNCHANGED <<bundle, seqNo, dir, mark, pointerVars>>

\* ClearLive removes the pointer, whoever it names.
Clears(c) ==
  /\ capture[c] = "stopped"
  /\ live' = None
  /\ Goes(c, "exited")
  /\ UNCHANGED <<bundle, seqNo, dir, mark, beaconVars, met, hidden>>

Kills(c) ==
  /\ Alive(c)
  /\ Goes(c, "killed")
  /\ UNCHANGED <<bundle, seqNo, dir, mark, beaconVars, pointerVars>>

-----------------------------------------------------------------------------
(* sccap mark and sccap status                                             *)

\* ReadLive: a pointer to a dead process counts as none.
Found == IF live # None /\ Alive(live) THEN live ELSE None

\* sccap status finds a session and cannot load its session.json.
StatusFails == Found # None /\ ~bundle[dir[Found]].meta

MarkFinds(m) ==
  /\ mark[m] = "idle"
  /\ Found # None
  /\ dir' = [dir EXCEPT ![m] = dir[Found]]
  /\ mark' = [mark EXCEPT ![m] = "found"]
  /\ UNCHANGED <<bundle, capture, seqNo, beaconVars, pointerVars>>

MarkFindsNone(m) ==
  /\ mark[m] = "idle"
  /\ Found = None
  /\ mark' = [mark EXCEPT ![m] = "exited"]
  /\ UNCHANGED <<bundle, capture, seqNo, dir, beaconVars, pointerVars>>

\* --bundle names any bundle.
MarkNames(m) ==
  /\ mark[m] = "idle"
  /\ \E d \in {e \in Dirs : bundle[e] # None} : dir' = [dir EXCEPT ![m] = d]
  /\ mark' = [mark EXCEPT ![m] = "found"]
  /\ UNCHANGED <<bundle, capture, seqNo, beaconVars, pointerVars>>

MarkOpens(m) ==
  /\ mark[m] = "found"
  /\ OpenBeacon(m, dir[m])
  /\ mark' = [mark EXCEPT ![m] = "open"]
  /\ UNCHANGED <<bundle, capture, seqNo, dir, pointerVars>>

\* A console stays open as long as its user likes.
MarkStamps(m) ==
  /\ mark[m] = "open"
  /\ stamped[m] < MaxStamps
  /\ Stamp(m)
  /\ UNCHANGED <<bundle, capture, seqNo, dir, mark, pointerVars>>

MarkExits(m) ==
  /\ mark[m] = "open"
  /\ mark' = [mark EXCEPT ![m] = "exited"]
  /\ UNCHANGED <<bundle, capture, seqNo, dir, beaconVars, pointerVars>>

-----------------------------------------------------------------------------
\* A bundle of an earlier session may have the first name.
SessionsInit ==
  /\ \E old \in SUBSET {0} :
       bundle = [d \in Dirs |-> IF d \in old THEN [NewBundle EXCEPT !.meta = TRUE] ELSE None]
  /\ log = [d \in Dirs |-> <<>>]
  /\ live = None
  /\ capture = [c \in Captures |-> "idle"]
  /\ seqNo = [c \in Captures |-> 0]
  /\ dir = [p \in Procs |-> None]
  /\ mark = [m \in Marks |-> "idle"]
  /\ seq = [p \in Procs |-> 0]
  /\ openedAt = [p \in Procs |-> 0]
  /\ stamped = [p \in Procs |-> 0]
  /\ met = {} /\ hidden = {}

SessionsNext ==
  \/ \E c \in Captures :
       \/ Names(c) \/ NotNamed(c) \/ Describes(c) \/ OpensJournal(c)
       \/ OpensSources(c) \/ FailsToStart(c) \/ Publishes(c) \/ Starts(c)
       \/ CaptureStamps(c) \/ Stops(c) \/ Clears(c) \/ Kills(c)
  \/ \E m \in Marks :
       \/ MarkFinds(m) \/ MarkFindsNone(m) \/ MarkNames(m)
       \/ MarkOpens(m) \/ MarkStamps(m) \/ MarkExits(m)

SessionsSpec == SessionsInit /\ [][SessionsNext]_sessionsVars

-----------------------------------------------------------------------------
(* Properties                                                              *)

\* "It never overwrites or reuses an existing directory" (CreateBundle): a
\* bundle has one capture at most, also when several start in the same second
\* and others die before they have written anything.
BundlesApart ==
  /\ [](\A c, d \in Captures : c # d /\ dir[c] # None => dir[c] # dir[d])
  /\ [][\A d \in Dirs : bundle[d] # None =>
          /\ bundle'[d] # None
          /\ bundle[d].meta => bundle'[d].meta]_sessionsVars

\* "Write the sidecar before a single frame is captured, so that even a session
\* killed one second from now is self-describing" (captureSession): wherever a
\* start fails or is killed, a bundle with a segment has its session.json, and
\* sccap status can load that of every session it finds.
SelfDescribing ==
  /\ \A d \in Dirs : bundle[d] # None /\ bundle[d].segment => bundle[d].meta
  /\ ~StatusFails

\* Reopening a log continues its numbering (OpenBeacon, lastSeq): a process
\* never gives out a number that the log already held when it opened it, also
\* when two earlier writers left their numbers out of order or with gaps.
ReopenContinues ==
  \A d \in Dirs : \A i, j \in DOMAIN log[d] :
    LET opened == openedAt[log[d][j].by]
    IN  i <= opened /\ opened < j => log[d][i].seq < log[d][j].seq

\* "LiveFile points at the session currently being captured on this machine,
\* so that sccap mark and sccap status can find it" (live.go): a session that
\* could publish itself and runs is the one that is found, after any number of
\* earlier ones that exited, were killed or failed to start, unless another was
\* published at the same time.
LiveIsFound ==
  \A c \in Published \ (met \cup hidden) :
    capture[c] \in {"published", "live"} => Found = c
=============================================================================
