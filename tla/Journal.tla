------------------------------- MODULE Journal -------------------------------
(***************************************************************************)
(* The rotating pcapng journal of one session (internal/journal).          *)
(*                                                                         *)
(* A segment file is a row of blocks: block 1 is the section header with   *)
(* its interface blocks, block i + 1 is the frame of zero-based index      *)
(* i - 1.  Blocks pass through two user-space buffers and the page cache   *)
(* before they are durable, so a file has a history of blocks written and  *)
(* a number of leading blocks, synced, that are known to be on disk.       *)
(* Bytes are abstracted: every frame has size one.                         *)
(***************************************************************************)
EXTENDS Integers, Sequences

CONSTANTS
  Frames,            \* what may be journaled
  MaxSegmentFrames,  \* MaxSegmentBytes, counted in frames
  MaxFrames,         \* bound: frames acknowledged in one behaviour
  MaxFaults          \* bound: I/O errors in one behaviour

ASSUME JournalAssumption ==
  /\ MaxSegmentFrames \in Nat \ {0}
  /\ MaxFrames \in Nat
  /\ MaxFaults \in Nat

VARIABLES
  files,     \* segment files in name order: [frames, synced]
  isOpen,    \* w.seg is not nil; the open segment is then the last file
  stuck,     \* a buffered writer of the open segment holds a sticky error
  recorded,  \* w.segments: frame counts of the finished segments
  acked,     \* what Write returned without error: [frame, seg, index]
  writeErr,  \* Write returned an error
  faults,    \* I/O errors so far
  killed,    \* SIGKILL or power loss: files is now what is left on disk
  torn       \* segments whose last surviving block is cut short

journalVars ==
  <<files, isOpen, stuck, recorded, acked, writeErr, faults, killed, torn>>

-----------------------------------------------------------------------------
(* Segment files                                                           *)

NewFile == [frames |-> <<>>, synced |-> 0]

BlockCount(file) == Len(file.frames) + 1

Durable(file) == file.synced = BlockCount(file)

\* segment.sync and segment.close, without error.
Synced(fs) == [fs EXCEPT ![Len(fs)].synced = BlockCount(fs[Len(fs)])]

\* openSegment: the header is only in the buffer.
Opened(fs) == Append(fs, NewFile)

\* segment.write, without error.
Written(fs, f) == [fs EXCEPT ![Len(fs)].frames = Append(@, f)]

\* Mutant: the next segment is opened before the old one is finished.
RotatedUnfinished(fs) == Opened(fs)

Rotated(fs) == Opened(Synced(fs))

Current == files[Len(files)]

\* A failed bufio flush is remembered by the buffer, a failed fsync is not.
SyncFaults == IF stuck THEN {"flush"} ELSE {"flush", "fsync"}

Fault(kind) ==
  /\ (kind = "flush" /\ stuck) \/ faults < MaxFaults
  /\ faults' = IF kind = "flush" /\ stuck THEN faults ELSE faults + 1
  /\ stuck' = (stuck \/ kind = "flush")

-----------------------------------------------------------------------------
(* Writer.Write.  rotate and flush say which of its two conditions hold:   *)
(* by size they are forced, by time they may hold at any call.  Without an *)
(* open segment it would dereference nil; nothing in it looks at writeErr. *)

MayWrite(rotate) ==
  /\ isOpen /\ ~killed
  /\ Len(acked) < MaxFrames
  /\ Len(Current.frames) >= MaxSegmentFrames => rotate

Target(rotate) == IF rotate THEN Rotated(files) ELSE files

\* Mutant: the finished segment is not recorded.
NotFinished(rotate) == recorded

Finished(rotate) ==
  IF rotate THEN Append(recorded, Len(Current.frames)) ELSE recorded

\* Mutants: the reference is taken before the rotation; it always names the
\* first segment; its index counts from the frame before.
RefBeforeRotation(f, rotate) ==
  [frame |-> f, seg |-> Len(files), index |-> Len(Current.frames)]

RefFirstSegment(f, rotate) ==
  LET fs == Target(rotate)
  IN  [frame |-> f, seg |-> 1, index |-> Len(fs[Len(fs)].frames)]

RefOffByOne(f, rotate) ==
  LET fs == Target(rotate)
  IN  [frame |-> f, seg |-> Len(fs), index |-> Len(fs[Len(fs)].frames) - 1]

\* The reference Write returns: the segment and index after any rotation.
Ref(f, rotate) ==
  LET fs == Target(rotate)
  IN  [frame |-> f, seg |-> Len(fs), index |-> Len(fs[Len(fs)].frames)]

WriteOk(f, rotate, flush) ==
  /\ MayWrite(rotate)
  /\ stuck => ~rotate /\ ~flush
  /\ files' = LET fs == Written(Target(rotate), f)
              IN  IF flush THEN Synced(fs) ELSE fs
  /\ recorded' = Finished(rotate)
  /\ acked' = Append(acked, Ref(f, rotate))
  /\ UNCHANGED <<isOpen, stuck, writeErr, faults, killed, torn>>

\* rotate: finishSegment fails and the old segment stays open.
WriteFailsFinishing ==
  /\ MayWrite(TRUE)
  /\ \E kind \in SyncFaults : Fault(kind)
  /\ writeErr' = TRUE
  /\ UNCHANGED <<files, isOpen, recorded, acked, killed, torn>>

\* rotate: the old segment is finished and the next cannot be created.
WriteFailsOpening ==
  /\ MayWrite(TRUE)
  /\ ~stuck
  /\ Fault("create")
  /\ files' = Synced(files)
  /\ isOpen' = FALSE
  /\ recorded' = Finished(TRUE)
  /\ writeErr' = TRUE
  /\ UNCHANGED <<acked, killed, torn>>

\* WritePacket has to make room in a buffer and that write fails.
WriteFailsSpilling ==
  /\ MayWrite(FALSE)
  /\ Fault("flush")
  /\ writeErr' = TRUE
  /\ UNCHANGED <<files, isOpen, recorded, acked, killed, torn>>

\* The frame is buffered, the sync that was due fails: Write reports an error
\* for a frame that a later sync may still put on disk.
WriteFailsSyncing(f, rotate) ==
  /\ MayWrite(rotate)
  /\ stuck => ~rotate
  /\ \E kind \in SyncFaults : Fault(kind)
  /\ files' = Written(Target(rotate), f)
  /\ recorded' = Finished(rotate)
  /\ writeErr' = TRUE
  /\ UNCHANGED <<isOpen, acked, killed, torn>>

WriteFails(f) ==
  \/ WriteFailsFinishing
  \/ WriteFailsOpening
  \/ WriteFailsSpilling
  \/ \E rotate \in BOOLEAN : WriteFailsSyncing(f, rotate)

-----------------------------------------------------------------------------
(* Writer.Tick and Writer.Close.                                           *)

\* The flush interval has elapsed and the sync succeeds.
TickSyncs ==
  /\ isOpen /\ ~killed /\ ~stuck
  /\ files' = Synced(files)
  /\ UNCHANGED <<isOpen, stuck, recorded, acked, writeErr, faults, killed, torn>>

\* It fails: the error goes back to a caller that ignores it.
TickFails ==
  /\ isOpen /\ ~killed
  /\ \E kind \in SyncFaults : Fault(kind)
  /\ UNCHANGED <<files, isOpen, recorded, acked, writeErr, killed, torn>>

\* Mutant: Close drops the segment without finishing it.
CloseUnsynced ==
  /\ isOpen /\ ~killed /\ ~stuck
  /\ recorded' = Finished(TRUE)
  /\ isOpen' = FALSE
  /\ UNCHANGED <<files, stuck, acked, writeErr, faults, killed, torn>>

CloseOk ==
  /\ isOpen /\ ~killed /\ ~stuck
  /\ files' = Synced(files)
  /\ recorded' = Finished(TRUE)
  /\ isOpen' = FALSE
  /\ UNCHANGED <<stuck, acked, writeErr, faults, killed, torn>>

CloseFails ==
  /\ isOpen /\ ~killed
  /\ \E kind \in SyncFaults : Fault(kind)
  /\ UNCHANGED <<files, isOpen, recorded, acked, writeErr, killed, torn>>

\* With no open segment Close has nothing to do and reports success.
CloseNil ==
  /\ ~isOpen /\ ~killed
  /\ UNCHANGED journalVars

\* Writer.Segments: finished segments, then the open one.
Segments ==
  IF isOpen THEN Append(recorded, Len(Current.frames)) ELSE recorded

-----------------------------------------------------------------------------
(* An abrupt end.  Everything synced survives, and of the rest any leading *)
(* part that had left the buffers; the first missing block may be torn.    *)

MaxBlocks == MaxSegmentFrames + 1

Kill ==
  /\ ~killed
  /\ killed' = TRUE
  /\ \E cut \in [DOMAIN files -> 0 .. MaxBlocks] :
       /\ \A i \in DOMAIN files : cut[i] \in files[i].synced .. BlockCount(files[i])
       /\ files' = [i \in DOMAIN files |-> [files[i] EXCEPT !.synced = cut[i]]]
       /\ torn' \in SUBSET {i \in DOMAIN files : cut[i] < BlockCount(files[i])}
  /\ UNCHANGED <<isOpen, stuck, recorded, acked, writeErr, faults>>

-----------------------------------------------------------------------------
\* NewWriter opens the first segment.
JournalInit ==
  /\ files = Opened(<<>>)
  /\ isOpen = TRUE
  /\ stuck = FALSE
  /\ recorded = <<>>
  /\ acked = <<>>
  /\ writeErr = FALSE
  /\ faults = 0
  /\ killed = FALSE
  /\ torn = {}

\* Whoever drives the journal calls Write no more once it has failed.
JournalNext ==
  \/ /\ ~writeErr
     /\ \E f \in Frames :
          \/ \E rotate, flush \in BOOLEAN : WriteOk(f, rotate, flush)
          \/ WriteFails(f)
  \/ TickSyncs
  \/ TickFails
  \/ CloseOk
  \/ CloseFails
  \/ Kill

JournalSpec == JournalInit /\ [][JournalNext]_journalVars

-----------------------------------------------------------------------------
(* Properties                                                              *)

File == [frames : Seq(Frames), synced : Nat]

\* The journal's variables have their types: the prover's view.
JournalTypeOK ==
  /\ files \in Seq(File) /\ Len(files) > 0
  /\ \A i \in DOMAIN files : files[i].synced <= BlockCount(files[i])
  /\ isOpen \in BOOLEAN /\ stuck \in BOOLEAN
  /\ recorded \in Seq(Nat)
  /\ acked \in Seq([frame : Frames, seg : Nat \ {0}, index : Nat])
  /\ writeErr \in BOOLEAN /\ faults \in Nat /\ killed \in BOOLEAN
  /\ torn \in SUBSET Nat

\* "A crash during rotation cannot leave the outgoing segment partially on
\* disk" (segment.go, finishSegment): whatever happened, with or without I/O
\* errors and a kill at any point, only the last segment can be incomplete.
OnlyLastTorn ==
  /\ \A i \in DOMAIN files : i < Len(files) => Durable(files[i])
  /\ torn \subseteq {Len(files)}

\* A reference Write returned names the frame it was returned for, for the
\* rest of the session and through every rotation (segment.go, Write).
RefsResolve ==
  \A a \in {acked[i] : i \in DOMAIN acked} :
    /\ a.seg \in DOMAIN files
    /\ a.index + 1 \in DOMAIN files[a.seg].frames
    /\ files[a.seg].frames[a.index + 1] = a.frame

\* No two acknowledged frames share a reference, and references grow in the
\* order of acknowledgement: segment first, then index.
RefsOrdered ==
  \A i, j \in DOMAIN acked :
    i < j => \/ acked[i].seg < acked[j].seg
             \/ acked[i].seg = acked[j].seg /\ acked[i].index < acked[j].index

\* What Segments reports, and session.json copies, has one entry for each
\* file and its exact frame count, after any failed rotation or close too.
SegmentsExact ==
  /\ Len(Segments) = Len(files)
  /\ \A i \in DOMAIN files : Segments[i] = Len(files[i].frames)

\* No frame of a session whose journal closed without a Write error is lost:
\* every acknowledged frame is durable once the last segment is finished.
ClosedIsDurable ==
  ~isOpen /\ ~killed => \A i \in DOMAIN files : Durable(files[i])
=============================================================================
