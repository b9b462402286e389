------------------------------ MODULE JournalLog ------------------------------
(* Journal implements EvidenceLog: read segment by segment, in name order,   *)
(* the files are one log.                                                    *)
EXTENDS Journal, SequencesExt

FramesOnDisk(file) == SubSeq(file.frames, 1, file.synced - 1)

\* What a reader of the bundle finds: until the process dies, its buffers too.
Contents(file) == IF killed THEN FramesOnDisk(file) ELSE file.frames

ReadLog == FlattenSeq([i \in DOMAIN files |-> Contents(files[i])])

StableFrames ==
  Len(FlattenSeq([i \in DOMAIN files |-> FramesOnDisk(files[i])]))

Log == INSTANCE EvidenceLog WITH log <- ReadLog, stable <- StableFrames, down <- killed

\* The journal is an append-only log of which a kill costs only an unstable
\* tail: rotation, failed syncs and failed rotations never drop, reorder or
\* duplicate a frame that Write accepted (segment.go, Write and rotate).
ImplementsLog == Log!LogSpec
=============================================================================
