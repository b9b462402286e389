------------------------------- MODULE Capture -------------------------------
(***************************************************************************)
(* One capture session (cmd/sccap/capture.go, captureSession): a reader    *)
(* goroutine per interface, the writer goroutine that alone owns the       *)
(* journal, the decode goroutine behind a channel that drops when full,    *)
(* and the main goroutine that ticks once a second and shuts it all down.  *)
(*                                                                         *)
(* Every frame yields one index record that cites it; Reassembly is about  *)
(* records of several frames.  Which timers have elapsed at a tick is free *)
(* here; JournalTimed is about the cadence.                                *)
(***************************************************************************)
EXTENDS Journal, SequencesExt, Verify

CONSTANTS
  Ifaces,     \* captured interfaces
  PerIface,   \* bound: frames that arrive on one interface
  FramesCap,  \* capacity of the frames channel
  DecodeCap,  \* capacity of the toDecode channel
  IndexFaults,  \* whether writing index.jsonl may fail
  Kills,        \* whether the process may be killed
  KernelDrops,  \* whether the kernel may drop packets
  None

\* A frame is the n-th that its interface delivered.
ASSUME CaptureAssumption ==
  /\ Frames = Ifaces \X (1 .. PerIface)
  /\ PerIface \in Nat
  /\ FramesCap \in Nat \ {0} /\ DecodeCap \in Nat \ {0}
  /\ IndexFaults \in BOOLEAN /\ Kills \in BOOLEAN /\ KernelDrops \in BOOLEAN
  /\ None \notin Frames

VARIABLES
  reader,    \* per interface: "check", "read", "send" or "done"
  held,      \* per interface: the frame it is sending
  arrived,   \* per interface: frames read so far
  stop,      \* the stop channel is closed
  frames,    \* the frames channel
  framesClosed,
  writer,    \* "take", "forward" or "done"
  toDecode,  \* the decode channel: references of journaled frames
  toDecodeClosed,
  decoder,   \* "run" or "done"
  index,     \* records written to index.jsonl, as the references they cite
  indexSynced,  \* how many of them are durable
  indexErr,  \* the index's buffered writer holds a sticky error
  dropped,   \* references counted by idx.Dropped
  main,      \* where the main goroutine is
  signalled, \* SIGINT or SIGTERM is waiting
  termination, exit,   \* locals of captureSession
  sidecar,   \* session.json on disk: [termination, utcEnd, segments, drops]
  sums       \* SHA256SUMS is on disk

readerVars  == <<reader, held, arrived>>
channelVars == <<stop, frames, framesClosed, toDecode, toDecodeClosed>>
indexVars   == <<index, indexSynced, indexErr>>
decodeVars  == <<decoder, indexVars>>
closeVars   == <<termination, exit, sidecar, sums>>

captureVars ==
  <<journalVars, readerVars, channelVars, writer, decodeVars, dropped, main,
    signalled, closeVars>>

-----------------------------------------------------------------------------
(* Reader goroutines                                                       *)

\* Mutant: the reader does not look at the stop channel.
ReaderIgnoresStop(i) ==
  /\ reader[i] = "check"
  /\ reader' = [reader EXCEPT ![i] = "read"]
  /\ UNCHANGED <<held, arrived>>

ReaderChecks(i) ==
  /\ reader[i] = "check"
  /\ reader' = [reader EXCEPT ![i] = IF stop THEN "done" ELSE "read"]
  /\ UNCHANGED <<held, arrived>>

\* Read returns an error: a poll timeout, or anything else.
ReaderTimesOut(i) ==
  /\ reader[i] = "read"
  /\ reader' = [reader EXCEPT ![i] = "check"]
  /\ UNCHANGED <<held, arrived>>

ReaderReads(i) ==
  /\ reader[i] = "read"
  /\ arrived[i] < PerIface
  /\ arrived' = [arrived EXCEPT ![i] = @ + 1]
  /\ held' = [held EXCEPT ![i] = <<i, arrived[i] + 1>>]
  /\ reader' = [reader EXCEPT ![i] = "send"]

\* Mutant: the reader drops a frame when the channel is full.
ReaderSendsOrDrops(i) ==
  /\ reader[i] = "send"
  /\ frames' = IF Len(frames) < FramesCap THEN Append(frames, held[i]) ELSE frames
  /\ held' = [held EXCEPT ![i] = None]
  /\ reader' = [reader EXCEPT ![i] = "check"]
  /\ UNCHANGED <<arrived, stop, framesClosed, toDecode, toDecodeClosed>>

\* select: send on frames, or stop.  With both ready either may be chosen.
ReaderSends(i) ==
  /\ reader[i] = "send"
  /\ Len(frames) < FramesCap
  /\ frames' = Append(frames, held[i])
  /\ held' = [held EXCEPT ![i] = None]
  /\ reader' = [reader EXCEPT ![i] = "check"]
  /\ UNCHANGED <<arrived, stop, framesClosed, toDecode, toDecodeClosed>>

ReaderGivesUp(i) ==
  /\ reader[i] = "send"
  /\ stop
  /\ held' = [held EXCEPT ![i] = None]
  /\ reader' = [reader EXCEPT ![i] = "done"]
  /\ UNCHANGED arrived

ReaderStep(i) ==
  /\ ~killed
  /\ \/ (ReaderChecks(i) \/ ReaderTimesOut(i) \/ ReaderReads(i) \/ ReaderGivesUp(i))
        /\ UNCHANGED channelVars
     \/ ReaderSends(i)
  /\ UNCHANGED <<journalVars, writer, decodeVars, dropped, main, signalled, closeVars>>

-----------------------------------------------------------------------------
(* Writer goroutine.  That Write finds an open segment, and never follows  *)
(* one that failed, is up to the session: see WriteFindsSegment.           *)

WriterTakes ==
  /\ writer = "take" /\ frames # <<>>
  /\ frames' = Tail(frames)
  /\ \/ /\ \E rotate, flush \in BOOLEAN : WriteOk(Head(frames), rotate, flush)
        /\ writer' = "forward"
     \/ /\ WriteFails(Head(frames))
        /\ writer' = "done"
  /\ UNCHANGED <<stop, framesClosed, toDecode, toDecodeClosed, dropped>>

\* Mutant: a drop is not counted.
WriterForwardsSilently ==
  /\ writer = "forward"
  /\ writer' = "take"
  /\ toDecode' = IF Len(toDecode) < DecodeCap THEN Append(toDecode, acked[Len(acked)])
                 ELSE toDecode
  /\ UNCHANGED <<journalVars, stop, frames, framesClosed, toDecodeClosed, dropped>>

\* select with default: never blocks, drops and counts when the channel is full.
WriterForwards ==
  /\ writer = "forward"
  /\ writer' = "take"
  /\ LET ref == acked[Len(acked)]
     IN  IF Len(toDecode) < DecodeCap
         THEN toDecode' = Append(toDecode, ref) /\ UNCHANGED dropped
         ELSE dropped' = Append(dropped, ref) /\ UNCHANGED toDecode
  /\ UNCHANGED <<journalVars, stop, frames, framesClosed, toDecodeClosed>>

WriterEnds ==
  /\ writer = "take" /\ frames = <<>> /\ framesClosed
  /\ writer' = "done"
  /\ UNCHANGED <<journalVars, channelVars, dropped>>

WriterStep ==
  /\ ~killed
  /\ WriterTakes \/ WriterForwards \/ WriterEnds
  /\ UNCHANGED <<readerVars, decodeVars, main, signalled, closeVars>>

-----------------------------------------------------------------------------
(* Decode goroutine: pipeline.Feed and, from inside it, idx.Write, which   *)
(* syncs the index when its own interval has elapsed.                      *)

\* index.Writer.syncLocked: not due or fsync failed, synced, or flush failed.
IndexSync ==
  \/ UNCHANGED <<indexSynced, indexErr>>
  \/ ~indexErr /\ indexSynced' = Len(index') /\ UNCHANGED indexErr
  \/ IndexFaults /\ indexErr' = TRUE /\ UNCHANGED indexSynced

\* A record that the broken buffer refuses is lost; idx.Write's error only
\* keeps it out of the status line's counter.
Decodes ==
  /\ decoder = "run" /\ toDecode # <<>>
  /\ toDecode' = Tail(toDecode)
  /\ index' = IF indexErr THEN index ELSE Append(index, Head(toDecode))
  /\ IndexSync
  /\ UNCHANGED <<decoder, stop, frames, framesClosed, toDecodeClosed>>

DecoderEnds ==
  /\ decoder = "run" /\ toDecode = <<>> /\ toDecodeClosed
  /\ decoder' = "done"
  /\ UNCHANGED <<indexVars, channelVars>>

DecoderStep ==
  /\ ~killed
  /\ Decodes \/ DecoderEnds
  /\ UNCHANGED <<journalVars, readerVars, writer, dropped, main, signalled, closeVars>>

-----------------------------------------------------------------------------
(* Main goroutine: the select loop                                         *)

\* break loop, and close(stop).
Break ==
  /\ stop' = TRUE
  /\ main' = "await readers"
  /\ UNCHANGED <<frames, framesClosed, toDecode, toDecodeClosed>>

TakeSignal ==
  /\ main = "loop" /\ signalled
  /\ signalled' = FALSE
  /\ Break
  /\ UNCHANGED <<journalVars, decodeVars, closeVars>>

\* The ticker fires.  writeErr is read without synchronisation; a build reads
\* the variable itself, so it sees what the writer has stored.
TickSeesError ==
  /\ main = "loop" /\ writeErr
  /\ termination' = "error" /\ exit' = "usage"
  /\ Break
  /\ UNCHANGED <<journalVars, decodeVars, signalled, sidecar, sums>>

\* Mutant: the tick goes on whether or not the writer has failed.
TickStartsAnyway ==
  /\ main = "loop"
  /\ main' = "tick journal"
  /\ UNCHANGED <<journalVars, channelVars, decodeVars, signalled, closeVars>>

TickStarts ==
  /\ main = "loop" /\ ~writeErr
  /\ main' = "tick journal"
  /\ UNCHANGED <<journalVars, channelVars, decodeVars, signalled, closeVars>>

\* jw.Tick: its error is discarded.
TickJournal ==
  /\ main = "tick journal"
  /\ main' = "tick index"
  /\ TickSyncs \/ TickFails \/ UNCHANGED journalVars
  /\ UNCHANGED <<channelVars, decodeVars, signalled, closeVars>>

\* idx.Tick: not due, failed, or synced.
TickIndex ==
  /\ main = "tick index"
  /\ main' = "tick meta"
  /\ UNCHANGED index
  /\ IndexSync
  /\ UNCHANGED <<journalVars, channelVars, decoder, signalled, closeVars>>

\* disk.Check finds the floor.
TickHitsFloor ==
  /\ main = "tick meta"
  /\ termination' = "disk_floor" /\ exit' = "disk floor"
  /\ Break
  /\ UNCHANGED <<journalVars, decodeVars, signalled, sidecar, sums>>

\* What meta.Write puts in session.json.  Whether the kernel has dropped packets
\* by then, as the readers' counters tell, is free: Sidecar is about the counters.
Meta(how, ended, drops) ==
  [termination |-> how, utcEnd |-> ended, segments |-> Segments, drops |-> drops]

\* The periodic sidecar refresh: not due or failed, or written.
TickMeta ==
  /\ main = "tick meta"
  /\ main' = "loop"
  /\ \/ UNCHANGED sidecar
     \/ \E drops \in {FALSE, KernelDrops} : sidecar' = Meta("interrupted", FALSE, drops)
  /\ UNCHANGED <<journalVars, channelVars, decodeVars, signalled, termination, exit, sums>>

-----------------------------------------------------------------------------
(* Main goroutine: shutdown                                                *)

AwaitReaders ==
  /\ main = "await readers"
  /\ \A i \in Ifaces : reader[i] = "done"
  /\ framesClosed' = TRUE
  /\ main' = "await writer"
  /\ UNCHANGED <<journalVars, stop, frames, toDecode, toDecodeClosed, decodeVars,
                 signalled, closeVars>>

\* Mutant: writerDone is not waited for.
AwaitNoWriter ==
  /\ main = "await writer"
  /\ toDecodeClosed' = TRUE
  /\ main' = "await decoder"
  /\ UNCHANGED <<journalVars, stop, frames, framesClosed, toDecode, decodeVars,
                 signalled, closeVars>>

AwaitWriter ==
  /\ main = "await writer"
  /\ writer = "done"
  /\ toDecodeClosed' = TRUE
  /\ main' = "await decoder"
  /\ UNCHANGED <<journalVars, stop, frames, framesClosed, toDecode, decodeVars,
                 signalled, closeVars>>

\* Mutant: decodeDone is not waited for.
AwaitNoDecoder ==
  /\ main = "await decoder"
  /\ main' = "close index"
  /\ UNCHANGED <<journalVars, channelVars, decodeVars, signalled, closeVars>>

AwaitDecoder ==
  /\ main = "await decoder"
  /\ decoder = "done"
  /\ main' = "close index"
  /\ UNCHANGED <<journalVars, channelVars, decodeVars, signalled, closeVars>>

\* idx.Close: an error is printed and nothing else.  Of what a broken buffer
\* still holds, some leading part had been written.
CloseIndex ==
  /\ main = "close index"
  /\ main' = "close journal"
  /\ IF indexErr
     THEN /\ \E n \in indexSynced .. Len(index) : index' = SubSeq(index, 1, n)
          /\ UNCHANGED <<indexSynced, indexErr>>
     ELSE UNCHANGED index /\ IndexSync
  /\ UNCHANGED <<journalVars, channelVars, decoder, signalled, closeVars>>

\* Mutant: an error of jw.Close is discarded, like that of jw.Tick.
CloseJournalSilently ==
  /\ main = "close journal"
  /\ main' = "write meta"
  /\ CloseOk \/ CloseNil \/ CloseFails
  /\ UNCHANGED <<channelVars, decodeVars, signalled, termination, exit, sidecar, sums>>

CloseJournal ==
  /\ main = "close journal"
  /\ main' = "write meta"
  /\ \/ /\ CloseOk \/ CloseNil
        /\ UNCHANGED <<termination, exit>>
     \/ /\ CloseFails
        /\ termination' = "error" /\ exit' = "usage"
  /\ UNCHANGED <<channelVars, decodeVars, signalled, sidecar, sums>>

\* Mutant: an error of the last meta.Write is discarded, like that of a tick's.
WriteMetaSilently ==
  /\ main = "write meta"
  /\ main' = "write sums"
  /\ \/ \E drops \in {FALSE, KernelDrops} : sidecar' = Meta(termination, TRUE, drops)
     \/ UNCHANGED sidecar
  /\ UNCHANGED <<journalVars, channelVars, decodeVars, signalled, termination, exit, sums>>

WriteMeta ==
  /\ main = "write meta"
  /\ main' = "write sums"
  /\ \/ /\ \E drops \in {FALSE, KernelDrops} : sidecar' = Meta(termination, TRUE, drops)
        /\ UNCHANGED exit
     \/ exit' = "usage" /\ UNCHANGED sidecar
  /\ UNCHANGED <<journalVars, channelVars, decodeVars, signalled, termination, sums>>

\* Mutant: the sums are written before the last meta.Write.
WriteSumsEarly ==
  /\ \/ /\ main = "write meta" /\ ~sums
        /\ sums' = TRUE
        /\ UNCHANGED main
     \/ /\ main = "write sums" /\ sums
        /\ main' = "exited"
        /\ UNCHANGED sums
  /\ UNCHANGED <<journalVars, channelVars, decodeVars, signalled, termination, exit, sidecar>>

WriteSums ==
  /\ main = "write sums"
  /\ main' = "exited"
  /\ \/ sums' = TRUE /\ UNCHANGED exit
     \/ exit' = "usage" /\ UNCHANGED sums
  /\ UNCHANGED <<journalVars, channelVars, decodeVars, signalled, termination, sidecar>>

MainStep ==
  /\ ~killed
  /\ \/ TakeSignal \/ TickSeesError \/ TickStarts
     \/ TickJournal \/ TickIndex \/ TickHitsFloor \/ TickMeta
     \/ AwaitReaders \/ AwaitWriter \/ AwaitDecoder
     \/ CloseIndex \/ CloseJournal \/ WriteMeta \/ WriteSums
  /\ UNCHANGED <<readerVars, writer, dropped>>

-----------------------------------------------------------------------------
(* The environment                                                         *)

Signal ==
  /\ ~killed /\ main # "exited" /\ ~signalled
  /\ signalled' = TRUE
  /\ UNCHANGED <<journalVars, readerVars, channelVars, writer, decodeVars, dropped,
                 main, closeVars>>

\* SIGKILL or power loss, before the process has exited.
Crash ==
  /\ Kills /\ main # "exited"
  /\ Kill
  /\ \E n \in indexSynced .. Len(index) :
       index' = SubSeq(index, 1, n) /\ indexSynced' = n
  /\ UNCHANGED <<readerVars, channelVars, writer, decoder, indexErr, dropped, main,
                 signalled, closeVars>>

Over == killed \/ main = "exited"

Stopped == Over /\ UNCHANGED captureVars

CaptureInit ==
  /\ JournalInit
  /\ reader = [i \in Ifaces |-> "check"]
  /\ held = [i \in Ifaces |-> None]
  /\ arrived = [i \in Ifaces |-> 0]
  /\ stop = FALSE
  /\ frames = <<>> /\ framesClosed = FALSE
  /\ writer = "take"
  /\ toDecode = <<>> /\ toDecodeClosed = FALSE
  /\ decoder = "run"
  /\ index = <<>> /\ indexSynced = 0 /\ indexErr = FALSE
  /\ dropped = <<>>
  /\ main = "loop"
  /\ signalled = FALSE
  /\ termination = "clean" /\ exit = "ok"
  /\ sidecar = [termination |-> "interrupted", utcEnd |-> FALSE, segments |-> <<>>,
                drops |-> FALSE]
  /\ sums = FALSE

CaptureNext ==
  \/ \E i \in Ifaces : ReaderStep(i)
  \/ WriterStep
  \/ DecoderStep
  \/ MainStep
  \/ Signal
  \/ Crash
  \/ Stopped

CaptureSpec == CaptureInit /\ [][CaptureNext]_captureVars

\* Goroutines that can run do run.  A waiting signal is chosen eventually: the
\* loop returns to its select for ever, and select is fair among ready cases.
CaptureFairness ==
  /\ \A i \in Ifaces : WF_captureVars(ReaderStep(i))
  /\ WF_captureVars(WriterStep)
  /\ WF_captureVars(DecoderStep)
  /\ WF_captureVars(MainStep)
  /\ SF_captureVars(MainStep /\ TakeSignal)

FairCaptureSpec == CaptureSpec /\ CaptureFairness
-----------------------------------------------------------------------------
(* What is on disk, as sccap verify would find it.  What else the sidecar  *)
(* says, the directory and the clock are in order.                         *)

\* A segment whose buffer broke ends wherever its last spill did.
CutShort(i) ==
  \/ i \in torn
  \/ stuck /\ ~killed /\ i = Len(files) /\ ~Durable(files[i])

OnDisk ==
  [meta |-> "ok", idMatches |-> TRUE, drops |-> sidecar.drops, sensitive |-> TRUE,
   anchorsOk |-> TRUE, termination |-> sidecar.termination, utcEnd |-> sidecar.utcEnd,
   listed |-> Len(sidecar.segments),
   sums |-> IF sums THEN "match" ELSE "absent",
   segments |-> [i \in DOMAIN files |->
                  [readable |-> files[i].synced > 0, truncated |-> CutShort(i)]],
   index |-> "ok"]

\* The same bundle, had the kernel dropped nothing.
DropsAside == [OnDisk EXCEPT !.drops = FALSE]

-----------------------------------------------------------------------------
(* Properties                                                              *)

\* What is in the journal, in its order.
Journaled == [k \in DOMAIN acked |-> acked[k].frame]

\* The places of i's frames in a row of frames.
Places(i, row) == {k \in DOMAIN row : row[k][1] = i}

\* The n-th frame of an interface in the row is the n-th that it delivered.
Ordered(row) ==
  \A k \in DOMAIN row : row[k][2] = Cardinality({j \in Places(row[k][1], row) : j <= k})

\* "The single writer is the one place ordering matters" (captureSession,
\* writer goroutine): however the readers interleave, each interface's frames
\* are journaled in arrival order, with no gap and no repetition.
FramesInOrder == Ordered(Journaled)

\* From the socket to the journal: how many frames of i have arrived and are in
\* none of the journal, the channel and the reader's hand.  A reader that is
\* told to stop gives up the one it holds.
Missing(i) ==
  arrived[i] - (Cardinality(Places(i, Journaled \o frames)) + IF held[i] # None THEN 1 ELSE 0)

\* From the journal to the index: written, queued, or in the writer's hand.
Decoded == index \o toDecode
InHand == IF writer = "forward" THEN <<acked[Len(acked)]>> ELSE <<>>

\* No frame disappears.  Unless Write failed, one that was read reaches the
\* journal, except for one in each reader's hand at shutdown; and one that was
\* journaled is indexed once, on its way, or counted as dropped, while the
\* index can be written: "a silently short index would read as 'nothing else
\* happened'" (index.Writer.Dropped).
EveryFrameAccounted ==
  /\ ~writeErr =>
       \A i \in Ifaces : Missing(i) \in IF reader[i] = "done" THEN {0, 1} ELSE {0}
  /\ ~indexErr /\ ~killed =>
       /\ ToSet(Decoded) \cup ToSet(dropped) \cup ToSet(InHand) = ToSet(acked)
       /\ Len(Decoded) + Len(dropped) + Len(InHand) = Len(acked)

\* When the process exits nothing it acknowledged is still queued: the
\* shutdown order drains the journal first and then the decoder.
DrainedAtExit ==
  main = "exited" => toDecode = <<>> /\ (frames = <<>> \/ writeErr)

\* A session that exits 0 leaves a bundle that verify calls clean, whatever
\* failed or was interrupted on the way, with one exception: the exit code says
\* nothing of packets that the kernel dropped, and verify fails a bundle whose
\* session.json counts some (verify.go, "drops"), for those and nothing else.
CleanVerifies ==
  main = "exited" /\ exit = "ok" =>
    /\ Status(DropsAside) = "clean"
    /\ Status(OnDisk) = IF sidecar.drops THEN "failed" ELSE "clean"

\* The sidecar of a finished session describes the journal exactly: one entry
\* for each segment, with the frames that are durable in it.
SidecarMatchesDisk ==
  sidecar.utcEnd /\ sidecar.termination # "error" =>
    sidecar.segments = [i \in DOMAIN files |-> files[i].synced - 1]

\* A kill at any moment leaves a bundle that does not fail verification, once
\* the header of the newest segment has reached the disk, unless it is for
\* packets that session.json already counts as dropped.
KilledVerifies ==
  killed /\ Current.synced > 0 => Status(DropsAside) # "failed"

\* Once SHA256SUMS is written nothing it covers changes any more.
HashedIsFinal ==
  [][sums => UNCHANGED <<files, index, sidecar>>]_captureVars

\* Write has no guard of its own: with no open segment, after a rotation that
\* failed or a Close, it would dereference nil (segment.go, Write), and after
\* another failure go on behind a frame that is missing.  The writer goroutine,
\* which alone calls it, has ended by then: on its own error, or because main
\* waits for it before it closes the journal, whatever interface, channel or
\* signal was late.
WriteFindsSegment == writer # "done" => isOpen /\ ~writeErr

\* So the session is one of the journal's behaviours.
ImplementsJournal == JournalSpec

\* A signal ends the process, also when the writer has died and left readers
\* blocked on a full channel.
SignalStops == signalled ~> Over

\* A failed Write is noticed by the ticker and ends the process too.
ErrorStops == writeErr ~> Over

-----------------------------------------------------------------------------
\* journal.WriteSums and captureSession: the sums are "the evidence that this
\* session closed cleanly", so no journal write failed.
CleanMeansComplete ==
  main = "exited" /\ exit = "ok" => ~writeErr
=============================================================================
