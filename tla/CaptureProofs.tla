---------------------------- MODULE CaptureProofs ----------------------------
(***************************************************************************)
(* A session uses its journal as the journal's specification allows, so    *)
(* what JournalProofs shows of the journal holds of the session; the       *)
(* shutdown order drains what it closes; frames keep their order and are   *)
(* accounted for; and the bundle is worth to Verify what it should be.     *)
(* For every number of interfaces, frames, channel capacities and errors.  *)
(***************************************************************************)
EXTENDS Capture, JournalProofs, FiniteSetTheorems

\* What a reader holds when it sends, and what the channel carries, is a frame.
FramesFlow ==
  /\ reader \in [Ifaces -> {"check", "read", "send", "done"}]
  /\ held \in [Ifaces -> Frames \cup {None}]
  /\ arrived \in [Ifaces -> 0 .. PerIface]
  /\ \A i \in Ifaces : reader[i] = "send" => held[i] \in Frames
  /\ frames \in Seq(Frames)

\* Any session starts with no frame in flight.
LEMMA InitFlow == CaptureInit => FramesFlow
<1> SUFFICES ASSUME CaptureInit PROVE FramesFlow
  OBVIOUS
<1> QED
  <2>1. reader \in [Ifaces -> {"check", "read", "send", "done"}]
    BY DEF CaptureInit
  <2>2. held \in [Ifaces -> Frames \cup {None}]
    BY DEF CaptureInit
  <2>3. arrived \in [Ifaces -> 0 .. PerIface]
    BY CaptureAssumption DEF CaptureInit
  <2>4. frames \in Seq(Frames)
    BY DEF CaptureInit
  <2>5. \A i \in Ifaces : reader[i] # "send"
    BY DEF CaptureInit
  <2> QED
    BY <2>1, <2>2, <2>3, <2>4, <2>5 DEF FramesFlow

\* A reader sends only what it has read, and the writer only takes from the
\* head of the channel.
LEMMA StepFlow == FramesFlow /\ [CaptureNext]_captureVars => FramesFlow'
<1> SUFFICES ASSUME FramesFlow, [CaptureNext]_captureVars PROVE FramesFlow'
  OBVIOUS
<1> USE DEF FramesFlow
<1>1. ASSUME NEW i \in Ifaces, ReaderStep(i) PROVE FramesFlow'
  <2>1. CASE ReaderChecks(i) /\ UNCHANGED channelVars
    BY <2>1 DEF ReaderChecks, channelVars
  <2>2. CASE ReaderTimesOut(i) /\ UNCHANGED channelVars
    BY <2>2 DEF ReaderTimesOut, channelVars
  <2>3. CASE ReaderReads(i) /\ UNCHANGED channelVars
    <3>1. arrived[i] + 1 \in 1 .. PerIface
      BY <2>3, CaptureAssumption DEF ReaderReads
    <3>2. <<i, arrived[i] + 1>> \in Frames
      BY <3>1, CaptureAssumption
    <3> QED
      BY <2>3, <3>1, <3>2, CaptureAssumption DEF ReaderReads, channelVars
  <2>4. CASE ReaderGivesUp(i) /\ UNCHANGED channelVars
    BY <2>4 DEF ReaderGivesUp, channelVars
  <2>5. CASE ReaderSends(i)
    <3>1. frames' \in Seq(Frames)
      BY <2>5 DEF ReaderSends
    <3> QED
      BY <2>5, <3>1 DEF ReaderSends
  <2> QED
    BY <1>1, <2>1, <2>2, <2>3, <2>4, <2>5 DEF ReaderStep
<1>2. CASE WriterStep
  <2>1. frames' = frames \/ (frames # <<>> /\ frames' = Tail(frames))
    BY <1>2 DEF WriterStep, WriterTakes, WriterForwards, WriterEnds, channelVars
  <2>2. frames' \in Seq(Frames)
    BY <2>1, HeadTailProperties
  <2> QED
    BY <1>2, <2>2 DEF WriterStep, readerVars
<1>3. CASE DecoderStep
  BY <1>3 DEF DecoderStep, Decodes, DecoderEnds, readerVars, channelVars
<1>4. CASE MainStep
  BY <1>4 DEF MainStep, TakeSignal, TickSeesError, TickStarts, TickJournal, TickIndex,
    TickHitsFloor, TickMeta, AwaitReaders, AwaitWriter, AwaitDecoder, CloseIndex,
    CloseJournal, WriteMeta, WriteSums, Break, readerVars, channelVars
<1>5. CASE Signal
  BY <1>5 DEF Signal, readerVars, channelVars
<1>6. CASE Crash
  BY <1>6 DEF Crash, readerVars, channelVars
<1>7. CASE UNCHANGED captureVars
  BY <1>7 DEF captureVars, readerVars, channelVars
<1> QED
  BY <1>1, <1>2, <1>3, <1>4, <1>5, <1>6, <1>7 DEF CaptureNext, Stopped

\* What readers hold and send stays a frame for the whole session.
THEOREM CaptureFlow == CaptureSpec => []FramesFlow
<1> QED
  BY InitFlow, StepFlow, PTL DEF CaptureSpec

-----------------------------------------------------------------------------
(* Shutdown                                                                *)

Closing == {"close index", "close journal", "write meta", "write sums", "exited"}

\* Each stage of the shutdown has waited for the goroutine that feeds the next.
ShutdownInv ==
  /\ framesClosed => \A i \in Ifaces : reader[i] = "done"
  /\ writer = "done" => writeErr \/ (framesClosed /\ frames = <<>>)
  /\ toDecodeClosed => writer = "done"
  /\ decoder = "done" => toDecodeClosed /\ toDecode = <<>>
  /\ main \in Closing => decoder = "done"
  /\ sums => main = "exited"

\* The loop runs, both goroutines run, and nothing is closed yet.
LEMMA InitShutdown == CaptureInit => ShutdownInv
BY DEF CaptureInit, ShutdownInv, Closing

\* No goroutine that has been waited for runs again.
LEMMA StepShutdown == ShutdownInv /\ [CaptureNext]_captureVars => ShutdownInv'
<1> SUFFICES ASSUME ShutdownInv, [CaptureNext]_captureVars PROVE ShutdownInv'
  OBVIOUS
<1> USE DEF ShutdownInv, Closing
<1>1. ASSUME NEW i \in Ifaces, ReaderStep(i) PROVE ShutdownInv'
  <2>1. ~framesClosed
    BY <1>1 DEF ReaderStep, ReaderChecks, ReaderTimesOut, ReaderReads, ReaderSends,
      ReaderGivesUp
  <2>2. ~framesClosed'
    BY <1>1, <2>1 DEF ReaderStep, ReaderSends, channelVars
  <2>3. UNCHANGED <<writer, writeErr, toDecode, toDecodeClosed, decoder, main, sums>>
    BY <1>1 DEF ReaderStep, ReaderSends, channelVars, journalVars, decodeVars, closeVars
  <2> QED
    BY <2>1, <2>2, <2>3
<1>2. CASE WriterStep
  <2>1. writer # "done"
    BY <1>2 DEF WriterStep, WriterTakes, WriterForwards, WriterEnds
  <2>2. UNCHANGED <<reader, framesClosed, toDecodeClosed, decoder, main, sums>>
    BY <1>2 DEF WriterStep, WriterTakes, WriterForwards, WriterEnds, readerVars,
      channelVars, decodeVars, closeVars
  <2>3. writer' = "done" => writeErr' \/ (framesClosed' /\ frames' = <<>>)
    <3>1. CASE WriterTakes
      BY <3>1 DEF WriterTakes, WriteFails, WriteFailsFinishing, WriteFailsOpening,
        WriteFailsSpilling, WriteFailsSyncing
    <3>2. CASE WriterForwards
      BY <3>2 DEF WriterForwards
    <3>3. CASE WriterEnds
      BY <3>3 DEF WriterEnds, channelVars
    <3> QED
      BY <1>2, <3>1, <3>2, <3>3 DEF WriterStep
  <2> QED
    BY <2>1, <2>2, <2>3
<1>3. CASE DecoderStep
  <2>1. decoder # "done"
    BY <1>3 DEF DecoderStep, Decodes, DecoderEnds
  <2>2. UNCHANGED <<reader, framesClosed, frames, writer, writeErr, toDecodeClosed, main, sums>>
    BY <1>3 DEF DecoderStep, Decodes, DecoderEnds, readerVars, channelVars, closeVars,
      journalVars
  <2>3. decoder' = "done" => toDecodeClosed' /\ toDecode' = <<>>
    <3>1. CASE Decodes
      BY <2>1, <3>1 DEF Decodes
    <3>2. CASE DecoderEnds
      BY <3>2 DEF DecoderEnds, channelVars
    <3> QED
      BY <1>3, <3>1, <3>2 DEF DecoderStep
  <2> QED
    BY <2>1, <2>2, <2>3
<1>4. CASE MainStep
  <2>1. UNCHANGED <<reader, writer, frames, toDecode, decoder>>
    <3>1. UNCHANGED <<reader, writer>>
      BY <1>4 DEF MainStep, readerVars
    <3>2. UNCHANGED decoder
      <4>1. CASE TickIndex \/ CloseIndex
        BY <4>1 DEF TickIndex, CloseIndex
      <4>2. CASE UNCHANGED decodeVars
        BY <4>2 DEF decodeVars
      <4> QED
        BY <1>4, <4>1, <4>2 DEF MainStep, TakeSignal, TickSeesError, TickStarts,
          TickJournal, TickHitsFloor, TickMeta, AwaitReaders, AwaitWriter, AwaitDecoder,
          CloseJournal, WriteMeta, WriteSums
    <3>3. CASE AwaitReaders \/ AwaitWriter
      BY <3>1, <3>2, <3>3 DEF AwaitReaders, AwaitWriter
    <3>4. CASE Break
      BY <3>1, <3>2, <3>4 DEF Break
    <3>5. CASE UNCHANGED channelVars
      BY <3>1, <3>2, <3>5 DEF channelVars
    <3> QED
      BY <1>4, <3>3, <3>4, <3>5 DEF MainStep, TakeSignal, TickSeesError, TickStarts,
        TickJournal, TickIndex, TickHitsFloor, TickMeta, AwaitDecoder, CloseIndex,
        CloseJournal, WriteMeta, WriteSums
  <2>2. writeErr' = writeErr
    BY <1>4 DEF MainStep, TakeSignal, TickSeesError, TickStarts, TickJournal, TickIndex,
      TickHitsFloor, TickMeta, AwaitReaders, AwaitWriter, AwaitDecoder, CloseIndex,
      CloseJournal, WriteMeta, WriteSums, TickSyncs, TickFails, CloseOk, CloseNil,
      CloseFails, journalVars
  <2>3. CASE AwaitReaders
    BY <2>1, <2>2, <2>3 DEF AwaitReaders, closeVars
  <2>4. CASE AwaitWriter
    BY <2>1, <2>2, <2>4 DEF AwaitWriter, closeVars
  <2>5. CASE ~AwaitReaders /\ ~AwaitWriter
    <3>1. UNCHANGED <<framesClosed, toDecodeClosed>>
      <4>1. CASE Break
        BY <4>1 DEF Break
      <4>2. CASE UNCHANGED channelVars
        BY <4>2 DEF channelVars
      <4> QED
        BY <1>4, <2>5, <4>1, <4>2 DEF MainStep, TakeSignal, TickSeesError, TickStarts,
          TickJournal, TickIndex, TickHitsFloor, TickMeta, AwaitDecoder, CloseIndex,
          CloseJournal, WriteMeta, WriteSums
    <3>2. /\ main' \in Closing => decoder = "done"
          /\ sums' => main' = "exited"
      <4>1. CASE WriteSums
        BY <4>1 DEF WriteSums
      <4>2. CASE ~WriteSums
        <5>1. ~sums
          BY <1>4, <4>2 DEF MainStep, TakeSignal, TickSeesError, TickStarts, TickJournal,
            TickIndex, TickHitsFloor, TickMeta, AwaitReaders, AwaitWriter, AwaitDecoder,
            CloseIndex, CloseJournal, WriteMeta
        <5>2. UNCHANGED sums
          <6>1. CASE UNCHANGED closeVars
            BY <6>1 DEF closeVars
          <6> QED
            BY <1>4, <4>2, <6>1 DEF MainStep, TakeSignal, TickSeesError, TickStarts,
              TickJournal, TickIndex, TickHitsFloor, TickMeta, AwaitReaders, AwaitWriter,
              AwaitDecoder, CloseIndex, CloseJournal, WriteMeta
        <5>3. main' \in Closing => main \in Closing \/ AwaitDecoder
          BY <1>4, <2>5, <4>2 DEF MainStep, TakeSignal, TickSeesError, TickStarts,
            TickJournal, TickIndex, TickHitsFloor, TickMeta, CloseIndex, CloseJournal,
            WriteMeta, Break
        <5> QED
          BY <5>1, <5>2, <5>3 DEF AwaitDecoder
      <4> QED
        BY <4>1, <4>2
    <3> QED
      BY <2>1, <2>2, <3>1, <3>2
  <2> QED
    BY <2>3, <2>4, <2>5
<1>5. CASE Signal
  BY <1>5 DEF Signal, journalVars, readerVars, channelVars, decodeVars, closeVars
<1>6. CASE Crash
  BY <1>6 DEF Crash, Kill, readerVars, channelVars, closeVars
<1>7. CASE UNCHANGED captureVars
  BY <1>7 DEF captureVars, journalVars, readerVars, channelVars, decodeVars, closeVars
<1> QED
  BY <1>1, <1>2, <1>3, <1>4, <1>5, <1>6, <1>7 DEF CaptureNext, Stopped

\* The stages of the shutdown are an invariant of every session.
THEOREM CaptureShutdown == CaptureSpec => []ShutdownInv
<1>1. CaptureInit => ShutdownInv
  BY InitShutdown
<1>2. ShutdownInv /\ [CaptureNext]_captureVars => ShutdownInv'
  BY StepShutdown
<1> QED
  BY <1>1, <1>2, PTL DEF CaptureSpec

\* "Stop reading, drain the journal, then let decode finish what it already
\* holds" (captureSession, shutdown): at exit both channels are empty, unless
\* the writer died of an error.
THEOREM CaptureDrains == CaptureSpec => []DrainedAtExit
<1>1. ShutdownInv => DrainedAtExit
  BY DEF ShutdownInv, Closing, DrainedAtExit
<1> QED
  BY <1>1, CaptureShutdown, PTL

\* SHA256SUMS is written "after everything else is on disk": no goroutine can
\* touch the journal, the index or the sidecar once it exists.
THEOREM CaptureHashedIsFinal == CaptureSpec => HashedIsFinal
<1>1. ShutdownInv /\ [CaptureNext]_captureVars
        => [sums => UNCHANGED <<files, index, sidecar>>]_captureVars
  <2> SUFFICES ASSUME ShutdownInv, CaptureNext, sums
               PROVE  UNCHANGED <<files, index, sidecar>>
    OBVIOUS
  <2>1. main = "exited" /\ decoder = "done"
    BY DEF ShutdownInv, Closing
  <2>2. writer = "done"
    BY <2>1 DEF ShutdownInv
  <2>3. CASE \E i \in Ifaces : ReaderStep(i)
    BY <2>3 DEF ReaderStep, journalVars, decodeVars, indexVars, closeVars
  <2>4. CASE Signal
    BY <2>1, <2>4 DEF Signal
  <2>5. CASE Stopped
    BY <2>5 DEF Stopped, captureVars, journalVars, decodeVars, indexVars, closeVars
  <2>6. ~WriterStep
    BY <2>2 DEF WriterStep, WriterTakes, WriterForwards, WriterEnds
  <2>7. ~DecoderStep
    BY <2>1 DEF DecoderStep, Decodes, DecoderEnds
  <2>8. ~MainStep
    BY <2>1 DEF MainStep, TakeSignal, TickSeesError, TickStarts, TickJournal, TickIndex,
      TickHitsFloor, TickMeta, AwaitReaders, AwaitWriter, AwaitDecoder, CloseIndex,
      CloseJournal, WriteMeta, WriteSums
  <2>9. ~Crash
    BY <2>1 DEF Crash
  <2> QED
    BY <2>3, <2>4, <2>5, <2>6, <2>7, <2>8, <2>9 DEF CaptureNext
<1> QED
  BY <1>1, CaptureShutdown, PTL DEF CaptureSpec, HashedIsFinal

-----------------------------------------------------------------------------
(* The journal in the session                                              *)

\* A journal opens with its first segment.
LEMMA InitWriteFinds == CaptureInit => WriteFindsSegment
BY DEF CaptureInit, JournalInit, WriteFindsSegment

\* Only the writer sets writeErr, and ends then; only the writer and the close
\* of the journal drop its segment, and the writer has ended before the close.
LEMMA StepWriteFinds ==
  ShutdownInv /\ WriteFindsSegment /\ [CaptureNext]_captureVars => WriteFindsSegment'
<1> SUFFICES ASSUME ShutdownInv, WriteFindsSegment, [CaptureNext]_captureVars,
                    writer' # "done"
             PROVE  isOpen' /\ ~writeErr'
  BY DEF WriteFindsSegment
<1>1. ASSUME UNCHANGED <<writer, isOpen, writeErr>> PROVE isOpen' /\ ~writeErr'
  BY <1>1 DEF WriteFindsSegment
<1>2. CASE \E i \in Ifaces : ReaderStep(i)
  BY <1>1, <1>2 DEF ReaderStep, journalVars
<1>3. CASE WriterStep
  <2>1. CASE WriterTakes
    <3>1. PICK rotate \in BOOLEAN, flush \in BOOLEAN : WriteOk(Head(frames), rotate, flush)
      BY <2>1 DEF WriterTakes
    <3>2. writer # "done"
      BY <2>1 DEF WriterTakes
    <3> QED
      BY <3>1, <3>2 DEF WriteOk, WriteFindsSegment
  <2>2. CASE WriterForwards
    BY <2>2 DEF WriterForwards, journalVars, WriteFindsSegment
  <2>3. CASE WriterEnds
    BY <2>3 DEF WriterEnds
  <2> QED
    BY <1>3, <2>1, <2>2, <2>3 DEF WriterStep
<1>4. CASE DecoderStep
  BY <1>1, <1>4 DEF DecoderStep, journalVars
<1>5. CASE MainStep
  <2>1. writer' = writer
    BY <1>5 DEF MainStep
  <2>2. CASE CloseJournal
    BY <2>1, <2>2 DEF CloseJournal, ShutdownInv, Closing
  <2>3. CASE TickJournal
    BY <1>1, <2>1, <2>3 DEF TickJournal, TickSyncs, TickFails, journalVars
  <2>4. CASE UNCHANGED journalVars
    BY <1>1, <2>1, <2>4 DEF journalVars
  <2> QED
    BY <1>5, <2>2, <2>3, <2>4 DEF MainStep, TakeSignal, TickSeesError, TickStarts,
      TickIndex, TickHitsFloor, TickMeta, AwaitReaders, AwaitWriter, AwaitDecoder,
      CloseIndex, WriteMeta, WriteSums
<1>6. CASE Signal
  BY <1>1, <1>6 DEF Signal, journalVars
<1>7. CASE Crash
  BY <1>1, <1>7 DEF Crash, Kill
<1>8. CASE UNCHANGED captureVars
  BY <1>1, <1>8 DEF captureVars, journalVars
<1> QED
  BY <1>2, <1>3, <1>4, <1>5, <1>6, <1>7, <1>8 DEF CaptureNext, Stopped

\* "One goroutine owning it removes an entire class of race" (captureSession):
\* whatever failed, and however the shutdown interleaves with the goroutines,
\* Write is never called without an open segment, nor after it has failed.
THEOREM CaptureWriteFindsSegment == CaptureSpec => []WriteFindsSegment
<1> QED
  BY InitWriteFinds, StepWriteFinds, CaptureShutdown, PTL DEF CaptureSpec

\* One step of the session is one of the journal's own steps or leaves the
\* journal alone.
LEMMA StepImplements ==
  FramesFlow /\ WriteFindsSegment /\ [CaptureNext]_captureVars => [JournalNext]_journalVars
<1> SUFFICES ASSUME FramesFlow, WriteFindsSegment, [CaptureNext]_captureVars
             PROVE  [JournalNext]_journalVars
  OBVIOUS
<1>1. CASE \E i \in Ifaces : ReaderStep(i)
  BY <1>1 DEF ReaderStep
<1>2. CASE WriterStep
  <2>1. CASE WriterTakes
    <3>1. Head(frames) \in Frames
      BY <2>1 DEF WriterTakes, FramesFlow
    <3>2. \/ \E rotate, flush \in BOOLEAN : WriteOk(Head(frames), rotate, flush)
          \/ WriteFails(Head(frames))
      BY <2>1 DEF WriterTakes
    <3>3. ~writeErr
      BY <2>1 DEF WriterTakes, WriteFindsSegment
    <3> QED
      BY <3>1, <3>2, <3>3 DEF JournalNext
  <2>2. CASE WriterForwards
    BY <2>2 DEF WriterForwards
  <2>3. CASE WriterEnds
    BY <2>3 DEF WriterEnds
  <2> QED
    BY <1>2, <2>1, <2>2, <2>3 DEF WriterStep
<1>3. CASE DecoderStep
  BY <1>3 DEF DecoderStep
<1>4. CASE MainStep
  <2>1. CASE TickJournal
    BY <2>1 DEF TickJournal, JournalNext
  <2>2. CASE CloseJournal
    BY <2>2 DEF CloseJournal, CloseNil, JournalNext
  <2>3. CASE UNCHANGED journalVars
    BY <2>3
  <2> QED
    BY <1>4, <2>1, <2>2, <2>3 DEF MainStep, TakeSignal, TickSeesError, TickStarts,
      TickIndex, TickHitsFloor, TickMeta, AwaitReaders, AwaitWriter, AwaitDecoder,
      CloseIndex, WriteMeta, WriteSums
<1>5. CASE Signal
  BY <1>5 DEF Signal
<1>6. CASE Crash
  BY <1>6 DEF Crash, JournalNext
<1>7. CASE UNCHANGED captureVars
  BY <1>7 DEF captureVars
<1> QED
  BY <1>1, <1>2, <1>3, <1>4, <1>5, <1>6, <1>7 DEF CaptureNext, Stopped

\* Every behaviour of a session, shutdown and kill included, is a behaviour of
\* the journal: Write is not called again once it has failed.
THEOREM CaptureImplementsJournal == CaptureSpec => ImplementsJournal
<1>1. CaptureInit => JournalInit
  BY DEF CaptureInit
<1>2. FramesFlow /\ WriteFindsSegment /\ [CaptureNext]_captureVars => [JournalNext]_journalVars
  BY StepImplements
<1> QED
  BY <1>1, <1>2, CaptureFlow, CaptureWriteFindsSegment, PTL
  DEF CaptureSpec, JournalSpec, ImplementsJournal

\* The journal's guarantees hold of the whole session: references resolve, and
\* only the last segment of a bundle can be incomplete, kill or no kill.
THEOREM CaptureKeepsEvidence == CaptureSpec => [](RefsResolve /\ OnlyLastTorn)
<1>1. JournalSpec => []RefsResolve
  BY JournalRefsResolve
<1>2. JournalSpec => []OnlyLastTorn
  BY JournalOnlyLastTorn
<1>3. CaptureSpec => JournalSpec
  BY CaptureImplementsJournal DEF ImplementsJournal
<1> QED
  BY <1>1, <1>2, <1>3, PTL

-----------------------------------------------------------------------------
(* The sidecar and the verdict on the bundle                               *)

\* The invariant of the journal holds in a session that drives it.
THEOREM CaptureJournal == CaptureSpec => []JournalInv
<1>1. JournalSpec => []JournalInv
  BY JournalInvariant
<1>2. CaptureSpec => JournalSpec
  BY CaptureImplementsJournal DEF ImplementsJournal
<1> QED
  BY <1>1, <1>2, PTL

FrameCounts == [i \in DOMAIN files |-> Len(files[i].frames)]

\* From the close of the journal on, the sidecar and the exit code say the same
\* of it: a sidecar with an end that is not an error counts a closed journal,
\* and an exit code of 0 means that nothing after the loop has failed.
SidecarInv ==
  /\ sidecar.drops \in BOOLEAN
  /\ main \in {"write meta", "write sums", "exited"} /\ termination # "error" => ~isOpen
  /\ sidecar.utcEnd => main \in {"write sums", "exited"}
  /\ sidecar.utcEnd /\ sidecar.termination # "error"
       => ~isOpen /\ sidecar.segments = FrameCounts
  /\ sidecar.termination = "clean" => sidecar.utcEnd
  /\ exit = "ok" => termination = "clean"
  /\ main \in {"write sums", "exited"} /\ exit = "ok"
       => sidecar.utcEnd /\ sidecar.termination = "clean"
  /\ main = "exited" => ~killed /\ (exit = "ok" => sums)

\* A closed journal stays closed, and no segment of it gains a frame: a kill
\* finds everything durable.
LEMMA ClosedStays ==
  ASSUME JournalInv, [JournalNext]_journalVars, ~isOpen
  PROVE  ~isOpen' /\ FrameCounts' = FrameCounts
<1>1. CASE UNCHANGED journalVars
  BY <1>1 DEF journalVars, FrameCounts
<1>2. CASE Kill
  <2>1. PICK cut \in [DOMAIN files -> 0 .. MaxBlocks] :
          files' = [i \in DOMAIN files |-> [files[i] EXCEPT !.synced = cut[i]]]
    BY <1>2 DEF Kill
  <2>2. \A i \in DOMAIN files : files[i] \in File
    BY DEF JournalInv, GoodFiles
  <2>3. \A i \in DOMAIN files : files'[i].frames = files[i].frames
    BY <2>1, <2>2 DEF File
  <2>4. DOMAIN files' = DOMAIN files
    BY <2>1
  <2> QED
    BY <1>2, <2>3, <2>4 DEF Kill, FrameCounts
<1>3. CASE JournalNext /\ ~Kill
  BY <1>3 DEF JournalNext, WriteOk, MayWrite, WriteFails, WriteFailsFinishing,
    WriteFailsOpening, WriteFailsSpilling, WriteFailsSyncing, TickSyncs, TickFails,
    CloseOk, CloseFails
<1> QED
  BY <1>1, <1>2, <1>3

\* Once the journal is closed what Segments reports is what its files hold.
LEMMA ClosedSegments ==
  ASSUME JournalInv, ~isOpen
  PROVE  Segments = FrameCounts
<1>1. Segments = recorded /\ Counts(recorded, files, Len(files))
  BY DEF JournalInv, FinishedCount, Segments
<1>2. files \in Seq(File) /\ DOMAIN files = 1 .. Len(files)
  BY LenProperties DEF JournalInv, GoodFiles
<1>3. recorded \in Seq(Nat) /\ Len(recorded) = Len(files)
      /\ \A i \in 1 .. Len(files) : recorded[i] = Len(files[i].frames)
  BY <1>1 DEF Counts
<1>4. recorded = [i \in 1 .. Len(files) |-> recorded[i]]
  BY <1>3
<1> QED
  BY <1>1, <1>2, <1>3, <1>4 DEF FrameCounts

\* The sidecar of a session that starts has no end.
LEMMA InitSidecar == CaptureInit => SidecarInv
BY DEF CaptureInit, JournalInit, SidecarInv

\* Steps of the main goroutine up to the last meta.Write, none of which writes
\* an end into the sidecar.
LEMMA LoopSidecar ==
  ASSUME SidecarInv, ~sidecar.utcEnd, main' \notin {"write meta", "write sums", "exited"},
         \/ sidecar' = sidecar
         \/ \E drops \in BOOLEAN : sidecar' = Meta("interrupted", FALSE, drops),
         UNCHANGED <<termination, exit>> \/ exit' # "ok"
  PROVE  SidecarInv'
<1>1. /\ ~sidecar'.utcEnd /\ sidecar'.termination # "clean"
      /\ sidecar'.drops \in BOOLEAN
  <2>1. CASE sidecar' = sidecar
    BY <2>1 DEF SidecarInv
  <2>2. CASE \E drops \in BOOLEAN : sidecar' = Meta("interrupted", FALSE, drops)
    <3>1. PICK drops \in BOOLEAN : sidecar' = Meta("interrupted", FALSE, drops)
      BY <2>2
    <3> QED
      BY ONLY <3>1 DEF Meta
  <2> QED
    BY <2>1, <2>2
<1>2. exit' = "ok" => termination' = "clean"
  BY DEF SidecarInv
<1> QED
  BY <1>1, <1>2 DEF SidecarInv

\* Every step of the main goroutine keeps sidecar, exit code and journal in
\* step.
LEMMA MainSidecar ==
  ASSUME JournalInv, SidecarInv, MainStep
  PROVE  SidecarInv'
<1>1. ~killed
  BY DEF MainStep
<1>2. CASE main \notin {"close journal", "write meta", "write sums"}
  <2>1. ~sidecar.utcEnd
    BY <1>2 DEF SidecarInv, MainStep, TakeSignal, TickSeesError, TickStarts, TickJournal,
      TickIndex, TickHitsFloor, TickMeta, AwaitReaders, AwaitWriter, AwaitDecoder,
      CloseIndex, CloseJournal, WriteMeta, WriteSums
  <2>2. main' \notin {"write meta", "write sums", "exited"}
    BY <1>2 DEF MainStep, TakeSignal, TickSeesError, TickStarts, TickJournal,
      TickIndex, TickHitsFloor, TickMeta, AwaitReaders, AwaitWriter, AwaitDecoder,
      CloseIndex, CloseJournal, WriteMeta, WriteSums, Break
  <2>3. /\ \/ sidecar' = sidecar
           \/ \E drops \in BOOLEAN : sidecar' = Meta("interrupted", FALSE, drops)
        /\ UNCHANGED <<termination, exit>> \/ exit' # "ok"
    <3>1. CASE UNCHANGED closeVars
      BY <3>1 DEF closeVars
    <3> QED
      BY <1>2, <3>1, CaptureAssumption DEF MainStep, TakeSignal, TickSeesError, TickStarts, TickJournal,
        TickIndex, TickHitsFloor, TickMeta, AwaitReaders, AwaitWriter, AwaitDecoder,
        CloseIndex, CloseJournal, WriteMeta, WriteSums
  <2> QED
    BY <2>1, <2>2, <2>3, LoopSidecar
<1>3. CASE main = "close journal"
  <2>1. CloseJournal
    BY <1>3 DEF MainStep, TakeSignal, TickSeesError, TickStarts, TickJournal,
      TickIndex, TickHitsFloor, TickMeta, AwaitReaders, AwaitWriter, AwaitDecoder,
      CloseIndex, WriteMeta, WriteSums
  <2>2. CASE CloseOk \/ CloseNil
    <3>1. ~isOpen'
      BY <2>2 DEF CloseOk, CloseNil, journalVars
    <3>2. main' = "write meta" /\ sidecar' = sidecar
      BY <2>1 DEF CloseJournal
    <3>3. ~sidecar.utcEnd
      BY <1>3 DEF SidecarInv
    <3>4. exit' = "ok" => termination' = "clean"
      BY <2>1 DEF CloseJournal, SidecarInv
    <3> QED
      BY <3>1, <3>2, <3>3, <3>4 DEF SidecarInv
  <2>3. CASE termination' = "error" /\ exit' = "usage"
    <3>1. main' = "write meta" /\ sidecar' = sidecar
      BY <2>1 DEF CloseJournal
    <3>2. ~sidecar.utcEnd
      BY <1>3 DEF SidecarInv
    <3> QED
      BY <2>3, <3>1, <3>2 DEF SidecarInv
  <2> QED
    BY <2>1, <2>2, <2>3 DEF CloseJournal
<1>4. CASE main = "write meta"
  <2>1. WriteMeta
    BY <1>4 DEF MainStep, TakeSignal, TickSeesError, TickStarts, TickJournal,
      TickIndex, TickHitsFloor, TickMeta, AwaitReaders, AwaitWriter, AwaitDecoder,
      CloseIndex, CloseJournal, WriteSums
  <2>2. /\ main' = "write sums" /\ ~sidecar.utcEnd /\ UNCHANGED <<isOpen, files, termination>>
        /\ \/ /\ \E drops \in BOOLEAN : sidecar' = Meta(termination, TRUE, drops)
              /\ UNCHANGED exit
           \/ exit' = "usage" /\ UNCHANGED sidecar
    BY <1>4, <2>1, CaptureAssumption DEF WriteMeta, journalVars, SidecarInv
  <2>3. termination # "error" => ~isOpen /\ Segments = FrameCounts
    BY <1>4, ClosedSegments DEF SidecarInv
  <2>4. FrameCounts' = FrameCounts
    BY <2>2 DEF FrameCounts
  <2>5. CASE exit' = "usage" /\ UNCHANGED sidecar
    <3>1. ~sidecar'.utcEnd /\ sidecar'.termination # "clean"
      BY <2>2, <2>5 DEF SidecarInv
    <3>2. termination' # "error" => ~isOpen'
      BY <1>4, <2>2 DEF SidecarInv
    <3> QED
      BY <2>2, <2>5, <3>1, <3>2 DEF SidecarInv
  <2>6. CASE /\ \E drops \in BOOLEAN : sidecar' = Meta(termination, TRUE, drops)
             /\ UNCHANGED exit
    <3>1. sidecar'.utcEnd /\ sidecar'.termination = termination'
          /\ sidecar'.segments = Segments /\ sidecar'.drops \in BOOLEAN
      <4>1. PICK drops \in BOOLEAN : sidecar' = Meta(termination, TRUE, drops)
        BY <2>6
      <4>2. termination' = termination
        BY <2>2
      <4> QED
        BY ONLY <4>1, <4>2 DEF Meta
    <3>2. termination' # "error" => ~isOpen' /\ Segments = FrameCounts'
      BY <2>2, <2>3, <2>4
    <3>3. exit' = "ok" => termination' = "clean"
      BY <2>2, <2>6 DEF SidecarInv
    <3> QED
      BY <2>2, <3>1, <3>2, <3>3 DEF SidecarInv
  <2> QED
    BY <2>2, <2>5, <2>6
<1>5. CASE main = "write sums"
  <2>1. WriteSums
    BY <1>5 DEF MainStep, TakeSignal, TickSeesError, TickStarts, TickJournal,
      TickIndex, TickHitsFloor, TickMeta, AwaitReaders, AwaitWriter, AwaitDecoder,
      CloseIndex, CloseJournal, WriteMeta
  <2>2. /\ main' = "exited" /\ UNCHANGED <<isOpen, files, killed, termination, sidecar>>
        /\ (sums' = TRUE /\ exit' = exit) \/ exit' = "usage"
    BY <2>1 DEF WriteSums, journalVars
  <2>3. FrameCounts' = FrameCounts
    BY <2>2 DEF FrameCounts
  <2> QED
    BY <1>1, <1>5, <2>2, <2>3 DEF SidecarInv
<1> QED
  BY <1>2, <1>3, <1>4, <1>5

\* No other goroutine touches the sidecar, and after the journal is closed none
\* can touch what it describes.
LEMMA StepSidecar ==
  JournalInv /\ FramesFlow /\ WriteFindsSegment /\ SidecarInv /\ [CaptureNext]_captureVars
    => SidecarInv'
<1> SUFFICES ASSUME JournalInv, FramesFlow, WriteFindsSegment, SidecarInv,
                    [CaptureNext]_captureVars
             PROVE  SidecarInv'
  OBVIOUS
<1>1. ~isOpen => ~isOpen' /\ FrameCounts' = FrameCounts
  BY StepImplements, ClosedStays
<1>2. ASSUME UNCHANGED <<main, closeVars>>, main = "exited" => killed' = killed
      PROVE  SidecarInv'
  <2>1. /\ main' = main /\ termination' = termination /\ exit' = exit
        /\ sidecar' = sidecar /\ sums' = sums
    BY <1>2 DEF closeVars
  <2>2. main' = "exited" => ~killed' /\ (exit' = "ok" => sums')
    BY <1>2, <2>1, Zenon DEF SidecarInv
  <2> QED
    BY <1>1, <2>1, <2>2, Zenon DEF SidecarInv
<1>3. CASE \E i \in Ifaces : ReaderStep(i)
  BY <1>2, <1>3 DEF ReaderStep, journalVars
<1>4. CASE WriterStep
  <2>1. killed' = killed
    <3>1. CASE WriterTakes
      BY <3>1 DEF WriterTakes, WriteOk, WriteFails, WriteFailsFinishing,
        WriteFailsOpening, WriteFailsSpilling, WriteFailsSyncing
    <3> QED
      BY <1>4, <3>1 DEF WriterStep, WriterForwards, WriterEnds, journalVars
  <2> QED
    BY <1>2, <1>4, <2>1 DEF WriterStep
<1>5. CASE DecoderStep
  BY <1>2, <1>5 DEF DecoderStep, journalVars
<1>6. CASE MainStep
  BY <1>6, MainSidecar
<1>7. CASE Signal
  BY <1>2, <1>7 DEF Signal, journalVars
<1>8. CASE Crash
  BY <1>2, <1>8 DEF Crash
<1>9. CASE UNCHANGED captureVars
  BY <1>2, <1>9 DEF captureVars, journalVars
<1> QED
  BY <1>3, <1>4, <1>5, <1>6, <1>7, <1>8, <1>9 DEF CaptureNext, Stopped

\* Sidecar, exit code and journal agree in every session.
THEOREM CaptureSidecar == CaptureSpec => []SidecarInv
<1> QED
  BY InitSidecar, StepSidecar, CaptureFlow, CaptureWriteFindsSegment, CaptureJournal, PTL
  DEF CaptureSpec

\* What is durable in a segment is the header and all its frames, once the
\* journal is closed.
LEMMA ClosedCounts ==
  ASSUME JournalInv, ~isOpen
  PROVE  /\ \A i \in DOMAIN files : Durable(files[i])
         /\ FrameCounts = [i \in DOMAIN files |-> files[i].synced - 1]
<1>1. DOMAIN files = 1 .. Len(files) /\ Len(files) \in Nat
  BY LenProperties DEF JournalInv, GoodFiles
<1>2. \A i \in DOMAIN files : Durable(files[i])
  BY <1>1 DEF JournalInv, GoodFiles
<1>3. \A i \in DOMAIN files : Len(files[i].frames) \in Nat
  BY <1>1, FramesOfFiles DEF JournalInv
<1>4. \A i \in DOMAIN files : files[i].synced - 1 = Len(files[i].frames)
  BY <1>2, <1>3 DEF Durable, BlockCount
<1> QED
  BY <1>2, <1>4 DEF FrameCounts

\* "Copy segment frame counts into the sidecar" (captureSession, shutdown): a
\* sidecar that says how a session ended counts exactly the frames that are on
\* disk, and goes on doing so whatever happens to the process after.
THEOREM CaptureSidecarMatches == CaptureSpec => []SidecarMatchesDisk
<1>1. JournalInv /\ SidecarInv => SidecarMatchesDisk
  BY ClosedCounts DEF SidecarInv, SidecarMatchesDisk
<1> QED
  BY <1>1, CaptureJournal, CaptureSidecar, PTL

\* Kernel drops apart, nothing but its segments can make a bundle of this
\* session fail, if a clean termination comes with an end.
LEMMA OnlySegmentsFail ==
  ASSUME sidecar.termination = "clean" => sidecar.utcEnd,
         NEW f \in LaterFindings(DropsAside), f.level = "fail"
  PROVE  f \in SegmentFindings(DropsAside)
<1> DEFINE b == DropsAside
<1>1. /\ b.termination = sidecar.termination /\ b.utcEnd = sidecar.utcEnd
      /\ b.sums \in {"match", "absent"} /\ b.index = "ok"
      /\ b.drops = FALSE /\ b.anchorsOk = TRUE /\ b.sensitive = TRUE
  BY DEF DropsAside, OnDisk
<1> HIDE DEF b
<1>2. f \notin TerminationFindings(b)
  BY <1>1 DEF TerminationFindings, Finding
<1>3. f \notin SumsFindings(b)
  BY <1>1 DEF SumsFindings, Finding
<1>4. f \notin IndexFindings(b)
  BY <1>1 DEF IndexFindings, Finding
<1>5. /\ f \notin {Finding("drops", IF b.drops THEN "fail" ELSE "ok")}
      /\ f \notin {Finding("clock", IF b.anchorsOk THEN "ok" ELSE "fail")}
      /\ f \notin (IF b.sensitive THEN {} ELSE {Finding("sensitivity", "fail")})
  BY <1>1 DEF Finding
<1>6. f \in LaterFindings(b) /\ SegmentFindings(b) = SegmentFindings(DropsAside)
  BY DEF b
<1> QED
  BY <1>2, <1>3, <1>4, <1>5, <1>6 DEF LaterFindings

\* A segment fails only if it cannot be read or is cut short before the last.
LEMMA SegmentsPass ==
  ASSUME JournalInv, \A i \in DOMAIN files : files[i].synced > 0,
         \A i \in DOMAIN files : i # Len(files) => ~CutShort(i),
         NEW f \in SegmentFindings(DropsAside)
  PROVE  f.level # "fail"
<1> DEFINE b == DropsAside
<1>1. b.segments = [i \in DOMAIN files |->
                      [readable |-> files[i].synced > 0, truncated |-> CutShort(i)]]
  BY DEF DropsAside, OnDisk
<1>2. DOMAIN files = 1 .. Len(files) /\ Len(files) \in Nat /\ Len(files) > 0
  BY LenProperties DEF JournalInv, GoodFiles
<1>3. DOMAIN b.segments = DOMAIN files /\ Len(b.segments) = Len(files) /\ b.segments # <<>>
  BY <1>1, <1>2
<1>4. ASSUME NEW i \in DOMAIN files
      PROVE  b.segments[i].readable /\ (b.segments[i].truncated => i = Len(files))
  <2> DEFINE cut == CutShort(i)
  <2>1. cut \in BOOLEAN
    BY DEF CutShort
  <2>2. cut => i = Len(files)
    OBVIOUS
  <2>3. b.segments[i] = [readable |-> files[i].synced > 0, truncated |-> cut]
    BY <1>1
  <2> HIDE DEF cut, b
  <2>4. b.segments[i].readable = (files[i].synced > 0) /\ b.segments[i].truncated = cut
    BY <2>3
  <2> QED
    BY <2>1, <2>2, <2>4
<1> HIDE DEF b
<1>5. \A i \in DOMAIN files : SegmentLevel(b, i) \in {"ok", "warn"}
  BY <1>3, <1>4 DEF SegmentLevel
<1> QED
  BY <1>3, <1>5 DEF SegmentFindings, Finding, b

\* Drops in the sidecar are the one more finding that fails the bundle.
LEMMA DropsFail ==
  ASSUME OnDisk.drops
  PROVE  Status(OnDisk) = "failed"
<1>1. Finding("drops", "fail") \in LaterFindings(OnDisk)
  BY DEF LaterFindings
<1>2. Finding("drops", "fail").level = "fail"
  BY DEF Finding
<1>3. OnDisk.meta = "ok"
  BY DEF OnDisk
<1> QED
  BY <1>1, <1>2, <1>3 DEF Status

\* "The evidence that this session closed cleanly" (captureSession, shutdown):
\* of every session that exits 0, sccap verify fails the bundle for the kernel
\* drops its sidecar records and for nothing else; with none it calls it clean.
THEOREM CaptureCleanVerifies == CaptureSpec => []CleanVerifies
<1>1. ASSUME JournalInv, SidecarInv, main = "exited", exit = "ok"
      PROVE  /\ Status(DropsAside) = "clean"
             /\ Status(OnDisk) = IF sidecar.drops THEN "failed" ELSE "clean"
  <2>1. /\ sidecar.utcEnd /\ sidecar.termination = "clean" /\ ~isOpen /\ ~killed /\ torn = {}
        /\ sidecar.drops \in BOOLEAN
    BY <1>1 DEF SidecarInv, JournalInv
  <2>2. DOMAIN files = 1 .. Len(files)
    BY <1>1, LenProperties DEF JournalInv, GoodFiles
  <2>3. \A i \in DOMAIN files : files[i].synced > 0
    <3>1. \A i \in DOMAIN files : Durable(files[i]) /\ Len(files[i].frames) \in Nat
      BY <1>1, <2>1, <2>2, ClosedCounts, FramesOfFiles DEF JournalInv
    <3> QED
      BY <3>1 DEF Durable, BlockCount
  <2>4. \A i \in DOMAIN files : ~CutShort(i)
    BY <1>1, <2>1, ClosedCounts DEF CutShort
  <2>5. \A f \in LaterFindings(DropsAside) : f.level # "fail"
    BY <1>1, <2>1, <2>3, <2>4, OnlySegmentsFail, SegmentsPass
  <2>6. /\ DropsAside.meta = "ok" /\ DropsAside.termination = "clean"
        /\ DropsAside.idMatches = TRUE /\ OnDisk.drops = sidecar.drops
    BY <2>1 DEF DropsAside, OnDisk
  <2>7. Status(DropsAside) = "clean"
    BY <2>5, <2>6 DEF Status
  <2>8. CASE sidecar.drops
    BY <2>6, <2>7, <2>8, DropsFail
  <2>9. CASE ~sidecar.drops
    <3>1. OnDisk.drops = FALSE
      BY <2>1, <2>6, <2>9
    <3>2. OnDisk = [f \in DOMAIN OnDisk |-> OnDisk[f]]
      BY DEF OnDisk
    <3> HIDE DEF OnDisk
    <3>3. OnDisk = DropsAside
      BY ONLY <3>1, <3>2 DEF DropsAside
    <3> QED
      BY <2>7, <2>9, <3>3
  <2> QED
    BY <2>8, <2>9
<1>2. JournalInv /\ SidecarInv => CleanVerifies
  BY <1>1 DEF CleanVerifies
<1> QED
  BY <1>2, CaptureJournal, CaptureSidecar, PTL

\* A kill at any moment, of any session, leaves a bundle that does not fail
\* verification, kernel drops apart: rotation has made every segment but the last durable, and the
\* sidecar never claims a clean end that was not reached.
THEOREM CaptureKilledVerifies == CaptureSpec => []KilledVerifies
<1>1. ASSUME JournalInv, SidecarInv, killed, Current.synced > 0
      PROVE  Status(DropsAside) # "failed"
  <2>1. DOMAIN files = 1 .. Len(files) /\ Len(files) \in Nat
    BY <1>1, LenProperties DEF JournalInv, GoodFiles
  <2>2. \A i \in DOMAIN files : Len(files[i].frames) \in Nat
    BY <1>1, <2>1, FramesOfFiles DEF JournalInv
  <2>3. \A i \in DOMAIN files : i # Len(files) => Durable(files[i])
    BY <1>1, <2>1 DEF JournalInv, GoodFiles
  <2>4. \A i \in DOMAIN files : files[i].synced > 0
    BY <1>1, <2>2, <2>3 DEF Durable, BlockCount, Current
  <2>5. \A i \in DOMAIN files : i # Len(files) => ~CutShort(i)
    BY <1>1 DEF CutShort, JournalInv
  <2>6. sidecar.termination = "clean" => sidecar.utcEnd
    BY <1>1 DEF SidecarInv
  <2>7. \A f \in LaterFindings(DropsAside) : f.level # "fail"
    BY <1>1, <2>4, <2>5, <2>6, OnlySegmentsFail, SegmentsPass
  <2>8. DropsAside.meta = "ok" /\ DropsAside.idMatches = TRUE
    BY DEF DropsAside, OnDisk
  <2> QED
    BY <2>7, <2>8 DEF Status
<1>2. JournalInv /\ SidecarInv => KilledVerifies
  BY <1>1 DEF KilledVerifies
<1> QED
  BY <1>2, CaptureJournal, CaptureSidecar, PTL

-----------------------------------------------------------------------------
(* From the socket to the journal                                          *)

\* Moving the head of one row to the end of the row before it changes nothing.
LEMMA MoveHead ==
  ASSUME NEW S, NEW s \in Seq(S), NEW t \in Seq(S), t # <<>>
  PROVE  Append(s, Head(t)) \o Tail(t) = s \o t
<1>1. Head(t) \in S /\ Tail(t) \in Seq(S) /\ Len(Tail(t)) = Len(t) - 1
      /\ \A k \in 1 .. Len(Tail(t)) : Tail(t)[k] = t[k + 1]
  BY HeadTailProperties
<1>2. /\ Append(s, Head(t)) \in Seq(S) /\ Len(Append(s, Head(t))) = Len(s) + 1
      /\ \A k \in 1 .. Len(s) : Append(s, Head(t))[k] = s[k]
      /\ Append(s, Head(t))[Len(s) + 1] = t[1]
  BY <1>1, AppendProperties
<1>3. Len(s) \in Nat /\ Len(t) \in Nat
  BY LenProperties
<1> DEFINE a == Append(s, Head(t))
           u == Tail(t)
<1> HIDE DEF a, u
<1>4. /\ a \o u \in Seq(S) /\ Len(a \o u) = Len(s) + Len(t)
      /\ \A k \in 1 .. Len(s) + Len(t) :
           (a \o u)[k] = IF k <= Len(s) + 1 THEN a[k] ELSE u[k - (Len(s) + 1)]
  <2>1. Len(a) + Len(u) = Len(s) + Len(t)
    BY <1>1, <1>2, <1>3 DEF a, u
  <2> QED
    BY <1>1, <1>2, <2>1, ConcatProperties DEF a, u
<1>5. /\ s \o t \in Seq(S) /\ Len(s \o t) = Len(s) + Len(t)
      /\ \A k \in 1 .. Len(s) + Len(t) : (s \o t)[k] = IF k <= Len(s) THEN s[k] ELSE t[k - Len(s)]
  BY ConcatProperties
<1>6. ASSUME NEW k \in 1 .. Len(s) + Len(t) PROVE (a \o u)[k] = (s \o t)[k]
  <2>1. CASE k <= Len(s)
    <3>1. (a \o u)[k] = a[k] /\ (s \o t)[k] = s[k]
      BY <1>3, <1>4, <1>5, <2>1
    <3> QED
      BY <1>2, <1>3, <2>1, <3>1 DEF a
  <2>2. CASE k = Len(s) + 1
    <3>1. (a \o u)[k] = a[Len(s) + 1] /\ (s \o t)[k] = t[1]
      BY <1>3, <1>4, <1>5, <2>2
    <3> QED
      BY <1>2, <3>1 DEF a
  <2>3. CASE k > Len(s) + 1
    <3>1. (a \o u)[k] = u[k - (Len(s) + 1)] /\ (s \o t)[k] = t[k - Len(s)]
      BY <1>3, <1>4, <1>5, <2>3
    <3>2. k - (Len(s) + 1) \in 1 .. Len(u) /\ (k - (Len(s) + 1)) + 1 = k - Len(s)
      BY <1>1, <1>3, <2>3 DEF u
    <3>3. u[k - (Len(s) + 1)] = t[(k - (Len(s) + 1)) + 1]
      BY <1>1, <3>2 DEF u
    <3> QED
      BY <3>1, <3>2, <3>3
  <2>4. k <= Len(s) \/ k = Len(s) + 1 \/ k > Len(s) + 1
    BY <1>3
  <2> QED
    BY <2>1, <2>2, <2>3, <2>4
<1>7. a \o u = s \o t
  BY <1>4, <1>5, <1>6, SeqEqual
<1> QED
  BY <1>7 DEF a, u

\* An element appended to the second of two rows is appended to both.
LEMMA AppendEnd ==
  ASSUME NEW S, NEW s \in Seq(S), NEW t \in Seq(S), NEW e \in S
  PROVE  s \o Append(t, e) = Append(s \o t, e)
<1>1. s \o t \in Seq(S) /\ <<e>> \in Seq(S)
  BY ConcatProperties
<1> QED
  BY <1>1, AppendIsConcat, ConcatAssociative

\* A frame names its interface, and its places in a row are finitely many.
LEMMA PlacesFinite ==
  ASSUME NEW row \in Seq(Frames), NEW i
  PROVE  /\ Places(i, row) \subseteq 1 .. Len(row)
         /\ IsFiniteSet(Places(i, row)) /\ Cardinality(Places(i, row)) \in Nat
<1>1. DOMAIN row = 1 .. Len(row) /\ Len(row) \in Nat
  BY LenProperties
<1>2. Places(i, row) \subseteq 1 .. Len(row)
  BY <1>1 DEF Places
<1>3. IsFiniteSet(1 .. Len(row))
  BY <1>1, FS_Interval
<1> QED
  BY <1>2, <1>3, FS_Subset, FS_CardinalityType

\* A frame at the end of a row adds one place, to its own interface.
LEMMA PlacesAppend ==
  ASSUME NEW row \in Seq(Frames), NEW f \in Frames, NEW i
  PROVE  /\ Cardinality(Places(i, Append(row, f)))
              = IF f[1] = i THEN Cardinality(Places(i, row)) + 1
                ELSE Cardinality(Places(i, row))
         /\ Places(i, Append(row, f))
              = IF f[1] = i THEN Places(i, row) \cup {Len(row) + 1} ELSE Places(i, row)
<1>1. DOMAIN row = 1 .. Len(row) /\ Len(row) \in Nat
  BY LenProperties
<1>2. /\ DOMAIN Append(row, f) = 1 .. Len(row) + 1
      /\ \A k \in 1 .. Len(row) : Append(row, f)[k] = row[k]
      /\ Append(row, f)[Len(row) + 1] = f
  BY AppendProperties, LenProperties
<1>3. Places(i, Append(row, f))
        = IF f[1] = i THEN Places(i, row) \cup {Len(row) + 1} ELSE Places(i, row)
  BY <1>1, <1>2 DEF Places
<1>4. Len(row) + 1 \notin Places(i, row) /\ IsFiniteSet(Places(i, row))
  BY <1>1, PlacesFinite
<1>5. Cardinality(Places(i, row) \cup {Len(row) + 1}) = Cardinality(Places(i, row)) + 1
  BY <1>4, FS_AddElement
<1> QED
  BY <1>3, <1>5

\* A row stays ordered when the next frame of an interface is appended to it.
LEMMA OrderedAppend ==
  ASSUME NEW row \in Seq(Frames), NEW f \in Frames, Ordered(row),
         f[2] = Cardinality(Places(f[1], row)) + 1
  PROVE  Ordered(Append(row, f))
<1> DEFINE new == Append(row, f)
<1>1. DOMAIN row = 1 .. Len(row) /\ Len(row) \in Nat
  BY LenProperties
<1>2. /\ DOMAIN new = 1 .. Len(row) + 1
      /\ \A k \in 1 .. Len(row) : new[k] = row[k]
      /\ new[Len(row) + 1] = f
  BY AppendProperties, LenProperties
<1>3. \A i : Places(i, new) = IF f[1] = i THEN Places(i, row) \cup {Len(row) + 1}
                              ELSE Places(i, row)
  BY PlacesAppend
<1>4. \A i : Places(i, row) \subseteq 1 .. Len(row)
  BY PlacesFinite
<1> HIDE DEF new
<1>5. ASSUME NEW k \in 1 .. Len(row)
      PROVE  new[k][2] = Cardinality({j \in Places(new[k][1], new) : j <= k})
  <2>1. new[k] = row[k]
    BY <1>2
  <2>2. {j \in Places(row[k][1], new) : j <= k} = {j \in Places(row[k][1], row) : j <= k}
    <3>1. ~(Len(row) + 1 <= k)
      BY <1>1
    <3> QED
      BY <1>3, <3>1
  <2>3. row[k][2] = Cardinality({j \in Places(row[k][1], row) : j <= k})
    BY <1>1 DEF Ordered
  <2> QED
    BY <2>1, <2>2, <2>3
<1>6. f[2] = Cardinality({j \in Places(f[1], new) : j <= Len(row) + 1})
  <2>1. \A j \in Places(f[1], new) : j <= Len(row) + 1
    BY <1>1, <1>3, <1>4
  <2>2. {j \in Places(f[1], new) : j <= Len(row) + 1} = Places(f[1], new)
    BY <2>1
  <2>3. Cardinality(Places(f[1], new)) = Cardinality(Places(f[1], row)) + 1
    BY PlacesAppend DEF new
  <2> QED
    BY <2>2, <2>3
<1>7. \A k \in DOMAIN new : k \in 1 .. Len(row) \/ k = Len(row) + 1
  BY <1>1, <1>2
<1>8. Ordered(new)
  BY <1>2, <1>5, <1>6, <1>7 DEF Ordered
<1> QED
  BY <1>8 DEF new

\* A leading part of an ordered row is ordered.
LEMMA OrderedPrefix ==
  ASSUME NEW row \in Seq(Frames), NEW rest \in Seq(Frames), Ordered(row \o rest)
  PROVE  Ordered(row)
<1> DEFINE all == row \o rest
<1>1. DOMAIN row = 1 .. Len(row) /\ Len(row) \in Nat /\ Len(rest) \in Nat
  BY LenProperties
<1>2. all \in Seq(Frames) /\ Len(all) = Len(row) + Len(rest)
      /\ \A k \in 1 .. Len(row) + Len(rest) :
           all[k] = IF k <= Len(row) THEN row[k] ELSE rest[k - Len(row)]
  BY ConcatProperties
<1>3. DOMAIN all = 1 .. Len(row) + Len(rest)
  BY <1>2, LenProperties
<1>4. \A k \in 1 .. Len(row) : k \in DOMAIN all /\ all[k] = row[k]
  BY <1>1, <1>2, <1>3
<1>5. Ordered(all)
  OBVIOUS
<1> HIDE DEF all
<1>6. ASSUME NEW k \in 1 .. Len(row)
      PROVE  row[k][2] = Cardinality({j \in Places(row[k][1], row) : j <= k})
  <2>1. \A j \in DOMAIN all : j <= k => j \in 1 .. Len(row)
    BY <1>1, <1>3
  <2>2. {j \in Places(row[k][1], all) : j <= k} = {j \in Places(row[k][1], row) : j <= k}
    BY <1>1, <1>4, <2>1 DEF Places
  <2> QED
    BY <1>4, <1>5, <2>2 DEF Ordered
<1> QED
  BY <1>1, <1>6 DEF Ordered

\* What has been journaled and what waits for the writer, in that order.
Row == Journaled \o frames

\* A reader holds the frame it read last, and only while it sends it.
HandInv ==
  /\ \A i \in Ifaces :
       held[i] # None => reader[i] = "send" /\ held[i] = <<i, arrived[i]>>
  /\ \A i \in Ifaces : reader[i] = "send" => held[i] # None

\* While no Write has failed the row goes on from the journal into the channel
\* and from there into the readers' hands.
OrderInv ==
  /\ HandInv
  /\ FramesInOrder
  /\ ~writeErr =>
       /\ Ordered(Row)
       /\ \A i \in Ifaces : Missing(i) \in IF reader[i] = "done" THEN {0, 1} ELSE {0}

\* What has been acknowledged is a row of frames.
LEMMA RowFrames ==
  ASSUME JournalInv, FramesFlow
  PROVE  /\ Journaled \in Seq(Frames) /\ Row \in Seq(Frames)
         /\ Len(Journaled) = Len(acked) /\ Len(acked) \in Nat
<1>1. acked \in Seq(Ack)
  BY DEF JournalInv
<1>2. DOMAIN acked = 1 .. Len(acked) /\ Len(acked) \in Nat
      /\ \A k \in 1 .. Len(acked) : acked[k] \in Ack
  BY <1>1, LenProperties
<1>3. \A k \in 1 .. Len(acked) : acked[k].frame \in Frames
  BY <1>2 DEF Ack
<1>4. Journaled \in Seq(Frames) /\ Len(Journaled) = Len(acked)
  BY <1>2, <1>3 DEF Journaled
<1> QED
  BY <1>2, <1>4, ConcatProperties DEF Row, FramesFlow

\* Nothing has arrived when a session starts.
LEMMA InitOrder == CaptureInit => OrderInv
<1> SUFFICES ASSUME CaptureInit PROVE OrderInv
  OBVIOUS
<1>1. acked = <<>> /\ frames = <<>> /\ DOMAIN acked = {}
  BY DEF CaptureInit, JournalInit
<1>2. Journaled = <<>>
  BY <1>1 DEF Journaled
<1>3. Row = <<>>
  BY <1>1, <1>2 DEF Row
<1>4. Ordered(<<>>) /\ \A i : Places(i, <<>>) = {}
  BY DEF Ordered, Places
<1>5. \A i \in Ifaces : Missing(i) = 0 /\ reader[i] = "check" /\ held[i] = None
  <2>1. Cardinality({}) = 0
    BY FS_EmptySet
  <2>2. \A i \in Ifaces : reader[i] = "check" /\ held[i] = None /\ arrived[i] = 0
    BY DEF CaptureInit
  <2>3. \A i : Cardinality(Places(i, Journaled \o frames)) = 0
    BY <1>3, <1>4, <2>1 DEF Row
  <2> QED
    BY <2>2, <2>3 DEF Missing
<1> QED
  BY <1>2, <1>3, <1>4, <1>5 DEF OrderInv, HandInv, FramesInOrder

\* A step that leaves the readers and the row alone.
LEMMA SameRow ==
  ASSUME OrderInv, UNCHANGED <<reader, held, arrived>>,
         FramesInOrder', ~writeErr' => ~writeErr /\ Row' = Row
  PROVE  OrderInv'
<1>1. HandInv'
  BY DEF OrderInv, HandInv
<1>2. ASSUME ~writeErr'
      PROVE  Ordered(Row)' /\ \A i \in Ifaces :
               Missing(i)' \in IF reader'[i] = "done" THEN {0, 1} ELSE {0}
  <2>1. Row' = Row /\ ~writeErr
    BY <1>2
  <2>2. \A i \in Ifaces : Missing(i)' = Missing(i)
    BY <2>1 DEF Missing, Row
  <2>3. Ordered(Row)'
    BY <2>1 DEF OrderInv, Ordered, Places
  <2> QED
    BY <2>1, <2>2, <2>3 DEF OrderInv
<1> QED
  BY <1>1, <1>2 DEF OrderInv

\* Reading adds a frame to the hand, sending moves it to the end of the row,
\* and giving up is the only way to lose one.
LEMMA ReaderOrder ==
  ASSUME JournalInv, FramesFlow, OrderInv, NEW i \in Ifaces, ReaderStep(i)
  PROVE  OrderInv'
<1>1. UNCHANGED <<acked, writeErr>> /\ Journaled' = Journaled /\ FramesInOrder'
  BY DEF ReaderStep, journalVars, Journaled, OrderInv, FramesInOrder, Ordered, Places
<1>2. Journaled \in Seq(Frames) /\ Row \in Seq(Frames)
  BY RowFrames
<1>3. \A j \in Ifaces : Cardinality(Places(j, Row)) \in Nat
  BY <1>2, PlacesFinite
<1>4. \A j \in Ifaces : arrived[j] \in Nat
  BY CaptureAssumption DEF FramesFlow
<1>5. CASE ReaderSends(i)
  <2>1. /\ held[i] \in Frames /\ held[i] = <<i, arrived[i]>> /\ held[i] # None
        /\ reader[i] = "send"
    BY <1>5 DEF ReaderSends, FramesFlow, OrderInv, HandInv
  <2>2. Row' = Append(Row, held[i])
    BY <1>1, <1>2, <1>5, <2>1, AppendEnd DEF Row, ReaderSends, FramesFlow
  <2>3. /\ reader' = [reader EXCEPT ![i] = "check"]
        /\ held' = [held EXCEPT ![i] = None] /\ arrived' = arrived
    BY <1>5 DEF ReaderSends
  <2>4. HandInv'
    BY <2>3 DEF OrderInv, HandInv, FramesFlow
  <2>5. ASSUME ~writeErr' PROVE Ordered(Row')
    <3>1. Missing(i) = 0
      BY <1>1, <2>1, <2>5 DEF OrderInv
    <3>2. arrived[i] = Cardinality(Places(i, Row)) + 1
      BY <1>3, <1>4, <2>1, <3>1 DEF Missing, Row
    <3>3. held[i][1] = i /\ held[i][2] = arrived[i]
      BY <2>1
    <3>4. Ordered(Row)
      BY <1>1, <2>5 DEF OrderInv
    <3> QED
      BY <1>2, <2>1, <2>2, <3>2, <3>3, <3>4, OrderedAppend
  <2>6. ASSUME ~writeErr', NEW j \in Ifaces
        PROVE  Missing(j)' \in IF reader'[j] = "done" THEN {0, 1} ELSE {0}
    <3>1. Missing(j)' = arrived'[j] - (Cardinality(Places(j, Row'))
                                        + IF held'[j] # None THEN 1 ELSE 0)
      BY DEF Missing, Row, Places
    <3>2. Cardinality(Places(j, Row')) = IF i = j THEN Cardinality(Places(j, Row)) + 1
                                         ELSE Cardinality(Places(j, Row))
      BY <1>2, <2>1, <2>2, PlacesAppend
    <3>3. Missing(j)' = Missing(j)
      <4>1. CASE i = j
        BY <1>3, <1>4, <2>1, <2>3, <3>1, <3>2, <4>1 DEF Missing, Row, FramesFlow
      <4>2. CASE i # j
        BY <1>3, <1>4, <2>3, <3>1, <3>2, <4>2 DEF Missing, Row, FramesFlow
      <4> QED
        BY <4>1, <4>2
    <3>4. reader'[j] = "done" <=> reader[j] = "done"
      BY <2>1, <2>3 DEF FramesFlow
    <3> QED
      BY <1>1, <2>6, <3>3, <3>4 DEF OrderInv
  <2> QED
    BY <1>1, <2>4, <2>5, <2>6 DEF OrderInv, Ordered, Places
<1>6. CASE UNCHANGED channelVars
  <2>1. Row' = Row
    BY <1>1, <1>6 DEF Row, channelVars
  <2>2. ReaderChecks(i) \/ ReaderTimesOut(i) \/ ReaderReads(i) \/ ReaderGivesUp(i)
        \/ ReaderSends(i)
    BY DEF ReaderStep
  <2>3. \A j \in Ifaces :
          Missing(j)' = arrived'[j] - (Cardinality(Places(j, Row))
                                       + IF held'[j] # None THEN 1 ELSE 0)
    BY <2>1 DEF Missing, Row, Places
  <2>4. Ordered(Row)' <=> Ordered(Row)
    BY <2>1 DEF Ordered, Places
  <2>5. ASSUME HandInv', NEW d, d \in {0, 1},
               \A j \in Ifaces : j # i => reader'[j] = reader[j] /\ held'[j] = held[j]
                                          /\ arrived'[j] = arrived[j],
               reader[i] # "done", Missing(i)' = Missing(i) + d,
               d = 1 => reader'[i] = "done"
        PROVE  OrderInv'
    <3>1. \A j \in Ifaces : j # i => Missing(j)' = Missing(j)
      BY <2>3, <2>5 DEF Missing, Row
    <3>2. ~writeErr => Missing(i) = 0
      BY <2>5 DEF OrderInv
    <3>3. ~writeErr => Missing(i)' = d
      BY <2>5, <3>2
    <3> QED
      BY <1>1, <2>4, <2>5, <3>1, <3>3 DEF OrderInv
  <2>6. CASE ReaderChecks(i) \/ ReaderTimesOut(i)
    <3>1. /\ reader[i] \in {"check", "read"} /\ UNCHANGED <<held, arrived>>
          /\ reader' = [reader EXCEPT ![i] = reader'[i]] /\ reader'[i] # "send"
      BY <2>6 DEF ReaderChecks, ReaderTimesOut, FramesFlow
    <3>2. HandInv'
      BY <3>1 DEF HandInv, OrderInv, FramesFlow
    <3>3. Missing(i)' = Missing(i) + 0
      BY <1>3, <1>4, <2>3, <3>1 DEF Missing, Row
    <3>4. \A j \in Ifaces : j # i => reader'[j] = reader[j] /\ held'[j] = held[j]
                                     /\ arrived'[j] = arrived[j]
      BY <3>1 DEF FramesFlow
    <3> QED
      BY <2>5, <3>1, <3>2, <3>3, <3>4
  <2>7. CASE ReaderReads(i)
    <3>1. /\ reader[i] = "read" /\ held[i] = None
          /\ arrived' = [arrived EXCEPT ![i] = @ + 1]
          /\ held' = [held EXCEPT ![i] = <<i, arrived[i] + 1>>]
          /\ reader' = [reader EXCEPT ![i] = "send"]
      BY <2>7 DEF ReaderReads, OrderInv, HandInv
    <3>2. held'[i] = <<i, arrived'[i]>> /\ held'[i] # None
      <4>1. arrived[i] + 1 \in 1 .. PerIface
        BY <1>4, <2>7, CaptureAssumption DEF ReaderReads
      <4>2. <<i, arrived[i] + 1>> \in Frames
        BY <4>1, CaptureAssumption
      <4> QED
        BY <3>1, <4>2, CaptureAssumption DEF FramesFlow
    <3>3. HandInv'
      BY <3>1, <3>2 DEF HandInv, OrderInv, FramesFlow
    <3>4. Missing(i)' = Missing(i) + 0
      BY <1>3, <1>4, <2>3, <3>1, <3>2 DEF Missing, Row, FramesFlow
    <3>5. \A j \in Ifaces : j # i => reader'[j] = reader[j] /\ held'[j] = held[j]
                                     /\ arrived'[j] = arrived[j]
      BY <3>1 DEF FramesFlow
    <3> QED
      BY <2>5, <3>1, <3>3, <3>4, <3>5
  <2>8. CASE ReaderGivesUp(i)
    <3>1. /\ reader[i] = "send" /\ held[i] # None /\ arrived' = arrived
          /\ held' = [held EXCEPT ![i] = None]
          /\ reader' = [reader EXCEPT ![i] = "done"]
      BY <2>8 DEF ReaderGivesUp, OrderInv, HandInv
    <3>2. HandInv'
      BY <3>1 DEF HandInv, OrderInv, FramesFlow
    <3>3. Missing(i)' = Missing(i) + 1
      BY <1>3, <1>4, <2>3, <3>1 DEF Missing, Row, FramesFlow
    <3> QED
      BY <2>5, <3>1, <3>2, <3>3 DEF FramesFlow
  <2> QED
    BY <1>5, <2>2, <2>6, <2>7, <2>8
<1> QED
  BY <1>5, <1>6 DEF ReaderStep

\* The writer moves the head of the channel to the end of the journal.
LEMMA WriterOrder ==
  ASSUME JournalInv, FramesFlow, WriteFindsSegment, OrderInv, WriterStep
  PROVE  OrderInv'
<1>1. UNCHANGED <<reader, held, arrived>>
  BY DEF WriterStep, readerVars
<1>2. /\ Journaled \in Seq(Frames) /\ Row \in Seq(Frames)
      /\ Len(Journaled) = Len(acked) /\ Len(acked) \in Nat
  BY RowFrames
<1>3. ASSUME UNCHANGED acked
      PROVE  Journaled' = Journaled /\ FramesInOrder'
  <2>1. Journaled' = Journaled
    BY <1>3 DEF Journaled
  <2> QED
    BY <2>1 DEF OrderInv, FramesInOrder, Ordered, Places
<1>4. CASE WriterTakes
  <2>1. frames # <<>> /\ frames' = Tail(frames) /\ frames \in Seq(Frames)
    BY <1>4 DEF WriterTakes, FramesFlow
  <2>2. Head(frames) \in Frames /\ Tail(frames) \in Seq(Frames)
    BY <2>1, HeadTailProperties
  <2>3. ASSUME NEW rotate \in BOOLEAN, NEW flush \in BOOLEAN,
               WriteOk(Head(frames), rotate, flush)
        PROVE  OrderInv'
    <3>1. acked' = Append(acked, Ref(Head(frames), rotate)) /\ ~writeErr
      BY <1>4, <2>3 DEF WriteOk, WriterTakes, WriteFindsSegment
    <3>2. Ref(Head(frames), rotate).frame = Head(frames)
      BY DEF Ref
    <3>3. acked \in Seq(Ack) /\ acked' \in Seq(Ack)
      <4>1. JournalInv'
        BY StepImplements, StepInv DEF CaptureNext
      <4> QED
        BY <4>1 DEF JournalInv
    <3>4. Journaled' = Append(Journaled, Head(frames))
      <4>1. /\ DOMAIN acked' = 1 .. Len(acked) + 1
            /\ \A k \in 1 .. Len(acked) : acked'[k] = acked[k]
            /\ acked'[Len(acked) + 1] = Ref(Head(frames), rotate)
        BY <1>2, <3>1, <3>3
      <4>2. /\ Append(Journaled, Head(frames)) \in Seq(Frames)
            /\ Len(Append(Journaled, Head(frames))) = Len(acked) + 1
            /\ \A k \in 1 .. Len(acked) : Append(Journaled, Head(frames))[k] = Journaled[k]
            /\ Append(Journaled, Head(frames))[Len(acked) + 1] = Head(frames)
        BY <1>2, <2>2, AppendProperties
      <4>3. Journaled' \in Seq(Frames) /\ Len(Journaled') = Len(acked) + 1
        <5>1. Journaled' = [k \in 1 .. Len(acked) + 1 |-> acked'[k].frame]
          BY <4>1 DEF Journaled
        <5>2. \A k \in 1 .. Len(acked) + 1 : acked'[k].frame \in Frames
          <6>1. \A k \in DOMAIN acked' : acked'[k] \in Ack
            BY <3>3, LenProperties
          <6> QED
            BY <4>1, <6>1 DEF Ack
        <5> QED
          BY <1>2, <5>1, <5>2
      <4>4. ASSUME NEW k \in 1 .. Len(acked) + 1
            PROVE  Journaled'[k] = Append(Journaled, Head(frames))[k]
        <5>1. Journaled'[k] = acked'[k].frame
          BY <4>1 DEF Journaled
        <5>2. CASE k = Len(acked) + 1
          BY <3>2, <4>1, <4>2, <5>1, <5>2
        <5>3. CASE k # Len(acked) + 1
          <6>1. k \in 1 .. Len(acked) /\ DOMAIN acked = 1 .. Len(acked)
            BY <1>2, <3>3, <5>3, LenProperties
          <6> QED
            BY <4>1, <4>2, <5>1, <6>1 DEF Journaled
        <5> QED
          BY <5>2, <5>3
      <4> QED
        BY <4>2, <4>3, <4>4, SeqEqual
    <3>5. Row' = Row
      BY <1>2, <2>1, <3>4, MoveHead DEF Row
    <3>6. FramesInOrder'
      <4>1. Ordered(Journaled' \o frames')
        BY <3>1, <3>5 DEF Row, OrderInv
      <4>2. Journaled' \in Seq(Frames)
        BY <1>2, <2>2, <3>4, AppendProperties
      <4>3. Ordered(Journaled')
        BY <2>1, <2>2, <4>1, <4>2, OrderedPrefix
      <4> QED
        BY <4>3 DEF FramesInOrder, Ordered, Places
    <3> QED
      BY <1>1, <3>1, <3>5, <3>6, SameRow
  <2>4. CASE WriteFails(Head(frames))
    <3>1. UNCHANGED acked /\ writeErr'
      BY <2>4 DEF WriteFails, WriteFailsFinishing, WriteFailsOpening, WriteFailsSpilling,
        WriteFailsSyncing
    <3> QED
      BY <1>1, <1>3, <3>1, SameRow
  <2> QED
    BY <1>4, <2>3, <2>4 DEF WriterTakes
<1>5. CASE WriterForwards \/ WriterEnds
  <2>1. UNCHANGED <<acked, writeErr, frames>>
    BY <1>5 DEF WriterForwards, WriterEnds, journalVars, channelVars
  <2>2. Row' = Row
    BY <1>3, <2>1 DEF Row
  <2> QED
    BY <1>1, <1>3, <2>1, <2>2, SameRow
<1> QED
  BY <1>4, <1>5 DEF WriterStep

\* No step of the session loses a frame or lets one overtake another.
LEMMA StepOrder ==
  JournalInv /\ FramesFlow /\ WriteFindsSegment /\ OrderInv /\ [CaptureNext]_captureVars
    => OrderInv'
<1> SUFFICES ASSUME JournalInv, FramesFlow, WriteFindsSegment, OrderInv,
                    [CaptureNext]_captureVars
             PROVE  OrderInv'
  OBVIOUS
<1>1. ASSUME UNCHANGED <<reader, held, arrived, frames, acked, writeErr>>
      PROVE  OrderInv'
  <2>1. Journaled' = Journaled
    BY <1>1 DEF Journaled
  <2>2. Row' = Row
    BY <1>1, <2>1 DEF Row
  <2>3. FramesInOrder'
    BY <2>1 DEF OrderInv, FramesInOrder, Ordered, Places
  <2> QED
    BY <1>1, <2>2, <2>3, SameRow
<1>2. CASE \E i \in Ifaces : ReaderStep(i)
  BY <1>2, ReaderOrder
<1>3. CASE WriterStep
  BY <1>3, WriterOrder
<1>4. CASE DecoderStep
  BY <1>1, <1>4 DEF DecoderStep, Decodes, DecoderEnds, journalVars, readerVars, channelVars
<1>5. CASE MainStep
  <2>1. UNCHANGED <<reader, held, arrived>>
    BY <1>5 DEF MainStep, readerVars
  <2>2. UNCHANGED frames
    BY <1>5 DEF MainStep, TakeSignal, TickSeesError, TickStarts, TickJournal, TickIndex,
      TickHitsFloor, TickMeta, AwaitReaders, AwaitWriter, AwaitDecoder, CloseIndex,
      CloseJournal, WriteMeta, WriteSums, Break, channelVars
  <2>3. UNCHANGED <<acked, writeErr>>
    BY <1>5 DEF MainStep, TakeSignal, TickSeesError, TickStarts, TickJournal, TickIndex,
      TickHitsFloor, TickMeta, AwaitReaders, AwaitWriter, AwaitDecoder, CloseIndex,
      CloseJournal, WriteMeta, WriteSums, TickSyncs, TickFails, CloseOk, CloseNil,
      CloseFails, journalVars
  <2> QED
    BY <1>1, <2>1, <2>2, <2>3
<1>6. CASE Signal
  BY <1>1, <1>6 DEF Signal, journalVars, readerVars, channelVars
<1>7. CASE Crash
  BY <1>1, <1>7 DEF Crash, Kill, readerVars, channelVars
<1>8. CASE UNCHANGED captureVars
  BY <1>1, <1>8 DEF captureVars, journalVars, readerVars, channelVars
<1> QED
  BY <1>2, <1>3, <1>4, <1>5, <1>6, <1>7, <1>8 DEF CaptureNext, Stopped

\* However the readers interleave and whatever fails, each interface's frames
\* stay in arrival order from the hand of its reader to the journal.
THEOREM CaptureOrder == CaptureSpec => []OrderInv
<1> QED
  BY InitOrder, StepOrder, CaptureFlow, CaptureWriteFindsSegment, CaptureJournal, PTL
  DEF CaptureSpec

\* "The single writer is the one place ordering matters" (captureSession): the
\* journal holds each interface's frames in arrival order, with no gap and no
\* repetition, for every number of interfaces and every interleaving.
THEOREM CaptureFramesInOrder == CaptureSpec => []FramesInOrder
<1>1. OrderInv => FramesInOrder
  BY DEF OrderInv
<1> QED
  BY <1>1, CaptureOrder, PTL

-----------------------------------------------------------------------------
(* From the journal to the index                                           *)

\* What an appended element adds to the members of a row.
LEMMA MembersAppend ==
  ASSUME NEW S, NEW s \in Seq(S), NEW e \in S
  PROVE  /\ ToSet(Append(s, e)) = ToSet(s) \cup {e}
         /\ Len(Append(s, e)) = Len(s) + 1 /\ Len(s) \in Nat
<1>1. DOMAIN s = 1 .. Len(s) /\ Len(s) \in Nat
  BY LenProperties
<1>2. /\ Append(s, e) \in Seq(S) /\ Len(Append(s, e)) = Len(s) + 1
      /\ \A k \in 1 .. Len(s) : Append(s, e)[k] = s[k]
      /\ Append(s, e)[Len(s) + 1] = e
  BY AppendProperties
<1> DEFINE t == Append(s, e)
<1> HIDE DEF t
<1>3. DOMAIN t = 1 .. Len(s) + 1
  BY <1>2, LenProperties DEF t
<1>4. \A k \in DOMAIN t : k \in DOMAIN s \/ k = Len(s) + 1
  BY <1>1, <1>3
<1>5. \A k \in DOMAIN s : k \in DOMAIN t /\ t[k] = s[k]
  BY <1>1, <1>2, <1>3 DEF t
<1>6. Len(s) + 1 \in DOMAIN t /\ t[Len(s) + 1] = e
  BY <1>1, <1>2, <1>3 DEF t
<1>7. ToSet(t) \subseteq ToSet(s) \cup {e}
  BY <1>4, <1>5, <1>6 DEF ToSet
<1>8. ToSet(s) \cup {e} \subseteq ToSet(t)
  BY <1>5, <1>6 DEF ToSet
<1> QED
  BY <1>1, <1>2, <1>7, <1>8 DEF t

\* Every acknowledged frame is in exactly as many places as it was acknowledged
\* times: written to the index or queued for it, counted as dropped, or in the
\* writer's hand.  The index can be cut only once its buffer is broken or the
\* process killed.
AccountInv ==
  /\ index \in Seq(Ack) /\ toDecode \in Seq(Ack) /\ dropped \in Seq(Ack)
  /\ indexSynced \in Nat
  /\ writer = "forward" => acked # <<>>
  /\ ~indexErr /\ ~killed =>
       /\ ToSet(Decoded) \cup ToSet(dropped) \cup ToSet(InHand) = ToSet(acked)
       /\ Len(Decoded) + Len(dropped) + Len(InHand) = Len(acked)

\* A session starts with nothing acknowledged.
LEMMA InitAccount == CaptureInit => AccountInv
<1> SUFFICES ASSUME CaptureInit PROVE AccountInv
  OBVIOUS
<1>1. index = <<>> /\ toDecode = <<>> /\ dropped = <<>> /\ acked = <<>> /\ indexSynced = 0
      /\ writer = "take"
  BY DEF CaptureInit, JournalInit
<1>2. Decoded = <<>> /\ InHand = <<>>
  BY <1>1 DEF Decoded, InHand
<1> QED
  BY <1>1, <1>2 DEF AccountInv, ToSet

\* A step that leaves the writer's hand and what it has handed on alone.
LEMMA SameAccount ==
  ASSUME AccountInv, UNCHANGED <<dropped, acked>>, InHand' = InHand,
         writer' = "forward" => writer = "forward",
         index' \in Seq(Ack), toDecode' \in Seq(Ack), indexSynced' \in Nat,
         ~indexErr' /\ ~killed' => ~indexErr /\ ~killed /\ Decoded' = Decoded
  PROVE  AccountInv'
<1>2. ASSUME ~indexErr', ~killed'
      PROVE  (/\ ToSet(Decoded) \cup ToSet(dropped) \cup ToSet(InHand) = ToSet(acked)
              /\ Len(Decoded) + Len(dropped) + Len(InHand) = Len(acked))'
  <2>1. ~indexErr /\ ~killed /\ Decoded' = Decoded
    BY <1>2
  <2>2. /\ ToSet(Decoded') = ToSet(Decoded) /\ ToSet(dropped') = ToSet(dropped)
        /\ ToSet(InHand') = ToSet(InHand) /\ ToSet(acked') = ToSet(acked)
    BY <2>1
  <2>3. /\ ToSet(Decoded)' = ToSet(Decoded') /\ ToSet(dropped)' = ToSet(dropped')
        /\ ToSet(InHand)' = ToSet(InHand') /\ ToSet(acked)' = ToSet(acked')
    BY DEF ToSet
  <2> QED
    BY <2>1, <2>2, <2>3 DEF AccountInv
<1> QED
  BY <1>2 DEF AccountInv

\* The writer hands each frame on as soon as it is acknowledged.
LEMMA WriterAccount ==
  ASSUME JournalInv, FramesFlow, WriteFindsSegment, AccountInv, WriterStep
  PROVE  AccountInv'
<1>1. acked \in Seq(Ack) /\ acked' \in Seq(Ack)
  BY StepImplements, StepInv DEF CaptureNext, JournalInv
<1>2. UNCHANGED <<index, indexSynced, indexErr, killed>>
  <2>1. CASE WriterTakes
    BY <2>1 DEF WriterStep, WriterTakes, WriteOk, WriteFails, WriteFailsFinishing,
      WriteFailsOpening, WriteFailsSpilling, WriteFailsSyncing, decodeVars, indexVars
  <2> QED
    BY <2>1 DEF WriterStep, WriterForwards, WriterEnds, journalVars, decodeVars, indexVars
<1>4. CASE WriterTakes
  <2>1. writer = "take" /\ InHand = <<>>
    BY <1>4 DEF WriterTakes, InHand
  <2>2. UNCHANGED <<toDecode, dropped>> /\ Decoded' = Decoded
    BY <1>2, <1>4 DEF WriterTakes, Decoded
  <2>3. CASE WriteFails(Head(frames)) /\ writer' = "done"
    <3>1. UNCHANGED acked /\ InHand' = <<>>
      BY <2>3 DEF WriteFails, WriteFailsFinishing, WriteFailsOpening, WriteFailsSpilling,
        WriteFailsSyncing, InHand
    <3>2. index \in Seq(Ack) /\ toDecode \in Seq(Ack) /\ indexSynced \in Nat
      BY DEF AccountInv
    <3> QED
      BY <1>2, <2>1, <2>2, <2>3, <3>1, <3>2, SameAccount
  <2>4. ASSUME NEW rotate \in BOOLEAN, NEW flush \in BOOLEAN,
               WriteOk(Head(frames), rotate, flush), writer' = "forward"
        PROVE  AccountInv'
    <3> DEFINE r == Ref(Head(frames), rotate)
    <3>1. acked' = Append(acked, r)
      BY <2>4 DEF WriteOk
    <3>2. /\ Len(acked') = Len(acked) + 1 /\ Len(acked) \in Nat
          /\ acked'[Len(acked) + 1] = r
      BY <1>1, <3>1, LenProperties
    <3>3. r \in Ack
      BY <1>1, <3>2, LenProperties
    <3> HIDE DEF r
    <3>4. InHand' = <<r>>
      BY <2>4, <3>2 DEF InHand
    <3>5. ToSet(acked') = ToSet(acked) \cup {r}
      BY <1>1, <3>1, <3>3, MembersAppend
    <3>6. ToSet(<<r>>) = {r} /\ Len(<<r>>) = 1 /\ ToSet(<<>>) = {} /\ Len(<<>>) = 0
      BY DEF ToSet
    <3>7. acked' # <<>>
      BY <3>2
    <3>8. Len(Decoded) \in Nat /\ Len(dropped) \in Nat
      BY ConcatProperties, LenProperties DEF AccountInv, Decoded
    <3>9. ASSUME ~indexErr', ~killed'
          PROVE  /\ ToSet(Decoded') \cup ToSet(dropped') \cup ToSet(InHand') = ToSet(acked')
                 /\ Len(Decoded') + Len(dropped') + Len(InHand') = Len(acked')
      <4>1. /\ ToSet(Decoded) \cup ToSet(dropped) \cup {} = ToSet(acked)
            /\ Len(Decoded) + Len(dropped) + 0 = Len(acked)
        BY <1>2, <2>1, <3>6, <3>9 DEF AccountInv
      <4>2. Decoded' = Decoded /\ dropped' = dropped
        BY <2>2
      <4>3. ToSet(Decoded') \cup ToSet(dropped') \cup ToSet(InHand') = ToSet(acked')
        BY <3>4, <3>5, <3>6, <4>1, <4>2
      <4>4. Len(Decoded') + Len(dropped') + Len(InHand') = Len(acked')
        BY <3>2, <3>4, <3>6, <3>8, <4>1, <4>2
      <4> QED
        BY <4>3, <4>4
    <3> QED
      BY <1>2, <2>2, <3>7, <3>9 DEF AccountInv, ToSet
  <2> QED
    BY <1>4, <2>3, <2>4 DEF WriterTakes
<1>5. CASE WriterForwards
  <2> DEFINE r == acked[Len(acked)]
  <2>1. writer = "forward" /\ writer' = "take" /\ UNCHANGED acked
    BY <1>5 DEF WriterForwards, journalVars
  <2>2. r \in Ack
    <3>1. Len(acked) \in 1 .. Len(acked)
      BY <1>1, <2>1, LenProperties, EmptySeq DEF AccountInv
    <3> QED
      BY <1>1, <3>1, ElementOfSeq
  <2>3. InHand = <<r>> /\ InHand' = <<>>
    BY <2>1 DEF InHand
  <2>4. \/ toDecode' = Append(toDecode, r) /\ UNCHANGED dropped
        \/ dropped' = Append(dropped, r) /\ UNCHANGED toDecode
    BY <1>5 DEF WriterForwards
  <2> HIDE DEF r
  <2>5. ToSet(<<r>>) = {r} /\ Len(<<r>>) = 1 /\ ToSet(<<>>) = {} /\ Len(<<>>) = 0
    BY DEF ToSet
  <2>6. /\ Decoded \in Seq(Ack) /\ index \in Seq(Ack) /\ toDecode \in Seq(Ack)
        /\ dropped \in Seq(Ack)
    BY ConcatProperties DEF AccountInv, Decoded
  <2>7. Len(Decoded) \in Nat /\ Len(dropped) \in Nat
    BY <2>6, LenProperties
  <2>8. \/ Decoded' = Append(Decoded, r) /\ UNCHANGED dropped
        \/ dropped' = Append(dropped, r) /\ Decoded' = Decoded
    <3>1. CASE toDecode' = Append(toDecode, r) /\ UNCHANGED dropped
      <4>1. index \o Append(toDecode, r) = Append(index \o toDecode, r)
        BY <2>2, <2>6, AppendEnd
      <4> QED
        BY <1>2, <3>1, <4>1 DEF Decoded
    <3>2. CASE dropped' = Append(dropped, r) /\ UNCHANGED toDecode
      BY <1>2, <3>2 DEF Decoded
    <3> QED
      BY <2>4, <3>1, <3>2
  <2>9. /\ ToSet(Decoded') \cup ToSet(dropped') = ToSet(Decoded) \cup ToSet(dropped) \cup {r}
        /\ Len(Decoded') + Len(dropped') = Len(Decoded) + Len(dropped) + 1
    <3>1. CASE Decoded' = Append(Decoded, r) /\ UNCHANGED dropped
      <4>1. ToSet(Decoded') = ToSet(Decoded) \cup {r} /\ Len(Decoded') = Len(Decoded) + 1
        BY <2>2, <2>6, <3>1, MembersAppend
      <4> QED
        BY <2>7, <3>1, <4>1
    <3>2. CASE dropped' = Append(dropped, r) /\ Decoded' = Decoded
      <4>1. ToSet(dropped') = ToSet(dropped) \cup {r} /\ Len(dropped') = Len(dropped) + 1
        BY <2>2, <2>6, <3>2, MembersAppend
      <4> QED
        BY <2>7, <3>2, <4>1
    <3> QED
      BY <2>8, <3>1, <3>2
  <2>10. toDecode' \in Seq(Ack) /\ dropped' \in Seq(Ack)
    <3>1. Append(toDecode, r) \in Seq(Ack) /\ Append(dropped, r) \in Seq(Ack)
      BY <2>2, <2>6, AppendProperties
    <3> QED
      BY <2>4, <2>6, <3>1
  <2>11. ASSUME ~indexErr', ~killed'
         PROVE  /\ ToSet(Decoded') \cup ToSet(dropped') \cup ToSet(InHand') = ToSet(acked')
                /\ Len(Decoded') + Len(dropped') + Len(InHand') = Len(acked')
    <3>1. /\ ToSet(Decoded) \cup ToSet(dropped) \cup {r} = ToSet(acked)
          /\ Len(Decoded) + Len(dropped) + 1 = Len(acked)
      BY <1>2, <2>3, <2>5, <2>11 DEF AccountInv
    <3>2. /\ ToSet(Decoded') \cup ToSet(dropped') = ToSet(acked)
          /\ Len(Decoded') + Len(dropped') = Len(acked) /\ Len(acked) \in Nat
      BY <1>1, <2>9, <3>1, LenProperties
    <3>3. ToSet(InHand') = {} /\ Len(InHand') = 0
      BY <2>3, <2>5
    <3>4. ToSet(acked') = ToSet(acked) /\ Len(acked') = Len(acked)
      BY <2>1
    <3>5. ToSet(Decoded') \cup ToSet(dropped') \cup ToSet(InHand') = ToSet(acked')
      BY <3>2, <3>3, <3>4
    <3> QED
      BY <3>2, <3>3, <3>4, <3>5
  <2> QED
    BY <1>2, <2>1, <2>10, <2>11 DEF AccountInv, ToSet
<1>6. CASE WriterEnds
  <2>1. InHand = <<>> /\ InHand' = <<>> /\ writer' = "done"
    BY <1>6 DEF WriterEnds, InHand
  <2>2. UNCHANGED <<acked, toDecode, dropped>> /\ Decoded' = Decoded
    BY <1>2, <1>6 DEF WriterEnds, journalVars, channelVars, Decoded
  <2>3. index \in Seq(Ack) /\ toDecode \in Seq(Ack) /\ indexSynced \in Nat
    BY DEF AccountInv
  <2> QED
    BY <1>2, <2>1, <2>2, <2>3, SameAccount
<1> QED
  BY <1>4, <1>5, <1>6 DEF WriterStep

\* A leading part of the index is an index.
LEMMA IndexCut ==
  ASSUME index \in Seq(Ack), indexSynced \in Nat, NEW n \in indexSynced .. Len(index)
  PROVE  SubSeq(index, 1, n) \in Seq(Ack) /\ n \in Nat
<1>1. Len(index) \in Nat /\ n \in Nat /\ n <= Len(index)
  BY LenProperties
<1>2. \A k \in 1 .. n : index[k] \in Ack
  BY <1>1, ElementOfSeq
<1> QED
  BY <1>1, <1>2, SubSeqProperties

\* A step that syncs the index, of whoever takes it, keeps what the index
\* holds; one whose buffer breaks leaves the count to the sticky error.
LEMMA SyncAccount ==
  ASSUME AccountInv, UNCHANGED <<dropped, acked, writer, killed>>, IndexSync,
         index' \in Seq(Ack), toDecode' \in Seq(Ack), ~indexErr => Decoded' = Decoded
  PROVE  AccountInv'
<1>1. indexSynced' \in Nat /\ (~indexErr' => ~indexErr)
  <2>1. Len(index') \in Nat
    BY LenProperties
  <2> QED
    BY <2>1 DEF IndexSync, AccountInv
<1>2. InHand' = InHand
  BY DEF InHand
<1> QED
  BY <1>1, <1>2, SameAccount

\* No step of the session takes a frame out of the count.
LEMMA StepAccount ==
  JournalInv /\ FramesFlow /\ WriteFindsSegment /\ AccountInv /\ [CaptureNext]_captureVars
    => AccountInv'
<1> SUFFICES ASSUME JournalInv, FramesFlow, WriteFindsSegment, AccountInv,
                    [CaptureNext]_captureVars
             PROVE  AccountInv'
  OBVIOUS
<1>1. /\ index \in Seq(Ack) /\ toDecode \in Seq(Ack) /\ dropped \in Seq(Ack)
      /\ indexSynced \in Nat
  BY DEF AccountInv
<1>2. ASSUME UNCHANGED <<index, indexSynced, indexErr, toDecode, dropped, acked, writer>>,
             ~killed' => ~killed
      PROVE  AccountInv'
  <2>1. InHand' = InHand /\ Decoded' = Decoded
    BY <1>2 DEF InHand, Decoded
  <2> QED
    BY <1>1, <1>2, <2>1, SameAccount
<1>3. CASE \E i \in Ifaces : ReaderStep(i)
  <2>1. UNCHANGED toDecode
    BY <1>3 DEF ReaderStep, ReaderSends, channelVars
  <2> QED
    BY <1>2, <1>3, <2>1 DEF ReaderStep, journalVars, decodeVars, indexVars
<1>4. CASE WriterStep
  BY <1>4, WriterAccount
<1>5. CASE DecoderStep
  <2>1. UNCHANGED <<dropped, acked, writer, killed>>
    BY <1>5 DEF DecoderStep, journalVars
  <2>2. CASE Decodes
    <3>1. /\ toDecode # <<>> /\ toDecode' = Tail(toDecode)
          /\ index' = IF indexErr THEN index ELSE Append(index, Head(toDecode))
          /\ IndexSync
      BY <2>2 DEF Decodes
    <3>2. Head(toDecode) \in Ack /\ Tail(toDecode) \in Seq(Ack)
      BY <1>1, <3>1, HeadTailProperties
    <3>3. index' \in Seq(Ack)
      <4>1. Append(index, Head(toDecode)) \in Seq(Ack)
        BY <1>1, <3>2, AppendProperties
      <4> QED
        BY <1>1, <3>1, <4>1
    <3>4. ~indexErr => Decoded' = Decoded
      <4>1. Append(index, Head(toDecode)) \o Tail(toDecode) = index \o toDecode
        BY <1>1, <3>1, MoveHead
      <4> QED
        BY <3>1, <4>1 DEF Decoded
    <3> QED
      BY <2>1, <3>1, <3>2, <3>3, <3>4, SyncAccount
  <2>3. CASE DecoderEnds
    BY <1>2, <2>1, <2>3 DEF DecoderEnds, indexVars, channelVars
  <2> QED
    BY <1>5, <2>2, <2>3 DEF DecoderStep
<1>6. CASE MainStep
  <2>1. UNCHANGED <<dropped, writer>>
    BY <1>6 DEF MainStep
  <2>2. UNCHANGED toDecode
    BY <1>6 DEF MainStep, TakeSignal, TickSeesError, TickStarts, TickJournal, TickIndex,
      TickHitsFloor, TickMeta, AwaitReaders, AwaitWriter, AwaitDecoder, CloseIndex,
      CloseJournal, WriteMeta, WriteSums, Break, channelVars
  <2>3. UNCHANGED <<acked, killed>>
    BY <1>6 DEF MainStep, TakeSignal, TickSeesError, TickStarts, TickJournal, TickIndex,
      TickHitsFloor, TickMeta, AwaitReaders, AwaitWriter, AwaitDecoder, CloseIndex,
      CloseJournal, WriteMeta, WriteSums, TickSyncs, TickFails, CloseOk, CloseNil,
      CloseFails, journalVars
  <2>4. CASE TickIndex
    <3>1. UNCHANGED index /\ IndexSync
      BY <2>4 DEF TickIndex
    <3>2. Decoded' = Decoded
      BY <2>2, <3>1 DEF Decoded
    <3> QED
      BY <1>1, <2>1, <2>2, <2>3, <3>1, <3>2, SyncAccount
  <2>5. CASE CloseIndex
    <3>1. CASE indexErr
      <4>1. /\ \E n \in indexSynced .. Len(index) : index' = SubSeq(index, 1, n)
            /\ UNCHANGED <<indexSynced, indexErr>>
        BY <2>5, <3>1 DEF CloseIndex
      <4>2. index' \in Seq(Ack)
        BY <1>1, <4>1, IndexCut
      <4>3. InHand' = InHand
        BY <2>1, <2>3 DEF InHand
      <4> QED
        BY <1>1, <2>1, <2>2, <2>3, <3>1, <4>1, <4>2, <4>3, SameAccount
    <3>2. CASE ~indexErr
      <4>1. UNCHANGED index /\ IndexSync
        BY <2>5, <3>2 DEF CloseIndex
      <4>2. Decoded' = Decoded
        BY <2>2, <4>1 DEF Decoded
      <4> QED
        BY <1>1, <2>1, <2>2, <2>3, <4>1, <4>2, SyncAccount
    <3> QED
      BY <3>1, <3>2
  <2>6. CASE UNCHANGED indexVars
    BY <1>2, <2>1, <2>2, <2>3, <2>6 DEF indexVars
  <2> QED
    BY <1>6, <2>4, <2>5, <2>6 DEF MainStep, TakeSignal, TickSeesError, TickStarts,
      TickJournal, TickHitsFloor, TickMeta, AwaitReaders, AwaitWriter, AwaitDecoder,
      CloseJournal, WriteMeta, WriteSums, decodeVars
<1>7. CASE Signal
  BY <1>2, <1>7 DEF Signal, journalVars, channelVars, decodeVars, indexVars
<1>8. CASE Crash
  <2>1. UNCHANGED <<toDecode, dropped, acked, writer>> /\ killed'
    BY <1>8 DEF Crash, Kill, channelVars
  <2>2. PICK n \in indexSynced .. Len(index) :
          index' = SubSeq(index, 1, n) /\ indexSynced' = n
    BY <1>8 DEF Crash
  <2>3. index' \in Seq(Ack) /\ indexSynced' \in Nat
    BY <1>1, <2>2, IndexCut
  <2>4. InHand' = InHand
    BY <2>1 DEF InHand
  <2> QED
    BY <1>1, <2>1, <2>3, <2>4, SameAccount
<1>9. CASE UNCHANGED captureVars
  BY <1>2, <1>9 DEF captureVars, journalVars, channelVars, decodeVars, indexVars
<1> QED
  BY <1>3, <1>4, <1>5, <1>6, <1>7, <1>8, <1>9 DEF CaptureNext, Stopped

\* The count of what is indexed, queued, dropped or in hand always adds up.
THEOREM CaptureAccount == CaptureSpec => []AccountInv
<1> QED
  BY InitAccount, StepAccount, CaptureFlow, CaptureWriteFindsSegment, CaptureJournal, PTL
  DEF CaptureSpec

\* "A silently short index would read as 'nothing else happened'"
\* (index.Writer.Dropped): in every session a frame that was read is in a
\* reader's hand, in the channel or in the journal, and a journaled one is in
\* the index, on its way to it, or counted as dropped, once.
THEOREM CaptureEveryFrameAccounted == CaptureSpec => []EveryFrameAccounted
<1>1. OrderInv /\ AccountInv => EveryFrameAccounted
  BY DEF OrderInv, AccountInv, EveryFrameAccounted
<1> QED
  BY <1>1, CaptureOrder, CaptureAccount, PTL

\* What a session leaves is one append-only log, of which a kill costs only a
\* tail that was not synced: the refinement of EvidenceLog carried over to the
\* session, with its interfaces, channels and shutdown (capture.go, segment.go).
THEOREM CaptureIsOneLog == CaptureSpec => ImplementsLog
<1> QED
  BY CaptureImplementsJournal, JournalImplementsLog DEF ImplementsJournal
=============================================================================
