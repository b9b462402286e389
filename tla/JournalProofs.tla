---------------------------- MODULE JournalProofs ----------------------------
(***************************************************************************)
(* What Journal promises, for every number of frames, rotations, faults    *)
(* and every point at which the process is killed; its flush cadence; and  *)
(* that it implements EvidenceLog.                                         *)
(***************************************************************************)
EXTENDS JournalLog, JournalTimed, SequenceTheorems, WellFoundedInduction, TLAPS

-----------------------------------------------------------------------------
(* Segment files, file by file                                             *)

\* What the invariant says of files alone.
GoodFiles(fs) ==
  /\ fs \in Seq(File) /\ Len(fs) > 0
  /\ \A i \in 1 .. Len(fs) : fs[i].synced <= BlockCount(fs[i])
  /\ \A i \in 1 .. Len(fs) : i < Len(fs) => Durable(fs[i])

\* gs holds every frame of fs, at the same place.
Extends(fs, gs) ==
  /\ Len(fs) <= Len(gs)
  /\ \A i \in 1 .. Len(fs) :
       /\ Len(fs[i].frames) <= Len(gs[i].frames)
       /\ \A k \in 1 .. Len(fs[i].frames) : gs[i].frames[k] = fs[i].frames[k]

\* The reference a names its frame in fs.
Resolves(a, fs) ==
  /\ a.seg \in 1 .. Len(fs)
  /\ a.index + 1 \in 1 .. Len(fs[a.seg].frames)
  /\ fs[a.seg].frames[a.index + 1] = a.frame

\* counts has an entry for each finished segment, n of them.
Counts(counts, fs, n) ==
  /\ counts \in Seq(Nat) /\ Len(counts) = n
  /\ \A i \in 1 .. n : counts[i] = Len(fs[i].frames)

\* A file of a good row, and its frames.
LEMMA FramesOfFiles ==
  ASSUME NEW fs, GoodFiles(fs), NEW i \in 1 .. Len(fs)
  PROVE  /\ fs[i] \in File /\ fs[i].frames \in Seq(Frames)
         /\ Len(fs[i].frames) \in Nat
  <1>1. fs \in Seq(File)
    BY DEF GoodFiles
  <1>2. fs[i] \in File
    BY <1>1, ElementOfSeq
  <1>3. fs[i].frames \in Seq(Frames)
    BY <1>2 DEF File
  <1> QED
    BY <1>2, <1>3, LenProperties

\* A sync changes no frame.
LEMMA SyncedFiles ==
  ASSUME NEW fs, GoodFiles(fs)
  PROVE  /\ GoodFiles(Synced(fs))
         /\ Len(Synced(fs)) = Len(fs)
         /\ \A i \in 1 .. Len(fs) : Synced(fs)[i].frames = fs[i].frames
         /\ \A i \in 1 .. Len(fs) : Durable(Synced(fs)[i])
  <1> DEFINE n == Len(fs)
             gs == Synced(fs)
             last == [fs[n] EXCEPT !.synced = BlockCount(fs[n])]
  <1>1. fs \in Seq(File) /\ n \in 1 .. Len(fs) /\ n \in Nat
    BY DEF GoodFiles
  <1>2. fs[n] \in File
    BY <1>1, ElementOfSeq
  <1>3. last \in File /\ last.frames = fs[n].frames /\ last.synced = BlockCount(fs[n])
    BY <1>2 DEF File, BlockCount
  <1>4. gs = [fs EXCEPT ![n] = last]
    BY DEF Synced
  <1>5. /\ gs \in Seq(File) /\ Len(gs) = n
        /\ \A i \in 1 .. n : gs[i] = IF i = n THEN last ELSE fs[i]
    <2> HIDE DEF last, gs
    <2> QED
      BY <1>1, <1>3, <1>4, ExceptSeq
  <1> HIDE DEF last, gs
  <1>6. \A i \in 1 .. n : gs[i].frames = fs[i].frames
    BY <1>3, <1>5
  <1>7. Durable(gs[n])
    BY <1>1, <1>3, <1>5 DEF Durable, BlockCount
  <1>8. \A i \in 1 .. n : Durable(gs[i])
    BY <1>1, <1>5, <1>7 DEF GoodFiles
  <1>9. \A i \in 1 .. n : gs[i].synced <= BlockCount(gs[i])
    BY <1>5, <1>8, ElementOfSeq DEF Durable, BlockCount, File
  <1> QED
    BY <1>1, <1>5, <1>6, <1>8, <1>9 DEF GoodFiles, gs

\* A new segment is empty and the last.
LEMMA OpenedFiles ==
  ASSUME NEW fs, GoodFiles(fs), \A i \in 1 .. Len(fs) : Durable(fs[i])
  PROVE  /\ GoodFiles(Opened(fs))
         /\ Len(Opened(fs)) = Len(fs) + 1
         /\ \A i \in 1 .. Len(fs) : Opened(fs)[i] = fs[i]
         /\ Opened(fs)[Len(fs) + 1].frames = <<>>
  <1> DEFINE n == Len(fs)
             gs == Opened(fs)
  <1>1. NewFile \in File /\ NewFile.frames = <<>> /\ NewFile.synced = 0
    BY DEF NewFile, File
  <1>2. gs \in Seq(File) /\ Len(gs) = n + 1
    BY <1>1 DEF Opened, GoodFiles
  <1>3. \A i \in 1 .. n : gs[i] = fs[i]
    BY DEF Opened, GoodFiles
  <1>4. gs[n + 1] = NewFile
    BY DEF Opened, GoodFiles
  <1>5. NewFile.synced <= BlockCount(NewFile)
    BY <1>1 DEF BlockCount
  <1>6. n \in Nat
    BY DEF GoodFiles
  <1>7. \A i \in 1 .. n + 1 : gs[i].synced <= BlockCount(gs[i])
    <2> TAKE i \in 1 .. n + 1
    <2>1. CASE i = n + 1
      BY <1>4, <1>5, <2>1
    <2>2. CASE i \in 1 .. n
      BY <1>3, <2>2 DEF GoodFiles
    <2> QED
      BY <1>6, <2>1, <2>2
  <1>8. \A i \in 1 .. n + 1 : i < n + 1 => Durable(gs[i])
    BY <1>3, <1>6
  <1> QED
    BY <1>1, <1>2, <1>3, <1>4, <1>6, <1>7, <1>8 DEF GoodFiles

\* A write appends one frame to the last segment.
LEMMA WrittenFiles ==
  ASSUME NEW fs, GoodFiles(fs), NEW f \in Frames
  PROVE  /\ GoodFiles(Written(fs, f))
         /\ Len(Written(fs, f)) = Len(fs)
         /\ \A i \in 1 .. Len(fs) : i < Len(fs) => Written(fs, f)[i] = fs[i]
         /\ Written(fs, f)[Len(fs)].frames = Append(fs[Len(fs)].frames, f)
  <1> DEFINE n == Len(fs)
             gs == Written(fs, f)
             last == [fs[n] EXCEPT !.frames = Append(fs[n].frames, f)]
  <1>1. fs \in Seq(File) /\ n \in 1 .. Len(fs) /\ n \in Nat
    BY DEF GoodFiles
  <1>2. /\ fs[n] \in File /\ fs[n].frames \in Seq(Frames)
        /\ fs[n].synced \in Nat /\ fs[n].synced <= BlockCount(fs[n])
    <2>1. fs[n] \in File
      BY <1>1, ElementOfSeq
    <2>2. fs[n].synced <= BlockCount(fs[n])
      BY <1>1 DEF GoodFiles
    <2> QED
      BY <2>1, <2>2 DEF File
  <1>3. /\ last \in File /\ last.synced = fs[n].synced
        /\ last.frames = Append(fs[n].frames, f)
    <2>1. Append(fs[n].frames, f) \in Seq(Frames)
      BY <1>2, AppendProperties
    <2> QED
      BY <1>2, <2>1 DEF File
  <1>4. gs = [fs EXCEPT ![n] = last]
    BY DEF Written
  <1>5. /\ gs \in Seq(File) /\ Len(gs) = n
        /\ \A i \in 1 .. n : gs[i] = IF i = n THEN last ELSE fs[i]
    <2> HIDE DEF last, gs
    <2> QED
      BY <1>1, <1>3, <1>4, ExceptSeq
  <1>6. last.synced <= BlockCount(last)
    BY <1>2, <1>3, AppendProperties, LenProperties DEF BlockCount
  <1> HIDE DEF last, gs
  <1> QED
    BY <1>1, <1>3, <1>5, <1>6 DEF GoodFiles, gs

\* Nothing that is done to files moves a frame.
LEMMA SyncedExtends ==
  ASSUME NEW fs, GoodFiles(fs)
  PROVE  Extends(fs, Synced(fs))
  <1>1. \A i \in 1 .. Len(fs) : Len(fs[i].frames) \in Nat
    BY FramesOfFiles
  <1> QED
    BY <1>1, SyncedFiles DEF Extends, GoodFiles

\* Opening a segment only extends what is on disk.
LEMMA OpenedExtends ==
  ASSUME NEW fs, GoodFiles(fs), \A i \in 1 .. Len(fs) : Durable(fs[i])
  PROVE  Extends(fs, Opened(fs))
  <1>1. \A i \in 1 .. Len(fs) : Len(fs[i].frames) \in Nat
    BY FramesOfFiles
  <1>2. Len(fs) \in Nat
    BY DEF GoodFiles
  <1> QED
    BY <1>1, <1>2, OpenedFiles DEF Extends

\* Writing only extends what is on disk.
LEMMA WrittenExtends ==
  ASSUME NEW fs, GoodFiles(fs), NEW f \in Frames
  PROVE  Extends(fs, Written(fs, f))
  <1> DEFINE gs == Written(fs, f)
  <1>1. Len(fs) \in Nat /\ Len(fs) \in 1 .. Len(fs)
    BY DEF GoodFiles
  <1>2. \A i \in 1 .. Len(fs) : fs[i].frames \in Seq(Frames)
    BY FramesOfFiles
  <1>3. Len(gs) = Len(fs)
    BY WrittenFiles
  <1> SUFFICES ASSUME NEW i \in 1 .. Len(fs)
               PROVE  /\ Len(fs[i].frames) <= Len(gs[i].frames)
                      /\ \A k \in 1 .. Len(fs[i].frames) : gs[i].frames[k] = fs[i].frames[k]
    BY <1>1, <1>3 DEF Extends
  <1>4. CASE i < Len(fs)
    <2>1. gs[i] = fs[i]
      BY <1>4, WrittenFiles
    <2>2. Len(fs[i].frames) \in Nat
      BY <1>2, LenProperties
    <2> QED
      BY <2>1, <2>2
  <1>5. CASE i = Len(fs)
    <2>1. gs[i].frames = Append(fs[i].frames, f)
      BY <1>5, WrittenFiles
    <2>2. fs[i].frames \in Seq(Frames) /\ Len(fs[i].frames) \in Nat
      BY <1>2, LenProperties
    <2>3. /\ Len(Append(fs[i].frames, f)) = Len(fs[i].frames) + 1
          /\ \A k \in 1 .. Len(fs[i].frames) : Append(fs[i].frames, f)[k] = fs[i].frames[k]
      BY <2>2, AppendProperties
    <2> QED
      BY <2>1, <2>2, <2>3
  <1> QED
    BY <1>1, <1>4, <1>5

\* Extensions of extensions are extensions.
LEMMA ExtendsTrans ==
  ASSUME NEW fs, NEW gs, NEW hs, GoodFiles(fs), GoodFiles(gs), GoodFiles(hs),
         Extends(fs, gs), Extends(gs, hs)
  PROVE  Extends(fs, hs)
  <1>1. Len(fs) \in Nat /\ Len(gs) \in Nat /\ Len(hs) \in Nat
    BY DEF GoodFiles
  <1>2. /\ \A i \in 1 .. Len(fs) : Len(fs[i].frames) \in Nat
        /\ \A i \in 1 .. Len(gs) : Len(gs[i].frames) \in Nat
        /\ \A i \in 1 .. Len(hs) : Len(hs[i].frames) \in Nat
    BY FramesOfFiles
  <1>3. \A i \in 1 .. Len(fs) : i \in 1 .. Len(gs) /\ i \in 1 .. Len(hs)
    BY <1>1 DEF Extends
  <1>4. ASSUME NEW i \in 1 .. Len(fs)
        PROVE  /\ Len(fs[i].frames) <= Len(hs[i].frames)
               /\ \A k \in 1 .. Len(fs[i].frames) : hs[i].frames[k] = fs[i].frames[k]
    <2>1. i \in 1 .. Len(gs) /\ i \in 1 .. Len(hs)
      BY <1>3
    <2>2. /\ Len(fs[i].frames) \in Nat /\ Len(gs[i].frames) \in Nat /\ Len(hs[i].frames) \in Nat
      BY <1>2, <2>1
    <2>3. /\ Len(fs[i].frames) <= Len(gs[i].frames)
          /\ \A k \in 1 .. Len(fs[i].frames) : gs[i].frames[k] = fs[i].frames[k]
      BY DEF Extends
    <2>4. /\ Len(gs[i].frames) <= Len(hs[i].frames)
          /\ \A k \in 1 .. Len(gs[i].frames) : hs[i].frames[k] = gs[i].frames[k]
      BY <2>1 DEF Extends
    <2>5. \A k \in 1 .. Len(fs[i].frames) : k \in 1 .. Len(gs[i].frames)
      BY ONLY <2>2, <2>3
    <2> QED
      BY ONLY <2>2, <2>3, <2>4, <2>5
  <1> QED
    BY <1>1, <1>4 DEF Extends

\* A reference that resolves still does when files are extended.
LEMMA ResolvesExtends ==
  ASSUME NEW fs, NEW gs, GoodFiles(fs), GoodFiles(gs), Extends(fs, gs),
         NEW a, Resolves(a, fs)
  PROVE  Resolves(a, gs)
  <1>1. Len(fs) \in Nat /\ Len(gs) \in Nat /\ a.seg \in 1 .. Len(gs)
    BY DEF GoodFiles, Extends, Resolves
  <1>2. Len(fs[a.seg].frames) \in Nat /\ Len(gs[a.seg].frames) \in Nat
    BY <1>1, FramesOfFiles DEF Resolves
  <1>3. /\ a.seg \in 1 .. Len(fs) /\ a.index + 1 \in 1 .. Len(fs[a.seg].frames)
        /\ fs[a.seg].frames[a.index + 1] = a.frame
    BY DEF Resolves
  <1>4. /\ Len(fs[a.seg].frames) <= Len(gs[a.seg].frames)
        /\ \A k \in 1 .. Len(fs[a.seg].frames) : gs[a.seg].frames[k] = fs[a.seg].frames[k]
    BY <1>3 DEF Extends
  <1>5. a.index + 1 \in 1 .. Len(gs[a.seg].frames)
    BY ONLY <1>2, <1>3, <1>4
  <1> QED
    BY <1>1, <1>3, <1>4, <1>5 DEF Resolves

\* A frame added to a file gets the reference that Write returns for it.
LEMMA WrittenResolves ==
  ASSUME NEW fs, GoodFiles(fs), NEW f \in Frames
  PROVE  Resolves([frame |-> f, seg |-> Len(fs), index |-> Len(fs[Len(fs)].frames)],
                  Written(fs, f))
  <1> DEFINE n == Len(fs)
             a == [frame |-> f, seg |-> n, index |-> Len(fs[n].frames)]
  <1>1. n \in 1 .. Len(fs) /\ n \in Nat
    BY DEF GoodFiles
  <1>2. fs[n].frames \in Seq(Frames) /\ Len(fs[n].frames) \in Nat
    BY <1>1, FramesOfFiles
  <1>3. Written(fs, f)[n].frames = Append(fs[n].frames, f) /\ Len(Written(fs, f)) = n
    BY WrittenFiles
  <1>4. /\ Len(Append(fs[n].frames, f)) = Len(fs[n].frames) + 1
        /\ Append(fs[n].frames, f)[Len(fs[n].frames) + 1] = f
    BY <1>2, AppendProperties
  <1> QED
    BY <1>1, <1>2, <1>3, <1>4 DEF Resolves

\* The counts of the finished segments, and that of the one being finished.
LEMMA CountsAppend ==
  ASSUME NEW counts, NEW fs, GoodFiles(fs), Counts(counts, fs, Len(fs) - 1)
  PROVE  Counts(Append(counts, Len(fs[Len(fs)].frames)), fs, Len(fs))
  <1> DEFINE n == Len(fs)
             c == Len(fs[n].frames)
  <1>1. n \in 1 .. Len(fs) /\ n \in Nat
    BY DEF GoodFiles
  <1>2. c \in Nat
    BY <1>1, FramesOfFiles
  <1>3. counts \in Seq(Nat) /\ Len(counts) = n - 1
    BY DEF Counts
  <1>4. /\ Append(counts, c) \in Seq(Nat) /\ Len(Append(counts, c)) = n
        /\ \A i \in 1 .. n - 1 : Append(counts, c)[i] = counts[i]
        /\ Append(counts, c)[n] = c
    BY <1>1, <1>2, <1>3, AppendProperties
  <1> QED
    BY <1>1, <1>4 DEF Counts

\* Counts of n segments depend on those segments' frames alone.
LEMMA CountsSame ==
  ASSUME NEW counts, NEW fs, NEW gs, NEW n, Counts(counts, fs, n),
         \A i \in 1 .. n : gs[i].frames = fs[i].frames
  PROVE  Counts(counts, gs, n)
  BY DEF Counts

-----------------------------------------------------------------------------
(* The inductive invariant                                                 *)

Ack == [frame : Frames, seg : Nat \ {0}, index : Nat]

FinishedCount == IF isOpen THEN Len(files) - 1 ELSE Len(files)

\* ClosedIsDurable and SegmentsExact in the form a step preserves, and
\* references in the form that makes them ordered.
JournalInv ==
  /\ GoodFiles(files)
  /\ isOpen \in BOOLEAN /\ stuck \in BOOLEAN /\ writeErr \in BOOLEAN
  /\ killed \in BOOLEAN /\ faults \in Nat
  /\ torn \subseteq {Len(files)} /\ (~killed => torn = {})
  /\ acked \in Seq(Ack)
  /\ \A i \in 1 .. Len(acked) : Resolves(acked[i], files)
  /\ Counts(recorded, files, FinishedCount)
  /\ ~isOpen => Durable(files[Len(files)])

\* A journal that was just opened satisfies the invariant.
LEMMA InitInv == JournalInit => JournalInv
  <1> SUFFICES ASSUME JournalInit PROVE JournalInv
    OBVIOUS
  <1>1. NewFile \in File /\ NewFile.frames = <<>> /\ NewFile.synced = 0 /\ BlockCount(NewFile) = 1
    BY DEF NewFile, File, BlockCount
  <1>2. files = <<NewFile>>
    BY DEF JournalInit, Opened
  <1>3. files \in Seq(File) /\ Len(files) = 1 /\ files[1] = NewFile
    BY <1>1, <1>2
  <1>4. GoodFiles(files)
    BY <1>1, <1>3 DEF GoodFiles
  <1>5. Counts(recorded, files, FinishedCount)
    <2>1. FinishedCount = 0 /\ recorded = <<>>
      BY <1>3 DEF JournalInit, FinishedCount
    <2>2. <<>> \in Seq(Nat) /\ Len(<<>>) = 0
      BY EmptySeq
    <2> QED
      BY <2>1, <2>2 DEF Counts
  <1>6. acked \in Seq(Ack) /\ Len(acked) = 0
    BY EmptySeq DEF JournalInit
  <1>7. \A i \in 1 .. Len(acked) : Resolves(acked[i], files)
    BY <1>6
  <1>8. /\ isOpen = TRUE /\ stuck = FALSE /\ writeErr = FALSE /\ killed = FALSE
        /\ faults = 0 /\ torn = {}
    BY DEF JournalInit
  <1> QED
    BY <1>4, <1>5, <1>6, <1>7, <1>8 DEF JournalInv

\* The files a frame goes to, after any rotation.
LEMMA TargetFiles ==
  ASSUME JournalInv, isOpen, NEW rotate \in BOOLEAN
  PROVE  /\ GoodFiles(Target(rotate)) /\ Extends(files, Target(rotate))
         /\ Counts(Finished(rotate), Target(rotate), Len(Target(rotate)) - 1)
         /\ ~rotate => Len(Target(rotate)) = Len(files)
  <1>1. GoodFiles(files) /\ Counts(recorded, files, Len(files) - 1)
    BY DEF JournalInv, FinishedCount
  <1>2. Len(files) \in Nat /\ \A i \in 1 .. Len(files) : Len(files[i].frames) \in Nat
    BY <1>1, FramesOfFiles DEF GoodFiles
  <1>3. CASE rotate
    <2> DEFINE gs == Synced(files)
               hs == Opened(gs)
    <2>1. /\ GoodFiles(gs) /\ Len(gs) = Len(files)
          /\ \A i \in 1 .. Len(files) : gs[i].frames = files[i].frames
          /\ \A i \in 1 .. Len(gs) : Durable(gs[i])
          /\ Extends(files, gs)
      BY <1>1, SyncedFiles, SyncedExtends
    <2>2. /\ GoodFiles(hs) /\ Len(hs) = Len(gs) + 1
          /\ \A i \in 1 .. Len(gs) : hs[i] = gs[i]
          /\ Extends(gs, hs)
      BY <2>1, OpenedFiles, OpenedExtends
    <2>3. Extends(files, hs)
      BY <1>1, <2>1, <2>2, ExtendsTrans
    <2>4. Counts(Append(recorded, Len(files[Len(files)].frames)), files, Len(files))
      BY <1>1, CountsAppend
    <2>5. \A i \in 1 .. Len(files) : hs[i].frames = files[i].frames
      BY <2>1, <2>2
    <2>6. Counts(Append(recorded, Len(files[Len(files)].frames)), hs, Len(files))
      BY <2>4, <2>5, CountsSame
    <2>7. Target(rotate) = hs /\ Finished(rotate) = Append(recorded, Len(files[Len(files)].frames))
      BY <1>3 DEF Target, Rotated, Finished, Current
    <2>8. Len(hs) - 1 = Len(files)
      BY <1>2, <2>1, <2>2
    <2> QED
      BY <1>3, <2>2, <2>3, <2>6, <2>7, <2>8
  <1>4. CASE ~rotate
    <2>1. Target(rotate) = files /\ Finished(rotate) = recorded
      BY <1>4 DEF Target, Finished
    <2>2. Extends(files, files)
      BY <1>2 DEF Extends
    <2> QED
      BY <1>1, <1>4, <2>1, <2>2
  <1> QED
    BY <1>3, <1>4

\* Synced files with the open segment finished or still open.
LEMMA SyncedInv ==
  ASSUME JournalInv, isOpen
  PROVE  LET gs == Synced(files) IN
         /\ GoodFiles(gs) /\ Len(gs) = Len(files) /\ Extends(files, gs)
         /\ Counts(recorded, gs, Len(gs) - 1)
         /\ Counts(Finished(TRUE), gs, Len(gs))
         /\ Durable(gs[Len(gs)])
  <1> DEFINE gs == Synced(files)
  <1>1. GoodFiles(files) /\ Counts(recorded, files, Len(files) - 1)
    BY DEF JournalInv, FinishedCount
  <1>2. /\ GoodFiles(gs) /\ Len(gs) = Len(files) /\ Extends(files, gs)
        /\ \A i \in 1 .. Len(files) : gs[i].frames = files[i].frames
        /\ \A i \in 1 .. Len(files) : Durable(gs[i])
    BY <1>1, SyncedFiles, SyncedExtends
  <1>3. Len(files) \in Nat /\ Len(files) \in 1 .. Len(files)
    BY <1>1 DEF GoodFiles
  <1>4. Finished(TRUE) = Append(recorded, Len(files[Len(files)].frames))
    BY DEF Finished, Current
  <1>5. Counts(Finished(TRUE), files, Len(files))
    BY <1>1, <1>4, CountsAppend
  <1> HIDE DEF gs
  <1>6. Counts(Finished(TRUE), gs, Len(files))
    BY <1>2, <1>5, CountsSame
  <1>7. Counts(recorded, gs, Len(files) - 1)
    BY <1>1, <1>2, <1>3, CountsSame
  <1> QED
    BY <1>2, <1>3, <1>6, <1>7 DEF gs

\* Acknowledgements already made survive any step that moves no frame.
LEMMA AckedExtends ==
  ASSUME JournalInv, NEW gs, GoodFiles(gs), Extends(files, gs)
  PROVE  \A i \in 1 .. Len(acked) : Resolves(acked[i], gs)
  BY ResolvesExtends DEF JournalInv

\* A write that succeeds keeps the invariant.
LEMMA WriteOkInv ==
  ASSUME JournalInv, NEW f \in Frames, NEW rotate \in BOOLEAN, NEW flush \in BOOLEAN,
         WriteOk(f, rotate, flush)
  PROVE  JournalInv'
  <1> DEFINE ts == Target(rotate)
             ws == Written(ts, f)
             gs == Synced(ws)
             a  == Ref(f, rotate)
  <1>1. isOpen /\ isOpen' = isOpen
    BY DEF WriteOk, MayWrite
  <1>2. /\ GoodFiles(ts) /\ Extends(files, ts)
        /\ Counts(Finished(rotate), ts, Len(ts) - 1)
        /\ ~rotate => Len(ts) = Len(files)
    BY <1>1, TargetFiles
  <1>3. /\ GoodFiles(ws) /\ Len(ws) = Len(ts) /\ Extends(ts, ws)
        /\ \A i \in 1 .. Len(ts) : i < Len(ts) => ws[i] = ts[i]
        /\ Resolves(a, ws)
    BY <1>2, WrittenFiles, WrittenExtends, WrittenResolves DEF Ref
  <1>4. /\ GoodFiles(gs) /\ Len(gs) = Len(ws) /\ Extends(ws, gs)
        /\ \A i \in 1 .. Len(ws) : gs[i].frames = ws[i].frames
    BY <1>3, SyncedFiles, SyncedExtends
  <1>5. files' = IF flush THEN gs ELSE ws
    BY DEF WriteOk
  <1>6. Len(ts) \in Nat
    BY <1>2 DEF GoodFiles
  <1>7. a \in Ack
    <2>1. Len(ts) \in Nat \ {0} /\ Len(ts) \in 1 .. Len(ts)
      BY <1>2 DEF GoodFiles
    <2>2. Len(ts[Len(ts)].frames) \in Nat
      BY <1>2, <2>1, FramesOfFiles
    <2> QED
      BY <2>1, <2>2 DEF Ref, Ack
  <1> HIDE DEF ts, ws, gs, a
  <1>8. GoodFiles(files')
    BY <1>3, <1>4, <1>5
  <1>9. Extends(ts, files') /\ Extends(ws, files')
    <2>1. Extends(ws, ws)
      <3>1. Len(ws) \in Nat /\ \A i \in 1 .. Len(ws) : Len(ws[i].frames) \in Nat
        BY <1>3, FramesOfFiles DEF GoodFiles
      <3> QED
        BY <3>1 DEF Extends
    <2> QED
      BY <1>2, <1>3, <1>4, <1>5, <2>1, ExtendsTrans
  <1>10. Extends(files, files')
    BY <1>2, <1>8, <1>9, ExtendsTrans DEF JournalInv
  <1>11. \A i \in 1 .. Len(acked) : Resolves(acked[i], files')
    BY <1>8, <1>10, AckedExtends
  <1>12. Resolves(a, files')
    BY <1>3, <1>8, <1>9, ResolvesExtends
  <1>13. acked' = Append(acked, a) /\ acked \in Seq(Ack)
    BY DEF WriteOk, JournalInv, a
  <1>14. /\ acked' \in Seq(Ack) /\ Len(acked') = Len(acked) + 1 /\ Len(acked) \in Nat
         /\ \A i \in 1 .. Len(acked) : acked'[i] = acked[i]
         /\ acked'[Len(acked) + 1] = a
    BY <1>7, <1>13, AppendProperties, LenProperties
  <1>15. \A i \in 1 .. Len(acked') : Resolves(acked'[i], files')
    <2> TAKE i \in 1 .. Len(acked')
    <2>1. CASE i \in 1 .. Len(acked)
      BY <1>11, <1>14, <2>1
    <2>2. CASE i = Len(acked) + 1
      BY <1>12, <1>14, <2>2
    <2> QED
      BY <1>14, <2>1, <2>2
  <1>16. Len(files') = Len(ts)
    BY <1>3, <1>4, <1>5
  <1>17. Counts(recorded', files', Len(files') - 1)
    <2>1. recorded' = Finished(rotate)
      BY DEF WriteOk
    <2>2. \A i \in 1 .. Len(ts) - 1 : files'[i].frames = ts[i].frames
      BY <1>3, <1>4, <1>5, <1>6
    <2> QED
      BY <1>2, <1>16, <2>1, <2>2, CountsSame
  <1>18. Counts(recorded', files', FinishedCount')
    BY <1>1, <1>17 DEF FinishedCount
  <1>19. torn' = {} /\ killed' = FALSE
    BY DEF WriteOk, MayWrite, JournalInv
  <1> QED
    BY <1>1, <1>8, <1>14, <1>15, <1>18, <1>19 DEF JournalInv, WriteOk

\* A fault that moves no block: only the flags change.
LEMMA UnmovedInv ==
  ASSUME JournalInv, UNCHANGED <<files, isOpen, recorded, acked, killed, torn>>,
         stuck' \in BOOLEAN, writeErr' \in BOOLEAN, faults' \in Nat
  PROVE  JournalInv'
  <1>1. FinishedCount' = FinishedCount
    BY DEF FinishedCount
  <1> QED
    BY <1>1 DEF JournalInv, Counts, Resolves, GoodFiles

\* What injecting a fault changes.
LEMMA FaultTypes ==
  ASSUME JournalInv, NEW kind, Fault(kind)
  PROVE  stuck' \in BOOLEAN /\ faults' \in Nat
  BY DEF JournalInv, Fault

\* Steps that sync the open segment and may finish it.
LEMMA SyncingInv ==
  ASSUME JournalInv, isOpen, ~killed, files' = Synced(files),
         UNCHANGED <<acked, killed, torn>>,
         stuck' \in BOOLEAN, writeErr' \in BOOLEAN, faults' \in Nat,
         \/ isOpen' = TRUE /\ recorded' = recorded
         \/ isOpen' = FALSE /\ recorded' = Finished(TRUE)
  PROVE  JournalInv'
  <1>1. /\ GoodFiles(files') /\ Len(files') = Len(files) /\ Extends(files, files')
        /\ Counts(recorded, files', Len(files') - 1)
        /\ Counts(Finished(TRUE), files', Len(files'))
        /\ Durable(files'[Len(files')])
    BY SyncedInv
  <1>2. \A i \in 1 .. Len(acked) : Resolves(acked[i], files')
    BY <1>1, AckedExtends
  <1>3. Counts(recorded', files', FinishedCount')
    BY <1>1 DEF FinishedCount
  <1>4. isOpen' \in BOOLEAN
    OBVIOUS
  <1> QED
    BY <1>1, <1>2, <1>3, <1>4 DEF JournalInv

\* A write whose sync fails keeps the invariant.
LEMMA WriteFailsSyncingInv ==
  ASSUME JournalInv, NEW f \in Frames, NEW rotate \in BOOLEAN, WriteFailsSyncing(f, rotate)
  PROVE  JournalInv'
  <1> DEFINE ts == Target(rotate)
  <1>1. isOpen /\ isOpen' = isOpen /\ files' = Written(ts, f)
    BY DEF WriteFailsSyncing, MayWrite
  <1>2. /\ GoodFiles(ts) /\ Extends(files, ts)
        /\ Counts(Finished(rotate), ts, Len(ts) - 1)
    BY <1>1, TargetFiles
  <1>3. /\ GoodFiles(files') /\ Len(files') = Len(ts) /\ Extends(ts, files')
        /\ \A i \in 1 .. Len(ts) : i < Len(ts) => files'[i] = ts[i]
    BY <1>1, <1>2, WrittenFiles, WrittenExtends
  <1>4. Extends(files, files')
    BY <1>2, <1>3, ExtendsTrans DEF JournalInv
  <1>5. \A i \in 1 .. Len(acked) : Resolves(acked[i], files')
    BY <1>3, <1>4, AckedExtends
  <1>6. Counts(recorded', files', Len(files') - 1)
    <2>1. recorded' = Finished(rotate)
      BY DEF WriteFailsSyncing
    <2>2. Len(ts) \in Nat
      BY <1>2 DEF GoodFiles
    <2>3. \A i \in 1 .. Len(ts) - 1 : files'[i].frames = ts[i].frames
      BY <1>3, <2>2
    <2> QED
      BY <1>2, <1>3, <2>1, <2>3, CountsSame
  <1>7. Counts(recorded', files', FinishedCount')
    BY <1>1, <1>6 DEF FinishedCount
  <1>8. /\ torn' = {} /\ killed' = FALSE /\ acked' = acked /\ acked \in Seq(Ack)
        /\ writeErr' = TRUE
    BY DEF WriteFailsSyncing, MayWrite, JournalInv
  <1>9. stuck' \in BOOLEAN /\ faults' \in Nat
    BY FaultTypes DEF WriteFailsSyncing
  <1> QED
    BY <1>1, <1>3, <1>5, <1>7, <1>8, <1>9 DEF JournalInv

\* A write that fails keeps the invariant, wherever it fails.
LEMMA WriteFailsInv ==
  ASSUME JournalInv, NEW f \in Frames, WriteFails(f)
  PROVE  JournalInv'
  <1>1. CASE WriteFailsFinishing
    BY <1>1, FaultTypes, UnmovedInv DEF WriteFailsFinishing
  <1>2. CASE WriteFailsOpening
    BY <1>2, FaultTypes, SyncingInv DEF WriteFailsOpening, MayWrite
  <1>3. CASE WriteFailsSpilling
    BY <1>3, FaultTypes, UnmovedInv DEF WriteFailsSpilling
  <1>4. CASE \E rotate \in BOOLEAN : WriteFailsSyncing(f, rotate)
    BY <1>4, WriteFailsSyncingInv
  <1> QED
    BY <1>1, <1>2, <1>3, <1>4 DEF WriteFails

\* A tick that syncs keeps the invariant.
LEMMA TickSyncsInv == ASSUME JournalInv, TickSyncs PROVE JournalInv'
  BY SyncingInv DEF TickSyncs, JournalInv

\* A tick whose sync fails keeps the invariant.
LEMMA TickFailsInv == ASSUME JournalInv, TickFails PROVE JournalInv'
  BY FaultTypes, UnmovedInv DEF TickFails, JournalInv

\* A close keeps the invariant.
LEMMA CloseOkInv == ASSUME JournalInv, CloseOk PROVE JournalInv'
  BY SyncingInv DEF CloseOk, JournalInv

\* A close that fails keeps the invariant.
LEMMA CloseFailsInv == ASSUME JournalInv, CloseFails PROVE JournalInv'
  BY FaultTypes, UnmovedInv DEF CloseFails, JournalInv

\* What a kill leaves: every frame's place, and no torn block before the last
\* segment, because nothing before it was still unsynced.
LEMMA KillInv == ASSUME JournalInv, Kill PROVE JournalInv'
  <1>1. PICK cut \in [DOMAIN files -> 0 .. MaxBlocks] :
          /\ \A i \in DOMAIN files : cut[i] \in files[i].synced .. BlockCount(files[i])
          /\ files' = [i \in DOMAIN files |-> [files[i] EXCEPT !.synced = cut[i]]]
          /\ torn' \in SUBSET {i \in DOMAIN files : cut[i] < BlockCount(files[i])}
    BY DEF Kill
  <1>2. /\ files \in Seq(File) /\ Len(files) \in Nat /\ Len(files) > 0
        /\ DOMAIN files = 1 .. Len(files)
    BY LenProperties DEF JournalInv, GoodFiles
  <1>3. \A i \in 1 .. Len(files) : /\ files[i] \in File /\ files[i].frames \in Seq(Frames)
                                   /\ Len(files[i].frames) \in Nat /\ files[i].synced \in Nat
    BY <1>2, ElementOfSeq, FramesOfFiles DEF JournalInv, File
  <1>4. /\ files' \in Seq(File) /\ Len(files') = Len(files)
        /\ \A i \in 1 .. Len(files) : /\ files'[i].frames = files[i].frames
                                      /\ files'[i].synced = cut[i]
    <2>1. \A i \in 1 .. Len(files) : cut[i] \in Nat
      BY <1>1, <1>2, <1>3 DEF BlockCount
    <2>2. \A i \in 1 .. Len(files) : [files[i] EXCEPT !.synced = cut[i]] \in File
      BY <1>3, <2>1 DEF File
    <2>3. /\ files' \in [1 .. Len(files) -> File]
          /\ \A i \in 1 .. Len(files) : files'[i] = [files[i] EXCEPT !.synced = cut[i]]
      BY <1>1, <1>2, <2>2
    <2>4. files' \in Seq(File) /\ Len(files') = Len(files)
      BY <1>2, <2>3
    <2> QED
      BY <1>3, <2>3, <2>4 DEF File
  <1>5. \A i \in 1 .. Len(files) : BlockCount(files'[i]) = BlockCount(files[i])
    BY <1>4 DEF BlockCount
  <1>6. \A i \in 1 .. Len(files) : Durable(files[i]) => cut[i] = BlockCount(files[i])
    BY <1>1, <1>2, <1>3 DEF Durable, BlockCount
  <1>7. GoodFiles(files')
    <2>1. \A i \in 1 .. Len(files) : files'[i].synced <= BlockCount(files'[i])
      BY <1>1, <1>2, <1>3, <1>4, <1>5 DEF BlockCount
    <2>2. \A i \in 1 .. Len(files) : i < Len(files) => Durable(files'[i])
      BY <1>4, <1>5, <1>6 DEF JournalInv, GoodFiles, Durable
    <2> QED
      BY <1>2, <1>4, <2>1, <2>2 DEF GoodFiles
  <1>8. torn' \subseteq {Len(files')}
    <2> SUFFICES ASSUME NEW i \in torn' PROVE i = Len(files)
      BY <1>4
    <2>1. i \in 1 .. Len(files) /\ cut[i] < BlockCount(files[i])
      BY <1>1, <1>2
    <2>2. ~Durable(files[i])
      BY <1>3, <1>6, <2>1 DEF BlockCount
    <2> QED
      BY <1>2, <2>1, <2>2 DEF JournalInv, GoodFiles
  <1>9. Extends(files, files')
    BY <1>3, <1>4, <1>2 DEF Extends
  <1>10. \A i \in 1 .. Len(acked) : Resolves(acked[i], files')
    BY <1>7, <1>9, AckedExtends
  <1>11. Counts(recorded', files', FinishedCount')
    <2>1. recorded' = recorded /\ FinishedCount' = FinishedCount /\ FinishedCount \in {Len(files), Len(files) - 1}
      BY <1>4 DEF Kill, FinishedCount
    <2> QED
      BY <1>2, <1>4, <2>1, CountsSame DEF JournalInv
  <1>12. ~isOpen' => Durable(files'[Len(files')])
    BY <1>2, <1>4, <1>5, <1>6 DEF JournalInv, Kill, Durable
  <1>13. UNCHANGED <<isOpen, stuck, acked, writeErr, faults>> /\ killed' = TRUE
    BY DEF Kill
  <1> QED
    BY <1>7, <1>8, <1>10, <1>11, <1>12, <1>13 DEF JournalInv

\* Every step keeps the invariant.
LEMMA StepInv == ASSUME JournalInv, [JournalNext]_journalVars PROVE JournalInv'
  <1>1. CASE UNCHANGED journalVars
    BY <1>1, UnmovedInv DEF journalVars, JournalInv
  <1>2. CASE JournalNext
    BY <1>2, WriteOkInv, WriteFailsInv, TickSyncsInv, TickFailsInv, CloseOkInv,
       CloseFailsInv, KillInv DEF JournalNext
  <1> QED
    BY <1>1, <1>2

-----------------------------------------------------------------------------
(* Theorems                                                                *)

\* The invariant holds in every state of the journal.
THEOREM JournalInvariant == JournalSpec => []JournalInv
  BY InitInv, StepInv, PTL DEF JournalSpec

\* Every variable of the journal keeps its type.
THEOREM JournalTyped == JournalSpec => []JournalTypeOK
  <1>1. JournalInv => JournalTypeOK
    <2> SUFFICES ASSUME JournalInv PROVE JournalTypeOK
      OBVIOUS
    <2>1. files \in Seq(File) /\ Len(files) > 0 /\ Len(files) \in Nat /\ DOMAIN files = 1 .. Len(files)
      BY LenProperties DEF JournalInv, GoodFiles
    <2>2. torn \in SUBSET Nat /\ recorded \in Seq(Nat)
      BY <2>1 DEF JournalInv, Counts
    <2>3. acked \in Seq([frame : Frames, seg : Nat \ {0}, index : Nat])
      BY DEF JournalInv, Ack
    <2> QED
      BY <2>1, <2>2, <2>3 DEF JournalInv, JournalTypeOK, GoodFiles
  <1> QED
    BY <1>1, JournalInvariant, PTL

\* Rotation never leaves a segment but the last incomplete, whatever I/O
\* fails and wherever the process is killed.
THEOREM JournalOnlyLastTorn == JournalSpec => []OnlyLastTorn
  <1>1. JournalInv => OnlyLastTorn
    BY LenProperties DEF JournalInv, GoodFiles, OnlyLastTorn
  <1> QED
    BY <1>1, JournalInvariant, PTL

\* Every reference Write has returned keeps naming the frame it was returned
\* for.
THEOREM JournalRefsResolve == JournalSpec => []RefsResolve
  <1>1. JournalInv => RefsResolve
    <2> SUFFICES ASSUME JournalInv, NEW i \in DOMAIN acked
                 PROVE  /\ acked[i].seg \in DOMAIN files
                        /\ acked[i].index + 1 \in DOMAIN files[acked[i].seg].frames
                        /\ files[acked[i].seg].frames[acked[i].index + 1] = acked[i].frame
      BY DEF RefsResolve
    <2>1. acked \in Seq(Ack) /\ GoodFiles(files) /\ files \in Seq(File)
      BY DEF JournalInv, GoodFiles
    <2>2. i \in 1 .. Len(acked)
      BY <2>1, LenProperties
    <2>3. Resolves(acked[i], files)
      BY <2>2 DEF JournalInv
    <2>4. acked[i].seg \in DOMAIN files
      BY <2>1, <2>3, LenProperties DEF Resolves
    <2>5. files[acked[i].seg].frames \in Seq(Frames)
      BY <2>1, <2>3, FramesOfFiles DEF Resolves
    <2> QED
      BY <2>3, <2>4, <2>5, LenProperties DEF Resolves
  <1> QED
    BY <1>1, JournalInvariant, PTL

\* The segment list has one entry for each file, with its frame count.
THEOREM JournalSegmentsExact == JournalSpec => []SegmentsExact
  <1>1. JournalInv => SegmentsExact
    <2> SUFFICES ASSUME JournalInv PROVE SegmentsExact
      OBVIOUS
    <2>1. /\ GoodFiles(files) /\ files \in Seq(File) /\ Len(files) \in Nat
          /\ DOMAIN files = 1 .. Len(files)
      BY LenProperties DEF JournalInv, GoodFiles
    <2>2. Counts(Segments, files, Len(files))
      <3>1. CASE isOpen
        BY <2>1, <3>1, CountsAppend DEF JournalInv, FinishedCount, Segments, Current
      <3>2. CASE ~isOpen
        BY <3>2 DEF JournalInv, FinishedCount, Segments
      <3> QED
        BY <3>1, <3>2
    <2> QED
      BY <2>1, <2>2 DEF Counts, SegmentsExact
  <1> QED
    BY <1>1, JournalInvariant, PTL

\* Once the last segment is finished nothing that was written is in a buffer.
THEOREM JournalClosedIsDurable == JournalSpec => []ClosedIsDurable
  <1>1. JournalInv => ClosedIsDurable
    BY LenProperties DEF JournalInv, GoodFiles, ClosedIsDurable
  <1> QED
    BY <1>1, JournalInvariant, PTL

\* References grow in the order Write returned them.
THEOREM JournalRefsOrdered == JournalSpec => []RefsOrdered
  <1>1. JournalInit => RefsOrdered
    BY DEF JournalInit, RefsOrdered
  <1>2. ASSUME JournalInv, RefsOrdered, [JournalNext]_journalVars
        PROVE  RefsOrdered'
    <2>1. CASE UNCHANGED acked
      BY <1>2, <2>1 DEF RefsOrdered
    <2>2. ASSUME NEW f \in Frames, NEW rotate \in BOOLEAN, NEW flush \in BOOLEAN,
                 WriteOk(f, rotate, flush)
          PROVE  RefsOrdered'
      <3> DEFINE ts == Target(rotate)
                 a  == Ref(f, rotate)
                 n  == Len(acked)
      <3>1. /\ acked' = Append(acked, a) /\ acked \in Seq(Ack) /\ isOpen
        BY <1>2, <2>2 DEF WriteOk, MayWrite, JournalInv
      <3>2. GoodFiles(ts) /\ Extends(files, ts)
        BY <1>2, <3>1, TargetFiles
      <3>3. \A i \in 1 .. n : Resolves(acked[i], ts)
        BY <1>2, <3>2, AckedExtends
      <3>4. Len(ts) \in Nat /\ \A i \in 1 .. Len(ts) : Len(ts[i].frames) \in Nat
        BY <3>2, FramesOfFiles DEF GoodFiles
      <3>5. a.seg = Len(ts) /\ a.index = Len(ts[Len(ts)].frames)
        BY DEF Ref
      <3>6. \A i \in 1 .. n : /\ acked[i].seg \in Nat /\ acked[i].index \in Nat
        <4>1. \A i \in 1 .. n : acked[i] \in Ack
          BY <3>1, ElementOfSeq
        <4> QED
          BY <4>1 DEF Ack
      <3>7. \A i \in 1 .. n : \/ acked[i].seg < a.seg
                              \/ acked[i].seg = a.seg /\ acked[i].index < a.index
        BY <3>3, <3>4, <3>5, <3>6 DEF Resolves
      <3>8. /\ n \in Nat /\ DOMAIN acked = 1 .. n /\ DOMAIN acked' = 1 .. n + 1
            /\ \A i \in 1 .. n : acked'[i] = acked[i]
            /\ acked'[n + 1] = a
        <4> HIDE DEF a
        <4>1. n \in Nat /\ DOMAIN acked = 1 .. n
          BY <3>1, LenProperties
        <4>2. DOMAIN acked' = 1 .. n + 1
          BY <3>1, <4>1
        <4> QED
          BY <3>1, <4>1, <4>2
      <3> HIDE DEF a, n
      <3> SUFFICES ASSUME NEW i \in 1 .. n + 1, NEW j \in 1 .. n + 1, i < j
                   PROVE  \/ acked'[i].seg < acked'[j].seg
                          \/ /\ acked'[i].seg = acked'[j].seg
                             /\ acked'[i].index < acked'[j].index
        BY <3>8 DEF RefsOrdered
      <3>9. CASE j = n + 1
        BY <3>7, <3>8, <3>9
      <3>10. CASE j \in 1 .. n
        BY <1>2, <3>8, <3>10 DEF RefsOrdered
      <3> QED
        BY <3>8, <3>9, <3>10
    <2> QED
      BY <1>2, <2>1, <2>2
      DEF JournalNext, journalVars, WriteFails, WriteFailsFinishing, WriteFailsOpening,
          WriteFailsSpilling, WriteFailsSyncing, TickSyncs, TickFails, CloseOk, CloseFails, Kill
  <1> QED
    BY <1>1, <1>2, JournalInvariant, PTL DEF JournalSpec

-----------------------------------------------------------------------------
(* The flush cadence, for every interval, tick period and queueing delay, as  *)
(* long as the wall clock never steps back.                                   *)

\* Until an I/O error, a frame waits no longer than lastFlush is ago, and what it
\* has waited plus what is left to the next tick stays below the bound: the tick
\* that comes before the interval has elapsed finds a frame younger than the
\* interval.
TimedInv ==
  /\ elapsed \in Int
  /\ toTick \in 0 .. TickPeriod
  /\ age \in Nat \cup {-1}
  /\ faults \in Nat
  /\ elapsed >= 0
  /\ faults = 0 =>
       /\ age <= elapsed
       /\ age # -1 => age + toTick < FlushInterval + TickPeriod

\* A step that fails counts its fault, if the buffer was not stuck before.
LEMMA FaultCounts ==
  ASSUME faults \in Nat, NEW kind, Fault(kind), stuck => faults > 0
  PROVE  faults' \in Nat /\ faults' > 0
  BY DEF Fault

\* Every step of the timed journal keeps the bounds on its clocks.
LEMMA TimedStep ==
  ASSUME Steps \subseteq Nat, TimedInv, stuck => faults > 0, [TimedNext]_timedVars
  PROVE  TimedInv' /\ (stuck => faults > 0)'
  <1> USE TimedAssumption

  <1>1. ASSUME NEW f \in Frames, NEW rotate \in BOOLEAN, NEW bytes \in BOOLEAN,
               NEW lag \in 0 .. MaxLag, WriteAt(f, rotate, lag, bytes)
        PROVE  TimedInv' /\ (stuck => faults > 0)'
    <2> DEFINE since == IF rotate THEN lag ELSE elapsed
               flush == bytes \/ since >= FlushInterval
    <2>1. since \in Int /\ since >= 0
      BY <1>1 DEF TimedInv
    <2>2. toTick' = toTick /\ elapsed' = IF flush THEN 0 ELSE since
      BY <1>1 DEF WriteAt
    <2>3. faults' = faults /\ stuck' = stuck
      BY <1>1 DEF WriteAt, WriteOk
    <2>. SUFFICES TimedInv'
      BY <2>3
    <2>4. CASE flush
      <3>1. age' = -1 /\ elapsed' = 0
        BY <1>1, <2>2, <2>4 DEF WriteAt
      <3> HIDE DEF flush, since
      <3> QED
        BY <2>2, <2>3, <3>1 DEF TimedInv
    <2>5. CASE ~flush /\ rotate
      <3>1. age' = 0
        BY <1>1, <2>5 DEF WriteAt
      <3> HIDE DEF flush, since
      <3> QED
        BY <2>1, <2>2, <2>3, <2>5, <3>1 DEF TimedInv
    <2>6. CASE ~flush /\ ~rotate
      <3>1. age' = IF age = -1 THEN 0 ELSE age
        BY <1>1, <2>6 DEF WriteAt
      <3>2. elapsed' = elapsed
        BY <2>2, <2>6
      <3> HIDE DEF flush, since
      <3>3. toTick' = toTick
        BY <2>2
      <3> QED
        BY <2>3, <3>1, <3>2, <3>3 DEF TimedInv
    <2> QED
      BY <2>4, <2>5, <2>6
  <1>2. ASSUME NEW f \in Frames, NEW rotate \in BOOLEAN, NEW bytes \in BOOLEAN,
               NEW lag \in 0 .. MaxLag, WriteFailsAt(f, rotate, lag, bytes)
        PROVE  TimedInv' /\ (stuck => faults > 0)'
    <2>1. faults' \in Nat /\ faults' > 0
      BY <1>2, FaultCounts DEF WriteFailsAt, WriteFailsSyncing, TimedInv
    <2>2. elapsed' \in Int /\ elapsed' >= 0 /\ toTick' = toTick
      BY <1>2 DEF WriteFailsAt, TimedInv
    <2>3. age' \in Nat \cup {-1}
      BY <1>2 DEF WriteFailsAt, TimedInv
    <2>4. faults' # 0 /\ toTick' \in 0 .. TickPeriod
      BY <2>1, <2>2 DEF TimedInv
    <2>5. TimedInv'
      BY <2>1, <2>2, <2>3, <2>4 DEF TimedInv
    <2> QED
      BY <2>1, <2>5
  <1>3. CASE WriteFailsEarly
    <2>1. faults' \in Nat /\ faults' > 0
      BY <1>3, FaultCounts
      DEF WriteFailsEarly, WriteFailsFinishing, WriteFailsSpilling, WriteFailsOpening, TimedInv
    <2>2. UNCHANGED <<elapsed, toTick>> /\ age' \in {age, -1}
      BY <1>3 DEF WriteFailsEarly, timeVars
    <2>3. faults' # 0 /\ toTick' \in 0 .. TickPeriod /\ age' \in Nat \cup {-1}
      BY <2>1, <2>2 DEF TimedInv
    <2>4. TimedInv'
      BY <2>1, <2>2, <2>3 DEF TimedInv
    <2> QED
      BY <2>1, <2>4
  <1>4. CASE TickNow
    <2>1. CASE Due /\ TickSyncs /\ elapsed' = 0 /\ age' = -1
      BY <1>4, <2>1 DEF TickNow, TickSyncs, TimedInv
    <2>2. CASE Due /\ TickFails /\ UNCHANGED <<elapsed, age>>
      <3>1. faults' \in Nat /\ faults' > 0
        BY <2>2, FaultCounts DEF TickFails, TimedInv
      <3> QED
        BY <1>4, <2>2, <3>1 DEF TickNow, TimedInv
    <2>3. CASE ~Due /\ UNCHANGED <<journalVars, elapsed, age>>
      BY <1>4, <2>3 DEF TickNow, Due, journalVars, TimedInv
    <2> QED
      BY <1>4, <2>1, <2>2, <2>3 DEF TickNow
  <1>5. CASE Advance
    BY <1>5 DEF Advance, Later, journalVars, TimedInv
  <1>6. CASE StepClock
    BY <1>6 DEF StepClock, journalVars, TimedInv
  <1>7. CASE Ends
    <2>1. CASE CloseOk /\ age' = -1 /\ UNCHANGED <<elapsed, toTick>>
      BY <2>1 DEF CloseOk, TimedInv
    <2>2. CASE CloseFails /\ UNCHANGED timeVars
      <3>1. faults' \in Nat /\ faults' > 0
        BY <2>2, FaultCounts DEF CloseFails, TimedInv
      <3> QED
        BY <2>2, <3>1 DEF timeVars, TimedInv
    <2>3. CASE Kill /\ UNCHANGED timeVars
      BY <2>3 DEF Kill, timeVars, TimedInv
    <2> QED
      BY <1>7, <2>1, <2>2, <2>3 DEF Ends
  <1>8. CASE UNCHANGED timedVars
    BY <1>8 DEF timedVars, timeVars, journalVars, TimedInv
  <1> QED
    BY <1>1, <1>2, <1>3, <1>4, <1>5, <1>6, <1>7, <1>8 DEF TimedNext

\* What a kill can cost is bounded by one flush interval and one tick, until the
\* first I/O error, whenever writes, rotations and ticks come.
THEOREM CadenceBoundsLoss ==
  ASSUME Steps \subseteq Nat
  PROVE  TimedSpec => []LossBounded
  <1> DEFINE Inv == TimedInv /\ (stuck => faults > 0)
  <1>1. TimedInit => Inv
    BY TimedAssumption DEF TimedInit, JournalInit, TimedInv
  <1>2. Inv /\ [TimedNext]_timedVars => Inv'
    BY TimedStep
  <1>3. Inv => LossBounded
    BY TimedAssumption DEF TimedInv, LossBounded
  <1> QED
    BY <1>1, <1>2, <1>3, PTL DEF TimedSpec

\* The timers take nothing from the journal and add nothing to it: a step of
\* TimedSpec is a step of Journal, or one that leaves its variables alone.
THEOREM TimedImplementsJournal == TimedSpec => JournalSpec
  <1>1. TimedInit => JournalInit
    BY DEF TimedInit
  <1>2. [TimedNext]_timedVars => [JournalNext]_journalVars
    <2> SUFFICES ASSUME [TimedNext]_timedVars PROVE [JournalNext]_journalVars
      OBVIOUS
    <2>1. ASSUME NEW f \in Frames, NEW rotate \in BOOLEAN, NEW bytes \in BOOLEAN,
                 NEW lag \in 0 .. MaxLag, WriteAt(f, rotate, lag, bytes), ~writeErr
          PROVE  JournalNext
      <3> DEFINE flush == bytes \/ (IF rotate THEN lag ELSE elapsed) >= FlushInterval
      <3>1. flush \in BOOLEAN /\ WriteOk(f, rotate, flush)
        BY <2>1 DEF WriteAt
      <3> HIDE DEF flush
      <3> QED
        BY <2>1, <3>1 DEF JournalNext
    <2>2. ASSUME NEW f \in Frames, NEW rotate \in BOOLEAN, NEW bytes \in BOOLEAN,
                 NEW lag \in 0 .. MaxLag, WriteFailsAt(f, rotate, lag, bytes), ~writeErr
          PROVE  JournalNext
      BY <2>2 DEF WriteFailsAt, WriteFails, JournalNext
    <2>3. CASE Frames # {} /\ ~writeErr /\ WriteFailsEarly
      <3>1. PICK f \in Frames : TRUE
        BY <2>3
      <3> QED
        BY <2>3, <3>1 DEF WriteFailsEarly, WriteFails, JournalNext
    <2>4. CASE TickNow
      BY <2>4 DEF TickNow, JournalNext
    <2>5. CASE Advance \/ StepClock
      BY <2>5 DEF Advance, StepClock
    <2>6. CASE Ends
      BY <2>6 DEF Ends, JournalNext
    <2>7. CASE UNCHANGED timedVars
      BY <2>7 DEF timedVars
    <2> QED
      BY <2>1, <2>2, <2>3, <2>4, <2>5, <2>6, <2>7 DEF TimedNext
  <1> QED
    BY <1>1, <1>2, PTL DEF TimedSpec, JournalSpec

-----------------------------------------------------------------------------
(* One log                                                                 *)

Less == {p \in Nat \X Nat : p[1] < p[2]}

\* A nonempty set of naturals has a least element.
LEMMA Least ==
  ASSUME NEW T, T \subseteq Nat, T # {}
  PROVE  \E m \in T : \A n \in T : m <= n
  <1>1. IsWellFoundedOn(Less, Nat)
    <2>1. Less = OpToRel(<, Nat)
      BY Zenon DEF Less, OpToRel
    <2> QED
      BY <2>1, NatLessThanWellFounded, Zenon
  <1>2. PICK m \in T : \A n \in T : <<n, m>> \notin Less
    BY <1>1, WFMin
  <1>3. ASSUME NEW n \in T PROVE m <= n
    <2>1. m \in Nat /\ n \in Nat /\ <<n, m>> \notin Less
      BY <1>2
    <2> QED
      BY <2>1 DEF Less
  <1> QED
    BY <1>3

\* The recursion of FlattenSeq over the first n parts, as a relation.
IsFlat(flat, parts, n) ==
  flat = [i \in 1 .. n |-> IF i = 1 THEN parts[i] ELSE flat[i - 1] \o parts[i]]

\* Any row of sequences has a flattening.
LEMMA FlatExists ==
  ASSUME NEW parts, NEW n \in Nat
  PROVE  \E flat : IsFlat(flat, parts, n)
  <1> DEFINE Without == {k \in Nat : ~ \E flat : IsFlat(flat, parts, k)}
  <1>1. SUFFICES ASSUME Without # {} PROVE FALSE
    OBVIOUS
  <1>2. PICK k \in Without : \A l \in Without : k <= l
    BY <1>1, Least
  <1>3. k \in Nat /\ ~ \E flat : IsFlat(flat, parts, k)
    OBVIOUS
  <1>4. k # 0
    <2> DEFINE none == [i \in 1 .. 0 |-> parts[i]]
    <2>1. IsFlat(none, parts, 0)
      BY DEF IsFlat
    <2> QED
      BY <1>3, <2>1
  <1>5. PICK flat : IsFlat(flat, parts, k - 1)
    <2>1. k - 1 \in Nat /\ ~(k <= k - 1)
      BY <1>3, <1>4
    <2> QED
      BY <1>2, <2>1
  <1> HIDE DEF Without
  <1> DEFINE more == [i \in 1 .. k |-> IF i = 1 THEN parts[i] ELSE flat[i - 1] \o parts[i]]
  <1>6. \A i \in 1 .. k - 1 : more[i] = flat[i]
    <2>1. \A i \in 1 .. k - 1 : flat[i] = IF i = 1 THEN parts[i] ELSE flat[i - 1] \o parts[i]
      BY <1>5 DEF IsFlat
    <2>2. \A i \in 1 .. k - 1 : i \in 1 .. k
      BY <1>3
    <2> QED
      BY <2>1, <2>2
  <1>7. more = [i \in 1 .. k |-> IF i = 1 THEN parts[i] ELSE more[i - 1] \o parts[i]]
    <2>1. \A i \in 1 .. k : i # 1 => i - 1 \in 1 .. k - 1
      BY <1>3
    <2>2. \A i \in 1 .. k : i # 1 => flat[i - 1] = more[i - 1]
      BY <1>6, <2>1
    <2> HIDE <1>6
    <2>3. \A i \in 1 .. k : more[i] = IF i = 1 THEN parts[i] ELSE more[i - 1] \o parts[i]
      BY <2>2
    <2>4. more = [i \in 1 .. k |-> more[i]]
      OBVIOUS
    <2> HIDE DEF more
    <2> QED
      BY <2>3, <2>4
  <1> HIDE DEF more
  <1> QED
    BY <1>3, <1>7 DEF IsFlat

\* Two flattenings agree as long as their parts do.
LEMMA FlatAgree ==
  ASSUME NEW a, NEW b, NEW f, NEW g, NEW m \in Nat, NEW n \in Nat,
         IsFlat(f, a, m), IsFlat(g, b, n), m <= n,
         \A i \in 1 .. m : a[i] = b[i]
  PROVE  \A i \in 1 .. m : f[i] = g[i]
  <1> DEFINE Differ == {i \in 1 .. m : f[i] # g[i]}
  <1>1. SUFFICES ASSUME Differ # {} PROVE FALSE
    OBVIOUS
  <1>2. PICK i \in Differ : \A j \in Differ : i <= j
    <2>1. Differ \subseteq Nat
      OBVIOUS
    <2> HIDE DEF Differ
    <2> QED
      BY <1>1, <2>1, Least
  <1>3. i \in 1 .. m /\ i \in 1 .. n /\ f[i] # g[i]
    OBVIOUS
  <1>4. i # 1 => f[i - 1] = g[i - 1]
    <2>1. i # 1 => i - 1 \in 1 .. m /\ ~(i <= i - 1)
      BY <1>3
    <2> QED
      BY <1>2, <2>1
  <1> HIDE DEF Differ
  <1>5. /\ f[i] = IF i = 1 THEN a[i] ELSE f[i - 1] \o a[i]
        /\ g[i] = IF i = 1 THEN b[i] ELSE g[i - 1] \o b[i]
    BY <1>3 DEF IsFlat
  <1> QED
    BY <1>3, <1>4, <1>5

\* FlattenSeq is the flattening of a row of sequences.
LEMMA FlatOf ==
  ASSUME NEW parts, Len(parts) \in Nat \ {0}
  PROVE  \E flat : IsFlat(flat, parts, Len(parts)) /\ FlattenSeq(parts) = flat[Len(parts)]
  <1> DEFINE flat == CHOOSE f : IsFlat(f, parts, Len(parts))
  <1>1. IsFlat(flat, parts, Len(parts))
    BY FlatExists
  <1>2. FlattenSeq(parts) = flat[Len(parts)]
    BY DEF FlattenSeq, IsFlat
  <1> QED
    BY <1>1, <1>2

\* The last part comes last.
LEMMA FlatLast ==
  ASSUME NEW S, NEW parts \in Seq(S), Len(parts) > 0
  PROVE  FlattenSeq(parts) =
           IF Len(parts) = 1 THEN parts[1]
           ELSE FlattenSeq([i \in 1 .. Len(parts) - 1 |-> parts[i]]) \o parts[Len(parts)]
  <1> DEFINE n == Len(parts)
             front == [i \in 1 .. n - 1 |-> parts[i]]
  <1>1. n \in Nat \ {0}
    OBVIOUS
  <1>2. PICK flat : IsFlat(flat, parts, n) /\ FlattenSeq(parts) = flat[n]
    BY <1>1, FlatOf
  <1>3. CASE n = 1
    BY <1>2, <1>3 DEF IsFlat
  <1>4. CASE n # 1
    <2>1. Len(front) = n - 1 /\ n - 1 \in Nat \ {0}
      BY <1>1, <1>4
    <2>2. \A i \in 1 .. n - 1 : front[i] = parts[i]
      OBVIOUS
    <2> HIDE DEF front
    <2>3. PICK less : IsFlat(less, front, n - 1) /\ FlattenSeq(front) = less[n - 1]
      BY <2>1, FlatOf
    <2>4. less[n - 1] = flat[n - 1]
      BY <1>1, <1>2, <2>1, <2>2, <2>3, FlatAgree
    <2>5. flat[n] = flat[n - 1] \o parts[n]
      <3> HIDE DEF n
      <3>1. \A i \in 1 .. n : flat[i] = IF i = 1 THEN parts[i] ELSE flat[i - 1] \o parts[i]
        BY <1>2 DEF IsFlat
      <3>2. n \in 1 .. n
        BY <1>1
      <3> QED
        BY <1>4, <3>1, <3>2
    <2> QED
      BY <1>2, <1>4, <2>3, <2>4, <2>5 DEF front
  <1> QED
    BY <1>3, <1>4

\* Flattening sequences over S gives one over S.
LEMMA FlatType ==
  ASSUME NEW S, NEW parts \in Seq(Seq(S)), Len(parts) > 0
  PROVE  FlattenSeq(parts) \in Seq(S)
  <1> DEFINE n == Len(parts)
  <1>1. n \in Nat \ {0}
    OBVIOUS
  <1>2. PICK flat : IsFlat(flat, parts, n) /\ FlattenSeq(parts) = flat[n]
    BY <1>1, FlatOf
  <1>3. \A i \in 1 .. n : parts[i] \in Seq(S)
    OBVIOUS
  <1> HIDE DEF n
  <1> DEFINE Odd == {i \in 1 .. n : flat[i] \notin Seq(S)}
  <1>4. SUFFICES ASSUME Odd # {} PROVE FALSE
    BY <1>1, <1>2 DEF n
  <1>5. PICK i \in Odd : \A j \in Odd : i <= j
    <2>1. Odd \subseteq Nat
      OBVIOUS
    <2> HIDE DEF Odd
    <2> QED
      BY <1>4, <2>1, Least
  <1>6. i \in 1 .. n /\ flat[i] \notin Seq(S)
    OBVIOUS
  <1>7. i # 1 => flat[i - 1] \in Seq(S)
    <2>1. i # 1 => i - 1 \in 1 .. n /\ ~(i <= i - 1)
      BY <1>1, <1>6
    <2> QED
      BY <1>5, <2>1
  <1> HIDE DEF Odd
  <1>8. flat[i] = IF i = 1 THEN parts[i] ELSE flat[i - 1] \o parts[i]
    BY <1>2, <1>6 DEF IsFlat
  <1> QED
    BY <1>3, <1>6, <1>7, <1>8, ConcatProperties

\* All frames of some files in the order of a reader, those of them that are
\* known to be on disk, and all but those of the last file.
AllFrames(fs) == FlattenSeq([i \in DOMAIN fs |-> fs[i].frames])

DiskFrames(fs) == FlattenSeq([i \in DOMAIN fs |-> FramesOnDisk(fs[i])])

Body(fs) ==
  IF Len(fs) = 1 THEN <<>> ELSE FlattenSeq([i \in 1 .. Len(fs) - 1 |-> fs[i].frames])

\* Of one file a leading part is on disk, and all of it once it is synced.
LEMMA DiskOfFile ==
  ASSUME NEW file \in File, file.synced <= BlockCount(file)
  PROVE  /\ FramesOnDisk(file) \in Seq(Frames)
         /\ Len(FramesOnDisk(file)) = IF file.synced = 0 THEN 0 ELSE file.synced - 1
         /\ Len(FramesOnDisk(file)) <= Len(file.frames)
         /\ \A k \in 1 .. Len(FramesOnDisk(file)) : FramesOnDisk(file)[k] = file.frames[k]
         /\ Durable(file) => FramesOnDisk(file) = file.frames
  <1>1. file.frames \in Seq(Frames) /\ file.synced \in Nat /\ file.synced <= Len(file.frames) + 1
    BY DEF File, BlockCount
  <1>2. Len(file.frames) \in Nat /\ \A k \in 1 .. file.synced - 1 : file.frames[k] \in Frames
    BY <1>1
  <1>3. 1 \in Int /\ file.synced - 1 \in Int
    BY <1>1
  <1>4. /\ FramesOnDisk(file) \in Seq(Frames)
        /\ Len(FramesOnDisk(file)) =
             IF 1 <= file.synced - 1 THEN file.synced - 1 - 1 + 1 ELSE 0
        /\ \A k \in 1 .. file.synced - 1 - 1 + 1 : FramesOnDisk(file)[k] = file.frames[1 + k - 1]
    BY <1>2, <1>3, SubSeqProperties DEF FramesOnDisk
  <1>5. Len(FramesOnDisk(file)) = IF file.synced = 0 THEN 0 ELSE file.synced - 1
    BY <1>1, <1>4
  <1>6. \A k \in 1 .. Len(FramesOnDisk(file)) : FramesOnDisk(file)[k] = file.frames[k]
    BY <1>1, <1>4, <1>5
  <1>7. Durable(file) => FramesOnDisk(file) = file.frames
    <2> SUFFICES ASSUME Durable(file) PROVE FramesOnDisk(file) = file.frames
      OBVIOUS
    <2>1. Len(FramesOnDisk(file)) = Len(file.frames)
      BY <1>1, <1>2, <1>5 DEF Durable, BlockCount
    <2> QED
      BY <1>1, <1>4, <1>6, <2>1, SeqEqual
  <1> QED
    BY <1>1, <1>2, <1>4, <1>5, <1>6, <1>7

\* Both logs are the frames of the finished files and a part of the last one.
LEMMA LogParts ==
  ASSUME NEW fs, GoodFiles(fs)
  PROVE  /\ Body(fs) \in Seq(Frames)
         /\ AllFrames(fs) = Body(fs) \o fs[Len(fs)].frames
         /\ DiskFrames(fs) = Body(fs) \o FramesOnDisk(fs[Len(fs)])
  <1> DEFINE n == Len(fs)
             all == [i \in 1 .. n |-> fs[i].frames]
             disk == [i \in 1 .. n |-> FramesOnDisk(fs[i])]
             front == [i \in 1 .. n - 1 |-> fs[i].frames]
  <1>1. n \in Nat \ {0} /\ DOMAIN fs = 1 .. n
    BY DEF GoodFiles
  <1>2. \A i \in 1 .. n : /\ fs[i] \in File /\ fs[i].frames \in Seq(Frames)
                         /\ fs[i].synced <= BlockCount(fs[i])
    BY FramesOfFiles DEF GoodFiles
  <1>3. \A i \in 1 .. n : FramesOnDisk(fs[i]) \in Seq(Frames)
    BY <1>2, DiskOfFile
  <1>4. \A i \in 1 .. n - 1 : FramesOnDisk(fs[i]) = fs[i].frames
    <2> TAKE i \in 1 .. n - 1
    <2>1. i \in 1 .. n /\ Durable(fs[i])
      BY <1>1 DEF GoodFiles
    <2> QED
      BY <1>2, <2>1, DiskOfFile
  <1> HIDE DEF n
  <1>5. all \in Seq(Seq(Frames)) /\ Len(all) = n /\ disk \in Seq(Seq(Frames)) /\ Len(disk) = n
    BY <1>1, <1>2, <1>3
  <1>6. \A i \in 1 .. n - 1 : all[i] = fs[i].frames /\ disk[i] = fs[i].frames
    BY <1>1, <1>4
  <1>7. /\ [i \in 1 .. n - 1 |-> all[i]] = front
        /\ [i \in 1 .. n - 1 |-> disk[i]] = front
    BY <1>6
  <1>8. n > 1 => front \in Seq(Seq(Frames)) /\ Len(front) > 0
    BY <1>1, <1>2
  <1>9. n # 1 => FlattenSeq(front) \in Seq(Frames)
    <2> SUFFICES ASSUME n # 1 PROVE FlattenSeq(front) \in Seq(Frames)
      OBVIOUS
    <2>1. front \in Seq(Seq(Frames)) /\ Len(front) > 0
      BY <1>1, <1>8
    <2> HIDE DEF front
    <2> QED
      BY <2>1, FlatType
  <1>10. all[n] = fs[n].frames /\ disk[n] = FramesOnDisk(fs[n])
    BY <1>1
  <1> HIDE DEF all, disk, front
  <1>11. /\ FlattenSeq(all) = IF n = 1 THEN all[1] ELSE FlattenSeq(front) \o all[n]
         /\ FlattenSeq(disk) = IF n = 1 THEN disk[1] ELSE FlattenSeq(front) \o disk[n]
    <2>1. ASSUME NEW parts \in Seq(Seq(Frames)), Len(parts) = n,
                 [i \in 1 .. n - 1 |-> parts[i]] = front
          PROVE  FlattenSeq(parts) = IF n = 1 THEN parts[1] ELSE FlattenSeq(front) \o parts[n]
      <3>1. Len(parts) > 0
        BY <1>1, <2>1
      <3>2. FlattenSeq(parts) =
              IF Len(parts) = 1 THEN parts[1]
              ELSE FlattenSeq([i \in 1 .. Len(parts) - 1 |-> parts[i]]) \o parts[Len(parts)]
        BY <3>1, FlatLast
      <3> QED
        BY <2>1, <3>2
    <2> QED
      BY <1>5, <1>7, <2>1
  <1>12. AllFrames(fs) = FlattenSeq(all) /\ DiskFrames(fs) = FlattenSeq(disk)
    BY <1>1 DEF AllFrames, DiskFrames, all, disk
  <1>13. Body(fs) = IF n = 1 THEN <<>> ELSE FlattenSeq(front)
    BY DEF Body, n, front
  <1>14. fs[n].frames \in Seq(Frames) /\ FramesOnDisk(fs[n]) \in Seq(Frames)
    BY <1>1, <1>2, <1>3
  <1>15. CASE n = 1
    BY <1>10, <1>11, <1>12, <1>13, <1>14, <1>15, ConcatEmptySeq, EmptySeq DEF n
  <1>16. CASE n # 1
    BY <1>9, <1>10, <1>11, <1>12, <1>13, <1>16 DEF n
  <1> QED
    BY <1>15, <1>16

\* What is on disk is no more than what there is.
LEMMA DiskIsLess ==
  ASSUME NEW fs, GoodFiles(fs)
  PROVE  /\ AllFrames(fs) \in Seq(Frames) /\ DiskFrames(fs) \in Seq(Frames)
         /\ Len(AllFrames(fs)) \in Nat /\ Len(DiskFrames(fs)) \in Nat
         /\ Len(DiskFrames(fs)) <= Len(AllFrames(fs))
         /\ DiskFrames(fs) = SubSeq(AllFrames(fs), 1, Len(DiskFrames(fs)))
  <1> DEFINE n == Len(fs)
             b == Body(fs)
             last == fs[n].frames
             cut == FramesOnDisk(fs[n])
  <1>1. n \in 1 .. Len(fs)
    BY DEF GoodFiles
  <1>2. fs[n] \in File /\ last \in Seq(Frames) /\ fs[n].synced <= BlockCount(fs[n])
    BY <1>1, FramesOfFiles DEF GoodFiles
  <1>3. /\ cut \in Seq(Frames) /\ Len(cut) <= Len(last)
        /\ \A k \in 1 .. Len(cut) : cut[k] = last[k]
    BY <1>2, DiskOfFile
  <1>4. b \in Seq(Frames) /\ AllFrames(fs) = b \o last /\ DiskFrames(fs) = b \o cut
    BY LogParts
  <1> HIDE DEF n, b, last, cut
  <1>5. /\ b \o last \in Seq(Frames) /\ Len(b \o last) = Len(b) + Len(last)
        /\ \A i \in 1 .. Len(b) + Len(last) :
             (b \o last)[i] = IF i <= Len(b) THEN b[i] ELSE last[i - Len(b)]
        /\ b \o cut \in Seq(Frames) /\ Len(b \o cut) = Len(b) + Len(cut)
        /\ \A i \in 1 .. Len(b) + Len(cut) :
             (b \o cut)[i] = IF i <= Len(b) THEN b[i] ELSE cut[i - Len(b)]
    BY <1>2, <1>3, <1>4, ConcatProperties
  <1>6. Len(b) \in Nat /\ Len(last) \in Nat /\ Len(cut) \in Nat
    BY <1>2, <1>3, <1>4, LenProperties
  <1> DEFINE all == b \o last
             disk == b \o cut
             m == Len(b) + Len(cut)
  <1>7. m \in Nat /\ Len(disk) = m /\ m <= Len(all) /\ Len(all) = Len(b) + Len(last) /\ Len(all) \in Nat
    BY <1>3, <1>5, <1>6
  <1>8. \A i \in 1 .. m : disk[i] = all[i]
    <2> SUFFICES ASSUME NEW i \in 1 .. m PROVE disk[i] = all[i]
      OBVIOUS
    <2>1. CASE i <= Len(b)
      BY <1>3, <1>5, <1>6, <2>1
    <2>2. CASE ~(i <= Len(b))
      <3>1. i - Len(b) \in 1 .. Len(cut) /\ i \in 1 .. Len(b) + Len(last)
        BY <1>3, <1>6, <2>2
      <3> QED
        BY <1>3, <1>5, <2>2, <3>1
    <2> QED
      BY <2>1, <2>2
  <1>9. disk \in Seq(Frames) /\ all \in Seq(Frames)
    BY <1>5
  <1> HIDE DEF all, disk, m
  <1>10. SubSeq(all, 1, m) = disk
    <2>1. \A i \in 1 .. m : all[i] \in Frames
      BY <1>7, <1>9, ElementOfSeq
    <2>2. /\ SubSeq(all, 1, m) \in Seq(Frames)
          /\ Len(SubSeq(all, 1, m)) = IF 1 <= m THEN m - 1 + 1 ELSE 0
          /\ \A i \in 1 .. m - 1 + 1 : SubSeq(all, 1, m)[i] = all[1 + i - 1]
      BY <1>7, <2>1, SubSeqProperties
    <2>3. Len(SubSeq(all, 1, m)) = m /\ \A i \in 1 .. m : SubSeq(all, 1, m)[i] = disk[i]
      BY <1>7, <1>8, <2>2
    <2> QED
      BY <1>7, <1>9, <2>2, <2>3, SeqEqual
  <1> QED
    BY <1>4, <1>7, <1>9, <1>10 DEF all, disk, m

\* A sync moves nothing and puts everything on disk.
LEMMA SyncedLog ==
  ASSUME NEW fs, GoodFiles(fs)
  PROVE  /\ AllFrames(Synced(fs)) = AllFrames(fs)
         /\ DiskFrames(Synced(fs)) = AllFrames(fs)
  <1> DEFINE n == Len(fs)
             gs == Synced(fs)
  <1>1. /\ GoodFiles(gs) /\ Len(gs) = n
        /\ \A i \in 1 .. n : gs[i].frames = fs[i].frames
        /\ \A i \in 1 .. n : Durable(gs[i])
    BY SyncedFiles
  <1>2. n \in 1 .. n /\ n \in Nat
    BY DEF GoodFiles
  <1>3. gs[n] \in File /\ gs[n].synced <= BlockCount(gs[n])
    BY <1>1, <1>2, FramesOfFiles DEF GoodFiles
  <1>4. FramesOnDisk(gs[n]) = fs[n].frames /\ gs[n].frames = fs[n].frames
    BY <1>1, <1>2, <1>3, DiskOfFile
  <1> HIDE DEF n, gs
  <1>5. [i \in 1 .. n - 1 |-> gs[i].frames] = [i \in 1 .. n - 1 |-> fs[i].frames]
    BY <1>1, <1>2
  <1>6. Body(gs) = Body(fs)
    BY <1>1, <1>5 DEF Body, n
  <1>7. AllFrames(fs) = Body(fs) \o fs[n].frames
    BY LogParts DEF n
  <1>8. AllFrames(gs) = Body(gs) \o gs[n].frames /\ DiskFrames(gs) = Body(gs) \o FramesOnDisk(gs[n])
    BY <1>1, LogParts
  <1> QED
    BY <1>4, <1>6, <1>7, <1>8 DEF gs

\* A new segment adds nothing to files that are all on disk.
LEMMA OpenedLog ==
  ASSUME NEW fs, GoodFiles(fs), \A i \in 1 .. Len(fs) : Durable(fs[i])
  PROVE  /\ AllFrames(Opened(fs)) = AllFrames(fs)
         /\ DiskFrames(Opened(fs)) = AllFrames(fs)
  <1> DEFINE n == Len(fs)
             gs == Opened(fs)
  <1>1. /\ GoodFiles(gs) /\ Len(gs) = n + 1
        /\ \A i \in 1 .. n : gs[i] = fs[i]
        /\ gs[n + 1].frames = <<>>
    BY OpenedFiles
  <1>2. n \in Nat \ {0} /\ DOMAIN fs = 1 .. n
    BY DEF GoodFiles
  <1>3. gs[n + 1] \in File /\ gs[n + 1].synced <= BlockCount(gs[n + 1])
    BY <1>1, <1>2, FramesOfFiles DEF GoodFiles
  <1>4. FramesOnDisk(gs[n + 1]) = <<>>
    <2>1. FramesOnDisk(gs[n + 1]) \in Seq(Frames) /\ Len(FramesOnDisk(gs[n + 1])) <= Len(<<>>)
      BY <1>1, <1>3, DiskOfFile
    <2>2. Len(FramesOnDisk(gs[n + 1])) = 0
      BY <2>1, LenProperties, EmptySeq
    <2> QED
      BY <2>1, <2>2, EmptySeq
  <1> HIDE DEF n, gs
  <1>5. [i \in 1 .. n |-> gs[i].frames] = [i \in 1 .. n |-> fs[i].frames]
    BY <1>1
  <1>6. Len(gs) # 1 /\ Len(gs) - 1 = n
    BY <1>1, <1>2
  <1>7. Body(gs) = AllFrames(fs)
    BY <1>2, <1>5, <1>6 DEF Body, AllFrames
  <1>8. AllFrames(gs) = Body(gs) \o gs[n + 1].frames /\ DiskFrames(gs) = Body(gs) \o FramesOnDisk(gs[n + 1])
    BY <1>1, LogParts
  <1>9. AllFrames(fs) \in Seq(Frames)
    BY DiskIsLess
  <1> QED
    BY <1>1, <1>4, <1>7, <1>8, <1>9, ConcatEmptySeq DEF gs

\* A frame joins the log at its end, and is not yet on disk.
LEMMA WrittenLog ==
  ASSUME NEW fs, GoodFiles(fs), NEW f \in Frames
  PROVE  /\ AllFrames(Written(fs, f)) = Append(AllFrames(fs), f)
         /\ DiskFrames(Written(fs, f)) = DiskFrames(fs)
  <1> DEFINE n == Len(fs)
             gs == Written(fs, f)
  <1>1. /\ GoodFiles(gs) /\ Len(gs) = n
        /\ \A i \in 1 .. n : i < n => gs[i] = fs[i]
        /\ gs[n].frames = Append(fs[n].frames, f)
    BY WrittenFiles
  <1>2. n \in 1 .. n /\ n \in Nat /\ fs \in Seq(File)
    BY DEF GoodFiles
  <1>3. /\ fs[n] \in File /\ fs[n].synced <= BlockCount(fs[n]) /\ fs[n].frames \in Seq(Frames)
        /\ gs[n] \in File /\ gs[n].synced <= BlockCount(gs[n])
    BY <1>1, <1>2, FramesOfFiles DEF GoodFiles
  <1>4. gs[n].synced = fs[n].synced
    BY <1>2 DEF Written
  <1>5. FramesOnDisk(gs[n]) = FramesOnDisk(fs[n])
    <2> DEFINE old == FramesOnDisk(fs[n])
               new == FramesOnDisk(gs[n])
    <2>1. /\ old \in Seq(Frames) /\ Len(old) <= Len(fs[n].frames)
          /\ \A k \in 1 .. Len(old) : old[k] = fs[n].frames[k]
          /\ new \in Seq(Frames) /\ \A k \in 1 .. Len(new) : new[k] = gs[n].frames[k]
          /\ Len(new) = Len(old)
      BY <1>3, <1>4, DiskOfFile
    <2>2. \A k \in 1 .. Len(fs[n].frames) : gs[n].frames[k] = fs[n].frames[k]
      BY <1>1, <1>3, AppendProperties
    <2>3. Len(old) \in Nat /\ Len(fs[n].frames) \in Nat
      BY <1>3, <2>1, LenProperties
    <2>4. \A k \in 1 .. Len(new) : new[k] = old[k]
      BY <2>1, <2>2, <2>3
    <2> HIDE DEF old, new
    <2>5. new = old
      BY <2>1, <2>4, SeqEqual
    <2> QED
      BY <2>5 DEF old, new
  <1> HIDE DEF n, gs
  <1>6. [i \in 1 .. n - 1 |-> gs[i].frames] = [i \in 1 .. n - 1 |-> fs[i].frames]
    BY <1>1, <1>2
  <1>7. Body(gs) = Body(fs)
    BY <1>1, <1>6 DEF Body, n
  <1>8. /\ AllFrames(fs) = Body(fs) \o fs[n].frames /\ Body(fs) \in Seq(Frames)
        /\ DiskFrames(fs) = Body(fs) \o FramesOnDisk(fs[n])
    BY LogParts DEF n
  <1>9. AllFrames(gs) = Body(gs) \o gs[n].frames /\ DiskFrames(gs) = Body(gs) \o FramesOnDisk(gs[n])
    BY <1>1, LogParts
  <1>10. Body(fs) \o Append(fs[n].frames, f) = Append(Body(fs) \o fs[n].frames, f)
    BY <1>3, <1>8
  <1> QED
    BY <1>1, <1>5, <1>7, <1>8, <1>9, <1>10 DEF gs

\* A rotation moves nothing and takes nothing off the disk.
LEMMA TargetLog ==
  ASSUME JournalInv, NEW rotate \in BOOLEAN
  PROVE  /\ GoodFiles(Target(rotate))
         /\ AllFrames(Target(rotate)) = AllFrames(files)
         /\ Len(DiskFrames(files)) <= Len(DiskFrames(Target(rotate)))
  <1>1. GoodFiles(files)
    BY DEF JournalInv
  <1>2. CASE rotate
    <2>1. /\ GoodFiles(Synced(files)) /\ AllFrames(Synced(files)) = AllFrames(files)
          /\ \A i \in 1 .. Len(Synced(files)) : Durable(Synced(files)[i])
      BY <1>1, SyncedFiles, SyncedLog
    <2>2. /\ GoodFiles(Opened(Synced(files)))
          /\ AllFrames(Opened(Synced(files))) = AllFrames(files)
          /\ DiskFrames(Opened(Synced(files))) = AllFrames(files)
      BY <2>1, OpenedFiles, OpenedLog
    <2> QED
      BY <1>1, <1>2, <2>2, DiskIsLess DEF Target, Rotated
  <1>3. CASE ~rotate
    BY <1>1, <1>3, DiskIsLess DEF Target
  <1> QED
    BY <1>2, <1>3

\* What EvidenceLog sees of the journal.
LEMMA LogIs ==
  /\ ReadLog = IF killed THEN DiskFrames(files) ELSE AllFrames(files)
  /\ StableFrames = Len(DiskFrames(files))
  <1>1. CASE killed
    BY <1>1 DEF ReadLog, Contents, DiskFrames, StableFrames
  <1>2. CASE ~killed
    BY <1>2 DEF ReadLog, Contents, AllFrames, DiskFrames, StableFrames
  <1> QED
    BY <1>1, <1>2

\* A kill leaves the finished files whole, and at least what was on disk of the
\* last one.
LEMMA KilledLog ==
  ASSUME JournalInv, JournalInv', Kill
  PROVE  /\ Len(DiskFrames(files)) <= Len(DiskFrames(files'))
         /\ Len(DiskFrames(files')) <= Len(AllFrames(files))
         /\ DiskFrames(files') = SubSeq(AllFrames(files), 1, Len(DiskFrames(files')))
  <1> DEFINE n == Len(files)
  <1>1. GoodFiles(files) /\ GoodFiles(files')
    BY DEF JournalInv
  <1>2. n \in 1 .. n /\ n \in Nat /\ files \in Seq(File) /\ DOMAIN files = 1 .. n
    BY <1>1 DEF GoodFiles
  <1>3. PICK cut \in [DOMAIN files -> 0 .. MaxBlocks] :
          /\ \A i \in DOMAIN files : cut[i] \in files[i].synced .. BlockCount(files[i])
          /\ files' = [i \in DOMAIN files |-> [files[i] EXCEPT !.synced = cut[i]]]
    BY DEF Kill
  <1>4. Len(files') = n
    BY <1>2, <1>3
  <1>5. ASSUME NEW i \in 1 .. n
        PROVE  /\ files[i] \in File /\ files'[i] \in File
               /\ files'[i].frames = files[i].frames
               /\ files'[i].synced >= files[i].synced
               /\ files[i].synced <= BlockCount(files[i])
               /\ files'[i].synced <= BlockCount(files'[i])
    <2>1. files[i] \in File /\ files'[i] \in File
      BY <1>1, <1>4, FramesOfFiles
    <2>2. files'[i].synced = cut[i] /\ files'[i].frames = files[i].frames
      BY <1>2, <1>3, <2>1 DEF File
    <2>3. cut[i] \in files[i].synced .. BlockCount(files[i])
      BY <1>2, <1>3
    <2>4. files[i].synced <= BlockCount(files[i]) /\ files'[i].synced <= BlockCount(files'[i])
      BY <1>1, <1>4 DEF GoodFiles
    <2> QED
      BY <2>1, <2>2, <2>3, <2>4
  <1>6. AllFrames(files') = AllFrames(files)
    <2>1. [i \in 1 .. n |-> files'[i].frames] = [i \in 1 .. n |-> files[i].frames]
      BY <1>5
    <2>2. DOMAIN files' = 1 .. n
      BY <1>2, <1>3
    <2> HIDE DEF n
    <2> QED
      BY <1>2, <2>1, <2>2 DEF AllFrames
  <1>7. Body(files') = Body(files)
    <2>1. [i \in 1 .. n - 1 |-> files'[i].frames] = [i \in 1 .. n - 1 |-> files[i].frames]
      BY <1>2, <1>5
    <2> QED
      BY <1>4, <2>1 DEF Body
  <1> DEFINE old == FramesOnDisk(files[n])
             new == FramesOnDisk(files'[n])
             b == Body(files)
  <1>8. /\ Len(old) = IF files[n].synced = 0 THEN 0 ELSE files[n].synced - 1
        /\ Len(new) = IF files'[n].synced = 0 THEN 0 ELSE files'[n].synced - 1
        /\ old \in Seq(Frames) /\ new \in Seq(Frames)
    BY <1>2, <1>5, DiskOfFile
  <1>9. Len(old) <= Len(new)
    <2>1. /\ files[n].synced \in Nat /\ files'[n].synced \in Nat
          /\ files[n].synced <= files'[n].synced
      BY <1>2, <1>5 DEF File
    <2> HIDE DEF n, old, new
    <2> QED
      BY <1>8, <2>1
  <1>10. /\ DiskFrames(files) = b \o old /\ b \in Seq(Frames)
         /\ DiskFrames(files') = b \o new
    <2>1. DiskFrames(files) = Body(files) \o FramesOnDisk(files[Len(files)]) /\ Body(files) \in Seq(Frames)
      BY <1>1, LogParts
    <2>2. DiskFrames(files') = Body(files') \o FramesOnDisk(files'[Len(files')])
      BY <1>1, LogParts
    <2> QED
      BY <1>4, <1>7, <2>1, <2>2
  <1> HIDE DEF n, old, new, b
  <1>11. Len(b \o old) = Len(b) + Len(old) /\ Len(b \o new) = Len(b) + Len(new)
    BY <1>8, <1>10, ConcatProperties
  <1>12. Len(b) \in Nat /\ Len(old) \in Nat /\ Len(new) \in Nat
    BY <1>8, <1>10, LenProperties
  <1>13. Len(DiskFrames(files)) <= Len(DiskFrames(files'))
    BY <1>9, <1>10, <1>11, <1>12
  <1>14. /\ Len(DiskFrames(files')) <= Len(AllFrames(files'))
         /\ DiskFrames(files') = SubSeq(AllFrames(files'), 1, Len(DiskFrames(files')))
    BY <1>1, DiskIsLess
  <1> QED
    BY <1>6, <1>13, <1>14

\* A step that is no kill: at most one frame joins the log, and nothing leaves
\* the disk.
LEMMA LiveLog ==
  ASSUME JournalInv, JournalNext, ~killed'
  PROVE  /\ ~killed
         /\ \/ AllFrames(files') = AllFrames(files)
            \/ \E f \in Frames : AllFrames(files') = Append(AllFrames(files), f)
         /\ Len(DiskFrames(files)) <= Len(DiskFrames(files'))
  <1>1. GoodFiles(files)
    BY DEF JournalInv
  <1>2. /\ Len(DiskFrames(files)) \in Nat /\ Len(AllFrames(files)) \in Nat
        /\ Len(DiskFrames(files)) <= Len(AllFrames(files))
    BY <1>1, DiskIsLess
  <1>3. ASSUME NEW f \in Frames, NEW rotate \in BOOLEAN
        PROVE  LET gs == Written(Target(rotate), f) IN
               /\ GoodFiles(gs)
               /\ AllFrames(gs) = Append(AllFrames(files), f)
               /\ Len(DiskFrames(files)) <= Len(DiskFrames(gs))
               /\ AllFrames(Synced(gs)) = Append(AllFrames(files), f)
               /\ Len(DiskFrames(files)) <= Len(DiskFrames(Synced(gs)))
    <2> DEFINE gs == Written(Target(rotate), f)
    <2>1. /\ GoodFiles(Target(rotate)) /\ AllFrames(Target(rotate)) = AllFrames(files)
          /\ Len(DiskFrames(files)) <= Len(DiskFrames(Target(rotate)))
      BY TargetLog
    <2>2. /\ GoodFiles(gs) /\ AllFrames(gs) = Append(AllFrames(files), f)
          /\ DiskFrames(gs) = DiskFrames(Target(rotate))
      BY <2>1, WrittenFiles, WrittenLog
    <2>3. AllFrames(Synced(gs)) = AllFrames(gs) /\ DiskFrames(Synced(gs)) = AllFrames(gs)
      BY <2>2, SyncedLog
    <2>4. /\ Len(DiskFrames(gs)) <= Len(AllFrames(gs))
          /\ Len(DiskFrames(gs)) \in Nat /\ Len(AllFrames(gs)) \in Nat
      BY <2>2, DiskIsLess
    <2> HIDE DEF gs
    <2>5. Len(DiskFrames(files)) <= Len(DiskFrames(Synced(gs)))
      BY <1>2, <2>1, <2>2, <2>3, <2>4
    <2> QED
      BY <2>1, <2>2, <2>3, <2>5 DEF gs
  <1>4. ASSUME NEW f \in Frames, NEW rotate \in BOOLEAN, NEW flush \in BOOLEAN,
               WriteOk(f, rotate, flush)
        PROVE  /\ ~killed
               /\ AllFrames(files') = Append(AllFrames(files), f)
               /\ Len(DiskFrames(files)) <= Len(DiskFrames(files'))
    <2>1. /\ ~killed
          /\ files' = IF flush THEN Synced(Written(Target(rotate), f)) ELSE Written(Target(rotate), f)
      BY <1>4 DEF WriteOk, MayWrite
    <2> QED
      BY <1>3, <2>1
  <1>5. ASSUME NEW f \in Frames, NEW rotate \in BOOLEAN, WriteFailsSyncing(f, rotate)
        PROVE  /\ ~killed
               /\ AllFrames(files') = Append(AllFrames(files), f)
               /\ Len(DiskFrames(files)) <= Len(DiskFrames(files'))
    <2>1. ~killed /\ files' = Written(Target(rotate), f)
      BY <1>5 DEF WriteFailsSyncing, MayWrite
    <2> QED
      BY <1>3, <2>1
  <1>6. CASE files' = files /\ ~killed
    BY <1>2, <1>6
  <1>7. CASE files' = Synced(files) /\ ~killed
    BY <1>1, <1>2, <1>7, SyncedLog
  <1>8. WriteFailsFinishing \/ WriteFailsSpilling \/ TickFails \/ CloseFails => files' = files /\ ~killed
    BY DEF WriteFailsFinishing, WriteFailsSpilling, TickFails, CloseFails, MayWrite
  <1>9. WriteFailsOpening \/ TickSyncs \/ CloseOk => files' = Synced(files) /\ ~killed
    BY DEF WriteFailsOpening, TickSyncs, CloseOk, MayWrite
  <1>10. ~Kill
    BY DEF Kill
  <1> QED
    BY <1>4, <1>5, <1>6, <1>7, <1>8, <1>9, <1>10 DEF JournalNext, WriteFails

\* An empty journal is an empty log.
LEMMA LogStart == JournalInit => Log!LogInit
  <1> SUFFICES ASSUME JournalInit PROVE Log!LogInit
    OBVIOUS
  <1>1. files = <<NewFile>> /\ ~killed /\ killed = FALSE
    BY DEF JournalInit, Opened
  <1>2. GoodFiles(files)
    BY InitInv DEF JournalInv
  <1>3. Len(files) = 1 /\ files[1].frames = <<>>
    BY <1>1 DEF NewFile
  <1>4. AllFrames(files) = <<>> \o <<>>
    BY <1>2, <1>3, LogParts DEF Body
  <1>5. AllFrames(files) = <<>>
    BY <1>4
  <1>6. Len(DiskFrames(files)) \in Nat /\ Len(DiskFrames(files)) <= 0
    BY <1>2, <1>5, DiskIsLess
  <1> QED
    BY <1>1, <1>5, <1>6, LogIs DEF Log!LogInit

\* Every step of the journal is one of the log, or none.
LEMMA LogStep ==
  JournalInv /\ JournalInv' /\ [JournalNext]_journalVars => [Log!LogNext]_(Log!logVars)
  <1> SUFFICES ASSUME JournalInv, JournalInv', [JournalNext]_journalVars
               PROVE  [Log!LogNext]_(Log!logVars)
    OBVIOUS
  <1>0. ReadLog' = (IF killed' THEN DiskFrames(files') ELSE AllFrames(files'))
    BY DEF ReadLog, Contents, DiskFrames, AllFrames
  <1>1. StableFrames' = Len(DiskFrames(files'))
    BY DEF StableFrames, DiskFrames
  <1>2. killed \in BOOLEAN /\ killed' \in BOOLEAN /\ GoodFiles(files) /\ GoodFiles(files')
    BY DEF JournalInv
  <1>3. CASE UNCHANGED journalVars
    BY <1>3 DEF journalVars, Log!logVars, ReadLog, Contents, StableFrames, FramesOnDisk
  <1>4. CASE JournalNext /\ ~killed'
    <2>1. /\ ~killed
          /\ \/ AllFrames(files') = AllFrames(files)
             \/ \E f \in Frames : AllFrames(files') = Append(AllFrames(files), f)
          /\ Len(DiskFrames(files)) <= Len(DiskFrames(files'))
      BY <1>4, LiveLog
    <2>2. ReadLog = AllFrames(files) /\ ReadLog' = AllFrames(files')
      BY <1>0, <1>4, <2>1, LogIs
    <2>3. StableFrames' \in StableFrames .. Len(ReadLog')
      <3>1. /\ Len(DiskFrames(files)) \in Nat /\ Len(DiskFrames(files')) \in Nat
            /\ Len(AllFrames(files')) \in Nat /\ Len(DiskFrames(files')) <= Len(AllFrames(files'))
        BY <1>2, DiskIsLess
      <3> QED
        BY <1>1, <2>1, <2>2, <3>1, LogIs
    <2>4. UNCHANGED killed
      BY <1>2, <1>4, <2>1
    <2> QED
      BY <2>1, <2>2, <2>3, <2>4 DEF Log!LogNext, Log!Accept
  <1>5. CASE JournalNext /\ killed'
    <2>1. Kill
      BY <1>2, <1>5
      DEF JournalNext, WriteOk, MayWrite, WriteFails, WriteFailsFinishing, WriteFailsOpening,
          WriteFailsSpilling, WriteFailsSyncing, TickSyncs, TickFails, CloseOk, CloseFails
    <2>2. ~killed /\ killed' = TRUE
      BY <2>1 DEF Kill
    <2>3. ReadLog = AllFrames(files) /\ ReadLog' = DiskFrames(files')
      BY <1>0, <2>2, LogIs
    <2>4. /\ Len(DiskFrames(files)) <= Len(DiskFrames(files'))
          /\ Len(DiskFrames(files')) <= Len(AllFrames(files))
          /\ DiskFrames(files') = SubSeq(AllFrames(files), 1, Len(DiskFrames(files')))
      BY <2>1, KilledLog
    <2>5. /\ Len(DiskFrames(files)) \in Nat /\ Len(DiskFrames(files')) \in Nat
          /\ Len(AllFrames(files)) \in Nat
      BY <1>2, DiskIsLess
    <2>6. StableFrames' \in StableFrames .. Len(ReadLog)
      BY <1>1, <2>3, <2>4, <2>5, LogIs
    <2>7. ReadLog' = SubSeq(ReadLog, 1, StableFrames')
      BY <1>1, <2>3, <2>4
    <2> QED
      BY <2>2, <2>6, <2>7 DEF Log!LogNext, Log!GoDown
  <1> QED
    BY <1>2, <1>3, <1>4, <1>5

\* The journal implements EvidenceLog: whatever fails, rotates or is killed, it
\* is one log that grows at its end by at most a frame a step, and a kill leaves
\* a leading part of it with everything that was synced (segment.go, Write,
\* rotate and finishSegment; writer.go, Tick).
THEOREM JournalImplementsLog == JournalSpec => ImplementsLog
  <1> QED
    BY LogStart, LogStep, JournalInvariant, PTL DEF JournalSpec, ImplementsLog, Log!LogSpec

\* So does the journal with its timers.
THEOREM TimedImplementsLog == TimedSpec => ImplementsLog
  BY TimedImplementsJournal, JournalImplementsLog
=============================================================================
