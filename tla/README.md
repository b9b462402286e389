# Verification of sccap

`sccap` records the network traffic of a game session into a *bundle*: a
directory of pcapng segments (the journal), a derived record index, a marker
log, a sidecar (`session.json`) and a manifest (`SHA256SUMS`). What the program
is for is evidence, so what matters is what a bundle is worth after anything
that can happen to the process that writes it. This directory models that in
TLA+, checks it with TLC and proves the core of it with TLAPS. Paths below are
relative to `sc-capture/`.

## Inventory

| Component | State | Operations | What is hard | What makes it correct |
|---|---|---|---|---|
| Journal (`internal/journal/segment.go`, `pcapng.go`) | segment files, buffers, flush and rotation timers | `Write` (rotates, syncs), `Tick`, `Close`, `Segments` | I/O errors in the middle of a rotation, kills, wall clocks | only the last segment can be torn; references resolve; the loss is bounded |
| Capture session (`cmd/sccap/capture.go`) | two channels, five kinds of goroutine, termination, exit code | read, journal, forward, decode, tick, shut down | interleaving, full channels, dead writer, signals, kills | nothing lost or reordered; drops counted; it always ends; exit 0 means a bundle that verifies, unless the kernel dropped packets |
| Record index (`internal/index`) | buffered file with its own timer | `Write`, `Tick`, `Dropped`, `Close` | sticky errors, drops, kill between two files | every frame is indexed once or counted |
| Verification (`internal/verify`, `cmd/sccap/verify.go`) | none | `Verify` | one status that several checks assign | failing findings fail; interrupted sessions pass |
| Bundle tools (`cmd/sccap/index.go`, `verify --write-sums`, `mark --bundle`) | the bundle's files and manifest | rebuild, hash, mark | dying between two files | the manifest matches when nothing runs, or a rebuild repairs it |
| Decode pipeline (`internal/decode`, `pkg/scproto/framing.go`) | per direction: next sequence number, scanner buffer, ledger | `Feed`, `Next`, `take` | reordering, loss, retransmission, wraparound | records are a prefix of the stream and cite their frames |
| Connection table (`internal/flow`) | connections, announced endpoints | `Observe`, `AnnounceDedicated` | classification that improves while frames arrive | connection and direction are stable |
| Coverage store (`internal/coverage`, `recordCoverage`, `ingestDelta`) | machine-wide JSON document, one delta per bundle | load, fold, save, ingest | several processes, kills, lost store | states never regress; the store can be restored |
| Coverage dashboard (`cmd/sccov`) | a cached page | load, build, serve | the store and the deltas change between the readings | a page adds up |
| Doctor and choice of interfaces (`internal/doctor`, `cmd/sccap/doctor.go`, `resolveInterfaces`) | none | list, judge, choose, sample | links that change between two listings, samplers that fail | capture records the wire or refuses; the advice is good |
| Session start and bundle (`session/bundle.go`, `captureSession`) | a directory per session | claim a name, describe, open | starts in the same second, a start that fails or is killed | bundles are never shared; what exists describes itself |
| Markers and live pointer (`internal/annotate`, `session/live.go`, `cmd/sccap/mark.go`) | log per bundle, pointer file, a counter per process | open, stamp, publish, find, clear | processes that overlap or were killed | numbers continue; the running session is found |
| Session clock (`session/clock.go`) | anchors | `Tick`, `Close` | steps and slews | anchors are dense, hidden drift is bounded |
| Sidecar and kernel counters (`session/metadata.go`, `capture/source.go`, the loop in `capture.go`) | `session.json`, ring counters, refresh timer | `Stats`, refresh, last write | readings and writes that fail, counters read twice, kills | drops are never hidden; what a kill leaves is recent |
| Disk monitor (`session/disk.go`) | thresholds | `Check` | a check that fails is skipped | reaching the floor ends the loop; nothing else of it is modelled |
| Not modelled | | | | message bodies and protocol tables, the status line, client identification, option parsing, the listing of `sccap decode`, deployment |

They interact so: reader goroutines send frames to the writer goroutine over a
channel; it journals each and forwards it with its reference over a second
channel that drops when it is full; the decode goroutine runs the pipeline,
which asks the table for the connection and calls back into the index. The main
goroutine ticks the clock, the journal, the index, the deriver, the ring counters
and the sidecar once a second, and runs the shutdown. Other processes meet the
session in the marker log, the live pointer and the coverage store only.

## Modules

Each module begins with a comment that says what it leaves out.

| Module | Models | How it corresponds |
|---|---|---|
| `EvidenceLog` | what a journal promises | an append-only log with a stable part; a kill keeps at least that part |
| `Journal` | `journal.Writer` | a file is its blocks and how many leading ones are durable; one action per operation and per place where an operation can fail |
| `JournalLog` | refinement | `Journal` implements `EvidenceLog` |
| `JournalTimed` | flush cadence | composes `Journal` with time: each of its actions, failures included, with `elapsed` standing for what `time.Since(lastFlush)` returns |
| `Verify` | `verify.Verify` | operators from what a bundle shows to findings and status |
| `Capture` | `captureSession` | extends `Journal` and `Verify`: each goroutine has a program counter, each channel is a bounded sequence; `OnDisk` is the bundle as `Verify` would see it |
| `Flow` | `flow.Table` | operators on the connections in first-seen order |
| `Reassembly` | `feedTCP`, `stream.take`, `Scanner` | operators on one direction of one connection; sequence numbers are taken modulo a small number |
| `Decoding` | `decode.Pipeline`, `Replay` | composes `Flow` and `Reassembly`: the session's pipeline beside the journal that a rebuild replays |
| `Coverage` | the coverage store | one process per session or ingest; load, open, write and rename are separate steps |
| `Dashboard` | `sccov` | extends `Coverage`: a page is built from the store as loaded and the deltas as read later |
| `Host` | `doctor`, `doctor --watch`, the checks of `capture` | links change between the flags and each carrier of a listing; one command after the other |
| `Sessions` | `CreateBundle`, the start and the end of `captureSession`, live pointer, beacon, `sccap mark`, `status` | one process per capture or mark; each step of the start may fail |
| `PostHoc` | the tools run on a closed bundle | what each file holds, and what the manifest hashed |
| `Clock` | `session.Clock` | wall time is monotonic time and an offset |
| `Sidecar` | `session.json` over time | composes `Clock` with the ring counters: one action per tick and per step of the shutdown; anchors and refreshes have timers of their own |

A session passes through them in this order: `Host` decides what it captures,
`Sessions` creates its bundle and starts it, `Capture` (over `Journal`) runs it,
`Decoding` is what its decoder does with a frame, `Sidecar` what its ticker does
with clock and counters, `Coverage` what it leaves behind, `PostHoc` what happens
to its bundle later.

`MC*` modules give TLC its constants; `*Proofs` hold the theorems. Operators that
a comment calls a mutant are wrong versions of the operator that follows them, one
for each property: each was put in place of the right one to see that the property
notices.

## Checked properties

Every run passes unless it says otherwise.

- **MCJournal**: with two I/O errors anywhere, a kill anywhere and a clock that
  is set forward: only the last segment can be torn, references resolve and are
  ordered, `Segments` is exact, a closed journal is durable, a frame waits less
  than one flush interval and one tick for its sync until the first error, and
  the journal implements `EvidenceLog`. Four frames and segments of two give every
  case of a rotation that is followed by another one.
- **MCCapture**: two interfaces, channels of one that are full in most states,
  segments of one frame so that every frame rotates, one I/O error of the
  journal or the sidecar, errors of the index, packets that the kernel drops, a
  kill at any step: no frame disappears uncounted, exit leaves nothing queued,
  exit 0 leaves a bundle that verifies as clean or, if `session.json` counts
  packets that the kernel dropped, fails for those and nothing else; the sidecar
  describes the files, a killed session does not fail (such drops apart) once the
  newest header is on disk, and nothing changes that is hashed.
- **MCCaptureLive**: one interface and three frames. Frames stay in order; the
  writer never calls `Write` on a journal that main has closed or that has failed,
  which `Write` itself does not guard against; a signal, and a failed write, end
  the process, also when readers block on a dead writer.
- **MCCaptureClean** (finds a violation): a journal write that fails after the
  last tick before a signal ends as a clean session with exit 0.
- **MCDecoding**: both directions of a connection to a master server and two UDP
  flows to the server that it announces, of which one was guessed the wrong way
  round. One direction begins with a keepalive, the frame whose length is none; the
  other has an operation code that is not known. The stream is cut into segments of one, two or more units, lost, reordered
  and resent in four frames, of which the decoder may miss one; the numbers wrap inside it, and the capture may
  begin in its middle. Records are consecutive messages and cite exactly their
  frames; direction and connection identify a stream one to one, also when a
  handoff reclassifies; a classification by handoff is what was announced; a lost
  framing is recorded for its connection and kept; a replay has the records of
  every stream that the journal has from the beginning and without a gap.
- **MCDecodingGap** (finds a violation): a gap does not stop the scanner.
- **MCCoverage**: two sessions and two ingests, up to two at a time, kills and
  delta errors at any step, the store lost once, a dashboard that loads the store
  and reads the deltas at any time. While no two have overlapped, the store is the
  fold of what was saved and never moves back; always, what it owes to a session
  is in that session's delta or was reported, and a page counts down from what is
  known to what was never seen, crediting no session with more than it saw.
- **MCSessions**: two captures that start in the same second and fail, are killed
  or run, overlapping or not, and two marks. They never share a bundle; a bundle
  with a segment has its sidecar; numbering continues over what a log held when it
  was opened; a capture that did not overlap with another is the one that is found.
- **MCPostHoc**: two rebuilds, two post-hoc sums and two late marks, any of which
  may die, report an error or fail to write its last manifest, which is only
  warned about or discarded. Without any of that and without late marks the
  manifest always matches; a rebuild that writes its own makes it match whatever
  came before.
- **MCSidecar**: ticks, slews and steps over seven units of time, drops,
  readings and writes that fail, a kill. The anchors tell what the wall clock
  did up to a bound, drops are never hidden, and a kill leaves a `session.json`
  whose last anchor is at most two intervals and a gap old.
- **MCHost**: a loopback interface and two others, one of them the wire, whose
  links change twice at any moment, and three commands. A capture that was given no
  interface records the wire or refuses, as long as the wire keeps its link; the
  capture that `--watch` recommends is not refused and records the wire; the two
  listings of a capture do not contradict each other.
- **MCHostNamed** (finds a violation): a capture that names two interfaces is
  refused on a host that could record both.

`Capture` has a stuttering step `Stopped` for a session that is over, so that TLC
finds a deadlock anywhere before it. The modules of bounded inputs switch the
deadlock check off, since there the inputs run out.

## Disagreements met while modelling

Three are findings with a run of their own, above. The properties of the other
runs are worded so that they say exactly how far the code keeps its promise;
what lies beyond that is here, each with where the model has it.

- *Flush cadence.* `data-model.md:86` says a frame is synced at most one second
  after its capture; a tick just before the interval has passed leaves it until
  the next one (`LossBounded` is the real bound, and it is nearly two seconds).
  After a rotation `lastFlush` (`segment.go:84`) is a kernel timestamp without a
  monotonic reading, so a wall clock that steps back suspends the syncs: with a
  negative element in `Steps`, `LossBounded` fails.
- *Kills.* A kill before the header of a new segment is on disk leaves an empty
  file, which `verify` fails although `verify.go:4` says that an interrupted
  session passes (`KilledVerifies` excepts it), and on which `index --rebuild`
  gives up (`ReplayRefuses` in `PostHoc`). After a kill `index.jsonl` may cite
  frames that the journal lost (`index` and `files` of `Capture`), although
  `contracts/cli.md:124` says it references only frames that exist.
- *Kernel drops.* A session whose kernel dropped packets closes cleanly with exit
  0, and `verify` fails its bundle (`verify.go:113`; `cli.md:123-124` wants 0
  drops). Only the progress line says so (`cli.md:83-87`). `CleanVerifies` states both
  verdicts, with `DropsAside` for the rest of the bundle.
- *Clean close.* `metadata.go:26-27` reserves `utc_end` and the sums for clean
  sessions; the disk floor and errors get them too (`WriteMeta`, `WriteSums`).
- *Index.* `writer.go:89-90` wants lost records counted; those that a broken
  index buffer refuses are not (`Decodes`; `EveryFrameAccounted` excepts them).
- *Verdict.* In `verify.go` the termination switch at line 95 assigns
  `interrupted` over the failure of the bundle-id check (`Status`).
- *Drops.* At `capture.go:600` shutdown adds cumulative counters to those of the
  last tick, so earlier drops count twice (`ReadsLast`); hence the inequality in
  `DropsNeverHidden`. `metadata.go:181` says the sidecar is written on every
  periodic anchor; it has a timer of its own.
- *Interfaces.* `contracts/cli.md:63` makes the default autodetection and `lo`; `lo`
  is captured only when it is named (`Chooses`). An interface that is named twice
  is opened twice (`Chooses` returns a set and does not show it).
- *Decoding.* After a gap the four bytes that follow, or the poison itself, are
  read as a sentinel frame, which has no checksum, so that records can follow
  (`MCDecodingGap`); a capture that begins in the middle of a stream can misread it
  in the same way, hence the premise of `RecordsArePrefix`. `desync_at_frame` is a
  frame index without its segment (`desyncAt` is a whole reference here).
- *Rebuild.* The anomaly at `capture.go:573` promises that a rebuild recovers what
  the decoder missed. It reads frames that the live pipeline did not: if that one
  missed a frame out of order, the rebuild meets a gap there, stops the stream, and
  has fewer records of it than the index that it replaces. `RebuildRecovers` says
  what a replay does have. `sccap decode` reads the journal only when the index is
  empty or unreadable, so a partial index shows less without saying so.
- *Coverage.* Two processes at once can lose an update, so that states regress,
  and can rename a half-written temporary file into place (`Overwrites`); a
  session saves the store although its delta failed (`DeltaFails`).
- *Markers.* A capture and `sccap mark` give the same numbers to different
  markers, since each counts for itself; a console may stamp after the manifest was written; of two captures
  the one that ends first removes the pointer to the other (`Clears`). A session that
  fails after it has published leaves its pointer (`FailsToStart`). A write that
  fails in its middle leaves part of a line, onto which the next one is put, and
  `lastSeq` reads them as one (not in the model, where a line is there or not).
- *Post-hoc sums.* A rebuild of an interrupted session creates `SHA256SUMS`
  without the anomaly that `verify --write-sums` records
  (`session-bundle.md:83-84`).
- *Failed sums.* `cli.md:142` says that `verify` after a rebuild must still pass.
  If the last `WriteSums` of a rebuild fails, `index.go:107-111` warns and exits 0,
  and the manifest is that of the files before; the advice it prints, `verify
  --write-sums`, does nothing while a manifest exists (`SumsExist`). After
  `verify --write-sums` has changed `session.json`, `verify.go:39` discards the
  error of the second `WriteSums`, after which the `Verify` of that run and of
  every later one finds a mismatch (`SumsGoStale`, which `AtRestVerifies` excepts).
- *Connections.* A handoff does not reclassify a connection whose server was
  guessed wrong (`flow.go:197-200`; `HandoffStands` speaks of the server end), and
  a reconnection between the same two ends continues the old connection
  (`data-model.md:117` says otherwise); the table has no step for it.

## Bounds

Every bound is a CONSTANT marked as such in its module. `MaxFrames`, `PerIface`,
`MaxStamps`, `MaxDerived`, `MaxTime`, `MaxDrops`, `MaxChanges`, `MaxCommands` and
`MaxPackets` limit how long a behaviour is, `MaxRunning` how many processes share
the coverage store; `MaxFaults` how many I/O errors it has, `MaxUnwritten` how many
markers are lost to one. `MaxSegmentFrames`, `FramesCap`, `DecodeCap` and `MaxSeqs`
are parameters of the code, chosen as one or two so that rotation, full channels and
taken names are the normal case. The frames of different interfaces meet in one
channel only, so two interfaces of one frame each (`MCCapture`) and one of three
(`MCCaptureLive`) show what two of several would: the first has the races between
readers, the second the order of one. In `MCSidecar` an interval is two units, so
that seven units hold three refreshes and several steps between them. In
`MCDecoding` a keepalive and a longer message over six units and four frames have a
message over three frames, a frame over two messages, each kind of overlap, a gap before and inside a
message, and a handoff before, between and after the frames it is about. In
`MCHost` two changes are enough for a link to go and come back inside one listing,
and three commands for an advice to be given, renewed and taken; two packets tell traffic of the game
from more of another kind.

## Fairness

Only `MCCaptureLive` assumes any. A goroutine that can go on does (weak fairness
of each reader, of the writer, the decoder and the main goroutine): the Go
scheduler is preemptive and no goroutine here waits for a lock that another keeps.
A signal that waits is taken in the end (strong fairness of `TakeSignal`): the
loop comes back to its `select` after each tick, and `select` chooses uniformly
among the ready cases. A tick is a step of the main goroutine, so its fairness
makes ticks come while the session runs, which `ErrorStops` needs: `captureSession`
has a `time.Ticker` of one second, which never stops before the loop. That a frame
arrives or that a signal is sent is never assumed.

## Proofs

TLAPS proves, for every value of the constants that the named assumptions allow:

- **`JournalProofs`**: `JournalInvariant` and from it the five safety properties
  of the journal and its types. The properties are not inductive: that a
  reference resolves needs that files only grow at their end, that
  `Segments` is exact needs that `recorded` covers all files but the open one,
  and that only the last segment is torn needs that every earlier one is durable
  before the next exists. `JournalInv` states these together. Lemmas about
  `Synced`, `Opened` and `Written` say what they keep and extend, one lemma per
  action follows, and each property is read off the invariant. `RefsOrdered` has
  its own argument: a new reference lies beyond every earlier one.
  - `CadenceBoundsLoss`: `LossBounded` for every interval, tick period and lag,
    under the hypothesis that the clock never steps back. The strengthening
    (`TimedInv`) relates `age`, `elapsed` and the time to the next tick.
    That time takes nothing from the journal (the lemma `TimedImplementsJournal`,
    which holds by the shape of the module) needs no such hypothesis.
  - `JournalImplementsLog` and `TimedImplementsLog`: the journal, with and without
    time, implements `EvidenceLog`. The mapping puts the segments end to end; that
    the row changes as the abstract steps allow is proved from a description of it
    by the length of each prefix of the segments.
- **`CaptureProofs`**: a session is built from the journal's own actions, so that it
  is a behaviour of `JournalSpec` by construction (the lemma
  `CaptureImplementsJournal`), and `CaptureKeepsEvidence` and `CaptureIsOneLog`
  carry the journal's theorems over. What `captureSession` itself has to see to is
  that nothing writes to a journal without an open segment:
  `CaptureWriteFindsSegment`, from the order of the shutdown. `CaptureShutdown` is an invariant on which
  stage of the shutdown implies which goroutine has ended and which channel is
  closed; from it follow `CaptureDrains` and `CaptureHashedIsFinal`. On these rest
  - `SidecarInv`, on what the sidecar and the exit code say of a journal that is
    closed, and from it that the sidecar matches the files, that exit 0 leaves a
    bundle which verifies as clean but for packets that the kernel dropped, and that
    a killed one does not fail, these apart;
  - `OrderInv`: while no write has failed the row of frames goes on from the
    journal into the channel and from there into the hand of each reader, with
    nothing missing. `FramesInOrder` alone does not say where a new frame fits;
  - `AccountInv`: every acknowledged frame is in exactly one of the index, its
    channel, the list of drops and the writer's hand, counted with repetition.
- **`DecodingProofs`**: what the decoder shows, for any wires of messages and
  keepalives, cuts, losses and orders of arrival, and any modulus that the numbers
  wrap at, while each direction is shorter than half of it (see the abstractions).
  - `DecodingInv` says of each stream that it has stopped, or waits for a message
    that has poison in it, or has a ledger that accounts for its buffer unit by
    unit, with frames that carried these units. `RecordsCite` follows for records
    of any number of frames. The connections say which key has which end for its
    server, so that `StreamKeysAreDirections`; announced endpoints are exactly
    those of a record, so that `HandoffsStand`; and a connection names a lost frame
    exactly if one of its streams stopped or met a gap (`DesyncsAreRecorded`).
  - `MessagesInARow`: of a stream that began with message `m0`, the records are the
    messages from `m0` on without a hole, and the stream is either in step, which
    is to hold exactly the units from the start of the next message to the last one
    fed, or gone for good (`InRowInv`).
  - `RebuildFindsAll`: the same invariant along `Replay`, with how far the frames
    of each direction reach: where the connection names no loss the messages that
    end by there are the records.
- **`HostProofs`**: `UnnamedCapturesTheWire`, for any number of interfaces. The
  invariant carries the wire through a listing: while it keeps its link it is among
  the flags, and its carrier is read as up or is still to be read; a choice is made
  only when none is, so a single live interface is the wire.
  `DoctorAgreesWithCapture` needs an invariant of its own, of what the doctor's
  listing and the later one have in common while no link changes: both are exactly
  the host, as far as they have been read. `AdviceIsGood` uses both: packets of the
  game are heard on the wire only, through a link and with the capability, so what
  is advised is captured as long as no link has changed since.
- **`CoverageProofs`**: `CoverageIsRebuildable`: whoever has reached the temporary
  file has a delta that was written or reported, however the processes overlap.
  `CoverageStoreIsFold` and `CoverageNeverRegresses`: while no two have run at once,
  the one that runs holds the fold of what was saved and its own source, and what
  it is about to rename is that. `DashboardPageAddsUp`, for any number of elements,
  kinds, sessions and processes: what a page says of one document follows from the
  sum over the kinds being a count (`TotalCounts`), from every session of the
  journey adding to what was seen before it and the last leaving nothing observed
  out (`SawByGrows`), and from what `Merge` keeps (`CollapsedDescends`). What it says
  of two files needs `PageInv`: each document, on disk or in memory, names only
  sessions that have seen the element and whose delta is settled, but for the
  delta that a session is about to write or died over. `StoreIsBorneOut` reads the
  same off it for the store alone. `DashboardPageAddsUp` assumes that elements,
  kinds and sessions are finite, and that no scenario is called "Start".
- **`SessionsProofs`**: `CapturesKeepApart`, `EvidenceIsDescribed` and
  `RunningIsFound` from one invariant: a directory belongs to the capture that made
  it, a capture past its first sidecar has one, sessions published together have
  met, and the pointer only names who has published. `NumbersGoOn` from another: a
  process that may stamp has opened its log and counts on from what it found there.
- **`SidecarProofs`**: `AnchorsTell`: between two ticks the last anchor is younger
  than an interval and hides at most one threshold for each tick since.
  `KilledMetadataIsRecent` adds the refresh: its last time is less than an
  interval ago, and the anchor it wrote was less than an interval old.
  `DropsAreNeverHidden`: up to the end of the shutdown's readings the sidecar's
  count misses nothing of the rings that have answered for the last time.
- **`PostHocProofs`**: `ToolsLeaveSumsInOrder` (no tool died, reported an error or
  failed to write its last manifest, and no marker is late) and `RebuildRepairs` (a
  rebuild that writes its own): one tool runs at a time, so what it is about to
  rename into place is what is there.

Five of these proofs are about definitions by recursion (`FoldOf`, `Replay`, the
segments end to end, `Collapsed` and the sum in `Total`). The provers do no induction over data in
general, but such a function has numbers as its domain, or finite sets, which have a
cardinality: that it exists, and what it satisfies at each of them, is shown from
the least number at which it would not (`Least`, from the well-foundedness of the
naturals). For `FoldOf` the invariant
carries the existence along as the row of saves grows.

Only model-checked: liveness (`SignalStops` and `ErrorStops`), which is out of the
prover's reach. Type invariants other than the
journal's are conjuncts of the invariants above where a proof needs them.

## Abstractions to know of

- Frames have size one, and the buffers may spill at any moment. A kill keeps any
  leading part of what was written, at least all that was synced. A failed fsync
  that is followed by one that succeeds is taken to have lost nothing; an error
  of closing a file after it was synced is one of its sync errors.
- `session.json`, `SHA256SUMS` and the live pointer are replaced by rename and
  are atomic here. They are not fsynced, so a power loss may undo more than the
  model's kill does to them. The pointer's temporary file has one name for all
  processes; two that write it at the same moment are not told apart.
- A ticker is punctual in `JournalTimed` only.
- In `Capture` each frame makes one record; records of several frames, and what a
  dropped frame does to them, are in `Decoding`, where a frame that is not dropped
  is decoded at once: the channel keeps the order (`FramesInOrder`).
- What a message says is a constant of `Decoding`: bodies are not parsed there. No
  endpoint talks to itself, and the services of the well-known ports are not told
  apart. A frame with no IP or transport layer changes nothing and is left out.
- A direction of a connection carries less than half of the sequence space
  (`IsWire`; 2 GiB in the code). The code compares numbers modulo 2^32 and
  leaves `nextSeq` where it was at a gap, so in a longer stream what comes half
  the space after a gap reads as a retransmission. The numbers wrap all the same:
  a stream may start anywhere.
- The order of a page's journey is any order of its sessions; nothing that is
  checked depends on time.
- `PostHoc` runs one tool at a time. `Sidecar` reads the sources in any order at
  shutdown, and takes the setup before the loop to last no time.
- A process id that was given to another program is not modelled in `Sessions`.
- In `Host` the checks that only warn are left out, and the wire never moves to
  another interface. That `capture.Open` fails is a `FailsToStart` of `Sessions`;
  that it must, when the capability is missing but could not be read, is not told.
- In `Sessions` a thousand taken numbers and any other error of `os.Mkdir` end the
  same way (`NotNamed`). A directory whose mode could not be set is left as by a
  start that fails at its first sidecar (`FailsToStart` at "named").

## Not modelled

- The bodies of messages and the protocol tables: sequential functions of their
  input, covered by unit tests. Their outcome is a constant of `Decoding`.
- Client identification: reads the game's files once and ignores every failure;
  nothing else depends on what it returns.
- The status line, option parsing and listings: they print.
- The thresholds of the disk monitor: the answer of `statfs` is a free choice.
- The deriver's rules for what deserves a marker: `Sessions` has that it stamps at
  ticks, and not at shutdown, so what is decoded after the last tick gets none.
- A four-tuple that is used again, and a kill that leaves an index ahead of its
  journal: the code has no step that notices, so no property of it would hold.

## Plan

Done: the journal, its cadence and its proofs; the session and its proofs;
verification; the decode pipeline with its table, drops and rebuild, and its
proofs; the coverage store and its dashboard; the host checks; the start of
sessions, markers and the live pointer; the bundle tools; the clock and the
sidecar; a theorem for every safety and action property that a run checks. What is
left, in order of importance:

1. A composition of `Sessions` and `PostHoc`, so that the tools run beside a live
   session, and of two tools that overlap.
2. An abstract specification of the coverage store (a set of contributions) and
   of the bundle (evidence, and views derived from it), with refinements.
