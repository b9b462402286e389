------------------------------- MODULE Sidecar -------------------------------
(***************************************************************************)
(* What session.json says of a session while it runs and after it: the     *)
(* ticks of the capture loop (cmd/sccap/capture.go) read the clock and the *)
(* packet counters of the kernel's rings (internal/capture/source.go) and  *)
(* refresh the file every AnchorInterval; shutdown writes it once more.    *)
(***************************************************************************)
EXTENDS Clock, FiniteSets

CONSTANTS
  Sources,   \* one ring per captured interface
  MaxDrops   \* bound: packets one ring drops

ASSUME SidecarAssumption == MaxDrops \in Nat /\ IsFiniteSet(Sources)

VARIABLES
  lost,      \* per source: what its ring has dropped so far
  main,      \* "loop", "stopping", "exited" or "killed"
  unread,    \* sources whose counters shutdown has still to read
  answered,  \* sources whose last reading succeeded
  recorded,  \* meta.Host.PacketsDropped
  metaAt,    \* lastMetaWrite, as monotonic time
  sidecar,   \* session.json: [drops, known], known being the monotonic time
             \* of its last anchor, -1 when it has none
  failed     \* the last meta.Write has failed

ringVars == <<lost, unread, answered>>
metaVars == <<recorded, metaAt, sidecar, failed>>
sidecarVars == <<clockVars, ringVars, main, metaVars>>

\* The packets that the rings of S have dropped, each with its ring and number.
Dropped(counts, S) == {d \in S \X (1 .. MaxDrops) : d[2] <= counts[d[1]]}

\* The sum of the counters of S.
Total(counts, S) == Cardinality(Dropped(counts, S))

\* meta.Write: a temporary file and a rename, so a failure leaves the old one.
WritesMeta ==
  \/ /\ sidecar' = [drops |-> recorded', known |-> anchors'[Len(anchors')].mono]
     /\ failed' = FALSE
  \/ failed' = TRUE /\ UNCHANGED sidecar

-----------------------------------------------------------------------------
\* A ring overflows; it goes on doing so while the session shuts down.
KernelDrops(s) ==
  /\ main \in {"loop", "stopping"} /\ s \in unread
  /\ lost[s] < MaxDrops
  /\ lost' = [lost EXCEPT ![s] = @ + 1]
  /\ UNCHANGED <<clockVars, main, unread, answered, metaVars>>

\* Mutant: the file is refreshed when the clock has just taken a periodic
\* anchor.
RefreshesWithAnchors ==
  IF anchors' # anchors /\ anchors'[Len(anchors')].kind = "periodic"
  THEN metaAt' = mono' /\ WritesMeta
  ELSE UNCHANGED <<metaAt, sidecar, failed>>

\* "So an abrupt kill leaves recent metadata": lastMetaWrite is set whether or
\* not the write succeeds.
Refreshes ==
  IF mono' - metaAt >= AnchorInterval
  THEN metaAt' = mono' /\ WritesMeta
  ELSE UNCHANGED <<metaAt, sidecar, failed>>

\* Source.Stats of every source; one that fails is left out of the sum.
Counts ==
  \E answering \in SUBSET Sources : recorded' = Total(lost, answering)

\* A tick of the loop.  At the disk floor the loop ends before the refresh.
LoopTick(gap, jump) ==
  /\ main = "loop"
  /\ Tick(gap, jump)
  /\ Counts
  /\ \/ UNCHANGED main /\ Refreshes
     \/ main' = "stopping" /\ UNCHANGED <<metaAt, sidecar, failed>>
  /\ UNCHANGED ringVars

\* A signal, or a tick that finds a failed journal write, ends the loop.
Stop ==
  /\ main = "loop"
  /\ main' = "stopping"
  /\ UNCHANGED <<clockVars, ringVars, metaVars>>

\* Mutant: shutdown relies on the last tick.
ReadsNothing(s) ==
  /\ main = "stopping" /\ s \in unread
  /\ unread' = unread \ {s}
  /\ answered' = answered \cup {s}
  /\ UNCHANGED <<clockVars, lost, main, metaVars>>

\* Shutdown adds what the source says to what the last tick recorded, and
\* closes the source.
ReadsLast(s) ==
  /\ main = "stopping" /\ s \in unread
  /\ unread' = unread \ {s}
  /\ \/ recorded' = recorded + lost[s] /\ answered' = answered \cup {s}
     \/ UNCHANGED <<recorded, answered>>
  /\ UNCHANGED <<clockVars, lost, main, metaAt, sidecar, failed>>

\* clock.Close and the last meta.Write.
Finishes(gap, jump) ==
  /\ main = "stopping" /\ unread = {}
  /\ main' = "exited"
  /\ Close(gap, jump)
  /\ UNCHANGED <<ringVars, recorded, metaAt>>
  /\ WritesMeta

Killed ==
  /\ main \in {"loop", "stopping"}
  /\ main' = "killed"
  /\ UNCHANGED <<clockVars, ringVars, metaVars>>

SidecarInit ==
  /\ ClockInit
  /\ lost = [s \in Sources |-> 0]
  /\ main = "loop"
  /\ unread = Sources /\ answered = {}
  /\ recorded = 0 /\ metaAt = 0 /\ failed = FALSE
  /\ sidecar = [drops |-> 0, known |-> -1]

SidecarNext ==
  \/ \E s \in Sources : KernelDrops(s) \/ ReadsLast(s)
  \/ \E gap \in 1 .. MaxGap, jump \in Jumps : LoopTick(gap, jump) \/ Finishes(gap, jump)
  \/ Stop \/ Killed

SidecarSpec == SidecarInit /\ [][SidecarNext]_sidecarVars

-----------------------------------------------------------------------------
(* Properties                                                              *)

\* "The number that tells a contributor their capture is worthless" (Stats):
\* session.json of a session that ended itself never says less than what the
\* rings that could still be asked had dropped, whatever failed at the ticks.
DropsNeverHidden ==
  main = "exited" /\ ~failed => sidecar.drops >= Total(lost, answered)

\* The refresh exists "so an abrupt kill leaves recent metadata rather than
\* only what was known at second zero" (captureSession): while it can be
\* written, session.json has an anchor after one interval and one gap between
\* ticks, and its last anchor is never older than another interval, although
\* anchors and refreshes have timers of their own and steps restart only one.
KilledIsRecent ==
  ~failed =>
    \/ sidecar.known = -1 /\ mono < AnchorInterval + MaxGap
    \/ sidecar.known # -1 /\ mono - sidecar.known < 2 * AnchorInterval + MaxGap
=============================================================================
