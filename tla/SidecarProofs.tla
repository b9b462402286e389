---------------------------- MODULE SidecarProofs ----------------------------
(***************************************************************************)
(* What the anchors and session.json are worth, for every interval,        *)
(* threshold, gap between ticks and series of jumps, and whatever number   *)
(* of rings drops packets.                                                 *)
(***************************************************************************)
EXTENDS Sidecar, FiniteSetTheorems, TLAPS

AnchorType == [mono : Nat, offset : Int, kind : {"start", "periodic", "step_detected", "end"}]

\* Between two ticks the last anchor is younger than an interval, and hides at
\* most one threshold for every tick since.
ClockInv ==
  /\ mono \in Nat /\ offset \in Int /\ quiet \in Nat
  /\ anchors \in Seq(AnchorType) /\ Len(anchors) > 0
  /\ LastAnchor.mono <= mono
  /\ AnchorsAreDense
  /\ ~ended =>
       /\ lastDelta = offset
       /\ lastTick = LastAnchor.mono /\ mono - lastTick < AnchorInterval
       /\ offset - LastAnchor.offset <= StepThreshold * quiet
       /\ LastAnchor.offset - offset <= StepThreshold * quiet

\* One more anchor, later than the last and less than an interval and a gap.
LEMMA AnchorAppended ==
  ASSUME ClockInv, NEW m \in Nat, NEW o \in Int,
         NEW kind \in {"start", "periodic", "step_detected", "end"},
         anchors' = Append(anchors, Anchor(m, o, kind)),
         LastAnchor.mono < m, m - LastAnchor.mono < AnchorInterval + MaxGap
  PROVE  /\ anchors' \in Seq(AnchorType) /\ Len(anchors') > 0
         /\ LastAnchor' = Anchor(m, o, kind)
         /\ AnchorsAreDense'
<1>1. Anchor(m, o, kind) \in AnchorType
  BY DEF Anchor, AnchorType
<1>2. /\ anchors' \in Seq(AnchorType) /\ Len(anchors') = Len(anchors) + 1
      /\ anchors'[Len(anchors')] = Anchor(m, o, kind)
      /\ \A k \in 1 .. Len(anchors) : anchors'[k] = anchors[k]
  BY <1>1 DEF ClockInv
<1>3. AnchorsAreDense'
  <2> SUFFICES ASSUME NEW k \in 2 .. Len(anchors')
               PROVE  /\ anchors'[k - 1].mono < anchors'[k].mono
                      /\ anchors'[k].mono - anchors'[k - 1].mono < AnchorInterval + MaxGap
    BY DEF AnchorsAreDense
  <2>1. CASE k \in 2 .. Len(anchors)
    BY <1>2, <2>1 DEF ClockInv, AnchorsAreDense
  <2>2. CASE k = Len(anchors) + 1
    <3>1. anchors'[k].mono = m /\ anchors'[k - 1] = LastAnchor
      BY <1>2, <2>2 DEF Anchor, LastAnchor, ClockInv
    <3> QED
      BY <3>1
  <2> QED
    BY <1>2, <2>1, <2>2 DEF ClockInv
<1> QED
  BY <1>2, <1>3 DEF LastAnchor, ClockInv

\* The clock starts with one anchor that tells the time.
LEMMA ClockInitial == ClockInit => ClockInv
<1> SUFFICES ASSUME ClockInit PROVE ClockInv
  OBVIOUS
<1>1. anchors \in Seq(AnchorType) /\ Len(anchors) = 1 /\ anchors[1] = Anchor(0, 0, "start")
  BY DEF ClockInit, Anchor, AnchorType
<1> QED
  BY <1>1, ClockAssumption
  DEF ClockInit, ClockInv, LastAnchor, Anchor, AnchorsAreDense, ClockAssumption

\* A tick of the clock leaves anchors that tell the time.
LEMMA TickKeeps ==
  ASSUME ClockInv, NEW gap \in 1 .. MaxGap, NEW jump \in Jumps, Tick(gap, jump)
  PROVE  ClockInv'
<1>1. /\ gap \in Nat /\ gap >= 1 /\ gap <= MaxGap /\ jump \in Int
      /\ AnchorInterval \in Nat /\ AnchorInterval > 0 /\ StepThreshold \in Nat /\ MaxGap \in Nat
  BY ClockAssumption DEF ClockAssumption
<1>2. /\ ~ended /\ ~ended' /\ mono' = mono + gap /\ offset' = offset + jump /\ lastDelta' = offset'
      /\ mono' \in Nat /\ offset' \in Int
  BY <1>1 DEF Tick, Passes, ClockInv
<1>3. /\ lastTick = LastAnchor.mono /\ mono - lastTick < AnchorInterval
      /\ lastDelta = offset /\ LastAnchor \in AnchorType
  BY <1>2 DEF ClockInv, LastAnchor
<1>3a. mono \in Nat /\ LastAnchor.mono \in Nat /\ LastAnchor.mono <= mono
  BY <1>3 DEF ClockInv, AnchorType
<1>4. ASSUME NEW kind \in {"periodic", "step_detected"}, Record(kind) PROVE ClockInv'
  <2>1. LastAnchor.mono < mono' /\ mono' - LastAnchor.mono < AnchorInterval + MaxGap
    BY <1>1, <1>2, <1>3, <1>3a
  <2>2. /\ anchors' = Append(anchors, Anchor(mono', offset', kind))
        /\ lastTick' = mono' /\ quiet' = 0
    BY <1>4 DEF Record
  <2>3. /\ anchors' \in Seq(AnchorType) /\ Len(anchors') > 0
        /\ LastAnchor' = Anchor(mono', offset', kind) /\ AnchorsAreDense'
    BY <1>2, <2>1, <2>2, AnchorAppended
  <2>4. LastAnchor'.mono = mono' /\ LastAnchor'.offset = offset'
    BY <2>3 DEF Anchor
  <2>5. StepThreshold * quiet' = 0
    BY <1>1, <2>2
  <2> QED
    BY <1>1, <1>2, <2>2, <2>3, <2>4, <2>5 DEF ClockInv
<1>5. CASE /\ ~IsStep(offset' - lastDelta) /\ mono' - lastTick < AnchorInterval
           /\ quiet' = quiet + 1 /\ UNCHANGED <<anchors, lastTick>>
  <2>1. jump <= StepThreshold /\ -StepThreshold <= jump
    BY <1>1, <1>2, <1>3, <1>5 DEF IsStep, ClockInv
  <2>2. StepThreshold * quiet' = StepThreshold * quiet + StepThreshold
    BY <1>1, <1>5 DEF ClockInv
  <2>3. StepThreshold * quiet \in Int /\ LastAnchor.offset \in Int
    BY <1>1, <1>3 DEF ClockInv, AnchorType
  <2>4. /\ offset' - LastAnchor.offset <= StepThreshold * quiet'
        /\ LastAnchor.offset - offset' <= StepThreshold * quiet'
    <3> DEFINE hidden == StepThreshold * quiet
    <3>1. /\ hidden \in Int
          /\ offset - LastAnchor.offset <= hidden /\ LastAnchor.offset - offset <= hidden
      BY <1>2, <2>3 DEF ClockInv
    <3>2. StepThreshold * quiet' = hidden + StepThreshold
      BY <2>2
    <3>3. offset \in Int
      BY DEF ClockInv
    <3> HIDE DEF hidden
    <3> QED
      BY ONLY <1>1, <1>2, <2>1, <2>3, <3>1, <3>2, <3>3
  <2>5. anchors' = anchors /\ lastTick' = lastTick
    BY <1>5
  <2>6. LastAnchor' = LastAnchor
    BY <2>5 DEF LastAnchor
  <2>7. AnchorsAreDense'
    BY <2>5 DEF AnchorsAreDense, ClockInv
  <2>8. LastAnchor.mono <= mono' /\ quiet' \in Nat
    BY <1>1, <1>2, <1>5, <1>3a DEF ClockInv
  <2> QED
    BY <1>2, <1>3, <1>5, <2>4, <2>5, <2>6, <2>7, <2>8 DEF ClockInv
<1>6. \/ Record("step_detected") \/ Record("periodic")
      \/ /\ ~IsStep(offset' - lastDelta) /\ mono' - lastTick < AnchorInterval
         /\ quiet' = quiet + 1 /\ UNCHANGED <<anchors, lastTick>>
  <2>1. mono' - lastTick \in Int
    BY <1>2, <1>3 DEF AnchorType
  <2> QED
    BY <1>1, <2>1 DEF Tick
<1> QED
  BY <1>4, <1>5, <1>6

\* Closing the clock leaves anchors that tell the time.
LEMMA CloseKeeps ==
  ASSUME ClockInv, NEW gap \in 1 .. MaxGap, NEW jump \in Jumps, Close(gap, jump)
  PROVE  ClockInv' /\ LastAnchor'.mono = mono'
<1>1. /\ gap \in Nat /\ gap >= 1 /\ gap <= MaxGap /\ jump \in Int
      /\ AnchorInterval \in Nat /\ MaxGap \in Nat
  BY ClockAssumption DEF ClockAssumption
<1>2. /\ ~ended /\ ended' /\ mono' = mono + gap /\ offset' = offset + jump
      /\ mono' \in Nat /\ offset' \in Int /\ quiet' = quiet
  BY <1>1 DEF Close, Passes, ClockInv
<1>3. LastAnchor \in AnchorType
  BY DEF ClockInv, LastAnchor
<1>4. LastAnchor.mono < mono' /\ mono' - LastAnchor.mono < AnchorInterval + MaxGap
  <2>1. LastAnchor.mono \in Nat
    BY <1>3 DEF AnchorType
  <2>2. /\ mono \in Nat /\ LastAnchor.mono <= mono
        /\ lastTick = LastAnchor.mono /\ mono - lastTick < AnchorInterval
    BY <1>2 DEF ClockInv
  <2> QED
    BY ONLY <1>1, <1>2, <2>1, <2>2
<1>5. anchors' = Append(anchors, Anchor(mono', offset', "end"))
  BY DEF Close
<1>6. /\ anchors' \in Seq(AnchorType) /\ Len(anchors') > 0
      /\ LastAnchor' = Anchor(mono', offset', "end") /\ AnchorsAreDense'
  BY <1>2, <1>4, <1>5, AnchorAppended
<1>7. LastAnchor'.mono = mono'
  BY <1>6 DEF Anchor
<1> QED
  BY <1>2, <1>6, <1>7 DEF ClockInv

-----------------------------------------------------------------------------
(* session.json                                                            *)

\* The last refresh that came off took the last anchor of its time, which was
\* younger than an interval; the loop refreshes before a tick is an interval
\* past the last refresh, and only the tick that ends it may fail to.
SidecarInv ==
  /\ ClockInv
  /\ metaAt \in Nat /\ sidecar.known \in Int
  /\ main \in {"loop", "stopping", "exited", "killed"}
  /\ main \in {"loop", "stopping"} => ~ended
  /\ main = "loop" => mono - metaAt < AnchorInterval
  /\ main # "exited" => mono - metaAt < AnchorInterval + MaxGap
  /\ ~failed /\ main # "exited" =>
       \/ sidecar.known = -1 /\ metaAt = 0
       \/ sidecar.known # -1 /\ metaAt - sidecar.known < AnchorInterval
  /\ ~failed /\ main = "exited" => sidecar.known # -1 /\ sidecar.known = mono

\* The first session.json satisfies the invariant.
LEMMA SidecarInitial == SidecarInit => SidecarInv
<1> SUFFICES ASSUME SidecarInit PROVE SidecarInv
  OBVIOUS
<1>1. ClockInv
  BY ClockInitial DEF SidecarInit
<1>2. mono = 0 /\ ended = FALSE /\ AnchorInterval \in Nat /\ AnchorInterval > 0 /\ MaxGap \in Nat
  BY ClockAssumption DEF SidecarInit, ClockInit, ClockAssumption
<1>3. main = "loop" /\ metaAt = 0 /\ sidecar = [drops |-> 0, known |-> -1]
  BY DEF SidecarInit
<1> QED
  BY <1>1, <1>2, <1>3 DEF SidecarInv

\* What a meta.Write leaves in session.json.
LEMMA WritesKnown ==
  ASSUME ClockInv', sidecar.known \in Int, WritesMeta
  PROVE  /\ sidecar'.known \in Int
         /\ ~failed' => sidecar'.known = LastAnchor'.mono /\ sidecar'.known >= 0
<1>1. LastAnchor' \in AnchorType
  BY DEF ClockInv, LastAnchor
<1>2. LastAnchor'.mono \in Nat
  BY <1>1 DEF AnchorType
<1>3. CASE /\ sidecar' = [drops |-> recorded', known |-> anchors'[Len(anchors')].mono]
           /\ failed' = FALSE
  <2>1. sidecar'.known = LastAnchor'.mono
    BY <1>3 DEF LastAnchor
  <2> QED
    BY <1>2, <2>1
<1>4. CASE failed' = TRUE /\ UNCHANGED sidecar
  BY <1>4
<1> QED
  BY <1>3, <1>4 DEF WritesMeta

\* What is not an interval old is younger than one, and than one and a gap.
LEMMA Younger ==
  \A m, at \in Int : \A i, g \in Nat :
    i > 0 =>
      /\ ~(m - at >= i) => m - at < i /\ m - at < i + g
      /\ m = at => m - at < i /\ m - at < i + g
OBVIOUS

\* A tick of the loop, whatever its writes do, keeps the invariant.
LEMMA LoopTickKeeps ==
  ASSUME SidecarInv, NEW gap \in 1 .. MaxGap, NEW jump \in Jumps, LoopTick(gap, jump)
  PROVE  SidecarInv'
<1>1. ClockInv' /\ mono' = mono + gap /\ ~ended' /\ main = "loop"
  BY TickKeeps DEF SidecarInv, LoopTick, Tick, Passes
<1>2. /\ gap \in Nat /\ gap <= MaxGap /\ MaxGap \in Nat
      /\ AnchorInterval \in Nat /\ AnchorInterval > 0
      /\ mono \in Nat /\ mono' \in Nat /\ metaAt \in Nat /\ mono - metaAt < AnchorInterval
      /\ sidecar.known \in Int
  BY <1>1, ClockAssumption DEF ClockAssumption, SidecarInv, ClockInv
<1>3. CASE main' = "stopping" /\ UNCHANGED <<metaAt, sidecar, failed>>
  <2>1. mono' - metaAt' < AnchorInterval + MaxGap
    BY <1>1, <1>2, <1>3
  <2> QED
    BY <1>1, <1>2, <1>3, <2>1 DEF SidecarInv
<1>4. CASE UNCHANGED main /\ Refreshes
  <2>1. CASE mono' - metaAt >= AnchorInterval
    <3>1. metaAt' = mono' /\ WritesMeta
      BY <1>4, <2>1 DEF Refreshes
    <3>2. /\ sidecar'.known \in Int
          /\ ~failed' => sidecar'.known = LastAnchor'.mono /\ sidecar'.known >= 0
      BY <1>1, <1>2, <3>1, WritesKnown
    <3>3. mono' - LastAnchor'.mono < AnchorInterval
      BY <1>1 DEF ClockInv
    <3>4. mono' - metaAt' < AnchorInterval /\ mono' - metaAt' < AnchorInterval + MaxGap
      <4>1. mono' \in Int /\ metaAt' \in Int /\ mono' = metaAt'
        BY <1>2, <3>1
      <4>2. AnchorInterval \in Nat /\ MaxGap \in Nat /\ AnchorInterval > 0
        BY <1>2
      <4> QED
        BY <4>1, <4>2, Younger, Zenon
    <3>5. ~failed' => sidecar'.known # -1 /\ metaAt' - sidecar'.known < AnchorInterval
      BY <3>1, <3>2, <3>3
    <3> QED
      BY <1>1, <1>2, <1>4, <3>1, <3>2, <3>4, <3>5 DEF SidecarInv
  <2>2. CASE ~(mono' - metaAt >= AnchorInterval)
    <3>1. UNCHANGED <<metaAt, sidecar, failed>>
      BY <1>4, <2>2 DEF Refreshes
    <3>2. mono' - metaAt' < AnchorInterval /\ mono' - metaAt' < AnchorInterval + MaxGap
      <4>1. mono' \in Int /\ metaAt \in Int /\ metaAt' = metaAt
        BY <1>2, <3>1
      <4>2. AnchorInterval \in Nat /\ MaxGap \in Nat /\ AnchorInterval > 0
        BY <1>2
      <4>3. mono' - metaAt < AnchorInterval /\ mono' - metaAt < AnchorInterval + MaxGap
        BY <2>2, <4>1, <4>2, Younger, Zenon
      <4> QED
        BY <4>1, <4>3, Zenon
    <3> QED
      BY <1>1, <1>2, <1>4, <3>1, <3>2 DEF SidecarInv
  <2> QED
    BY <2>1, <2>2
<1> QED
  BY <1>3, <1>4 DEF LoopTick

\* Finishing keeps the invariant.
LEMMA FinishesKeeps ==
  ASSUME SidecarInv, NEW gap \in 1 .. MaxGap, NEW jump \in Jumps, Finishes(gap, jump)
  PROVE  SidecarInv'
<1>1. ClockInv' /\ LastAnchor'.mono = mono'
  BY CloseKeeps DEF SidecarInv, Finishes
<1>2. main' = "exited" /\ metaAt' = metaAt /\ metaAt \in Nat /\ sidecar.known \in Int /\ WritesMeta
  BY DEF SidecarInv, Finishes
<1>3. /\ sidecar'.known \in Int
      /\ ~failed' => sidecar'.known = mono' /\ sidecar'.known >= 0
  BY <1>1, <1>2, WritesKnown
<1> QED
  BY <1>1, <1>2, <1>3 DEF SidecarInv

\* The other steps leave the clock and session.json alone.
LEMMA OthersKeep ==
  ASSUME SidecarInv, UNCHANGED <<clockVars, metaAt, sidecar, failed>>,
         \/ main' = main
         \/ main = "loop" /\ main' = "stopping"
         \/ main \in {"loop", "stopping"} /\ main' = "killed"
  PROVE  SidecarInv'
<1>1. ClockInv' /\ mono' = mono /\ ended' = ended
  BY DEF clockVars, SidecarInv, ClockInv, LastAnchor, AnchorsAreDense
<1>2. metaAt' = metaAt /\ sidecar' = sidecar /\ failed' = failed
  OBVIOUS
<1> QED
  BY <1>1, <1>2 DEF SidecarInv

\* Every step keeps the invariant.
LEMMA SidecarInductive == SidecarSpec => []SidecarInv
<1>1. ASSUME SidecarInv, [SidecarNext]_sidecarVars PROVE SidecarInv'
  <2>1. ASSUME NEW s \in Sources, KernelDrops(s) PROVE SidecarInv'
    BY <1>1, <2>1, OthersKeep DEF KernelDrops, metaVars
  <2>2. ASSUME NEW s \in Sources, ReadsLast(s) PROVE SidecarInv'
    BY <1>1, <2>2, OthersKeep DEF ReadsLast
  <2>3. ASSUME NEW gap \in 1 .. MaxGap, NEW jump \in Jumps, LoopTick(gap, jump)
        PROVE  SidecarInv'
    BY <1>1, <2>3, LoopTickKeeps
  <2>4. ASSUME NEW gap \in 1 .. MaxGap, NEW jump \in Jumps, Finishes(gap, jump)
        PROVE  SidecarInv'
    BY <1>1, <2>4, FinishesKeeps
  <2>5. CASE Stop
    BY <1>1, <2>5, OthersKeep DEF Stop, metaVars
  <2>6. CASE Killed
    BY <1>1, <2>6, OthersKeep DEF Killed, metaVars
  <2>7. CASE UNCHANGED sidecarVars
    BY <1>1, <2>7, OthersKeep DEF sidecarVars, metaVars
  <2> QED
    BY <1>1, <2>1, <2>2, <2>3, <2>4, <2>5, <2>6, <2>7 DEF SidecarNext
<1> QED
  BY SidecarInitial, <1>1, PTL DEF SidecarSpec

\* For every interval, threshold and series of jumps: no stretch of a session
\* is without an anchor, and none hides more than slow drift (Clock.Tick,
\* Clock.Close).
THEOREM AnchorsTell == SidecarSpec => []AnchorsTellTheClock
<1>1. SidecarInv => AnchorsTellTheClock
  BY DEF SidecarInv, ClockInv, AnchorsTellTheClock, HiddenDriftIsBounded
<1> QED
  BY <1>1, SidecarInductive, PTL

\* For every interval and gap between ticks: session.json of a session that is
\* killed is at most two intervals and a gap behind (captureSession's refresh).
THEOREM KilledMetadataIsRecent == SidecarSpec => []KilledIsRecent
<1>1. ASSUME SidecarInv PROVE KilledIsRecent
  <2>1. /\ AnchorInterval \in Nat /\ AnchorInterval > 0 /\ MaxGap \in Nat
        /\ mono \in Nat /\ metaAt \in Nat /\ sidecar.known \in Int
    BY <1>1, ClockAssumption DEF ClockAssumption, SidecarInv, ClockInv
  <2>2. CASE main = "exited"
    BY <1>1, <2>1, <2>2 DEF SidecarInv, KilledIsRecent
  <2>3. CASE main # "exited"
    BY <1>1, <2>1, <2>3 DEF SidecarInv, KilledIsRecent
  <2> QED
    BY <2>2, <2>3
<1> QED
  BY <1>1, SidecarInductive, PTL

-----------------------------------------------------------------------------
(* The drops                                                               *)

LossType == [Sources -> 0 .. MaxDrops]

\* The packets that the rings dropped are finitely many.
LEMMA DroppedFinite ==
  ASSUME NEW counts \in LossType, NEW S \in SUBSET Sources
  PROVE  /\ IsFiniteSet(Dropped(counts, S))
         /\ Total(counts, S) \in Nat
<1>1. IsFiniteSet(S) /\ IsFiniteSet(1 .. MaxDrops)
  BY SidecarAssumption, FS_Subset, FS_Interval DEF SidecarAssumption
<1>2. IsFiniteSet(S \X (1 .. MaxDrops))
  BY <1>1, FS_Product
<1>3. Dropped(counts, S) \in SUBSET (S \X (1 .. MaxDrops))
  BY DEF Dropped
<1>4. IsFiniteSet(Dropped(counts, S))
  BY <1>2, <1>3, FS_Subset
<1> QED
  BY <1>4, FS_CardinalityType DEF Total

\* One more ring adds its own counter to the total.
LEMMA TotalAdds ==
  ASSUME NEW counts \in LossType, NEW S \in SUBSET Sources,
         NEW s \in Sources, s \notin S
  PROVE  Total(counts, S \cup {s}) = Total(counts, S) + counts[s]
<1> DEFINE own == {s} \X (1 .. counts[s])
<1>1. counts[s] \in Nat /\ counts[s] <= MaxDrops /\ MaxDrops \in Nat
  BY SidecarAssumption DEF SidecarAssumption, LossType
<1>2. IsFiniteSet({s}) /\ Cardinality({s}) = 1
  BY FS_Singleton
<1>3. IsFiniteSet(1 .. counts[s]) /\ Cardinality(1 .. counts[s]) = counts[s]
  <2>1. 1 \in Int /\ counts[s] \in Int
    BY <1>1
  <2>2. /\ IsFiniteSet(1 .. counts[s])
        /\ Cardinality(1 .. counts[s]) = IF 1 > counts[s] THEN 0 ELSE counts[s] - 1 + 1
    BY <2>1, FS_Interval
  <2> QED
    BY <1>1, <2>2
<1>4. IsFiniteSet(own) /\ Cardinality(own) = counts[s]
  <2>1. IsFiniteSet(own) /\ Cardinality(own) = Cardinality({s}) * Cardinality(1 .. counts[s])
    BY <1>2, <1>3, FS_Product
  <2> QED
    BY <1>1, <1>2, <1>3, <2>1
<1>5. Dropped(counts, S \cup {s}) = Dropped(counts, S) \cup own
  BY <1>1 DEF Dropped
<1>6. Dropped(counts, S) \cap own = {}
  BY DEF Dropped
<1> HIDE DEF own
<1>7. Cardinality(Dropped(counts, S) \cup own)
        = Cardinality(Dropped(counts, S)) + Cardinality(own) - Cardinality({})
  BY <1>4, <1>6, DroppedFinite, FS_Union
<1>8. Cardinality(Dropped(counts, S)) \in Nat
  BY DroppedFinite DEF Total
<1>9. Total(counts, S \cup {s}) = Cardinality(Dropped(counts, S) \cup own)
  BY <1>5 DEF Total
<1> QED
  BY <1>1, <1>4, <1>7, <1>8, <1>9, FS_EmptySet DEF Total

\* What one ring drops is nothing to the total of others.
LEMMA TotalSame ==
  ASSUME NEW counts \in LossType, NEW S \in SUBSET Sources, NEW s \in Sources, s \notin S,
         NEW n
  PROVE  Total([counts EXCEPT ![s] = n], S) = Total(counts, S)
<1>1. \A r \in S : [counts EXCEPT ![s] = n][r] = counts[r]
  BY DEF LossType
<1>2. Dropped([counts EXCEPT ![s] = n], S) = Dropped(counts, S)
  BY <1>1 DEF Dropped
<1> QED
  BY <1>2 DEF Total

\* Of the rings that have answered for the last time, meta.Host.PacketsDropped
\* misses nothing; the sum of a tick can only come on top.
DropsInv ==
  /\ lost \in LossType /\ recorded \in Nat
  /\ unread \subseteq Sources /\ answered \subseteq Sources /\ unread \cap answered = {}
  /\ main \in {"loop", "stopping", "exited", "killed"}
  /\ main = "loop" => answered = {}
  /\ main \in {"loop", "stopping"} => recorded >= Total(lost, answered)
  /\ DropsNeverHidden

\* At the start nothing was dropped, and nothing is hidden.
LEMMA DropsInitial == SidecarInit => DropsInv
<1> SUFFICES ASSUME SidecarInit PROVE DropsInv
  OBVIOUS
<1>1. Dropped(lost, {}) = {}
  BY DEF Dropped
<1>2. Total(lost, {}) = 0
  BY <1>1, FS_EmptySet DEF Total
<1>3. lost \in LossType
  BY SidecarAssumption DEF SidecarInit, SidecarAssumption, LossType
<1> QED
  BY <1>2, <1>3 DEF SidecarInit, DropsInv, DropsNeverHidden

\* Every step keeps the account of the drops.
LEMMA DropsStep == DropsInv /\ [SidecarNext]_sidecarVars => DropsInv'
<1> SUFFICES ASSUME DropsInv, [SidecarNext]_sidecarVars PROVE DropsInv'
  OBVIOUS
<1>1. Total(lost, answered) \in Nat
  BY DroppedFinite DEF DropsInv
<1>2. ASSUME NEW s \in Sources, KernelDrops(s) PROVE DropsInv'
  <2>1. s \notin answered /\ lost[s] \in Nat /\ lost[s] + 1 <= MaxDrops
    BY <1>2, SidecarAssumption DEF KernelDrops, DropsInv, LossType, SidecarAssumption
  <2>2. lost' \in LossType
    BY <1>2, <2>1 DEF KernelDrops, DropsInv, LossType
  <2>3. answered' = answered /\ lost' = [lost EXCEPT ![s] = lost[s] + 1]
    BY <1>2 DEF KernelDrops
  <2>4. Total(lost', answered') = Total(lost, answered)
    BY <2>1, <2>3, TotalSame DEF DropsInv
  <2>5. main \in {"loop", "stopping"} /\ UNCHANGED <<main, unread, recorded, sidecar, failed>>
    BY <1>2 DEF KernelDrops, metaVars
  <2> QED
    BY <2>2, <2>3, <2>4, <2>5 DEF DropsInv, DropsNeverHidden
<1>3. ASSUME NEW s \in Sources, ReadsLast(s) PROVE DropsInv'
  <2>1. main = "stopping" /\ s \in unread /\ unread' = unread \ {s}
        /\ UNCHANGED <<lost, main, sidecar, failed>>
    BY <1>3 DEF ReadsLast
  <2>2. CASE recorded' = recorded + lost[s] /\ answered' = answered \cup {s}
    <3>1. Total(lost, answered \cup {s}) = Total(lost, answered) + lost[s]
      BY <2>1, TotalAdds DEF DropsInv
    <3>2. lost[s] \in Nat /\ recorded \in Nat /\ recorded >= Total(lost, answered)
      BY <2>1 DEF DropsInv, LossType
    <3>3. recorded' \in Nat /\ recorded' >= Total(lost', answered')
      BY <1>1, <2>1, <2>2, <3>1, <3>2
    <3> QED
      BY <2>1, <2>2, <3>3 DEF DropsInv, DropsNeverHidden
  <2>3. CASE UNCHANGED <<recorded, answered>>
    BY <2>1, <2>3 DEF DropsInv, DropsNeverHidden
  <2> QED
    BY <1>3, <2>2, <2>3 DEF ReadsLast
<1>4. ASSUME NEW gap \in 1 .. MaxGap, NEW jump \in Jumps, LoopTick(gap, jump)
      PROVE  DropsInv'
  <2>1. main = "loop" /\ main' \in {"loop", "stopping"} /\ UNCHANGED <<lost, unread, answered>>
    BY <1>4 DEF LoopTick, ringVars
  <2>2. Dropped(lost, {}) = {}
    BY DEF Dropped
  <2>3. Total(lost', answered') = 0
    BY <2>1, <2>2, FS_EmptySet DEF DropsInv, Total
  <2>4. recorded' \in Nat
    BY <1>4, DroppedFinite DEF LoopTick, Counts, DropsInv
  <2> QED
    BY <2>1, <2>3, <2>4 DEF DropsInv, DropsNeverHidden
<1>5. ASSUME NEW gap \in 1 .. MaxGap, NEW jump \in Jumps, Finishes(gap, jump)
      PROVE  DropsInv'
  <2>1. main = "stopping" /\ main' = "exited" /\ UNCHANGED <<lost, unread, answered, recorded>>
    BY <1>5 DEF Finishes, ringVars
  <2>2. ~failed' => sidecar'.drops = recorded
    BY <1>5, <2>1 DEF Finishes, WritesMeta
  <2> QED
    BY <2>1, <2>2 DEF DropsInv, DropsNeverHidden
<1>6. CASE Stop
  BY <1>6 DEF Stop, ringVars, metaVars, DropsInv, DropsNeverHidden
<1>7. CASE Killed
  BY <1>7 DEF Killed, ringVars, metaVars, DropsInv, DropsNeverHidden
<1>8. CASE UNCHANGED sidecarVars
  BY <1>8 DEF sidecarVars, ringVars, metaVars, DropsInv, DropsNeverHidden
<1> QED
  BY <1>2, <1>3, <1>4, <1>5, <1>6, <1>7, <1>8 DEF SidecarNext

\* For any number of rings, whatever each of them drops and whichever readings
\* fail: session.json of a session that ended itself never says less than what
\* the rings that could still be asked had dropped (Source.Stats and the
\* shutdown of captureSession).
THEOREM DropsAreNeverHidden == SidecarSpec => []DropsNeverHidden
<1>1. DropsInv => DropsNeverHidden
  BY DEF DropsInv
<1> QED
  BY <1>1, DropsInitial, DropsStep, PTL DEF SidecarSpec
=============================================================================
