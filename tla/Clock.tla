-------------------------------- MODULE Clock --------------------------------
(***************************************************************************)
(* The session clock (internal/session/clock.go): pairs of wall and        *)
(* monotonic readings, taken so that someone who has only the bundle can   *)
(* tell what the wall clock did.  The capture loop calls Tick about once a *)
(* second and Close once; both run in one goroutine, so one action is all  *)
(* that happens up to and in such a call.                                  *)
(***************************************************************************)
EXTENDS Integers, Sequences

CONSTANTS
  AnchorInterval, StepThreshold,  \* in units of model time
  MaxGap,    \* longest time between two ticks
  Jumps,     \* by how much the wall clock may move against the monotonic one
  MaxTime    \* bound: length of the session

ASSUME ClockAssumption ==
  /\ AnchorInterval \in Nat \ {0} /\ StepThreshold \in Nat \ {0}
  /\ MaxGap \in Nat \ {0} /\ MaxTime \in Nat
  /\ Jumps \subseteq Int

VARIABLES
  mono,       \* monotonic time since the start
  offset,     \* wall time less monotonic time, since the start
  anchors,    \* [mono, offset, kind]; t_wall is the sum
  lastDelta, lastTick,
  quiet,      \* ticks since the last anchor
  ended       \* the capture loop is over

clockVars == <<mono, offset, anchors, lastDelta, lastTick, quiet, ended>>

Anchor(m, o, kind) == [mono |-> m, offset |-> o, kind |-> kind]

LastAnchor == anchors[Len(anchors)]

\* Time passes, and the wall clock is slewed or stepped on the way.
Passes(gap, jump) ==
  /\ ~ended
  /\ mono + gap <= MaxTime
  /\ mono' = mono + gap
  /\ offset' = offset + jump

Record(kind) ==
  /\ anchors' = Append(anchors, Anchor(mono', offset', kind))
  /\ lastTick' = mono'
  /\ quiet' = 0

\* Mutant: only steps forward are looked for.
IsStepForward(d) == d > StepThreshold

IsStep(d) == d > StepThreshold \/ d < -StepThreshold

\* Clock.Tick
Tick(gap, jump) ==
  /\ Passes(gap, jump)
  /\ lastDelta' = offset'
  /\ IF IsStep(offset' - lastDelta) THEN Record("step_detected")
     ELSE IF mono' - lastTick >= AnchorInterval THEN Record("periodic")
     ELSE quiet' = quiet + 1 /\ UNCHANGED <<anchors, lastTick>>
  /\ UNCHANGED ended

\* Clock.Close, whose anchor is not compared with the last one.
Close(gap, jump) ==
  /\ Passes(gap, jump)
  /\ anchors' = Append(anchors, Anchor(mono', offset', "end"))
  /\ ended' = TRUE
  /\ UNCHANGED <<lastDelta, lastTick, quiet>>

ClockInit ==
  /\ mono = 0 /\ offset = 0
  /\ anchors = <<Anchor(0, 0, "start")>>
  /\ lastDelta = 0 /\ lastTick = 0
  /\ quiet = 0
  /\ ended = FALSE

ClockNext ==
  \E gap \in 1 .. MaxGap, jump \in Jumps : Tick(gap, jump) \/ Close(gap, jump)

ClockSpec == ClockInit /\ [][ClockNext]_clockVars

-----------------------------------------------------------------------------
(* Properties                                                              *)

\* Two anchors in a row are closer than one interval and one gap between
\* ticks, also around steps and the end.
AnchorsAreDense ==
  \A k \in 2 .. Len(anchors) :
    /\ anchors[k - 1].mono < anchors[k].mono
    /\ anchors[k].mono - anchors[k - 1].mono < AnchorInterval + MaxGap

\* What the anchors do not show, at any tick, is at most one threshold for
\* every tick since the last of them.
HiddenDriftIsBounded ==
  ~ended =>
    /\ offset - LastAnchor.offset <= StepThreshold * quiet
    /\ LastAnchor.offset - offset <= StepThreshold * quiet

\* "A step is a change in the relationship rather than accumulated drift"
\* (Clock.lastDelta): from the anchors alone one can tell what the wall clock
\* did at any time of the session, up to a bound, because no stretch is without
\* an anchor and none hides more than slow drift.
AnchorsTellTheClock == AnchorsAreDense /\ HiddenDriftIsBounded
=============================================================================
