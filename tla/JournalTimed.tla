---------------------------- MODULE JournalTimed -----------------------------
(***************************************************************************)
(* The flush cadence of the journal: what a kill can cost, in time.        *)
(*                                                                         *)
(* The capture loop's ticker calls Writer.Tick once per TickPeriod; Write  *)
(* and Tick sync when FlushInterval has passed since lastFlush.  After a   *)
(* rotation lastFlush is the kernel timestamp of a frame, which carries no *)
(* monotonic reading, so time.Since then compares wall clocks; in every    *)
(* other case it compares monotonic readings.                              *)
(*                                                                         *)
(* The ticker is punctual here.  Every step of Journal is a step here too, *)
(* failures, Close and a kill included.                                    *)
(***************************************************************************)
EXTENDS Journal

CONSTANTS
  FlushInterval,  \* in units of model time
  TickPeriod,
  MaxLag,         \* longest wait of a frame between kernel and journal
  Steps,          \* by how much the wall clock may step, once
  Horizon         \* bound: up to which time is told apart

ASSUME TimedAssumption ==
  /\ FlushInterval \in Nat \ {0} /\ TickPeriod \in Nat \ {0}
  /\ MaxLag \in Nat /\ Steps \subseteq Int
  /\ Horizon \in Nat /\ Horizon >= FlushInterval + TickPeriod

VARIABLES
  elapsed,   \* what time.Since(w.lastFlush) returns
  wallRef,   \* w.lastFlush has no monotonic reading
  toTick,    \* time until the ticker fires
  age,       \* time since the oldest unsynced frame was journaled, -1 if none
  stepped    \* the wall clock has stepped

timeVars == <<elapsed, wallRef, toTick, age, stepped>>
timedVars == <<journalVars, timeVars>>

\* Writer.Write of a frame the kernel saw lag units ago; bytes says that
\* FlushBytes are waiting.
WriteAt(f, rotate, lag, bytes) ==
  LET since == IF rotate THEN lag ELSE elapsed
      flush == bytes \/ since >= FlushInterval
  IN  /\ WriteOk(f, rotate, flush)
      /\ elapsed' = IF flush THEN 0 ELSE since
      /\ wallRef' = (~flush /\ (rotate \/ wallRef))
      /\ age' = CASE flush                -> -1
                  [] ~flush /\ rotate     -> 0
                  [] ~flush /\ ~rotate    -> IF age = -1 THEN 0 ELSE age
      /\ UNCHANGED <<toTick, stepped>>

\* The same when it fails: lastFlush is then that of the rotation or as it was.
WriteFailsAt(f, rotate, lag, bytes) ==
  LET since == IF rotate THEN lag ELSE elapsed
  IN  /\ bytes \/ since >= FlushInterval
      /\ WriteFailsSyncing(f, rotate)
      /\ elapsed' = since
      /\ wallRef' = (rotate \/ wallRef)
      /\ age' = IF rotate \/ age = -1 THEN 0 ELSE age
      /\ UNCHANGED <<toTick, stepped>>

WriteFailsEarly ==
  \/ /\ WriteFailsFinishing \/ WriteFailsSpilling
     /\ UNCHANGED timeVars
  \/ /\ WriteFailsOpening
     /\ age' = -1
     /\ UNCHANGED <<elapsed, wallRef, toTick, stepped>>

\* Mutant: only a tick strictly after the interval syncs.
DueLater == elapsed > FlushInterval

Due == elapsed >= FlushInterval

\* Writer.Tick, called by the loop when the ticker fires.  A sync that fails
\* leaves lastFlush alone.
TickNow ==
  /\ toTick = 0 /\ isOpen /\ ~killed
  /\ toTick' = TickPeriod
  /\ \/ /\ Due
        /\ TickSyncs
        /\ elapsed' = 0 /\ wallRef' = FALSE /\ age' = -1
     \/ /\ Due
        /\ TickFails
        /\ UNCHANGED <<elapsed, wallRef, age>>
     \/ /\ ~Due
        /\ UNCHANGED <<journalVars, elapsed, wallRef, age>>
  /\ UNCHANGED stepped

Later(t) == IF t < Horizon THEN t + 1 ELSE t

\* Time does not pass a tick that is due.
Advance ==
  /\ toTick > 0 /\ isOpen /\ ~killed
  /\ toTick' = toTick - 1
  /\ elapsed' = Later(elapsed)
  /\ age' = IF age = -1 THEN -1 ELSE Later(age)
  /\ UNCHANGED <<journalVars, wallRef, stepped>>

StepClock ==
  /\ ~stepped
  /\ stepped' = TRUE
  /\ \E d \in Steps : elapsed' = IF wallRef THEN elapsed + d ELSE elapsed
  /\ UNCHANGED <<journalVars, wallRef, toTick, age>>

\* Close looks at no timer, and a kill waits for none.
Ends ==
  \/ /\ CloseOk
     /\ age' = -1
     /\ UNCHANGED <<elapsed, wallRef, toTick, stepped>>
  \/ /\ CloseFails \/ Kill
     /\ UNCHANGED timeVars

TimedInit ==
  /\ JournalInit
  /\ elapsed = 0 /\ wallRef = FALSE
  /\ toTick = TickPeriod
  /\ age = -1
  /\ stepped = FALSE

TimedNext ==
  \/ /\ ~writeErr
     /\ \/ \E f \in Frames, rotate, bytes \in BOOLEAN, lag \in 0 .. MaxLag :
             WriteAt(f, rotate, lag, bytes) \/ WriteFailsAt(f, rotate, lag, bytes)
        \/ Frames # {} /\ WriteFailsEarly
  \/ TickNow
  \/ Advance
  \/ StepClock
  \/ Ends

TimedSpec == TimedInit /\ [][TimedNext]_timedVars

-----------------------------------------------------------------------------
(* Properties                                                              *)

\* Until an I/O error a journaled frame waits less than one flush interval and
\* one tick for its sync, so that is what a kill can cost: a tick that comes too
\* early to find the interval elapsed is followed by one that does (Writer.Tick).
LossBounded == faults = 0 => age < FlushInterval + TickPeriod
=============================================================================
