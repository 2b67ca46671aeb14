----------------------------- MODULE LoopProofs -----------------------------
(***************************************************************************)
(* What `loop` guarantees for every choice of the constants of Loop.tla,   *)
(* and `loop --tune` for every choice of those of Tune.tla.  Both use the  *)
(* session as SessionSpec allows, so the theorems of SessionProofs.tla     *)
(* hold of them; and each has its own invariant, the dashboard's with the  *)
(* CV through dry runs, holds and safe CVs, which those theorems leave out. *)
(***************************************************************************)
EXTENDS Tune, SessionProofs

----------------------------------------------------------------------------
(* Every step of the loop is a step of its session, or leaves it alone.    *)

\* write_safe_cv is a method of the session, or nothing without --safe-cv.
LEMMA WriteSafeSession ==
    ASSUME NEW r \in SinkResults, WriteSafe(r)
    PROVE  [SessionNext]_sessionVars
  BY LoopPolicyAssumption DEF WriteSafe, SessionNext

\* Each step of the loop calls one method of the session at most.
LEMMA LoopSessionStep == [Next]_vars => [SessionNext]_sessionVars
  <1> SUFFICES ASSUME Next PROVE [SessionNext]_sessionVars
    BY DEF vars
  <1>1. CASE Start
    <2> PICK c \in Configs, i \in Intervals, r \in BOOLEAN : StartLoop(c, i, r)
      BY <1>1 DEF Start
    <2>1. FlushOf(i) \in FlushIntervals
      BY DerivedAssumption
    <2> QED  BY <2>1 DEF StartLoop, SessionNext
  <1>2. CASE \/ Top \/ Wake \/ AwakeShutdown \/ TickHeld \/ TickMeasured
             \/ Signal
    BY <1>2 DEF Top, Wake, AwakeShutdown, TickHeld, TickMeasured, Signal
  <1>3. CASE TickSkipped
    BY <1>3 DEF TickSkipped, SessionNext
  <1>4. CASE ReadAndStep
    <2>1. ASSUME NEW r \in SinkResults, PvFails(r)
          PROVE  [SessionNext]_sessionVars
      BY <2>1, WriteSafeSession DEF PvFails
    <2>2. ASSUME NEW pv \in PVs, NEW a \in IAccs, NEW cv \in CVs,
                 NEW r \in SinkResults, Tick(pv, a, cv, r)
          PROVE  [SessionNext]_sessionVars
      BY <2>2 DEF Tick, SessionNext
    <2> QED  BY <1>4, <2>1, <2>2 DEF ReadAndStep
  <1>5. CASE \E r \in SinkResults : FailingSafe(r) \/ FinalSafe(r)
    BY <1>5, WriteSafeSession DEF FailingSafe, FinalSafe
  <1>6. CASE FinalFlush
    BY <1>6 DEF FinalFlush, SessionNext
  <1>7. CASE Return \/ Kill
    BY <1>7 DEF Return, Kill, Gone, SessionNext
  <1>8. CASE Request
    <2>1. ASSUME NEW c \in Configs, SocketSet(c)
          PROVE  [SessionNext]_sessionVars
      BY <2>1 DEF SocketSet, Requests, SessionNext
    <2>2. ASSUME NEW i \in Intervals, SocketSetInterval(i)
          PROVE  [SessionNext]_sessionVars
      BY <2>2, DerivedAssumption DEF SocketSetInterval, Requests, SessionNext
    <2>3. CASE SocketReset \/ SocketHold \/ SocketResume \/ SocketSave
      BY <2>3 DEF SocketReset, SocketHold, SocketResume, SocketSave, Requests,
                  SessionNext
    <2> QED  BY <1>8, <2>1, <2>2, <2>3 DEF Request
  <1>9. CASE Pass
    BY <1>9 DEF Pass, SessionNext
  <1> QED  BY <1>1, <1>2, <1>3, <1>4, <1>5, <1>6, <1>7, <1>8, <1>9
           DEF Next, LoopStep

\* loop drives its session only in ways that Session.tla covers.
THEOREM LoopUsesSession == Spec => SessionSpec
  <1>1. Init => SessionInit
    BY DEF Init
  <1> QED  BY <1>1, LoopSessionStep, PTL DEF Spec, SessionSpec

\* So through every run_loop, failure, restart and kill the state file is a
\* durable register that never goes back.
THEOREM LoopFileDurable == Spec => RegisterSpec /\ FileNeverRegresses
  BY LoopUsesSession, SessionImplementsRegister, FileNeverGoesBack

----------------------------------------------------------------------------
(* Arithmetic of the clocks.                                               *)

\* The next deadline lies in the future, at most one interval away.
LEMMA NextUntilRange ==
    ASSUME interval \in Nat \ {0}, until \in Int, until <= 0
    PROVE  NextUntil \in Int /\ NextUntil > 0 /\ NextUntil <= interval
  BY DEF NextUntil

\* max_dt, given or derived, is below the age from which ages are not told apart.
LEMMA MaxDtRange ==
    ASSUME NEW i \in Intervals
    PROVE  MaxDt(i) \in 0 .. AgeCap
  <1>1. CASE ExplicitMaxDt # None
    BY <1>1, LoopTimeAssumption, BoundsAssumption DEF MaxDt
  <1>2. CASE ExplicitMaxDt = None
    <2>1. Clamp(3 * i, MinDtDefault, MaxDtDefault) \in 0 .. MaxDtDefault
      BY LoopTimeAssumption DEF Clamp
    <2> QED  BY <1>2, <2>1, LoopTimeAssumption, BoundsAssumption DEF MaxDt
  <1> QED  BY <1>1, <1>2

----------------------------------------------------------------------------
(* The loop's invariant: its types, and what is true where.                *)

\* A tick starts only when its deadline has come.
DeadlineMet == (At("awake") /\ ~shutdown) => until <= 0

LoopInv == LoopTypeOK /\ DeadlineMet /\ BelowLimits

\* The invariant holds before the first process.
LEMMA LoopInvInit == Init => LoopInv
  <1> SUFFICES ASSUME Init PROVE LoopInv
    OBVIOUS
  <1>1. ClocksOK
    BY LoopTimeAssumption, BoundsAssumption DEF Init, ClocksOK, Ages
  <1>2. CountsOK
    BY LoopPolicyAssumption DEF Init, CountsOK
  <1>3. PhasesOK
    BY DEF Init, SessionInit, PhasesOK
  <1>4. DeadlineMet /\ BelowLimits
    BY DEF Init, DeadlineMet, BelowLimits, At
  <1> QED  BY <1>1, <1>2, <1>3, <1>4 DEF LoopInv, LoopTypeOK

\* No step but a start and an end makes or unmakes the session.
LEMMA WriteSafeFrame ==
    ASSUME NEW r, WriteSafe(r), attempted \in CVs \cup {None}
    PROVE  /\ up' = up
           /\ attempted' \in CVs \cup {None}
           /\ SafeCv # None => attempted' = SafeCv
  BY LoopPolicyAssumption DEF WriteSafe, WriteSafeCv, sessionVars

\* A socket request leaves phase, clocks and counts alone.
LEMMA RequestFrame ==
    ASSUME PhasesOK, Request
    PROVE  /\ interval' \in Intervals /\ hold' \in BOOLEAN /\ up' = up
           /\ UNCHANGED <<pc, shutdown, dt, exit, attempted, flushed, clocks,
                          counts>>
  <1>1. ASSUME NEW c \in Configs, SocketSet(c)
        PROVE  UNCHANGED <<interval, hold, up>>
    BY <1>1 DEF SocketSet, Requests, SetConfig
  <1>2. ASSUME NEW i \in Intervals, SocketSetInterval(i)
        PROVE  interval' \in Intervals /\ UNCHANGED <<hold, up>>
    BY <1>2 DEF SocketSetInterval, Requests, SetFlushInterval
  <1>3. CASE SocketReset
    BY <1>3 DEF SocketReset, Requests, ResetIntegral, PhasesOK
  <1>4. CASE SocketHold \/ SocketResume
    BY <1>4 DEF SocketHold, SocketResume, Requests, PhasesOK, sessionVars
  <1>5. CASE SocketSave
    BY <1>5 DEF SocketSave, Requests, ForceFlush, PhasesOK
  <1>6. UNCHANGED <<pc, shutdown, dt, exit, attempted, flushed, clocks, counts>>
    BY DEF Request, SocketSet, SocketSetInterval, SocketReset, SocketHold,
           SocketResume, SocketSave, Requests
  <1> QED  BY <1>1, <1>2, <1>3, <1>4, <1>5, <1>6 DEF Request, PhasesOK

\* Each step leads from a phase of run_loop to another one of them.
LEMMA PhasesStep == PhasesOK /\ Next => PhasesOK'
  <1> SUFFICES ASSUME PhasesOK, Next PROVE PhasesOK'
    OBVIOUS
  <1> USE DEF PhasesOK, At, Goto
  <1>1. ASSUME NEW c \in Configs, NEW i \in Intervals, NEW r \in BOOLEAN,
               StartLoop(c, i, r)
        PROVE  PhasesOK'
    BY <1>1 DEF StartLoop, New
  <1>2. CASE Top \/ Wake \/ AwakeShutdown \/ TickHeld \/ TickMeasured \/ Signal
    BY <1>2 DEF Top, Wake, AwakeShutdown, TickHeld, TickMeasured, Signal,
                TickStarts, sessionVars
  <1>3. CASE TickSkipped
    BY <1>3 DEF TickSkipped, TickStarts, OnDtSkipped
  <1>4. ASSUME NEW r, PvFails(r) PROVE PhasesOK'
    BY <1>4, WriteSafeFrame DEF PvFails
  <1>5. ASSUME NEW pv \in PVs, NEW a \in IAccs, NEW cv \in CVs, NEW r,
               Tick(pv, a, cv, r)
        PROVE  PhasesOK'
    BY <1>5 DEF Tick, ProcessPv, AfterTick
  <1>6. ASSUME NEW r, FailingSafe(r) \/ FinalSafe(r) PROVE PhasesOK'
    BY <1>6, WriteSafeFrame DEF FailingSafe, FinalSafe
  <1>7. CASE FinalFlush
    BY <1>7, SwitchAssumption DEF FinalFlush, ForceFlush
  <1>8. CASE Return \/ Kill
    BY <1>8 DEF Return, Kill, Gone, Stop
  <1>9. CASE Request
    BY <1>9, RequestFrame
  <1>10. CASE Pass
    BY <1>10 DEF Pass, Elapse
  <1> QED  BY <1>1, <1>2, <1>3, <1>4, <1>5, <1>6, <1>7, <1>8, <1>9, <1>10
           DEF Next, Start, LoopStep, ReadAndStep

\* Each step keeps deadline, ages and dt within their bounds.
LEMMA ClocksStep == LoopInv /\ Next => ClocksOK'
  <1> SUFFICES ASSUME LoopInv, Next PROVE ClocksOK'
    OBVIOUS
  <1> USE DEF LoopInv, LoopTypeOK
  <1>1. interval \in Nat \ {0}
    BY LoopTimeAssumption DEF PhasesOK
  <1>2. ASSUME UNCHANGED <<dt, clocks>> PROVE ClocksOK'
    BY <1>2 DEF ClocksOK, clocks
  <1>3. ASSUME UNCHANGED clocks, dt' = 0 PROVE ClocksOK'
    BY <1>3, BoundsAssumption DEF ClocksOK, clocks
  <1>4. ASSUME At("awake"), ~shutdown, until' = NextUntil,
               tick_age' \in {tick_age, 0}, dt' \in 0 .. AgeCap, pv_age' = pv_age
        PROVE  ClocksOK'
    BY <1>1, <1>4, NextUntilRange, LoopTimeAssumption, BoundsAssumption
       DEF ClocksOK, DeadlineMet
  <1>5. ASSUME NEW c \in Configs, NEW i \in Intervals, NEW r \in BOOLEAN,
               StartLoop(c, i, r)
        PROVE  ClocksOK'
    BY <1>5, LoopTimeAssumption, BoundsAssumption DEF StartLoop, ClocksOK, Ages
  <1>6. CASE Top \/ Wake \/ AwakeShutdown \/ Signal
    BY <1>2, <1>6 DEF Top, Wake, AwakeShutdown, Signal
  <1>7. CASE TickHeld
    BY <1>4, <1>7 DEF TickHeld, ClocksOK
  <1>8. CASE TickSkipped
    BY <1>4, <1>8 DEF TickSkipped, TickStarts, ClocksOK
  <1>9. CASE TickMeasured
    <2>1. MaxDt(interval) \in 0 .. AgeCap
      BY MaxDtRange DEF PhasesOK
    <2>2. Clamp(tick_age, MinDt, MaxDt(interval)) \in 0 .. AgeCap
      BY <2>1, LoopTimeAssumption, BoundsAssumption DEF Clamp, ClocksOK
    <2> QED  BY <1>4, <1>9, <2>2 DEF TickMeasured, TickStarts
  <1>10. ASSUME NEW r, PvFails(r) PROVE ClocksOK'
    BY <1>3, <1>10 DEF PvFails
  <1>11. ASSUME NEW pv \in PVs, NEW a \in IAccs, NEW cv \in CVs, NEW r,
                Tick(pv, a, cv, r)
         PROVE  ClocksOK'
    BY <1>11, BoundsAssumption DEF Tick, ClocksOK, Ages
  <1>12. ASSUME NEW r, FailingSafe(r) \/ FinalSafe(r) PROVE ClocksOK'
    BY <1>2, <1>12 DEF FailingSafe, FinalSafe
  <1>13. CASE FinalFlush
    BY <1>2, <1>13 DEF FinalFlush
  <1>14. CASE Return \/ Kill
    BY <1>14, LoopTimeAssumption, BoundsAssumption
       DEF Return, Kill, Gone, ClocksOK, Ages
  <1>15. CASE Request
    BY <1>2, <1>15, RequestFrame
  <1>16. CASE Pass
    <2>1. pv_age' \in Ages
      BY <1>16, SaturatingIncBound, BoundsAssumption, SetsAssumption
         DEF Pass, ClocksOK, Ages
    <2>2. tick_age' \in 0 .. AgeCap
      BY <1>16, SaturatingIncBound, BoundsAssumption DEF Pass, ClocksOK
    <2>3. until' \in Int /\ until' >= -LateCap
      BY <1>16, LoopTimeAssumption DEF Pass, ClocksOK
    <2> QED  BY <1>16, <2>1, <2>2, <2>3 DEF Pass, ClocksOK
  <1> QED  BY <1>5, <1>6, <1>7, <1>8, <1>9, <1>10, <1>11, <1>12, <1>13, <1>14,
              <1>15, <1>16
           DEF Next, Start, LoopStep, ReadAndStep

\* Where the loop is about to tick, its deadline has come.
LEMMA DeadlineStep == LoopInv /\ Next => DeadlineMet'
  <1> SUFFICES ASSUME LoopInv, Next PROVE DeadlineMet'
    OBVIOUS
  <1> USE DEF LoopInv, LoopTypeOK, DeadlineMet, At, Goto
  <1>1. CASE Top \/ Wake
    BY <1>1 DEF Top, Wake, clocks
  <1>2. CASE Request
    BY <1>2, RequestFrame DEF clocks
  <1>3. CASE Pass
    BY <1>3 DEF Pass, ClocksOK
  <1>4. CASE Signal
    BY <1>4 DEF Signal
  <1>5. ASSUME NEW pv \in PVs, NEW a \in IAccs, NEW cv \in CVs, NEW r,
               Tick(pv, a, cv, r)
        PROVE  DeadlineMet'
    BY <1>5 DEF Tick, AfterTick
  <1> QED  BY <1>1, <1>2, <1>3, <1>4, <1>5
           DEF Next, Start, StartLoop, LoopStep, ReadAndStep, AwakeShutdown,
               TickHeld, TickSkipped, TickMeasured, PvFails, FailingSafe,
               FinalSafe, FinalFlush, Return, Kill, Gone

\* The counts, and where they stand below their limits.
LEMMA CountsStep == LoopInv /\ Next => CountsOK' /\ BelowLimits'
  <1> SUFFICES ASSUME LoopInv, Next PROVE CountsOK' /\ BelowLimits'
    OBVIOUS
  <1> USE DEF LoopInv, LoopTypeOK, At, Goto
  <1>1. ASSUME UNCHANGED counts,
               pc' \in {"top", "sleep", "awake", "read"}
                   => pc \in {"top", "sleep", "awake", "read"}
        PROVE  CountsOK' /\ BelowLimits'
    BY <1>1 DEF CountsOK, BelowLimits, counts
  <1>2. ASSUME pv_fail_count' = 0, cv_fail_count' = 0
        PROVE  CountsOK' /\ BelowLimits'
    BY <1>2, LoopPolicyAssumption DEF CountsOK, BelowLimits
  <1>3. CASE Start
    BY <1>2, <1>3 DEF Start, StartLoop
  <1>4. CASE \/ Top \/ Wake \/ AwakeShutdown \/ TickHeld \/ TickSkipped
             \/ TickMeasured \/ Signal \/ Pass
    BY <1>1, <1>4 DEF Top, Wake, AwakeShutdown, TickHeld, TickSkipped,
                      TickMeasured, TickStarts, Signal, Pass
  <1>5. ASSUME NEW r, PvFails(r) PROVE CountsOK' /\ BelowLimits'
    <2>1. /\ pv_fail_count \in 0 .. CountCap
          /\ pv_fail_count' = SaturatingInc(pv_fail_count, CountCap)
      BY <1>5 DEF PvFails, CountsOK
    <2>2. /\ pv_fail_count' \in 0 .. CountCap
          /\ pv_fail_count' <= pv_fail_count + 1
      BY <2>1, LoopPolicyAssumption DEF SaturatingInc
    <2>3. (FailAfter # None /\ FailAfter > 0) => pv_fail_count' <= FailAfter
      BY <1>5, <2>1, <2>2, LoopPolicyAssumption DEF PvFails, BelowLimits
    <2>4. pc' # "leave" => FailAfter = None \/ pv_fail_count' < FailAfter
      BY <1>5, <2>2, LoopPolicyAssumption DEF PvFails, PvExhausted
    <2> QED  BY <1>5, <2>2, <2>3, <2>4 DEF PvFails, CountsOK, BelowLimits
  <1>6. ASSUME NEW pv \in PVs, NEW a \in IAccs, NEW cv \in CVs, NEW r,
               Tick(pv, a, cv, r)
        PROVE  CountsOK' /\ BelowLimits'
    <2>1. pv_fail_count' = 0 /\ cv_fail_count' \in Nat
      BY <1>6 DEF Tick, CountsOK
    <2>2. pc' # "failing" => cv_fail_count' = 0 \/ cv_fail_count' < CvFailAfter
      BY <1>6, <2>1, LoopPolicyAssumption DEF Tick, CvExhausted
    <2> QED  BY <2>1, <2>2, LoopPolicyAssumption DEF CountsOK, BelowLimits
  <1>7. CASE \/ \E r \in SinkResults : FailingSafe(r) \/ FinalSafe(r)
             \/ FinalFlush
    BY <1>1, <1>7 DEF FailingSafe, FinalSafe, FinalFlush
  <1>8. CASE Return \/ Kill
    BY <1>2, <1>8 DEF Return, Kill, Gone
  <1>9. CASE Request
    BY <1>1, <1>9, RequestFrame
  <1> QED  BY <1>3, <1>4, <1>5, <1>6, <1>7, <1>8, <1>9
           DEF Next, LoopStep, ReadAndStep

\* Each step keeps the invariant: the parts above together.
LEMMA LoopInvStep == LoopInv /\ [Next]_vars => LoopInv'
  <1>1. LoopInv /\ Next => LoopInv'
    BY PhasesStep, ClocksStep, DeadlineStep, CountsStep DEF LoopInv, LoopTypeOK
  <1>2. LoopInv /\ UNCHANGED vars => LoopInv'
    BY DEF LoopInv, LoopTypeOK, ClocksOK, CountsOK, PhasesOK, DeadlineMet,
           BelowLimits, At, vars, loopVars, clocks, counts, sessionVars
  <1> QED  BY <1>1, <1>2

\* So the invariant holds in every reachable state.
LEMMA LoopInvHolds == Spec => []LoopInv
  BY LoopInvInit, LoopInvStep, PTL DEF Spec

\* The loop's variables keep their types, through restarts and kills.
THEOREM LoopTypeCorrect == Spec => []LoopTypeOK
  <1>1. LoopInv => LoopTypeOK
    BY DEF LoopInv
  <1> QED  BY <1>1, LoopInvHolds, PTL

\* A process that is still ticking is below both of its failure limits.
THEOREM BelowLimitsCorrect == Spec => []BelowLimits
  <1>1. LoopInv => BelowLimits
    BY DEF LoopInv
  <1> QED  BY <1>1, LoopInvHolds, PTL

\* However late a tick starts, the next one is due in the future and within
\* one interval: no backlog is caught up with.
THEOREM NoBurstCorrect == Spec => NoBurst
  <1>1. LoopInv /\ [Next]_vars
          => [(At("awake") /\ pc' \in {"top", "read"})
                 => until' > 0 /\ until' <= interval]_vars
    <2> SUFFICES ASSUME LoopInv, Next, At("awake"), pc' \in {"top", "read"}
                 PROVE  until' > 0 /\ until' <= interval
      OBVIOUS
    <2>1. TickHeld \/ TickSkipped \/ TickMeasured
      BY DEF At, Goto, Next, Start, StartLoop, LoopStep, Top, Wake,
             AwakeShutdown, ReadAndStep, PvFails, Tick, FailingSafe, FinalSafe,
             FinalFlush, Return, Kill, Gone, Request, SocketSet,
             SocketSetInterval, SocketReset, SocketHold, SocketResume,
             SocketSave, Requests, Serving, Signal, Pass
    <2>2. until' = NextUntil /\ ~shutdown
      BY <2>1 DEF TickHeld, TickSkipped, TickMeasured, TickStarts
    <2>3. interval \in Nat \ {0} /\ until \in Int /\ until <= 0
      BY <2>2, LoopTimeAssumption
         DEF LoopInv, LoopTypeOK, PhasesOK, ClocksOK, DeadlineMet
    <2> QED  BY <2>2, <2>3, NextUntilRange
  <1> QED  BY <1>1, LoopInvHolds, PTL DEF Spec, NoBurst

----------------------------------------------------------------------------
(* How a process leaves.                                                   *)

\* From the safe write on, and after an end that is not a kill, the last CV
\* asked for is the safe one.
SafeLast ==
    SafeCv # None =>
        /\ pc \in {"flush", "done", "leave"} => attempted = SafeCv
        /\ LeavesSafe

\* On the way out the safe CV is asked for before the process ends, and
\* nothing is asked for after it.
LEMMA SafeLastStep == LoopTypeOK /\ SafeLast /\ [Next]_vars => SafeLast'
  <1> SUFFICES ASSUME LoopTypeOK, SafeLast, SafeCv # None, [Next]_vars
               PROVE  SafeLast'
    BY DEF SafeLast
  <1> USE DEF SafeLast, LeavesSafe, At, Goto
  <1>1. CASE Start
    BY <1>1 DEF Start, StartLoop
  <1>2. CASE \/ Top \/ Wake \/ AwakeShutdown \/ TickHeld \/ TickSkipped
             \/ TickMeasured \/ Signal \/ Pass \/ UNCHANGED vars
    BY <1>2 DEF Top, Wake, AwakeShutdown, TickHeld, TickSkipped, TickMeasured,
                TickStarts, Signal, Pass, vars, loopVars
  <1>3. ASSUME NEW r, PvFails(r) \/ FailingSafe(r) \/ FinalSafe(r)
        PROVE  SafeLast'
    BY <1>3, WriteSafeFrame
       DEF PvFails, FailingSafe, FinalSafe, LoopTypeOK, PhasesOK
  <1>4. ASSUME NEW pv \in PVs, NEW a \in IAccs, NEW cv \in CVs, NEW r,
               Tick(pv, a, cv, r)
        PROVE  SafeLast'
    BY <1>4 DEF Tick, AfterTick
  <1>5. CASE FinalFlush
    BY <1>5 DEF FinalFlush
  <1>6. CASE Return \/ Kill
    BY <1>6 DEF Return, Kill, Gone
  <1>7. CASE Request
    BY <1>7, RequestFrame DEF LoopTypeOK
  <1> QED  BY <1>1, <1>2, <1>3, <1>4, <1>5, <1>6, <1>7
           DEF Next, LoopStep, ReadAndStep

\* Whatever ends the process, unless it is killed it leaves the actuator
\* asked for the safe CV.
THEOREM LeavesSafeCorrect == Spec => []LeavesSafe
  <1>1. Init => SafeLast
    BY DEF Init, SafeLast, LeavesSafe, At
  <1>2. SafeLast => LeavesSafe
    BY DEF SafeLast, LeavesSafe
  <1> QED  BY <1>1, <1>2, SafeLastStep, LoopTypeCorrect, PTL DEF Spec

\* Once the flush at shutdown has succeeded, the file is the snapshot.
FlushedIsSaved ==
    /\ (At("done") /\ flushed) => disk = snapshot
    /\ CleanExitDurable

\* Between the flush at shutdown and the next start the file names the
\* confirmed CV.
LEMMA FlushedIsSavedStep ==
    /\ LoopTypeOK /\ SessionTypeOK /\ LastCvConfirmed /\ FlushedIsSaved
    /\ [Next]_vars
    => FlushedIsSaved'
  <1> SUFFICES ASSUME LoopTypeOK, SessionTypeOK, LastCvConfirmed,
                      FlushedIsSaved, [Next]_vars
               PROVE  FlushedIsSaved'
    OBVIOUS
  <1> USE DEF FlushedIsSaved, CleanExitDurable, Wrote, At, Goto
  <1>1. CASE Start
    BY <1>1 DEF Start, StartLoop
  <1>2. CASE Top \/ Wake \/ AwakeShutdown \/ TickHeld \/ TickMeasured \/ Signal
    BY <1>2 DEF Top, Wake, AwakeShutdown, TickHeld, TickMeasured, TickStarts,
                Signal, LoopTypeOK, PhasesOK, sessionVars, persister, history
  <1>3. ASSUME NEW r, \/ TickSkipped \/ PvFails(r) \/ FailingSafe(r)
                      \/ FinalSafe(r)
        PROVE  FlushedIsSaved'
    BY <1>3 DEF TickSkipped, PvFails, FailingSafe, FinalSafe
  <1>4. ASSUME NEW pv \in PVs, NEW a \in IAccs, NEW cv \in CVs, NEW r,
               Tick(pv, a, cv, r)
        PROVE  FlushedIsSaved'
    BY <1>4 DEF Tick, AfterTick
  <1>5. CASE FinalFlush
    <2>1. snapshot' = snapshot
      BY <1>5 DEF FinalFlush, ForceFlush
    <2>2. HasStore /\ fail_count' = 0 => disk' = snapshot
      BY <1>5, BoundsAssumption
         DEF FinalFlush, ForceFlush, ForceSave, Save, SaturatingInc,
             SessionTypeOK
    <2> QED  BY <1>5, <2>1, <2>2 DEF FinalFlush
  <1>6. CASE Return \/ Kill
    <2>1. disk' = disk /\ confirmed' = confirmed /\ actuator' = actuator
      BY <1>6 DEF Return, Kill, Gone, Stop
    <2>2. up /\ pc' = "down" /\ flushed' = flushed
      BY <1>6 DEF Return, Kill, Gone, Stop
    <2>3. exit' = "clean" => At("done")
      BY <1>6 DEF Return, Kill
    <2>4. snapshot # NoFile
      BY NoFileAssumption DEF SessionTypeOK
    <2> QED  BY <2>1, <2>2, <2>3, <2>4 DEF LastCvConfirmed
  <1>7. CASE Request
    BY <1>7 DEF Request, SocketSet, SocketSetInterval, SocketReset, SocketHold,
                SocketResume, SocketSave, Requests, Serving
  <1>8. CASE Pass
    BY <1>8 DEF Pass, Elapse, history
  <1>9. CASE UNCHANGED vars
    BY <1>9 DEF vars, loopVars, sessionVars, persister, history
  <1> QED  BY <1>1, <1>2, <1>3, <1>4, <1>5, <1>6, <1>7, <1>8, <1>9
           DEF Next, LoopStep, ReadAndStep

\* After a clean exit with a successful flush, the file names the CV that
\* was confirmed last, and the actuator has it unless a write that failed has
\* reached it.
THEOREM CleanExitCorrect ==
    ASSUME "dry" \notin SinkResults
    PROVE  Spec => []CleanExitDurable
  <1>1. Init => FlushedIsSaved
    BY DEF Init, FlushedIsSaved, CleanExitDurable, At
  <1>2. FlushedIsSaved => CleanExitDurable
    BY DEF FlushedIsSaved
  <1>3. SessionSpec => []LastCvConfirmed
    BY LastCvCorrect
  <1> QED  BY <1>1, <1>2, <1>3, FlushedIsSavedStep, LoopTypeCorrect,
              LoopUsesSession, SessionTypeCorrect, PTL
           DEF Spec

----------------------------------------------------------------------------
(* The derivative and its dt.                                              *)

\* A step keeps last_pv, and whether the D term is skipped, or says so: a tick
\* records what it measured, a skipped tick and a reset mark the D term.
LEMMA MeasuredPv ==
    ASSUME SessionTypeOK, Next
    PROVE  \/ Start \/ Return \/ Kill \/ Pass
           \/ \E pv \in PVs, a \in IAccs, cv \in CVs, r \in SinkResults :
                  Tick(pv, a, cv, r)
           \/ TickSkipped \/ TickMeasured \/ TickHeld
           \/ \E r \in SinkResults : PvFails(r)
           \/ /\ UNCHANGED <<tick_age, pv_age>> /\ (pc = "read" <=> pc' = "read")
              /\ controller'.last_pv = controller.last_pv
              /\ controller'.skip \in {controller.skip, "post_reset"}
  <1> DEFINE Kept == /\ controller'.last_pv = controller.last_pv
                     /\ controller'.skip \in {controller.skip, "post_reset"}
             Still == UNCHANGED <<tick_age, pv_age>> /\ (pc = "read" <=> pc' = "read")
  <1>1. CASE Top \/ Wake \/ AwakeShutdown \/ Signal
    BY <1>1 DEF Top, Wake, AwakeShutdown, Signal, At, Goto, sessionVars, clocks
  <1>2. ASSUME NEW r, FailingSafe(r) \/ FinalSafe(r) PROVE Still /\ Kept
    BY <1>2 DEF FailingSafe, FinalSafe, WriteSafe, WriteSafeCv, At, Goto,
                sessionVars, clocks
  <1>3. CASE FinalFlush
    BY <1>3 DEF FinalFlush, ForceFlush, At, Goto, clocks
  <1>4. CASE Request
    <2>1. Still
      BY <1>4 DEF Request, SocketSet, SocketSetInterval, SocketReset, SocketHold,
                  SocketResume, SocketSave, Requests, clocks
    <2>2. Kept
      BY <1>4 DEF Request, SocketSet, SocketSetInterval, SocketReset, SocketHold,
                  SocketResume, SocketSave, Requests, SetConfig, ResetIntegral,
                  SetFlushInterval, ForceFlush, sessionVars, SessionTypeOK,
                  Controllers
    <2> QED  BY <2>1, <2>2
  <1> QED  BY <1>1, <1>2, <1>3, <1>4 DEF Next, LoopStep, ReadAndStep

\* Without --dt-clamp a tick uses the dt that it measured.
LEMMA DtIsMeasured ==
    ASSUME DtClamp = FALSE, LoopTypeOK, Next, At("awake"), pc' = "read"
    PROVE  dt' = tick_age
  <1>1. TickMeasured
    BY DEF At, Goto, Next, Start, StartLoop, LoopStep, Top, Wake, AwakeShutdown,
           TickHeld, TickSkipped, ReadAndStep, PvFails, Tick, FailingSafe,
           FinalSafe, FinalFlush, Return, Kill, Gone, Request, SocketSet,
           SocketSetInterval, SocketReset, SocketHold, SocketResume, SocketSave,
           Requests, Serving, Signal, Pass
  <1>2. MaxDt(interval) \in Nat /\ MinDt \in Nat /\ tick_age \in Nat
    BY MaxDtRange, LoopTimeAssumption, BoundsAssumption
       DEF LoopTypeOK, PhasesOK, ClocksOK
  <1> QED  BY <1>1, <1>2 DEF TickMeasured, DtInRange, Clamp

\* The time since the last tick that was started is never more than the time
\* since the one that measured the PV the derivative starts from.
SpanCovers ==
    controller.last_pv # None => pv_age # None /\ tick_age <= pv_age

LEMMA SpanCoversStep ==
    LoopTypeOK /\ SessionTypeOK /\ SpanCovers /\ [Next]_vars => SpanCovers'
  <1> SUFFICES ASSUME LoopTypeOK, SessionTypeOK, SpanCovers, Next
               PROVE  SpanCovers'
    BY DEF SpanCovers, vars, loopVars, sessionVars, clocks
  <1> USE DEF SpanCovers
  <1>1. /\ tick_age \in 0 .. AgeCap /\ pv_age \in (0 .. AgeCap) \cup {None}
        /\ AgeCap \in Nat
        /\ \A n \in Int : n # None
    BY BoundsAssumption, SetsAssumption DEF LoopTypeOK, ClocksOK, Ages
  <1>2. CASE Start
    BY <1>1, <1>2 DEF Start, StartLoop
  <1>3. CASE Return \/ Kill
    BY <1>3 DEF Return, Kill, Gone, Stop, NoController
  <1>4. CASE Pass
    BY <1>1, <1>4 DEF Pass, Elapse, SaturatingInc
  <1>5. ASSUME NEW pv \in PVs, NEW a \in IAccs, NEW cv \in CVs,
               NEW r \in SinkResults, Tick(pv, a, cv, r)
        PROVE  SpanCovers'
    BY <1>1, <1>5 DEF Tick
  <1>6. CASE TickSkipped
    <2>1. controller'.last_pv = controller.last_pv
      BY <1>6 DEF TickSkipped, OnDtSkipped, SessionTypeOK, Controllers
    <2> QED  BY <1>1, <1>6, <2>1 DEF TickSkipped
  <1>7. CASE TickMeasured \/ TickHeld
    BY <1>1, <1>7 DEF TickMeasured, TickHeld, sessionVars
  <1>8. ASSUME NEW r, PvFails(r) PROVE SpanCovers'
    BY <1>8 DEF PvFails, WriteSafe, WriteSafeCv, sessionVars, clocks
  <1> QED  BY <1>2, <1>3, <1>4, <1>5, <1>6, <1>7, <1>8, MeasuredPv

\* A dt that a derivative uses is never longer than the time it stands for,
\* whatever is read, skipped, held or restored.
DtWithinSpan ==
    [][(At("awake") /\ pc' = "read" /\ DerivativeUsed) => dt' <= pv_age]_vars

\* Without --dt-clamp the derivative never divides by more time than passed,
\* and so never takes a fast process for a slow one.
THEOREM DtWithinSpanCorrect ==
    ASSUME DtClamp = FALSE
    PROVE  Spec => DtWithinSpan
  <1>1. Init => SpanCovers
    BY DEF Init, SessionInit, SpanCovers, NoController
  <1>2. LoopTypeOK /\ SpanCovers /\ [Next]_vars =>
            [(At("awake") /\ pc' = "read" /\ DerivativeUsed)
                 => dt' <= pv_age]_vars
    BY DtIsMeasured DEF SpanCovers, DerivativeUsed
  <1>3. SessionSpec => []SessionTypeOK
    BY SessionTypeCorrect
  <1> QED  BY <1>1, <1>2, <1>3, SpanCoversStep, LoopTypeCorrect,
              LoopUsesSession, PTL
           DEF Spec, DtWithinSpan

\* Without a state file there never is one.
LEMMA NoStoreNoFile ==
    ASSUME HasStore = FALSE, SessionNext
    PROVE  disk' = disk
  BY DEF SessionNext, New, Stop, SetConfig, ResetIntegral, SetFlushInterval,
         ProcessPv, OnDtSkipped, WriteSafeCv, HoldTickWrite, ForceFlush, Elapse,
         Persist, ForceSave, persister

\* Without a restored PV and a read that fails, a derivative that is not
\* skipped starts from the PV of the last tick.
SpanExact ==
    /\ disk = NoFile
    /\ pc # "read" /\ DerivativeUsed => pv_age = tick_age

LEMMA SpanExactStep ==
    ASSUME HasStore = FALSE, "err" \notin PvResults
    PROVE  LoopTypeOK /\ SessionTypeOK /\ SpanExact /\ [Next]_vars => SpanExact'
  <1> SUFFICES ASSUME LoopTypeOK, SessionTypeOK, SpanExact, Next
               PROVE  SpanExact'
    BY DEF SpanExact, DerivativeUsed, vars, loopVars, sessionVars, persister,
           clocks
  <1> USE DEF DerivativeUsed
  <1>1. disk' = NoFile
    BY LoopSessionStep, NoStoreNoFile DEF SpanExact, sessionVars, persister
  <1> SUFFICES ASSUME pc' # "read", DerivativeUsed' PROVE pv_age' = tick_age'
    BY <1>1 DEF SpanExact
  <1>2. CASE Start
    BY <1>2 DEF Start, StartLoop, New, Loaded, DefaultSnapshot, SpanExact
  <1>3. CASE Return \/ Kill
    BY <1>3 DEF Return, Kill, Gone, Stop, NoController
  <1>4. CASE Pass
    BY <1>4, SetsAssumption
       DEF Pass, Elapse, SpanExact, LoopTypeOK, ClocksOK
  <1>5. ASSUME NEW pv \in PVs, NEW a \in IAccs, NEW cv \in CVs,
               NEW r \in SinkResults, Tick(pv, a, cv, r)
        PROVE  pv_age' = tick_age'
    BY <1>5 DEF Tick
  <1>6. CASE TickSkipped
    <2>1. controller'.skip = "post_dt_skip"
      BY <1>6 DEF TickSkipped, OnDtSkipped, SessionTypeOK, Controllers
    <2> QED  BY <2>1
  <1>7. CASE TickHeld
    BY <1>7 DEF TickHeld, sessionVars, At, SpanExact
  <1>8. CASE TickMeasured
    BY <1>8 DEF TickMeasured, Goto
  <1>9. ASSUME NEW r, PvFails(r) PROVE FALSE
    BY <1>9 DEF PvFails
  <1> QED  BY <1>2, <1>3, <1>4, <1>5, <1>6, <1>7, <1>8, <1>9, MeasuredPv
           DEF SpanExact

\* In a process that reads its PV every time and starts from no file, and
\* without --dt-clamp, the derivative divides by exactly the time between the
\* two measurements, through every hold, skip, reset and late tick.
THEOREM DerivativeSpansDtCorrect ==
    ASSUME HasStore = FALSE, "err" \notin PvResults, DtClamp = FALSE
    PROVE  Spec => DerivativeSpansDt
  <1>1. Init => SpanExact
    BY DEF Init, SessionInit, SpanExact, DerivativeUsed, NoController
  <1>2. LoopTypeOK /\ SpanExact /\ [Next]_vars =>
            [(At("awake") /\ pc' = "read" /\ DerivativeUsed) => dt' = pv_age]_vars
    BY DtIsMeasured DEF SpanExact, At
  <1>3. SessionSpec => []SessionTypeOK
    BY SessionTypeCorrect
  <1> QED  BY <1>1, <1>2, <1>3, SpanExactStep, LoopTypeCorrect,
              LoopUsesSession, PTL
           DEF Spec, DerivativeSpansDt

----------------------------------------------------------------------------
(* Every step of the dashboard is a step of its session or leaves it alone. *)

\* A socket request calls one method of the session at most.
LEMMA RequestSession ==
    ASSUME Request
    PROVE  [SessionNext]_sessionVars
  <1>1. ASSUME NEW c \in Configs, SocketSet(c) PROVE SessionNext
    BY <1>1 DEF SocketSet, Requests, SessionNext
  <1>2. ASSUME NEW i \in Intervals, SocketSetInterval(i) PROVE SessionNext
    BY <1>2, DerivedAssumption DEF SocketSetInterval, Requests, SessionNext
  <1>3. CASE SocketReset \/ SocketHold \/ SocketResume \/ SocketSave
    BY <1>3 DEF SocketReset, SocketHold, SocketResume, SocketSave, Requests,
                SessionNext
  <1> QED  BY <1>1, <1>2, <1>3 DEF Request

\* So does each key and command.
LEMMA KeysSession ==
    ASSUME Keys
    PROVE  [SessionNext]_sessionVars
  <1>1. CASE QuitKey \/ SaveKey
    BY <1>1 DEF QuitKey, SaveKey, Key, FlushShutdown, SessionNext
  <1>2. CASE ResetKey
    BY <1>2 DEF ResetKey, Key, SessionNext
  <1>3. CASE HoldKey \/ DryRunKey \/ BadCommand
    BY <1>3 DEF HoldKey, DryRunKey, BadCommand, Key
  <1>4. ASSUME NEW c \in Configs, AdjustKey(c) PROVE SessionNext
    BY <1>4 DEF AdjustKey, Key, SessionNext
  <1>5. ASSUME NEW i \in Intervals, IntervalCommand(i) PROVE SessionNext
    BY <1>5, DerivedAssumption DEF IntervalCommand, Key, SessionNext
  <1> QED  BY <1>1, <1>2, <1>3, <1>4, <1>5 DEF Keys

\* Each step calls one method of the session at most.
LEMMA TuneSessionStep == [TuneNext]_tuneAll => [SessionNext]_sessionVars
  <1> SUFFICES ASSUME TuneNext PROVE [SessionNext]_sessionVars
    BY DEF tuneAll, vars
  <1>1. ASSUME NEW c \in Configs, NEW i \in Intervals, NEW r \in BOOLEAN,
               NEW hw, NEW dry, StartTune(c, i, r, hw, dry)
        PROVE  SessionNext
    BY <1>1, DerivedAssumption DEF StartTune, SessionNext
  <1>2. CASE Iterate \/ PollTimesOut \/ ServeEnds \/ NotDue \/ DueMeasured
             \/ TuneSignal
    BY <1>2 DEF Iterate, PollTimesOut, Key, ServeEnds, NotDue, DueMeasured,
                TuneSignal, Signal
  <1>3. CASE LeaveLoop
    BY <1>3 DEF LeaveLoop, FlushShutdown, SessionNext
  <1>4. CASE DueSkipped
    BY <1>4 DEF DueSkipped, SessionNext
  <1>5. CASE ReadWithoutSink
    BY <1>5 DEF ReadWithoutSink
  <1>6. ASSUME NEW r \in {"ok", "err"}, TunePvFails(r) \/ FailingTune(r)
        PROVE  [SessionNext]_sessionVars
    BY <1>6, TuneAssumption, WriteSafeSession
       DEF TunePvFails, FailingTune, FailingSafe
  <1>7. ASSUME NEW r \in {"ok", "err", "dry"}, HeldTick(r) PROVE SessionNext
    BY <1>7, TuneAssumption DEF HeldTick, SessionNext
  <1>8. ASSUME NEW pv \in PVs, NEW a \in IAccs, NEW cv \in CVs,
               NEW r \in {"ok", "err", "dry"}, StepTick(pv, a, cv, r)
        PROVE  SessionNext
    BY <1>8, TuneAssumption DEF StepTick, SessionNext
  <1>9. CASE TuneReturn \/ TuneKill
    BY <1>9 DEF TuneReturn, TuneKill, Return, Kill, Gone, SessionNext
  <1>10. CASE TunePass
    BY <1>10 DEF TunePass, Pass, SessionNext
  <1>11. CASE Keys
    BY <1>11, KeysSession
  <1>12. CASE TuneRequest
    BY <1>12, RequestSession DEF TuneRequest
  <1> QED  BY <1>1, <1>2, <1>3, <1>4, <1>5, <1>6, <1>7, <1>8, <1>9, <1>10,
              <1>11, <1>12
           DEF TuneNext, TuneStart, TuneStep, TuneRead

\* --tune drives its session only in ways that Session.tla covers.
THEOREM TuneUsesSession == TuneSpec => SessionSpec
  <1>1. TuneInit => SessionInit
    BY DEF TuneInit, Init
  <1> QED  BY <1>1, TuneSessionStep, PTL DEF TuneSpec, SessionSpec

\* So under the dashboard, too, the state file is a durable register that never
\* goes back, also between dry runs, holds and saved settings.
THEOREM TuneFileDurable == TuneSpec => RegisterSpec /\ FileNeverRegresses
  BY TuneUsesSession, SessionImplementsRegister, FileNeverGoesBack

----------------------------------------------------------------------------
(* The invariant of the dashboard. *)

\* A process that goes on with its iterations is below --fail-after.
TuneBelow ==
    pc \in {"top", "poll", "sleep", "awake", "read"} =>
        pv_fail_count = 0 \/ FailAfter = None \/ pv_fail_count < FailAfter

\* The deadline was made for last_interval, which is brought up to date before
\* a tick is looked for.
DeadlineNear ==
    /\ ~At("down") => until <= last_interval
    /\ At("awake") => last_interval = interval

\* Nothing of the dashboard is left over when there is no process.
DownIsIdle == At("down") => ~dry_run

TuneInv == TuneTypeOK /\ TuneBelow /\ DeadlineNear /\ DownIsIdle

\* The invariant holds before the first process.
LEMMA TuneInvInit == TuneInit => TuneInv
  <1> SUFFICES ASSUME TuneInit PROVE TuneInv
    OBVIOUS
  <1>1. SessionTypeOK
    BY SessionTypeInit DEF TuneInit, Init
  <1>2. ClocksOK
    BY LoopTimeAssumption, BoundsAssumption DEF TuneInit, Init, ClocksOK, Ages
  <1>3. CountsOK /\ TuneBelow
    BY LoopPolicyAssumption DEF TuneInit, Init, CountsOK, TuneBelow
  <1>4. /\ pc = "down" /\ up = FALSE
        /\ interval \in Intervals /\ last_interval \in Intervals
        /\ attempted \in OptCVs
    BY DEF TuneInit, Init, SessionInit, OptCVs
  <1>5. served \in 0 .. MaxRequests
    BY TuneAssumption DEF TuneInit
  <1>6. /\ hold \in BOOLEAN /\ shutdown \in BOOLEAN /\ flushed \in BOOLEAN
        /\ dry_run \in BOOLEAN /\ quit \in BOOLEAN /\ hardware \in BOOLEAN
        /\ simulated \in BOOLEAN
    BY DEF TuneInit, Init
  <1>7. DeadlineNear /\ DownIsIdle
    BY <1>4 DEF DeadlineNear, DownIsIdle, At, TuneInit
  <1> QED  BY <1>1, <1>2, <1>3, <1>4, <1>5, <1>6, <1>7 DEF TuneInv, TuneTypeOK

\* A safe CV is one of the CVs an actuator can be asked for.
LEMMA SafeFrame ==
    ASSUME NEW r, WriteSafe(r)
    PROVE  /\ up' = up
           /\ attempted' \in {attempted, SafeCv}
           /\ SafeCv = None => UNCHANGED <<sessionVars, attempted>>
           /\ SafeCv # None => attempted' = SafeCv /\ SafeCv \in CVs
  BY LoopPolicyAssumption DEF WriteSafe, WriteSafeCv, sessionVars

\* What a socket request may touch.
LEMMA TuneRequestFrame ==
    ASSUME Request, interval \in Intervals, hold \in BOOLEAN
    PROVE  /\ interval' \in Intervals /\ hold' \in BOOLEAN
           /\ UNCHANGED <<pc, shutdown, dt, exit, attempted, flushed, clocks,
                          counts>>
           /\ pc = "sleep"
           /\ up' = up
  <1>1. /\ UNCHANGED <<pc, shutdown, dt, exit, attempted, flushed, clocks, counts>>
        /\ pc = "sleep"
    BY DEF Request, SocketSet, SocketSetInterval, SocketReset, SocketHold,
           SocketResume, SocketSave, Requests, Serving, At
  <1>2. ASSUME NEW c \in Configs, SocketSet(c)
        PROVE  UNCHANGED <<interval, hold, up>>
    BY <1>2 DEF SocketSet, Requests, SetConfig
  <1>3. ASSUME NEW i \in Intervals, SocketSetInterval(i)
        PROVE  interval' \in Intervals /\ UNCHANGED <<hold, up>>
    BY <1>3 DEF SocketSetInterval, Requests, SetFlushInterval
  <1>4. ASSUME SocketReset \/ SocketHold \/ SocketResume \/ SocketSave
        PROVE  UNCHANGED <<interval, up>> /\ hold' \in BOOLEAN
    BY <1>4 DEF SocketReset, SocketHold, SocketResume, SocketSave, Requests,
                ResetIntegral, ForceFlush, sessionVars
  <1> QED  BY <1>1, <1>2, <1>3, <1>4 DEF Request

\* What a key or a command may touch.
LEMMA KeysFrame ==
    ASSUME Keys, interval \in Intervals,
           hold \in BOOLEAN, flushed \in BOOLEAN, dry_run \in BOOLEAN,
           quit \in BOOLEAN
    PROVE  /\ interval' \in Intervals
           /\ hold' \in BOOLEAN /\ flushed' \in BOOLEAN
           /\ dry_run' \in BOOLEAN /\ quit' \in BOOLEAN
           /\ pc = "poll" /\ pc' \in {"sleep", "leave"}
           /\ UNCHANGED <<shutdown, dt, exit, attempted, clocks, counts,
                          hardware, last_interval, served, simulated>>
           /\ up' = up
  <1> USE DEF Key, At, Goto
  <1>1. CASE QuitKey \/ SaveKey
    BY <1>1, SwitchAssumption
       DEF QuitKey, SaveKey, FlushShutdown, ForceFlush
  <1>2. CASE ResetKey
    BY <1>2 DEF ResetKey, ResetIntegral
  <1>3. CASE HoldKey \/ DryRunKey
    BY <1>3 DEF HoldKey, DryRunKey, sessionVars
  <1>4. CASE BadCommand
    BY <1>4 DEF BadCommand, sessionVars, tuneVars
  <1>5. ASSUME NEW c \in Configs, AdjustKey(c)
        PROVE  /\ UNCHANGED <<interval, hold, flushed, dry_run, quit, up>>
               /\ pc = "poll" /\ pc' = "sleep"
    BY <1>5 DEF AdjustKey, SetConfig
  <1>6. ASSUME NEW i \in Intervals, IntervalCommand(i)
        PROVE  /\ interval' = i /\ UNCHANGED <<hold, flushed, dry_run, quit, up>>
               /\ pc = "poll" /\ pc' = "sleep"
    BY <1>6 DEF IntervalCommand, SetFlushInterval
  <1>7. UNCHANGED <<shutdown, dt, exit, attempted, clocks, counts,
                    hardware, last_interval, served, simulated>>
    BY DEF Keys, QuitKey, SaveKey, ResetKey, HoldKey, DryRunKey, BadCommand,
           AdjustKey, IntervalCommand, tuneVars
  <1> QED  BY <1>1, <1>2, <1>3, <1>4, <1>5, <1>6, <1>7 DEF Keys

\* The flags, settings and phases of the dashboard, as one formula.
TunePhasesOK ==
    /\ pc \in {"down", "top", "poll", "sleep", "awake", "read", "failing",
               "done", "leave"}
    /\ up = (pc # "down")
    /\ interval \in Intervals /\ last_interval \in Intervals
    /\ attempted \in OptCVs
    /\ hold \in BOOLEAN /\ shutdown \in BOOLEAN /\ flushed \in BOOLEAN
    /\ dry_run \in BOOLEAN /\ quit \in BOOLEAN /\ hardware \in BOOLEAN
    /\ simulated \in BOOLEAN
    /\ served \in 0 .. MaxRequests

\* Each step leads from a phase of an iteration to another one.
LEMMA TunePhasesStep ==
    TunePhasesOK /\ SessionTypeOK /\ TuneNext => TunePhasesOK'
  <1> SUFFICES ASSUME TunePhasesOK, SessionTypeOK, TuneNext
               PROVE  TunePhasesOK'
    OBVIOUS
  <1> USE DEF TunePhasesOK, At, Goto
  <1>1. ASSUME NEW c \in Configs, NEW i \in Intervals, NEW r \in BOOLEAN,
               NEW hw \in BOOLEAN, NEW dry \in BOOLEAN,
               StartTune(c, i, r, hw, dry)
        PROVE  TunePhasesOK'
    <2>1. /\ hold' \in BOOLEAN /\ shutdown' \in BOOLEAN
          /\ flushed' \in BOOLEAN /\ dry_run' \in BOOLEAN
          /\ quit' \in BOOLEAN /\ hardware' \in BOOLEAN
          /\ simulated' \in BOOLEAN
      BY <1>1 DEF StartTune
    <2>2. served' \in 0 .. MaxRequests
      BY <1>1, TuneAssumption DEF StartTune
    <2> QED  BY <1>1, <2>1, <2>2 DEF StartTune, New, OptCVs
  <1>2. CASE Iterate \/ NotDue \/ DueMeasured
    BY <1>2 DEF Iterate, NotDue, DueMeasured, Due, tuneVars, sessionVars
  <1>3. CASE PollTimesOut
    BY <1>3 DEF PollTimesOut, Key, sessionVars
  <1>4. CASE ServeEnds
    BY <1>4, TuneAssumption DEF ServeEnds, sessionVars
  <1>5. CASE TuneSignal \/ TunePass
    BY <1>5 DEF TuneSignal, Signal, TunePass, Pass, Elapse, tuneVars,
                sessionVars
  <1>6. CASE LeaveLoop
    BY <1>6, SwitchAssumption DEF LeaveLoop, FlushShutdown, ForceFlush, tuneVars
  <1>7. CASE DueSkipped
    BY <1>7 DEF DueSkipped, Due, OnDtSkipped, tuneVars
  <1>8. CASE ReadWithoutSink
    BY <1>8 DEF ReadWithoutSink, PvRead, sessionVars
  <1>9. ASSUME NEW r \in {"ok", "err"}, TunePvFails(r) PROVE TunePhasesOK'
    <2>1. /\ up' = up /\ attempted' \in OptCVs /\ simulated' \in BOOLEAN
      BY <1>9, SafeFrame
         DEF TunePvFails, Recorded, OptCVs, AppliedCVs, sessionVars
    <2> QED  BY <1>9, <2>1 DEF TunePvFails
  <1>10. ASSUME NEW r \in {"ok", "err"}, FailingTune(r) PROVE TunePhasesOK'
    <2>1. /\ up' = up /\ attempted' \in OptCVs /\ simulated' \in BOOLEAN
      BY <1>10, SafeFrame
         DEF FailingTune, FailingSafe, Recorded, OptCVs, AppliedCVs, sessionVars
    <2> QED  BY <1>10, <2>1 DEF FailingTune, FailingSafe
  <1>11. ASSUME NEW r \in {"ok", "err", "dry"}, HeldTick(r)
         PROVE  TunePhasesOK'
    <2>1. attempted' \in OptCVs
      BY <1>11, AppliedType DEF HeldTick, Asks, OptCVs, SessionTypeOK, Snapshots
    <2>2. simulated' \in BOOLEAN
      BY <1>11 DEF HeldTick
    <2> QED  BY <1>11, <2>1, <2>2 DEF HeldTick, PvRead, HoldTickWrite
  <1>12. ASSUME NEW pv \in PVs, NEW a \in IAccs, NEW cv \in CVs,
                NEW r \in {"ok", "err", "dry"}, StepTick(pv, a, cv, r)
         PROVE  TunePhasesOK'
    BY <1>12 DEF StepTick, PvRead, ProcessPv, Asks, Recorded, OptCVs, AppliedCVs
  <1>13. CASE TuneReturn \/ TuneKill
    <2>1. /\ hold' \in BOOLEAN /\ shutdown' \in BOOLEAN
          /\ dry_run' \in BOOLEAN /\ quit' \in BOOLEAN
          /\ hardware' \in BOOLEAN
      BY <1>13 DEF TuneReturn, TuneKill, Return, Kill, Gone, TuneGone
    <2>2. served' \in 0 .. MaxRequests
      BY <1>13, TuneAssumption DEF TuneReturn, TuneKill, TuneGone
    <2> QED  BY <1>13, <2>1, <2>2
             DEF TuneReturn, TuneKill, Return, Kill, Gone, Stop, TuneGone
  <1>14. CASE Keys
    BY <1>14, KeysFrame
  <1>15. CASE TuneRequest
    BY <1>15, TuneRequestFrame, TuneAssumption DEF TuneRequest
  <1> QED  BY <1>1, <1>2, <1>3, <1>4, <1>5, <1>6, <1>7, <1>8, <1>9, <1>10,
              <1>11, <1>12, <1>13, <1>14, <1>15
           DEF TuneNext, TuneStart, TuneStep, TuneRead

\* Each step keeps the clocks within their bounds and the deadline near.
LEMMA TuneClocksStep ==
    TunePhasesOK /\ ClocksOK /\ DeadlineNear /\ TuneNext
        => ClocksOK' /\ DeadlineNear'
  <1> SUFFICES ASSUME TunePhasesOK, ClocksOK, DeadlineNear, TuneNext
               PROVE  ClocksOK' /\ DeadlineNear'
    OBVIOUS
  <1> USE DEF TunePhasesOK, DeadlineNear, At, Goto
  <1>1. /\ interval \in Nat \ {0} /\ last_interval \in Nat \ {0}
        /\ LateCap \in Nat /\ AgeCap \in Nat
    BY LoopTimeAssumption, BoundsAssumption
  <1>2. ASSUME UNCHANGED <<dt, clocks>>, pc # "down",
               \/ pc' \notin {"down", "awake"} /\ last_interval' = last_interval
               \/ pc' = pc /\ UNCHANGED <<interval, last_interval>>
        PROVE  ClocksOK' /\ DeadlineNear'
    BY <1>2 DEF ClocksOK, clocks
  <1>3. ASSUME NEW c \in Configs, NEW i \in Intervals, NEW r \in BOOLEAN,
               NEW hw \in BOOLEAN, NEW dry \in BOOLEAN,
               StartTune(c, i, r, hw, dry)
        PROVE  ClocksOK' /\ DeadlineNear'
    BY <1>1, <1>3, LoopTimeAssumption DEF StartTune, ClocksOK
  <1>4. CASE Iterate \/ NotDue \/ LeaveLoop
    BY <1>2, <1>4 DEF Iterate, NotDue, LeaveLoop, tuneVars
  <1>5. CASE PollTimesOut
    BY <1>2, <1>5 DEF PollTimesOut, Key
  <1>6. CASE ServeEnds
    BY <1>1, <1>6 DEF ServeEnds, Retimed, ClocksOK
  <1>7. CASE DueSkipped \/ DueMeasured
    <2>1. /\ until' = NextUntil /\ tick_age' = 0 /\ pc' \in {"top", "read"}
          /\ UNCHANGED <<dt, pv_age, interval, last_interval>>
          /\ until <= 0 /\ pc = "awake"
      BY <1>7 DEF DueSkipped, DueMeasured, Due, tuneVars
    <2>2. NextUntil \in Int /\ NextUntil > 0 /\ NextUntil <= interval
      BY <1>1, <2>1, NextUntilRange DEF ClocksOK
    <2> QED  BY <1>1, <2>1, <2>2 DEF ClocksOK
  <1>8. CASE ReadWithoutSink
    BY <1>2, <1>8 DEF ReadWithoutSink, PvRead
  <1>9. ASSUME NEW r, TunePvFails(r) PROVE ClocksOK' /\ DeadlineNear'
    BY <1>2, <1>9 DEF TunePvFails
  <1>10. ASSUME NEW r, FailingTune(r) PROVE ClocksOK' /\ DeadlineNear'
    BY <1>2, <1>10 DEF FailingTune, FailingSafe
  <1>11. ASSUME NEW r, HeldTick(r) PROVE ClocksOK' /\ DeadlineNear'
    BY <1>2, <1>11 DEF HeldTick, PvRead
  <1>12. ASSUME NEW pv, NEW a, NEW cv, NEW r, StepTick(pv, a, cv, r)
         PROVE  ClocksOK' /\ DeadlineNear'
    BY <1>2, <1>12 DEF StepTick, PvRead
  <1>13. CASE TuneReturn \/ TuneKill
    BY <1>1, <1>13 DEF TuneReturn, TuneKill, Return, Kill, Gone, ClocksOK, Ages
  <1>14. CASE Keys
    BY <1>2, <1>14, KeysFrame
  <1>15. CASE TuneRequest
    BY <1>2, <1>15, TuneRequestFrame DEF TuneRequest
  <1>16. CASE TuneSignal
    BY <1>2, <1>16 DEF TuneSignal, Signal, tuneVars
  <1>17. CASE TunePass
    <2>1. pv_age' \in Ages
      BY <1>17, SaturatingIncBound, BoundsAssumption, SetsAssumption
         DEF TunePass, Pass, ClocksOK, Ages
    <2>2. tick_age' \in 0 .. AgeCap
      BY <1>17, SaturatingIncBound, BoundsAssumption DEF TunePass, Pass, ClocksOK
    <2>3. until' \in Int /\ until' >= -LateCap /\ until' <= until
      BY <1>1, <1>17 DEF TunePass, Pass, ClocksOK
    <2>4. UNCHANGED <<dt, pc, interval, last_interval>> /\ pc # "down"
      BY <1>17 DEF TunePass, Pass, tuneVars
    <2> QED  BY <1>1, <2>1, <2>2, <2>3, <2>4 DEF ClocksOK
  <1> QED  BY <1>3, <1>4, <1>5, <1>6, <1>7, <1>8, <1>9, <1>10, <1>11, <1>12,
              <1>13, <1>14, <1>15, <1>16, <1>17
           DEF TuneNext, TuneStart, TuneStep, TuneRead

\* Each step keeps the failure counts, and below their limits where it goes on.
LEMMA TuneCountsStep ==
    TunePhasesOK /\ CountsOK /\ TuneBelow /\ TuneNext => CountsOK' /\ TuneBelow'
  <1> SUFFICES ASSUME TunePhasesOK, CountsOK, TuneBelow, TuneNext
               PROVE  CountsOK' /\ TuneBelow'
    OBVIOUS
  <1> USE DEF TunePhasesOK, At, Goto
  <1>1. ASSUME UNCHANGED counts,
               pc' \in {"top", "poll", "sleep", "awake", "read"}
                   => pc \in {"top", "poll", "sleep", "awake", "read"}
        PROVE  CountsOK' /\ TuneBelow'
    BY <1>1 DEF CountsOK, TuneBelow, counts
  <1>2. ASSUME pv_fail_count' = 0, cv_fail_count' \in Nat
        PROVE  CountsOK' /\ TuneBelow'
    BY <1>2, LoopPolicyAssumption DEF CountsOK, TuneBelow
  <1>3. ASSUME NEW c, NEW i, NEW r, NEW hw, NEW dry, StartTune(c, i, r, hw, dry)
        PROVE  CountsOK' /\ TuneBelow'
    BY <1>2, <1>3 DEF StartTune
  <1>4. CASE \/ Iterate \/ NotDue \/ LeaveLoop \/ PollTimesOut \/ ServeEnds
             \/ DueSkipped \/ DueMeasured \/ TuneSignal \/ TunePass
    BY <1>1, <1>4 DEF Iterate, NotDue, LeaveLoop, PollTimesOut, Key, ServeEnds,
                      DueSkipped, DueMeasured, Due, TuneSignal, Signal,
                      TunePass, Pass
  <1>5. ASSUME NEW r, TunePvFails(r) PROVE CountsOK' /\ TuneBelow'
    <2>1. /\ pv_fail_count \in 0 .. CountCap
          /\ pv_fail_count' = SaturatingInc(pv_fail_count, CountCap)
      BY <1>5 DEF TunePvFails, CountsOK
    <2>2. /\ pv_fail_count' \in 0 .. CountCap
          /\ pv_fail_count' <= pv_fail_count + 1
      BY <2>1, LoopPolicyAssumption DEF SaturatingInc
    <2>3. (FailAfter # None /\ FailAfter > 0) => pv_fail_count' <= FailAfter
      BY <1>5, <2>1, <2>2, LoopPolicyAssumption DEF TunePvFails, TuneBelow
    <2>4. pc' # "leave" => FailAfter = None \/ pv_fail_count' < FailAfter
      BY <1>5, <2>2, LoopPolicyAssumption DEF TunePvFails, PvExhausted
    <2> QED  BY <1>5, <2>2, <2>3, <2>4 DEF TunePvFails, CountsOK, TuneBelow
  <1>6. CASE ReadWithoutSink
    BY <1>2, <1>6 DEF ReadWithoutSink, PvRead, CountsOK
  <1>7. ASSUME NEW r, HeldTick(r) PROVE CountsOK' /\ TuneBelow'
    BY <1>2, <1>7 DEF HeldTick, PvRead, CountsOK
  <1>8. ASSUME NEW pv, NEW a, NEW cv, NEW r, StepTick(pv, a, cv, r)
        PROVE  CountsOK' /\ TuneBelow'
    BY <1>2, <1>8 DEF StepTick, PvRead, CountsOK
  <1>9. ASSUME NEW r, FailingTune(r) PROVE CountsOK' /\ TuneBelow'
    BY <1>1, <1>9 DEF FailingTune, FailingSafe
  <1>10. CASE TuneReturn \/ TuneKill
    BY <1>2, <1>10 DEF TuneReturn, TuneKill, Return, Kill, Gone
  <1>11. CASE Keys
    BY <1>1, <1>11, KeysFrame
  <1>12. CASE TuneRequest
    BY <1>1, <1>12, TuneRequestFrame DEF TuneRequest
  <1> QED  BY <1>3, <1>4, <1>5, <1>6, <1>7, <1>8, <1>9, <1>10, <1>11, <1>12
           DEF TuneNext, TuneStart, TuneStep, TuneRead

\* A process ends with dry_run reset, and only a start sets it without one.
LEMMA DownIsIdleStep == TunePhasesOK /\ DownIsIdle /\ TuneNext => DownIsIdle'
  <1> SUFFICES ASSUME TunePhasesOK, DownIsIdle, TuneNext, pc' = "down"
               PROVE  ~dry_run'
    BY DEF DownIsIdle, At
  <1>1. CASE TuneReturn \/ TuneKill
    BY <1>1 DEF TuneReturn, TuneKill, TuneGone
  <1>2. CASE Keys
    BY <1>2, KeysFrame DEF TunePhasesOK
  <1>3. CASE TuneRequest
    BY <1>3, TuneRequestFrame DEF TuneRequest, TunePhasesOK
  <1> QED  BY <1>1, <1>2, <1>3
           DEF TuneNext, TuneStart, StartTune, TuneStep, Iterate, NotDue,
               LeaveLoop, PollTimesOut, Key, ServeEnds, DueSkipped, DueMeasured,
               TuneRead, ReadWithoutSink, TunePvFails, HeldTick, StepTick,
               FailingTune, FailingSafe, TuneSignal, Signal, TunePass, Pass,
               tuneVars, At, Goto, DownIsIdle

\* Each step keeps the invariant: the parts above together.
LEMMA TuneInvStep == TuneInv /\ [TuneNext]_tuneAll => TuneInv'
  <1> SUFFICES ASSUME TuneInv, [TuneNext]_tuneAll PROVE TuneInv'
    OBVIOUS
  <1>1. SessionTypeOK'
    BY SessionTypeStep, TuneSessionStep DEF TuneInv, TuneTypeOK
  <1>2. CASE TuneNext
    <2>1. TunePhasesOK /\ SessionTypeOK /\ ClocksOK /\ CountsOK
      BY DEF TuneInv, TuneTypeOK, TunePhasesOK
    <2>2. TunePhasesOK' /\ ClocksOK' /\ CountsOK'
      BY <1>2, <2>1, TunePhasesStep, TuneClocksStep, TuneCountsStep DEF TuneInv
    <2>3. TuneBelow' /\ DeadlineNear' /\ DownIsIdle'
      BY <1>2, <2>1, TuneClocksStep, TuneCountsStep, DownIsIdleStep DEF TuneInv
    <2> QED  BY <1>1, <2>2, <2>3 DEF TuneInv, TuneTypeOK, TunePhasesOK
  <1>3. CASE UNCHANGED tuneAll
    <2>1. UNCHANGED <<pc, interval, hold, shutdown, dt, exit, attempted, flushed,
                      until, tick_age, pv_age, pv_fail_count, cv_fail_count, up,
                      dry_run, quit, hardware, last_interval, served, simulated>>
      BY <1>3 DEF tuneAll, tuneVars, vars, loopVars, clocks, counts, sessionVars
    <2> QED  BY <1>1, <2>1 DEF TuneInv, TuneTypeOK, ClocksOK, CountsOK,
                               TuneBelow, DeadlineNear, DownIsIdle, At
  <1> QED  BY <1>2, <1>3

\* So the invariant holds in every reachable state.
LEMMA TuneInvHolds == TuneSpec => []TuneInv
  BY TuneInvInit, TuneInvStep, PTL DEF TuneSpec

\* The dashboard's variables keep their types and the failure counts their
\* limits, whatever keys, commands and requests arrive.
THEOREM TuneTypeCorrect == TuneSpec => []TuneTypeOK
  <1>1. TuneInv => TuneTypeOK
    BY DEF TuneInv
  <1> QED  BY <1>1, TuneInvHolds, PTL

\* However the interval is changed and however late a tick is, an iteration
\* leaves a deadline that is ahead by one current interval at most.
THEOREM DeadlineAheadCorrect == TuneSpec => DeadlineAhead
  <1>1. TuneInv /\ [TuneNext]_tuneAll
          => [At("awake") /\ ~At("awake")' /\ pc' # "down"
                 => until' > 0 /\ until' <= interval]_tuneAll
    <2> SUFFICES ASSUME TuneInv, TuneNext, At("awake"), ~At("awake")',
                        pc' # "down"
                 PROVE  until' > 0 /\ until' <= interval
      OBVIOUS
    <2>1. NotDue \/ DueSkipped \/ DueMeasured
      <3>1. ~Keys /\ ~TuneRequest
        BY KeysFrame, TuneRequestFrame
           DEF TuneRequest, TuneInv, TuneTypeOK, At
      <3> QED  BY <3>1
               DEF TuneNext, TuneStart, StartTune, TuneStep, Iterate, LeaveLoop,
                   PollTimesOut, Key, ServeEnds, TuneRead, ReadWithoutSink,
                   PvRead, TunePvFails, HeldTick, StepTick, FailingTune,
                   FailingSafe, TuneReturn, TuneKill, Return, Kill, Gone,
                   TuneSignal, Signal, TunePass, Pass, At, Goto
    <2>2. /\ interval \in Nat \ {0} /\ until \in Int
          /\ until <= interval
      BY LoopTimeAssumption
         DEF TuneInv, TuneTypeOK, ClocksOK, DeadlineNear, At
    <2>3. CASE NotDue
      BY <2>2, <2>3 DEF NotDue, clocks
    <2>4. CASE DueSkipped \/ DueMeasured
      BY <2>2, <2>4, NextUntilRange DEF DueSkipped, DueMeasured, Due
    <2> QED  BY <2>1, <2>3, <2>4
  <1> QED  BY <1>1, TuneInvHolds, PTL DEF TuneSpec, DeadlineAhead

----------------------------------------------------------------------------
(* The CV: through dry runs, holds and safe CVs.                            *)

\* The steps that write no CV in a process that goes on.
QuietSteps ==
    \/ Iterate \/ LeaveLoop \/ PollTimesOut \/ ServeEnds \/ NotDue \/ DueSkipped
    \/ DueMeasured \/ ReadWithoutSink \/ Keys \/ TuneRequest \/ TuneSignal
    \/ TunePass

\* What such a step leaves alone.
CvKept ==
    /\ UNCHANGED <<up, confirmed, actuator, simulated, attempted>>
    /\ snapshot'.last_cv = snapshot.last_cv

\* Nor does a method of the session that writes no CV.
LEMMA MethodKeepsCv ==
    ASSUME SessionTypeOK,
           \/ \E c \in Configs : SetConfig(c)
           \/ ResetIntegral
           \/ \E f \in FlushIntervals : SetFlushInterval(f)
           \/ OnDtSkipped \/ ForceFlush \/ Elapse \/ UNCHANGED sessionVars
    PROVE  /\ UNCHANGED <<up, confirmed, actuator>>
           /\ snapshot'.last_cv = snapshot.last_cv
  <1>1. CASE \/ \E c \in Configs : SetConfig(c)
             \/ ResetIntegral
    BY <1>1 DEF SetConfig, ResetIntegral, history, SessionTypeOK, Snapshots
  <1>2. CASE \/ \E f \in FlushIntervals : SetFlushInterval(f)
             \/ OnDtSkipped \/ ForceFlush \/ Elapse \/ UNCHANGED sessionVars
    BY <1>2 DEF SetFlushInterval, OnDtSkipped, ForceFlush, Elapse, sessionVars,
                history
  <1> QED  BY <1>1, <1>2

\* Keys and requests write no CV.
LEMMA ControlKeepsCv ==
    ASSUME SessionTypeOK, Keys \/ Request
    PROVE  /\ UNCHANGED <<up, confirmed, actuator>>
           /\ snapshot'.last_cv = snapshot.last_cv
  <1>1. ASSUME NEW c \in Configs, AdjustKey(c) \/ SocketSet(c)
        PROVE  \E d \in Configs : SetConfig(d)
    BY <1>1 DEF AdjustKey, Key, SocketSet, Requests
  <1>2. ASSUME NEW i \in Intervals, IntervalCommand(i) \/ SocketSetInterval(i)
        PROVE  \E f \in FlushIntervals : SetFlushInterval(f)
    BY <1>2, DerivedAssumption
       DEF IntervalCommand, Key, SocketSetInterval, Requests
  <1>3. CASE ResetKey \/ SocketReset
    BY <1>3, MethodKeepsCv DEF ResetKey, Key, SocketReset, Requests
  <1>4. CASE QuitKey \/ SaveKey \/ SocketSave
    BY <1>4, MethodKeepsCv
       DEF QuitKey, SaveKey, FlushShutdown, Key, SocketSave, Requests
  <1>5. CASE HoldKey \/ DryRunKey \/ BadCommand \/ SocketHold \/ SocketResume
    BY <1>5, MethodKeepsCv
       DEF HoldKey, DryRunKey, BadCommand, Key, SocketHold, SocketResume,
           Requests
  <1> QED  BY <1>1, <1>2, <1>3, <1>4, <1>5, MethodKeepsCv DEF Keys, Request

\* The steps that write no CV leave alone what is known of it.
LEMMA QuietKeepsCv == TuneTypeOK /\ QuietSteps => CvKept
  <1> SUFFICES ASSUME TuneTypeOK, QuietSteps PROVE CvKept
    OBVIOUS
  <1> USE DEF CvKept
  <1>1. SessionTypeOK
    BY DEF TuneTypeOK
  <1>2. CASE \/ Iterate \/ PollTimesOut \/ ServeEnds \/ NotDue \/ DueMeasured
             \/ ReadWithoutSink \/ TuneSignal
    BY <1>1, <1>2, MethodKeepsCv
       DEF Iterate, PollTimesOut, Key, ServeEnds, NotDue, DueMeasured, Due,
           ReadWithoutSink, PvRead, TuneSignal, Signal, tuneVars
  <1>3. CASE LeaveLoop \/ DueSkipped \/ TunePass
    BY <1>1, <1>3, MethodKeepsCv
       DEF LeaveLoop, FlushShutdown, DueSkipped, Due, TunePass, Pass, tuneVars
  <1>4. CASE Keys
    BY <1>1, <1>4, ControlKeepsCv, KeysFrame DEF TuneTypeOK
  <1>5. CASE TuneRequest
    BY <1>1, <1>5, ControlKeepsCv, TuneRequestFrame DEF TuneRequest, TuneTypeOK
  <1> QED  BY <1>2, <1>3, <1>4, <1>5 DEF QuietSteps

\* A safe CV is confirmed and recorded together, or nothing is.  In the second
\* case it may have reached the actuator all the same.
LEMMA SafeWritten ==
    ASSUME SessionTypeOK, NEW r \in {"ok", "err"}, SafeCv # None,
           WriteSafe(r), Recorded(r)
    PROVE  /\ up' = up
           /\ \/ /\ UNCHANGED <<confirmed, simulated>>
                 /\ actuator' \in {actuator, None}
                 /\ snapshot'.last_cv = snapshot.last_cv
              \/ /\ confirmed' = SafeCv /\ actuator' = SafeCv
                 /\ simulated' = FALSE
                 /\ Applied(snapshot'.last_cv) = SafeCv
  <1>1. WriteSafeCv(SafeCv, r) /\ SafeCv \in CVs /\ Applied(SafeCv) = SafeCv
    BY LoopPolicyAssumption DEF WriteSafe, Applied
  <1>2. CASE r = "err"
    BY <1>1, <1>2 DEF WriteSafeCv, WriteCv, Ok, Recorded
  <1>3. CASE r = "ok"
    BY <1>1, <1>3
       DEF WriteSafeCv, WriteCv, Ok, Recorded, SessionTypeOK, Snapshots
  <1> QED  BY <1>2, <1>3

\* Each step moves the CV that is recorded and the confirmed one together, or
\* marks the recorded one as simulated.
LEMMA TuneCvKnownStep ==
    TuneTypeOK /\ TuneCvKnown /\ [TuneNext]_tuneAll => TuneCvKnown'
  <1> SUFFICES ASSUME TuneTypeOK, TuneCvKnown, [TuneNext]_tuneAll
               PROVE  TuneCvKnown'
    OBVIOUS
  <1> USE DEF TuneCvKnown, Wrote
  <1>1. SessionTypeOK
    BY DEF TuneTypeOK
  <1>2. CASE QuietSteps
    BY <1>2, QuietKeepsCv DEF CvKept
  <1>3. CASE TuneStart
    BY <1>3 DEF TuneStart, StartTune, New
  <1>4. CASE TuneReturn \/ TuneKill
    BY <1>4 DEF TuneReturn, TuneKill, Return, Kill, Gone, Stop
  <1>5. ASSUME NEW r \in {"ok", "err"}, TunePvFails(r) \/ FailingTune(r)
        PROVE  TuneCvKnown'
    <2>1. CASE SafeCv # None /\ WriteSafe(r) /\ Recorded(r)
      BY <1>1, <2>1, SafeWritten
    <2>2. CASE UNCHANGED <<sessionVars, simulated>>
      BY <2>2 DEF sessionVars, history
    <2> QED  BY <1>5, <2>1, <2>2, SafeFrame
             DEF TunePvFails, FailingTune, FailingSafe
  <1>6. ASSUME NEW r \in {"ok", "err", "dry"}, HeldTick(r) PROVE TuneCvKnown'
    <2>1. /\ up' = up /\ snapshot' = snapshot
          /\ WriteCv(Applied(snapshot.last_cv), r)
          /\ simulated' = (simulated /\ r # "ok")
      BY <1>6 DEF HeldTick, HoldTickWrite
    <2> QED  BY <2>1 DEF WriteCv
  <1>7. ASSUME NEW pv \in PVs, NEW a \in IAccs, NEW cv \in CVs,
               NEW r \in {"ok", "err", "dry"}, StepTick(pv, a, cv, r)
        PROVE  TuneCvKnown'
    <2>1. /\ up' = up /\ WriteCv(cv, r) /\ Recorded(r)
          /\ snapshot'.last_cv = CvAfter(cv, r)
      BY <1>7 DEF StepTick, ProcessPv, BuildSnapshot
    <2>2. CASE r = "dry"
      BY <2>1, <2>2 DEF Recorded
    <2>3. CASE r = "ok"
      BY <2>1, <2>3, SetsAssumption DEF CvAfter, Ok, WriteCv, Applied
    <2>4. CASE r = "err"
      <3>1. Applied(snapshot'.last_cv) = Applied(snapshot.last_cv)
        BY <2>1, <2>4, SetsAssumption DEF CvAfter, Ok, Applied
      <3> QED  BY <2>1, <2>4, <3>1 DEF WriteCv, Recorded
    <2> QED  BY <2>2, <2>3, <2>4
  <1>8. CASE UNCHANGED tuneAll
    BY <1>8 DEF tuneAll, tuneVars, vars, sessionVars, history
  <1> QED  BY <1>2, <1>3, <1>4, <1>5, <1>6, <1>7, <1>8
           DEF TuneNext, TuneStep, TuneRead, QuietSteps

\* The CV recorded last is the one confirmed last, unless a dry run simulated
\* it, and the actuator has it unless a write that failed has reached it.
THEOREM TuneCvKnownCorrect == TuneSpec => []TuneCvKnown
  <1>1. TuneInit => TuneCvKnown
    BY DEF TuneInit, Init, SessionInit, TuneCvKnown
  <1> QED  BY <1>1, TuneCvKnownStep, TuneTypeCorrect, PTL DEF TuneSpec

\* A held loop moves the actuator to the safe CV, or to the recorded one where
\* the actuator is not known to have it.
THEOREM HoldKeepsCvCorrect == TuneSpec => HoldKeepsCv
  <1> DEFINE Allowed == \/ actuator' \in {SafeCv, None}
                        \/ /\ actuator' = Applied(snapshot.last_cv)
                           /\ simulated \/ ~Wrote \/ actuator = None
  <1>1. TuneTypeOK /\ TuneCvKnown /\ [TuneNext]_tuneAll
          => [(hold /\ hold' /\ actuator' # actuator) => Allowed]_tuneAll
    <2> SUFFICES ASSUME TuneTypeOK, TuneCvKnown, TuneNext, hold, hold',
                        actuator' # actuator
                 PROVE  Allowed
      OBVIOUS
    <2>1. SessionTypeOK
      BY DEF TuneTypeOK
    <2>2. ~QuietSteps
      BY QuietKeepsCv DEF CvKept
    <2>3. ~TuneStart /\ ~TuneReturn /\ ~TuneKill
      BY DEF TuneStart, StartTune, TuneReturn, TuneKill, Return, Kill, Gone,
             Stop
    <2>4. ASSUME NEW r \in {"ok", "err"}, TunePvFails(r) \/ FailingTune(r)
          PROVE  actuator' \in {SafeCv, None}
      <3>1. CASE SafeCv # None /\ WriteSafe(r) /\ Recorded(r)
        BY <2>1, <3>1, SafeWritten
      <3>2. CASE UNCHANGED sessionVars
        BY <3>2 DEF sessionVars, history
      <3> QED  BY <2>4, <3>1, <3>2, SafeFrame
               DEF TunePvFails, FailingTune, FailingSafe
    <2>5. ASSUME NEW r \in {"ok", "err", "dry"}, HeldTick(r) PROVE Allowed
      <3>1. up /\ WriteCv(Applied(snapshot.last_cv), r)
        BY <2>5 DEF HeldTick, HoldTickWrite
      <3>2. ~simulated /\ Wrote
                => actuator \in {Applied(snapshot.last_cv), None}
        BY <3>1 DEF TuneCvKnown
      <3> QED  BY <3>1, <3>2 DEF WriteCv
    <2>6. ASSUME NEW pv \in PVs, NEW a \in IAccs, NEW cv \in CVs,
                 NEW r \in {"ok", "err", "dry"}, StepTick(pv, a, cv, r)
          PROVE  FALSE
      BY <2>6 DEF StepTick
    <2> QED  BY <2>2, <2>3, <2>4, <2>5, <2>6
             DEF TuneNext, TuneStep, TuneRead, QuietSteps
  <1> QED  BY <1>1, TuneTypeCorrect, TuneCvKnownCorrect, PTL
           DEF TuneSpec, HoldKeepsCv

\* A dry run asks nothing of the actuator but the safe CV.
THEOREM DryRunOnlySafeCorrect == TuneSpec => DryRunOnlySafe
  <1>1. TuneInv /\ [TuneNext]_tuneAll
          => [(dry_run /\ dry_run' /\ attempted' # attempted)
                 => attempted' = SafeCv]_tuneAll
    <2> SUFFICES ASSUME TuneInv, TuneNext, dry_run, attempted' # attempted
                 PROVE  attempted' = SafeCv
      OBVIOUS
    <2>1. ~QuietSteps
      BY QuietKeepsCv DEF CvKept, TuneInv
    <2>2. ~TuneStart
      BY DEF TuneStart, StartTune, At, TuneInv, DownIsIdle
    <2>3. ~TuneReturn /\ ~TuneKill
      BY DEF TuneReturn, TuneKill, Return, Kill, Gone
    <2>4. ASSUME NEW r \in {"ok", "err"}, TunePvFails(r) \/ FailingTune(r)
          PROVE  attempted' = SafeCv
      BY <2>4, SafeFrame DEF TunePvFails, FailingTune, FailingSafe
    <2>5. ASSUME NEW r, HeldTick(r) PROVE FALSE
      BY <2>5 DEF HeldTick, ActiveResults, Asks
    <2>6. ASSUME NEW pv, NEW a, NEW cv, NEW r, StepTick(pv, a, cv, r)
          PROVE  FALSE
      BY <2>6 DEF StepTick, ActiveResults, Asks
    <2> QED  BY <2>1, <2>2, <2>3, <2>4, <2>5, <2>6
             DEF TuneNext, TuneStep, TuneRead, QuietSteps
  <1> QED  BY <1>1, TuneInvHolds, PTL DEF TuneSpec, DryRunOnlySafe

\* Between the flush on leaving and the next start the file names the
\* confirmed CV.
TuneFlushedIsSaved ==
    /\ (At("done") /\ flushed) => disk = snapshot
    /\ TuneExitDurable

\* Only the flush on leaving and the end of the process lead to its phases.
LEMMA TuneFlushedStep ==
    TuneTypeOK /\ TuneCvKnown /\ TuneFlushedIsSaved /\ [TuneNext]_tuneAll
        => TuneFlushedIsSaved'
  <1> SUFFICES ASSUME TuneTypeOK, TuneCvKnown, TuneFlushedIsSaved,
                      [TuneNext]_tuneAll
               PROVE  TuneFlushedIsSaved'
    OBVIOUS
  <1> USE DEF TuneFlushedIsSaved, TuneExitDurable, Wrote, At, Goto
  <1>1. CASE pc' \notin {"done", "down"}
    BY <1>1
  <1>2. CASE LeaveLoop
    <2>1. snapshot' = snapshot
      BY <1>2 DEF LeaveLoop, FlushShutdown, ForceFlush
    <2>2. HasStore /\ fail_count' = 0 => disk' = snapshot
      BY <1>2, BoundsAssumption
         DEF LeaveLoop, FlushShutdown, ForceFlush, ForceSave, Save,
             SaturatingInc, TuneTypeOK, SessionTypeOK
    <2> QED  BY <1>2, <2>1, <2>2 DEF LeaveLoop, FlushShutdown
  <1>3. CASE TuneReturn \/ TuneKill
    <2>1. /\ disk' = disk /\ confirmed' = confirmed /\ actuator' = actuator
          /\ simulated' = simulated
      BY <1>3 DEF TuneReturn, TuneKill, TuneGone, Return, Kill, Gone, Stop
    <2>2. up /\ pc' = "down" /\ flushed' = flushed
      BY <1>3 DEF TuneReturn, TuneKill, Return, Kill, Gone, Stop
    <2>3. exit' = "clean" => At("done")
      BY <1>3 DEF TuneReturn, TuneKill, Return, Kill
    <2>4. snapshot # NoFile
      BY NoFileAssumption DEF TuneTypeOK, SessionTypeOK
    <2> QED  BY <2>1, <2>2, <2>3, <2>4 DEF TuneCvKnown
  <1>4. CASE TuneSignal
    BY <1>4 DEF TuneSignal, Signal, tuneVars, sessionVars, persister, history
  <1>5. CASE Keys \/ TuneRequest
    BY <1>1, <1>5, KeysFrame, TuneRequestFrame DEF TuneRequest, TuneTypeOK
  <1>6. CASE UNCHANGED tuneAll
    BY <1>6 DEF tuneAll, tuneVars, vars, loopVars, sessionVars, persister,
                history
  <1>7. ASSUME TuneNext, ~LeaveLoop, ~TuneReturn, ~TuneKill, ~TuneSignal,
               ~Keys, ~TuneRequest
        PROVE  pc' \notin {"done", "down"}
    BY <1>7
       DEF TuneNext, TuneStart, StartTune, TuneStep, Iterate, NotDue,
           PollTimesOut, Key, ServeEnds, DueSkipped, DueMeasured, TuneRead,
           ReadWithoutSink, TunePvFails, HeldTick, StepTick, FailingTune,
           FailingSafe, TunePass, Pass
  <1> QED  BY <1>1, <1>2, <1>3, <1>4, <1>5, <1>6, <1>7

\* After a clean end with a successful flush, the file names the CV that was
\* confirmed last, unless it was simulated, and the actuator has it unless a
\* write that failed has reached it.
THEOREM TuneExitCorrect == TuneSpec => []TuneExitDurable
  <1>1. TuneInit => TuneFlushedIsSaved
    BY DEF TuneInit, Init, TuneFlushedIsSaved, TuneExitDurable, At
  <1>2. TuneFlushedIsSaved => TuneExitDurable
    BY DEF TuneFlushedIsSaved
  <1> QED  BY <1>1, <1>2, TuneFlushedStep, TuneTypeCorrect, TuneCvKnownCorrect,
              PTL
           DEF TuneSpec
=============================================================================
