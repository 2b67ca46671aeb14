--------------------------- MODULE AutotuneProofs ---------------------------
(***************************************************************************)
(* What the autotune command and its relay guarantee for all PVs, delays   *)
(* and failures, and for every number of cycles.                           *)
(***************************************************************************)
EXTENDS Autotune, SequenceTheorems, WellFoundedInduction, TLAPS

----------------------------------------------------------------------------
(* The engine. *)

\* Appending a value keeps a sequence's type and what its elements satisfy.
LEMMA AppendKept ==
    ASSUME NEW S, NEW s \in Seq(S), NEW x \in S
    PROVE  /\ Append(s, x) \in Seq(S)
           /\ Len(Append(s, x)) = Len(s) + 1
           /\ \A k \in DOMAIN Append(s, x) :
                  Append(s, x)[k] = x \/ (k \in DOMAIN s /\ Append(s, x)[k] = s[k])
           /\ Last(Append(s, x)) = x
  <1>1. /\ Append(s, x) \in Seq(S)
        /\ Len(Append(s, x)) = Len(s) + 1
        /\ \A k \in 1 .. Len(s) : Append(s, x)[k] = s[k]
        /\ Append(s, x)[Len(s) + 1] = x
    BY AppendProperties
  <1>2. DOMAIN s = 1 .. Len(s) /\ DOMAIN Append(s, x) = 1 .. Len(s) + 1
        /\ Len(s) \in Nat
    BY <1>1, LenProperties
  <1>3. \A k \in 1 .. Len(s) + 1 : k \in 1 .. Len(s) \/ k = Len(s) + 1
    BY <1>2
  <1> QED  BY <1>1, <1>2, <1>3 DEF Last

\* In a phase the PV has been on the side that the relay drives it away from.
ExtremumBehind ==
    phase_extremum # None =>
        IF relay = "high" THEN phase_extremum <= pv_ref
                          ELSE phase_extremum >= pv_ref

\* A tick keeps the engine's invariants, and the relay answers the PV.  What it
\* records at a crossing is the PV of that tick and the time of the phase.
LEMMA EngineTickStep ==
    ASSUME EngineTypeOK, PeaksBeyondRef, ExtremumBehind, pv_ref \in Int,
           NEW pv \in PVs, NEW d \in Nat, EngineTick(pv, d)
    PROVE  /\ EngineTypeOK' /\ PeaksBeyondRef' /\ ExtremumBehind'
           /\ pv_ref' = pv_ref
           /\ pv > pv_ref => relay' = "low"
           /\ pv < pv_ref => relay' = "high"
           /\ IF relay' = relay
              THEN /\ half_periods' = half_periods
                   /\ phase_elapsed' = phase_elapsed + d
              ELSE /\ half_periods' = Append(half_periods, phase_elapsed + d)
                   /\ phase_elapsed' = 0
           /\ high_peaks' # high_peaks =>
                  high_peaks' = Append(high_peaks, pv)
  <1>1. /\ pv_ref # None /\ pv \in Int /\ pv # None /\ None \notin Int
        /\ \A x \in PVs : x \in Int
    BY RelayAssumption
  <1>2. Ref(pv) = pv_ref /\ pv_ref' = pv_ref
    BY <1>1 DEF EngineTick, Ref
  <1>3. phase_elapsed + d \in Nat
    BY DEF EngineTypeOK
  <1>4. Raised(pv) \in PVs /\ Lowered(pv) \in PVs
    BY DEF Raised, Lowered, EngineTypeOK
  <1>5. \A s \in Seq(PVs) : Len(s) \in Nat
    BY LenProperties
  <1>6. CASE CompleteHigh(pv, phase_elapsed + d)
    <2>1. pv > pv_ref /\ relay = "high"
      BY <1>2, <1>6 DEF CompleteHigh
    <2>2. Raised(pv) = pv
      BY <1>1, <2>1 DEF Raised, ExtremumBehind, EngineTypeOK
    <2>3. /\ high_peaks' = Append(high_peaks, pv)
          /\ half_periods' = Append(half_periods, phase_elapsed + d)
          /\ relay' = "low" /\ phase_elapsed' = 0 /\ phase_extremum' = None
          /\ UNCHANGED <<low_troughs, settled>>
      BY <1>6, <2>2 DEF CompleteHigh, Flip
    <2>4. /\ high_peaks' \in Seq(PVs)
          /\ Len(high_peaks') = Len(high_peaks) + 1
          /\ \A k \in DOMAIN high_peaks' : high_peaks'[k] > pv_ref
      <3>1. /\ high_peaks \in Seq(PVs)
            /\ \A k \in DOMAIN high_peaks : high_peaks[k] > pv_ref
        BY DEF EngineTypeOK, PeaksBeyondRef
      <3>2. /\ Append(high_peaks, pv) \in Seq(PVs)
            /\ Len(Append(high_peaks, pv)) = Len(high_peaks) + 1
            /\ \A k \in DOMAIN Append(high_peaks, pv) :
                  \/ Append(high_peaks, pv)[k] = pv
                  \/ k \in DOMAIN high_peaks /\ Append(high_peaks, pv)[k] = high_peaks[k]
        BY <3>1, AppendKept
      <3>3. high_peaks' = Append(high_peaks, pv) /\ pv > pv_ref
        BY <2>1, <2>3
      <3>4. \A k \in DOMAIN Append(high_peaks, pv) : Append(high_peaks, pv)[k] > pv_ref
        BY <3>1, <3>2, <3>3
      <3> QED  BY <3>2, <3>3, <3>4, Zenon
    <2>5. half_periods' \in Seq(Nat) /\ Len(half_periods') = Len(half_periods) + 1
      <3>1. half_periods \in Seq(Nat)
        BY DEF EngineTypeOK
      <3> QED  BY <1>3, <2>3, <3>1, AppendKept, Zenon
    <2>6. EngineTypeOK'
      BY <1>2, <1>5, <2>1, <2>3, <2>4, <2>5 DEF EngineTypeOK
    <2>7. PeaksBeyondRef' /\ ExtremumBehind'
      BY <1>2, <2>3, <2>4 DEF PeaksBeyondRef, ExtremumBehind
    <2>8. ~(pv < pv_ref)
      BY <1>1, <2>1
    <2> QED  BY <1>2, <2>1, <2>3, <2>6, <2>7, <2>8
  <1>7. CASE CompleteLow(pv, phase_elapsed + d)
    <2>1. pv < pv_ref /\ relay = "low"
      BY <1>2, <1>7 DEF CompleteLow
    <2>2. Lowered(pv) = pv
      BY <1>1, <2>1 DEF Lowered, ExtremumBehind, EngineTypeOK
    <2>3. /\ low_troughs' = Append(low_troughs, pv)
          /\ half_periods' = Append(half_periods, phase_elapsed + d)
          /\ relay' = "high" /\ phase_elapsed' = 0 /\ phase_extremum' = None
          /\ UNCHANGED high_peaks
      BY <1>7, <2>2 DEF CompleteLow, Flip
    <2>4. /\ low_troughs' \in Seq(PVs)
          /\ Len(low_troughs') = Len(low_troughs) + 1
          /\ \A k \in DOMAIN low_troughs' : low_troughs'[k] < pv_ref
      <3>1. /\ low_troughs \in Seq(PVs)
            /\ \A k \in DOMAIN low_troughs : low_troughs[k] < pv_ref
        BY DEF EngineTypeOK, PeaksBeyondRef
      <3>2. /\ Append(low_troughs, pv) \in Seq(PVs)
            /\ Len(Append(low_troughs, pv)) = Len(low_troughs) + 1
            /\ \A k \in DOMAIN Append(low_troughs, pv) :
                  \/ Append(low_troughs, pv)[k] = pv
                  \/ k \in DOMAIN low_troughs /\ Append(low_troughs, pv)[k] = low_troughs[k]
        BY <3>1, AppendKept
      <3>3. low_troughs' = Append(low_troughs, pv) /\ pv < pv_ref
        BY <2>1, <2>3
      <3>4. \A k \in DOMAIN Append(low_troughs, pv) : Append(low_troughs, pv)[k] < pv_ref
        BY <3>1, <3>2, <3>3
      <3> QED  BY <3>2, <3>3, <3>4, Zenon
    <2>5. half_periods' \in Seq(Nat) /\ Len(half_periods') = Len(half_periods) + 1
      <3>1. half_periods \in Seq(Nat)
        BY DEF EngineTypeOK
      <3> QED  BY <1>3, <2>3, <3>1, AppendKept, Zenon
    <2>6. settled' \in BOOLEAN
      BY <1>7 DEF CompleteLow
    <2>7. EngineTypeOK'
      <3>1. /\ relay' \in {"high", "low"} /\ pv_ref' \in Int \cup {None}
            /\ phase_elapsed' \in Nat /\ phase_extremum' \in PVs \cup {None}
            /\ high_peaks' \in Seq(PVs)
        BY <1>2, <2>3 DEF EngineTypeOK
      <3>2. /\ Len(high_peaks') = Len(low_troughs')
            /\ Len(half_periods') = Len(high_peaks') + Len(low_troughs')
        <4>1. /\ Len(high_peaks) \in Nat /\ Len(low_troughs) \in Nat
              /\ Len(high_peaks) = Len(low_troughs) + 1
              /\ Len(half_periods) = Len(high_peaks) + Len(low_troughs)
          BY <1>5, <2>1 DEF EngineTypeOK
        <4>2. /\ Len(high_peaks') = Len(high_peaks)
              /\ Len(low_troughs') = Len(low_troughs) + 1
              /\ Len(half_periods') = Len(half_periods) + 1
          BY <2>3, <2>4, <2>5
        <4> QED  BY <4>1, <4>2
      <3>3. Len(low_troughs') \in Nat
        BY <1>5, <2>4
      <3> QED  BY <2>3, <2>4, <2>5, <2>6, <3>1, <3>2, <3>3 DEF EngineTypeOK
    <2>8. PeaksBeyondRef' /\ ExtremumBehind'
      BY <1>2, <2>3, <2>4 DEF PeaksBeyondRef, ExtremumBehind
    <2>9. ~(pv > pv_ref)
      BY <1>1, <2>1
    <2> QED  BY <1>2, <2>1, <2>3, <2>7, <2>8, <2>9
  <1>8. CASE PhaseGoesOn(pv, phase_elapsed + d)
    <2>1. /\ IF relay = "high" THEN pv <= pv_ref ELSE pv >= pv_ref
          /\ phase_elapsed' = phase_elapsed + d
          /\ phase_extremum' = IF relay = "high" THEN Raised(pv) ELSE Lowered(pv)
          /\ UNCHANGED <<relay, high_peaks, low_troughs, half_periods, settled>>
      BY <1>2, <1>8 DEF PhaseGoesOn
    <2>2. EngineTypeOK'
      BY <1>2, <1>3, <1>4, <2>1 DEF EngineTypeOK
    <2>3. PeaksBeyondRef'
      BY <1>2, <2>1 DEF PeaksBeyondRef
    <2>4. ExtremumBehind'
      BY <1>1, <1>2, <2>1
         DEF ExtremumBehind, Raised, Lowered, EngineTypeOK
    <2>5. /\ pv > pv_ref => relay = "low"
          /\ pv < pv_ref => relay = "high"
      BY <1>1, <2>1 DEF EngineTypeOK
    <2> QED  BY <1>2, <2>1, <2>2, <2>3, <2>4, <2>5
  <1> QED  BY <1>6, <1>7, <1>8 DEF EngineTick

----------------------------------------------------------------------------
(* The command. *)

\* The engine is new until the test starts.
BeforeTest ==
    At("warmup") =>
        /\ high_peaks = <<>> /\ low_troughs = <<>> /\ half_periods = <<>>
        /\ phase_extremum = None /\ phase_elapsed = 0 /\ last_pv = None
        /\ relay = "high"

\* Only the warm-up, and a command that ended in it, have no reference.
RefSet == pc \in {"top", "sleep", "read", "result"} => pv_ref # None

\* The time of the phase is what the engine was told, the dt of the tick in
\* progress and what has passed since.
PhaseTimed ==
    /\ ~lost => phase_age = phase_elapsed + dt + tick_age
    /\ ~At("read") => dt = 0

\* What a signal leaves to be written.
SignalCounted ==
    /\ after_signal <= 1
    /\ ~shutdown \/ pc \in {"warmup", "sleep", "read"} => after_signal = 0

AutotuneInv ==
    /\ AutotuneTypeOK /\ PeaksBeyondRef /\ ExtremumBehind
    /\ BeforeTest /\ RefSet /\ PhaseTimed /\ SignalCounted /\ RelayDrivesBack

\* The invariant holds at the start of the command.
LEMMA AutotuneInvInit == Init => AutotuneInv
  <1> SUFFICES ASSUME Init PROVE AutotuneInv
    OBVIOUS
  <1>1. EngineTypeOK
    <2>1. <<>> \in Seq(PVs) /\ <<>> \in Seq(Nat) /\ Len(<<>>) = 0
      OBVIOUS
    <2>2. settled \in BOOLEAN
      BY DEF Init, EngineInit
    <2> QED  BY <2>1, <2>2 DEF Init, EngineInit, EngineTypeOK
  <1>2. warmup_left \in 0 .. WarmupTicks
    BY CommandAssumption DEF Init
  <1>3. AutotuneTypeOK
    <2>1. lost \in BOOLEAN /\ shutdown \in BOOLEAN /\ saved \in BOOLEAN
      BY DEF Init
    <2> QED  BY <1>1, <1>2, <2>1 DEF Init, AutotuneTypeOK
  <1>4. PeaksBeyondRef /\ ExtremumBehind
    BY DEF Init, EngineInit, PeaksBeyondRef, ExtremumBehind
  <1>5. BeforeTest /\ RefSet /\ PhaseTimed /\ SignalCounted /\ RelayDrivesBack
    BY DEF Init, EngineInit, BeforeTest, RefSet, PhaseTimed, SignalCounted,
           RelayDrivesBack, At
  <1> QED  BY <1>3, <1>4, <1>5 DEF AutotuneInv

\* Steps outside the engine keep its invariants.
LEMMA EngineFrame ==
    ASSUME EngineTypeOK, PeaksBeyondRef, ExtremumBehind, UNCHANGED engineVars
    PROVE  EngineTypeOK' /\ PeaksBeyondRef' /\ ExtremumBehind'
  BY DEF engineVars, EngineTypeOK, PeaksBeyondRef, ExtremumBehind
\* The types of the command's own variables.
CommandTypeOK ==
    /\ pc \in {"warmup", "top", "sleep", "read", "result", "done"}
    /\ warmup_left \in 0 .. WarmupTicks /\ warmup_pv \in PVs \cup {0}
    /\ until \in Int /\ tick_age \in Nat /\ test_age \in Nat
    /\ phase_age \in Nat /\ dt \in Nat
    /\ code \in {None, 0, 1, 2}
    /\ attempted \in {None, Bias, Bias + Amp, Bias - Amp}
    /\ excursion \in Int /\ last_pv \in PVs \cup {None}
    /\ after_signal \in Nat
    /\ shutdown \in BOOLEAN /\ saved \in BOOLEAN /\ lost \in BOOLEAN

\* Each step keeps the types of the command's variables.
LEMMA CommandTypeStep == EngineTypeOK /\ CommandTypeOK /\ Next => CommandTypeOK'
  <1> SUFFICES ASSUME EngineTypeOK, CommandTypeOK, Next PROVE CommandTypeOK'
    OBVIOUS
  <1> USE DEF CommandTypeOK, Goto, At
  <1>1. CASE WarmupInterrupted
    BY <1>1 DEF WarmupInterrupted, clocks, history
  <1>2. ASSUME NEW pv \in PVs \cup {None}, WarmupTick(pv) PROVE CommandTypeOK'
    <2>1. warmup_left' \in 0 .. WarmupTicks
      BY <1>2, CommandAssumption DEF WarmupTick
    <2>2. warmup_pv' \in PVs \cup {0}
      BY <1>2 DEF WarmupTick
    <2>3. attempted' \in {None, Bias, Bias + Amp, Bias - Amp} /\ after_signal' \in Nat
      BY <1>2 DEF WarmupTick, Ask
    <2> QED  BY <1>2, <2>1, <2>2, <2>3 DEF WarmupTick, clocks
  <1>3. CASE TestStarts
    <2>1. until' \in Int /\ tick_age' \in Nat /\ test_age' \in Nat /\ phase_age' \in Nat
      BY <1>3, CommandAssumption DEF TestStarts
    <2> QED  BY <1>3, <2>1 DEF TestStarts, command, history
  <1>4. CASE Top
    BY <1>4 DEF Top, clocks, command, history
  <1>5. CASE TestOver \/ TickStarts
    <2>1. until' \in Int /\ tick_age' \in Nat /\ dt' \in Nat
      BY <1>5, CommandAssumption DEF TestOver, TickStarts
    <2> QED  BY <1>5, <2>1 DEF TestOver, TickStarts, command, history
  <1>6. CASE ReadFails
    <2>1. lost' \in BOOLEAN /\ dt' \in Nat
      BY <1>6 DEF ReadFails
    <2> QED  BY <1>6, <2>1 DEF ReadFails, clocks, command
  <1>7. ASSUME NEW pv \in PVs, RelayTick(pv) PROVE CommandTypeOK'
    <2>1. excursion' \in Int
      BY <1>7, RelayAssumption DEF RelayTick, Farther
    <2>2. attempted' \in {None, Bias, Bias + Amp, Bias - Amp} /\ after_signal' \in Nat
      BY <1>7 DEF RelayTick, Ask, CurrentCv
    <2>3. lost' \in BOOLEAN
      BY <1>7 DEF RelayTick
    <2>4. phase_age' \in Nat /\ dt' \in Nat
      BY <1>7 DEF RelayTick
    <2> QED  BY <1>7, <2>1, <2>2, <2>3, <2>4 DEF RelayTick, command
  <1>8. CASE NoResult
    BY <1>8 DEF NoResult, clocks, history
  <1>9. ASSUME NEW ok \in BOOLEAN, Result(ok) PROVE CommandTypeOK'
    <2>1. saved' \in BOOLEAN
      BY <1>9 DEF Result
    <2> QED  BY <1>9, <2>1 DEF Result, clocks, history
  <1>10. CASE Signal
    BY <1>10 DEF Signal, clocks, command, history
  <1>11. CASE Pass
    <2>1. /\ until' \in Int /\ tick_age' \in Nat /\ test_age' \in Nat
          /\ phase_age' \in Nat
      BY <1>11 DEF Pass
    <2> QED  BY <1>11, <2>1 DEF Pass, command, history
  <1> QED  BY <1>1, <1>2, <1>3, <1>4, <1>5, <1>6, <1>7, <1>8, <1>9, <1>10, <1>11
           DEF Next, Step

\* What a relay tick does to the invariants of the command.
LEMMA RelayTickStep ==
    ASSUME AutotuneInv, NEW pv \in PVs, RelayTick(pv)
    PROVE  /\ EngineTypeOK' /\ PeaksBeyondRef' /\ ExtremumBehind'
           /\ BeforeTest' /\ RefSet' /\ PhaseTimed' /\ SignalCounted'
           /\ RelayDrivesBack'
  <1>1. /\ pv_ref \in Int /\ EngineTypeOK /\ dt \in Nat /\ tick_age \in Nat
        /\ phase_elapsed \in Nat /\ phase_age \in Nat
    BY DEF AutotuneInv, AutotuneTypeOK, EngineTypeOK, RefSet, RelayTick, At
  <1>2. /\ EngineTick(pv, dt) /\ dt' = 0 /\ last_pv' = pv /\ pc = "read"
        /\ pc' \in {"result", "top"} /\ tick_age' = tick_age
        /\ attempted' = CurrentCv(relay')
        /\ after_signal' = after_signal + (IF shutdown THEN 1 ELSE 0)
        /\ shutdown' = shutdown
        /\ IF relay' = relay THEN UNCHANGED <<phase_age, lost>>
                             ELSE phase_age' = tick_age /\ lost' = FALSE
    BY DEF RelayTick, Ask, At, Goto
  <1>3. /\ EngineTypeOK' /\ PeaksBeyondRef' /\ ExtremumBehind'
        /\ pv_ref' = pv_ref
        /\ pv > pv_ref => relay' = "low"
        /\ pv < pv_ref => relay' = "high"
        /\ phase_elapsed' = IF relay' = relay THEN phase_elapsed + dt ELSE 0
    BY <1>1, <1>2, EngineTickStep DEF AutotuneInv
  <1>4. BeforeTest' /\ RefSet'
    BY <1>1, <1>2, <1>3, RelayAssumption DEF BeforeTest, RefSet, At
  <1>5. PhaseTimed'
    BY <1>1, <1>2, <1>3 DEF AutotuneInv, PhaseTimed, At
  <1>6. SignalCounted'
    BY <1>2 DEF AutotuneInv, SignalCounted
  <1>7. RelayDrivesBack'
    BY <1>2, <1>3 DEF RelayDrivesBack, CurrentCv
  <1> QED  BY <1>3, <1>4, <1>5, <1>6, <1>7

\* What the other steps do to them.
LEMMA OtherStep ==
    ASSUME AutotuneInv, Next, \A pv \in PVs : ~RelayTick(pv)
    PROVE  /\ EngineTypeOK' /\ PeaksBeyondRef' /\ ExtremumBehind'
           /\ BeforeTest' /\ RefSet' /\ PhaseTimed' /\ SignalCounted'
           /\ RelayDrivesBack'
  <1> USE DEF BeforeTest, RefSet, PhaseTimed, SignalCounted, RelayDrivesBack,
              At, Goto
  <1>1. /\ EngineTypeOK /\ PeaksBeyondRef /\ ExtremumBehind
        /\ BeforeTest /\ RefSet /\ PhaseTimed /\ SignalCounted
        /\ RelayDrivesBack
        /\ dt \in Nat /\ tick_age \in Nat /\ phase_elapsed \in Nat
        /\ phase_age \in Nat /\ after_signal \in Nat /\ warmup_pv \in Int
    BY RelayAssumption DEF AutotuneInv, AutotuneTypeOK, EngineTypeOK
  <1>2. ASSUME UNCHANGED engineVars
        PROVE  EngineTypeOK' /\ PeaksBeyondRef' /\ ExtremumBehind'
    BY <1>1, <1>2, EngineFrame
  <1>3. CASE WarmupInterrupted
    BY <1>1, <1>2, <1>3 DEF WarmupInterrupted, engineVars, clocks, history
  <1>4. ASSUME NEW pv, WarmupTick(pv)
        PROVE  /\ EngineTypeOK' /\ PeaksBeyondRef' /\ ExtremumBehind'
               /\ BeforeTest' /\ RefSet' /\ PhaseTimed' /\ SignalCounted'
               /\ RelayDrivesBack'
    BY <1>1, <1>2, <1>4 DEF WarmupTick, Ask, engineVars, clocks
  <1>5. CASE TestStarts
    <2>1. /\ pv_ref' = warmup_pv
          /\ UNCHANGED <<relay, phase_elapsed, phase_extremum, high_peaks,
                         low_troughs, half_periods, settled>>
      BY <1>5 DEF TestStarts, SetPvRef
    <2>2. EngineTypeOK'
      BY <1>1, <2>1 DEF EngineTypeOK
    <2>3. PeaksBeyondRef' /\ ExtremumBehind'
      BY <1>1, <1>5, <2>1 DEF PeaksBeyondRef, ExtremumBehind, TestStarts
    <2> QED  BY <1>1, <1>5, <2>1, <2>2, <2>3, RelayAssumption
             DEF TestStarts, history
  <1>6. CASE Top
    BY <1>1, <1>2, <1>6 DEF Top, engineVars, clocks, history
  <1>7. CASE TestOver \/ TickStarts
    BY <1>1, <1>2, <1>7 DEF TestOver, TickStarts, engineVars, history
  <1>8. CASE ReadFails
    BY <1>1, <1>2, <1>8 DEF ReadFails, engineVars, clocks
  <1>9. ASSUME NEW ok, NoResult \/ Result(ok)
        PROVE  /\ EngineTypeOK' /\ PeaksBeyondRef' /\ ExtremumBehind'
               /\ BeforeTest' /\ RefSet' /\ PhaseTimed' /\ SignalCounted'
               /\ RelayDrivesBack'
    BY <1>1, <1>2, <1>9 DEF NoResult, Result, engineVars, clocks, history
  <1>10. CASE Signal
    BY <1>1, <1>2, <1>10 DEF Signal, engineVars, clocks, history
  <1>11. CASE Pass
    BY <1>1, <1>2, <1>11 DEF Pass, engineVars, history
  <1> QED  BY <1>3, <1>4, <1>5, <1>6, <1>7, <1>8, <1>9, <1>10, <1>11
           DEF Next, Step

\* Each step keeps the invariant: the parts above together.
LEMMA AutotuneInvStep == AutotuneInv /\ [Next]_vars => AutotuneInv'
  <1> SUFFICES ASSUME AutotuneInv, [Next]_vars PROVE AutotuneInv'
    OBVIOUS
  <1>1. CASE Next
    <2>1. CommandTypeOK'
      BY <1>1, CommandTypeStep DEF AutotuneInv, AutotuneTypeOK, CommandTypeOK
    <2>2. /\ EngineTypeOK' /\ PeaksBeyondRef' /\ ExtremumBehind'
          /\ BeforeTest' /\ RefSet' /\ PhaseTimed' /\ SignalCounted'
          /\ RelayDrivesBack'
      BY <1>1, RelayTickStep, OtherStep
    <2> QED  BY <2>1, <2>2 DEF AutotuneInv, AutotuneTypeOK, CommandTypeOK
  <1>2. CASE UNCHANGED vars
    BY <1>2, EngineFrame
       DEF vars, clocks, command, history, AutotuneInv, AutotuneTypeOK,
           BeforeTest, RefSet, PhaseTimed, SignalCounted, RelayDrivesBack, At,
           engineVars
  <1> QED  BY <1>1, <1>2

\* So the invariant holds in every reachable state.
LEMMA AutotuneInvHolds == Spec => []AutotuneInv
  BY AutotuneInvInit, AutotuneInvStep, PTL DEF Spec

\* The command's and the engine's variables keep their types, and peaks and
\* troughs alternate.
THEOREM AutotuneTypeCorrect == Spec => []AutotuneTypeOK
  <1>1. AutotuneInv => AutotuneTypeOK
    BY DEF AutotuneInv
  <1> QED  BY <1>1, AutotuneInvHolds, PTL

\* Peaks lie above the reference and troughs below it.
THEOREM PeaksBeyondRefCorrect == Spec => []PeaksBeyondRef
  <1>1. AutotuneInv => PeaksBeyondRef
    BY DEF AutotuneInv
  <1> QED  BY <1>1, AutotuneInvHolds, PTL

\* The CV asked for last drives the PV that was read last back.
THEOREM RelayDrivesBackCorrect == Spec => []RelayDrivesBack
  <1>1. AutotuneInv => RelayDrivesBack
    BY DEF AutotuneInv
  <1> QED  BY <1>1, AutotuneInvHolds, PTL

\* At most one CV is written after a signal.
THEOREM OneCvAfterSignalCorrect == Spec => []OneCvAfterSignal
  <1>1. AutotuneInv => OneCvAfterSignal
    BY DEF AutotuneInv, SignalCounted, OneCvAfterSignal
  <1> QED  BY <1>1, AutotuneInvHolds, PTL

\* Only a relay tick records anything.
LEMMA OnlyTicksRecord ==
    ASSUME Next, \A pv \in PVs : ~RelayTick(pv)
    PROVE  UNCHANGED <<half_periods, high_peaks>>
  BY DEF Next, Step, WarmupInterrupted, WarmupTick, TestStarts, SetPvRef, Top,
         TestOver, TickStarts, ReadFails, NoResult, Result, Signal, Pass,
         engineVars

\* A phase without a failed read is recorded with the time it took.
THEOREM HalfPeriodsCorrect == Spec => HalfPeriodsMeasured
  <1>1. AutotuneInv /\ [Next]_vars
          => [Len(half_periods') > Len(half_periods) /\ ~lost
                 => Last(half_periods') = phase_age - tick_age]_vars
    <2> SUFFICES ASSUME AutotuneInv, Next, ~lost,
                        Len(half_periods') > Len(half_periods)
                 PROVE  Last(half_periods') = phase_age - tick_age
      OBVIOUS
    <2>1. half_periods \in Seq(Nat) /\ Len(half_periods) \in Nat
      BY LenProperties DEF AutotuneInv, AutotuneTypeOK, EngineTypeOK
    <2>2. half_periods' # half_periods
      BY <2>1
    <2>3. PICK pv \in PVs : RelayTick(pv)
      BY <2>2, OnlyTicksRecord
    <2>4. /\ pv_ref \in Int /\ dt \in Nat /\ tick_age \in Nat
          /\ phase_elapsed \in Nat /\ phase_age \in Nat
      BY <2>3
         DEF AutotuneInv, AutotuneTypeOK, EngineTypeOK, RefSet, RelayTick, At
    <2>5. half_periods' = Append(half_periods, phase_elapsed + dt)
      BY <2>2, <2>3, <2>4, EngineTickStep
         DEF RelayTick, AutotuneInv, AutotuneTypeOK
    <2>6. Last(half_periods') = phase_elapsed + dt
      <3> DEFINE t == phase_elapsed + dt
      <3>1. t \in Nat
        BY <2>4
      <3> HIDE DEF t
      <3>2. Last(Append(half_periods, t)) = t
        BY <2>1, <3>1, AppendKept
      <3> QED  BY <2>5, <3>2, Zenon DEF t
    <2>7. phase_age = phase_elapsed + dt + tick_age
      BY DEF AutotuneInv, PhaseTimed
    <2> QED  BY <2>4, <2>6, <2>7
  <1> QED  BY <1>1, AutotuneInvHolds, PTL DEF Spec, HalfPeriodsMeasured

\* A peak is recorded with the PV of the tick that crosses the reference, and so
\* without what the process overshoots after the relay has flipped.
THEOREM PeakIsCrossing ==
    Spec => [][high_peaks' # high_peaks => Last(high_peaks') = last_pv']_vars
  <1>1. AutotuneInv /\ [Next]_vars
          => [high_peaks' # high_peaks => Last(high_peaks') = last_pv']_vars
    <2> SUFFICES ASSUME AutotuneInv, Next, high_peaks' # high_peaks
                 PROVE  Last(high_peaks') = last_pv'
      OBVIOUS
    <2>1. PICK pv \in PVs : RelayTick(pv)
      BY OnlyTicksRecord
    <2>2. /\ pv_ref \in Int /\ dt \in Nat /\ high_peaks \in Seq(PVs)
      BY <2>1
         DEF AutotuneInv, AutotuneTypeOK, EngineTypeOK, RefSet, RelayTick, At
    <2>3. high_peaks' = Append(high_peaks, pv)
      BY <2>1, <2>2, EngineTickStep DEF RelayTick, AutotuneInv, AutotuneTypeOK
    <2>4. Last(high_peaks') = pv
      <3>1. Last(Append(high_peaks, pv)) = pv
        BY <2>2, AppendKept
      <3> QED  BY <2>3, <3>1, Zenon
    <2> QED  BY <2>1, <2>4 DEF RelayTick
  <1> QED  BY <1>1, AutotuneInvHolds, PTL DEF Spec

----------------------------------------------------------------------------
(* The sums of the recorded values, and the exit code. *)

\* Induction on the natural numbers, with the predicate as a set.  A smallest
\* number outside the set would have a predecessor inside it.
LEMMA NatBySet ==
    ASSUME NEW S, 0 \in S, \A n \in Nat : n \in S => n + 1 \in S
    PROVE  Nat \subseteq S
  <1> DEFINE T == Nat \ S
  <1>1. SUFFICES ASSUME T # {} PROVE FALSE
    OBVIOUS
  <1>2. PICK m \in T : \A k \in T : ~(<<k, m>> \in OpToRel(<, Nat))
    <2>1. T \subseteq Nat
      OBVIOUS
    <2> HIDE DEF T
    <2> QED  BY <1>1, <2>1, WFMin, NatLessThanWellFounded, Zenon
  <1>3. \A k \in T : ~(k < m)
    BY <1>2, Zenon DEF OpToRel
  <1>4. m # 0 /\ m - 1 \in Nat /\ m - 1 < m
    OBVIOUS
  <1>5. m - 1 \in S
    BY <1>3, <1>4
  <1> QED  BY <1>4, <1>5

\* The equation that the fold in Total solves: a set of positions is summed from
\* its largest one down.
Summed(s, D, g) ==
    g = [t \in SUBSET D |-> IF t = {} THEN 0 ELSE g[t \ {Max(t)}] + s[Max(t)]]

\* The largest position of a set that holds the last one.
LEMMA MaxIs ==
    ASSUME NEW n \in Nat, NEW t \in SUBSET (1 .. n + 1), n + 1 \in t
    PROVE  Max(t) = n + 1
  <1>1. \A y \in t : n + 1 >= y
    OBVIOUS
  <1>2. \A x \in t : (\A y \in t : x >= y) => x = n + 1
    OBVIOUS
  <1> QED  BY <1>1, <1>2, Zenon DEF Max

\* The equation has a solution, so the recursive function is what it says.
LEMMA SummedExists ==
    ASSUME NEW s, NEW n \in Nat
    PROVE  \E g : Summed(s, 1 .. n, g)
  <1> DEFINE S == {m \in Nat : \E g : Summed(s, 1 .. m, g)}
  <1>1. 0 \in S
    <2> DEFINE g == [t \in SUBSET (1 .. 0) |-> 0]
    <2>1. \A t \in SUBSET (1 .. 0) : t = {}
      OBVIOUS
    <2>2. Summed(s, 1 .. 0, g)
      BY <2>1, Zenon DEF Summed
    <2> QED  BY <2>2
  <1>2. ASSUME NEW m \in Nat, m \in S PROVE m + 1 \in S
    <2>1. PICK g : Summed(s, 1 .. m, g)
      BY <1>2
    <2> DEFINE h == [t \in SUBSET (1 .. m + 1) |->
                        IF t \in SUBSET (1 .. m) THEN g[t]
                        ELSE g[t \ {m + 1}] + s[m + 1]]
    <2>2. ASSUME NEW t \in SUBSET (1 .. m + 1)
          PROVE  h[t] = IF t = {} THEN 0 ELSE h[t \ {Max(t)}] + s[Max(t)]
      <3>1. CASE t \in SUBSET (1 .. m)
        <4>1. t \ {Max(t)} \in SUBSET (1 .. m)
              /\ t \ {Max(t)} \in SUBSET (1 .. m + 1)
          BY <3>1, Zenon
        <4>2. g[t] = IF t = {} THEN 0 ELSE g[t \ {Max(t)}] + s[Max(t)]
          BY <2>1, <3>1, Zenon DEF Summed
        <4>3. h[t] = g[t] /\ h[t \ {Max(t)}] = g[t \ {Max(t)}]
          BY <3>1, <4>1, Zenon
        <4> QED  BY <4>2, <4>3, Zenon
      <3>2. CASE t \notin SUBSET (1 .. m)
        <4>1. m + 1 \in t
          BY <3>2
        <4>2. Max(t) = m + 1
          BY <4>1, MaxIs
        <4>3. t \ {m + 1} \in SUBSET (1 .. m) /\ t \ {m + 1} \in SUBSET (1 .. m + 1)
          OBVIOUS
        <4>4. h[t] = g[t \ {m + 1}] + s[m + 1] /\ h[t \ {m + 1}] = g[t \ {m + 1}]
          BY <3>2, <4>3, Zenon
        <4>5. t # {}
          BY <4>1
        <4> QED  BY <4>2, <4>4, <4>5, Zenon
      <3> QED  BY <3>1, <3>2
    <2>3. Summed(s, 1 .. m + 1, h)
      <3>1. h = [t \in SUBSET (1 .. m + 1) |-> h[t]]
        BY Zenon
      <3> HIDE DEF h
      <3> QED  BY <2>2, <3>1 DEF Summed
    <2> QED  BY <2>3
  <1>3. Nat \subseteq S
    <2> HIDE DEF S
    <2> QED  BY <1>1, <1>2, NatBySet, Zenon
  <1> QED  BY <1>3

\* Total is the solution's value at all positions.
LEMMA TotalIs ==
    ASSUME NEW S, NEW s \in Seq(S)
    PROVE  \E g : Summed(s, 1 .. Len(s), g) /\ Total(s) = g[1 .. Len(s)]
  <1> DEFINE G == CHOOSE g : Summed(s, 1 .. Len(s), g)
  <1>1. Len(s) \in Nat /\ DOMAIN s = 1 .. Len(s)
    BY LenProperties
  <1>2. Summed(s, 1 .. Len(s), G)
    BY <1>1, SummedExists, Zenon
  <1>3. Total(s) = (CHOOSE g : g = [t \in SUBSET DOMAIN s |->
                       IF t = {} THEN 0 ELSE g[t \ {Max(t)}] + s[Max(t)]])[DOMAIN s]
    BY DEF Total, FoldLeft, MapThenFoldSet
  <1>4. Total(s) = G[1 .. Len(s)]
    BY <1>1, <1>3 DEF Summed
  <1> QED  BY <1>2, <1>4

\* What totals add up to: integers beyond r, n of them, come to more than r * n.
LEMMA TotalBounds ==
    ASSUME NEW s \in Seq(Int), NEW r \in Int
    PROVE  /\ Total(s) \in Int
           /\ Len(s) > 0 /\ (\A k \in DOMAIN s : s[k] > r) => Total(s) > r * Len(s)
           /\ Len(s) > 0 /\ (\A k \in DOMAIN s : s[k] < r) => Total(s) < r * Len(s)
  <1>1. Len(s) \in Nat /\ DOMAIN s = 1 .. Len(s)
        /\ \A k \in 1 .. Len(s) : s[k] \in Int
    BY LenProperties
  <1>2. PICK g : Summed(s, 1 .. Len(s), g) /\ Total(s) = g[1 .. Len(s)]
    BY TotalIs
  <1> DEFINE above == \A k \in DOMAIN s : s[k] > r
             below == \A k \in DOMAIN s : s[k] < r
             Bound(m) == /\ g[1 .. m] \in Int
                         /\ m > 0 /\ above => g[1 .. m] > r * m
                         /\ m > 0 /\ below => g[1 .. m] < r * m
             S == {m \in Nat : m <= Len(s) => Bound(m)}
  <1>3. g[{}] = 0
    BY <1>2, Zenon DEF Summed
  <1>4. ASSUME NEW m \in Nat, m + 1 <= Len(s)
        PROVE  g[1 .. m + 1] = g[1 .. m] + s[m + 1]
    <2>1. (1 .. m + 1) \in SUBSET (1 .. Len(s)) /\ (1 .. m + 1) # {}
          /\ (1 .. m + 1) \ {m + 1} = 1 .. m
      <3>1. m + 1 \in 1 .. m + 1
        OBVIOUS
      <3>2. (1 .. m + 1) \in SUBSET (1 .. Len(s))
        BY <1>1, <1>4
      <3>3. (1 .. m + 1) \ {m + 1} = 1 .. m
        OBVIOUS
      <3> QED  BY <3>1, <3>2, <3>3
    <2>2. Max(1 .. m + 1) = m + 1
      <3>1. (1 .. m + 1) \in SUBSET (1 .. m + 1) /\ m + 1 \in 1 .. m + 1
        OBVIOUS
      <3> QED  BY <3>1, MaxIs
    <2>3. g[1 .. m + 1] = g[(1 .. m + 1) \ {Max(1 .. m + 1)}] + s[Max(1 .. m + 1)]
      BY <1>2, <2>1, Zenon DEF Summed
    <2> QED  BY <2>1, <2>2, <2>3, Zenon
  <1>5. 0 \in S
    <2>1. 1 .. 0 = {}
      OBVIOUS
    <2> QED  BY <1>3, <2>1
  <1>6. ASSUME NEW m \in Nat, m \in S PROVE m + 1 \in S
    <2> SUFFICES ASSUME m + 1 <= Len(s) PROVE Bound(m + 1)
      BY <1>6
    <2>1. Bound(m)
      BY <1>1, <1>6
    <2>2. g[1 .. m + 1] = g[1 .. m] + s[m + 1] /\ s[m + 1] \in Int
          /\ m + 1 \in DOMAIN s
      BY <1>1, <1>4
    <2>3. r * (m + 1) = r * m + r /\ r * m \in Int
      OBVIOUS
    <2>4. m = 0 => g[1 .. m] = 0 /\ r * m = 0
      BY <1>3
    <2>5. above => s[m + 1] > r
      BY <2>2
    <2>6. below => s[m + 1] < r
      BY <2>2
    <2> DEFINE a == g[1 .. m]
               b == r * m
    <2>7. /\ a \in Int /\ b \in Int /\ (m = 0 => a = 0 /\ b = 0)
          /\ m > 0 /\ above => a > b
          /\ m > 0 /\ below => a < b
      BY <2>1, <2>3, <2>4
    <2>8. g[1 .. m + 1] = a + s[m + 1] /\ r * (m + 1) = b + r
      BY <2>2, <2>3
    <2> HIDE DEF a, b, above, below
    <2>9. a + s[m + 1] \in Int
      BY <2>2, <2>7
    <2>10. above => a + s[m + 1] > b + r
      BY <2>2, <2>5, <2>7
    <2>11. below => a + s[m + 1] < b + r
      BY <2>2, <2>6, <2>7
    <2> QED  BY <2>8, <2>9, <2>10, <2>11
  <1>7. Nat \subseteq S
    <2> HIDE DEF S
    <2> QED  BY <1>5, <1>6, NatBySet, Zenon
  <1>8. Bound(Len(s))
    BY <1>1, <1>7
  <1> QED  BY <1>2, <1>8

\* With peaks above the reference and troughs below it the amplitude is positive.
LEMMA AmplitudeIsPositive ==
    ASSUME EngineTypeOK, PeaksBeyondRef, pv_ref \in Int,
           Len(high_peaks) > 0, Len(low_troughs) > 0
    PROVE  AmplitudePositive(high_peaks, low_troughs)
  <1>1. high_peaks \in Seq(Int) /\ low_troughs \in Seq(Int)
    <2>1. \A s \in Seq(PVs) : Len(s) \in Nat /\ s \in [1 .. Len(s) -> PVs]
      BY LenProperties
    <2>2. \A n \in Nat : \A s \in [1 .. n -> Int] : s \in Seq(Int)
      OBVIOUS
    <2>3. \A n : [1 .. n -> PVs] \subseteq [1 .. n -> Int]
      BY RelayAssumption
    <2> QED  BY <2>1, <2>2, <2>3 DEF EngineTypeOK
  <1> DEFINE p == Len(high_peaks)
             t == Len(low_troughs)
             P == Total(high_peaks)
             T == Total(low_troughs)
  <1>2. p \in Nat /\ t \in Nat /\ p > 0 /\ t > 0
    BY <1>1, LenProperties
  <1>3. P \in Int /\ P > pv_ref * p
    BY <1>1, TotalBounds DEF PeaksBeyondRef
  <1>4. T \in Int /\ T < pv_ref * t
    BY <1>1, TotalBounds DEF PeaksBeyondRef
  <1>5. P * t > T * p
    <2> HIDE DEF p, t, P, T
    <2>1. P * t > (pv_ref * p) * t
      BY <1>2, <1>3
    <2>2. (pv_ref * t) * p > T * p
      BY <1>2, <1>4
    <2>3. (pv_ref * p) * t = (pv_ref * t) * p
      BY <1>2
    <2>4. P * t \in Int /\ T * p \in Int /\ (pv_ref * t) * p \in Int
      BY <1>2, <1>3, <1>4
    <2> QED  BY <2>1, <2>2, <2>3, <2>4
  <1> QED  BY <1>5 DEF AmplitudePositive

\* A test that settled goes to its result and has one; the exit code says
\* whether there was one.
ResultTells ==
    /\ settled => /\ pc \in {"result", "done"}
                  /\ SettlementCheck(high_peaks, low_troughs, half_periods)
    /\ At("done") /\ last_pv # None => (code = 2 <=> ~Known)
    /\ last_pv # None => pv_ref # None

\* The relay's tick settles the test only by a check that held.
LEMMA EngineSettles ==
    ASSUME ~settled, settled \in BOOLEAN, NEW pv, NEW d, EngineTick(pv, d), settled'
    PROVE  SettlementCheck(high_peaks', low_troughs', half_periods')
  BY DEF EngineTick, CompleteHigh, CompleteLow, PhaseGoesOn

\* Each step keeps what is said of the result.
LEMMA ResultTellsStep == AutotuneInv /\ ResultTells /\ [Next]_vars => ResultTells'
  <1> SUFFICES ASSUME AutotuneInv, ResultTells, [Next]_vars PROVE ResultTells'
    OBVIOUS
  <1> USE DEF At, Goto
  <1>1. /\ BeforeTest /\ RefSet /\ settled \in BOOLEAN /\ warmup_pv \in Int
        /\ None \notin Int
    BY RelayAssumption DEF AutotuneInv, AutotuneTypeOK, EngineTypeOK
  <1>2. ASSUME UNCHANGED engineVars
        PROVE  /\ settled' = settled /\ pv_ref' = pv_ref
               /\ (SettlementCheck(high_peaks, low_troughs, half_periods))'
                    = SettlementCheck(high_peaks, low_troughs, half_periods)
               /\ Known' = Known
    BY <1>2 DEF engineVars, Known
  <1>3. CASE WarmupInterrupted
    BY <1>1, <1>2, <1>3 DEF WarmupInterrupted, history, BeforeTest, ResultTells
  <1>4. ASSUME NEW pv, WarmupTick(pv) PROVE ResultTells'
    BY <1>1, <1>2, <1>4 DEF WarmupTick, ResultTells
  <1>5. CASE TestStarts
    <2>1. ~settled
      BY <1>5 DEF TestStarts, ResultTells
    <2> QED  BY <1>1, <1>5, <2>1 DEF TestStarts, SetPvRef, history, ResultTells
  <1>6. CASE Top \/ TestOver \/ TickStarts
    BY <1>1, <1>2, <1>6
       DEF Top, TestOver, TickStarts, history, ResultTells
  <1>7. CASE ReadFails
    BY <1>1, <1>2, <1>7 DEF ReadFails, ResultTells
  <1>8. ASSUME NEW pv \in PVs, RelayTick(pv) PROVE ResultTells'
    <2>1. ~settled /\ pc' \in {"result", "top"} /\ (settled' => pc' = "result")
      BY <1>8 DEF RelayTick, ResultTells
    <2>2. pv_ref' # None
      BY <1>1, <1>8 DEF RelayTick, RefSet, EngineTick, Ref
    <2>3. settled' => SettlementCheck(high_peaks', low_troughs', half_periods')
      BY <1>1, <1>8, <2>1, EngineSettles DEF RelayTick
    <2> QED  BY <2>1, <2>2, <2>3 DEF ResultTells
  <1>9. CASE NoResult
    BY <1>1, <1>2, <1>9 DEF NoResult, history, ResultTells
  <1>10. ASSUME NEW ok \in BOOLEAN, Result(ok) PROVE ResultTells'
    BY <1>1, <1>2, <1>10 DEF Result, history, ResultTells
  <1>11. CASE Signal
    BY <1>1, <1>2, <1>11 DEF Signal, command, history, ResultTells
  <1>12. CASE Pass
    BY <1>1, <1>2, <1>12 DEF Pass, command, history, ResultTells
  <1>13. CASE UNCHANGED vars
    BY <1>1, <1>2, <1>13 DEF vars, command, history, ResultTells
  <1> QED  BY <1>3, <1>4, <1>5, <1>6, <1>7, <1>8, <1>9, <1>10, <1>11, <1>12, <1>13
           DEF Next, Step

\* A result needs two cycles if settling needs as many, and with two it is there.
LEMMA KnownIsTwoCycles ==
    ASSUME AutotuneInv, pv_ref # None, MinCycles >= 2
    PROVE  Known <=> Cycles(high_peaks, low_troughs) >= 2
  <1>1. /\ EngineTypeOK /\ PeaksBeyondRef /\ pv_ref \in Int
        /\ Len(high_peaks) \in Nat /\ Len(low_troughs) \in Nat
        /\ MinCycles \in Nat
    BY RelayAssumption, LenProperties DEF AutotuneInv, AutotuneTypeOK, EngineTypeOK
  <1>2. Cycles(high_peaks, low_troughs) \in Nat
    BY <1>1 DEF Cycles
  <1>3. Known => Cycles(high_peaks, low_troughs) >= 2
    BY <1>1, <1>2 DEF Known, HasEstimates, SettlementCheck
  <1>4. ASSUME Cycles(high_peaks, low_troughs) >= 2 PROVE Known
    <2>1. Len(high_peaks) > 0 /\ Len(low_troughs) > 0
      BY <1>1, <1>4 DEF Cycles
    <2> QED  BY <1>1, <1>4, <2>1, AmplitudeIsPositive DEF Known, HasEstimates
  <1> QED  BY <1>3, <1>4

\* No result (exit code 2) means fewer than two complete cycles and a test that
\* did not settle; a result, saved or not, means two or more: for all PVs, with
\* the code's MIN_CYCLES (3) or any that is at least 2.
THEOREM ExitCodeCorrect ==
    ASSUME MinCycles >= 2
    PROVE  Spec => []ExitCodeTells
  <1>1. Init => ResultTells
    BY DEF Init, EngineInit, ResultTells, At
  <1>2. AutotuneInv /\ ResultTells => ExitCodeTells
    <2> SUFFICES ASSUME AutotuneInv, ResultTells, At("done"), last_pv # None
                 PROVE  IF code = 2
                        THEN Cycles(high_peaks, low_troughs) < 2 /\ ~settled
                        ELSE Cycles(high_peaks, low_troughs) >= 2
      BY DEF ExitCodeTells
    <2>1. (code = 2 <=> ~Known) /\ pv_ref # None
      BY DEF ResultTells
    <2>2. Known <=> Cycles(high_peaks, low_troughs) >= 2
      BY <2>1, KnownIsTwoCycles
    <2>3. Cycles(high_peaks, low_troughs) \in Nat
      BY LenProperties DEF AutotuneInv, AutotuneTypeOK, EngineTypeOK, Cycles
    <2>4. settled => Known
      BY DEF ResultTells, Known, HasEstimates
    <2> QED  BY <2>1, <2>2, <2>3, <2>4
  <1> QED  BY <1>1, <1>2, AutotuneInvHolds, ResultTellsStep, PTL DEF Spec
=============================================================================
