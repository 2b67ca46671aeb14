------------------------------- MODULE Relay -------------------------------
(***************************************************************************)
(* AutotuneEngine (autotune.rs): a relay that drives the process into a    *)
(* limit cycle and measures it.  PVs and times are integers here; Ku, Tu   *)
(* and the gains are functions of the three histories kept below, and only *)
(* whether they are known matters to the caller.                           *)
(***************************************************************************)
EXTENDS Integers, Sequences, SequencesExt

CONSTANTS
    None,
    PVs,          \* PV readings
    Bias, Amp,    \* the relay output is Bias + Amp or Bias - Amp
    OutMin, OutMax,
    MinCycles     \* MIN_CYCLES (3)

\* AutotuneConfig::validate.
ASSUME RelayAssumption ==
    /\ PVs \subseteq Int /\ None \notin Int
    /\ Bias \in Int /\ Amp \in Nat \ {0} /\ OutMin \in Int /\ OutMax \in Int
    /\ OutMin <= Bias - Amp /\ Bias + Amp <= OutMax
    /\ MinCycles \in Nat \ {0}

VARIABLES
    relay,            \* "high" or "low"
    pv_ref,           \* the reference, or None
    phase_elapsed,    \* time in this phase
    phase_extremum,   \* None for the infinity that a phase begins with
    high_peaks, low_troughs, half_periods,   \* of the completed phases
    settled

engineVars == <<relay, pv_ref, phase_elapsed, phase_extremum, high_peaks,
                low_troughs, half_periods, settled>>

----------------------------------------------------------------------------

CurrentCv(pos) == IF pos = "high" THEN Bias + Amp ELSE Bias - Amp

Total(s) == FoldLeft(LAMBDA x, y : x + y, 0, s)
Squares(s) == FoldLeft(LAMBDA x, y : x + y * y, 0, s)

\* Complete cycles: a peak and a trough each.
Cycles(peaks, troughs) ==
    IF Len(peaks) < Len(troughs) THEN Len(peaks) ELSE Len(troughs)

\* mean(peaks) > mean(troughs).
AmplitudePositive(peaks, troughs) ==
    Total(peaks) * Len(troughs) > Total(troughs) * Len(peaks)

\* The half-periods that settlement looks at: two per cycle.
Window(halves) ==
    SubSeq(halves, IF Len(halves) > 2 * MinCycles
                   THEN Len(halves) - 2 * MinCycles + 1 ELSE 1, Len(halves))

\* Their mean is positive and std / mean is below SETTLED_PERIOD_CV = 1/5: with
\* n * mean = Sum and n^2 * std^2 = n * Squares - Sum^2.
Steady(w) ==
    /\ Total(w) > 0
    /\ 25 * (Len(w) * Squares(w) - Total(w) * Total(w)) < Total(w) * Total(w)

\* settlement_check and best_estimates: is there a result?
SettlementCheck(peaks, troughs, halves) ==
    /\ Cycles(peaks, troughs) >= MinCycles
    /\ Steady(Window(halves))
    /\ AmplitudePositive(peaks, troughs)

\* Mutant: a result needs all the cycles that settlement does.
EstimatesWhenSettledOnly(peaks, troughs, halves) ==
    SettlementCheck(peaks, troughs, halves)

HasEstimates(peaks, troughs, halves) ==
    \/ SettlementCheck(peaks, troughs, halves)
    \/ Cycles(peaks, troughs) >= 2 /\ AmplitudePositive(peaks, troughs)

----------------------------------------------------------------------------

SetPvRef(pv) ==
    /\ pv_ref' = pv
    /\ UNCHANGED <<relay, phase_elapsed, phase_extremum, high_peaks,
                   low_troughs, half_periods, settled>>

\* pv_ref.get_or_insert(pv).
Ref(pv) == IF pv_ref = None THEN pv ELSE pv_ref

Raised(pv) ==
    IF phase_extremum = None \/ pv > phase_extremum THEN pv ELSE phase_extremum

Lowered(pv) ==
    IF phase_extremum = None \/ pv < phase_extremum THEN pv ELSE phase_extremum

\* Mutant: the time of a phase runs on into the next one.
FlipRunsOn(to, elapsed) ==
    /\ relay' = to
    /\ half_periods' = Append(half_periods, elapsed)
    /\ phase_elapsed' = elapsed /\ phase_extremum' = None

Flip(to, elapsed) ==
    /\ relay' = to
    /\ half_periods' = Append(half_periods, elapsed)
    /\ phase_elapsed' = 0 /\ phase_extremum' = None

CompleteHigh(pv, elapsed) ==
    /\ relay = "high" /\ pv > Ref(pv)
    /\ high_peaks' = Append(high_peaks, Raised(pv))
    /\ Flip("low", elapsed)
    /\ UNCHANGED <<low_troughs, settled>>

CompleteLow(pv, elapsed) ==
    /\ relay = "low" /\ pv < Ref(pv)
    /\ low_troughs' = Append(low_troughs, Lowered(pv))
    /\ Flip("high", elapsed)
    /\ settled' = (settled \/ SettlementCheck(high_peaks, low_troughs',
                                              half_periods'))
    /\ UNCHANGED high_peaks

PhaseGoesOn(pv, elapsed) ==
    /\ IF relay = "high" THEN pv <= Ref(pv) ELSE pv >= Ref(pv)
    /\ phase_elapsed' = elapsed
    /\ phase_extremum' = IF relay = "high" THEN Raised(pv) ELSE Lowered(pv)
    /\ UNCHANGED <<relay, high_peaks, low_troughs, half_periods, settled>>

\* AutotuneEngine::tick.  The CV it returns is CurrentCv(relay').
EngineTick(pv, dt) ==
    /\ pv_ref' = Ref(pv)
    /\ \/ CompleteHigh(pv, phase_elapsed + dt)
       \/ CompleteLow(pv, phase_elapsed + dt)
       \/ PhaseGoesOn(pv, phase_elapsed + dt)

EngineInit ==
    /\ relay = "high" /\ pv_ref = None
    /\ phase_elapsed = 0 /\ phase_extremum = None
    /\ high_peaks = <<>> /\ low_troughs = <<>> /\ half_periods = <<>>
    /\ settled = FALSE

----------------------------------------------------------------------------

\* Types, and the strict alternation of peaks and troughs.
EngineTypeOK ==
    /\ relay \in {"high", "low"}
    /\ pv_ref \in Int \cup {None}
    /\ phase_elapsed \in Nat
    /\ phase_extremum \in PVs \cup {None}
    /\ high_peaks \in Seq(PVs) /\ low_troughs \in Seq(PVs)
    /\ half_periods \in Seq(Nat)
    /\ settled \in BOOLEAN
    /\ Len(high_peaks) = Len(low_troughs) + (IF relay = "low" THEN 1 ELSE 0)
    /\ Len(half_periods) = Len(high_peaks) + Len(low_troughs)
=============================================================================
