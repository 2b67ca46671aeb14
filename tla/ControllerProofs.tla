-------------------------- MODULE ControllerProofs --------------------------
(***************************************************************************)
(* What PidController.tla says of every configuration, not only of the one *)
(* TLC checks: the shape of the state, and that no step breaks the output  *)
(* limits, the slew limit or the ramp, or winds the integral up.           *)
(***************************************************************************)
EXTENDS Replay, FiniteSetTheorems, TLAPS

\* A value clamped to an interval is in it.
LEMMA ClampBetween ==
    ASSUME NEW x \in Int, NEW lo \in Int, NEW hi \in Int, lo <= hi
    PROVE  Clamp(x, lo, hi) \in lo .. hi
BY DEF Clamp

\* The integer square root is a natural number.
LEMMA SqrtNat ==
    ASSUME NEW n \in Int
    PROVE  Sqrt(n) \in Nat
<1> DEFINE S == {r \in 1 .. n : r * r <= n}
<1>1. IsFiniteSet(1 .. n)
    BY FS_Interval
<1>2. IsFiniteSet(S)
    <2>1. S \subseteq 1 .. n
        OBVIOUS
    <2> QED  BY <1>1, <2>1, FS_Subset
<1> QED
    BY <1>2, FS_CardinalityType DEF Sqrt

\* The tracking time is an integer, and positive whatever the gains are.
LEMMA TtPositive ==
    ASSUME ControllerTypeOK, gains.ki # 0, NEW dt \in Dts
    PROVE  AntiWindupTt(dt) \in Nat \ {0}
<1>1. dt \in Nat \ {0} /\ TtUpperBound \in Nat \ {0} /\ dt <= TtUpperBound
    BY TimeAssumption
<1>2. gains.ki \in Nat \ {0} /\ gains.kd \in Nat /\ gains.kp \in Nat
    BY ConfigAssumption DEF ControllerTypeOK
<1> DEFINE auto == IF gains.kd > 0 THEN Sqrt(gains.kd \div gains.ki)
                                   ELSE gains.kp \div gains.ki
<1>3. auto \in Int
    <2>1. gains.kd \div gains.ki \in Int /\ gains.kp \div gains.ki \in Int
        BY <1>2
    <2>2. Sqrt(gains.kd \div gains.ki) \in Nat
        BY <2>1, SqrtNat
    <2> QED  BY <2>1, <2>2
<1>4. Clamp(auto, dt, TtUpperBound) \in dt .. TtUpperBound
    <2>1. dt \in Int /\ TtUpperBound \in Int /\ dt <= TtUpperBound
        BY <1>1
    <2> HIDE DEF auto
    <2> QED  BY <1>3, <2>1, ClampBetween, Zenon
<1>5. CASE ExplicitTt # None
    BY <1>5, TimeAssumption DEF AntiWindupTt
<1>6. CASE ExplicitTt = None
    <2>1. AntiWindupTt(dt) = Clamp(auto, dt, TtUpperBound)
        BY <1>6 DEF AntiWindupTt
    <2> QED  BY <2>1, <1>4, <1>1
<1> QED  BY <1>5, <1>6

\* The filtered process value, and what the step derives from it, are integers.
LEMMA FilteredInt ==
    ASSUME ControllerTypeOK, NEW raw \in RawPvs
    PROVE  FilteredPv(raw) \in Int
<1>1. raw \in Int /\ AlphaDen \in Nat \ {0} /\ settings.pv_filter \in Nat
    BY ConfigAssumption DEF ControllerTypeOK
<1>2. last_pv \in Int \cup {None}
    BY DEF ControllerTypeOK
<1>3. CASE settings.pv_filter = 0 \/ last_pv = None
    BY <1>1, <1>3 DEF FilteredPv
<1>4. CASE ~(settings.pv_filter = 0 \/ last_pv = None)
    <2>1. last_pv \in Int
        BY <1>2, <1>4
    <2>2. (AlphaDen - settings.pv_filter) * raw + settings.pv_filter * last_pv \in Int
        BY <1>1, <2>1
    <2> QED  BY <1>1, <1>4, <2>2 DEF FilteredPv
<1> QED  BY <1>3, <1>4

\* A ramp reaches the target or moves towards it by max_delta exactly.
LEMMA RampTowardNearer ==
    ASSUME NEW current \in Int, NEW target \in Int, NEW max_delta \in Nat
    PROVE  LET new == RampToward(current, target, max_delta)
           IN  /\ new \in Int
               /\ Abs(new - current) <= max_delta
               /\ Abs(new - current) + Abs(target - new) = Abs(target - current)
  BY DEF RampToward, Abs

\* The correction of back-calculation takes a part of the difference at most.
LEMMA PartOf ==
    ASSUME NEW x \in Int, NEW dt \in Nat \ {0}, NEW tt \in Nat \ {0}, dt <= tt
    PROVE  /\ (x * dt) \div tt \in Int
           /\ x >= 0 => 0 <= (x * dt) \div tt /\ (x * dt) \div tt <= x
           /\ x < 0 => x <= (x * dt) \div tt /\ (x * dt) \div tt <= 0
<1> DEFINE q == (x * dt) \div tt
<1>1. q \in Int /\ x * dt \in Int
    OBVIOUS
<1>2. q * tt <= x * dt /\ x * dt < (q + 1) * tt
    OBVIOUS
<1>3. CASE x >= 0
    <2>1. 0 <= x * dt /\ x * dt <= x * tt
        BY <1>3
    <2>2. q * tt <= x * tt /\ 0 < (q + 1) * tt
        BY <1>1, <1>2, <2>1
    <2>3. q <= x /\ 0 < q + 1
        <3> HIDE DEF q
        <3> QED  BY <1>1, <2>2
    <2> QED  BY <1>1, <1>3, <2>3
<1>4. CASE x < 0
    <2>1. x * tt <= x * dt /\ x * dt < tt
        BY <1>4
    <2>2. x * tt < (q + 1) * tt /\ q * tt < tt
        BY <1>1, <1>2, <2>1
    <2>3. x < q + 1 /\ q < 1
        <3> HIDE DEF q
        <3> QED  BY <1>1, <2>2
    <2> QED  BY <1>1, <1>4, <2>3
<1> QED  BY <1>1, <1>3, <1>4

\* Limiting the output and then its change leaves the new CV within the slew
\* limit, and no further outside the output limits than the CV before it.
LEMMA RealizedWithin ==
    ASSUME ControllerTypeOK, NEW u \in Int, NEW prev \in Int, NEW dt \in Nat
    PROVE  /\ Realized(u, prev, dt) \in Int
           /\ Excess(Realized(u, prev, dt)) <= Excess(prev)
           /\ settings.slew_rate # None =>
                  Abs(Realized(u, prev, dt) - prev) <= settings.slew_rate * dt
<1>1. OutMin \in Int /\ OutMax \in Int /\ OutMin <= OutMax
    BY ConfigAssumption
<1>2. settings.slew_rate \in Nat \cup {None}
    BY ConfigAssumption DEF ControllerTypeOK
<1> DEFINE limited == Clamp(u, OutMin, OutMax)
<1>3. limited \in OutMin .. OutMax
    BY <1>1, ClampBetween
<1>4. CASE settings.slew_rate = None
    BY <1>1, <1>3, <1>4 DEF Realized, Excess, Clamp, Abs
<1>5. CASE settings.slew_rate # None
    <2> DEFINE d == settings.slew_rate * dt
    <2>1. d \in Nat
        BY <1>2, <1>5
    <2>2. Realized(u, prev, dt) = Clamp(limited, prev - d, prev + d)
        BY <1>5 DEF Realized
    <2>3. /\ Clamp(limited, prev - d, prev + d) \in Int
          /\ Abs(Clamp(limited, prev - d, prev + d) - prev) <= d
          /\ Excess(Clamp(limited, prev - d, prev + d)) <= Excess(prev)
        <3> HIDE DEF limited, d
        <3> QED  BY <1>1, <1>3, <2>1 DEF Excess, Clamp, Abs
    <2> QED  BY <1>5, <2>2, <2>3
<1> QED  BY <1>4, <1>5

\* Anti-windup gives an integral term with which the output is within the
\* limits (clamping), or no further from the applied CV (back-calculation).
LEMMA AntiWindupWithin ==
    ASSUME ControllerTypeOK, gains.ki # 0, NEW cand \in Int, NEW rest \in Int,
           NEW prev \in Int, NEW dt \in Dts
    PROVE  LET i == AntiWindup(cand, rest, prev, dt)
           IN  /\ i \in Int
               /\ settings.anti_windup = "clamp" => Excess(rest + i) = 0
               /\ (settings.anti_windup = "back_calc" /\ dt <= AntiWindupTt(dt))
                      => Abs(rest + i - prev) <= Abs(rest + cand - prev)
<1>1. OutMin \in Int /\ OutMax \in Int /\ OutMin <= OutMax
    BY ConfigAssumption
<1>2. settings.anti_windup \in {"back_calc", "clamp", "none"}
    BY ConfigAssumption DEF ControllerTypeOK
<1>3. CASE settings.anti_windup = "none"
    BY <1>3 DEF AntiWindup
<1>4. CASE settings.anti_windup = "clamp"
    <2> DEFINE i == Clamp(cand, OutMin - rest, OutMax - rest)
    <2>1. i \in (OutMin - rest) .. (OutMax - rest)
        BY <1>1, ClampBetween
    <2>2. AntiWindup(cand, rest, prev, dt) = i
        BY <1>4 DEF AntiWindup
    <2>3. i \in Int /\ Excess(rest + i) = 0
        <3> HIDE DEF i
        <3> QED  BY <1>1, <2>1 DEF Excess, Clamp, Abs
    <2> QED  BY <1>4, <2>2, <2>3
<1>5. CASE settings.anti_windup = "back_calc"
    <2> DEFINE tt == AntiWindupTt(dt)
               x == prev - (cand + rest)
               q == (x * dt) \div tt
    <2>1. tt \in Nat \ {0} /\ dt \in Nat \ {0} /\ x \in Int
        BY TtPositive, TimeAssumption
    <2>2. AntiWindup(cand, rest, prev, dt) \in {cand, cand + q}
        BY <1>5 DEF AntiWindup, BackCalculated
    <2>3. q \in Int
        <3> HIDE DEF tt, x
        <3> QED  BY <2>1
    <2>4. dt <= tt => /\ x >= 0 => 0 <= q /\ q <= x
                      /\ x < 0 => x <= q /\ q <= 0
        <3> HIDE DEF tt, x
        <3> QED  BY <2>1, PartOf
    <2>5. dt <= tt => Abs(rest + (cand + q) - prev) <= Abs(rest + cand - prev)
        <3> HIDE DEF tt, q
        <3> QED  BY <2>3, <2>4 DEF Abs
    <2>6. Abs(rest + cand - prev) \in Nat
        BY DEF Abs
    <2>7. AntiWindup(cand, rest, prev, dt) \in Int
        BY <2>2, <2>3
    <2>8. dt <= tt => Abs(rest + AntiWindup(cand, rest, prev, dt) - prev)
                          <= Abs(rest + cand - prev)
        <3> HIDE DEF tt, q
        <3> QED  BY <2>2, <2>5, <2>6
    <2> QED  BY <1>5, <2>7, <2>8
<1> QED  BY <1>2, <1>3, <1>4, <1>5

\* A step keeps the shape of the state, the output limits, the slew limit and
\* the ramp, and its anti-windup helps: all that the theorems below need.
LEMMA StepKeeps ==
    ASSUME ControllerTypeOK, NEW raw \in RawPvs, NEW dt \in Dts, NEW ff \in Ffs,
           NEW ok \in BOOLEAN, Step(raw, dt, ff, ok)
    PROVE  /\ ControllerTypeOK'
           /\ result'.dt = dt
           /\ Excess(applied') <= Excess(applied)
           /\ settings.slew_rate # None =>
                  Abs(applied' - applied) <= settings.slew_rate * dt
           /\ (settings.setpoint_ramp # None /\ effective_sp # None) =>
                  /\ Abs(effective_sp' - effective_sp)
                         <= settings.setpoint_ramp * dt
                  /\ Abs(effective_sp' - effective_sp)
                         + Abs(setpoint - effective_sp')
                         = Abs(setpoint - effective_sp)
           /\ (gains.ki # 0 /\ settings.anti_windup = "clamp") =>
                  Excess(result'.u_unclamped) = 0
           /\ (gains.ki # 0 /\ settings.anti_windup = "back_calc"
                   /\ dt <= AntiWindupTt(dt)) =>
                  Abs(result'.u_unclamped - applied)
                      <= Abs(result'.candidate - applied)
<1> DEFINE pv     == FilteredPv(raw)
           sp     == NextEffectiveSp(dt)
           err    == EffectiveError(sp - pv)
           rest   == gains.kp * err + DTerm(pv, dt) + FfGain * ff
           cand   == IF gains.ki = 0 THEN 0 ELSE gains.ki * (i_acc + err * dt)
           i_term == IF gains.ki = 0 THEN 0
                                     ELSE AntiWindup(cand, rest, applied, dt)
           cv     == Realized(rest + i_term, applied, dt)
<1>1. /\ i_acc' = IF gains.ki = 0 THEN i_acc ELSE i_term \div gains.ki
      /\ last_pv' = pv /\ effective_sp' = sp /\ skip' = "none"
      /\ result' = [cv |-> cv, u_unclamped |-> rest + i_term, dt |-> dt,
                    candidate |-> rest + cand]
      /\ applied' = IF ok THEN cv ELSE applied
      /\ settings' = settings /\ gains' = gains /\ setpoint' = setpoint
    BY DEF Step
<1>2. /\ dt \in Nat \ {0} /\ gains.kp \in Nat /\ gains.ki \in Nat
      /\ gains.kd \in Nat /\ FfGain \in Int /\ ff \in Int /\ i_acc \in Int
      /\ applied \in Int /\ setpoint \in Int
      /\ last_pv \in Int \cup {None} /\ effective_sp \in Int \cup {None}
      /\ settings.deadband \in Nat /\ settings.setpoint_ramp \in Nat \cup {None}
    BY ConfigAssumption, TimeAssumption DEF ControllerTypeOK
<1>3. pv \in Int
    BY FilteredInt
<1>4. /\ sp \in Int
      /\ (settings.setpoint_ramp # None /\ effective_sp # None) =>
             /\ Abs(sp - effective_sp) <= settings.setpoint_ramp * dt
             /\ Abs(sp - effective_sp) + Abs(setpoint - sp)
                    = Abs(setpoint - effective_sp)
    <2>1. CASE settings.setpoint_ramp = None \/ effective_sp = None
        BY <1>2, <2>1 DEF NextEffectiveSp
    <2>2. CASE settings.setpoint_ramp # None /\ effective_sp # None
        <3>1. effective_sp \in Int /\ settings.setpoint_ramp * dt \in Nat
            BY <1>2, <2>2
        <3>2. sp = RampToward(effective_sp, setpoint,
                              settings.setpoint_ramp * dt)
            BY <2>2 DEF NextEffectiveSp
        <3> DEFINE d == settings.setpoint_ramp * dt
        <3>3. LET new == RampToward(effective_sp, setpoint, d)
              IN  /\ new \in Int
                  /\ Abs(new - effective_sp) <= d
                  /\ Abs(new - effective_sp) + Abs(setpoint - new)
                         = Abs(setpoint - effective_sp)
            <4>1. effective_sp \in Int /\ setpoint \in Int /\ d \in Nat
                BY <1>2, <3>1
            <4> HIDE DEF d
            <4> QED  BY <4>1, RampTowardNearer, Zenon
        <3> HIDE DEF sp
        <3> QED  BY <3>2, <3>3
    <2> QED  BY <2>1, <2>2
<1>5. err \in Int
    BY <1>2, <1>3, <1>4 DEF EffectiveError
<1>6. DTerm(pv, dt) \in Int
    <2>1. CASE gains.kd = 0 \/ skip # "none" \/ last_pv = None
        BY <2>1 DEF DTerm
    <2>2. CASE ~(gains.kd = 0 \/ skip # "none" \/ last_pv = None)
        <3>1. last_pv \in Int
            BY <1>2, <2>2
        <3>2. (pv - last_pv) \div dt \in Int
            BY <1>2, <1>3, <3>1
        <3>3. -gains.kd * ((pv - last_pv) \div dt) \in Int
            BY <1>2, <3>2
        <3>4. DTerm(pv, dt) = -gains.kd * ((pv - last_pv) \div dt)
            BY <2>2, Zenon DEF DTerm
        <3> QED  BY <3>3, <3>4
    <2> QED  BY <2>1, <2>2
<1>7. rest \in Int /\ cand \in Int
    <2> HIDE DEF err, pv
    <2> QED  BY <1>2, <1>5, <1>6
<1>8. /\ i_term \in Int
      /\ (gains.ki # 0 /\ settings.anti_windup = "clamp") =>
             Excess(rest + i_term) = 0
      /\ (gains.ki # 0 /\ settings.anti_windup = "back_calc"
              /\ dt <= AntiWindupTt(dt)) =>
             Abs(rest + i_term - applied) <= Abs(rest + cand - applied)
    <2> HIDE DEF rest, cand
    <2>1. CASE gains.ki = 0
        BY <2>1
    <2>2. CASE gains.ki # 0
        <3>1. i_term = AntiWindup(cand, rest, applied, dt) /\ applied \in Int
            BY <1>2, <2>2
        <3> HIDE DEF i_term
        <3> QED  BY <1>7, <2>2, <3>1, AntiWindupWithin, Zenon
    <2> QED  BY <2>1, <2>2
<1>9. /\ cv \in Int /\ Excess(cv) <= Excess(applied)
      /\ settings.slew_rate # None =>
             Abs(cv - applied) <= settings.slew_rate * dt
    <2> HIDE DEF rest, i_term
    <2>1. rest + i_term \in Int /\ dt \in Nat
        BY <1>2, <1>7, <1>8
    <2> QED  BY <1>2, <2>1, RealizedWithin
<1> HIDE DEF pv, sp, err, rest, cand, i_term, cv
<1>10. i_acc' \in Int
    BY <1>1, <1>2, <1>8
<1>11. applied' \in Int
    BY <1>1, <1>2, <1>9
<1>12. /\ result' \in [cv : Int, u_unclamped : Int, dt : Nat, candidate : Int]
       /\ result'.dt = dt /\ result'.u_unclamped = rest + i_term
       /\ result'.candidate = rest + cand
    BY <1>1, <1>2, <1>7, <1>8, <1>9
<1>13. ControllerTypeOK'
    <2>1. last_pv' \in Int /\ effective_sp' \in Int /\ None \notin Int
        BY <1>1, <1>3, <1>4, ConfigAssumption
    <2> QED  BY <1>1, <1>10, <1>11, <1>12, <2>1, Zenon DEF ControllerTypeOK
<1>14. Excess(applied') <= Excess(applied)
    <2>1. Excess(applied) <= Excess(applied)
        BY <1>2, ConfigAssumption DEF Excess, Clamp, Abs
    <2> QED  BY <1>1, <1>9, <2>1
<1>15. settings.slew_rate # None =>
           Abs(applied' - applied) <= settings.slew_rate * dt
    <2>1. settings.slew_rate \in Nat \cup {None}
        BY ConfigAssumption DEF ControllerTypeOK
    <2>2. settings.slew_rate # None =>
              Abs(applied - applied) <= settings.slew_rate * dt
        BY <1>2, <2>1 DEF Abs
    <2> QED  BY <1>1, <1>9, <2>2
<1>16. (settings.setpoint_ramp # None /\ effective_sp # None) =>
           /\ Abs(effective_sp' - effective_sp) <= settings.setpoint_ramp * dt
           /\ Abs(effective_sp' - effective_sp) + Abs(setpoint - effective_sp')
                  = Abs(setpoint - effective_sp)
    BY <1>1, <1>4
<1>17. /\ (gains.ki # 0 /\ settings.anti_windup = "clamp") =>
              Excess(result'.u_unclamped) = 0
       /\ (gains.ki # 0 /\ settings.anti_windup = "back_calc"
               /\ dt <= AntiWindupTt(dt)) =>
              Abs(result'.u_unclamped - applied)
                  <= Abs(result'.candidate - applied)
    <2>1. /\ result'.u_unclamped = rest + i_term
          /\ result'.candidate = rest + cand
        BY <1>12
    <2>2. (gains.ki # 0 /\ settings.anti_windup = "clamp") =>
              Excess(result'.u_unclamped) = 0
        BY ONLY <1>8, <2>1
    <2>3. (gains.ki # 0 /\ settings.anti_windup = "back_calc"
              /\ dt <= AntiWindupTt(dt)) =>
              Abs(result'.u_unclamped - applied)
                  <= Abs(result'.candidate - applied)
        <3>1. /\ Abs(result'.u_unclamped - applied) = Abs(rest + i_term - applied)
              /\ Abs(result'.candidate - applied) = Abs(rest + cand - applied)
            BY <1>2, <1>7, <1>8, <2>1 DEF Abs
        <3>2. ASSUME gains.ki # 0, settings.anti_windup = "back_calc",
                     dt <= AntiWindupTt(dt)
              PROVE  Abs(rest + i_term - applied) <= Abs(rest + cand - applied)
            BY <1>8, <3>2, Zenon
        <3> QED  BY <3>1, <3>2
    <2> QED  BY <2>2, <2>3, Zenon
<1> QED  BY <1>12, <1>13, <1>14, <1>15, <1>16, <1>17, Zenon

\* No call but a step leaves a result, and every call keeps the state's shape.
LEMMA OtherCallsKeep ==
    ASSUME ControllerTypeOK, Next, ~Steps
    PROVE  ControllerTypeOK' /\ ~Stepped
<1> USE DEF ControllerTypeOK, Stepped, NoResult
<1>0. NoResult \in [cv : Int, u_unclamped : Int, dt : Nat, candidate : Int]
    OBVIOUS
<1>1. ASSUME NEW g \in Gains, SetGains(g)
      PROVE  ControllerTypeOK' /\ ~Stepped
    BY <1>0, <1>1 DEF SetGains, memory
<1>2. ASSUME NEW sp \in Setpoints, SetSetpoint(sp)
      PROVE  ControllerTypeOK' /\ ~Stepped
    BY <1>0, <1>2 DEF SetSetpoint, memory
<1>3. CASE MarkDtSkipped
    BY <1>0, <1>3 DEF MarkDtSkipped, memory
<1>4. CASE ResetIntegral
    BY <1>0, <1>4 DEF ResetIntegral
<1>5. ASSUME NEW cv \in SafeCvs, SafeCvWritten(cv)
      PROVE  ControllerTypeOK' /\ ~Stepped
    BY <1>0, <1>5, ConfigAssumption DEF SafeCvWritten, memory
<1>6. ASSUME NEW g \in Gains, NEW sp \in Setpoints, NEW b \in BOOLEAN,
             Restart(g, sp, b)
      PROVE  ControllerTypeOK' /\ ~Stepped
    BY <1>0, <1>6 DEF Restart
<1> QED  BY <1>1, <1>2, <1>3, <1>4, <1>5, <1>6 DEF Next

\* The state has its shape at the start, and every step of Next keeps it.
LEMMA TypeInit == Init => ControllerTypeOK
BY ConfigAssumption DEF Init, ControllerTypeOK, NoResult

\* The same for a step: a step of the controller, any other call, or none.
LEMMA TypeStep == ControllerTypeOK /\ [Next]_vars => ControllerTypeOK'
<1> SUFFICES ASSUME ControllerTypeOK, [Next]_vars PROVE ControllerTypeOK'
    OBVIOUS
<1>1. CASE Steps
    BY <1>1, StepKeeps, Zenon DEF Steps
<1>2. CASE Next /\ ~Steps
    BY <1>2, OtherCallsKeep
<1>3. CASE UNCHANGED vars
    BY <1>3 DEF vars, memory, ControllerTypeOK
<1> QED  BY <1>1, <1>2, <1>3

\* Every reachable state of a controller has its declared shape, for every
\* configuration that PidConfig::validate accepts.
THEOREM ControllerTypeCorrect == Spec => []ControllerTypeOK
<1> QED  BY TypeInit, TypeStep, PTL DEF Spec

\* No sequence of calls has a step take the applied CV further outside
\* [out_min, out_max], or out of it once it is inside.
THEOREM LimitsKeptCorrect == Spec => LimitsKept
<1>1. ControllerTypeOK /\ [Next]_vars
          => [Stepped => Excess(applied') <= Excess(applied)]_vars
    <2> SUFFICES ASSUME ControllerTypeOK, Next, Stepped
                 PROVE  Excess(applied') <= Excess(applied)
        OBVIOUS
    <2>1. Steps
        BY OtherCallsKeep
    <2> QED  BY <2>1, StepKeeps, Zenon DEF Steps
<1> QED  BY <1>1, ControllerTypeCorrect, PTL DEF Spec, LimitsKept

\* No sequence of calls and failed writes has a step move the applied CV by
\* more than slew_rate * dt.
THEOREM SlewKeptCorrect == Spec => SlewKept
<1>1. ControllerTypeOK /\ [Next]_vars
          => [Stepped /\ settings.slew_rate # None
                  => Abs(applied' - applied)
                         <= settings.slew_rate * result'.dt]_vars
    <2> SUFFICES ASSUME ControllerTypeOK, Next, Stepped,
                        settings.slew_rate # None
                 PROVE  Abs(applied' - applied) <= settings.slew_rate * result'.dt
        OBVIOUS
    <2>1. Steps
        BY OtherCallsKeep
    <2>2. PICK raw \in RawPvs, dt \in Dts, ff \in Ffs, ok \in BOOLEAN :
              Step(raw, dt, ff, ok)
        BY <2>1 DEF Steps
    <2>3. result'.dt = dt
        BY <2>2, StepKeeps, Zenon
    <2>4. Abs(applied' - applied) <= settings.slew_rate * dt
        BY <2>2, StepKeeps, Zenon
    <2> QED  BY <2>3, <2>4
<1> QED  BY <1>1, ControllerTypeCorrect, PTL DEF Spec, SlewKept

\* A ramped setpoint moves towards its target by the rate at most and never
\* past it, whatever calls change the target in between.
THEOREM RampKeptCorrect == Spec => RampKept
<1>1. ControllerTypeOK /\ [Next]_vars
          => [Stepped /\ settings.setpoint_ramp # None /\ effective_sp # None
                  => /\ Abs(effective_sp' - effective_sp)
                            <= settings.setpoint_ramp * result'.dt
                     /\ Abs(effective_sp' - effective_sp)
                            + Abs(setpoint - effective_sp')
                            = Abs(setpoint - effective_sp)]_vars
    <2> SUFFICES ASSUME ControllerTypeOK, Next, Stepped,
                        settings.setpoint_ramp # None, effective_sp # None
                 PROVE  /\ Abs(effective_sp' - effective_sp)
                               <= settings.setpoint_ramp * result'.dt
                        /\ Abs(effective_sp' - effective_sp)
                               + Abs(setpoint - effective_sp')
                               = Abs(setpoint - effective_sp)
        OBVIOUS
    <2>1. Steps
        BY OtherCallsKeep
    <2>2. PICK raw \in RawPvs, dt \in Dts, ff \in Ffs, ok \in BOOLEAN :
              Step(raw, dt, ff, ok)
        BY <2>1 DEF Steps
    <2>3. result'.dt = dt
        BY <2>2, StepKeeps, Zenon
    <2>4. /\ Abs(effective_sp' - effective_sp) <= settings.setpoint_ramp * dt
          /\ Abs(effective_sp' - effective_sp) + Abs(setpoint - effective_sp')
                 = Abs(setpoint - effective_sp)
        BY <2>2, StepKeeps, Zenon
    <2> QED  BY <2>3, <2>4
<1> QED  BY <1>1, ControllerTypeCorrect, PTL DEF Spec, RampKept

\* Clamping leaves the output within the limits, and back-calculation leaves it
\* no further from the applied CV, in every reachable state.
THEOREM AntiWindupCorrect == Spec => AntiWindupHelps
<1> DEFINE Helps ==
        CASE settings.anti_windup = "clamp" ->
                 Excess(result'.u_unclamped) = 0
          [] settings.anti_windup = "back_calc" ->
                 result'.dt <= AntiWindupTt(result'.dt) =>
                     Abs(result'.u_unclamped - applied)
                         <= Abs(result'.candidate - applied)
          [] settings.anti_windup = "none" -> TRUE
<1>1. ControllerTypeOK /\ [Next]_vars => [Stepped /\ gains.ki # 0 => Helps]_vars
    <2> SUFFICES ASSUME ControllerTypeOK, Next, Stepped, gains.ki # 0
                 PROVE  Helps
        OBVIOUS
    <2>1. Steps
        BY OtherCallsKeep
    <2>2. PICK raw \in RawPvs, dt \in Dts, ff \in Ffs, ok \in BOOLEAN :
              Step(raw, dt, ff, ok)
        BY <2>1 DEF Steps
    <2>3. result'.dt = dt
        BY <2>2, StepKeeps, Zenon
    <2>4. settings.anti_windup \in {"back_calc", "clamp", "none"}
        BY ConfigAssumption DEF ControllerTypeOK
    <2>5. CASE settings.anti_windup = "clamp"
        BY <2>2, <2>5, StepKeeps
    <2>6. CASE settings.anti_windup = "back_calc"
        <3>1. dt <= AntiWindupTt(dt) =>
                  Abs(result'.u_unclamped - applied)
                      <= Abs(result'.candidate - applied)
            BY <2>2, <2>6, StepKeeps, Zenon
        <3> QED  BY <2>3, <2>6, <3>1
    <2>7. CASE settings.anti_windup = "none"
        BY <2>7
    <2> QED  BY <2>4, <2>5, <2>6, <2>7
<1> QED  BY <1>1, ControllerTypeCorrect, PTL DEF Spec, AntiWindupHelps

----------------------------------------------------------------------------
(* The bound on the integral. *)

\* What the bound is made of: process values and setpoints lie in Lo .. Hi, the
\* CVs that limits and safe CVs name are P at most, the proportional, derivative
\* and feed-forward parts R, and a tracking time, which is not shorter than any
\* time step, T.
Scaled(Lo, Hi, P, R, T) ==
    /\ Lo \in Int /\ Hi \in Int /\ Lo <= Hi
    /\ P \in Nat /\ R \in Nat /\ T \in Nat
    /\ \A x \in RawPvs \cup Setpoints : Lo <= x /\ x <= Hi
    /\ \A cv \in SafeCvs \cup {OutMin, OutMax} : Abs(cv) <= P
    /\ \A g \in Gains, ff \in Ffs :
           (g.kp + g.kd) * (Hi - Lo) + Abs(FfGain * ff) <= R
    /\ \A dt \in Dts :
           IF ExplicitTt # None THEN dt <= ExplicitTt /\ ExplicitTt <= T
           ELSE /\ dt <= T
                /\ \A g \in Gains : g.ki # 0 =>
                       Sqrt(g.kd \div g.ki) <= T /\ g.kp \div g.ki <= T

\* The filtered process value stays in the range of the process values.
LEMMA FilteredWithin ==
    ASSUME ControllerTypeOK, NEW Lo \in Int, NEW Hi \in Int, NEW raw \in Lo .. Hi,
           last_pv # None => last_pv \in Lo .. Hi
    PROVE  FilteredPv(raw) \in Lo .. Hi
<1>1. /\ AlphaDen \in Nat \ {0} /\ settings.pv_filter \in Nat
      /\ settings.pv_filter < AlphaDen
    BY ConfigAssumption DEF ControllerTypeOK
<1>2. CASE settings.pv_filter = 0 \/ last_pv = None
    BY <1>2 DEF FilteredPv
<1>3. CASE ~(settings.pv_filter = 0 \/ last_pv = None)
    <2> DEFINE f == settings.pv_filter
               a == AlphaDen - f
               x == a * raw + f * last_pv
    <2>1. last_pv \in Lo .. Hi
        BY <1>3
    <2>2. f \in Nat /\ a \in Nat /\ a + f = AlphaDen
        BY <1>1
    <2>3. AlphaDen * Lo = a * Lo + f * Lo /\ AlphaDen * Hi = a * Hi + f * Hi
        BY <1>1, <2>2
    <2>4. a * Lo <= a * raw /\ a * raw <= a * Hi
        <3> HIDE DEF a
        <3> QED  BY <2>2
    <2>5. f * Lo <= f * last_pv /\ f * last_pv <= f * Hi
        <3> HIDE DEF f
        <3> QED  BY <2>1, <2>2
    <2>6. x \in Int /\ AlphaDen * Lo <= x /\ x <= AlphaDen * Hi
        <3>1. /\ a * Lo \in Int /\ a * Hi \in Int /\ f * Lo \in Int /\ f * Hi \in Int
              /\ a * raw \in Int /\ f * last_pv \in Int
            BY <2>1, <2>2
        <3> QED  BY <2>3, <2>4, <2>5, <3>1
    <2>7. x \div AlphaDen \in Lo .. Hi
        <3> HIDE DEF x
        <3> DEFINE q == x \div AlphaDen
        <3>1. q \in Int /\ q * AlphaDen <= x /\ x < (q + 1) * AlphaDen
            BY <1>1, <2>6
        <3> HIDE DEF q
        <3>2. q <= Hi
            BY <1>1, <2>6, <3>1
        <3>3. Lo < q + 1
            BY <1>1, <2>6, <3>1
        <3> QED  BY <3>1, <3>2, <3>3 DEF q
    <2>8. FilteredPv(raw) = x \div AlphaDen
        BY <1>3, Zenon DEF FilteredPv
    <2> QED  BY <2>7, <2>8
<1> QED  BY <1>2, <1>3

\* A ramp stays between where it is and where it goes.
LEMMA RampWithin ==
    ASSUME ControllerTypeOK, NEW Lo \in Int, NEW Hi \in Int, NEW dt \in Dts,
           setpoint \in Lo .. Hi, effective_sp # None => effective_sp \in Lo .. Hi
    PROVE  NextEffectiveSp(dt) \in Lo .. Hi
<1>1. CASE settings.setpoint_ramp = None \/ effective_sp = None
    BY <1>1 DEF NextEffectiveSp
<1>2. CASE ~(settings.setpoint_ramp = None \/ effective_sp = None)
    <2> DEFINE d == settings.setpoint_ramp * dt
    <2>1. d \in Nat /\ effective_sp \in Lo .. Hi
        BY <1>2, ConfigAssumption, TimeAssumption DEF ControllerTypeOK
    <2>2. NextEffectiveSp(dt) = RampToward(effective_sp, setpoint, d)
        BY <1>2 DEF NextEffectiveSp
    <2> HIDE DEF d
    <2> QED  BY <2>1, <2>2 DEF RampToward, Abs
<1> QED  BY <1>1, <1>2

\* What is not integral in an output is R at most.
LEMMA RestWithin ==
    ASSUME ControllerTypeOK, NEW Lo, NEW Hi, NEW P, NEW R, NEW T,
           Scaled(Lo, Hi, P, R, T),
           NEW pv \in Lo .. Hi, NEW err \in Int, Abs(err) <= Hi - Lo,
           NEW dt \in Dts, NEW ff \in Ffs,
           last_pv # None => last_pv \in Lo .. Hi
    PROVE  LET rest == gains.kp * err + DTerm(pv, dt) + FfGain * ff
           IN  rest \in Int /\ Abs(rest) <= R
<1>1. /\ gains \in Gains /\ gains.kp \in Nat /\ gains.kd \in Nat
      /\ FfGain \in Int /\ ff \in Int /\ dt \in Nat \ {0}
      /\ Lo \in Int /\ Hi \in Int /\ Lo <= Hi /\ R \in Nat
    BY ConfigAssumption, TimeAssumption DEF ControllerTypeOK, Scaled
<1> DEFINE W == Hi - Lo
           p == gains.kp * err
           d == DTerm(pv, dt)
           f == FfGain * ff
<1>2. W \in Nat
    BY <1>1
<1>3. gains.kp * W + gains.kd * W + Abs(f) <= R /\ f \in Int
    <2>1. (gains.kp + gains.kd) * W + Abs(f) <= R
        BY <1>1 DEF Scaled
    <2>2. (gains.kp + gains.kd) * W = gains.kp * W + gains.kd * W
        BY <1>1, <1>2
    <2> QED  BY <1>1, <2>1, <2>2
<1>4. p \in Int /\ Abs(p) <= gains.kp * W
    <2>1. -W <= err /\ err <= W
        BY <1>1 DEF Abs
    <2> HIDE DEF W
    <2>2. gains.kp * (-W) <= gains.kp * err /\ gains.kp * err <= gains.kp * W
        BY <1>1, <1>2, <2>1
    <2>3. gains.kp * (-W) = -(gains.kp * W) /\ gains.kp * W \in Int
        BY <1>1, <1>2
    <2> QED  BY <1>1, <2>2, <2>3 DEF Abs
<1>5. d \in Int /\ Abs(d) <= gains.kd * W
    <2>1. gains.kd * W \in Nat
        BY <1>1, <1>2
    <2>2. CASE gains.kd = 0 \/ skip # "none" \/ last_pv = None
        BY <2>1, <2>2 DEF DTerm, Abs
    <2>3. CASE ~(gains.kd = 0 \/ skip # "none" \/ last_pv = None)
        <3> DEFINE x == pv - last_pv
                   q == (x * 1) \div dt
        <3>1. x \in Int /\ -W <= x /\ x <= W
            BY <1>1, <2>3
        <3>2. q \in Int /\ -W <= q /\ q <= W
            <4>1. /\ (x * 1) \div dt \in Int
                  /\ x >= 0 => 0 <= (x * 1) \div dt /\ (x * 1) \div dt <= x
                  /\ x < 0 => x <= (x * 1) \div dt /\ (x * 1) \div dt <= 0
                <5>1. 1 \in Nat \ {0} /\ 1 <= dt
                    BY <1>1
                <5> HIDE DEF x
                <5> QED  BY <1>1, <3>1, <5>1, PartOf
            <4> HIDE DEF x, W
            <4> QED  BY <1>2, <3>1, <4>1
        <3>3. DTerm(pv, dt) = -gains.kd * q
            <4>1. x * 1 = x
                BY <3>1
            <4> QED  BY <2>3, <4>1 DEF DTerm
        <3> HIDE DEF q, W
        <3>4. gains.kd * (-W) <= gains.kd * q /\ gains.kd * q <= gains.kd * W
            BY <1>1, <1>2, <3>2
        <3>5. gains.kd * (-W) = -(gains.kd * W) /\ -gains.kd * q = -(gains.kd * q)
              /\ gains.kd * q \in Int
            BY <1>1, <1>2, <3>2
        <3> QED  BY <2>1, <3>3, <3>4, <3>5 DEF Abs
    <2> QED  BY <2>2, <2>3
<1>6. gains.kp * W \in Int /\ gains.kd * W \in Int
    BY <1>1, <1>2
<1> HIDE DEF p, d, f, W
<1>7. p + d + f \in Int /\ Abs(p + d + f) <= R
    BY <1>1, <1>3, <1>4, <1>5, <1>6 DEF Abs
<1> QED  BY <1>7 DEF p, d, f

\* The arithmetic of back-calculation: with an integral i, an error e and a rest r
\* of the output, what is left of the integral stays within a bound that is large
\* against the error over the tracking time.
LEMMA BackCalculationHolds ==
    ASSUME NEW ki \in Nat \ {0}, NEW dt \in Nat \ {0}, NEW tt \in Nat \ {0},
           NEW i \in Int, NEW e \in Int, NEW c \in Int,
           NEW M \in Int, NEW W \in Nat, NEW C \in Nat,
           dt <= tt, -M <= i, i <= M, -W <= e, e <= W, -C <= c, c <= C,
           M >= W * tt + C
    PROVE  LET cand == ki * (i + e * dt)
               q    == ((c - cand) * dt) \div tt
               new  == (cand + q) \div ki
           IN  -M <= new /\ new <= M
<1> DEFINE a    == i + e * dt
           cand == ki * a
           x    == c - cand
           q    == (x * dt) \div tt
           n    == q \div ki
<1>1. a \in Int /\ cand \in Int /\ x \in Int
    <2>1. e * dt \in Int
        OBVIOUS
    <2>2. a \in Int
        BY <2>1
    <2> HIDE DEF a
    <2>3. ki * a \in Int
        BY <2>2
    <2> QED  BY <2>2, <2>3
<1>2. q \in Int /\ q * tt <= x * dt /\ x * dt < (q + 1) * tt
    <2> HIDE DEF x
    <2> QED  BY <1>1
<1>3. n \in Int /\ n * ki <= q /\ q < (n + 1) * ki
    <2> HIDE DEF q
    <2> QED  BY <1>2
<1>4. (cand + q) \div ki = a + n
    <2> HIDE DEF a, q
    <2> QED  BY <1>1, <1>2
<1>5. -(W * dt) <= e * dt /\ e * dt <= W * dt
    OBVIOUS
<1> DEFINE wd == W * dt
<1>6. wd \in Nat /\ a <= M + wd /\ -M - wd <= a
    <2>1. e * dt \in Int
        OBVIOUS
    <2> QED  BY <1>5, <2>1
\* The two divisions as one: n is the correction per ki.
<1>7. n * tt <= (C - a) * dt
    <2> HIDE DEF a, q, n
    <2>1. (n * ki) * tt <= x * dt
        <3>1. (n * ki) * tt <= q * tt
            <4>1. n * ki \in Int
                BY <1>3
            <4> QED  BY <1>2, <1>3, <4>1
        <3> QED  BY <1>1, <1>2, <1>3, <3>1
    <2>2. x * dt <= (ki * (C - a)) * dt
        <3>1. c <= ki * C
            OBVIOUS
        <3>2. x <= ki * C - ki * a /\ ki * C - ki * a = ki * (C - a)
            BY <1>1, <3>1
        <3>3. ki * (C - a) \in Int /\ x <= ki * (C - a)
            BY <1>1, <3>2
        <3> HIDE DEF x
        <3> QED  BY <1>1, <3>3
    <2>3. ki * (n * tt) <= ki * ((C - a) * dt)
        <3>1. (n * ki) * tt = ki * (n * tt) /\ (ki * (C - a)) * dt = ki * ((C - a) * dt)
            BY <1>1, <1>3
        <3>2. ki * (n * tt) \in Int /\ ki * ((C - a) * dt) \in Int /\ x * dt \in Int
            BY <1>1, <1>3
        <3> QED  BY <2>1, <2>2, <3>1, <3>2
    <2> DEFINE l == n * tt
               r == (C - a) * dt
    <2>4. l \in Int /\ r \in Int
        BY <1>1, <1>3
    <2> HIDE DEF l, r
    <2> QED  BY <2>3, <2>4 DEF l, r
<1>8. (-C - a) * dt < (n + 1) * tt
    <2> HIDE DEF a, q, n
    <2>1. x * dt < ((n + 1) * ki) * tt
        <3>1. q + 1 <= (n + 1) * ki /\ (n + 1) * ki \in Int
            BY <1>2, <1>3
        <3>2. (q + 1) * tt <= ((n + 1) * ki) * tt
            BY <1>2, <3>1
        <3> QED  BY <1>1, <1>2, <1>3, <3>2
    <2>2. (ki * (-C - a)) * dt <= x * dt
        <3>1. -(ki * C) <= c
            OBVIOUS
        <3>2. -(ki * C) - ki * a <= x /\ -(ki * C) - ki * a = ki * (-C - a)
            BY <1>1, <3>1
        <3>3. ki * (-C - a) \in Int /\ ki * (-C - a) <= x
            BY <1>1, <3>2
        <3> HIDE DEF x
        <3> QED  BY <1>1, <3>3
    <2>3. ki * ((-C - a) * dt) < ki * ((n + 1) * tt)
        <3>1. /\ ((n + 1) * ki) * tt = ki * ((n + 1) * tt)
              /\ (ki * (-C - a)) * dt = ki * ((-C - a) * dt)
            BY <1>1, <1>3
        <3>2. ki * ((n + 1) * tt) \in Int /\ ki * ((-C - a) * dt) \in Int /\ x * dt \in Int
            BY <1>1, <1>3
        <3> QED  BY <2>1, <2>2, <3>1, <3>2
    <2> DEFINE l == (-C - a) * dt
               r == (n + 1) * tt
    <2>4. l \in Int /\ r \in Int
        BY <1>1, <1>3
    <2> HIDE DEF l, r
    <2> QED  BY <2>3, <2>4 DEF l, r
<1>9. wd * tt <= (M - C) * dt /\ wd * tt \in Nat
    <2>1. wd * tt = (W * tt) * dt
        OBVIOUS
    <2>2. W * tt <= M - C /\ W * tt \in Nat
        OBVIOUS
    <2>3. (W * tt) * dt <= (M - C) * dt
        BY <2>2
    <2>4. wd * tt \in Nat
        <3> HIDE DEF wd
        <3> QED  BY <1>6
    <2> QED  BY <2>1, <2>3, <2>4
\* More than M would take a correction that is too small for so large a sum.
<1>10. a + n <= M
    <2> SUFFICES ASSUME n >= M + 1 - a PROVE FALSE
        BY <1>1, <1>3
    <2> DEFINE s == a - M
    <2> HIDE DEF a, q, n, wd
    <2>1. s \in Int /\ s <= wd /\ C - a = -(M - C) - s /\ n >= 1 - s
        BY <1>1, <1>6
    <2> HIDE DEF s
    <2>2. (1 - s) * tt <= n * tt
        BY <1>3, <2>1
    <2>3. (C - a) * dt = -((M - C) * dt) - s * dt
        BY <1>1, <2>1
    <2>4. tt - s * tt <= -((M - C) * dt) - s * dt
        <3>1. (1 - s) * tt = tt - s * tt
            BY <2>1
        <3>2. /\ s * tt \in Int /\ s * dt \in Int /\ (M - C) * dt \in Int
              /\ n * tt \in Int
            BY <1>3, <2>1
        <3> QED  BY <1>7, <2>2, <2>3, <3>1, <3>2
    <2>5. s * (tt - dt) <= wd * tt
        <3>1. s * (tt - dt) <= wd * (tt - dt)
            BY <1>6, <2>1
        <3>2. wd * (tt - dt) <= wd * tt
            BY <1>6
        <3>3. s * (tt - dt) \in Int /\ wd * (tt - dt) \in Int
            BY <1>6, <2>1
        <3> QED  BY <1>9, <3>1, <3>2, <3>3
    <2>6. s * (tt - dt) = s * tt - s * dt
        BY <2>1
    <2>7. s * tt \in Int /\ s * dt \in Int /\ (M - C) * dt \in Int
        BY <2>1
    <2> QED  BY <1>9, <2>4, <2>5, <2>6, <2>7
\* And the same below.
<1>11. -M <= a + n
    <2> SUFFICES ASSUME n + 1 <= -M - a PROVE FALSE
        BY <1>1, <1>3
    <2> DEFINE s == -M - a
    <2> HIDE DEF a, q, n, wd
    <2>1. s \in Int /\ s <= wd /\ -C - a = (M - C) + s /\ n + 1 <= s
        BY <1>1, <1>6
    <2> HIDE DEF s
    <2>2. (n + 1) * tt <= s * tt
        BY <1>3, <2>1
    <2>3. (-C - a) * dt = (M - C) * dt + s * dt
        BY <1>1, <2>1
    <2>4. (M - C) * dt + s * dt < s * tt
        <3>1. /\ s * tt \in Int /\ s * dt \in Int /\ (M - C) * dt \in Int
              /\ (n + 1) * tt \in Int
            BY <1>3, <2>1
        <3> QED  BY <1>8, <2>2, <2>3, <3>1
    <2>5. s * (tt - dt) <= wd * tt
        <3>1. s * (tt - dt) <= wd * (tt - dt)
            BY <1>6, <2>1
        <3>2. wd * (tt - dt) <= wd * tt
            BY <1>6
        <3>3. s * (tt - dt) \in Int /\ wd * (tt - dt) \in Int
            BY <1>6, <2>1
        <3> QED  BY <1>9, <3>1, <3>2, <3>3
    <2>6. s * (tt - dt) = s * tt - s * dt
        BY <2>1
    <2>7. s * tt \in Int /\ s * dt \in Int /\ (M - C) * dt \in Int
        BY <2>1
    <2> QED  BY <1>9, <2>4, <2>5, <2>6, <2>7
<1> QED  BY <1>4, <1>10, <1>11

\* A division by ki leaves a value within the bound it is in.
LEMMA DividedWithin ==
    ASSUME NEW x \in Int, NEW ki \in Nat \ {0}, NEW B \in Nat, -B <= x, x <= B
    PROVE  -B <= x \div ki /\ x \div ki <= B /\ x \div ki \in Int
<1>1. 1 \in Nat \ {0} /\ 1 <= ki /\ x * 1 = x
    OBVIOUS
<1>2. /\ (x * 1) \div ki \in Int
      /\ x >= 0 => 0 <= (x * 1) \div ki /\ (x * 1) \div ki <= x
      /\ x < 0 => x <= (x * 1) \div ki /\ (x * 1) \div ki <= 0
    BY <1>1, PartOf
<1> DEFINE q == x \div ki
<1>3. /\ q \in Int
      /\ x >= 0 => 0 <= q /\ q <= x
      /\ x < 0 => x <= q /\ q <= 0
    BY <1>1, <1>2, Zenon
<1> HIDE DEF q
<1>4. -B <= q /\ q <= B /\ q \in Int
    BY <1>3
<1> QED  BY <1>4 DEF q

\* With either anti-windup the new integral is within the bound if the old one,
\* the error, the rest of the output and the applied CV are in theirs.
LEMMA AntiWindupBounded ==
    ASSUME ControllerTypeOK, NEW Lo, NEW Hi, NEW P, NEW R, NEW T,
           Scaled(Lo, Hi, P, R, T), NEW M \in Int, M >= (Hi - Lo) * T + P + R,
           gains.ki # 0, settings.anti_windup # "none",
           NEW err \in Int, Abs(err) <= Hi - Lo,
           NEW rest \in Int, Abs(rest) <= R, NEW dt \in Dts,
           Abs(applied) <= P, Abs(i_acc) <= M
    PROVE  Abs(AntiWindup(gains.ki * (i_acc + err * dt), rest, applied, dt)
                   \div gains.ki) <= M
<1> DEFINE ki     == gains.ki
           cand   == ki * (i_acc + err * dt)
           tt     == AntiWindupTt(dt)
           i_term == AntiWindup(cand, rest, applied, dt)
           C      == P + R
<1>1. /\ ki \in Nat \ {0} /\ gains \in Gains /\ dt \in Nat \ {0} /\ i_acc \in Int
      /\ applied \in Int /\ OutMin \in Int /\ OutMax \in Int /\ OutMin <= OutMax
      /\ Lo \in Int /\ Hi \in Int /\ Lo <= Hi /\ P \in Nat /\ R \in Nat /\ T \in Nat
    BY ConfigAssumption, TimeAssumption DEF ControllerTypeOK, Scaled
<1>2. /\ Abs(OutMin) <= P /\ Abs(OutMax) <= P
    BY <1>1 DEF Scaled
<1>3. C \in Nat /\ M >= C
    <2>1. (Hi - Lo) * T \in Nat
        BY <1>1
    <2> QED  BY <1>1, <2>1
<1>4. cand \in Int
    <2>1. err * dt \in Int
        BY <1>1
    <2>2. i_acc + err * dt \in Int
        BY <1>1, <2>1
    <2> QED  BY <1>1, <2>2
<1>5. ASSUME i_term \in OutMin - rest .. OutMax - rest
      PROVE  Abs(i_term \div ki) <= M
    <2>1. i_term \in Int /\ -C <= i_term /\ i_term <= C
        <3> HIDE DEF i_term
        <3> QED  BY <1>1, <1>2, <1>5 DEF Abs
    <2>2. -C <= i_term \div ki /\ i_term \div ki <= C /\ i_term \div ki \in Int
        <3> HIDE DEF i_term, C, ki
        <3> QED  BY <1>1, <1>3, <2>1, DividedWithin
    <2> DEFINE q == i_term \div ki
    <2> HIDE DEF q
    <2>3. -C <= q /\ q <= C /\ q \in Int
        BY <2>2 DEF q
    <2>4. Abs(q) <= M
        <3> HIDE DEF C
        <3> QED  BY <1>3, <2>3 DEF Abs
    <2> QED  BY <2>4 DEF q
<1>6. CASE settings.anti_windup = "clamp"
    <2>1. i_term = Clamp(cand, OutMin - rest, OutMax - rest)
        BY <1>6 DEF AntiWindup
    <2>2. Clamp(cand, OutMin - rest, OutMax - rest) \in OutMin - rest .. OutMax - rest
        <3>1. OutMin - rest \in Int /\ OutMax - rest \in Int
              /\ OutMin - rest <= OutMax - rest
            BY <1>1
        <3> HIDE DEF cand
        <3> QED  BY <1>4, <3>1, ClampBetween, Zenon
    <2>3. i_term \in OutMin - rest .. OutMax - rest
        BY <2>1, <2>2, Zenon
    <2> QED  BY <1>5, <2>3
<1>7. CASE settings.anti_windup = "back_calc"
    <2>1. CASE cand + rest >= OutMin /\ cand + rest <= OutMax
        <3>1. i_term = cand
            BY <1>7, <2>1 DEF AntiWindup
        <3>2. cand \in OutMin - rest .. OutMax - rest
            <4> HIDE DEF cand
            <4> QED  BY <1>1, <1>4, <2>1
        <3>3. i_term \in OutMin - rest .. OutMax - rest
            BY <3>1, <3>2, Zenon
        <3> QED  BY <1>5, <3>3
    <2>2. CASE ~(cand + rest >= OutMin /\ cand + rest <= OutMax)
        <3> DEFINE q == ((applied - (cand + rest)) * dt) \div tt
        <3>1. i_term = cand + q
            BY <1>7, <2>2 DEF AntiWindup, BackCalculated
        <3>2. tt \in Nat \ {0}
            BY <1>1, TtPositive
        <3>3. dt <= tt /\ tt <= T
            <4>1. CASE ExplicitTt # None
                BY <4>1 DEF Scaled, AntiWindupTt
            <4>2. CASE ExplicitTt = None
                <5> DEFINE auto == IF gains.kd > 0 THEN Sqrt(gains.kd \div ki)
                                                   ELSE gains.kp \div ki
                <5>1. tt = Clamp(auto, dt, TtUpperBound)
                    BY <4>2 DEF AntiWindupTt
                <5>2. dt <= T /\ auto <= T
                    BY <1>1, <4>2 DEF Scaled
                <5>3. auto \in Int
                    <6>1. gains.kd \in Nat /\ gains.kp \in Nat
                        BY ConfigAssumption DEF ControllerTypeOK
                    <6>2. gains.kd \div ki \in Int /\ gains.kp \div ki \in Int
                        BY <1>1, <6>1
                    <6>3. Sqrt(gains.kd \div ki) \in Nat
                        BY <6>2, SqrtNat
                    <6> QED  BY <6>2, <6>3
                <5>4. dt <= TtUpperBound /\ TtUpperBound \in Nat
                    BY TimeAssumption
                <5> HIDE DEF auto, tt
                <5> QED  BY <1>1, <5>1, <5>2, <5>3, <5>4 DEF Clamp
            <4> QED  BY <4>1, <4>2
        <3> DEFINE W == Hi - Lo
                   c == applied - rest
        <3>4. W \in Nat /\ -W <= err /\ err <= W
            BY <1>1 DEF Abs
        <3>5. c \in Int /\ -C <= c /\ c <= C
            BY <1>1 DEF Abs
        <3>6. -M <= i_acc /\ i_acc <= M
            BY <1>1 DEF Abs
        <3>7. M >= W * tt + C
            <4>1. W * tt <= W * T /\ W * tt \in Int /\ W * T \in Int
                <5> HIDE DEF W, tt
                <5> QED  BY <1>1, <3>2, <3>3, <3>4
            <4>2. M >= W * T + P + R
                OBVIOUS
            <4> HIDE DEF W, tt
            <4> QED  BY <1>1, <4>1, <4>2
        <3>8. applied - (cand + rest) = c - cand
            <4> HIDE DEF cand
            <4> QED  BY <1>1, <1>4
        <3>9. LET q2  == ((c - cand) * dt) \div tt
                  new == (cand + q2) \div ki
              IN  -M <= new /\ new <= M
            <4>1. ki \in Nat \ {0} /\ dt \in Nat \ {0} /\ tt \in Nat \ {0} /\ i_acc \in Int
                  /\ C \in Nat /\ dt <= tt
                BY <1>1, <1>3, <3>2, <3>3
            <4> HIDE DEF ki, tt, C, W, c
            <4> QED  BY <3>4, <3>5, <3>6, <3>7, <4>1, BackCalculationHolds
        <3> DEFINE new == (cand + q) \div ki
        <3>10. -M <= new /\ new <= M
            BY <3>8, <3>9, Zenon
        <3>11. new \in Int
            <4>1. q \in Int
                <5>1. applied - (cand + rest) \in Int
                    <6> HIDE DEF cand
                    <6> QED  BY <1>1, <1>4
                <5> DEFINE x == applied - (cand + rest)
                <5> HIDE DEF x, tt
                <5>2. (x * dt) \div tt \in Int
                    BY <1>1, <3>2, <5>1 DEF x
                <5> QED  BY <5>2 DEF x
            <4> HIDE DEF q, cand, ki
            <4> QED  BY <1>1, <1>4, <4>1
        <3>12. Abs(new) <= M
            <4> HIDE DEF new
            <4> QED  BY <3>10, <3>11 DEF Abs
        <3> QED  BY <3>1, <3>12, Zenon
    <2> QED  BY <2>1, <2>2
<1>8. settings.anti_windup \in {"back_calc", "clamp", "none"}
    BY ConfigAssumption DEF ControllerTypeOK
<1> QED  BY <1>6, <1>7, <1>8

\* What a step keeps: values in the range of the inputs, and the integral.
ScaleInv(Lo, Hi, P) ==
    /\ ControllerTypeOK
    /\ last_pv # None => last_pv \in Lo .. Hi
    /\ effective_sp # None => effective_sp \in Lo .. Hi
    /\ Abs(applied) <= P
    /\ settings.anti_windup # "none"
    /\ IntegralBounded

\* A step keeps it.
LEMMA ScaleStep ==
    ASSUME NEW Lo, NEW Hi, NEW P, NEW R, NEW T, Scaled(Lo, Hi, P, R, T),
           IntegralMax \in Int, IntegralMax >= (Hi - Lo) * T + P + R,
           ScaleInv(Lo, Hi, P),
           NEW raw \in RawPvs, NEW dt \in Dts, NEW ff \in Ffs, NEW ok \in BOOLEAN,
           Step(raw, dt, ff, ok)
    PROVE  ScaleInv(Lo, Hi, P)'
<1> DEFINE pv     == FilteredPv(raw)
           sp     == NextEffectiveSp(dt)
           err    == EffectiveError(sp - pv)
           rest   == gains.kp * err + DTerm(pv, dt) + FfGain * ff
           cand   == IF gains.ki = 0 THEN 0 ELSE gains.ki * (i_acc + err * dt)
           i_term == IF gains.ki = 0 THEN 0
                                     ELSE AntiWindup(cand, rest, applied, dt)
           cv     == Realized(rest + i_term, applied, dt)
<1>1. /\ i_acc' = IF gains.ki = 0 THEN i_acc ELSE i_term \div gains.ki
      /\ last_pv' = pv /\ effective_sp' = sp
      /\ applied' = IF ok THEN cv ELSE applied
      /\ settings' = settings
    BY DEF Step
<1>2. /\ ControllerTypeOK /\ Abs(applied) <= P /\ Abs(i_acc) <= IntegralMax
      /\ last_pv # None => last_pv \in Lo .. Hi
      /\ effective_sp # None => effective_sp \in Lo .. Hi
      /\ settings.anti_windup # "none"
    BY DEF ScaleInv, IntegralBounded
<1>3. /\ Lo \in Int /\ Hi \in Int /\ Lo <= Hi /\ P \in Nat /\ R \in Nat
      /\ raw \in Lo .. Hi /\ setpoint \in Lo .. Hi
      /\ Abs(OutMin) <= P /\ Abs(OutMax) <= P
      /\ OutMin \in Int /\ OutMax \in Int /\ OutMin <= OutMax
      /\ applied \in Int
    BY <1>2, ConfigAssumption DEF Scaled, ControllerTypeOK
<1>4. pv \in Lo .. Hi
    BY <1>2, <1>3, FilteredWithin
<1>5. sp \in Lo .. Hi
    BY <1>2, <1>3, RampWithin
<1>6. err \in Int /\ Abs(err) <= Hi - Lo
    <2> HIDE DEF pv, sp
    <2> QED  BY <1>3, <1>4, <1>5 DEF EffectiveError, Abs
<1>7. rest \in Int /\ Abs(rest) <= R
    <2> HIDE DEF pv, err
    <2> QED  BY <1>2, <1>4, <1>6, RestWithin
<1>8. Abs(i_acc') <= IntegralMax
    <2>1. CASE gains.ki = 0
        BY <1>1, <1>2, <2>1
    <2>2. CASE gains.ki # 0
        <3>1. i_acc' = AntiWindup(gains.ki * (i_acc + err * dt), rest, applied, dt)
                           \div gains.ki
            BY <1>1, <2>2
        <3>2. Abs(AntiWindup(gains.ki * (i_acc + err * dt), rest, applied, dt)
                      \div gains.ki) <= IntegralMax
            <4> HIDE DEF err, rest
            <4> QED  BY <1>2, <1>6, <1>7, <2>2, AntiWindupBounded
        <3> QED  BY <3>1, <3>2, Zenon
    <2> QED  BY <2>1, <2>2
<1>9. ControllerTypeOK'
    BY <1>2, StepKeeps, Zenon
<1>10. Abs(applied') <= P
    <2>1. CASE ~ok
        BY <1>1, <1>2, <2>1
    <2>2. CASE ok
        <3>1. applied' = cv /\ applied' \in Int
            BY <1>1, <1>9, <2>2 DEF ControllerTypeOK
        <3> DEFINE u       == rest + i_term
                   limited == Clamp(u, OutMin, OutMax)
        <3>2. u \in Int
            <4>1. cand \in Int
                <5>1. gains.ki \in Nat /\ i_acc \in Int /\ dt \in Nat
                    BY <1>2, ConfigAssumption, TimeAssumption DEF ControllerTypeOK
                <5> HIDE DEF err
                <5> QED  BY <1>6, <5>1
            <4>2. i_term \in Int
                <5> HIDE DEF cand, rest
                <5> QED  BY <1>2, <1>3, <1>7, <4>1, AntiWindupWithin
            <4> HIDE DEF rest, i_term
            <4> QED  BY <1>7, <4>2
        <3>3. limited \in OutMin .. OutMax
            <4> HIDE DEF u
            <4> QED  BY <1>3, <3>2, ClampBetween
        <3>4. CASE settings.slew_rate = None
            <4>1. cv = limited
                BY <3>4 DEF Realized
            <4> HIDE DEF limited, cv
            <4> QED  BY <1>3, <3>1, <3>3, <4>1 DEF Abs
        <3>5. CASE settings.slew_rate # None
            <4> DEFINE d == settings.slew_rate * dt
            <4>1. d \in Nat
                <5>1. settings.slew_rate \in Nat /\ dt \in Nat
                    BY <1>2, <3>5, ConfigAssumption, TimeAssumption
                       DEF ControllerTypeOK
                <5> QED  BY <5>1
            <4>2. cv = Clamp(limited, applied - d, applied + d)
                BY <3>5 DEF Realized
            <4> HIDE DEF limited, cv, d
            <4> QED  BY <1>2, <1>3, <3>1, <3>3, <4>1, <4>2 DEF Clamp, Abs
        <3> QED  BY <3>4, <3>5
    <2> QED  BY <2>1, <2>2
<1> HIDE DEF pv, sp
<1> QED  BY <1>1, <1>2, <1>4, <1>5, <1>8, <1>9, <1>10
         DEF ScaleInv, IntegralBounded

\* The other calls keep it as well.
LEMMA ScaleOtherCalls ==
    ASSUME NEW Lo, NEW Hi, NEW P, NEW R, NEW T, Scaled(Lo, Hi, P, R, T),
           IntegralMax \in Int, IntegralMax >= (Hi - Lo) * T + P + R,
           ScaleInv(Lo, Hi, P), Next, ~Steps
    PROVE  ScaleInv(Lo, Hi, P)'
<1>1. ControllerTypeOK'
    BY OtherCallsKeep DEF ScaleInv
<1>2. Abs(0) <= P /\ Abs(0) <= IntegralMax
    <2>1. /\ Lo \in Int /\ Hi \in Int /\ Lo <= Hi
          /\ P \in Nat /\ R \in Nat /\ T \in Nat
        BY DEF Scaled
    <2>2. (Hi - Lo) * T \in Nat
        BY <2>1
    <2> QED  BY <2>1, <2>2 DEF Abs
<1>3. /\ last_pv' \in {last_pv, None} /\ effective_sp' \in {effective_sp, None}
      /\ settings' = settings /\ i_acc' \in {i_acc, 0}
    BY DEF Next, SetGains, SetSetpoint, MarkDtSkipped, ResetIntegral, SafeCvWritten,
           Restart, memory
<1>4. applied' \in {applied, 0} \cup SafeCvs
    BY DEF Next, SetGains, SetSetpoint, MarkDtSkipped, ResetIntegral, SafeCvWritten,
           Restart, memory
<1>5. \A cv \in SafeCvs : Abs(cv) <= P
    BY DEF Scaled
<1> QED  BY <1>1, <1>2, <1>3, <1>4, <1>5 DEF ScaleInv, IntegralBounded

\* Clamping and back-calculation hold the integral to the range of the errors
\* over the tracking time and the range of the outputs, however long the output
\* is saturated and whatever changes in between: for every range of inputs, every
\* limit on the outputs and every mix of gains.
THEOREM IntegralBoundedCorrect ==
    ASSUME NEW CONSTANT Lo, NEW CONSTANT Hi, NEW CONSTANT P, NEW CONSTANT R,
           NEW CONSTANT T, Scaled(Lo, Hi, P, R, T),
           IntegralMax \in Int, IntegralMax >= (Hi - Lo) * T + P + R,
           \A s \in Settings : s.anti_windup # "none"
    PROVE  Spec => []IntegralBounded
<1>1. Init => ScaleInv(Lo, Hi, P)
    <2> SUFFICES ASSUME Init PROVE ScaleInv(Lo, Hi, P)
        OBVIOUS
    <2>1. /\ Lo \in Int /\ Hi \in Int /\ Lo <= Hi
          /\ P \in Nat /\ R \in Nat /\ T \in Nat
        BY DEF Scaled
    <2>2. (Hi - Lo) * T \in Nat
        BY <2>1
    <2> QED  BY <2>1, <2>2, TypeInit DEF Init, ScaleInv, IntegralBounded, Abs
<1>2. ScaleInv(Lo, Hi, P) /\ [Next]_vars => ScaleInv(Lo, Hi, P)'
    <2> SUFFICES ASSUME ScaleInv(Lo, Hi, P), [Next]_vars PROVE ScaleInv(Lo, Hi, P)'
        OBVIOUS
    <2>1. CASE Steps
        BY <2>1, ScaleStep, Zenon DEF Steps
    <2>2. CASE Next /\ ~Steps
        BY <2>2, ScaleOtherCalls
    <2>3. CASE UNCHANGED vars
        BY <2>3, TypeStep DEF vars, memory, ScaleInv, IntegralBounded
    <2> QED  BY <2>1, <2>2, <2>3
<1>3. ScaleInv(Lo, Hi, P) => IntegralBounded
    BY DEF ScaleInv
<1> QED  BY <1>1, <1>2, <1>3, PTL DEF Spec

----------------------------------------------------------------------------
(* Replay. *)

\* A log that tells everything comes from a loop with the default settings,
\* and both controllers have the same memory.
ReplayInv ==
    /\ re_settings = Defaults
    /\ replaying =>
           /\ settings = Defaults /\ ExplicitTt = None
           /\ re_i_acc = i_acc /\ re_last_pv = last_pv
           /\ re_skip = skip /\ re_applied = applied

\* One record, given to both, where they track with the same time.
LEMMA SameStep ==
    ASSUME ReplayInv, replaying, NEW raw, NEW dt, NEW ff, FfGain * ff = 0,
           SameTracking(dt), Step(raw, dt, ff, TRUE), ReplayLine(raw, dt, FfGain * ff)
    PROVE  /\ re_settings' = re_settings /\ settings' = settings
           /\ re_i_acc' = i_acc' /\ re_last_pv' = last_pv'
           /\ re_skip' = skip' /\ re_applied' = applied'
<1>1. /\ re_settings = settings /\ ExplicitTt = None
      /\ settings.setpoint_ramp = None /\ settings.slew_rate = None
      /\ re_i_acc = i_acc /\ re_last_pv = last_pv
      /\ re_skip = skip /\ re_applied = applied
    BY DEF ReplayInv, Defaults
<1>2. Second!FilteredPv(raw) = FilteredPv(raw)
    BY <1>1 DEF Second!FilteredPv, FilteredPv
<1>3. Second!NextEffectiveSp(dt) = NextEffectiveSp(dt)
    BY <1>1 DEF Second!NextEffectiveSp, NextEffectiveSp
<1>4. \A e : Second!EffectiveError(e) = EffectiveError(e)
    BY <1>1 DEF Second!EffectiveError, EffectiveError, Second!Abs, Abs
<1>5. \A pv : Second!DTerm(pv, dt) = DTerm(pv, dt)
    BY <1>1 DEF Second!DTerm, DTerm
<1>6. gains.ki # 0 => Second!AntiWindupTt(dt) = AntiWindupTt(dt)
    BY DEF SameTracking
<1>7. gains.ki # 0 =>
          \A cand, rest, prev :
              Second!AntiWindup(cand, rest, prev, dt)
                  = AntiWindup(cand, rest, prev, dt)
    <2>1. settings.anti_windup = "back_calc" /\ re_settings.anti_windup = "back_calc"
        BY <1>1 DEF ReplayInv, Defaults
    <2>2. \A cand, u, prev, tt :
              Second!BackCalculated(cand, u, prev, dt, tt)
                  = BackCalculated(cand, u, prev, dt, tt)
        BY DEF Second!BackCalculated, BackCalculated
    <2> QED  BY <1>6, <2>1, <2>2 DEF Second!AntiWindup, AntiWindup
<1>8. \A u, prev : Second!Realized(u, prev, dt) = Realized(u, prev, dt)
    BY <1>1 DEF Second!Realized, Realized, Second!Clamp, Clamp
<1> DEFINE
    pv     == FilteredPv(raw)
    err    == EffectiveError(NextEffectiveSp(dt) - pv)
    rest   == gains.kp * err + DTerm(pv, dt) + 0
    cand   == IF gains.ki = 0 THEN 0 ELSE gains.ki * (i_acc + err * dt)
    i_term == IF gains.ki = 0 THEN 0 ELSE AntiWindup(cand, rest, applied, dt)
    sum    == IF gains.ki = 0 THEN i_acc ELSE i_term \div gains.ki
<1>9. /\ i_acc' = sum /\ last_pv' = pv /\ skip' = "none"
      /\ applied' = Realized(rest + i_term, applied, dt)
      /\ settings' = settings
    BY Zenon DEF Step
<1>10. 0 * (FfGain * ff) = 0
    OBVIOUS
<1>11. /\ re_i_acc' = sum /\ re_last_pv' = pv /\ re_skip' = "none"
       /\ re_applied' = Realized(rest + i_term, applied, dt)
       /\ re_settings' = re_settings
    <2>1. CASE gains.ki = 0
        BY <1>1, <1>2, <1>3, <1>4, <1>5, <1>8, <1>10, <2>1, Zenon
           DEF ReplayLine, Second!Step
    <2>2. CASE gains.ki # 0
        BY <1>1, <1>2, <1>3, <1>4, <1>5, <1>7, <1>8, <1>10, <2>2, Zenon
           DEF ReplayLine, Second!Step
    <2> QED  BY <2>1, <2>2
<1> QED  BY <1>9, <1>11, Zenon

LEMMA ReplayStep ==
    ASSUME ReplayInv, [ReplayNext]_<<vars, replaying, reVars>>
    PROVE  ReplayInv'
<1>1. ASSUME Forget  PROVE ReplayInv'
    BY <1>1 DEF Forget, ReplayInv
<1>2. ASSUME NEW raw \in RawPvs, NEW dt \in Dts, NEW ff \in Ffs,
             NEW ok \in BOOLEAN, LoggedStep(raw, dt, ff, ok)
      PROVE  ReplayInv'
    <2>1. CASE replaying /\ ok /\ FfGain * ff = 0 /\ SameTracking(dt)
        <3>1. /\ Step(raw, dt, ff, TRUE) /\ ReplayLine(raw, dt, FfGain * ff)
              /\ replaying' = replaying
            <4>1. Step(raw, dt, ff, ok) /\ ok = TRUE
                BY <1>2, <2>1 DEF LoggedStep
            <4> QED  BY <1>2, <2>1, <4>1, Zenon DEF LoggedStep
        <3>2. /\ re_settings' = re_settings /\ settings' = settings
              /\ re_i_acc' = i_acc' /\ re_last_pv' = last_pv'
              /\ re_skip' = skip' /\ re_applied' = applied'
            BY <2>1, <3>1, SameStep, Zenon
        <3> QED  BY <2>1, <3>2, Zenon DEF ReplayInv
    <2>2. CASE ~(replaying /\ ok /\ FfGain * ff = 0 /\ SameTracking(dt))
        BY <1>1, <1>2, <2>2 DEF LoggedStep
    <2> QED  BY <2>1, <2>2
<1>3. CASE Told
    BY <1>3 DEF Told, SetSetpoint, reVars, memory, ReplayInv
<1>4. CASE Untold
    BY <1>1, <1>4 DEF Untold
<1>5. CASE UNCHANGED <<vars, replaying, reVars>>
    BY <1>5 DEF vars, memory, reVars, ReplayInv
<1> QED  BY <1>2, <1>3, <1>4, <1>5 DEF ReplayNext

\* With any gains, limits and time steps, a log that tells everything is
\* replayed to the same integral, filtered PV and CV, step by step, as long as
\* the loop's bound of the tracking time gives the time that replay's gives.
THEOREM ReplayIsFaithful == ReplaySpec => []ReplayFaithful
<1>1. ReplayInit => ReplayInv
    BY DEF ReplayInit, Init, ReplayInv
<1>2. ReplayInv /\ [ReplayNext]_<<vars, replaying, reVars>> => ReplayInv'
    BY ReplayStep
<1>3. ReplayInv => ReplayFaithful
    BY DEF ReplayInv, ReplayFaithful
<1> QED  BY <1>1, <1>2, <1>3, PTL DEF ReplaySpec

\* A controller whose log is replayed is a controller: what is proved above of
\* its calls holds beside a replay.
THEOREM ReplayedIsController == ReplaySpec => Spec
<1>1. ReplayInit => Init
    BY DEF ReplayInit
<1>2. [ReplayNext]_<<vars, replaying, reVars>> => [Next]_vars
    BY DEF ReplayNext, LoggedStep, Told, Untold, Next, Steps
<1> QED  BY <1>1, <1>2, PTL DEF ReplaySpec, Spec
=============================================================================
