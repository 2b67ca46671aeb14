-------------------------- MODULE MCPidController --------------------------
(* Values for the model checking of PidController. *)
EXTENDS Replay

\* The tracking times of the last are two for a loop and three for replay.
mcGains == {[kp |-> 1, ki |-> 0, kd |-> 0], [kp |-> 0, ki |-> 1, kd |-> 4],
            [kp |-> 3, ki |-> 1, kd |-> 0]}

mcSettings ==
    {[deadband |-> 2, setpoint_ramp |-> 1, slew_rate |-> 1,
      anti_windup |-> "back_calc", pv_filter |-> 0],
     [deadband |-> 0, setpoint_ramp |-> None, slew_rate |-> 1,
      anti_windup |-> "clamp", pv_filter |-> 1],
     Defaults}
=============================================================================
