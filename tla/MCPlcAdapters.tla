---------------------------- MODULE MCPlcAdapters ----------------------------
(* PlcAdapters for TLC. *)
EXTENDS PlcAdapters

(* Numbers that read otherwise in any other order of their bytes, and zero. *)
MCS7Command ==
    {[control_word |-> 6 + n, target_position_rad |-> n * 27000,
      max_velocity_rad_s |-> n * 4321, max_acceleration_rad_s2 |-> n * 1234,
      heartbeat |-> 27 + n] : n \in 0 .. 2}

MCS7Status ==
    {[status_word |-> 6 + n, actual_position_rad |-> n * 27000,
      actual_velocity_rad_s |-> n * 4321, following_error_rad |-> n * 1234,
      fault_code |-> 3 * n, controller_heartbeat |-> 27 + n] : n \in 0 .. 2}

=============================================================================
