----------------------------- MODULE MCPlcDemo ------------------------------
(* PlcDemo for TLC, with the periods of the program. *)
EXTENDS PlcDemo

MCPosition == {0, 2}
MCRate == {1}
MCOffer ==
    {[control_word |-> Word(n), target_position_rad |-> 2,
      max_velocity_rad_s |-> 1, max_acceleration_rad_s2 |-> 1] :
        n \in {0, 20, 60, 1300}}
MCHeartbeat == 1 .. 200

=============================================================================
