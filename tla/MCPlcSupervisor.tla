-------------------------- MODULE MCPlcSupervisor ---------------------------
(* PlcSupervisor for TLC. *)
EXTENDS PlcSupervisor

Word(bits) ==
    [control_word |-> bits, target_position_rad |-> 0,
     max_velocity_rad_s |-> 1, max_acceleration_rad_s2 |-> 1]

MCPosition == {0}
MCRate == {0, 1}
MCOffer ==
    {Word(32), Word(32 + 1), Word(32 + 1 + 2), Word(32 + 8), Word(32 + 16),
     Word(1 + 2), Word(32 + 1 + 2 + 4),
     [Word(32 + 1 + 2) EXCEPT !.max_velocity_rad_s = 0]}

=============================================================================
