---------------------------- MODULE MCControlRun -----------------------------
(* ControlRun for TLC: a target away from the start and the start itself, a *)
(* run shorter than a cycle and one of four, cycles that overrun the period *)
(* by themselves or together with their callback; a velocity and a          *)
(* frequency that are refused, wrong arguments and --help.                  *)
EXTENDS ControlRun

MCPosition == {0, 2, 3}
MCRate == {0, 1}

MCOptionSet ==
    [target : {0, 2}, max_velocity : {0, 1}, max_acceleration : {1},
     duration : {2, 16}, frequency : {0, 1}, fast : BOOLEAN, csv : BOOLEAN,
     read_to : {"end", "error", "help"}]

MCCommand == Commands
MCExternalFault == {"none"}

=============================================================================
