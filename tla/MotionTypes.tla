---------------------------- MODULE MotionTypes ----------------------------
(* The vocabulary every component shares: the controller's states, its      *)
(* fault codes and the motion command.                                      *)
(*                                                                          *)
(* Physical quantities are integers in units of a caller's choice.  A       *)
(* double that is infinite or not a number is the one value NonFinite:      *)
(* std::isfinite is the only question the program asks of it.               *)
EXTENDS Integers

CONSTANTS
    Position,   \* the finite joint positions considered
    Rate,       \* the finite velocity and acceleration limits considered
    NonFinite   \* an infinity or a NaN

(* 0 and 1 stand for the defaults of a command: target 0.0 rad and positive *)
(* limits.                                                                  *)
ASSUME PositionAssumption == Position \subseteq Int /\ 0 \in Position
ASSUME RateAssumption == Rate \subseteq Int /\ 1 \in Rate
ASSUME NonFiniteAssumption == NonFinite \notin Int

ControllerState ==
    {"power_off", "disabled", "ready", "running", "stopping", "fault",
     "emergency_stop"}

FaultCode ==
    {"none", "communication_timeout", "position_limit_exceeded",
     "velocity_limit_exceeded", "following_error_exceeded",
     "control_loop_overrun", "invalid_command"}

MotionCommand ==
    [power_available : BOOLEAN, enable : BOOLEAN, start : BOOLEAN,
     stop : BOOLEAN, reset_fault : BOOLEAN, emergency_stop : BOOLEAN,
     target_position_rad : Position \cup {NonFinite},
     max_velocity_rad_s : Rate \cup {NonFinite},
     max_acceleration_rad_s2 : Rate \cup {NonFinite}]

(* A default-constructed command: power, and nothing asked for. *)
InitialCommand ==
    [power_available |-> TRUE, enable |-> FALSE, start |-> FALSE,
     stop |-> FALSE, reset_fault |-> FALSE, emergency_stop |-> FALSE,
     target_position_rad |-> 0, max_velocity_rad_s |-> 1,
     max_acceleration_rad_s2 |-> 1]

(* The program holds this test twice, in ControlLoop and in the trajectory: *)
(* three finite numbers, the two limits positive.                           *)
ValidProfile(target, max_velocity, max_acceleration) ==
    /\ NonFinite \notin {target, max_velocity, max_acceleration}
    /\ max_velocity > 0
    /\ max_acceleration > 0

=============================================================================
