--------------------------- MODULE MCControlLoop ----------------------------
(* ControlLoop for TLC: three positions, one strictly between the others,   *)
(* and a command for each combination of bits that some branch of the code  *)
(* tells apart from the others.                                             *)
EXTENDS ControlLoop

MCPosition == 0 .. 2
MCRate == {0, 1}

(* A command is named by the bits it sets. *)
Bits(bits, target, velocity, acceleration) ==
    [power_available |-> "power" \in bits, enable |-> "enable" \in bits,
     start |-> "start" \in bits, stop |-> "stop" \in bits,
     reset_fault |-> "reset" \in bits, emergency_stop |-> "estop" \in bits,
     target_position_rad |-> target, max_velocity_rad_s |-> velocity,
     max_acceleration_rad_s2 |-> acceleration]

Go == {"power", "enable", "start"}

MCCommand ==
    {Bits(bits \cup more, 1, 1, 1) :
        bits \in {{"power"}, {"power", "enable"}, Go, {"power", "start"}},
        more \in SUBSET {"reset"}}
    \cup {Bits(Go \cup more, 1, 1, 1) : more \in {{"stop"}, {"estop", "reset"}}}
    \cup {Bits(Go, 0, 1, 1), Bits({}, 1, 1, 1),
          Bits({"enable", "start", "reset", "estop"}, 1, 1, 1)}
    \cup {Bits(Go, NonFinite, 1, 1), Bits(Go \cup {"reset"}, 1, 0, 1),
          Bits(Go, 1, 1, NonFinite)}

MCExternalFault == {"none", "communication_timeout"}

=============================================================================
