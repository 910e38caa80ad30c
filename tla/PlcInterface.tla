--------------------------- MODULE PlcInterface -----------------------------
(* The data exchanged with a PLC and its two translations: a control word   *)
(* into a motion command, a controller status into a status word.  The two  *)
(* words are sixteen-bit integers; their other bits are spare.              *)
EXTENDS MotionTypes

(* plc_control_bit and plc_status_bit *)
ControlBit ==
    [enable |-> 1, start |-> 2, stop |-> 4, reset_fault |-> 8,
     emergency_stop |-> 16, power_available |-> 32]
StatusBit ==
    [ready |-> 1, running |-> 2, fault |-> 4, emergency_stop |-> 8,
     target_reached |-> 16]

(* A PlcCommandData but for its heartbeat. *)
ControlWord == 0 .. 65535

PlcWords ==
    [control_word : ControlWord,
     target_position_rad : Position \cup {NonFinite},
     max_velocity_rad_s : Rate \cup {NonFinite},
     max_acceleration_rad_s2 : Rate \cup {NonFinite}]

FaultNumber ==
    [none |-> 0, communication_timeout |-> 1001,
     position_limit_exceeded |-> 1002, velocity_limit_exceeded |-> 1003,
     following_error_exceeded |-> 1004, control_loop_overrun |-> 1005,
     invalid_command |-> 1006]

BitIsSet(word, bit) == (word \div bit) % 2 = 1

DecodePlcCommand(data) ==
    [power_available |-> BitIsSet(data.control_word, ControlBit.power_available),
     enable |-> BitIsSet(data.control_word, ControlBit.enable),
     start |-> BitIsSet(data.control_word, ControlBit.start),
     stop |-> BitIsSet(data.control_word, ControlBit.stop),
     reset_fault |-> BitIsSet(data.control_word, ControlBit.reset_fault),
     emergency_stop |-> BitIsSet(data.control_word, ControlBit.emergency_stop),
     target_position_rad |-> data.target_position_rad,
     max_velocity_rad_s |-> data.max_velocity_rad_s,
     max_acceleration_rad_s2 |-> data.max_acceleration_rad_s2]

(* A defect: the bits of "fault" and "emergency_stop" are swapped. *)
StateBitSwapped(state) ==
    CASE state = "ready" -> StatusBit.ready
      [] state = "running" -> StatusBit.running
      [] state = "fault" -> StatusBit.emergency_stop
      [] state = "emergency_stop" -> StatusBit.fault
      [] OTHER -> 0

(* "power_off", "disabled" and "stopping" have no bit of their own.         *)
StateBit(state) == IF state \in DOMAIN StatusBit THEN StatusBit[state] ELSE 0

EncodePlcStatus(machine, target_reached) ==
    [status_word |-> StateBit(machine.state)
                     + (IF target_reached THEN StatusBit.target_reached ELSE 0),
     fault_code |-> FaultNumber[machine.fault]]

=============================================================================
