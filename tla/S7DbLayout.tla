----------------------------- MODULE S7DbLayout ------------------------------
(* The data block that is shared with a Siemens PLC, byte by byte.  A byte  *)
(* is a digit to a base; the code's base is 256.  A double is the number    *)
(* that its 64 bits make, since the code moves those bits unchanged.        *)
EXTENDS Integers

CONSTANT Base   \* values of a byte

ASSUME BaseAssumption == Base \in Nat /\ Base > 1

command_offset == 0
command_size == 30
status_offset == 30
status_size == 32
total_size == command_size + status_size

(* The first byte counts most. *)
ReadU16(bytes, offset) == bytes[offset] * Base + bytes[offset + 1]

ReadU32(bytes, offset) ==
    (ReadU16(bytes, offset) * Base + bytes[offset + 2]) * Base + bytes[offset + 3]

ReadF64(bytes, offset) ==
    (((ReadU32(bytes, offset) * Base + bytes[offset + 4]) * Base
      + bytes[offset + 5]) * Base + bytes[offset + 6]) * Base + bytes[offset + 7]

ReadNumber(bytes, offset, width) ==
    CASE width = 2 -> ReadU16(bytes, offset)
      [] width = 4 -> ReadU32(bytes, offset)
      [] width = 8 -> ReadF64(bytes, offset)

(* The number, and what is left of it after one to seven shifts by a byte.  *)
Shifted(number) ==
    LET shift1 == number \div Base
        shift2 == shift1 \div Base
        shift3 == shift2 \div Base
        shift4 == shift3 \div Base
        shift5 == shift4 \div Base
        shift6 == shift5 \div Base
    IN <<number, shift1, shift2, shift3, shift4, shift5, shift6, shift6 \div Base>>

(* The byte at a place of a number that is "width" bytes wide, as write_u16,*)
(* write_u32 and write_f64 put it there.                                    *)
ByteOf(number, width, place) == Shifted(number)[width - place] % Base

(* The numbers that two, four and eight bytes hold. *)
U16 == {n \in Nat : Shifted(n)[2] < Base}
U32 == {n \in Nat : Shifted(n)[4] < Base}
F64 == {n \in Nat : Shifted(n)[8] < Base}

PlcCommandData ==
    [control_word : U16, target_position_rad : F64, max_velocity_rad_s : F64,
     max_acceleration_rad_s2 : F64, heartbeat : U32]

PlcStatusData ==
    [status_word : U16, actual_position_rad : F64, actual_velocity_rad_s : F64,
     following_error_rad : F64, fault_code : U16, controller_heartbeat : U32]

Field(offset, width) == [offset |-> offset, width |-> width]

(* A defect: the heartbeat is looked for in two of its bytes.               *)
CommandFieldsShort ==
    [control_word |-> Field(0, 2), target_position_rad |-> Field(2, 8),
     max_velocity_rad_s |-> Field(10, 8),
     max_acceleration_rad_s2 |-> Field(18, 8), heartbeat |-> Field(26, 2)]

CommandFields ==
    [control_word |-> Field(0, 2), target_position_rad |-> Field(2, 8),
     max_velocity_rad_s |-> Field(10, 8),
     max_acceleration_rad_s2 |-> Field(18, 8), heartbeat |-> Field(26, 4)]

StatusFields ==
    [status_word |-> Field(0, 2), actual_position_rad |-> Field(2, 8),
     actual_velocity_rad_s |-> Field(10, 8),
     following_error_rad |-> Field(18, 8), fault_code |-> Field(26, 2),
     controller_heartbeat |-> Field(28, 4)]

DecodeCommand(bytes) ==
    [f \in DOMAIN CommandFields |->
        ReadNumber(bytes, CommandFields[f].offset, CommandFields[f].width)]

(* A defect: numbers go out in the order of a little-endian machine.        *)
EncodeStatusReversed(status) ==
    [i \in 0 .. status_size - 1 |->
        LET f == CHOOSE f \in DOMAIN StatusFields :
                     i - StatusFields[f].offset \in 0 .. StatusFields[f].width - 1
        IN ByteOf(status[f], StatusFields[f].width,
                  StatusFields[f].width - 1 - (i - StatusFields[f].offset))]

(* The fields cover the buffer. *)
EncodeStatus(status) ==
    [i \in 0 .. status_size - 1 |->
        LET f == CHOOSE f \in DOMAIN StatusFields :
                     i - StatusFields[f].offset \in 0 .. StatusFields[f].width - 1
        IN ByteOf(status[f], StatusFields[f].width, i - StatusFields[f].offset)]

=============================================================================
