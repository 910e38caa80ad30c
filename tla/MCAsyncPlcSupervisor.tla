----------------------- MODULE MCAsyncPlcSupervisor -------------------------
(* AsyncPlcSupervisor for TLC. *)
EXTENDS AsyncPlcSupervisor

Word(bits) ==
    [control_word |-> bits, target_position_rad |-> 0,
     max_velocity_rad_s |-> 1, max_acceleration_rad_s2 |-> 1]

Go == Word(32 + 1 + 2)             \* power, enable, start
Reset == Word(32 + 8)              \* power, reset
Halt == Word(32 + 16 + 8 + 1 + 2)  \* power, emergency stop; reset, enable, start
Resume == Word(32 + 8 + 1 + 2)     \* power, reset, enable, start

MCPosition == {0}
MCRate == {1}
GoOrReset == {Go, Reset}
HaltOrResume == {Halt, Resume}
MCCommandData == {WithHeartbeat(offer, h) : offer \in Offer, h \in Heartbeat}

(* The command path does not depend on what the status says. *)
AnyStatus(status) == "status"
AnyStatusData == {"status"}

=============================================================================
