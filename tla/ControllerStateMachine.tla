----------------------- MODULE ControllerStateMachine -----------------------
(* The controller state machine as a function: one control cycle maps a     *)
(* machine, i.e. the pair of state_ and fault_, to the next machine.        *)
EXTENDS MotionTypes

Machine == [state : ControllerState, fault : FaultCode]

PoweredOff == [state |-> "power_off", fault |-> "none"]
Disabled == [state |-> "disabled", fault |-> "none"]

(* The states that only a reset or a loss of power leaves. *)
LatchedState == {"fault", "emergency_stop"}

ForceFault(m, fault) ==
    IF fault = "none" THEN m ELSE [state |-> "fault", fault |-> fault]

(* A defect: enable is looked at on the way up only. *)
SequenceWithoutEnable(state, c, target_reached) ==
    CASE state = "power_off" -> "disabled"
      [] state \in {"disabled", "stopping"} ->
            IF c.enable THEN "ready" ELSE "disabled"
      [] state = "ready" -> IF c.start THEN "running" ELSE "ready"
      [] state = "running" ->
            IF c.stop THEN "stopping"
            ELSE IF target_reached THEN "ready" ELSE "running"

(* The sequencing of a machine that nothing overrides: no power loss, no    *)
(* emergency stop, no detected or latched fault.  The stop bit is not       *)
(* looked at in "ready", and "stopping" lasts one cycle.                    *)
Sequence(state, c, target_reached) ==
    CASE state = "power_off" -> "disabled"
      [] state \in {"disabled", "stopping"} ->
            IF c.enable THEN "ready" ELSE "disabled"
      [] state \in {"ready", "running"} /\ ~c.enable -> "disabled"
      [] state = "ready" /\ c.enable -> IF c.start THEN "running" ELSE "ready"
      [] state = "running" /\ c.enable ->
            IF c.stop THEN "stopping"
            ELSE IF target_reached THEN "ready" ELSE "running"

EmergencyStopped(m) == [m EXCEPT !.state = "emergency_stop"]

(* A defect: a reset forgets to clear the fault code. *)
ReleasedKeepingTheCode(m, c) ==
    IF c.reset_fault THEN [m EXCEPT !.state = "disabled"] ELSE m

(* A latched machine that nothing holds there any longer. *)
Released(m, c) == IF c.reset_fault THEN Disabled ELSE m

(* A defect: a reset is tried before the emergency stop and the fault.      *)
UpdateResettingFirst(m, c, target_reached, detected_fault) ==
    IF ~c.power_available THEN PoweredOff
    ELSE IF m.state \in LatchedState /\ c.reset_fault THEN Disabled
    ELSE IF c.emergency_stop THEN EmergencyStopped(m)
    ELSE IF detected_fault # "none" THEN ForceFault(m, detected_fault)
    ELSE IF m.state \in LatchedState THEN m
    ELSE [m EXCEPT !.state = Sequence(m.state, c, target_reached)]

(* ControllerStateMachine::update.  The order of the tests is the order of  *)
(* precedence: power, emergency stop, a fault detected in this cycle, the   *)
(* latched states, the sequence.                                            *)
Update(m, c, target_reached, detected_fault) ==
    IF ~c.power_available THEN PoweredOff
    ELSE IF c.emergency_stop THEN EmergencyStopped(m)
    ELSE IF detected_fault # "none" THEN ForceFault(m, detected_fault)
    ELSE IF m.state \in LatchedState THEN Released(m, c)
    ELSE [m EXCEPT !.state = Sequence(m.state, c, target_reached)]

=============================================================================
