---------------------------- MODULE MotionKernel ----------------------------
(* What a control loop promises the supervisor that drives it: it keeps the *)
(* last command and the last external fault it was given, and each cycle    *)
(* steps the state machine on them.  Whether the axis has reached its       *)
(* target is up to the axis, so it is left open here; ControlLoop, which    *)
(* has the trajectory and the servo, implements this specification.         *)
EXTENDS ControllerStateMachine

CONSTANTS
    Command,        \* the commands that callers submit, MotionCommands
    ExternalFault,  \* the external faults that callers report, "none" among them
    FrequencyHz     \* configuration_.frequency_hz, an integer

VARIABLES
    machine,         \* state_machine_
    command,         \* command_
    external_fault,  \* external_fault_
    target_reached   \* status_.target_reached, as the last cycle left it

kernelVars == <<machine, command, external_fault, target_reached>>

TypeOK ==
    /\ machine \in Machine
    /\ command \in Command \cup {InitialCommand}
    /\ external_fault \in FaultCode
    /\ target_reached \in BOOLEAN

Init ==
    /\ machine = PoweredOff
    /\ command = InitialCommand
    /\ external_fault = "none"
    /\ target_reached = FALSE

ValidateCommand(c) ==
    IF ValidProfile(c.target_position_rad, c.max_velocity_rad_s,
                    c.max_acceleration_rad_s2)
    THEN "none" ELSE "invalid_command"

(* An external fault hides an invalid command. *)
DetectedFault(c, external) ==
    IF external # "none" THEN external ELSE ValidateCommand(c)

SetCommand(c) ==
    /\ command' = c
    /\ UNCHANGED <<machine, external_fault, target_reached>>

SetExternalFault(fault) ==
    /\ external_fault' = fault
    /\ UNCHANGED <<machine, command, target_reached>>

(* One cycle under a command and an external fault: step(), and whatever    *)
(* the thread that calls it sets just before.  target_reached is the        *)
(* verdict of the previous cycle, on the command then in force.             *)
Cycle(c, fault) ==
    /\ command' = c
    /\ external_fault' = fault
    /\ machine' = Update(machine, c, target_reached, DetectedFault(c, fault))
    /\ target_reached' \in BOOLEAN

Step == Cycle(command, external_fault)

(* run_for with a frequency that is not positive refuses to run. *)
RejectRun ==
    /\ FrequencyHz <= 0
    /\ machine' = ForceFault(machine, "invalid_command")
    /\ UNCHANGED <<command, external_fault, target_reached>>

Next ==
    \/ \E c \in Command : SetCommand(c)
    \/ \E fault \in ExternalFault : SetExternalFault(fault)
    \/ Step
    \/ RejectRun

Spec == Init /\ [][Next]_kernelVars

=============================================================================
