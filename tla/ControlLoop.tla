---------------------------- MODULE ControlLoop -----------------------------
(* The 1 kHz control loop: the state machine, the trajectory, the PID       *)
(* controller and the simulated servo, stepped together once per cycle.     *)
(*                                                                          *)
(* Positions are integers.  A reference moves monotonically from its start  *)
(* to its target at a pace left open, and the servo answers a torque in any *)
(* way; what a cycle decides, and in which order, is the code's.  The time  *)
(* step is the positive constant that every caller passes.                  *)
EXTENDS ControllerStateMachine, OpenTrajectory

CONSTANTS
    Command,            \* the commands that callers submit
    ExternalFault,      \* the external faults that callers report
    FrequencyHz,        \* configuration_.frequency_hz
    PositionTolerance   \* configuration_.position_tolerance_rad

ASSUME CommandAssumption == Command \subseteq MotionCommand
ASSUME ExternalFaultAssumption ==
    ExternalFault \subseteq FaultCode /\ "none" \in ExternalFault
ASSUME FrequencyAssumption == FrequencyHz \in Int
ASSUME ToleranceAssumption == PositionTolerance \in Nat

VARIABLES
    machine,             \* state_machine_
    command,             \* command_
    external_fault,      \* external_fault_
    motion_initialized,  \* motion_initialized_
    trajectory,          \* trajectory_: reference, target and active_
    controller,          \* controller_: the targets its memory stems from
    servo,               \* plant_.state()
    status               \* the fields of status_ that later cycles depend on

vars == <<machine, command, external_fault, motion_initialized, trajectory,
          controller, servo, status>>

Kernel == INSTANCE MotionKernel WITH target_reached <- status.target_reached

Torque == {"zero", "nonzero"}
(* Exactly at rest; within the velocity tolerance; faster than it. *)
Speed == {"rest", "settled", "moving"}

TypeOK ==
    /\ machine \in Machine
    /\ command \in Command \cup {InitialCommand}
    /\ external_fault \in FaultCode
    /\ motion_initialized \in BOOLEAN
    /\ trajectory \in [reference : Position, target : Position, active : BOOLEAN]
    /\ controller \subseteq Position
    /\ servo \in [position : Position, speed : Speed, torque : Torque]
    /\ status \in [state : ControllerState, fault : FaultCode,
                   target_reached : BOOLEAN]

-----------------------------------------------------------------------------
(* ServoPlant: at rest and without torque it stays where it is. *)
PlantUpdate(s, torque) ==
    IF s.speed = "rest" /\ torque = "zero"
    THEN {[s EXCEPT !.torque = torque]}
    ELSE [position : Position, speed : Speed, torque : {torque}]

-----------------------------------------------------------------------------
(* The axis starts anywhere, at rest, unpowered, with a default command. *)
Init ==
    /\ machine = PoweredOff
    /\ command = InitialCommand
    /\ external_fault = "none"
    /\ motion_initialized = FALSE
    /\ controller = {}
    /\ servo \in [position : Position, speed : {"rest"}, torque : {"zero"}]
    /\ trajectory = TrajectoryReset(servo.position)
    /\ status = [state |-> "power_off", fault |-> "none",
                 target_reached |-> FALSE]

SetCommand(c) ==
    /\ command' = c
    /\ UNCHANGED <<machine, external_fault, motion_initialized, trajectory,
                   controller, servo, status>>

SetExternalFault(fault) ==
    /\ external_fault' = fault
    /\ UNCHANGED <<machine, command, motion_initialized, trajectory,
                   controller, servo, status>>

(* A defect: an invalid command hides the external fault. *)
UpdatedOnValidationFirst ==
    Update(machine, command, status.target_reached,
           IF Kernel!ValidateCommand(command) # "none"
           THEN Kernel!ValidateCommand(command) ELSE external_fault)

(* The machine after this cycle's update.  The verdict on the target is the *)
(* one the previous cycle reached, on the command then in force.            *)
Updated ==
    Update(machine, command, status.target_reached,
           Kernel!DetectedFault(command, external_fault))

(* A defect: a command with a new target begins a new motion. *)
StartingOnNewTarget ==
    /\ Updated.state = "running"
    /\ \/ machine.state # "running" \/ ~motion_initialized
       \/ command.target_position_rad # trajectory.target

(* This cycle begins a motion. *)
Starting ==
    /\ Updated.state = "running"
    /\ machine.state # "running" \/ ~motion_initialized

AcceptsTarget ==
    ValidProfile(command.target_position_rad, command.max_velocity_rad_s,
                 command.max_acceleration_rad_s2)

(* The machine once a motion that begins has handed its target over. *)
Stepped ==
    IF Starting /\ ~AcceptsTarget
    THEN ForceFault(Updated, "invalid_command") ELSE Updated

(* A defect: a motion begins where the last reference was left. *)
PreparedWithoutReset ==
    IF Starting /\ AcceptsTarget
    THEN SetTarget(trajectory, command.target_position_rad) ELSE trajectory

(* The trajectory once a motion that begins has set it up. *)
Prepared ==
    IF ~Starting THEN trajectory
    ELSE IF AcceptsTarget
         THEN SetTarget(TrajectoryReset(servo.position),
                        command.target_position_rad)
         ELSE TrajectoryReset(servo.position)

(* Two defects: passing the target counts as having reached it; the edge of *)
(* the tolerance does not.                                                  *)
AtTargetInPassing(c, s) ==
    /\ c.target_position_rad # NonFinite
    /\ c.target_position_rad - s.position <= PositionTolerance
    /\ s.position - c.target_position_rad <= PositionTolerance

AtTargetInside(c, s) ==
    /\ c.target_position_rad # NonFinite
    /\ c.target_position_rad - s.position < PositionTolerance
    /\ s.position - c.target_position_rad < PositionTolerance
    /\ s.speed # "moving"

AtTarget(c, s) ==
    /\ c.target_position_rad # NonFinite
    /\ c.target_position_rad - s.position <= PositionTolerance
    /\ s.position - c.target_position_rad <= PositionTolerance
    /\ s.speed # "moving"

Running == Stepped.state = "running"

(* A defect: the PID controller is never reset. *)
ControlledWithoutReset ==
    IF ~Running THEN controller ELSE controller \cup {Prepared.target}

(* PidController: an update adds the error of this motion to the integral   *)
(* and the derivative, a reset forgets them.                                *)
Controlled ==
    IF ~Running THEN {}
    ELSE (IF Starting THEN {} ELSE controller) \cup {Prepared.target}

(* The command that a PID update gives is any torque. *)
TorqueCommand == IF Running THEN Torque ELSE {"zero"}

Step ==
    /\ machine' = Stepped
    /\ motion_initialized' = (Running /\ (Starting \/ motion_initialized))
    /\ controller' = Controlled
    /\ trajectory' \in IF Running THEN TrajectoryUpdate(Prepared) ELSE {Prepared}
    /\ \E torque \in TorqueCommand : servo' \in PlantUpdate(servo, torque)
    /\ status' = [state |-> Stepped.state, fault |-> Stepped.fault,
                  target_reached |-> ~trajectory'.active /\ AtTarget(command, servo')]
    /\ UNCHANGED <<command, external_fault>>

(* run_for with a frequency that is not positive forces a fault and returns *)
(* without a cycle, so without taking the torque away.                      *)
RejectRun ==
    /\ FrequencyHz <= 0
    /\ machine' = ForceFault(machine, "invalid_command")
    /\ status' = [status EXCEPT !.state = machine'.state, !.fault = machine'.fault]
    /\ UNCHANGED <<command, external_fault, motion_initialized, trajectory,
                   controller, servo>>

Next ==
    \/ \E c \in Command : SetCommand(c)
    \/ \E fault \in ExternalFault : SetExternalFault(fault)
    \/ Step
    \/ RejectRun

Spec == Init /\ [][Next]_vars

(* Cycles go on, and every update of a trajectory brings it nearer to the   *)
(* end of its finite total time.                                            *)
FairSpec ==
    /\ Spec
    /\ WF_vars(Step)
    /\ WF_vars(Step /\ trajectory.active /\ ~trajectory'.active)

-----------------------------------------------------------------------------
(* A fault code is held exactly as long as the machine is latched: "fault"  *)
(* always names its cause, and no code is left behind by a reset or a power *)
(* loss for a later fault to be blamed on.  (controller_state_machine.cpp   *)
(* writes state_ and fault_ in separate places.)                            *)
FaultConsistent ==
    /\ machine.state = "fault" => machine.fault # "none"
    /\ machine.fault # "none" => machine.state \in LatchedState

(* A running axis has had its motion set up, and the integral and the       *)
(* derivative of the PID controller stem from that one motion: nothing      *)
(* winds up across a stop, a fault or a new target.                         *)
MotionSetUp ==
    /\ machine.state = "running" => motion_initialized
    /\ controller \subseteq {trajectory.target}

(* A cycle commands torque only when its command has power and enable and   *)
(* no emergency stop, no fault is latched or detected, and it is not a      *)
(* running axis that is told to stop.                                       *)
MayApplyTorque ==
    /\ command.power_available
    /\ command.enable
    /\ ~command.emergency_stop
    /\ external_fault = "none"
    /\ AcceptsTarget
    /\ machine.state \notin LatchedState
    /\ machine.state = "running" => ~command.stop

TorqueNeedsPermission ==
    [][Step /\ servo'.torque # "zero" => MayApplyTorque]_vars

(* "Latched": the machine leaves "fault" and "emergency_stop" only when     *)
(* power is lost, or by a reset in a cycle without emergency stop or fault. *)
Cleared ==
    \/ ~command.power_available
    \/ /\ command.reset_fault
       /\ ~command.emergency_stop
       /\ external_fault = "none"
       /\ AcceptsTarget

LatchHolds ==
    [][machine.state \in LatchedState /\ machine'.state \notin LatchedState
         => Cleared]_vars

(* The cause of a fault survives everything, an emergency stop included,    *)
(* but a clearance and a newly detected fault.                              *)
FaultCodeKept ==
    [][machine.fault \notin {"none", machine'.fault}
         => \/ Cleared
            \/ external_fault # "none"
            \/ ~AcceptsTarget
            \/ RejectRun]_vars

(* A running motion keeps the target it began with, whatever commands come  *)
(* in meanwhile: commands that change the target take effect at the next    *)
(* start only.                                                              *)
TargetPinned ==
    [][machine.state = "running" /\ machine'.state = "running"
         => trajectory'.target = trajectory.target]_vars

(* The reference the PID controller follows never jumps: a motion begins at *)
(* the servo's actual position, and every cycle moves the reference towards *)
(* the target of its motion.                                                *)
NoReferenceJump ==
    [][machine'.state = "running" /\ Step
         => trajectory'.reference \in
              Between(IF machine.state = "running" THEN trajectory.reference
                      ELSE servo.position,
                      trajectory'.target)]_vars

(* validate_command and set_target test the same things: no motion that the *)
(* machine has started is refused by the trajectory.                        *)
NoLateRefusal == [][Step /\ Starting => machine'.state = "running"]_vars

(* An axis goes from "running" to "ready" of its own accord only once its   *)
(* profile has ended and the servo has settled, although the verdict is one *)
(* cycle old and the command may have been replaced since.                  *)
CompletesAtProfileEnd ==
    [][machine.state = "running" /\ machine'.state = "ready"
         => /\ trajectory.reference = trajectory.target
            /\ servo.speed # "moving"]_vars

(* Nothing keeps the axis from its target: the command lets it run and      *)
(* still names the target that its motion began with, and the servo, once   *)
(* the profile has ended, settles within the tolerance of it.               *)
Undisturbed ==
    /\ command.power_available /\ command.enable
    /\ ~command.stop /\ ~command.emergency_stop
    /\ external_fault = "none"
    /\ AcceptsTarget
    /\ command.target_position_rad = trajectory.target

Settled ==
    /\ servo.speed # "moving"
    /\ servo.position - trajectory.target \in -PositionTolerance .. PositionTolerance

(* Such an axis leaves "running".  It would not if the command named        *)
(* another target by then: the motion does not follow it, and the verdict   *)
(* compares the servo with it.                                              *)
Arrives ==
    <>[](Undisturbed /\ (trajectory.active \/ Settled))
      => []<>(machine.state # "running")

(* The loop does what the supervisors rely on. *)
ImplementsKernel == Kernel!Spec

=============================================================================
