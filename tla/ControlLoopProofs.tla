------------------------- MODULE ControlLoopProofs --------------------------
(* Theorems about ControlLoop, for every set of positions, limits and       *)
(* commands and every tolerance and frequency, and about the program that   *)
(* drives it, for every command line and every timing of its cycles.        *)
EXTENDS ControlRun, ControllerStateMachineProofs

USE DEF vars

(* Commands are commands, the one the loop is built with included.          *)
LEMMA CommandType == Command \cup {InitialCommand} \subseteq MotionCommand
<1>1. InitialCommand \in MotionCommand
  BY PositionAssumption, RateAssumption DEF InitialCommand, MotionCommand
<1>. QED
  BY <1>1, CommandAssumption

(* What validation and the callers report is a fault code, for any command. *)
LEMMA DetectedType ==
    ASSUME NEW c, NEW external \in FaultCode
    PROVE  Kernel!DetectedFault(c, external) \in FaultCode
BY DEF Kernel!DetectedFault, Kernel!ValidateCommand, FaultCode

(* The machine a cycle arrives at is a machine. *)
LEMMA UpdatedType == TypeOK => Updated \in Machine
<1>. SUFFICES ASSUME TypeOK PROVE Updated \in Machine
  OBVIOUS
<1>1. command \in MotionCommand /\ machine \in Machine /\ external_fault \in FaultCode
      /\ status.target_reached \in BOOLEAN
  BY CommandType DEF TypeOK
<1>2. Kernel!DetectedFault(command, external_fault) \in FaultCode
  BY <1>1, DetectedType
<1>. QED
  BY <1>1, <1>2, UpdateType DEF Updated

(* validate_command stands before set_target: a cycle whose update ends in  *)
(* "running" has every permission that torque needs, a valid profile among  *)
(* them, so set_target accepts it and nothing takes "running" back.         *)
LEMMA RunningIsPermitted ==
    ASSUME TypeOK, Updated.state = "running"
    PROVE  MayApplyTorque
<1>1. command \in MotionCommand /\ machine \in Machine /\ external_fault \in FaultCode
      /\ status.target_reached \in BOOLEAN
  BY CommandType DEF TypeOK
<1>2. Kernel!DetectedFault(command, external_fault) \in FaultCode
  BY <1>1, DetectedType
<1>3. /\ command.power_available
      /\ command.enable
      /\ ~command.emergency_stop
      /\ Kernel!DetectedFault(command, external_fault) = "none"
      /\ machine.state \notin LatchedState
      /\ machine.state = "running" => ~command.stop
  BY <1>1, <1>2, UpdateRunning DEF Updated
<1>4. external_fault = "none" /\ AcceptsTarget
  BY <1>3 DEF Kernel!DetectedFault, Kernel!ValidateCommand,
              Kernel!ValidProfile, ValidProfile, AcceptsTarget
<1>. QED
  BY <1>3, <1>4 DEF MayApplyTorque

(* set_target never refuses, so the cycle ends with the machine that update *)
(* left: the second force_fault of step is never reached.                   *)
LEMMA SteppedIsUpdated == TypeOK => Stepped = Updated
BY RunningIsPermitted DEF Stepped, Starting, MayApplyTorque

-----------------------------------------------------------------------------
(* The inductive invariant.  FaultConsistent needs no help; MotionSetUp     *)
(* does not either once the types are known.                                *)
IInv == TypeOK /\ FaultConsistent /\ MotionSetUp

(* A loop that was just constructed: powered off, at rest, without a        *)
(* motion.                                                                  *)
LEMMA InitIInv == Init => IInv
<1>. SUFFICES ASSUME Init PROVE IInv
  OBVIOUS
<1>1. TypeOK
  BY DEF Init, TypeOK, Machine, PoweredOff, ControllerState, FaultCode, Speed,
         Torque, TrajectoryReset
<1>2. FaultConsistent /\ MotionSetUp
  BY DEF Init, FaultConsistent, MotionSetUp, PoweredOff
<1>. QED
  BY <1>1, <1>2 DEF IInv

(* What a cycle hands to the trajectory lies in the trajectory's type.      *)
LEMMA PreparedType ==
    ASSUME TypeOK
    PROVE  Prepared \in [reference : Position, target : Position, active : BOOLEAN]
<1>1. CASE ~Starting
  BY <1>1 DEF Prepared, TypeOK
<1>2. CASE Starting
  <2>1. AcceptsTarget
    BY <1>2, RunningIsPermitted DEF Starting, MayApplyTorque
  <2>2. command \in MotionCommand
    BY CommandType DEF TypeOK
  <2>3. command.target_position_rad \in Position
    BY <2>1, <2>2 DEF AcceptsTarget, ValidProfile, MotionCommand
  <2>4. servo.position \in Position
    BY DEF TypeOK
  <2>. QED
    BY <1>2, <2>1, <2>3, <2>4 DEF Prepared, SetTarget, TrajectoryReset
<1>. QED
  BY <1>1, <1>2

(* A cycle keeps the types. *)
LEMMA StepTypeOK == TypeOK /\ Step => TypeOK'
<1>. SUFFICES ASSUME TypeOK, Step PROVE TypeOK'
  OBVIOUS
<1>1. machine' \in Machine
  BY UpdatedType, SteppedIsUpdated DEF Step
<1>2. command' \in Command \cup {InitialCommand} /\ external_fault' \in FaultCode
  BY DEF TypeOK, Step
<1>3. motion_initialized' \in BOOLEAN
  BY DEF Step
<1>4. controller' \subseteq Position
  <2>1. Prepared.target \in Position /\ controller \subseteq Position
    BY PreparedType DEF TypeOK
  <2>. QED
    BY <2>1 DEF Step, Controlled
<1>5. trajectory' \in [reference : Position, target : Position, active : BOOLEAN]
  <2>1. trajectory' \in TrajectoryUpdate(Prepared) \/ trajectory' = Prepared
    BY DEF Step
  <2>2. Between(Prepared.reference, Prepared.target) \subseteq Position
    BY DEF Between
  <2>. QED
    BY <2>1, <2>2, PreparedType DEF TrajectoryUpdate
<1>6. servo' \in [position : Position, speed : Speed, torque : Torque]
  <2>1. PICK torque \in TorqueCommand : servo' \in PlantUpdate(servo, torque)
    BY DEF Step
  <2>2. torque \in Torque
    BY DEF TorqueCommand, Torque
  <2>. QED
    BY <2>1, <2>2 DEF PlantUpdate, TypeOK
<1>7. status' \in [state : ControllerState, fault : FaultCode, target_reached : BOOLEAN]
  <2>1. Stepped.state \in ControllerState /\ Stepped.fault \in FaultCode
    BY UpdatedType, SteppedIsUpdated DEF Machine
  <2>2. trajectory'.active \in BOOLEAN
    BY <1>5
  <2>. QED
    BY <2>1, <2>2 DEF Step, AtTarget
<1>. QED
  BY <1>1, <1>2, <1>3, <1>4, <1>5, <1>6, <1>7 DEF TypeOK

(* A cycle keeps state and fault code in agreement. *)
LEMMA StepFaultConsistent == TypeOK /\ FaultConsistent /\ Step => FaultConsistent'
<1>. SUFFICES ASSUME TypeOK, FaultConsistent, Step PROVE FaultConsistent'
  OBVIOUS
<1>1. command \in MotionCommand /\ machine \in Machine /\ external_fault \in FaultCode
      /\ status.target_reached \in BOOLEAN
  BY CommandType DEF TypeOK
<1>2. Kernel!DetectedFault(command, external_fault) \in FaultCode
  BY <1>1, DetectedType
<1>3. Consistent(machine)
  BY DEF FaultConsistent, Consistent
<1>4. Consistent(Updated)
  BY <1>1, <1>2, <1>3, UpdateConsistent DEF Updated
<1>. QED
  BY <1>4, SteppedIsUpdated DEF Step, FaultConsistent, Consistent

(* A cycle that ends in "running" has set its motion up or goes on with it; *)
(* any other cycle forgets what the PID controller remembers.               *)
LEMMA StepMotionSetUp == TypeOK /\ MotionSetUp /\ Step => MotionSetUp'
<1>. SUFFICES ASSUME TypeOK, MotionSetUp, Step PROVE MotionSetUp'
  OBVIOUS
<1>1. trajectory'.target = Prepared.target
  BY PreparedType DEF Step, TrajectoryUpdate
<1>2. CASE ~Running
  BY <1>2 DEF Step, Running, MotionSetUp, Controlled
<1>3. CASE Running /\ Starting
  BY <1>1, <1>3 DEF Step, MotionSetUp, Controlled
<1>4. CASE Running /\ ~Starting
  <2>1. Updated.state = "running"
    BY <1>4, SteppedIsUpdated DEF Running
  <2>2. machine.state = "running" /\ motion_initialized
    BY <1>4, <2>1 DEF Starting
  <2>3. Prepared = trajectory
    BY <1>4 DEF Prepared
  <2>. QED
    BY <1>1, <1>4, <2>2, <2>3 DEF Step, MotionSetUp, Controlled
<1>. QED
  BY <1>2, <1>3, <1>4

(* Every call keeps the invariant, one case per action. *)
LEMMA NextIInv == IInv /\ [Next]_vars => IInv'
<1>. SUFFICES ASSUME IInv, [Next]_vars PROVE IInv'
  OBVIOUS
<1>1. ASSUME NEW c \in Command, SetCommand(c) PROVE IInv'
  BY <1>1 DEF IInv, SetCommand, TypeOK, FaultConsistent, MotionSetUp
<1>2. ASSUME NEW fault \in ExternalFault, SetExternalFault(fault) PROVE IInv'
  BY <1>2, ExternalFaultAssumption
     DEF IInv, SetExternalFault, TypeOK, FaultConsistent, MotionSetUp
<1>3. CASE Step
  BY <1>3, StepTypeOK, StepFaultConsistent, StepMotionSetUp DEF IInv
<1>4. CASE RejectRun
  <2>1. machine' = [state |-> "fault", fault |-> "invalid_command"]
    BY <1>4 DEF RejectRun, ForceFault
  <2>2. machine' \in Machine
    BY <2>1 DEF Machine, ControllerState, FaultCode
  <2>3. machine'.state \in ControllerState /\ machine'.fault \in FaultCode
    BY <2>2 DEF Machine
  <2>4. TypeOK'
    BY <1>4, <2>2, <2>3 DEF RejectRun, IInv, TypeOK
  <2>5. FaultConsistent' /\ MotionSetUp'
    BY <1>4, <2>1 DEF RejectRun, IInv, FaultConsistent, MotionSetUp, LatchedState
  <2>. QED
    BY <2>4, <2>5 DEF IInv
<1>5. CASE UNCHANGED vars
  BY <1>5 DEF IInv, TypeOK, FaultConsistent, MotionSetUp
<1>. QED
  BY <1>1, <1>2, <1>3, <1>4, <1>5 DEF Next

(* The invariant holds in every behaviour, for any commands, faults and     *)
(* tolerance.                                                               *)
THEOREM Invariance == Spec => []IInv
BY InitIInv, NextIInv, PTL DEF Spec

(* ControlLoop keeps its types: in particular the state machine never       *)
(* leaves its seven states and the trajectory is never given a target that  *)
(* is not finite.                                                           *)
THEOREM TypeCorrect == Spec => []TypeOK
BY Invariance, PTL DEF IInv

(* A fault code is held exactly as long as the machine is latched.          *)
THEOREM FaultsAreConsistent == Spec => []FaultConsistent
BY Invariance, PTL DEF IInv

(* A running axis has had its motion set up, and the PID controller's       *)
(* memory stems from that motion alone.                                     *)
THEOREM MotionIsSetUp == Spec => []MotionSetUp
BY Invariance, PTL DEF IInv

-----------------------------------------------------------------------------
(* What a step may never do.  Each property follows from the invariant.     *)

(* Torque is commanded only with every permission. *)
THEOREM TorqueIsPermitted == Spec => TorqueNeedsPermission
<1>1. ASSUME IInv, Step, servo'.torque # "zero" PROVE MayApplyTorque
  <2>1. PICK torque \in TorqueCommand : servo' \in PlantUpdate(servo, torque)
    BY <1>1 DEF Step
  <2>2. servo'.torque = torque
    BY <1>1, <2>1 DEF PlantUpdate, IInv, TypeOK
  <2>3. Running
    BY <1>1, <2>1, <2>2 DEF TorqueCommand
  <2>4. Updated.state = "running"
    BY <1>1, <2>3, SteppedIsUpdated DEF Running, IInv
  <2>. QED
    BY <1>1, <2>4, RunningIsPermitted DEF IInv
<1>2. IInv => [Step /\ servo'.torque # "zero" => MayApplyTorque]_vars
  BY <1>1
<1>. QED
  BY <1>2, Invariance, PTL DEF Spec, TorqueNeedsPermission

(* A latched machine is released by a power loss or by a reset without a    *)
(* pending emergency stop or fault.                                         *)
THEOREM LatchIsKept == Spec => LatchHolds
<1>1. ASSUME IInv, [Next]_vars, machine.state \in LatchedState,
             machine'.state \notin LatchedState
      PROVE  Cleared
  <2>1. CASE Step
    <3>1. command \in MotionCommand /\ machine \in Machine
          /\ external_fault \in FaultCode /\ status.target_reached \in BOOLEAN
      BY <1>1, CommandType DEF IInv, TypeOK
    <3>2. Kernel!DetectedFault(command, external_fault) \in FaultCode
      BY <3>1, DetectedType
    <3>3. machine' = Updated
      BY <1>1, <2>1, SteppedIsUpdated DEF Step, IInv
    <3>4. \/ ~command.power_available
          \/ /\ command.reset_fault
             /\ ~command.emergency_stop
             /\ Kernel!DetectedFault(command, external_fault) = "none"
      BY <1>1, <3>1, <3>2, <3>3, UpdateLatched DEF Updated
    <3>. QED
      BY <3>4 DEF Cleared, Kernel!DetectedFault, Kernel!ValidateCommand,
                  Kernel!ValidProfile, ValidProfile, AcceptsTarget
  <2>2. CASE RejectRun
    BY <1>1, <2>2 DEF RejectRun, ForceFault, LatchedState
  <2>3. machine' = machine \/ Step \/ RejectRun
    BY <1>1 DEF Next, SetCommand, SetExternalFault
  <2>. QED
    BY <1>1, <2>1, <2>2, <2>3
<1>2. IInv /\ [Next]_vars =>
        [machine.state \in LatchedState /\ machine'.state \notin LatchedState
           => Cleared]_vars
  BY <1>1
<1>. QED
  BY <1>2, Invariance, PTL DEF Spec, LatchHolds

(* The trajectory's own test of its target never refuses a motion. *)
THEOREM RefusalIsNeverLate == Spec => NoLateRefusal
<1>1. IInv => [Step /\ Starting => machine'.state = "running"]_vars
  BY SteppedIsUpdated DEF IInv, Step, Starting
<1>. QED
  BY <1>1, Invariance, PTL DEF Spec, NoLateRefusal

(* A running motion keeps its target. *)
THEOREM TargetIsPinned == Spec => TargetPinned
<1>1. ASSUME IInv, [Next]_vars, machine.state = "running",
             machine'.state = "running"
      PROVE  trajectory'.target = trajectory.target
  <2>1. CASE Step
    <3>1. ~Starting
      BY <1>1 DEF Starting, IInv, MotionSetUp
    <3>2. trajectory'.target = Prepared.target
      BY <1>1, <2>1, PreparedType DEF Step, TrajectoryUpdate, IInv
    <3>. QED
      BY <3>1, <3>2 DEF Prepared
  <2>2. trajectory' = trajectory \/ Step
    BY <1>1 DEF Next, SetCommand, SetExternalFault, RejectRun
  <2>. QED
    BY <2>1, <2>2
<1>2. IInv /\ [Next]_vars =>
        [machine.state = "running" /\ machine'.state = "running"
           => trajectory'.target = trajectory.target]_vars
  BY <1>1
<1>. QED
  BY <1>2, Invariance, PTL DEF Spec, TargetPinned

(* The cause of a fault is forgotten by a clearance only, or because of a   *)
(* new one.                                                                 *)
THEOREM FaultCodeIsKept == Spec => FaultCodeKept
<1> DEFINE Kept == \/ Cleared
                   \/ external_fault # "none"
                   \/ ~AcceptsTarget
                   \/ RejectRun
<1>1. ASSUME IInv, Step, machine.fault \notin {"none", machine'.fault} PROVE Kept
  <2>1. SUFFICES ASSUME external_fault = "none", AcceptsTarget PROVE Cleared
    OBVIOUS
  <2>2. Kernel!DetectedFault(command, external_fault) = "none"
    BY <2>1 DEF Kernel!DetectedFault, Kernel!ValidateCommand,
                Kernel!ValidProfile, ValidProfile, AcceptsTarget
  <2>3. machine' = Update(machine, command, status.target_reached, "none")
    BY <1>1, <2>2, SteppedIsUpdated DEF IInv, Step, Updated
  <2>4. machine.state \in LatchedState /\ machine \in Machine
    BY <1>1 DEF IInv, FaultConsistent, TypeOK
  <2>5. command.power_available => ~command.emergency_stop
    BY <1>1, <2>3, <2>4 DEF Update, EmergencyStopped, Machine
  <2>6. command.power_available => command.reset_fault
    BY <1>1, <2>3, <2>4, <2>5 DEF Update, Released
  <2>. QED
    BY <2>1, <2>5, <2>6 DEF Cleared
<1>2. IInv /\ [Next]_vars =>
        [machine.fault \notin {"none", machine'.fault} => Kept]_vars
  BY <1>1 DEF Next, SetCommand, SetExternalFault
<1>. QED
  BY <1>2, Invariance, PTL DEF Spec, FaultCodeKept

(* The reference moves from where it is, or from the servo, towards the     *)
(* target of its motion.                                                    *)
THEOREM ReferenceDoesNotJump == Spec => NoReferenceJump
<1> DEFINE From == IF machine.state = "running" THEN trajectory.reference
                   ELSE servo.position
<1>1. ASSUME IInv, Step, machine'.state = "running"
      PROVE  trajectory'.reference \in Between(From, trajectory'.target)
  <2>1. Running /\ Updated.state = "running"
    BY <1>1, SteppedIsUpdated DEF Step, Running, IInv
  <2>2. /\ Prepared.reference \in Position /\ Prepared.target \in Position
        /\ Position \subseteq Int
    BY <1>1, PreparedType, PositionAssumption DEF IInv
  <2>3. Prepared.reference = From
    <3>1. CASE Starting
      <4>1. machine.state # "running"
        BY <1>1, <3>1 DEF Starting, IInv, MotionSetUp
      <4>2. AcceptsTarget
        BY <1>1, <2>1, RunningIsPermitted DEF MayApplyTorque, IInv
      <4>. QED
        BY <3>1, <4>1, <4>2 DEF Prepared, SetTarget, TrajectoryReset
    <3>2. CASE ~Starting
      BY <2>1, <3>2 DEF Prepared, Starting
    <3>. QED
      BY <3>1, <3>2
  <2>4. /\ trajectory'.target = Prepared.target
        /\ trajectory'.reference \in {Prepared.reference, Prepared.target}
                \cup Between(Prepared.reference, Prepared.target)
    BY <1>1, <2>1, PreparedType DEF Step, TrajectoryUpdate, IInv
  <2>5. ASSUME NEW a \in Int, NEW b \in Int, a \in Position, b \in Position
        PROVE  a \in Between(a, b) /\ b \in Between(a, b)
    BY <2>5 DEF Between
  <2>6. Prepared.reference \in Int /\ Prepared.target \in Int
    BY <2>2
  <2>7. trajectory'.reference \in Between(Prepared.reference, Prepared.target)
    BY <2>2, <2>4, <2>5, <2>6
  <2>. QED
    BY <2>3, <2>4, <2>7
<1>2. IInv => [machine'.state = "running" /\ Step
                 => trajectory'.reference \in Between(From, trajectory'.target)]_vars
  BY <1>1
<1>. QED
  BY <1>2, Invariance, PTL DEF Spec, NoReferenceJump

(* What the verdict of the last cycle tells of the trajectory and the servo *)
(* is true until the next.                                                  *)
VerdictIsTrue ==
    /\ ~trajectory.active => trajectory.reference = trajectory.target
    /\ status.target_reached => ~trajectory.active /\ servo.speed # "moving"

(* Every step keeps it so.                                                  *)
LEMMA VerdictStaysTrue == IInv /\ VerdictIsTrue /\ [Next]_vars => VerdictIsTrue'
<1>. SUFFICES ASSUME IInv, VerdictIsTrue, [Next]_vars PROVE VerdictIsTrue'
  OBVIOUS
<1>1. CASE Step
  <2>1. ~Prepared.active => Prepared.reference = Prepared.target
    BY DEF VerdictIsTrue, Prepared, SetTarget, TrajectoryReset
  <2>2. ~trajectory'.active => trajectory'.reference = trajectory'.target
    BY <1>1, <2>1, PreparedType DEF IInv, Step, TrajectoryUpdate
  <2>3. status'.target_reached => ~trajectory'.active /\ servo'.speed # "moving"
    BY <1>1 DEF Step, AtTarget
  <2>. QED
    BY <2>2, <2>3 DEF VerdictIsTrue
<1>2. CASE RejectRun
  BY <1>2 DEF RejectRun, VerdictIsTrue, IInv, TypeOK
<1>3. CASE UNCHANGED <<trajectory, servo, status>>
  BY <1>3 DEF VerdictIsTrue
<1>. QED
  BY <1>1, <1>2, <1>3 DEF Next, SetCommand, SetExternalFault

(* An axis becomes ready of its own accord only once its profile has ended  *)
(* and the servo has settled.                                               *)
THEOREM CompletionIsTrue == Spec => CompletesAtProfileEnd
<1>1. Init => VerdictIsTrue
  BY DEF Init, VerdictIsTrue, TrajectoryReset
<1>2. Spec => []VerdictIsTrue
  BY <1>1, VerdictStaysTrue, Invariance, PTL DEF Spec
<1>3. ASSUME IInv, VerdictIsTrue, [Next]_vars,
             machine.state = "running", machine'.state = "ready"
      PROVE  trajectory.reference = trajectory.target /\ servo.speed # "moving"
  <2>1. Step
    BY <1>3 DEF Next, SetCommand, SetExternalFault, RejectRun, ForceFault
  <2>2. machine' = Updated
    BY <1>3, <2>1, SteppedIsUpdated DEF Step, IInv
  <2>3. status.target_reached
    BY <1>3, <2>2 DEF Updated, Update, PoweredOff, EmergencyStopped, ForceFault,
                      LatchedState, Sequence, IInv, TypeOK, Machine
  <2>. QED
    BY <1>3, <2>3 DEF VerdictIsTrue
<1>4. IInv /\ VerdictIsTrue /\ [Next]_vars =>
        [machine.state = "running" /\ machine'.state = "ready"
           => trajectory.reference = trajectory.target /\ servo.speed # "moving"]_vars
  BY <1>3
<1>. QED
  BY <1>2, <1>4, Invariance, PTL DEF Spec, CompletesAtProfileEnd

-----------------------------------------------------------------------------
(* ControlLoop implements MotionKernel.                                     *)

(* INSTANCE gives MotionKernel definitions of its own, equal to ours.       *)
LEMMA SameUpdate ==
    ASSUME NEW m, NEW c, NEW reached, NEW detected
    PROVE  Kernel!Update(m, c, reached, detected) = Update(m, c, reached, detected)
BY DEF Update, Kernel!Update, EmergencyStopped, Kernel!EmergencyStopped,
       Released, Kernel!Released, ForceFault, Kernel!ForceFault, Sequence,
       Kernel!Sequence, PoweredOff, Kernel!PoweredOff, Disabled,
       Kernel!Disabled, LatchedState, Kernel!LatchedState

(* What the supervisors are shown of the control loop is what it does. *)
THEOREM ControlLoopImplementsKernel == Spec => ImplementsKernel
<1>1. Init => Kernel!Init
  BY DEF Init, Kernel!Init, PoweredOff, Kernel!PoweredOff, InitialCommand,
         Kernel!InitialCommand
<1>2. ASSUME IInv, [Next]_vars PROVE [Kernel!Next]_(Kernel!kernelVars)
  <2>1. ASSUME NEW c \in Command, SetCommand(c) PROVE Kernel!Next
    BY <2>1 DEF SetCommand, Kernel!SetCommand, Kernel!Next
  <2>2. ASSUME NEW fault \in ExternalFault, SetExternalFault(fault)
        PROVE  Kernel!Next
    BY <2>2 DEF SetExternalFault, Kernel!SetExternalFault, Kernel!Next
  <2>3. CASE Step
    <3>1. machine' = Kernel!Update(machine, command, status.target_reached,
                                   Kernel!DetectedFault(command, external_fault))
      BY <1>2, <2>3, SteppedIsUpdated, SameUpdate DEF Step, IInv, Updated
    <3>2. status'.target_reached \in BOOLEAN
      BY <1>2, <2>3, StepTypeOK DEF IInv, TypeOK
    <3>. QED
      BY <2>3, <3>1, <3>2 DEF Step, Kernel!Step, Kernel!Cycle, Kernel!Next
  <2>4. CASE RejectRun
    <3>1. status'.target_reached = status.target_reached
      BY <1>2, <2>4 DEF RejectRun, IInv, TypeOK
    <3>. QED
      BY <2>4, <3>1 DEF RejectRun, Kernel!RejectRun, ForceFault,
                        Kernel!ForceFault, Kernel!Next
  <2>5. CASE UNCHANGED vars
    BY <2>5 DEF Kernel!kernelVars
  <2>. QED
    BY <1>2, <2>1, <2>2, <2>3, <2>4, <2>5 DEF Next
<1>. QED
  BY <1>1, <1>2, Invariance, PTL DEF Spec, ImplementsKernel, Kernel!Spec

-----------------------------------------------------------------------------
(* The demonstration program.  From here on the loop is the one main drives *)
(* (ControlRun); nothing above cites an assumption of that module.          *)

(* The variables of main and run_for keep their types.                      *)
RunTypeOK ==
    /\ at \in {"options", "command", "step", "csv", "cycle", "returned", "exited"}
    /\ options \in OptionSet
    /\ sent \in 0 .. 4
    /\ cycle \in Nat /\ now \in Nat /\ next_cycle \in Nat
    /\ deadline_misses \in Nat /\ overruns \in Nat
    /\ exit_code \in {0, 1, 2}

(* Where the axis is once so many commands have each had their step.        *)
Ascent == <<PoweredOff, Disabled, [state |-> "ready", fault |-> "none"],
            [state |-> "running", fault |-> "none"]>>

Risen(steps) ==
    /\ machine = Ascent[steps + 1]
    /\ steps = 3 => trajectory.target = options.target

(* The start-up: what was sent, and how far it has brought the axis. *)
OnScript ==
    /\ at \notin {"options", "exited"} => Accepted
    /\ external_fault = "none"
    /\ command = IF sent = 0 THEN InitialCommand ELSE Script[sent]
    /\ at \in {"options", "command"} => sent <= 3 /\ Risen(sent)
    /\ at = "options" => sent = 0
    /\ at = "step" => sent \in 1 .. 3 /\ Risen(sent - 1)
    /\ at = "csv" => Risen(3)
    /\ at \in {"csv", "cycle", "returned"} => sent = 4
    /\ at = "exited" => sent \in {0, 4}

(* Under run_for the axis runs, or has arrived; the verdict is on the       *)
(* target of the command line.                                              *)
UnderWay ==
    /\ status.state = machine.state /\ status.fault = machine.fault
    /\ at \in {"cycle", "returned"} =>
           machine \in {Ascent[3], Ascent[4]}
    /\ (sent = 4 \/ (at = "command" /\ sent = 3)) /\ status.target_reached =>
           ~trajectory.active /\ AtTarget(MovingTo(options), servo)

(* The clock against the grid of deadlines. *)
Lag == now - next_cycle
(* What an overrun adds to the lag at most, and what another cycle pays off *)
(* at least.                                                                *)
MaxGain == Worst - Period
Slack == Period - Usual

(* The part of the lag that overruns have brought about. *)
Backlog == IF Lag > MaxLatency THEN Lag ELSE 0

(* The lag is what overruns have left of it, and the misses beyond the      *)
(* overruns have each paid off a cycle's slack of the backlog.              *)
InTime ==
    /\ next_cycle = cycle * Period
    /\ ~options.fast => Lag \in 0 .. MaxLatency + overruns * MaxGain
    /\ (deadline_misses - overruns) * Slack + Backlog
         <= overruns * (MaxGain + MaxLatency)

RunIInv == IInv /\ RunTypeOK /\ OnScript /\ UnderWay /\ OutcomeIsTrue /\ InTime

(* The command that moves the axis, and the one that starts the move.       *)
LEMMA MovingFields ==
    ASSUME NEW o
    PROVE  /\ MovingTo(o).power_available /\ MovingTo(o).enable
           /\ ~MovingTo(o).start /\ ~MovingTo(o).stop /\ ~MovingTo(o).emergency_stop
           /\ MovingTo(o).target_position_rad = o.target
           /\ MovingTo(o).max_velocity_rad_s = o.max_velocity
           /\ MovingTo(o).max_acceleration_rad_s2 = o.max_acceleration
BY DEF MovingTo, Enabling, InitialCommand

(* The same of the command that starts the move.                            *)
LEMMA StartingFields ==
    ASSUME NEW o
    PROVE  /\ StartingTo(o).power_available /\ StartingTo(o).enable
           /\ StartingTo(o).start /\ ~StartingTo(o).stop /\ ~StartingTo(o).emergency_stop
           /\ StartingTo(o).target_position_rad = o.target
           /\ StartingTo(o).max_velocity_rad_s = o.max_velocity
           /\ StartingTo(o).max_acceleration_rad_s2 = o.max_acceleration
<1>1. DOMAIN MovingTo(o) = DOMAIN InitialCommand
  BY DEF MovingTo, Enabling
<1>. QED
  BY <1>1, MovingFields DEF StartingTo, InitialCommand

(* The script: four commands that callers may submit ...                    *)
LEMMA Scripted ==
    /\ Len(Script) = 4
    /\ Script[1] = InitialCommand
    /\ Script[2] = Enabling
    /\ Script[3] = StartingTo(options)
    /\ Script[4] = MovingTo(options)
    /\ options \in OptionSet => \A i \in 1 .. 4 : Script[i] \in Command
<1>1. /\ Len(Script) = 4
      /\ Script[1] = InitialCommand /\ Script[2] = Enabling
      /\ Script[3] = StartingTo(options) /\ Script[4] = MovingTo(options)
  BY DEF Script
<1>2. options \in OptionSet =>
        {InitialCommand, Enabling, StartingTo(options), MovingTo(options)} \subseteq Commands
  BY DEF Commands
<1>3. \A i \in 1 .. 4 : i = 1 \/ i = 2 \/ i = 3 \/ i = 4
  OBVIOUS
<1>. QED
  BY <1>1, <1>2, <1>3, RunAssumption

(* ... and the loop finds valid, none of which stops the axis and only the  *)
(* third of which starts it.                                                *)
LEMMA ScriptLetsRun ==
    ASSUME options \in OptionSet, Accepted, NEW i \in 1 .. 4
    PROVE  /\ Script[i].power_available /\ ~Script[i].emergency_stop
           /\ ~Script[i].stop
           /\ Script[i].enable <=> i > 1
           /\ Script[i].start <=> i = 3
           /\ i > 2 => Script[i].target_position_rad = options.target
           /\ ValidProfile(Script[i].target_position_rad,
                           Script[i].max_velocity_rad_s,
                           Script[i].max_acceleration_rad_s2)
<1>1. /\ options.target \in Int /\ options.max_velocity \in Int
      /\ options.max_acceleration \in Int
  BY OptionAssumption, PositionAssumption, RateAssumption
<1>2. /\ NonFinite \notin {options.target, options.max_velocity, options.max_acceleration}
      /\ NonFinite \notin {0, 1}
  BY <1>1, NonFiniteAssumption
<1>3. options.max_velocity > 0 /\ options.max_acceleration > 0
  BY DEF Accepted
<1>4. CASE i = 1
  BY <1>2, <1>4, Scripted DEF InitialCommand, ValidProfile
<1>5. CASE i = 2
  BY <1>2, <1>5, Scripted DEF Enabling, InitialCommand, ValidProfile
<1>6. CASE i = 3
  BY <1>2, <1>3, <1>6, Scripted, StartingFields DEF ValidProfile
<1>7. CASE i = 4
  BY <1>2, <1>3, <1>7, Scripted, MovingFields DEF ValidProfile
<1>. QED
  BY <1>4, <1>5, <1>6, <1>7

(* A cycle under a command of the script follows the sequence.              *)
LEMMA SequencedCycle ==
    ASSUME RunIInv, Step, Accepted, sent \in 1 .. 4,
           machine.state \notin LatchedState
    PROVE  /\ machine' = [machine EXCEPT !.state =
                            Sequence(machine.state, command, status.target_reached)]
           /\ command = Script[sent]
<1>1. command = Script[sent] /\ external_fault = "none" /\ options \in OptionSet
  BY DEF RunIInv, OnScript, RunTypeOK
<1>2. Kernel!DetectedFault(command, external_fault) = "none"
  BY <1>1, ScriptLetsRun
  DEF Kernel!DetectedFault, Kernel!ValidateCommand, Kernel!ValidProfile, ValidProfile
<1>3. machine' = Updated
  BY SteppedIsUpdated DEF Step, RunIInv, IInv
<1>. QED
  BY <1>1, <1>2, <1>3, ScriptLetsRun DEF Updated, Update

-----------------------------------------------------------------------------
(* The run starts with a loop that was just constructed. *)
LEMMA RunInitIInv == RunInit => RunIInv
<1>. SUFFICES ASSUME RunInit PROVE RunIInv
  OBVIOUS
<1>1. IInv
  BY InitIInv DEF RunInit
<1>2. RunTypeOK
  BY DEF RunInit, RunTypeOK
<1>3. OnScript
  BY DEF RunInit, Init, OnScript, Risen, Ascent
<1>4. UnderWay /\ OutcomeIsTrue
  BY DEF RunInit, Init, PoweredOff, UnderWay, OutcomeIsTrue, EndsEarlyAtRest, ExitTells
<1>5. InTime
  <2>1. {Period, Usual, Worst, MaxLatency} \subseteq Nat /\ Usual < Period /\ Period <= Worst
    BY TimingAssumption
  <2>2. 0 * Period = 0 /\ (0 - 0) * (Period - Usual) = 0
        /\ 0 * (Worst - Period) = 0 /\ 0 * (Worst - Period + MaxLatency) = 0
    BY <2>1
  <2>. QED
    BY <2>1, <2>2 DEF RunInit, InTime, Lag, Backlog, Slack, MaxGain
<1>. QED
  BY <1>1, <1>2, <1>3, <1>4, <1>5 DEF RunIInv

(* Every step of the run is a call of the loop, or none. *)
LEMMA RunStepsTheLoop == RunIInv /\ [RunNext]_runVars => [Next]_vars
<1>. SUFFICES ASSUME RunIInv, [RunNext]_runVars PROVE [Next]_vars
  OBVIOUS
<1>1. ASSUME SendCommand PROVE Next
  <2>1. sent' \in 1 .. 4 /\ options \in OptionSet
    BY <1>1 DEF SendCommand, RunIInv, RunTypeOK, OnScript
  <2>. QED
    BY <1>1, <2>1, Scripted DEF SendCommand, Next
<1>2. ASSUME StepOnce PROVE Next
  BY <1>2 DEF StepOnce, Next
<1>3. ASSUME NEW work \in Work, NEW callback \in Callback,
             NEW latency \in 0 .. MaxLatency, Iterate(work, callback, latency)
      PROVE  Next
  BY <1>3 DEF Iterate, Next
<1>4. CASE ShowHelp \/ ParseOptions \/ (\E ok \in BOOLEAN : OpenCsv(ok)) \/ RunOut \/ Exit
  BY <1>4 DEF ShowHelp, ParseOptions, OpenCsv, RunOut, Exit
<1>5. CASE UNCHANGED runVars
  BY <1>5 DEF runVars
<1>. QED
  BY <1>1, <1>2, <1>3, <1>4, <1>5 DEF RunNext

(* What a cycle leaves in the status is what the machine, the trajectory    *)
(* and the servo then are.                                                  *)
LEMMA CycleStatus ==
    ASSUME RunIInv, Step, Accepted, sent \in {3, 4}
    PROVE  /\ status'.target_reached =>
                ~trajectory'.active /\ AtTarget(MovingTo(options), servo')
<1>1. command.target_position_rad = MovingTo(options).target_position_rad
  BY ScriptLetsRun, MovingFields DEF RunIInv, OnScript, RunTypeOK
<1>. QED
  BY <1>1 DEF Step, AtTarget

(* Each step of the start-up takes the axis one state further. *)
LEMMA StartUpRises ==
    ASSUME RunIInv, StepOnce
    PROVE  Risen(sent)'
<1>1. /\ sent \in 1 .. 3 /\ Risen(sent - 1) /\ Accepted /\ options \in OptionSet
      /\ at = "step" /\ Step /\ sent' = sent /\ options' = options
  BY DEF StepOnce, RunIInv, OnScript, RunTypeOK
<1>2. machine = Ascent[sent] /\ machine.state \notin LatchedState
  BY <1>1 DEF Risen, Ascent, PoweredOff, Disabled, LatchedState
<1>3. machine' = [machine EXCEPT !.state =
                    Sequence(machine.state, command, status.target_reached)]
      /\ command = Script[sent]
  BY <1>1, <1>2, SequencedCycle
<1>4. (command.enable <=> sent > 1) /\ (command.start <=> sent = 3)
  BY <1>1, <1>3, ScriptLetsRun
<1>5. CASE sent = 1
  BY <1>1, <1>2, <1>3, <1>5 DEF Risen, Ascent, PoweredOff, Disabled, Sequence
<1>6. CASE sent = 2
  BY <1>1, <1>2, <1>3, <1>4, <1>6 DEF Risen, Ascent, Disabled, Sequence
<1>7. CASE sent = 3
  <2>1. machine' = Ascent[4] /\ machine'.state = "running" /\ machine.state = "ready"
    BY <1>1, <1>2, <1>3, <1>4, <1>7 DEF Ascent, Sequence
  <2>2. Starting /\ Running /\ AcceptsTarget
    <3>1. machine' = Stepped /\ machine' = Updated
      BY <1>1, SteppedIsUpdated DEF Step, RunIInv, IInv
    <3>2. Starting /\ Running
      BY <2>1, <3>1 DEF Starting, Running
    <3>3. AcceptsTarget
      BY <1>1, <1>3, <1>7, ScriptLetsRun DEF AcceptsTarget
    <3>. QED
      BY <3>2, <3>3
  <2>3. trajectory'.target = Prepared.target
    BY <1>1, <2>2, PreparedType DEF Step, TrajectoryUpdate, RunIInv, IInv
  <2>4. Prepared.target = options.target
    BY <1>1, <1>3, <1>7, <2>2, ScriptLetsRun DEF Prepared, SetTarget
  <2>. QED
    BY <1>1, <1>7, <2>1, <2>3, <2>4 DEF Risen
<1>. QED
  BY <1>1, <1>5, <1>6, <1>7

(* Under run_for a cycle leaves the axis running or ready, and a ready axis *)
(* ready: the start bit is off.                                             *)
LEMMA IterateUnderWay ==
    ASSUME RunIInv, at = "cycle", Step
    PROVE  /\ machine' \in {Ascent[3], Ascent[4]}
           /\ machine = Ascent[3] => machine' = Ascent[3]
<1>1. /\ sent = 4 /\ Accepted /\ options \in OptionSet
      /\ machine \in {Ascent[3], Ascent[4]}
  BY DEF RunIInv, OnScript, RunTypeOK, UnderWay
<1>2. machine.state \notin LatchedState
  BY <1>1 DEF Ascent, LatchedState
<1>3. machine' = [machine EXCEPT !.state =
                    Sequence(machine.state, command, status.target_reached)]
      /\ command = Script[4]
  BY <1>1, <1>2, SequencedCycle
<1>4. command.enable /\ ~command.start /\ ~command.stop
  BY <1>1, <1>3, ScriptLetsRun
<1>. QED
  BY <1>1, <1>3, <1>4 DEF Ascent, Sequence

-----------------------------------------------------------------------------
(* The clock.  A product with a number of overruns or misses grows with it. *)
LEMMA OneMore ==
    ASSUME NEW n \in Int, NEW factor \in Int
    PROVE  (n + 1) * factor = n * factor + factor
OBVIOUS

(* Products of integers, and of numbers that are not negative.              *)
LEMMA Products ==
    ASSUME NEW n \in Int, NEW factor \in Int
    PROVE  n * factor \in Int /\ (n \in Nat /\ factor \in Nat => n * factor \in Nat)
OBVIOUS

(* A miss that shortens the backlog by as much as it adds costs nothing.    *)
LEMMA PaidOff ==
    ASSUME NEW missed \in Int, NEW slack \in Int, NEW paid \in Int,
           NEW before \in Int, NEW after \in Int,
           missed + before <= paid, after + slack <= before
    PROVE  (missed + slack) + after <= paid
OBVIOUS

(* One turn of run_for: the next deadline is the grid's, and the lag grows  *)
(* by an overrun only.                                                      *)
LEMMA IterateInTime ==
    ASSUME RunIInv, NEW work \in Work, NEW callback \in Callback,
           NEW latency \in 0 .. MaxLatency, Iterate(work, callback, latency)
    PROVE  InTime' /\ now' \in Nat /\ next_cycle' \in Nat
<1> DEFINE took == work + callback
           gain == took - Period
<1>1. /\ Period \in Nat /\ Usual \in Nat /\ Worst \in Nat /\ MaxLatency \in Nat
      /\ Usual < Period /\ Period <= Worst /\ MaxLatency <= Period - Usual
      /\ work \in Nat /\ callback \in Nat /\ took <= Worst /\ latency \in Nat
      /\ latency <= MaxLatency
  BY TimingAssumption
<1>2. /\ cycle \in Nat /\ now \in Nat /\ next_cycle \in Nat
      /\ deadline_misses \in Nat /\ overruns \in Nat
  BY DEF RunIInv, RunTypeOK
<1>3. /\ next_cycle' = next_cycle + Period /\ cycle' = cycle + 1
      /\ options' = options
      /\ deadline_misses' = deadline_misses + (IF now + work > next_cycle' THEN 1 ELSE 0)
      /\ overruns' = overruns + (IF took > Usual THEN 1 ELSE 0)
      /\ now' = IF options.fast \/ now + took >= next_cycle'
                THEN now + took ELSE next_cycle' + latency
  BY <1>1, <1>2 DEF Iterate, Awake
<1>4. /\ next_cycle = cycle * Period
      /\ ~options.fast => Lag \in 0 .. MaxLatency + overruns * MaxGain
      /\ (deadline_misses - overruns) * Slack + Backlog
           <= overruns * (MaxGain + MaxLatency)
  BY DEF RunIInv, InTime
<1> HIDE DEF took
<1>5. took \in Nat
  BY <1>1 DEF took
<1>6. now' \in Nat /\ next_cycle' \in Nat
  BY <1>1, <1>2, <1>3, <1>5
<1>7. next_cycle' = cycle' * Period
  BY <1>1, <1>2, <1>3, <1>4, OneMore
<1>8. /\ Lag \in Int /\ Lag' \in Int
      /\ \/ Lag' = Lag + gain
         \/ ~options.fast /\ Lag' = latency /\ Lag + gain < 0
      /\ ~options.fast => Lag' >= 0
  BY <1>1, <1>2, <1>3, <1>5, <1>6 DEF Lag
<1>9. /\ MaxGain \in Nat /\ Slack \in Nat /\ MaxGain + MaxLatency \in Nat
      /\ gain <= MaxGain /\ (took <= Usual => gain <= -Slack)
      /\ MaxLatency <= Slack /\ gain \in Int
  BY <1>1, <1>5 DEF MaxGain, Slack, took
<1>10. /\ overruns * MaxGain \in Nat
       /\ overruns * (MaxGain + MaxLatency) \in Nat
       /\ (overruns + 1) * MaxGain = overruns * MaxGain + MaxGain
       /\ (overruns + 1) * (MaxGain + MaxLatency)
            = overruns * (MaxGain + MaxLatency) + (MaxGain + MaxLatency)
  BY <1>2, <1>9, OneMore, Products
<1>11. ~options'.fast => Lag' \in 0 .. MaxLatency + overruns' * MaxGain
  <2>1. CASE took > Usual
    BY <1>1, <1>2, <1>3, <1>4, <1>8, <1>9, <1>10, <2>1
  <2>2. CASE ~(took > Usual)
    BY <1>1, <1>2, <1>3, <1>4, <1>5, <1>8, <1>9, <1>10, <2>2
  <2>. QED
    BY <2>1, <2>2
<1>12. (deadline_misses' - overruns') * Slack + Backlog'
         <= overruns' * (MaxGain + MaxLatency)
  <2> DEFINE more == deadline_misses - overruns
             paid == overruns * (MaxGain + MaxLatency)
  <2>1. /\ more \in Int /\ more * Slack \in Int /\ (more - 1) * Slack \in Int
        /\ (more + 1) * Slack = more * Slack + Slack
        /\ more * Slack = (more - 1) * Slack + Slack
    <3>1. more \in Int /\ more - 1 \in Int /\ Slack \in Int
      BY <1>2, <1>9
    <3> HIDE DEF more
    <3>2. (more - 1) + 1 = more
      BY <3>1
    <3>. QED
      BY <3>1, <3>2, OneMore, Products
  <2>2. Backlog \in Int /\ Backlog' \in Int
    BY <1>8 DEF Backlog
  <2>3. CASE took > Usual
    <3>1. overruns' = overruns + 1
          /\ overruns' * (MaxGain + MaxLatency) = paid + (MaxGain + MaxLatency)
      BY <1>3, <1>10, <2>3
    <3>2. Backlog' <= Backlog + (MaxGain + MaxLatency)
      BY <1>1, <1>8, <1>9 DEF Backlog
    <3>3. deadline_misses' - overruns' = more \/ deadline_misses' - overruns' = more - 1
      BY <1>2, <1>3, <2>3
    <3>4. (deadline_misses' - overruns') * Slack <= more * Slack
      BY <1>9, <2>1, <3>3
    <3>5. (deadline_misses' - overruns') * Slack \in Int
      BY <2>1, <3>3
    <3> HIDE DEF more, paid
    <3>. QED
      BY <1>4, <1>9, <1>10, <2>1, <2>2, <3>1, <3>2, <3>4, <3>5 DEF more, paid
  <2>4. CASE ~(took > Usual) /\ now + work > next_cycle'
    <3>1. overruns' = overruns /\ deadline_misses' - overruns' = more + 1
      BY <1>2, <1>3, <2>4
    <3>2. Lag > Slack /\ Lag' = Lag + gain /\ Lag' <= Lag - Slack
      <4>1. Lag + work > Period /\ work <= took
        BY <1>1, <1>2, <1>3, <2>4 DEF Lag, took
      <4>2. Lag > Slack /\ gain <= -Slack /\ Lag + gain >= 0
        BY <1>1, <1>5, <1>8, <1>9, <2>4, <4>1 DEF Slack
      <4>. QED
        BY <1>8, <1>9, <4>2
    <3>3. Backlog' + Slack <= Backlog
      BY <1>1, <1>8, <1>9, <3>2 DEF Backlog
    <3>4. (deadline_misses' - overruns') * Slack = more * Slack + Slack
      BY <2>1, <3>1
    <3>5. more * Slack + Backlog <= paid
      BY <1>4
    <3>6. overruns' * (MaxGain + MaxLatency) = paid
      BY <3>1
    <3>7. paid \in Int /\ Slack \in Int
      BY <1>9, <1>10
    <3>8. Backlog \in Int /\ Backlog' \in Int /\ more * Slack \in Int
      BY <2>1, <2>2
    <3>9. (more * Slack + Slack) + Backlog' <= paid
      BY <3>3, <3>5, <3>7, <3>8, PaidOff
    <3>. QED
      BY <3>4, <3>6, <3>9
  <2>5. CASE ~(took > Usual) /\ ~(now + work > next_cycle')
    <3>1. overruns' = overruns /\ deadline_misses' = deadline_misses
      BY <1>2, <1>3, <2>5
    <3>2. Backlog' <= Backlog
      BY <1>1, <1>5, <1>8, <1>9, <2>5 DEF Backlog
    <3> HIDE DEF more, paid
    <3>. QED
      BY <1>4, <1>9, <1>10, <2>1, <2>2, <3>1, <3>2 DEF more, paid
  <2>. QED
    BY <2>3, <2>4, <2>5
<1>. QED
  BY <1>6, <1>7, <1>11, <1>12 DEF InTime, MaxGain, Slack

-----------------------------------------------------------------------------
(* Whoever leaves the clock alone leaves the schedule alone. *)
LEMMA ClockAlone ==
    ASSUME InTime, UNCHANGED <<options, clockVars>>
    PROVE  InTime'
BY DEF InTime, Lag, Backlog, clockVars

(* Every step keeps the invariant: one case per action. *)
LEMMA RunNextIInv == RunIInv /\ [RunNext]_runVars => RunIInv'
<1>. SUFFICES ASSUME RunIInv, [RunNext]_runVars PROVE RunIInv'
  OBVIOUS
<1>. USE DEF RunTypeOK
<1>1. IInv'
  BY RunStepsTheLoop, NextIInv DEF RunIInv
<1>2. RunTypeOK /\ OnScript /\ UnderWay /\ OutcomeIsTrue /\ InTime
  BY DEF RunIInv
<1>3. ASSUME ParseOptions PROVE RunIInv'
  <2>1. UNCHANGED <<options, sent, clockVars, vars>> /\ at = "options"
        /\ at' = (IF Accepted THEN "command" ELSE "exited")
        /\ exit_code' = (IF Accepted THEN exit_code ELSE 1)
    BY <1>3 DEF ParseOptions
  <2>2. RunTypeOK' /\ InTime'
    BY <1>2, <2>1, ClockAlone DEF clockVars
  <2>3. OnScript'
    BY <1>2, <2>1 DEF OnScript, Accepted, Risen, Script
  <2>4. UnderWay' /\ OutcomeIsTrue'
    BY <1>2, <2>1 DEF OnScript, UnderWay, OutcomeIsTrue, EndsEarlyAtRest, ExitTells
  <2>. QED
    BY <1>1, <2>2, <2>3, <2>4 DEF RunIInv
<1>4. ASSUME SendCommand PROVE RunIInv'
  <2>1. /\ at = "command" /\ sent \in 0 .. 3 /\ sent' = sent + 1
        /\ command' = Script[sent']
        /\ at' = IF sent' < 4 THEN "step" ELSE "csv"
        /\ UNCHANGED <<options, exit_code, clockVars, machine, external_fault,
                       trajectory, servo, status>>
    BY <1>2, <1>4, Scripted DEF SendCommand, SetCommand, OnScript
  <2>2. RunTypeOK' /\ InTime'
    BY <1>2, <2>1, ClockAlone DEF clockVars
  <2>3. OnScript'
    BY <1>2, <2>1 DEF OnScript, Accepted, Risen, Script
  <2>4. UnderWay'
    BY <1>2, <2>1 DEF UnderWay
  <2>5. OutcomeIsTrue'
    BY <2>1 DEF OutcomeIsTrue, EndsEarlyAtRest, ExitTells
  <2>. QED
    BY <1>1, <2>2, <2>3, <2>4, <2>5 DEF RunIInv
<1>5. ASSUME StepOnce PROVE RunIInv'
  <2>1. /\ at = "step" /\ at' = "command" /\ Step /\ sent \in 1 .. 3
        /\ Accepted /\ options \in OptionSet
        /\ UNCHANGED <<options, sent, exit_code, clockVars, command, external_fault>>
    BY <1>2, <1>5 DEF StepOnce, OnScript, Step
  <2>2. RunTypeOK' /\ InTime'
    BY <1>2, <2>1, ClockAlone DEF clockVars
  <2>3. Risen(sent)'
    BY <1>5, StartUpRises
  <2>4. OnScript'
    BY <1>2, <2>1, <2>3 DEF OnScript, Accepted, Risen, Script
  <2>5. UnderWay'
    <3>1. status'.state = machine'.state /\ status'.fault = machine'.fault
      BY <2>1 DEF Step
    <3>2. sent = 3 /\ status'.target_reached =>
            ~trajectory'.active /\ AtTarget(MovingTo(options), servo')
      BY <2>1, CycleStatus
    <3>. QED
      BY <2>1, <3>1, <3>2 DEF UnderWay
  <2>6. OutcomeIsTrue'
    BY <2>1 DEF OutcomeIsTrue, EndsEarlyAtRest, ExitTells
  <2>. QED
    BY <1>1, <2>2, <2>4, <2>5, <2>6 DEF RunIInv
<1>6. ASSUME NEW ok \in BOOLEAN, OpenCsv(ok) PROVE RunIInv'
  <2>1. UNCHANGED <<options, sent, clockVars, vars>> /\ at = "csv"
        /\ at' = (IF ok THEN "cycle" ELSE "exited")
        /\ exit_code' = (IF ok THEN exit_code ELSE 1)
    BY <1>6 DEF OpenCsv
  <2>2. RunTypeOK' /\ InTime'
    BY <1>2, <2>1, ClockAlone DEF clockVars
  <2>3. OnScript'
    BY <1>2, <2>1 DEF OnScript, Accepted, Risen, Script
  <2>4. UnderWay' /\ OutcomeIsTrue'
    BY <1>2, <2>1 DEF OnScript, UnderWay, Risen, OutcomeIsTrue, EndsEarlyAtRest, ExitTells
  <2>. QED
    BY <1>1, <2>2, <2>3, <2>4 DEF RunIInv
<1>7. ASSUME NEW work \in Work, NEW callback \in Callback,
             NEW latency \in 0 .. MaxLatency, Iterate(work, callback, latency)
      PROVE  RunIInv'
  <2>1. /\ at = "cycle" /\ Step /\ sent = 4 /\ Accepted /\ options \in OptionSet
        /\ at' = (IF Done THEN "returned" ELSE "cycle")
        /\ cycle' = cycle + 1
        /\ UNCHANGED <<options, sent, exit_code, command, external_fault>>
    BY <1>2, <1>7 DEF Iterate, OnScript, Step
  <2>2. InTime' /\ now' \in Nat /\ next_cycle' \in Nat
    BY <1>7, IterateInTime
  <2>3. deadline_misses' \in Nat /\ overruns' \in Nat
    BY <1>2, <1>7 DEF Iterate
  <2>4. RunTypeOK'
    BY <1>2, <2>1, <2>2, <2>3
  <2>5. OnScript'
    BY <1>2, <2>1 DEF OnScript, Accepted, Script
  <2>6. /\ machine' \in {Ascent[3], Ascent[4]}
        /\ status'.state = machine'.state /\ status'.fault = machine'.fault
        /\ status'.target_reached =>
             ~trajectory'.active /\ AtTarget(MovingTo(options), servo')
    BY <2>1, IterateUnderWay, CycleStatus DEF Step
  <2>7. UnderWay'
    BY <2>1, <2>6 DEF UnderWay
  <2>8. EndsEarlyAtRest'
    <3>1. SUFFICES ASSUME Done
                   PROVE  /\ machine' = [state |-> "ready", fault |-> "none"]
                          /\ servo'.torque = "zero"
                          /\ AtTarget(MovingTo(options), servo')
      BY <2>1 DEF EndsEarlyAtRest
    <3>2. machine' = [state |-> "ready", fault |-> "none"]
      BY <2>6, <3>1 DEF Done, Ascent
    <3>3. ~Running
      BY <2>1, <3>2 DEF Step, Running
    <3>4. servo'.torque = "zero"
      BY <1>2, <2>1, <3>3 DEF Step, TorqueCommand, PlantUpdate, RunIInv, IInv, TypeOK
    <3>. QED
      BY <2>6, <3>1, <3>2, <3>4 DEF Done
  <2>9. ExitTells'
    BY <2>1 DEF ExitTells
  <2>. QED
    BY <1>1, <2>2, <2>4, <2>5, <2>7, <2>8, <2>9 DEF RunIInv, OutcomeIsTrue
<1>8. ASSUME RunOut PROVE RunIInv'
  <2>1. UNCHANGED <<options, sent, exit_code, clockVars, vars>> /\ at = "cycle"
        /\ at' = "returned" /\ ~(cycle < CycleCount)
    BY <1>8 DEF RunOut, More
  <2>2. RunTypeOK' /\ InTime'
    BY <1>2, <2>1, ClockAlone DEF clockVars
  <2>3. OnScript'
    BY <1>2, <2>1 DEF OnScript, Accepted, Risen, Script
  <2>4. UnderWay' /\ OutcomeIsTrue'
    BY <1>2, <2>1
    DEF UnderWay, OutcomeIsTrue, EndsEarlyAtRest, ExitTells, CycleCount, clockVars
  <2>. QED
    BY <1>1, <2>2, <2>3, <2>4 DEF RunIInv
<1>9. ASSUME Exit PROVE RunIInv'
  <2>1. UNCHANGED <<options, sent, clockVars, vars>> /\ at = "returned"
        /\ at' = "exited" /\ exit_code' = (IF Success THEN 0 ELSE 2)
    BY <1>9 DEF Exit
  <2>2. RunTypeOK' /\ InTime'
    BY <1>2, <2>1, ClockAlone DEF clockVars
  <2>3. OnScript'
    BY <1>2, <2>1 DEF OnScript, Accepted, Risen, Script
  <2>4. UnderWay' /\ OutcomeIsTrue'
    BY <1>2, <2>1
    DEF OnScript, UnderWay, OutcomeIsTrue, EndsEarlyAtRest, ExitTells, Success
  <2>. QED
    BY <1>1, <2>2, <2>3, <2>4 DEF RunIInv
<1>10. ASSUME ShowHelp PROVE RunIInv'
  <2>1. UNCHANGED <<options, sent, clockVars, vars>> /\ at = "options"
        /\ at' = "exited" /\ exit_code' = 0 /\ options.read_to = "help"
    BY <1>10 DEF ShowHelp
  <2>2. RunTypeOK' /\ InTime'
    BY <1>2, <2>1, ClockAlone DEF clockVars
  <2>3. OnScript'
    BY <1>2, <2>1 DEF OnScript, Accepted, Risen, Script
  <2>4. UnderWay' /\ OutcomeIsTrue'
    BY <1>2, <2>1 DEF OnScript, UnderWay, OutcomeIsTrue, EndsEarlyAtRest, ExitTells
  <2>. QED
    BY <1>1, <2>2, <2>3, <2>4 DEF RunIInv
<1>11. CASE UNCHANGED runVars
  <2>1. UNCHANGED <<at, options, sent, exit_code, clockVars, vars>>
    BY <1>11 DEF runVars
  <2>2. RunTypeOK' /\ InTime'
    BY <1>2, <2>1, ClockAlone DEF clockVars
  <2>3. OnScript'
    BY <1>2, <2>1 DEF OnScript, Accepted, Risen, Script
  <2>4. UnderWay' /\ OutcomeIsTrue'
    BY <1>2, <2>1
    DEF UnderWay, OutcomeIsTrue, EndsEarlyAtRest, ExitTells, CycleCount, clockVars
  <2>. QED
    BY <1>1, <2>2, <2>3, <2>4 DEF RunIInv
<1>. QED
  BY <1>3, <1>4, <1>5, <1>6, <1>7, <1>8, <1>9, <1>10, <1>11 DEF RunNext

(* The invariant holds in every run. *)
THEOREM RunInvariance == RunSpec => []RunIInv
BY RunInitIInv, RunNextIInv, PTL DEF RunSpec

(* The program is one of the callers that ControlLoop allows for: all of    *)
(* ControlLoop's theorems hold of its run.                                  *)
THEOREM RunIsALoop == RunSpec => Spec
<1>1. RunInit => Init
  BY DEF RunInit
<1>. QED
  BY <1>1, RunStepsTheLoop, RunInvariance, PTL DEF RunSpec, Spec

(* A cycle never begins early, its lateness and the missed deadlines grow   *)
(* with the overruns only.                                                  *)
THEOREM RunIsOnSchedule == RunSpec => []OnSchedule
<1>1. RunIInv => OnSchedule
  <2> SUFFICES ASSUME RunIInv PROVE OnSchedule
    OBVIOUS
  <2>1. InTime /\ RunTypeOK /\ {Period, Usual, Worst, MaxLatency} \subseteq Nat
        /\ Period <= Worst /\ Usual < Period
    BY TimingAssumption DEF RunIInv
  <2>2. at = "cycle" /\ ~options.fast
          => now - cycle * Period \in 0 .. MaxLatency + overruns * (Worst - Period)
    BY <2>1 DEF InTime, Lag, MaxGain
  <2>3. Backlog \in Nat
    <3>1. Lag \in Int /\ MaxLatency \in Nat
      BY <2>1 DEF Lag, RunTypeOK
    <3>. QED
      BY <3>1 DEF Backlog
  <2>4. /\ (deadline_misses - overruns) * Slack \in Int
        /\ overruns * (MaxGain + MaxLatency) \in Int
    <3>1. deadline_misses - overruns \in Int /\ Slack \in Int
          /\ overruns \in Int /\ MaxGain + MaxLatency \in Int
      BY <2>1 DEF RunTypeOK, Slack, MaxGain
    <3>. QED
      BY <3>1, Products
  <2>5. (deadline_misses - overruns) * Slack <= overruns * (MaxGain + MaxLatency)
    BY <2>1, <2>3, <2>4 DEF InTime
  <2>. QED
    BY <2>2, <2>5 DEF OnSchedule, Slack, MaxGain
<1>. QED
  BY <1>1, RunInvariance, PTL

(* An early end means an axis at rest at its target, exit code 0 one that   *)
(* is at its target.                                                        *)
THEOREM OutcomeIsTold == RunSpec => []OutcomeIsTrue
<1>1. RunIInv => OutcomeIsTrue
  BY DEF RunIInv
<1>. QED
  BY <1>1, RunInvariance, PTL

(* run_for finds the axis on its way to the target that was asked for, and  *)
(* the run is this one motion.                                              *)
THEOREM RunIsOneMotion == RunSpec => OneMotion
<1>1. RunIInv => RunStarts
  BY DEF RunIInv, OnScript, Risen, RunStarts, Ascent
<1>2. ASSUME RunIInv, [RunNext]_runVars, at = "cycle", machine.state # "running"
      PROVE  machine'.state # "running"
  <2>1. ASSUME Step PROVE machine'.state # "running"
    BY <1>2, <2>1, IterateUnderWay DEF RunIInv, UnderWay, Ascent
  <2>2. machine' = machine \/ Step
    BY <1>2 DEF RunNext, ShowHelp, ParseOptions, SendCommand, StepOnce, OpenCsv, Iterate,
                RunOut, Exit, runVars
  <2>. QED
    BY <1>2, <2>1, <2>2
<1>3. RunIInv /\ [RunNext]_runVars =>
        [at = "cycle" /\ machine.state # "running" => machine'.state # "running"]_runVars
  BY <1>2
<1>. QED
  BY <1>1, <1>3, RunInvariance, PTL DEF RunSpec, OneMotion

=============================================================================
