--------------------------- MODULE AxisRegulation ----------------------------
(* The part of a control cycle that makes a torque: while the axis runs,    *)
(* the trajectory gives a reference and the PID controller follows it; else *)
(* the controller is reset.  When the axis starts and stops is left open    *)
(* here (ControlLoop decides it), and so is how the servo moves.            *)
EXTENDS TrapezoidalTrajectory, PidController, OpenTrajectory

CONSTANTS
    Motion,        \* motions considered: a target and two limits
    Rest,          \* positions of the servo from which a motion may begin
    MaxLag,        \* bound: how far the servo is from its reference after a cycle
    MaxError       \* bound: errors considered

ASSUME BoundAssumption == MaxLag \in Nat /\ MaxError \in Nat
ASSUME MotionAssumption ==
    Motion \subseteq [target : Position, max_velocity : Nat \ {0},
                      max_acceleration : Nat \ {0}]
(* No gap between two positions; motions begin and end at one of them.      *)
ASSUME IntervalAssumption ==
    /\ \A a, b \in Position : a .. b \subseteq Position
    /\ Rest \subseteq Position

VARIABLES
    running,      \* the state machine is in "running"
    trajectory,   \* trajectory_
    controller,   \* controller_
    servo,        \* plant_.state().position_rad
    torque        \* the torque that the last cycle commanded

vars == <<running, trajectory, controller, servo, torque>>

Error == -MaxError .. MaxError

Init ==
    /\ running = FALSE
    /\ servo \in Rest
    /\ trajectory = TrapezoidReset(NewTrapezoid, servo)
    /\ controller = PidReset
    /\ torque = 0

(* Trajectory, controller and servo in turn, from a trajectory and a        *)
(* controller that the cycle may have reset before.                         *)
Regulated(t, c) ==
    /\ running' = TRUE
    /\ trajectory' = TrapezoidUpdate(t)
    /\ LET error == trajectory'.reference - servo
       IN /\ error \in Error
          /\ \E derivative \in FilteredDerivative(c, error) :
                 /\ controller' = PidUpdate(c, error, derivative)
                 /\ torque' = PidOutput(c, error, derivative)
    /\ \E lag \in -MaxLag .. MaxLag : servo' = trajectory'.reference - lag

Prepared(motion) ==
    TrapezoidSetTarget(TrapezoidReset(trajectory, servo), motion.target,
                       motion.max_velocity, motion.max_acceleration)

(* The first cycle of a motion. *)
Begin(motion) ==
    /\ ~running
    /\ IsEven(Magnitude(motion.target - servo), motion.max_velocity,
              motion.max_acceleration)
    /\ Regulated(Prepared(motion), PidReset)

Regulate == running /\ Regulated(trajectory, controller)

(* A cycle that does not run the axis, which meanwhile goes anywhere. *)
Stop ==
    /\ running' = FALSE
    /\ controller' = PidReset
    /\ torque' = 0
    /\ servo' \in Rest
    /\ UNCHANGED trajectory

Next == (\E motion \in Motion : Begin(motion)) \/ Regulate \/ Stop

Spec == Init /\ [][Next]_vars

FairSpec == Spec /\ WF_vars(Regulate)

-----------------------------------------------------------------------------
(* The reference of every cycle keeps the limits of its motion: it is never *)
(* faster than max_velocity, gains or loses no more speed in a cycle than   *)
(* max_acceleration allows, and moves no further than max_velocity does.    *)
(* A cycle may span two phases, or the end of the profile.                  *)
KeepsLimits ==
    [][running' =>
         LET from == IF running THEN trajectory
                     ELSE TrapezoidReset(trajectory, servo)
             v == trajectory'.max_velocity
         IN /\ Magnitude(trajectory'.velocity) <= v
            /\ Magnitude(trajectory'.velocity - from.velocity)
                 <= trajectory'.acceleration * Dt
            /\ Magnitude(trajectory'.reference - from.reference) <= v * Dt]_vars

(* The profile is one that ControlLoop reckons with. *)
Open(t) == [reference |-> t.reference, target |-> t.target, active |-> t.active]

ImplementsOpenTrajectory ==
    [][running' =>
         Open(trajectory') \in
             TrajectoryUpdate(
                 IF running THEN Open(trajectory)
                 ELSE SetTarget(TrajectoryReset(servo), trajectory'.target))]_vars

(* A profile that is followed ends. *)
ProfileEnds == <>[]running => <>[]~trajectory.active

(* The integral does not wind up: however long the output is saturated, the *)
(* integral term leaves the output's range by no more than the derivative   *)
(* term can make up for.                                                    *)
NoWindup ==
    Ki * controller.integral \in
        MinimumOutput - Kd * (2 * MaxError) .. MaximumOutput + Kd * (2 * MaxError)

(* ... and an integral that is held is released: an error that keeps the    *)
(* other sign takes the output off its limit, time and again if need be.    *)
SaturationEnds ==
    /\ <>[](running /\ controller.previous_error < 0) => []<>(torque < MaximumOutput)
    /\ <>[](running /\ controller.previous_error > 0) => []<>(torque > MinimumOutput)

=============================================================================
