------------------------ MODULE TrapezoidalTrajectory ------------------------
(* The trapezoidal velocity profile.  Time is counted in ticks, of which a  *)
(* control cycle has Dt, so that a phase may end within a cycle; positions, *)
(* speeds and accelerations are integers.  Profile says for which motions   *)
(* all the divisions and the square root of the code come out even.         *)
EXTENDS Integers

CONSTANT Dt   \* dt_seconds, in ticks

ASSUME DtAssumption == Dt \in Nat \ {0}

Magnitude(x) == IF x < 0 THEN -x ELSE x

SquareRoot(n) == CHOOSE root \in 0 .. n : root * root = n

(* 0.5 * acceleration * time * time *)
RampDistance(acceleration, time) == (acceleration * time * time) \div 2

NewTrapezoid ==
    [start |-> 0, target |-> 0, reference |-> 0, velocity |-> 0,
     max_velocity |-> 0, acceleration |-> 0, direction |-> 1, peak |-> 0,
     acceleration_time |-> 0, cruise_time |-> 0, elapsed |-> 0, total |-> 0,
     active |-> FALSE]

(* The limits of the last motion stay behind.                               *)
TrapezoidReset(t, position) ==
    [NewTrapezoid EXCEPT !.start = position, !.target = position,
                         !.reference = position,
                         !.max_velocity = t.max_velocity,
                         !.acceleration = t.acceleration]

(* The two ramps, up and down, leave no room for cruising. *)
IsTriangle(distance, v, a) == 2 * RampDistance(a, v \div a) >= distance

IsEven(distance, v, a) ==
    /\ v % a = 0 /\ a % 2 = 0
    /\ IF IsTriangle(distance, v, a)
       THEN distance % a = 0 /\ \E root \in 0 .. distance : root * root = distance \div a
       ELSE (distance - 2 * RampDistance(a, v \div a)) % v = 0

AccelerationTime(distance, v, a) ==
    IF IsTriangle(distance, v, a) THEN SquareRoot(distance \div a) ELSE v \div a

CruiseTime(distance, v, a) ==
    IF IsTriangle(distance, v, a) THEN 0
    ELSE (distance - 2 * RampDistance(a, v \div a)) \div v

(* A defect: a short motion is given the speed of a long one. *)
PeakUnlimited(distance, v, a) == v

Peak(distance, v, a) ==
    IF IsTriangle(distance, v, a) THEN a * AccelerationTime(distance, v, a) ELSE v

(* A defect: the sign of the target passes for the sign of the motion.      *)
DirectionOfTarget(start, target) == IF target > 0 THEN 1 ELSE -1

Direction(start, target) == IF target >= start THEN 1 ELSE -1

(* The motion begins where the reference is, and takes it to be at rest.    *)
TrapezoidSetTarget(t, target, v, a) ==
    LET distance == Magnitude(target - t.reference)
    IN [start |-> t.reference, target |-> target, reference |-> t.reference,
        velocity |-> t.velocity, max_velocity |-> v, acceleration |-> a,
        direction |-> Direction(t.reference, target),
        peak |-> Peak(distance, v, a),
        acceleration_time |-> AccelerationTime(distance, v, a),
        cruise_time |-> CruiseTime(distance, v, a),
        elapsed |-> 0,
        total |-> 2 * AccelerationTime(distance, v, a) + CruiseTime(distance, v, a),
        active |-> distance > 0]

(* How far a profile has come at a time before its end, and how fast it is. *)
Accelerating(t, time) ==
    [distance |-> RampDistance(t.acceleration, time),
     speed |-> t.acceleration * time]

Cruising(t, time) ==
    [distance |-> RampDistance(t.acceleration, t.acceleration_time)
                  + t.peak * (time - t.acceleration_time),
     speed |-> t.peak]

Braking(t, time) ==
    LET braked == time - t.acceleration_time - t.cruise_time
    IN [distance |-> RampDistance(t.acceleration, t.acceleration_time)
                     + t.peak * t.cruise_time + t.peak * braked
                     - RampDistance(t.acceleration, braked),
        speed |-> t.peak - t.acceleration * braked]

Profile(t, time) ==
    IF time < t.acceleration_time THEN Accelerating(t, time)
    ELSE IF time < t.acceleration_time + t.cruise_time THEN Cruising(t, time)
    ELSE Braking(t, time)

(* A defect: the elapsed time does not add up. *)
ElapsedOnce(t) == IF Dt < t.total THEN Dt ELSE t.total

Elapsed(t) == IF t.elapsed + Dt < t.total THEN t.elapsed + Dt ELSE t.total

TrapezoidUpdate(t) ==
    IF ~t.active THEN t
    ELSE IF Elapsed(t) < t.total
    THEN [t EXCEPT !.elapsed = Elapsed(t),
                   !.reference = t.start + t.direction * Profile(t, Elapsed(t)).distance,
                   !.velocity = t.direction * Profile(t, Elapsed(t)).speed]
    ELSE [t EXCEPT !.elapsed = Elapsed(t), !.reference = t.target,
                   !.velocity = 0, !.active = FALSE]

=============================================================================
