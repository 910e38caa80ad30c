------------------------ MODULE AxisRegulationProofs ------------------------
(* Theorems about AxisRegulation, for all gains, output limits, motions,    *)
(* lengths of a cycle and bounds: the PID controller's integral does not    *)
(* wind up, and the trajectory keeps its limits and is one that ControlLoop *)
(* reckons with.                                                            *)
EXTENDS AxisRegulation, TLAPS

(* The integral term's range. *)
Slack == Kd * (2 * MaxError)

Tame(integral) ==
    /\ Ki * integral <= MaximumOutput + Slack
    /\ Ki * integral >= MinimumOutput - Slack

ControllerOK ==
    /\ controller.integral \in Int
    /\ controller.previous_error \in Error
    /\ controller.filtered_derivative \in -(2 * MaxError) .. 2 * MaxError

IInv == ControllerOK /\ Tame(controller.integral)

-----------------------------------------------------------------------------
(* A gain keeps the sign of what it is applied to ...                       *)
LEMMA ProductSign ==
    ASSUME NEW a \in Nat, NEW b \in Int
    PROVE  /\ a * b \in Int
           /\ b >= 0 => a * b >= 0
           /\ b <= 0 => a * b <= 0
OBVIOUS

(* ... distributes over a sum ...                                           *)
LEMMA ProductOfSum ==
    ASSUME NEW a \in Nat, NEW b \in Int, NEW c \in Int
    PROVE  a * (b + c) = a * b + a * c
OBVIOUS

(* ... and keeps bounds.                                                    *)
LEMMA ProductBounded ==
    ASSUME NEW a \in Nat, NEW m \in Nat, NEW b \in -m .. m
    PROVE  /\ a * b \in Int /\ a * m \in Nat
           /\ a * b <= a * m
           /\ a * b >= -(a * m)
<1>1. m - b \in Int /\ m - b >= 0 /\ m + b \in Int /\ m + b >= 0
  OBVIOUS
<1>2. a * (m - b) >= 0 /\ a * (m + b) >= 0
  BY <1>1, ProductSign
<1>3. a * (m - b) = a * m - a * b /\ a * (m + b) = a * m + a * b
  OBVIOUS
<1>4. a * b \in Int /\ a * m \in Nat
  BY ProductSign
<1>. QED
  BY <1>2, <1>3, <1>4

(* The raw derivative, and whatever the filter makes of it, is the          *)
(* difference of two errors at most.                                        *)
LEMMA DerivativeBounded ==
    ASSUME NEW c, c.previous_error \in Error,
           c.filtered_derivative \in -(2 * MaxError) .. 2 * MaxError,
           NEW error \in Error, NEW derivative \in FilteredDerivative(c, error)
    PROVE  derivative \in -(2 * MaxError) .. 2 * MaxError
<1>1. MaxError \in Nat
  BY BoundAssumption
<1>2. RawDerivative(c, error) \in -(2 * MaxError) .. 2 * MaxError
  BY <1>1 DEF RawDerivative, Error
<1>. QED
  BY <1>1, <1>2 DEF FilteredDerivative

(* One update keeps the integral term in its range: an update that changes  *)
(* it is unsaturated, or changes it towards the other end of the range.     *)
LEMMA UpdateTame ==
    ASSUME NEW c, c.integral \in Int, Tame(c.integral),
           NEW error \in Error,
           NEW derivative \in -(2 * MaxError) .. 2 * MaxError
    PROVE  /\ PidUpdate(c, error, derivative).integral \in Int
           /\ Tame(PidUpdate(c, error, derivative).integral)
<1> DEFINE u == Unsaturated(c, error, derivative)
           proportional == Kp * error
           before == Ki * c.integral
           after == Ki * (c.integral + error)
           damping == Kd * derivative
<1>1. /\ {Kp, Ki, Kd} \subseteq Nat /\ MaxError \in Nat /\ error \in Int
      /\ MinimumOutput \in Int /\ MaximumOutput \in Int
      /\ MinimumOutput <= MaximumOutput
  BY GainAssumption, BoundAssumption, OutputAssumption DEF Error
<1>2. /\ proportional \in Int
      /\ error >= 0 => proportional >= 0
      /\ error <= 0 => proportional <= 0
  BY <1>1, ProductSign
<1>3. /\ before \in Int /\ after \in Int
      /\ error >= 0 => after >= before
      /\ error <= 0 => after <= before
  <2>1. after = before + Ki * error
    BY <1>1, ProductOfSum
  <2>2. before \in Int /\ c.integral + error \in Int /\ Ki \in Nat
    BY <1>1, ProductSign
  <2>3. /\ Ki * error \in Int
        /\ error >= 0 => Ki * error >= 0
        /\ error <= 0 => Ki * error <= 0
    BY <1>1, ProductSign
  <2> HIDE DEF before, after
  <2>. QED
    BY <2>1, <2>2, <2>3
<1>4. damping \in Int /\ Slack \in Nat /\ damping <= Slack /\ damping >= -Slack
  <2>1. 2 * MaxError \in Nat /\ Kd \in Nat
    BY <1>1
  <2>. QED
    BY <2>1, ProductBounded DEF Slack
<1>5. u = proportional + after + damping
  BY DEF Unsaturated
<1>6. before <= MaximumOutput + Slack /\ before >= MinimumOutput - Slack
  BY DEF Tame
<1>7. CASE Integrates(c, error, derivative)
  <2>1. PidUpdate(c, error, derivative).integral = c.integral + error
    BY <1>7 DEF PidUpdate
  <2>2. /\ u > MaximumOutput => error < 0
        /\ u < MinimumOutput => error > 0
    BY <1>7 DEF Integrates
  <2>3. error > 0 \/ error = 0 \/ error < 0
    BY <1>1
  <2>4. after <= MaximumOutput + Slack /\ after >= MinimumOutput - Slack
    <3> HIDE DEF u, proportional, before, after, damping
    <3>. QED
      BY <1>1, <1>2, <1>3, <1>4, <1>5, <1>6, <2>2, <2>3
  <2>. QED
    BY <1>1, <2>1, <2>4 DEF Tame
<1>8. CASE ~Integrates(c, error, derivative)
  BY <1>8 DEF PidUpdate
<1>. QED
  BY <1>7, <1>8

(* A controller that is reset remembers nothing. *)
LEMMA ResetTame ==
    /\ PidReset.integral \in Int
    /\ PidReset.previous_error \in Error
    /\ PidReset.filtered_derivative \in -(2 * MaxError) .. 2 * MaxError
    /\ Tame(PidReset.integral)
<1>1. /\ {Ki, Kd} \subseteq Nat /\ MaxError \in Nat
      /\ MinimumOutput \in Int /\ MaximumOutput \in Int
      /\ MinimumOutput <= 0 /\ 0 <= MaximumOutput
  BY GainAssumption, BoundAssumption, OutputAssumption
<1>2. Slack \in Nat /\ Ki * 0 = 0
  <2>1. 2 * MaxError \in Nat /\ Kd \in Nat /\ 0 \in -(2 * MaxError) .. 2 * MaxError
    BY <1>1
  <2>. QED
    BY <1>1, <2>1, ProductBounded DEF Slack
<1>. QED
  BY <1>1, <1>2 DEF PidReset, Error, Tame

(* A regulated cycle, from any controller that keeps the invariant. *)
LEMMA RegulatedIInv ==
    ASSUME NEW t, NEW c, Regulated(t, c),
           c.integral \in Int, c.previous_error \in Error,
           c.filtered_derivative \in -(2 * MaxError) .. 2 * MaxError,
           Tame(c.integral)
    PROVE  IInv'
<1> DEFINE error == trajectory'.reference - servo
<1>0. error \in Error
  BY DEF Regulated
<1>1. PICK derivative \in FilteredDerivative(c, error) :
          controller' = PidUpdate(c, error, derivative)
  BY DEF Regulated
<1> HIDE DEF error
<1>2. derivative \in -(2 * MaxError) .. 2 * MaxError
  BY <1>0, <1>1, DerivativeBounded
<1>3. /\ PidUpdate(c, error, derivative).integral \in Int
      /\ Tame(PidUpdate(c, error, derivative).integral)
  BY <1>0, <1>2, UpdateTame
<1>4. /\ PidUpdate(c, error, derivative).previous_error = error
      /\ PidUpdate(c, error, derivative).filtered_derivative = derivative
  BY DEF PidUpdate
<1>. QED
  BY <1>0, <1>1, <1>2, <1>3, <1>4 DEF IInv, ControllerOK, Tame, Error, Slack

-----------------------------------------------------------------------------
LEMMA Invariance == Spec => []IInv
<1>1. Init => IInv
  BY ResetTame DEF Init, IInv, ControllerOK
<1>2. IInv /\ [Next]_vars => IInv'
  <2> SUFFICES ASSUME IInv, [Next]_vars PROVE IInv'
    OBVIOUS
  <2>1. ASSUME NEW motion \in Motion, Begin(motion) PROVE IInv'
    BY <2>1, ResetTame, RegulatedIInv DEF Begin
  <2>2. CASE Regulate
    BY <2>2, RegulatedIInv DEF Regulate, IInv, ControllerOK
  <2>3. CASE Stop
    <3>1. controller' = PidReset
      BY <2>3 DEF Stop
    <3>. QED
      BY <3>1, ResetTame DEF IInv, ControllerOK, Tame, Error, Slack
  <2>4. CASE UNCHANGED vars
    BY <2>4 DEF vars, IInv, ControllerOK, Tame, Error, Slack
  <2>. QED
    BY <2>1, <2>2, <2>3, <2>4 DEF Next
<1>. QED
  BY <1>1, <1>2, PTL DEF Spec

(* However long the output is saturated, the integral term exceeds the      *)
(* output's range by no more than the derivative term can make up for.      *)
THEOREM IntegralDoesNotWindUp == Spec => []NoWindup
<1>1. IInv => NoWindup
  <2> SUFFICES ASSUME IInv PROVE NoWindup
    OBVIOUS
  <2>1. /\ {Ki, Kd} \subseteq Nat /\ MaxError \in Nat
        /\ MinimumOutput \in Int /\ MaximumOutput \in Int
    BY GainAssumption, BoundAssumption, OutputAssumption
  <2>2. Ki * controller.integral \in Int
    BY <2>1, ProductSign DEF IInv, ControllerOK
  <2>3. Slack \in Nat
    <3>1. 2 * MaxError \in Nat /\ Kd \in Nat /\ 0 \in -(2 * MaxError) .. 2 * MaxError
      BY <2>1
    <3>. QED
      BY <3>1, ProductBounded DEF Slack
  <2>4. /\ Ki * controller.integral <= MaximumOutput + Slack
        /\ Ki * controller.integral >= MinimumOutput - Slack
    BY DEF IInv, Tame
  <2>5. Ki * controller.integral \in MinimumOutput - Slack .. MaximumOutput + Slack
    BY <2>1, <2>2, <2>3, <2>4
  <2>. QED
    BY <2>5 DEF NoWindup, Slack
<1>. QED
  BY <1>1, Invariance, PTL

-----------------------------------------------------------------------------
(* The trajectory.  First what its arithmetic comes to when divisions and   *)
(* roots come out even.                                                     *)

(* A division that comes out even is undone by the product ...             *)
LEMMA Divides ==
    ASSUME NEW n \in Nat, NEW m \in Nat \ {0}, n % m = 0
    PROVE  n \div m \in Nat /\ m * (n \div m) = n
OBVIOUS

(* ... so an even acceleration has a half ...                               *)
LEMMA Halves ==
    ASSUME NEW a \in Nat, a % 2 = 0
    PROVE  a \div 2 \in Nat /\ a = 2 * (a \div 2)
OBVIOUS

(* ... and half of a product with it is a product with the half.            *)
LEMMA HalfOfProduct ==
    ASSUME NEW a \in Nat, a % 2 = 0, NEW n \in Int
    PROVE  /\ a \div 2 \in Nat /\ a = 2 * (a \div 2)
           /\ (a * n) \div 2 = (a \div 2) * n
<1>1. PICK h \in Nat : a = 2 * h
  OBVIOUS
<1>2. a \div 2 = h
  BY <1>1
<1>3. h * n \in Int /\ a * n = 2 * (h * n)
  BY <1>1
<1>4. (2 * (h * n)) \div 2 = h * n
  BY <1>3
<1>. QED
  BY <1>1, <1>2, <1>3, <1>4

(* A product with a number that is not negative grows with the other.       *)
LEMMA ProductGrows ==
    ASSUME NEW a \in Nat, NEW b \in Int, NEW c \in Int, b <= c
    PROVE  a * b \in Int /\ a * c \in Int /\ a * b <= a * c
OBVIOUS

(* Along a ramp the distance grows by no more than the ramp's final speed   *)
(* allows.                                                                  *)
LEMMA RampGrows ==
    ASSUME NEW h \in Nat, NEW top \in Nat, NEW x \in 0 .. top, NEW y \in x .. top
    PROVE  /\ h * x * x \in Nat /\ h * y * y \in Nat /\ (2 * h * top) * (y - x) \in Nat
           /\ h * x * x <= h * y * y
           /\ h * y * y - h * x * x <= (2 * h * top) * (y - x)
<1>1. h * y * y - h * x * x = (h * (y + x)) * (y - x)
  OBVIOUS
<1>2. h * (y + x) <= h * (2 * top) /\ h * (y + x) \in Nat /\ y - x \in Nat
  OBVIOUS
<1>3. (h * (y + x)) * (y - x) <= (h * (2 * top)) * (y - x)
  BY <1>2
<1>. QED
  BY <1>1, <1>2, <1>3

(* The root of a square.                                                    *)
LEMMA SquareRootIs ==
    ASSUME NEW n \in Nat, NEW m \in Nat, \E root \in 0 .. m : root * root = n
    PROVE  SquareRoot(n) \in Nat /\ SquareRoot(n) * SquareRoot(n) = n
<1>1. PICK root \in 0 .. m : root * root = n
  OBVIOUS
<1>2. root <= root * root
  <2>1. root = 0 \/ root >= 1
    BY <1>1
  <2>. QED
    BY <1>1, <2>1
<1>3. root \in 0 .. n
  BY <1>1, <1>2
<1>. QED
  BY <1>1, <1>3 DEF SquareRoot

(* The distances of the three phases add up, and so do their growths.       *)
LEMMA PhasesAddUp ==
    ASSUME NEW d1, NEW d2, NEW p1 \in Nat, NEW p2 \in Nat, NEW q1 \in Nat, NEW q2 \in Nat,
           NEW m1 \in Int, NEW m2 \in Int, NEW n1 \in Int, NEW n2 \in Int,
           NEW x \in Nat, NEW y \in Nat, NEW z \in Nat, NEW w,
           d1 = p1 + m1 + (n1 - q1), d2 = p2 + m2 + (n2 - q2),
           p1 <= p2, p2 - p1 <= x, y = m2 - m1,
           q1 <= q2, q2 - q1 <= z, z = n2 - n1, x + y + z = w
    PROVE  d1 \in Int /\ d2 \in Int /\ d2 - d1 \in 0 .. w
OBVIOUS

(* No time, no way. *)
LEMMA TimesZero ==
    ASSUME NEW h \in Nat
    PROVE  h * 0 = 0 /\ h * 0 * 0 = 0
OBVIOUS

(* A square grows with its root only.                                       *)
LEMMA RootsGrow ==
    ASSUME NEW x \in Nat, NEW y \in Nat, x * x <= y * y
    PROVE x <= y
OBVIOUS

(* 0.5 * acceleration *)
HalfOf(t) == t.acceleration \div 2

(* What set_target leaves behind of a motion that leads somewhere: ramps    *)
(* that take time, a peak within the limit, and phases that span the way.   *)
Planned(t) ==
    /\ t.acceleration \in Nat \ {0} /\ t.acceleration % 2 = 0
    /\ t.acceleration_time \in Nat \ {0} /\ t.cruise_time \in Nat
    /\ t.peak = t.acceleration * t.acceleration_time
    /\ t.max_velocity \in Nat /\ t.peak <= t.max_velocity
    /\ t.total = 2 * t.acceleration_time + t.cruise_time
    /\ t.start \in Int /\ t.direction \in {1, -1}
    /\ t.target = t.start
                  + t.direction * (t.peak * (t.acceleration_time + t.cruise_time))

(* How long, by a time, the profile has been speeding up, cruising and      *)
(* slowing down.                                                            *)
Risen(t, time) == IF time < t.acceleration_time THEN time ELSE t.acceleration_time
Cruised(t, time) ==
    IF time < t.acceleration_time THEN 0
    ELSE IF time < t.acceleration_time + t.cruise_time THEN time - t.acceleration_time
    ELSE t.cruise_time
Braked(t, time) ==
    IF time < t.acceleration_time + t.cruise_time THEN 0
    ELSE time - t.acceleration_time - t.cruise_time

(* The ramp's distance, without the division. *)
LEMMA RampDistanceIs ==
    ASSUME NEW a \in Nat, a % 2 = 0, NEW x \in Nat
    PROVE  RampDistance(a, x) = (a \div 2) * x * x /\ (a \div 2) * x * x \in Nat
<1>1. x * x \in Int /\ a * x * x = a * (x * x) /\ a \div 2 \in Nat
  BY HalfOfProduct
<1>2. (a \div 2) * (x * x) = (a \div 2) * x * x
  BY <1>1
<1>. QED
  BY <1>1, <1>2, HalfOfProduct DEF RampDistance

(* The three durations add up, and slowing down takes no longer than         *)
(* speeding up.                                                             *)
LEMMA TimesInPhases ==
    ASSUME NEW t, Planned(t), NEW time \in 0 .. t.total
    PROVE  /\ Risen(t, time) \in 0 .. t.acceleration_time
           /\ Cruised(t, time) \in 0 .. t.cruise_time
           /\ Braked(t, time) \in 0 .. Risen(t, time)
           /\ Risen(t, time) + Cruised(t, time) + Braked(t, time) = time
BY DEF Planned, Risen, Cruised, Braked

(* The three branches of Profile are one sum over the three phases: they    *)
(* agree where one phase passes into the next.                              *)
LEMMA ProfileInPhases ==
    ASSUME NEW t, Planned(t), NEW time \in 0 .. t.total
    PROVE  /\ Profile(t, time).distance =
                HalfOf(t) * Risen(t, time) * Risen(t, time)
                + t.peak * Cruised(t, time)
                + (t.peak * Braked(t, time)
                   - HalfOf(t) * Braked(t, time) * Braked(t, time))
           /\ Profile(t, time).speed =
                t.acceleration * Risen(t, time) - t.acceleration * Braked(t, time)
<1> DEFINE a == t.acceleration
           ta == t.acceleration_time
           tc == t.cruise_time
<1>1. a \in Nat /\ a % 2 = 0 /\ ta \in Nat /\ tc \in Nat /\ time \in Nat
      /\ t.peak = a * ta /\ t.peak \in Nat /\ HalfOf(t) \in Nat
  BY HalfOfProduct DEF Planned, HalfOf
<1>2. \A x \in Nat : RampDistance(a, x) = HalfOf(t) * x * x /\ HalfOf(t) * x * x \in Nat
  BY <1>1, RampDistanceIs DEF HalfOf
<1>3. CASE time < ta
  <2>1. /\ Profile(t, time).distance = RampDistance(a, time)
        /\ Profile(t, time).speed = a * time
    BY <1>3 DEF Profile, Accelerating
  <2>2. Risen(t, time) = time /\ Cruised(t, time) = 0 /\ Braked(t, time) = 0
    BY <1>1, <1>3 DEF Risen, Cruised, Braked
  <2>3. /\ RampDistance(a, time) = HalfOf(t) * time * time
        /\ HalfOf(t) * time * time \in Nat
    BY <1>1, <1>2
  <2>4. a * time \in Nat
    BY <1>1
  <2>5. /\ HalfOf(t) * 0 * 0 = 0 /\ t.peak * 0 = 0 /\ a * 0 = 0
    BY <1>1, TimesZero
  <2>. QED
    BY <2>1, <2>2, <2>3, <2>4, <2>5
<1>4. CASE ta <= time /\ time < ta + tc
  <2>1. /\ Profile(t, time).distance = RampDistance(a, ta) + t.peak * (time - ta)
        /\ Profile(t, time).speed = t.peak
    BY <1>1, <1>4 DEF Profile, Cruising
  <2>2. Risen(t, time) = ta /\ Cruised(t, time) = time - ta /\ Braked(t, time) = 0
    BY <1>1, <1>4 DEF Risen, Cruised, Braked
  <2>3. /\ RampDistance(a, ta) = HalfOf(t) * ta * ta
        /\ HalfOf(t) * ta * ta \in Nat
    BY <1>1, <1>2
  <2>4. t.peak * (time - ta) \in Int /\ a * ta \in Int
    BY <1>1
  <2>5. /\ HalfOf(t) * 0 * 0 = 0 /\ t.peak * 0 = 0 /\ a * 0 = 0
    BY <1>1, TimesZero
  <2>6. t.peak = a * ta - 0
    BY <1>1, <2>4
  <2>7. RampDistance(a, ta) + t.peak * (time - ta)
          = HalfOf(t) * ta * ta + t.peak * (time - ta) + (0 - 0)
    BY <2>3, <2>4
  <2>. QED
    BY <2>1, <2>2, <2>5, <2>6, <2>7
<1>5. CASE ta + tc <= time
  <2>1. ~(time < ta) /\ ~(time < ta + tc)
    BY <1>1, <1>5
  <2> DEFINE b == time - ta - tc
  <2>2. b \in Nat /\ Risen(t, time) = ta /\ Cruised(t, time) = tc /\ Braked(t, time) = b
    BY <1>1, <1>5, <2>1 DEF Risen, Cruised, Braked
  <2>3. Profile(t, time) = Braking(t, time)
    BY <2>1 DEF Profile
  <2> HIDE DEF b
  <2>4. /\ Braking(t, time).distance =
             RampDistance(a, ta) + t.peak * tc + t.peak * b - RampDistance(a, b)
        /\ Braking(t, time).speed = t.peak - a * b
    BY DEF Braking, b
  <2>5. t.peak * tc \in Int /\ t.peak * b \in Int /\ a * b \in Int
    BY <1>1, <2>2
  <2>6. /\ RampDistance(a, ta) = HalfOf(t) * ta * ta /\ HalfOf(t) * ta * ta \in Nat
        /\ RampDistance(a, b) = HalfOf(t) * b * b /\ HalfOf(t) * b * b \in Nat
    BY <1>1, <1>2, <2>2
  <2>. QED
    BY <1>1, <2>2, <2>3, <2>4, <2>5, <2>6
<1>. QED
  BY <1>1, <1>3, <1>4, <1>5

(* Between two times the distance grows by no more than the peak allows and *)
(* the speed changes by no more than the acceleration.                      *)
LEMMA ProfileMoves ==
    ASSUME NEW t, Planned(t), NEW from \in 0 .. t.total, NEW to \in from .. t.total
    PROVE  /\ Profile(t, from).distance \in Int /\ Profile(t, to).distance \in Int
           /\ Profile(t, from).speed \in 0 .. t.peak /\ Profile(t, to).speed \in 0 .. t.peak
           /\ Profile(t, to).distance - Profile(t, from).distance
                \in 0 .. t.peak * (to - from)
           /\ Profile(t, to).speed - Profile(t, from).speed
                \in -(t.acceleration * (to - from)) .. t.acceleration * (to - from)
<1> DEFINE a == t.acceleration
           h == HalfOf(t)
           ta == t.acceleration_time
           r1 == Risen(t, from)    r2 == Risen(t, to)
           c1 == Cruised(t, from)  c2 == Cruised(t, to)
           b1 == Braked(t, from)   b2 == Braked(t, to)
<1>1. a \in Nat /\ ta \in Nat /\ t.peak = a * ta /\ t.peak \in Nat
      /\ h \in Nat /\ a = 2 * h /\ t.peak = 2 * h * ta
      /\ t.total \in Nat /\ from \in Nat /\ to \in Nat /\ to \in 0 .. t.total
      /\ from \in 0 .. t.total
  <2>1. a \in Nat /\ ta \in Nat /\ t.cruise_time \in Nat /\ t.peak = a * ta
        /\ a % 2 = 0 /\ t.total = 2 * ta + t.cruise_time
    BY DEF Planned
  <2>2. h \in Nat /\ a = 2 * h
    BY <2>1, Halves DEF HalfOf
  <2>. QED
    BY <2>1, <2>2
<1>2. /\ r1 \in 0 .. ta /\ r2 \in r1 .. ta
      /\ c1 \in Nat /\ c2 \in Nat /\ c1 <= c2
      /\ b1 \in 0 .. r1 /\ b2 \in b1 .. r2
      /\ (r2 - r1) + (c2 - c1) + (b2 - b1) = to - from
  <2>1. r1 <= r2 /\ c1 <= c2 /\ b1 <= b2
    BY <1>1 DEF Planned, Risen, Cruised, Braked
  <2>2. t.cruise_time \in Nat
    BY DEF Planned
  <2>3. /\ r1 \in 0 .. ta /\ c1 \in 0 .. t.cruise_time /\ b1 \in 0 .. r1
        /\ r1 + c1 + b1 = from
        /\ r2 \in 0 .. ta /\ c2 \in 0 .. t.cruise_time /\ b2 \in 0 .. r2
        /\ r2 + c2 + b2 = to
    BY <1>1, TimesInPhases
  <2> HIDE DEF ta, r1, r2, c1, c2, b1, b2
  <2>. QED
    BY <1>1, <2>1, <2>2, <2>3
<1>3. /\ Profile(t, from).distance = h*r1*r1 + t.peak*c1 + (t.peak*b1 - h*b1*b1)
      /\ Profile(t, to).distance = h*r2*r2 + t.peak*c2 + (t.peak*b2 - h*b2*b2)
      /\ Profile(t, from).speed = a*r1 - a*b1
      /\ Profile(t, to).speed = a*r2 - a*b2
  BY <1>1, ProfileInPhases
<1> DEFINE peak == t.peak
           d1 == Profile(t, from).distance  d2 == Profile(t, to).distance
           s1 == Profile(t, from).speed     s2 == Profile(t, to).speed
<1> HIDE DEF a, h, ta, r1, r2, c1, c2, b1, b2, peak, d1, d2, s1, s2
<1>4. /\ h*r1*r1 \in Nat /\ h*r2*r2 \in Nat /\ peak * (r2 - r1) \in Nat
      /\ h*r1*r1 <= h*r2*r2 /\ h*r2*r2 - h*r1*r1 <= peak * (r2 - r1)
  BY <1>1, <1>2, RampGrows DEF peak
<1>5. /\ h*b1*b1 \in Nat /\ h*b2*b2 \in Nat /\ peak * (b2 - b1) \in Nat
      /\ h*b1*b1 <= h*b2*b2 /\ h*b2*b2 - h*b1*b1 <= peak * (b2 - b1)
  <2>1. b1 \in 0 .. ta /\ b2 \in b1 .. ta
    BY <1>1, <1>2
  <2>. QED
    BY <1>1, <2>1, RampGrows DEF peak
<1>6. /\ peak*c1 \in Int /\ peak*c2 \in Int /\ peak*b1 \in Int /\ peak*b2 \in Int
      /\ peak * (c2 - c1) = peak*c2 - peak*c1 /\ peak * (c2 - c1) \in Nat
      /\ peak * (b2 - b1) = peak*b2 - peak*b1
      /\ peak * (r2 - r1) + peak * (c2 - c1) + peak * (b2 - b1) = peak * (to - from)
  <2>1. peak \in Nat /\ r2 - r1 \in Nat /\ c2 - c1 \in Nat /\ b2 - b1 \in Nat
        /\ c1 \in Nat /\ c2 \in Nat /\ b1 \in Nat /\ b2 \in Nat
    BY <1>1, <1>2 DEF peak
  <2>2. peak * (r2 - r1) + peak * (c2 - c1) + peak * (b2 - b1)
          = peak * ((r2 - r1) + (c2 - c1) + (b2 - b1))
    BY <2>1
  <2>3. /\ peak*c1 \in Int /\ peak*c2 \in Int /\ peak*b1 \in Int /\ peak*b2 \in Int
        /\ peak * (c2 - c1) = peak*c2 - peak*c1 /\ peak * (c2 - c1) \in Nat
        /\ peak * (b2 - b1) = peak*b2 - peak*b1
    BY <2>1
  <2>. QED
    BY <1>2, <2>2, <2>3
<1>7. d1 \in Int /\ d2 \in Int /\ d2 - d1 \in 0 .. peak * (to - from)
  <2>1. /\ d1 = h*r1*r1 + peak*c1 + (peak*b1 - h*b1*b1)
        /\ d2 = h*r2*r2 + peak*c2 + (peak*b2 - h*b2*b2)
    BY <1>3 DEF d1, d2, peak
  <2>. QED
    BY <2>1, <1>4, <1>5, <1>6, PhasesAddUp
<1>8. /\ a*r1 \in Int /\ a*r2 \in Int /\ a*b1 \in Int /\ a*b2 \in Int
      /\ 0 <= a*b1 /\ a*b1 <= a*r1 /\ a*r1 <= a*ta
      /\ 0 <= a*b2 /\ a*b2 <= a*r2 /\ a*r2 <= a*ta
      /\ a*r1 <= a*r2 /\ a*b1 <= a*b2
      /\ a*r2 - a*r1 <= a*(to - from) /\ a*b2 - a*b1 <= a*(to - from)
      /\ a*(to - from) \in Nat /\ a*ta \in Nat
  <2>1. a \in Nat /\ r1 \in Nat /\ r2 \in Nat /\ b1 \in Nat /\ b2 \in Nat /\ ta \in Nat
        /\ b1 <= r1 /\ r1 <= ta /\ b2 <= r2 /\ r2 <= ta /\ r1 <= r2 /\ b1 <= b2
        /\ r2 - r1 <= to - from /\ b2 - b1 <= to - from /\ to - from \in Nat
        /\ r2 - r1 \in Int /\ b2 - b1 \in Int
    BY <1>1, <1>2
  <2>2. a*(r2 - r1) = a*r2 - a*r1 /\ a*(b2 - b1) = a*b2 - a*b1
    BY <2>1
  <2>3. a*(r2 - r1) <= a*(to - from) /\ a*(b2 - b1) <= a*(to - from)
    BY <2>1, ProductGrows
  <2>. QED
    BY <2>1, <2>2, <2>3, ProductGrows
<1>9. /\ s1 \in 0 .. peak /\ s2 \in 0 .. peak
      /\ s2 - s1 \in -(a * (to - from)) .. a * (to - from)
  <2>1. s1 = a*r1 - a*b1 /\ s2 = a*r2 - a*b2 /\ peak = a*ta
    BY <1>1, <1>3 DEF s1, s2, peak
  <2>. QED
    BY <2>1, <1>8
<1>. QED
  BY <1>7, <1>9 DEF d1, d2, s1, s2, peak, a

-----------------------------------------------------------------------------
(* The variables of a TrapezoidalTrajectory. *)
Trapezoid ==
    [start : Int, target : Position, reference : Position, velocity : Int,
     max_velocity : Nat, acceleration : Nat, direction : {1, -1}, peak : Nat,
     acceleration_time : Nat, cruise_time : Nat, elapsed : Nat, total : Nat,
     active : BOOLEAN]

(* Where the profile has the reference at a time. *)
OnProfile(t, time) ==
    /\ t.reference = t.start + t.direction * Profile(t, time).distance
    /\ t.velocity = t.direction * Profile(t, time).speed

(* Planned and on its profile, or at its target and at rest. *)
TrajectoryOK(t) ==
    /\ t \in Trapezoid
    /\ t.active => Planned(t) /\ t.elapsed < t.total /\ OnProfile(t, t.elapsed)
    /\ ~t.active => t.velocity = 0 /\ t.reference = t.target

(* One cycle of a trajectory, from t to n. *)
Moves(t, n) ==
    /\ n.target = t.target
    /\ n.max_velocity = t.max_velocity /\ n.acceleration = t.acceleration
    /\ Magnitude(n.velocity) <= n.max_velocity
    /\ Magnitude(n.velocity - t.velocity) <= n.acceleration * Dt
    /\ Magnitude(n.reference - t.reference) <= n.max_velocity * Dt
    /\ Open(n) \in TrajectoryUpdate(Open(t))

(* A direction keeps magnitudes. *)
LEMMA Directed ==
    ASSUME NEW direction \in {1, -1}, NEW start \in Int,
           NEW x \in Int, NEW y \in Int
    PROVE  /\ direction * x \in Int /\ start + direction * x \in Int
           /\ Magnitude(direction * x) = Magnitude(x)
           /\ Magnitude(direction * y - direction * x) = Magnitude(y - x)
           /\ Magnitude((start + direction * y) - (start + direction * x)) = Magnitude(y - x)
           /\ direction = 1 => direction * x = x
           /\ direction = -1 => direction * x = -x
<1>1. 1 * x = x /\ 1 * y = y /\ (-1) * x = -x /\ (-1) * y = -y
  OBVIOUS
<1>2. CASE direction = 1
  BY <1>1, <1>2 DEF Magnitude
<1>3. CASE direction = -1
  BY <1>1, <1>3 DEF Magnitude
<1>. QED
  BY <1>2, <1>3

(* At its total time a profile is where set_target was asked to go, at rest. *)
LEMMA AtItsEnd ==
    ASSUME NEW t, Planned(t)
    PROVE  /\ Profile(t, t.total).distance
                = t.peak * (t.acceleration_time + t.cruise_time)
           /\ Profile(t, t.total).speed = 0
<1> DEFINE ta == t.acceleration_time
           tc == t.cruise_time
<1>1. /\ t.acceleration \in Nat /\ t.acceleration % 2 = 0
      /\ ta \in Nat /\ tc \in Nat /\ t.total = 2 * ta + tc
      /\ t.peak = t.acceleration * ta /\ t.peak \in Nat
  BY DEF Planned
<1>2. /\ Risen(t, t.total) = ta /\ Cruised(t, t.total) = tc /\ Braked(t, t.total) = ta
  BY <1>1 DEF Risen, Cruised, Braked
<1>3. t.total \in 0 .. t.total /\ HalfOf(t) \in Nat
  BY <1>1, Halves DEF HalfOf
<1>4. /\ Profile(t, t.total).distance =
           HalfOf(t) * ta * ta + t.peak * tc + (t.peak * ta - HalfOf(t) * ta * ta)
      /\ Profile(t, t.total).speed = t.acceleration * ta - t.acceleration * ta
  BY <1>2, <1>3, ProfileInPhases
<1>5. /\ HalfOf(t) * ta * ta \in Int /\ t.peak * tc \in Int /\ t.peak * ta \in Int
      /\ t.acceleration * ta \in Int
      /\ t.peak * (ta + tc) = t.peak * ta + t.peak * tc
  BY <1>1, <1>3
<1>. QED
  BY <1>4, <1>5

(* What lies between two positions is one. *)
LEMMA BetweenPositions ==
    ASSUME NEW a \in Position, NEW b \in Position, NEW p \in Int,
           (a <= p /\ p <= b) \/ (b <= p /\ p <= a)
    PROVE  p \in Between(a, b)
<1>1. p \in a .. b \/ p \in b .. a
  BY PositionAssumption
<1>. QED
  BY <1>1, IntervalAssumption DEF Between

(* An update of an active trajectory puts it on the profile at the new       *)
(* elapsed time, the end included: the jump to the target is none.          *)
LEMMA UpdateFields ==
    ASSUME NEW t \in Trapezoid, t.active, Planned(t), t.elapsed < t.total
    PROVE  LET n == TrapezoidUpdate(t)
           IN /\ n = [t EXCEPT !.elapsed = n.elapsed, !.reference = n.reference,
                               !.velocity = n.velocity, !.active = n.active]
              /\ n.elapsed = Elapsed(t)
              /\ n.reference = t.start + t.direction * Profile(t, Elapsed(t)).distance
              /\ n.velocity = t.direction * Profile(t, Elapsed(t)).speed
              /\ n.active \in BOOLEAN /\ (n.active <=> Elapsed(t) < t.total)
<1>1. CASE Elapsed(t) < t.total
  BY <1>1 DEF TrapezoidUpdate, Trapezoid
<1>2. CASE ~(Elapsed(t) < t.total)
  <2>1. Elapsed(t) = t.total
    BY <1>2 DEF Elapsed, Trapezoid
  <2>2. /\ t.start + t.direction * Profile(t, t.total).distance = t.target
        /\ t.direction * Profile(t, t.total).speed = 0
    <3>1. t.direction * 0 = 0 /\ t.start + t.direction * Profile(t, t.total).distance = t.target
      BY AtItsEnd DEF Planned
    <3>. QED
      BY <3>1, AtItsEnd
  <2>. QED
    BY <1>2, <2>1, <2>2 DEF TrapezoidUpdate, Trapezoid
<1>. QED
  BY <1>1, <1>2

(* ControlLoop's view of a trajectory, a record that its fields make up.    *)
OpenType == [reference : Position, target : Position, active : BOOLEAN]

LEMMA SameOpen ==
    ASSUME NEW x \in OpenType, NEW y \in OpenType,
           x.reference = y.reference, x.target = y.target, x.active = y.active
    PROVE  x = y
BY DEF OpenType

(* The two results of TrajectoryUpdate, field by field. *)
LEMMA OpenUpdated ==
    ASSUME NEW x \in OpenType, NEW p \in Position
    PROVE  /\ [x EXCEPT !.reference = p]
                = [reference |-> p, target |-> x.target, active |-> x.active]
           /\ [x EXCEPT !.reference = p, !.active = FALSE]
                = [reference |-> p, target |-> x.target, active |-> FALSE]
<1> DEFINE moved == [x EXCEPT !.reference = p]
           ended == [x EXCEPT !.reference = p, !.active = FALSE]
           m == [reference |-> p, target |-> x.target, active |-> x.active]
           e == [reference |-> p, target |-> x.target, active |-> FALSE]
<1>1. moved \in OpenType /\ ended \in OpenType /\ m \in OpenType /\ e \in OpenType
  BY DEF OpenType
<1>2. /\ moved.reference = m.reference /\ moved.target = m.target /\ moved.active = m.active
      /\ ended.reference = e.reference /\ ended.target = e.target /\ ended.active = e.active
  BY DEF OpenType
<1> HIDE DEF moved, ended, m, e
<1>3. moved = m /\ ended = e
  BY <1>1, <1>2, SameOpen
<1>. QED
  BY <1>3 DEF moved, ended, m, e

(* A cycle of an active trajectory keeps the limits, however many phases it *)
(* spans ...                                                                *)
LEMMA ActiveMoves ==
    ASSUME NEW t \in Trapezoid, t.active, Planned(t), t.elapsed < t.total,
           OnProfile(t, t.elapsed)
    PROVE  TrajectoryOK(TrapezoidUpdate(t)) /\ Moves(t, TrapezoidUpdate(t))
<1> DEFINE n == TrapezoidUpdate(t)
           from == t.elapsed
           to == Elapsed(t)
           d1 == Profile(t, from).distance  d2 == Profile(t, to).distance
           d3 == Profile(t, t.total).distance
           s1 == Profile(t, from).speed     s2 == Profile(t, to).speed
           a == t.acceleration
           v == t.max_velocity
<1>1. /\ n = [t EXCEPT !.elapsed = n.elapsed, !.reference = n.reference,
                       !.velocity = n.velocity, !.active = n.active]
      /\ n.elapsed = to
      /\ n.reference = t.start + t.direction * d2
      /\ n.velocity = t.direction * s2
      /\ n.active \in BOOLEAN /\ (n.active <=> to < t.total)
  BY UpdateFields
<1>2. /\ t.start \in Int /\ t.direction \in {1, -1} /\ a \in Nat /\ v \in Nat
      /\ t.peak \in Nat /\ t.peak <= v
      /\ t.reference \in Position /\ t.target \in Position
      /\ t.reference \in Int /\ t.target \in Int
      /\ t.reference = t.start + t.direction * d1
      /\ t.velocity = t.direction * s1
      /\ t.target = t.start + t.direction * d3
  <2>1. t.peak <= v
    BY DEF Planned
  <2>. QED
    BY <2>1, AtItsEnd, PositionAssumption DEF Trapezoid, OnProfile, Planned
<1>3. /\ from \in 0 .. t.total /\ to \in from .. t.total /\ to - from <= Dt
      /\ to - from \in Nat /\ t.total \in to .. t.total /\ to \in 0 .. t.total
  BY DtAssumption DEF Elapsed, Trapezoid
<1>4. /\ d1 \in Int /\ d2 \in Int /\ s1 \in 0 .. t.peak /\ s2 \in 0 .. t.peak
      /\ d2 - d1 \in 0 .. t.peak * (to - from)
      /\ s2 - s1 \in -(a * (to - from)) .. a * (to - from)
  BY <1>3, ProfileMoves
<1>5. d3 \in Int /\ d3 - d2 \in 0 .. t.peak * (t.total - to)
  BY <1>3, ProfileMoves
<1>6. /\ t.peak * (to - from) \in Int /\ t.peak * (to - from) <= v * Dt
      /\ a * (to - from) \in Int /\ a * (to - from) <= a * Dt
      /\ v * Dt \in Int /\ a * Dt \in Int
  <2>1. Dt \in Nat
    BY DtAssumption
  <2>2. t.peak * (to - from) <= t.peak * Dt /\ a * (to - from) <= a * Dt
    BY <1>2, <1>3, <2>1, ProductGrows
  <2>3. t.peak * Dt <= v * Dt
    <3>1. Dt * t.peak <= Dt * v
      BY <1>2, <2>1, ProductGrows
    <3>2. Dt * t.peak = t.peak * Dt /\ Dt * v = v * Dt
      BY <1>2, <2>1
    <3>. QED
      BY <3>1, <3>2
  <2>4. /\ t.peak * (to - from) \in Int /\ a * (to - from) \in Int
        /\ t.peak * Dt \in Int /\ v * Dt \in Int /\ a * Dt \in Int
    BY <1>2, <1>3, <2>1
  <2>. QED
    BY <2>2, <2>3, <2>4
<1> HIDE DEF n, from, to, d1, d2, d3, s1, s2, a, v
<1>7. /\ n.target = t.target /\ n.max_velocity = v /\ n.acceleration = a
      /\ n.start = t.start /\ n.direction = t.direction
      /\ n.peak = t.peak /\ n.acceleration_time = t.acceleration_time
      /\ n.cruise_time = t.cruise_time /\ n.total = t.total
  BY <1>1 DEF Trapezoid, a, v
<1>8. Profile(n, n.elapsed) = Profile(t, to)
  BY <1>1, <1>7 DEF Profile, Accelerating, Cruising, Braking, a
<1>9. /\ Magnitude(n.velocity) <= v
      /\ Magnitude(n.velocity - t.velocity) <= a * Dt
      /\ Magnitude(n.reference - t.reference) <= v * Dt
  <2>1. /\ Magnitude(n.velocity) = Magnitude(s2)
        /\ Magnitude(n.velocity - t.velocity) = Magnitude(s2 - s1)
        /\ Magnitude(n.reference - t.reference) = Magnitude(d2 - d1)
    <3>1. s1 \in Int /\ s2 \in Int
      BY <1>2, <1>4
    <3>2. /\ Magnitude(t.direction * s2) = Magnitude(s2)
          /\ Magnitude(t.direction * s2 - t.direction * s1) = Magnitude(s2 - s1)
      BY <1>2, <3>1, Directed
    <3>3. Magnitude((t.start + t.direction * d2) - (t.start + t.direction * d1))
            = Magnitude(d2 - d1)
      BY <1>2, <1>4, Directed
    <3>. QED
      BY <1>1, <1>2, <3>2, <3>3
  <2>2. Magnitude(s2) <= v
    BY <1>2, <1>4 DEF Magnitude
  <2>3. Magnitude(s2 - s1) <= a * Dt
    BY <1>2, <1>4, <1>6 DEF Magnitude
  <2>4. Magnitude(d2 - d1) <= v * Dt
    BY <1>4, <1>6 DEF Magnitude
  <2>. QED
    BY <2>1, <2>2, <2>3, <2>4
<1>10. /\ n.reference \in Int
       /\ \/ t.reference <= n.reference /\ n.reference <= t.target
          \/ t.target <= n.reference /\ n.reference <= t.reference
  <2>1. d1 <= d2 /\ d2 <= d3
    <3>1. t.peak * (t.total - to) \in Int
      BY <1>2, <1>3
    <3>. QED
      BY <1>4, <1>5, <1>6, <3>1
  <2>2. CASE t.direction = 1
    <3>1. t.direction * d1 = d1 /\ t.direction * d2 = d2 /\ t.direction * d3 = d3
      BY <1>2, <1>4, <1>5, <2>2, Directed
    <3>. QED
      BY <1>1, <1>2, <1>4, <1>5, <2>1, <3>1
  <2>3. CASE t.direction = -1
    <3>1. t.direction * d1 = -d1 /\ t.direction * d2 = -d2 /\ t.direction * d3 = -d3
      BY <1>2, <1>4, <1>5, <2>3, Directed
    <3>. QED
      BY <1>1, <1>2, <1>4, <1>5, <2>1, <3>1
  <2>. QED
    BY <1>2, <2>2, <2>3
<1>11. n.reference \in Between(t.reference, t.target) /\ n.reference \in Position
  <2>1. n.reference \in Between(t.reference, t.target)
    BY <1>2, <1>10, BetweenPositions
  <2>. QED
    BY <2>1 DEF Between
<1>12. ~n.active => n.reference = t.target /\ n.velocity = 0
  <2>1. ASSUME ~n.active PROVE to = t.total
    BY <1>1, <1>3, <2>1
  <2>2. ASSUME to = t.total PROVE d2 = d3 /\ s2 = 0
    BY <2>2, AtItsEnd DEF d2, d3, s2
  <2>3. t.direction * 0 = 0
    BY <1>2
  <2>. QED
    BY <1>1, <1>2, <2>1, <2>2, <2>3
<1>13. Open(n) \in TrajectoryUpdate(Open(t))
  <2>1. /\ Open(t) \in OpenType /\ Open(t).active
        /\ Open(t).reference = t.reference /\ Open(t).target = t.target
        /\ Open(n) = [reference |-> n.reference, target |-> t.target, active |-> n.active]
    BY <1>2, <1>7 DEF Open, OpenType, Trapezoid
  <2>2. CASE n.active
    <3>1. n.active = TRUE /\ Open(t).active = TRUE
      BY <1>1, <2>1, <2>2 DEF OpenType
    <3>2. Open(n) = [Open(t) EXCEPT !.reference = n.reference]
      BY <1>11, <2>1, <3>1, OpenUpdated
    <3>. QED
      BY <1>11, <2>1, <3>2 DEF TrajectoryUpdate
  <2>3. CASE ~n.active
    <3>1. n.active = FALSE /\ n.reference = t.target
      BY <1>1, <1>12, <2>3
    <3>2. Open(n) = [Open(t) EXCEPT !.reference = t.target, !.active = FALSE]
      <4>1. [Open(t) EXCEPT !.reference = t.target, !.active = FALSE]
              = [reference |-> t.target, target |-> t.target, active |-> FALSE]
        BY <1>2, <2>1, OpenUpdated
      <4>2. Open(n) = [reference |-> t.target, target |-> t.target, active |-> FALSE]
        BY <1>7, <3>1 DEF Open
      <4>. QED
        BY <4>1, <4>2
    <3>. QED
      BY <2>1, <3>2 DEF TrajectoryUpdate
  <2>. QED
    BY <2>2, <2>3
<1>14. TrajectoryOK(n)
  <2>1. n \in Trapezoid
    <3>1. n.elapsed \in Nat /\ n.velocity \in Int /\ n.active \in BOOLEAN
      <4>1. n.velocity \in Int
        BY <1>1, <1>2, <1>4, Directed
      <4>2. t.total \in Nat
        BY DEF Trapezoid
      <4>. QED
        BY <1>1, <1>3, <4>1, <4>2
    <3>. QED
      BY <1>1, <1>11, <3>1 DEF Trapezoid
  <2>2. n.active => Planned(n)
    BY <1>7 DEF Planned, a, v
  <2>3. n.active => n.elapsed < n.total
    BY <1>1, <1>7
  <2>4. OnProfile(n, n.elapsed)
    BY <1>1, <1>7, <1>8 DEF OnProfile, d2, s2
  <2>. QED
    BY <1>7, <1>12, <2>1, <2>2, <2>3, <2>4 DEF TrajectoryOK
<1>. QED
  BY <1>7, <1>9, <1>13, <1>14 DEF Moves, n, a, v

(* ... and that of one that has ended changes nothing.                      *)
LEMMA UpdateMoves ==
    ASSUME NEW t, TrajectoryOK(t)
    PROVE  TrajectoryOK(TrapezoidUpdate(t)) /\ Moves(t, TrapezoidUpdate(t))
<1>1. CASE t.active
  BY <1>1, ActiveMoves DEF TrajectoryOK
<1>2. CASE ~t.active
  <2>1. TrapezoidUpdate(t) = t
    BY <1>2 DEF TrapezoidUpdate
  <2>2. t.velocity = 0 /\ t.reference \in Int /\ t.max_velocity \in Nat
        /\ t.acceleration \in Nat /\ Dt \in Nat
    BY <1>2, PositionAssumption, DtAssumption DEF TrajectoryOK, Trapezoid
  <2>3. Magnitude(0) = 0 /\ 0 - 0 = 0 /\ t.reference - t.reference = 0
        /\ t.max_velocity * Dt >= 0 /\ t.acceleration * Dt >= 0
    BY <2>2 DEF Magnitude
  <2>4. Open(t) \in TrajectoryUpdate(Open(t))
    BY <1>2 DEF Open, TrajectoryUpdate
  <2>. QED
    BY <2>1, <2>2, <2>3, <2>4 DEF Moves
<1>. QED
  BY <1>1, <1>2

(* set_target, triangle or trapezoid: the phases span the distance and the  *)
(* peak keeps the limit.                                                    *)
LEMMA PlannedTimes ==
    ASSUME NEW distance \in Nat, NEW v \in Nat \ {0}, NEW a \in Nat \ {0},
           IsEven(distance, v, a)
    PROVE  /\ a % 2 = 0
           /\ AccelerationTime(distance, v, a) \in Nat
           /\ CruiseTime(distance, v, a) \in Nat
           /\ distance > 0 => AccelerationTime(distance, v, a) > 0
           /\ Peak(distance, v, a) = a * AccelerationTime(distance, v, a)
           /\ Peak(distance, v, a) \in Nat /\ Peak(distance, v, a) <= v
           /\ Peak(distance, v, a)
                * (AccelerationTime(distance, v, a) + CruiseTime(distance, v, a)) = distance
<1> DEFINE k == v \div a
           ta == AccelerationTime(distance, v, a)
           tc == CruiseTime(distance, v, a)
<1>1. v % a = 0 /\ a % 2 = 0
  BY DEF IsEven
<1>2. k \in Nat /\ a * k = v
  BY <1>1, Divides
<1>3. k > 0
  <2>1. a * 0 = 0
    OBVIOUS
  <2> HIDE DEF k
  <2>. QED
    BY <1>2, <2>1
<1>4. 2 * RampDistance(a, k) = a * (k * k) /\ a * (k * k) \in Nat
  <2> HIDE DEF k
  <2>1. RampDistance(a, k) = (a \div 2) * k * k
    BY <1>1, <1>2, RampDistanceIs
  <2>2. a \div 2 \in Nat /\ a = 2 * (a \div 2)
    BY <1>1, Halves
  <2> DEFINE h == a \div 2
  <2> HIDE DEF h
  <2>3. h \in Nat /\ a = 2 * h /\ RampDistance(a, k) = h * k * k
    BY <2>1, <2>2 DEF h
  <2>. QED
    BY <1>2, <2>3
<1>5. CASE IsTriangle(distance, v, a)
  <2> DEFINE q == distance \div a
  <2>1. /\ q \in Nat /\ a * q = distance
        /\ ta = SquareRoot(q) /\ tc = 0 /\ Peak(distance, v, a) = a * ta
    BY <1>5, Divides DEF IsEven, AccelerationTime, CruiseTime, Peak
  <2>2. \E root \in 0 .. distance : root * root = q
    BY <1>5 DEF IsEven
  <2>3. a * (k * k) >= distance
    BY <1>4, <1>5 DEF IsTriangle
  <2> HIDE DEF q, ta, tc, k
  <2>4. ta \in Nat /\ ta * ta = q
    BY <2>1, <2>2, SquareRootIs
  <2>5. ta * ta <= k * k
    <3>1. k * k \in Nat /\ q \in Nat /\ a * q <= a * (k * k)
      BY <1>2, <2>1, <2>3
    <3>. QED
      BY <2>4, <3>1
  <2>6. ta <= k
    BY <1>2, <2>4, <2>5, RootsGrow
  <2>7. a * ta <= v /\ a * ta \in Nat
    BY <1>2, <2>4, <2>6
  <2>8. (a * ta) * (ta + 0) = a * (ta * ta)
    BY <2>4
  <2>9. distance > 0 => ta > 0
    <3>1. ASSUME ta = 0 PROVE distance = 0
      <4>1. ta * ta = 0
        BY <3>1
      <4>. QED
        BY <2>1, <2>4, <4>1, TimesZero
    <3>. QED
      BY <2>4, <3>1
  <2>. QED
    BY <1>1, <2>1, <2>4, <2>7, <2>8, <2>9 DEF ta, tc
<1>6. CASE ~IsTriangle(distance, v, a)
  <2> DEFINE rest == distance - 2 * RampDistance(a, k)
  <2>1. /\ rest % v = 0 /\ ta = k /\ tc = rest \div v /\ Peak(distance, v, a) = v
        /\ rest \in Nat
    BY <1>4, <1>6 DEF IsEven, AccelerationTime, CruiseTime, Peak, IsTriangle
  <2>2. tc \in Nat /\ v * tc = rest
    <3> HIDE DEF rest, tc
    <3>. QED
      BY <2>1, Divides
  <2>3. rest = distance - a * (k * k)
    BY <1>4
  <2> HIDE DEF rest, ta, tc, k
  <2>4. v * (ta + tc) = v * k + v * tc /\ v * k = a * (k * k)
    BY <1>2, <2>1, <2>2
  <2>. QED
    BY <1>1, <1>2, <1>3, <1>4, <2>1, <2>2, <2>3, <2>4 DEF ta, tc
<1>. QED
  BY <1>5, <1>6

(* A motion begins where the servo is, at rest. *)
LEMMA BeginsAtRest ==
    ASSUME TrajectoryOK(trajectory), servo \in Position, NEW motion \in Motion,
           IsEven(Magnitude(motion.target - servo), motion.max_velocity,
                  motion.max_acceleration)
    PROVE  /\ TrajectoryOK(Prepared(motion))
           /\ Prepared(motion).velocity = 0
           /\ Prepared(motion).reference = servo
           /\ Prepared(motion).target = motion.target
           /\ Open(Prepared(motion)) = SetTarget(TrajectoryReset(servo), motion.target)
<1> DEFINE t == Prepared(motion)
           distance == Magnitude(motion.target - servo)
           v == motion.max_velocity
           a == motion.max_acceleration
<1>1. /\ motion.target \in Position /\ v \in Nat \ {0} /\ a \in Nat \ {0}
      /\ motion.target \in Int /\ servo \in Int
  BY MotionAssumption, PositionAssumption
<1>2. /\ TrapezoidReset(trajectory, servo).reference = servo
      /\ TrapezoidReset(trajectory, servo).velocity = 0
  BY DEF TrapezoidReset, NewTrapezoid
<1>3. distance \in Nat /\ (distance > 0 <=> motion.target # servo)
  BY <1>1 DEF Magnitude
<1>4. t = [start |-> servo, target |-> motion.target, reference |-> servo,
           velocity |-> 0, max_velocity |-> v, acceleration |-> a,
           direction |-> Direction(servo, motion.target),
           peak |-> Peak(distance, v, a),
           acceleration_time |-> AccelerationTime(distance, v, a),
           cruise_time |-> CruiseTime(distance, v, a),
           elapsed |-> 0,
           total |-> 2 * AccelerationTime(distance, v, a) + CruiseTime(distance, v, a),
           active |-> distance > 0]
  BY <1>2 DEF Prepared, TrapezoidSetTarget
<1>5. /\ t.start = servo /\ t.target = motion.target /\ t.reference = servo
      /\ t.velocity = 0 /\ t.max_velocity = v /\ t.acceleration = a
      /\ t.direction = Direction(servo, motion.target)
      /\ t.peak = Peak(distance, v, a)
      /\ t.acceleration_time = AccelerationTime(distance, v, a)
      /\ t.cruise_time = CruiseTime(distance, v, a)
      /\ t.elapsed = 0
      /\ t.total = 2 * t.acceleration_time + t.cruise_time
      /\ t.active \in BOOLEAN /\ (t.active <=> distance > 0)
  <2> HIDE DEF t, distance, a, v
  <2>1. t.active = (distance > 0)
    BY <1>4
  <2>2. t.active \in BOOLEAN /\ (t.active <=> distance > 0)
    <3>1. CASE distance > 0
      <4>1. t.active = TRUE
        BY <1>3, <2>1, <3>1
      <4>. QED
        BY <3>1, <4>1
    <3>2. CASE ~(distance > 0)
      <4>1. (distance > 0) = FALSE
        BY <1>3, <3>2
      <4>2. t.active = FALSE
        BY <2>1, <4>1, Zenon
      <4>. QED
        BY <3>2, <4>2
    <3>. QED
      BY <3>1, <3>2
  <2>3. /\ t.acceleration_time = AccelerationTime(distance, v, a)
        /\ t.cruise_time = CruiseTime(distance, v, a)
        /\ t.total = 2 * AccelerationTime(distance, v, a) + CruiseTime(distance, v, a)
    BY <1>4
  <2>. QED
    BY <1>4, <2>2, <2>3
<1>6. /\ a % 2 = 0
      /\ t.acceleration_time \in Nat /\ t.cruise_time \in Nat
      /\ distance > 0 => t.acceleration_time > 0
      /\ t.peak = a * t.acceleration_time /\ t.peak \in Nat /\ t.peak <= v
      /\ t.peak * (t.acceleration_time + t.cruise_time) = distance
  <2> HIDE DEF t, distance, a, v
  <2>1. IsEven(distance, v, a)
    BY DEF distance, a, v
  <2>. QED
    BY <1>1, <1>3, <1>5, <2>1, PlannedTimes
<1>7. /\ t.direction \in {1, -1}
      /\ t.direction * distance = motion.target - servo
  <2> HIDE DEF t
  <2>1. CASE motion.target >= servo
    BY <1>1, <1>5, <2>1 DEF Direction, Magnitude
  <2>2. CASE ~(motion.target >= servo)
    BY <1>1, <1>5, <2>2 DEF Direction, Magnitude
  <2>. QED
    BY <2>1, <2>2
<1>8. t \in Trapezoid
  <2>1. /\ Direction(servo, motion.target) \in {1, -1} /\ Peak(distance, v, a) \in Nat
        /\ AccelerationTime(distance, v, a) \in Nat /\ CruiseTime(distance, v, a) \in Nat
        /\ 2 * AccelerationTime(distance, v, a) + CruiseTime(distance, v, a) \in Nat
        /\ (distance > 0) \in BOOLEAN
    <3> HIDE DEF t, distance, a, v
    <3>. QED
      BY <1>5, <1>6, <1>7
  <2> HIDE DEF t, distance, a, v
  <2>. QED
    BY <1>1, <1>4, <2>1 DEF Trapezoid
<1> HIDE DEF t, distance, a, v
<1>9. ASSUME t.active
      PROVE  Planned(t) /\ t.elapsed < t.total /\ OnProfile(t, t.elapsed)
  <2>1. distance > 0 /\ t.acceleration_time \in Nat \ {0}
    BY <1>3, <1>5, <1>6, <1>9
  <2>2. t.target = t.start + t.direction * distance
    BY <1>1, <1>5, <1>7
  <2>3. Planned(t)
    BY <1>1, <1>5, <1>6, <1>7, <2>1, <2>2 DEF Planned
  <2>4. Profile(t, 0).distance = RampDistance(a, 0) /\ Profile(t, 0).speed = a * 0
    BY <1>5, <2>1 DEF Profile, Accelerating
  <2>5. RampDistance(a, 0) = 0 /\ a * 0 = 0 /\ t.direction * 0 = 0
    <3>1. a \div 2 \in Nat /\ 0 \in Nat
      BY <1>1, <1>6, Halves
    <3>2. RampDistance(a, 0) = (a \div 2) * 0 * 0
      BY <1>1, <1>6, RampDistanceIs
    <3>. QED
      BY <1>1, <1>7, <3>1, <3>2, TimesZero
  <2>. QED
    BY <1>1, <1>5, <2>1, <1>6, <2>3, <2>4, <2>5 DEF OnProfile
<1>10. TrajectoryOK(t)
  <2>1. ~t.active => t.velocity = 0 /\ t.reference = t.target
    BY <1>3, <1>5
  <2>. QED
    BY <1>8, <1>9, <2>1 DEF TrajectoryOK
<1>11. Open(t) = SetTarget(TrajectoryReset(servo), motion.target)
  <2>1. t.active = (motion.target # servo)
    BY <1>3, <1>5
  <2>. QED
    BY <1>5, <2>1 DEF Open, SetTarget, TrajectoryReset
<1>. QED
  BY <1>5, <1>10, <1>11 DEF t

(* The inductive invariant: an active trajectory is on its profile, one     *)
(* that has ended is at its target, and the servo of an axis that does not  *)
(* run is where a motion may begin.                                         *)
TrajectoryInv ==
    /\ running \in BOOLEAN
    /\ TrajectoryOK(trajectory)
    /\ ~running => servo \in Rest

(* A trajectory that was just constructed has ended. *)
LEMMA InitTrajectoryInv == Init => TrajectoryInv
<1>. SUFFICES ASSUME Init PROVE TrajectoryInv
  OBVIOUS
<1>1. servo \in Position /\ servo \in Rest /\ running = FALSE
  BY IntervalAssumption DEF Init
<1>2. trajectory = TrapezoidReset(NewTrapezoid, servo)
  BY DEF Init
<1>3. trajectory \in Trapezoid
  BY <1>1, <1>2, PositionAssumption DEF TrapezoidReset, NewTrapezoid, Trapezoid
<1>4. ~trajectory.active /\ trajectory.velocity = 0 /\ trajectory.reference = trajectory.target
  BY <1>2 DEF TrapezoidReset, NewTrapezoid
<1>. QED
  BY <1>1, <1>3, <1>4 DEF TrajectoryInv, TrajectoryOK

(* A regulated cycle keeps the limits and moves as ControlLoop allows. *)
CycleKeepsLimits ==
    LET from == IF running THEN trajectory ELSE TrapezoidReset(trajectory, servo)
        v == trajectory'.max_velocity
    IN /\ Magnitude(trajectory'.velocity) <= v
       /\ Magnitude(trajectory'.velocity - from.velocity)
            <= trajectory'.acceleration * Dt
       /\ Magnitude(trajectory'.reference - from.reference) <= v * Dt

CycleIsOpen ==
    Open(trajectory') \in
        TrajectoryUpdate(
            IF running THEN Open(trajectory)
            ELSE SetTarget(TrajectoryReset(servo), trajectory'.target))

(* Every step keeps the invariant, and every cycle that runs the axis keeps *)
(* the limits and is one that ControlLoop allows.                           *)
LEMMA NextTrajectoryInv ==
    ASSUME TrajectoryInv, [Next]_vars
    PROVE  TrajectoryInv' /\ ((running' => CycleKeepsLimits /\ CycleIsOpen) \/ UNCHANGED vars)
<1>1. ASSUME NEW motion \in Motion, Begin(motion)
      PROVE  TrajectoryInv' /\ CycleKeepsLimits /\ CycleIsOpen
  <2> DEFINE t == Prepared(motion)
  <2>1. /\ ~running /\ running' = TRUE /\ trajectory' = TrapezoidUpdate(t)
        /\ IsEven(Magnitude(motion.target - servo), motion.max_velocity,
                  motion.max_acceleration)
    BY <1>1 DEF Begin, Regulated
  <2>2. servo \in Position /\ TrajectoryOK(trajectory)
    BY <2>1, IntervalAssumption DEF TrajectoryInv
  <2>3. /\ TrajectoryOK(t) /\ t.velocity = 0 /\ t.reference = servo
        /\ t.target = motion.target
        /\ Open(t) = SetTarget(TrajectoryReset(servo), motion.target)
    BY <2>1, <2>2, BeginsAtRest
  <2> HIDE DEF t
  <2>4. TrajectoryOK(TrapezoidUpdate(t)) /\ Moves(t, TrapezoidUpdate(t))
    BY <2>3, UpdateMoves
  <2>5. TrajectoryInv'
    BY <2>1, <2>4 DEF TrajectoryInv, TrajectoryOK, Trapezoid, OnProfile, Planned
  <2>6. CycleKeepsLimits
    <3>1. /\ TrapezoidReset(trajectory, servo).velocity = 0
          /\ TrapezoidReset(trajectory, servo).reference = servo
      BY DEF TrapezoidReset, NewTrapezoid
    <3>. QED
      BY <2>1, <2>3, <2>4, <3>1 DEF CycleKeepsLimits, Moves
  <2>7. CycleIsOpen
    BY <2>1, <2>3, <2>4 DEF CycleIsOpen, Moves
  <2>. QED
    BY <2>5, <2>6, <2>7
<1>2. ASSUME Regulate PROVE TrajectoryInv' /\ CycleKeepsLimits /\ CycleIsOpen
  <2>1. running /\ running' = TRUE /\ trajectory' = TrapezoidUpdate(trajectory)
    BY <1>2 DEF Regulate, Regulated
  <2>2. TrajectoryOK(TrapezoidUpdate(trajectory)) /\ Moves(trajectory, TrapezoidUpdate(trajectory))
    BY UpdateMoves DEF TrajectoryInv
  <2>3. TrajectoryInv'
    BY <2>1, <2>2 DEF TrajectoryInv, TrajectoryOK, Trapezoid, OnProfile, Planned
  <2>. QED
    BY <2>1, <2>2, <2>3 DEF CycleKeepsLimits, CycleIsOpen, Moves
<1>3. ASSUME Stop PROVE TrajectoryInv' /\ ~running'
  BY <1>3 DEF Stop, TrajectoryInv, TrajectoryOK, Trapezoid, OnProfile, Planned
<1>4. ASSUME UNCHANGED vars PROVE TrajectoryInv'
  BY <1>4 DEF vars, TrajectoryInv, TrajectoryOK, Trapezoid, OnProfile, Planned
<1>. QED
  BY <1>1, <1>2, <1>3, <1>4 DEF Next

(* For every motion whose profile comes out even, every length of a cycle   *)
(* and every interruption: the reference that TrapezoidalTrajectory hands   *)
(* to the PID controller keeps the velocity and acceleration limits from    *)
(* one cycle to the next.                                                   *)
THEOREM ReferenceKeepsLimits == Spec => KeepsLimits
<1>1. TrajectoryInv /\ [Next]_vars => TrajectoryInv'
  BY NextTrajectoryInv
<1>2. TrajectoryInv /\ [Next]_vars => [running' => CycleKeepsLimits]_vars
  BY NextTrajectoryInv
<1>3. Spec => [][running' => CycleKeepsLimits]_vars
  BY InitTrajectoryInv, <1>1, <1>2, PTL DEF Spec
<1>. QED
  BY <1>3 DEF KeepsLimits, CycleKeepsLimits

(* The profile refines the trajectory that ControlLoop reckons with: it     *)
(* moves from the servo's position towards its target, never past it, and   *)
(* is no longer active only when it is there.                               *)
THEOREM ProfileIsOpen == Spec => ImplementsOpenTrajectory
<1>1. TrajectoryInv /\ [Next]_vars => TrajectoryInv'
  BY NextTrajectoryInv
<1>2. TrajectoryInv /\ [Next]_vars => [running' => CycleIsOpen]_vars
  BY NextTrajectoryInv
<1>3. Spec => [][running' => CycleIsOpen]_vars
  BY InitTrajectoryInv, <1>1, <1>2, PTL DEF Spec
<1>. QED
  BY <1>3 DEF ImplementsOpenTrajectory, CycleIsOpen

=============================================================================
