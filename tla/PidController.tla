---------------------------- MODULE PidController ----------------------------
(* The PID controller as a value: its memory, and what an update makes of   *)
(* it.  The cycle is the unit of time, so that dt does not appear.  The     *)
(* filtered derivative goes from its old value towards the raw one by the   *)
(* factor alpha in (0, 1]; any value between them stands for it.            *)
EXTENDS Integers

CONSTANTS Kp, Ki, Kd, MinimumOutput, MaximumOutput

ASSUME GainAssumption == {Kp, Ki, Kd} \subseteq Nat
ASSUME OutputAssumption ==
    /\ MinimumOutput \in Int /\ MaximumOutput \in Int
    /\ MinimumOutput <= 0 /\ 0 <= MaximumOutput

PidReset ==
    [integral |-> 0, previous_error |-> 0, filtered_derivative |-> 0,
     first_update |-> TRUE]

RawDerivative(c, error) ==
    IF c.first_update THEN 0 ELSE error - c.previous_error

FilteredDerivative(c, error) ==
    IF c.filtered_derivative <= RawDerivative(c, error)
    THEN c.filtered_derivative .. RawDerivative(c, error)
    ELSE RawDerivative(c, error) .. c.filtered_derivative

Unsaturated(c, error, derivative) ==
    Kp * error + Ki * (c.integral + error) + Kd * derivative

PidOutput(c, error, derivative) ==
    LET u == Unsaturated(c, error, derivative)
    IN IF u < MinimumOutput THEN MinimumOutput
       ELSE IF u > MaximumOutput THEN MaximumOutput ELSE u

(* Two defects: the sign of the error is taken the wrong way round; the     *)
(* integral is held whatever the error.                                     *)
IntegratesIntoSaturation(c, error, derivative) ==
    LET u == Unsaturated(c, error, derivative)
    IN /\ u > MaximumOutput => error > 0
       /\ u < MinimumOutput => error < 0

IntegratesUnsaturated(c, error, derivative) ==
    Unsaturated(c, error, derivative) \in MinimumOutput .. MaximumOutput

(* The integral is held in saturation, unless the error leads out of it.    *)
Integrates(c, error, derivative) ==
    LET u == Unsaturated(c, error, derivative)
    IN /\ u > MaximumOutput => error < 0
       /\ u < MinimumOutput => error > 0

PidUpdate(c, error, derivative) ==
    [integral |-> IF Integrates(c, error, derivative)
                  THEN c.integral + error ELSE c.integral,
     previous_error |-> error,
     filtered_derivative |-> derivative,
     first_update |-> FALSE]

=============================================================================
