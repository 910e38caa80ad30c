--------------------------- MODULE OpenTrajectory ----------------------------
(* What a control loop relies on of its trajectory: the reference moves     *)
(* monotonically from its start to its target, at a pace left open, and     *)
(* arrives.  TrapezoidalTrajectory has the profile; AxisRegulation shows    *)
(* that it stays within this.                                               *)
EXTENDS MotionTypes

Between(a, b) == {p \in Position : (a <= p /\ p <= b) \/ (b <= p /\ p <= a)}

TrajectoryReset(position) ==
    [reference |-> position, target |-> position, active |-> FALSE]

SetTarget(t, target) ==
    [reference |-> t.reference, target |-> target,
     active |-> target # t.reference]

(* An active trajectory moves towards its target; the update that exhausts  *)
(* its total time puts it there and ends it.                                *)
TrajectoryUpdate(t) ==
    IF ~t.active THEN {t}
    ELSE {[t EXCEPT !.reference = t.target, !.active = FALSE]}
         \cup {[t EXCEPT !.reference = p] : p \in Between(t.reference, t.target)}

=============================================================================
