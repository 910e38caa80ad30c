-------------------------- MODULE MCAxisRegulation ---------------------------
(* AxisRegulation for TLC: triangular and trapezoidal profiles in both      *)
(* directions, whose phases end at odd and at even ticks, with cycles of    *)
(* two ticks, and a controller that saturates on both sides.                *)
EXTENDS AxisRegulation

MCPosition == -1 .. 21
MCRate == 1 .. 6
MCMinimumOutput == -9
MCRest == {0, 2, 12}
MCMotion ==
    [target : {0, 8, 20}, max_velocity : {2, 6}, max_acceleration : {2}]
    \cup [target : {0, 20}, max_velocity : {4}, max_acceleration : {4}]

=============================================================================
