----------------------------- MODULE MCPlcLink ------------------------------
(* PlcLink for TLC. *)
EXTENDS PlcLink

MCCommandData == 0 .. MaxHeartbeat
MCStatusData == 1 .. MaxHeartbeat

=============================================================================
