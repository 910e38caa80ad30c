--------------------------- MODULE PlcLinkPacing ----------------------------
(* PlcLink with an observer of the worker's pace.                           *)
EXTENDS MCPlcLink

VARIABLE rested   \* the thread has slept since it last called read_command

ReadCalled == thread = "read" /\ thread' # "read"
Slept == thread \in {"wait", "sleep"} /\ thread' = "test"

PacedInit == Init /\ rested = TRUE

PacedNext ==
    /\ Next
    /\ rested' = IF ReadCalled THEN FALSE ELSE (rested \/ Slept)

PacedSpec == PacedInit /\ [][PacedNext]_<<vars, rested>>

(* "A PlcCommunicationWorker performs blocking reads and writes at 50 Hz"   *)
(* (README.md): between two reads the thread sleeps.  It does not when a    *)
(* read or a write fails and the PLC accepts the next connection at once:   *)
(* the "continue" after disconnect() skips the sleep, and nothing paces the *)
(* loop for as long as the PLC lets itself be connected but not read.       *)
ReadsArePaced == thread = "read" => rested

=============================================================================
