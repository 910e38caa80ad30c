------------------------------ MODULE PlcLink -------------------------------
(* The communication worker between a PLC and a control thread that each    *)
(* count what they send: a command is the PLC's heartbeat, a status the     *)
(* controller's, so that what arrives can be compared with what was sent.   *)
EXTENDS PlcCommunicationWorker

CONSTANT MaxHeartbeat   \* bound: commands and statuses considered

ASSUME MaxHeartbeatAssumption == MaxHeartbeat \in Nat
ASSUME HeartbeatData ==
    CommandData = 0 .. MaxHeartbeat /\ StatusData = 1 .. MaxHeartbeat

VARIABLES
    plc_heartbeat,         \* the PLC's counter, in every command it offers
    controller_heartbeat,  \* controller_heartbeat_
    accepted               \* the last command the control thread accepted

vars == <<workerVars, plc_heartbeat, controller_heartbeat, accepted>>
clockVars == <<plc_heartbeat, controller_heartbeat, accepted>>

TypeOK ==
    /\ WorkerTypeOK
    /\ plc_heartbeat \in 0 .. MaxHeartbeat
    /\ controller_heartbeat \in 0 .. MaxHeartbeat
    /\ accepted \in CommandData \cup {NoValue}

Init ==
    /\ WorkerInit
    /\ plc_heartbeat = 0
    /\ controller_heartbeat = 0
    /\ accepted = NoValue

(* The PLC program runs and offers a new command. *)
PlcCycle ==
    /\ plc_heartbeat < MaxHeartbeat
    /\ plc_heartbeat' = plc_heartbeat + 1
    /\ UNCHANGED <<workerVars, controller_heartbeat, accepted>>

ReadCommand == Read(plc_heartbeat) /\ UNCHANGED clockVars

ReceiveCommand ==
    /\ TryReadCommand
    /\ accepted' = command_mailbox.value
    /\ UNCHANGED <<plc_heartbeat, controller_heartbeat>>

(* A defect: the heartbeat starts anew when the connection is lost. *)
PublishAnew(lock) ==
    /\ controller_heartbeat < MaxHeartbeat \/ ~connected
    /\ controller_heartbeat' = IF connected THEN controller_heartbeat + 1 ELSE 1
    /\ TryPublishStatus(controller_heartbeat', lock)
    /\ UNCHANGED <<plc_heartbeat, accepted>>

(* The end of a control cycle.  A heartbeat is spent on a dropped status.   *)
PublishStatus(lock) ==
    /\ controller_heartbeat < MaxHeartbeat
    /\ controller_heartbeat' = controller_heartbeat + 1
    /\ TryPublishStatus(controller_heartbeat', lock)
    /\ UNCHANGED <<plc_heartbeat, accepted>>

Next ==
    \/ (OwnerStep \/ RunStep) /\ UNCHANGED clockVars
    \/ ReadCommand
    \/ PlcCycle
    \/ ReceiveCommand
    \/ \E lock \in BOOLEAN : PublishStatus(lock)

Spec == Init /\ [][Next]_vars

(* The thread runs and its calls return; what is tried again and again,     *)
(* a call to the PLC or a try_lock, is not refused for ever; a stop that    *)
(* has been requested is joined.                                            *)
Fairness ==
    /\ WF_vars((RunStep /\ UNCHANGED clockVars) \/ ReadCommand)
    /\ WF_vars(Join /\ UNCHANGED clockVars)
    /\ SF_vars(Connect(TRUE) /\ UNCHANGED clockVars)
    /\ SF_vars(ReadCommand)
    /\ SF_vars(PublishCommand(TRUE) /\ UNCHANGED clockVars)
    /\ SF_vars(TakeStatus /\ UNCHANGED clockVars)
    /\ SF_vars(WriteStatus /\ UNCHANGED clockVars)
    /\ SF_vars(ReceiveCommand)

FairSpec == Spec /\ Fairness

-----------------------------------------------------------------------------
(* run reads and writes only in an open session, and leaves none behind.    *)
IoNeedsSession ==
    /\ thread \in {"read", "publish", "status", "write", "sleep"} => session
    /\ thread \in {"none", "exited"} => ~session /\ ~connected

(* The PLC never sees the controller's heartbeat go back, across dropped    *)
(* publications, failed writes that may have taken effect and are repeated, *)
(* and restarts of the worker, which then writes the last status again.     *)
StatusInOrder ==
    [][plc_status # NoValue => plc_status' >= plc_status]_vars

(* The control thread never takes a command older than the one it has.      *)
CommandsInOrder == [][accepted # NoValue => accepted' >= accepted]_vars

(* stop() returns, whatever the thread is doing when it is called. *)
StopReturns == (owner = "joining") ~> (owner = "free")

Stopped == owner = "joining" \/ thread = "none"

(* Unless the worker is stopped, what the control thread has managed to     *)
(* publish reaches the PLC, or something newer does ...                     *)
StatusArrives ==
    \A n \in StatusData :
        (status_mailbox.value = n) ~> (Stopped \/ (plc_status # NoValue /\ plc_status >= n))

(* ... and what the PLC offers reaches the control thread. *)
CommandArrives ==
    \A n \in CommandData :
        (plc_heartbeat = n) ~> (Stopped \/ (accepted # NoValue /\ accepted >= n))

=============================================================================
