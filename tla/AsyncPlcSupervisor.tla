------------------------ MODULE AsyncPlcSupervisor --------------------------
(* The asynchronous bridge from end to end: a PLC, the communication worker *)
(* (PlcCommunicationWorker), and the control thread, which in every cycle   *)
(* takes a command from the mailbox, watches the PLC's heartbeat and steps  *)
(* the control loop (MotionKernel).                                         *)
(*                                                                          *)
(* Time is counted in control cycles of the nominal dt, as the watchdog     *)
(* counts it.  A heartbeat is a 32-bit counter of which the program only    *)
(* asks whether it differs from the last: the PLC's next heartbeat is one   *)
(* that nobody else holds.                                                  *)
EXTENDS PlcCommunicationWorker, PlcInterface, ControllerStateMachine, Watchdog

CONSTANTS
    Offer,      \* what a PLC command may say, but for its heartbeat
    Heartbeat,  \* bound: heartbeats told apart
    Report(_),  \* the part of an encoded status that is followed
    MaxUnattended   \* bound: unattended cycles are counted up to this number

ASSUME OfferAssumption == Offer \subseteq PlcWords
ASSUME HeartbeatAssumption == Heartbeat # {} /\ NoValue \notin Heartbeat
ASSUME MaxUnattendedAssumption == MaxUnattended \in Nat

VARIABLES
    plc_command,         \* what the PLC offers at this moment
    control_word,        \* the part of a command that a read begins with
    cycle,               \* how far AsyncPlcSupervisor::update has come
    watchdog,            \* watchdog_
    last_plc_heartbeat,  \* last_plc_heartbeat_
    healthy,             \* communication_healthy_
    machine, command, external_fault, target_reached,   \* the control loop
    unattended           \* history: cycles the axis has been running without
                         \* a break since the PLC's last heartbeat

kernelVars == <<machine, command, external_fault, target_reached>>
controlVars == <<cycle, watchdog, last_plc_heartbeat, healthy, kernelVars>>
vars == <<workerVars, plc_command, control_word, controlVars, unattended>>

Kernel ==
    INSTANCE MotionKernel WITH
        Command <- {DecodePlcCommand(data) : data \in CommandData},
        ExternalFault <- {"none", "communication_timeout"},
        FrequencyHz <- 1

WithHeartbeat(offer, heartbeat) ==
    [control_word |-> offer.control_word,
     target_position_rad |-> offer.target_position_rad,
     max_velocity_rad_s |-> offer.max_velocity_rad_s,
     max_acceleration_rad_s2 |-> offer.max_acceleration_rad_s2,
     heartbeat |-> heartbeat]

(* A read may return the control word of one command and the rest of        *)
(* another, and any status may be published.                                *)
Torn(word, offer, h) == [WithHeartbeat(offer, h) EXCEPT !.control_word = word.control_word]

ASSUME CommandAssumption ==
    CommandData = {Torn(word, offer, h) : word, offer \in Offer, h \in Heartbeat}
ASSUME ReportAssumption ==
    \A m \in Machine, reached \in BOOLEAN :
        Report(EncodePlcStatus(m, reached)) \in StatusData

TypeOK ==
    /\ WorkerTypeOK
    /\ plc_command \in CommandData
    /\ control_word \in {offer.control_word : offer \in Offer} \cup {NoValue}
    /\ cycle \in {"between", "taken"}
    /\ watchdog \in WatchdogState
    /\ last_plc_heartbeat \in Heartbeat \cup {NoValue}
    /\ healthy \in BOOLEAN
    /\ Kernel!TypeOK
    /\ unattended \in 0 .. MaxUnattended

(* The supervisor's constructor kicks its watchdog: silence counts as a     *)
(* timeout from the start.                                                  *)
Init ==
    /\ WorkerInit
    /\ \E offer \in Offer :
           plc_command = WithHeartbeat(offer, CHOOSE h \in Heartbeat : TRUE)
    /\ control_word = NoValue
    /\ cycle = "between"
    /\ watchdog = Kick(NewWatchdog)
    /\ last_plc_heartbeat = NoValue
    /\ healthy = FALSE
    /\ Kernel!Init
    /\ unattended = 0

-----------------------------------------------------------------------------
(* The PLC: it may rewrite its command with or without a new heartbeat.     *)

HeldHeartbeats ==
    {last_plc_heartbeat}
    \cup {data.heartbeat : data \in {received, command_mailbox.value} \ {NoValue}}

FreshHeartbeat == CHOOSE h \in Heartbeat \ HeldHeartbeats : TRUE

PlcBeat(offer) ==
    /\ Heartbeat \ HeldHeartbeats # {}
    /\ plc_command' = WithHeartbeat(offer, FreshHeartbeat)
    /\ unattended' = 0
    /\ UNCHANGED <<workerVars, control_word, controlVars>>

PlcFrozenWrite(offer) ==
    /\ plc_command' = WithHeartbeat(offer, plc_command.heartbeat)
    /\ UNCHANGED <<workerVars, control_word, controlVars, unattended>>

-----------------------------------------------------------------------------
(* read_command over OPC UA takes the control word first and the heartbeat  *)
(* last, and the PLC may rewrite both in between.  (OpcUaPlc has all the    *)
(* nodes; with the other adapters nothing comes between.)                   *)

BeginRead ==
    /\ thread = "read"
    /\ control_word = NoValue
    /\ control_word' = plc_command.control_word
    /\ UNCHANGED <<workerVars, plc_command, controlVars, unattended>>

ReadCommand ==
    /\ control_word # NoValue
    /\ Read([plc_command EXCEPT !.control_word = control_word])
    /\ control_word' = NoValue
    /\ UNCHANGED <<plc_command, controlVars, unattended>>

(* Everything else that the worker does.  A read that fails before its      *)
(* first node has come is the same as one that fails after it.              *)
Run ==
    /\ RunStep
    /\ thread = "read" => control_word # NoValue
    /\ control_word' = NoValue
    /\ UNCHANGED <<plc_command, controlVars, unattended>>

-----------------------------------------------------------------------------
(* AsyncPlcSupervisor::update *)

(* A defect: any command counts as a heartbeat. *)
AnyHeartbeat(heartbeat) == TRUE

IsNewHeartbeat(heartbeat) == heartbeat # last_plc_heartbeat

(* A defect: a command counts only with a new heartbeat. *)
DeliveredWithHeartbeat ==
    IF IsNewHeartbeat(command_mailbox.value.heartbeat)
    THEN DecodePlcCommand(command_mailbox.value) ELSE command

Delivered == DecodePlcCommand(command_mailbox.value)

(* A new heartbeat kicks the watchdog; an old one, in a new command, only   *)
(* delivers the command.                                                    *)
TakeCommand ==
    /\ cycle = "between"
    /\ cycle' = "taken"
    /\ TryReadCommand
    /\ Kernel!SetCommand(Delivered)
    /\ last_plc_heartbeat' = command_mailbox.value.heartbeat
    /\ watchdog' = Advance(IF IsNewHeartbeat(command_mailbox.value.heartbeat)
                           THEN Kick(watchdog) ELSE watchdog)
    /\ UNCHANGED <<plc_command, control_word, healthy, unattended>>

(* The mailbox is busy, empty, or holds the command taken before. *)
TakeNothing ==
    /\ cycle = "between"
    /\ owner = "free"
    /\ cycle' = "taken"
    /\ watchdog' = Advance(watchdog)
    /\ UNCHANGED <<workerVars, plc_command, control_word, last_plc_heartbeat,
                   healthy, kernelVars, unattended>>

(* A lost connection shows in communication_healthy(), not in the fault:    *)
(* the axis runs on until the watchdog expires.                             *)
Healthy == connected /\ last_plc_heartbeat # NoValue /\ ~Expired(watchdog)

(* A defect: the fault follows the connection, not the watchdog. *)
ConnectionFault == IF connected THEN "none" ELSE "communication_timeout"

TimeoutFault == IF Expired(watchdog) THEN "communication_timeout" ELSE "none"

(* The rest of update. *)
StepAndPublish(lock) ==
    /\ cycle = "taken"
    /\ cycle' = "between"
    /\ healthy' = Healthy
    /\ Kernel!Cycle(command, TimeoutFault)
    /\ TryPublishStatus(Report(EncodePlcStatus(machine', target_reached')), lock)
    /\ unattended' = IF machine'.state # "running" THEN 0
                     ELSE IF unattended < MaxUnattended THEN unattended + 1
                     ELSE unattended
    /\ UNCHANGED <<plc_command, control_word, watchdog, last_plc_heartbeat>>

(* start() and stop() are called by the control thread, between two updates. *)
Own ==
    /\ cycle = "between"
    /\ OwnerStep
    /\ UNCHANGED <<plc_command, control_word, controlVars, unattended>>

Next ==
    \/ \E offer \in Offer : PlcBeat(offer) \/ PlcFrozenWrite(offer)
    \/ Own
    \/ Run
    \/ BeginRead
    \/ ReadCommand
    \/ TakeCommand
    \/ TakeNothing
    \/ \E lock \in BOOLEAN : StepAndPublish(lock)

Spec == Init /\ [][Next]_vars

(* Both threads run.  A call to the PLC or a try_lock that is tried again   *)
(* and again is not refused for ever.                                       *)
Fairness ==
    /\ WF_vars(Run \/ BeginRead \/ ReadCommand)
    /\ WF_vars(\/ TakeNothing \/ TakeCommand
               \/ \E lock \in BOOLEAN : StepAndPublish(lock))
    /\ SF_vars(Run /\ Connect(TRUE))
    /\ SF_vars(ReadCommand)
    /\ SF_vars(Run /\ PublishCommand(TRUE))
    /\ SF_vars(TakeCommand)

FairSpec == Spec /\ Fairness

-----------------------------------------------------------------------------
(* Between two cycles, an axis that runs has a PLC command behind it and a  *)
(* watchdog that has not expired.                                           *)
RunningIsSupervised ==
    cycle = "between" /\ machine.state = "running"
      => last_plc_heartbeat # NoValue /\ ~Expired(watchdog)

(* A PLC whose heartbeat stops brings a running axis to a stop.  The last   *)
(* heartbeat taken, the one in the mailbox, the one in the worker's hands   *)
(* and the one the PLC stopped at may each keep the watchdog from expiring, *)
(* for Timeout - 1 cycles each.                                             *)
UnattendedBounded == unattended <= 4 * (Timeout - 1)

(* The worker is there to stay. *)
Serving == owner = "free" /\ thread # "none"

(* An emergency stop that the PLC keeps commanding reaches the axis and     *)
(* holds it, even when the PLC's heartbeat is frozen and the watchdog has   *)
(* long expired.                                                            *)
EmergencyStopArrives ==
    <>[](Serving /\ DecodePlcCommand(plc_command).emergency_stop)
      => <>[](machine.state = "emergency_stop")

(* The PLC's heartbeat goes on: time and again it is one that the           *)
(* supervisor does not have yet.                                            *)
Beating == []<>IsNewHeartbeat(plc_command.heartbeat)

(* "heartbeat recovery and an explicit reset return the axis to READY"      *)
(* (README.md), from where the same command may start it: a timeout is      *)
(* never for good, however late the heartbeats come.                        *)
Recovers ==
    /\ Beating
    /\ <>[](Serving /\ LET c == DecodePlcCommand(plc_command)
                      IN c.reset_fault /\ c.enable /\ ~c.emergency_stop)
    => []<>(machine.state \in {"ready", "running"})

=============================================================================
