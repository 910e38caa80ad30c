--------------------------- MODULE PlcSupervisor ----------------------------
(* The synchronous supervisor: one thread steps the control loop in every   *)
(* cycle and exchanges data with the PLC, itself, every PollPeriod cycles.  *)
(* Reads and writes may fail; the PLC changes its command between cycles.   *)
(* Time is counted in control cycles.  The controller's own heartbeat,      *)
(* which counts the polls for the PLC, is the subject of PlcLink.           *)
EXTENDS PlcInterface, ControllerStateMachine, Watchdog

CONSTANTS
    PollPeriod,  \* poll_period_seconds, in control cycles
    Offer,       \* what a PLC command may say, but for its heartbeat
    Heartbeat,   \* bound: heartbeats told apart
    NoValue      \* std::nullopt

ASSUME PollPeriodAssumption == PollPeriod \in Nat \ {0}
ASSUME OfferAssumption == Offer \subseteq PlcWords
ASSUME HeartbeatAssumption == NoValue \notin Heartbeat

VARIABLES
    plc_command,         \* what the PLC offers: an Offer and a heartbeat
    plc_status,          \* the status the PLC has
    poll_elapsed,        \* poll_elapsed_seconds_
    watchdog,            \* watchdog_
    last_plc_heartbeat,  \* last_plc_heartbeat_
    machine, command, external_fault, target_reached,   \* the control loop
    unattended,          \* history: cycles the axis has been running without
                         \* a break since the PLC's last heartbeat
    punctual             \* history: every poll has found a new heartbeat

kernelVars == <<machine, command, external_fault, target_reached>>
supervisorVars ==
    <<plc_status, poll_elapsed, watchdog, last_plc_heartbeat, kernelVars>>
vars == <<plc_command, supervisorVars, unattended, punctual>>

Kernel ==
    INSTANCE MotionKernel WITH
        Command <- {DecodePlcCommand(offer) : offer \in Offer},
        ExternalFault <- {"none", "communication_timeout"},
        FrequencyHz <- 1

(* Bound: unattended cycles are counted up to this number. *)
MaxUnattended == 2 * Timeout

TypeOK ==
    /\ plc_command \in [offer : Offer, heartbeat : Heartbeat]
    /\ poll_elapsed \in 0 .. PollPeriod
    /\ watchdog \in WatchdogState
    /\ last_plc_heartbeat \in Heartbeat \cup {NoValue}
    /\ Kernel!TypeOK
    /\ unattended \in 0 .. MaxUnattended
    /\ punctual \in BOOLEAN

(* The first update polls; the watchdog is not armed before a first kick.   *)
Init ==
    /\ plc_command \in [offer : Offer, heartbeat : Heartbeat]
    /\ plc_status = [status_word |-> 0, fault_code |-> 0]
    /\ poll_elapsed = PollPeriod
    /\ watchdog = NewWatchdog
    /\ last_plc_heartbeat = NoValue
    /\ Kernel!Init
    /\ unattended = 0
    /\ punctual = TRUE

-----------------------------------------------------------------------------
(* The PLC rewrites its command, with a heartbeat or without one.           *)
PlcBeat(offer) ==
    /\ \E h \in Heartbeat \ {last_plc_heartbeat} :
           plc_command' = [offer |-> offer, heartbeat |-> h]
    /\ unattended' = 0
    /\ UNCHANGED <<supervisorVars, punctual>>

PlcFrozenWrite(offer) ==
    /\ plc_command' = [plc_command EXCEPT !.offer = offer]
    /\ UNCHANGED <<supervisorVars, unattended, punctual>>

-----------------------------------------------------------------------------
(* PlcSupervisor::update *)

PollDue == poll_elapsed + 1 >= PollPeriod

(* A defect: any command counts as a heartbeat. *)
AnyHeartbeat == TRUE

IsNewHeartbeat == plc_command.heartbeat # last_plc_heartbeat

(* update's first half, when the read, if one is due, succeeds or fails:    *)
(* the watchdog, the last heartbeat and the command it leaves behind.       *)
Watched(read) ==
    Advance(IF read /\ IsNewHeartbeat THEN Kick(watchdog) ELSE watchdog)

Known(read) == IF read THEN plc_command.heartbeat ELSE last_plc_heartbeat

Commanded(read) == IF read THEN DecodePlcCommand(plc_command.offer) ELSE command

(* A defect: a PLC is silent only once it has been heard.                   *)
SilentAfterHeard(w, heartbeat) ==
    IF ~Expired(w) THEN "none" ELSE "communication_timeout"

(* Here silence is a fault from the first cycle, before any heartbeat.      *)
CommunicationFault(w, heartbeat) ==
    IF ~Expired(w) /\ heartbeat # NoValue THEN "none" ELSE "communication_timeout"

(* What the PLC may have after the write of a status: the status when the   *)
(* write succeeds.  A write that fails may have taken effect as well, or,   *)
(* over OPC UA, which writes the status word before the fault code, begun   *)
(* to.  (OpcUaPlc has all the nodes.)                                       *)
Delivered(status, written) ==
    IF written THEN {status}
    ELSE {plc_status, [plc_status EXCEPT !.status_word = status.status_word], status}

SupervisorUpdate(read, written) ==
    /\ read \/ written => PollDue
    /\ poll_elapsed' = IF PollDue THEN 0 ELSE poll_elapsed + 1
    /\ watchdog' = Watched(read)
    /\ last_plc_heartbeat' = Known(read)
    /\ Kernel!Cycle(Commanded(read), CommunicationFault(watchdog', last_plc_heartbeat'))
    /\ plc_status' \in
           IF PollDue
           THEN Delivered(EncodePlcStatus(machine', target_reached'), written)
           ELSE {plc_status}
    /\ unattended' = IF machine'.state # "running" THEN 0
                     ELSE IF unattended < MaxUnattended THEN unattended + 1
                     ELSE unattended
    /\ punctual' = (punctual /\ (PollDue => read /\ IsNewHeartbeat))
    /\ UNCHANGED plc_command

PlcStep == \E offer \in Offer : PlcBeat(offer) \/ PlcFrozenWrite(offer)

Next == PlcStep \/ \E read, written \in BOOLEAN : SupervisorUpdate(read, written)

Spec == Init /\ [][Next]_vars

(* Cycles go on, and a write that is tried again and again succeeds.        *)
FairSpec ==
    /\ Spec
    /\ WF_vars(\E read, written \in BOOLEAN : SupervisorUpdate(read, written))
    /\ SF_vars(\E read \in BOOLEAN : SupervisorUpdate(read, TRUE))

-----------------------------------------------------------------------------
(* An axis that runs has a PLC command behind it and a watchdog that has    *)
(* not expired.                                                             *)
RunningIsSupervised ==
    machine.state = "running" => last_plc_heartbeat # NoValue /\ ~Expired(watchdog)

(* The watchdog, which nothing has kicked yet, does not expire; but while   *)
(* the PLC has not been heard the axis is in a fault all the same, however  *)
(* many polls fail, and needs a reset once the PLC is there.                *)
UnheardIsFault ==
    last_plc_heartbeat = NoValue /\ poll_elapsed < PollPeriod
      => machine = [state |-> "fault", fault |-> "communication_timeout"]

(* A PLC whose heartbeat stops brings a running axis to a stop.  Polls may  *)
(* fail, so its last heartbeat may be found as late as in the last cycle    *)
(* before the watchdog expires, which it then keeps from doing so for       *)
(* another Timeout - 1 cycles.                                              *)
UnattendedBounded == unattended <= 2 * (Timeout - 1)

(* A PLC that answers every poll with a new heartbeat is never taken for a  *)
(* silent one, provided that the timeout is longer than the poll period, be *)
(* it by one cycle.                                                         *)
NoFalseAlarm ==
    PollPeriod < Timeout /\ punctual => machine.fault # "communication_timeout"

(* A fault that stays is eventually what the PLC reads in the status word,  *)
(* with its number.                                                         *)
FaultReported ==
    \A fault \in FaultCode \ {"none"} :
        <>[](machine.state = "fault" /\ machine.fault = fault)
          => <>[](/\ BitIsSet(plc_status.status_word, StatusBit.fault)
                  /\ plc_status.fault_code = FaultNumber[fault])

=============================================================================
