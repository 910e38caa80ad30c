---------------------- MODULE AsyncPlcSupervisorProofs -----------------------
(* Proofs about the asynchronous bridge, for every timeout and set of       *)
(* commands: an axis runs under supervision only, and for a bounded time    *)
(* after the PLC's last heartbeat, however the worker delays and drops.     *)
EXTENDS AsyncPlcSupervisor, ControllerStateMachineProofs

(* The control thread accepts a command in the moment it takes it, and the  *)
(* command it has accepted last is known by its heartbeat.                  *)
MailboxInUse ==
    /\ command_mailbox.held = NoValue
    /\ ~command_mailbox.superseded
    /\ command_mailbox.unread => command_mailbox.value # NoValue
    /\ command_mailbox.value # NoValue /\ ~command_mailbox.unread
         => command_mailbox.value.heartbeat = last_plc_heartbeat
    /\ received # NoValue <=> thread = "publish"

(* The watchdog counts from the start, in every cycle.                      *)
Counting ==
    /\ watchdog.armed
    /\ cycle = "taken" => watchdog.elapsed >= 1

(* Before its first command the loop is not asked to run.                   *)
CommandedByPlc == last_plc_heartbeat = NoValue => command = InitialCommand

(* The heartbeats on their way, from the one taken last to the one that the *)
(* PLC stands at; where nothing is on its way the one taken before counts.  *)
InMailbox ==
    IF command_mailbox.value = NoValue THEN last_plc_heartbeat
    ELSE command_mailbox.value.heartbeat

InHand == IF received = NoValue THEN InMailbox ELSE received.heartbeat

Change(a, b) == IF a = b THEN 0 ELSE 1

(* How often the watchdog can still be kicked before the PLC's next beat.   *)
KicksLeft ==
    Change(last_plc_heartbeat, InMailbox) + Change(InMailbox, InHand)
    + Change(InHand, plc_command.heartbeat)

(* Each of the kicks that are gone was worth Timeout - 1 cycles.            *)
Allowance(kicks) == (3 - kicks) * (Timeout - 1)

Attended ==
    unattended > 0 =>
        /\ cycle = "between" => machine.state = "running"
        /\ unattended + (IF cycle = "taken" THEN 1 ELSE 0)
             <= Allowance(KicksLeft) + watchdog.elapsed

IInv ==
    /\ TypeOK
    /\ MailboxInUse
    /\ Counting
    /\ CommandedByPlc
    /\ RunningIsSupervised
    /\ Attended

-----------------------------------------------------------------------------
(* INSTANCE gives MotionKernel definitions of its own, equal to ours.       *)
LEMMA SameUpdate ==
    ASSUME NEW m, NEW c, NEW reached, NEW detected
    PROVE  Kernel!Update(m, c, reached, detected) = Update(m, c, reached, detected)
BY DEF Update, Kernel!Update, EmergencyStopped, Kernel!EmergencyStopped,
       Released, Kernel!Released, ForceFault, Kernel!ForceFault, Sequence,
       Kernel!Sequence, PoweredOff, Kernel!PoweredOff, Disabled,
       Kernel!Disabled, LatchedState, Kernel!LatchedState

(* A bit is set or it is not. *)
LEMMA BitType ==
    ASSUME NEW word, NEW bit
    PROVE  BitIsSet(word, bit) \in BOOLEAN
<1>1. BitIsSet(word, bit) = TRUE \/ BitIsSet(word, bit) = FALSE
  BY Zenon DEF BitIsSet
<1>. QED
  BY <1>1

(* A command that is read, torn or not, has a heartbeat of the PLC's and    *)
(* becomes a motion command.                                                *)
LEMMA CommandType ==
    ASSUME NEW data \in CommandData
    PROVE  data.heartbeat \in Heartbeat /\ DecodePlcCommand(data) \in MotionCommand
<1>1. PICK word \in Offer, offer \in Offer, h \in Heartbeat :
          data = Torn(word, offer, h)
  BY CommandAssumption
<1>2. /\ offer.target_position_rad \in Position \cup {NonFinite}
      /\ offer.max_velocity_rad_s \in Rate \cup {NonFinite}
      /\ offer.max_acceleration_rad_s2 \in Rate \cup {NonFinite}
  BY OfferAssumption DEF PlcWords
<1>3. /\ data.heartbeat = h
      /\ data.target_position_rad = offer.target_position_rad
      /\ data.max_velocity_rad_s = offer.max_velocity_rad_s
      /\ data.max_acceleration_rad_s2 = offer.max_acceleration_rad_s2
  BY <1>1 DEF Torn, WithHeartbeat
<1>4. /\ BitIsSet(data.control_word, ControlBit.power_available) \in BOOLEAN
      /\ BitIsSet(data.control_word, ControlBit.enable) \in BOOLEAN
      /\ BitIsSet(data.control_word, ControlBit.start) \in BOOLEAN
      /\ BitIsSet(data.control_word, ControlBit.stop) \in BOOLEAN
      /\ BitIsSet(data.control_word, ControlBit.reset_fault) \in BOOLEAN
      /\ BitIsSet(data.control_word, ControlBit.emergency_stop) \in BOOLEAN
  BY BitType
<1>5. DecodePlcCommand(data) \in MotionCommand
  BY <1>2, <1>3, <1>4, Zenon DEF DecodePlcCommand, MotionCommand
<1>. QED
  BY <1>3, <1>5

(* What the PLC offers may be read, whole or with an older control word.    *)
LEMMA OfferedType ==
    ASSUME NEW offer \in Offer, NEW h \in Heartbeat
    PROVE  WithHeartbeat(offer, h) \in CommandData
<1>1. WithHeartbeat(offer, h) = Torn(offer, offer, h)
  BY DEF Torn, WithHeartbeat
<1>. QED
  BY <1>1, CommandAssumption

LEMMA TornType ==
    ASSUME NEW data \in CommandData, NEW word \in Offer
    PROVE  /\ [data EXCEPT !.control_word = word.control_word] \in CommandData
           /\ [data EXCEPT !.control_word = word.control_word].heartbeat
                = data.heartbeat
<1>1. PICK first \in Offer, offer \in Offer, h \in Heartbeat :
          data = Torn(first, offer, h)
  BY CommandAssumption
<1>2. [data EXCEPT !.control_word = word.control_word] = Torn(word, offer, h)
  BY <1>1 DEF Torn, WithHeartbeat
<1>3. Torn(first, offer, h).heartbeat = h /\ Torn(word, offer, h).heartbeat = h
  BY DEF Torn, WithHeartbeat
<1>4. Torn(word, offer, h) \in CommandData
  BY CommandAssumption
<1>. QED
  BY <1>1, <1>2, <1>3, <1>4

(* Heartbeats exist, and NoValue is neither one of them nor data.           *)
LEMMA Values ==
    /\ Heartbeat # {} /\ NoValue \notin Heartbeat
    /\ NoValue \notin CommandData /\ NoValue \notin StatusData
BY HeartbeatAssumption, NoValueAssumption

(* The watchdog's operations. *)
LEMMA WatchdogType ==
    ASSUME NEW w \in WatchdogState
    PROVE  /\ w.elapsed \in 0 .. Timeout /\ w.armed \in BOOLEAN
           /\ Kick(w) \in WatchdogState
           /\ Advance(w) \in WatchdogState
           /\ Kick(w).elapsed = 0 /\ Kick(w).armed
           /\ Advance(w).armed = w.armed
           /\ w.armed /\ w.elapsed < Timeout => Advance(w).elapsed = w.elapsed + 1
           /\ ~(w.armed /\ w.elapsed < Timeout) => Advance(w) = w
BY TimeoutAssumption DEF WatchdogState, Kick, Advance

(* The parts of the two mailboxes. *)
LEMMA BoxTypes ==
    ASSUME IInv
    PROVE  /\ command_mailbox \in CommandBox!Box
           /\ status_mailbox \in StatusBox!Box
           /\ command_mailbox.value \in CommandData \cup {NoValue}
           /\ received \in CommandData \cup {NoValue}
           /\ plc_command \in CommandData
BY DEF IInv, TypeOK, WorkerTypeOK, CommandBox!TypeOK, CommandBox!Box,
       StatusBox!TypeOK

LEMMA StatusBoxOperations ==
    ASSUME NEW b \in StatusBox!Box, NEW s \in StatusData
    PROVE  /\ StatusBox!Published(b, s) \in StatusBox!Box
           /\ StatusBox!Taken(b) \in StatusBox!Box
           /\ StatusBox!Accepted(b) \in StatusBox!Box
           /\ StatusBox!Discarded(b) \in StatusBox!Box
           /\ StatusBox!Forgotten(b) \in StatusBox!Box
BY DEF StatusBox!Box, StatusBox!Published, StatusBox!Taken, StatusBox!Accepted,
       StatusBox!Discarded, StatusBox!Forgotten

(* The fewer kicks are left, the more cycles there may have been. *)
LEMMA AllowanceOf ==
    ASSUME NEW k \in 0 .. 3, NEW j \in 0 .. 3
    PROVE  /\ Allowance(k) \in Nat
           /\ Allowance(k) <= 3 * (Timeout - 1)
           /\ j <= k => Allowance(k) <= Allowance(j)
           /\ j < k => Allowance(k) + (Timeout - 1) <= Allowance(j)
<1>1. \A i \in 0 .. 3 : \/ i = 0 /\ Allowance(i) = 3 * (Timeout - 1)
                        \/ i = 1 /\ Allowance(i) = 2 * (Timeout - 1)
                        \/ i = 2 /\ Allowance(i) = Timeout - 1
                        \/ i = 3 /\ Allowance(i) = 0
  BY TimeoutAssumption DEF Allowance
<1>. QED
  BY <1>1, TimeoutAssumption

LEMMA KicksLeftType == KicksLeft \in 0 .. 3
BY DEF KicksLeft, Change

-----------------------------------------------------------------------------
LEMMA InitIInv == Init => IInv
<1> SUFFICES ASSUME Init PROVE IInv
  OBVIOUS
<1>1. PICK first \in Offer :
          plc_command = WithHeartbeat(first, CHOOSE h \in Heartbeat : TRUE)
  BY DEF Init
<1>2. plc_command \in CommandData
  BY <1>1, Values, OfferedType
<1>3. command_mailbox = CommandBox!Empty /\ status_mailbox = StatusBox!Empty
  BY DEF Init, WorkerInit, CommandBox!Init, StatusBox!Init
<1>4. CommandBox!TypeOK /\ StatusBox!TypeOK
  BY <1>3 DEF CommandBox!TypeOK, CommandBox!Box, CommandBox!Empty,
              StatusBox!TypeOK, StatusBox!Box, StatusBox!Empty
<1>5. PoweredOff \in Machine
  BY DEF PoweredOff, Machine, ControllerState, FaultCode
<1>6. /\ Kernel!TypeOK /\ machine.state = "power_off" /\ command = InitialCommand
  BY <1>5 DEF Init, Kernel!Init, Kernel!TypeOK, PoweredOff, Kernel!PoweredOff,
              Machine, Kernel!Machine, ControllerState, Kernel!ControllerState,
              FaultCode, Kernel!FaultCode, InitialCommand,
              Kernel!InitialCommand
<1>7. watchdog \in WatchdogState /\ watchdog.armed
  BY TimeoutAssumption DEF Init, Kick, WatchdogState
<1>8. TypeOK
  <2>1. WorkerTypeOK
    BY <1>4 DEF Init, WorkerInit, WorkerTypeOK
  <2>2. unattended \in 0 .. MaxUnattended
    BY MaxUnattendedAssumption DEF Init
  <2>3. /\ control_word \in {offer.control_word : offer \in Offer} \cup {NoValue}
        /\ cycle \in {"between", "taken"}
        /\ last_plc_heartbeat \in Heartbeat \cup {NoValue}
        /\ healthy \in BOOLEAN
    BY DEF Init
  <2>. QED
    BY <1>2, <1>6, <1>7, <2>1, <2>2, <2>3 DEF TypeOK
<1>. QED
  BY <1>3, <1>6, <1>7, <1>8
     DEF Init, WorkerInit, IInv, MailboxInUse, CommandBox!Empty, Counting,
         CommandedByPlc, RunningIsSupervised, Attended

(* The PLC's own steps; one with a new heartbeat ends the count.            *)
LEMMA PlcIInv ==
    ASSUME IInv, NEW offer \in Offer, PlcBeat(offer) \/ PlcFrozenWrite(offer)
    PROVE  IInv'
<1>1. UNCHANGED <<workerVars, control_word, controlVars>>
  BY DEF PlcBeat, PlcFrozenWrite
<1>2. /\ plc_command' \in CommandData
      /\ \/ unattended' = 0
         \/ unattended' = unattended /\ plc_command'.heartbeat = plc_command.heartbeat
  <2>1. CASE PlcBeat(offer)
    <3>1. FreshHeartbeat \in Heartbeat
      BY <2>1 DEF PlcBeat, FreshHeartbeat
    <3>. QED
      BY <2>1, <3>1, OfferedType DEF PlcBeat
  <2>2. CASE PlcFrozenWrite(offer)
    <3>1. plc_command.heartbeat \in Heartbeat
      BY BoxTypes, CommandType
    <3>2. WithHeartbeat(offer, plc_command.heartbeat).heartbeat = plc_command.heartbeat
      BY DEF WithHeartbeat
    <3>. QED
      BY <2>2, <3>1, <3>2, OfferedType DEF PlcFrozenWrite
  <2>. QED
    BY <2>1, <2>2
<1>3. WorkerTypeOK' /\ Kernel!TypeOK'
  BY <1>1 DEF IInv, TypeOK, WorkerTypeOK, workerVars, request, link, mailboxes,
              controlVars, kernelVars, Kernel!TypeOK, CommandBox!TypeOK,
              StatusBox!TypeOK
<1>4. TypeOK'
  BY <1>1, <1>2, <1>3, MaxUnattendedAssumption
     DEF IInv, TypeOK, controlVars
<1>5. Attended'
  <2> SUFFICES ASSUME unattended' > 0 PROVE Attended'
    BY DEF Attended
  <2>1. unattended' = unattended /\ plc_command'.heartbeat = plc_command.heartbeat
    BY <1>2
  <2>2. KicksLeft' = KicksLeft
    BY <1>1, <2>1 DEF KicksLeft, InHand, InMailbox, workerVars, mailboxes, controlVars
  <2>. QED
    BY <1>1, <2>1, <2>2 DEF controlVars, kernelVars, IInv, Attended
<1>. QED
  BY <1>1, <1>4, <1>5
     DEF workerVars, mailboxes, controlVars, kernelVars, IInv, MailboxInUse,
         Counting, CommandedByPlc, RunningIsSupervised

(* Steps of the worker and of its owner that move no command.               *)
LEMMA WorkerIInv ==
    ASSUME IInv, UNCHANGED <<plc_command, controlVars, unattended>>,
           \/ BeginRead
           \/ /\ OwnerStep
              /\ UNCHANGED control_word
           \/ /\ Test \/ WakeUp \/ ReadFails \/ TakeStatus \/ NoStatus
                 \/ WriteStatus \/ WriteFails \/ Exit
                 \/ \E ok \in BOOLEAN : Connect(ok)
              /\ control_word' = NoValue
    PROVE  IInv'
<1> USE DEF OwnerStep, request, link, mailboxes
<1>1. UNCHANGED <<received, command_mailbox>>
  BY DEF BeginRead, workerVars, Start, RequestStop, Join, Test, WakeUp, ReadFails,
         TakeStatus, NoStatus, WriteStatus, WriteFails, Exit, Connect
<1>2. status_mailbox' \in StatusBox!Box /\ plc_status' \in StatusData \cup {NoValue}
  <2>1. status_mailbox \in StatusBox!Box /\ plc_status \in StatusData \cup {NoValue}
        /\ status_mailbox.held \in StatusData \cup {NoValue}
    BY BoxTypes DEF IInv, TypeOK, WorkerTypeOK, StatusBox!Box
  <2>2. CASE UNCHANGED <<status_mailbox, plc_status>>
    BY <2>1, <2>2
  <2>3. CASE Start
    BY <2>1, <2>3 DEF Start, StatusBox!Forget, StatusBox!Forgotten, StatusBox!Box
  <2>4. CASE TakeStatus
    BY <2>1, <2>4 DEF TakeStatus, StatusBox!Take, StatusBox!Taken, StatusBox!Box
  <2>5. CASE WriteStatus
    BY <2>1, <2>5 DEF WriteStatus, StatusBox!Accept, StatusBox!Accepted, StatusBox!Box
  <2>6. CASE WriteFails
    BY <2>1, <2>6 DEF WriteFails, StatusBox!Discard, StatusBox!Discarded, StatusBox!Box
  <2>. QED
    BY <2>2, <2>3, <2>4, <2>5, <2>6
       DEF BeginRead, workerVars, RequestStop, Join, Test, WakeUp, ReadFails,
           NoStatus, Exit, Connect
<1>3. /\ thread' \in {"none", "test", "connect", "wait", "read", "publish",
                      "status", "write", "sleep", "exit", "exited"}
      /\ owner' \in {"free", "joining"} /\ stop_requested' \in BOOLEAN
      /\ connected' \in BOOLEAN /\ session' \in BOOLEAN
      /\ thread = "publish" <=> thread' = "publish"
  BY DEF BeginRead, workerVars, Start, RequestStop, Join, Test, WakeUp, ReadFails,
         Abandon, TakeStatus, NoStatus, WriteStatus, WriteFails, Exit, Connect,
         IInv, TypeOK, WorkerTypeOK
<1>4. control_word' \in {offer.control_word : offer \in Offer} \cup {NoValue}
  <2>1. CASE BeginRead
    <3>1. PICK word \in Offer, offer \in Offer, h \in Heartbeat :
              plc_command = Torn(word, offer, h)
      BY BoxTypes, CommandAssumption
    <3>2. plc_command.control_word = word.control_word
      BY <3>1 DEF Torn, WithHeartbeat
    <3>. QED
      BY <2>1, <3>2 DEF BeginRead
  <2>2. CASE ~BeginRead
    BY <2>2 DEF IInv, TypeOK
  <2>. QED
    BY <2>1, <2>2
<1>5. Kernel!TypeOK'
  BY DEF IInv, TypeOK, controlVars, kernelVars, Kernel!TypeOK
<1>6. TypeOK'
  BY <1>1, <1>2, <1>3, <1>4, <1>5
     DEF IInv, TypeOK, WorkerTypeOK, controlVars, CommandBox!TypeOK,
         StatusBox!TypeOK
<1>7. KicksLeft' = KicksLeft
  BY <1>1 DEF KicksLeft, InHand, InMailbox, controlVars
<1>. QED
  BY <1>1, <1>3, <1>6, <1>7
     DEF controlVars, kernelVars, IInv, MailboxInUse, Counting, CommandedByPlc,
         RunningIsSupervised, Attended

(* A read brings no kick that was not counted, nor does a publication.      *)
LEMMA ReadIInv == ASSUME IInv, ReadCommand PROVE IInv'
<1>1. /\ thread = "read" /\ thread' = "publish"
      /\ received' = [plc_command EXCEPT !.control_word = control_word]
      /\ UNCHANGED <<request, link, mailboxes, plc_status, plc_command,
                     controlVars, unattended>>
      /\ control_word # NoValue /\ control_word' = NoValue
  BY DEF ReadCommand, Read
<1>2. received = NoValue
  BY <1>1 DEF IInv, MailboxInUse
<1>3. PICK word \in Offer : control_word = word.control_word
  BY <1>1 DEF IInv, TypeOK
<1>4. received' \in CommandData /\ received'.heartbeat = plc_command.heartbeat
  BY <1>1, <1>3, BoxTypes, TornType
<1>5. received' # NoValue
  BY <1>4, Values
<1>6. Kernel!TypeOK'
  BY <1>1 DEF IInv, TypeOK, controlVars, kernelVars, Kernel!TypeOK
<1>7. TypeOK'
  BY <1>1, <1>4, <1>6
     DEF IInv, TypeOK, WorkerTypeOK, controlVars, request, link, mailboxes,
         CommandBox!TypeOK, StatusBox!TypeOK
<1>8. KicksLeft' = KicksLeft
  BY <1>1, <1>2, <1>4, <1>5
     DEF KicksLeft, Change, InHand, InMailbox, controlVars, mailboxes
<1>. QED
  BY <1>1, <1>5, <1>7, <1>8
     DEF controlVars, kernelVars, mailboxes, IInv, MailboxInUse, Counting,
         CommandedByPlc, RunningIsSupervised, Attended

LEMMA PublishIInv ==
    ASSUME IInv, NEW lock \in BOOLEAN, PublishCommand(lock), control_word' = NoValue,
           UNCHANGED <<plc_command, controlVars, unattended>>
    PROVE  IInv'
<1>1. /\ thread = "publish" /\ thread' = "status" /\ received' = NoValue
      /\ UNCHANGED <<owner, stop_requested, connected, session, status_mailbox,
                     plc_status>>
  BY DEF PublishCommand, request, link
<1>2. received \in CommandData
  BY <1>1, BoxTypes DEF IInv, MailboxInUse
<1>3. /\ command_mailbox' \in CommandBox!Box
      /\ command_mailbox'.held = NoValue /\ ~command_mailbox'.superseded
      /\ \/ command_mailbox' = command_mailbox
         \/ command_mailbox'.value = received /\ command_mailbox'.unread
  <2>1. CASE lock
    <3>1. command_mailbox' = CommandBox!Published(command_mailbox, received)
      BY <2>1 DEF PublishCommand, CommandBox!Publish
    <3>. QED
      BY <1>2, <3>1, BoxTypes DEF CommandBox!Published, CommandBox!Box, IInv, MailboxInUse
  <2>2. CASE ~lock
    BY <2>2, BoxTypes DEF PublishCommand, IInv, MailboxInUse
  <2>. QED
    BY <2>1, <2>2
<1>4. MailboxInUse'
  BY <1>1, <1>2, <1>3, Values DEF controlVars, IInv, MailboxInUse
<1>5. Kernel!TypeOK'
  BY DEF IInv, TypeOK, controlVars, kernelVars, Kernel!TypeOK
<1>6. TypeOK'
  BY <1>1, <1>3, <1>5
     DEF IInv, TypeOK, WorkerTypeOK, controlVars, CommandBox!TypeOK, StatusBox!TypeOK
<1>7. KicksLeft' <= KicksLeft
  <2>1. received # NoValue
    BY <1>2, Values
  <2>2. InHand = received.heartbeat /\ InHand' = InMailbox'
    BY <1>1, <2>1 DEF InHand
  <2>3. InMailbox' \in {InMailbox, received.heartbeat}
    BY <1>3, <2>1 DEF InMailbox, controlVars
  <2>. QED
    BY <2>2, <2>3 DEF KicksLeft, Change, controlVars
<1>8. Attended'
  <2>1. /\ Allowance(KicksLeft) <= Allowance(KicksLeft')
        /\ Allowance(KicksLeft) \in Nat /\ Allowance(KicksLeft') \in Nat
    <3>1. KicksLeft \in 0 .. 3 /\ KicksLeft' \in 0 .. 3
      BY DEF KicksLeft, Change
    <3>. QED
      BY <1>7, <3>1, AllowanceOf
  <2>2. watchdog.elapsed \in Nat /\ unattended \in Nat
    BY WatchdogType, MaxUnattendedAssumption DEF IInv, TypeOK
  <2>. QED
    BY <2>1, <2>2 DEF controlVars, kernelVars, IInv, Attended
<1>. QED
  BY <1>4, <1>6, <1>8
     DEF controlVars, kernelVars, IInv, Counting, CommandedByPlc, RunningIsSupervised

-----------------------------------------------------------------------------
(* While an axis runs between two cycles its watchdog counts on.            *)
LEMMA WatchdogRuns ==
    ASSUME IInv, cycle = "between"
    PROVE  /\ watchdog \in WatchdogState /\ watchdog.elapsed \in 0 .. Timeout
           /\ Timeout \in Nat \ {0} /\ unattended \in Nat
           /\ Advance(watchdog) \in WatchdogState
           /\ Advance(watchdog).armed /\ Advance(watchdog).elapsed >= 1
           /\ unattended > 0 => /\ watchdog.elapsed < Timeout
                                /\ Advance(watchdog).elapsed = watchdog.elapsed + 1
           /\ Advance(Kick(watchdog)) \in WatchdogState
           /\ Advance(Kick(watchdog)).armed /\ Advance(Kick(watchdog)).elapsed = 1
<1>1. /\ watchdog \in WatchdogState /\ watchdog.armed
      /\ Timeout \in Nat \ {0} /\ unattended \in Nat
  BY TimeoutAssumption, MaxUnattendedAssumption DEF IInv, TypeOK, Counting
<1>2. watchdog.elapsed \in 0 .. Timeout
  BY <1>1, WatchdogType
<1>3. unattended > 0 => watchdog.elapsed < Timeout
  BY <1>1, <1>2 DEF IInv, Attended, RunningIsSupervised, Expired
<1>4. /\ Advance(watchdog) \in WatchdogState /\ Advance(watchdog).armed
      /\ watchdog.elapsed < Timeout => Advance(watchdog).elapsed = watchdog.elapsed + 1
      /\ ~(watchdog.elapsed < Timeout) => Advance(watchdog) = watchdog
  BY <1>1, WatchdogType
<1>5. Kick(watchdog) \in WatchdogState /\ Kick(watchdog).elapsed = 0 /\ Kick(watchdog).armed
  BY <1>1, WatchdogType
<1>6. /\ Advance(Kick(watchdog)) \in WatchdogState /\ Advance(Kick(watchdog)).armed
      /\ Advance(Kick(watchdog)).elapsed = 1
  BY <1>1, <1>5, WatchdogType
<1>. QED
  BY <1>1, <1>2, <1>3, <1>4, <1>6

LEMMA TakeNothingIInv == ASSUME IInv, TakeNothing PROVE IInv'
<1>1. /\ cycle = "between" /\ cycle' = "taken" /\ watchdog' = Advance(watchdog)
      /\ UNCHANGED <<workerVars, plc_command, control_word, last_plc_heartbeat,
                     healthy, kernelVars, unattended>>
  BY DEF TakeNothing
<1>2. Kernel!TypeOK'
  BY <1>1 DEF IInv, TypeOK, kernelVars, Kernel!TypeOK
<1>3. WorkerTypeOK'
  BY <1>1 DEF IInv, TypeOK, WorkerTypeOK, workerVars, request, link, mailboxes,
              CommandBox!TypeOK, StatusBox!TypeOK
<1>4. TypeOK' /\ Counting'
  BY <1>1, <1>2, <1>3, WatchdogRuns DEF IInv, TypeOK, Counting
<1>5. KicksLeft' = KicksLeft
  BY <1>1 DEF KicksLeft, InHand, InMailbox, workerVars, mailboxes
<1>6. Attended'
  <2>1. Allowance(KicksLeft) \in Nat
    BY KicksLeftType, AllowanceOf
  <2>. QED
    BY <1>1, <1>5, <2>1, WatchdogRuns DEF IInv, Attended
<1>. QED
  BY <1>1, <1>4, <1>6
     DEF workerVars, mailboxes, kernelVars, IInv, MailboxInUse, CommandedByPlc,
         RunningIsSupervised

LEMMA TakeCommandIInv == ASSUME IInv, TakeCommand PROVE IInv'
<1> DEFINE data == command_mailbox.value
<1>1. /\ cycle = "between" /\ cycle' = "taken" /\ command_mailbox.unread
      /\ command_mailbox' = CommandBox!Accepted(CommandBox!Taken(command_mailbox))
      /\ command' = DecodePlcCommand(data)
      /\ last_plc_heartbeat' = data.heartbeat
      /\ watchdog' = Advance(IF data.heartbeat # last_plc_heartbeat
                             THEN Kick(watchdog) ELSE watchdog)
      /\ UNCHANGED <<thread, request, link, received, status_mailbox, plc_status,
                     plc_command, control_word, healthy, machine,
                     external_fault, target_reached, unattended>>
  BY DEF TakeCommand, TryReadCommand, IsNewHeartbeat, Delivered, Kernel!SetCommand
<1>2. data \in CommandData /\ data # NoValue
  BY <1>1, BoxTypes DEF IInv, MailboxInUse
<1>3. data.heartbeat \in Heartbeat /\ data.heartbeat # NoValue
  BY <1>2, CommandType, Values
<1>4. /\ command_mailbox' \in CommandBox!Box
      /\ command_mailbox'.value = data /\ command_mailbox'.held = NoValue
      /\ ~command_mailbox'.unread /\ ~command_mailbox'.superseded
  BY <1>1, <1>2, BoxTypes
     DEF CommandBox!Accepted, CommandBox!Taken, CommandBox!Box, IInv, MailboxInUse
<1>5. Kernel!TypeOK'
  BY <1>1, <1>2 DEF IInv, TypeOK, Kernel!TypeOK
<1>6. WorkerTypeOK'
  BY <1>1, <1>4 DEF IInv, TypeOK, WorkerTypeOK, request, link,
                    CommandBox!TypeOK, StatusBox!TypeOK
<1>7. watchdog' \in WatchdogState /\ watchdog'.armed /\ watchdog'.elapsed >= 1
  BY <1>1, WatchdogRuns
<1>8. TypeOK'
  BY <1>1, <1>3, <1>5, <1>6, <1>7 DEF IInv, TypeOK
<1>9. MailboxInUse' /\ Counting' /\ CommandedByPlc'
  BY <1>1, <1>3, <1>4, <1>7 DEF IInv, MailboxInUse, Counting, CommandedByPlc
<1>10. KicksLeft' = KicksLeft - (IF data.heartbeat # last_plc_heartbeat THEN 1 ELSE 0)
  <2>1. InMailbox = data.heartbeat /\ InMailbox' = data.heartbeat
    BY <1>1, <1>2, <1>4 DEF InMailbox
  <2>2. InHand' = InHand
    BY <1>1, <2>1 DEF InHand
  <2>. QED
    BY <1>1, <2>1, <2>2 DEF KicksLeft, Change
<1>11. Attended'
  <2>1. KicksLeft \in 0 .. 3 /\ KicksLeft' \in 0 .. 3
    BY DEF KicksLeft, Change
  <2>2. Allowance(KicksLeft) \in Nat /\ Allowance(KicksLeft') \in Nat
    BY <2>1, AllowanceOf
  <2>3. CASE data.heartbeat # last_plc_heartbeat
    <3>1. Allowance(KicksLeft) + (Timeout - 1) <= Allowance(KicksLeft')
      BY <1>10, <2>1, <2>3, AllowanceOf
    <3>2. watchdog'.elapsed = 1
      BY <1>1, <2>3, WatchdogRuns
    <3>. QED
      BY <1>1, <2>2, <3>1, <3>2, WatchdogRuns DEF IInv, Attended
  <2>4. CASE data.heartbeat = last_plc_heartbeat
    <3>1. KicksLeft' = KicksLeft
      BY <1>10, <2>1, <2>4
    <3>. QED
      BY <1>1, <2>2, <2>4, <3>1, WatchdogRuns DEF IInv, Attended
  <2>. QED
    BY <2>3, <2>4
<1>. QED
  BY <1>1, <1>8, <1>9, <1>11 DEF IInv, RunningIsSupervised

-----------------------------------------------------------------------------
LEMMA StepIInv ==
    ASSUME IInv, NEW lock \in BOOLEAN, StepAndPublish(lock)
    PROVE  IInv'
<1> DEFINE detected == Kernel!DetectedFault(command, TimeoutFault)
<1>1. /\ cycle = "taken" /\ cycle' = "between" /\ healthy' = Healthy
      /\ command' = command /\ external_fault' = TimeoutFault
      /\ target_reached' \in BOOLEAN
      /\ UNCHANGED <<thread, request, link, received, command_mailbox, plc_status,
                     plc_command, control_word, watchdog, last_plc_heartbeat>>
  BY DEF StepAndPublish, Kernel!Cycle, TryPublishStatus
<1>2. /\ command \in {DecodePlcCommand(data) : data \in CommandData}
                     \cup {Kernel!InitialCommand}
      /\ command \in MotionCommand
  <2>1. command \in {DecodePlcCommand(data) : data \in CommandData}
                    \cup {Kernel!InitialCommand}
    BY DEF IInv, TypeOK, Kernel!TypeOK
  <2>2. Kernel!InitialCommand \in MotionCommand
    BY PositionAssumption, RateAssumption DEF Kernel!InitialCommand, MotionCommand
  <2>. QED
    BY <2>1, <2>2, CommandType
<1>3. /\ detected \in FaultCode
      /\ Expired(watchdog) => detected = "communication_timeout"
  BY DEF Kernel!DetectedFault, Kernel!ValidateCommand, TimeoutFault, FaultCode
<1>4. machine \in Machine /\ target_reached \in BOOLEAN
  BY DEF IInv, TypeOK, Kernel!TypeOK, Machine, Kernel!Machine, ControllerState,
         Kernel!ControllerState, FaultCode, Kernel!FaultCode
<1>5. machine' = Update(machine, command, target_reached, detected)
  BY SameUpdate DEF StepAndPublish, Kernel!Cycle
<1>6. machine' \in Machine
  BY <1>2, <1>3, <1>4, <1>5, UpdateType
<1>7. machine'.state = "running" => detected = "none" /\ command.enable
  BY <1>2, <1>3, <1>4, <1>5, UpdateRunning
<1>8. Kernel!TypeOK'
  BY <1>1, <1>2, <1>6
     DEF Kernel!TypeOK, Machine, Kernel!Machine, ControllerState,
         Kernel!ControllerState, FaultCode, Kernel!FaultCode, TimeoutFault
<1>9. status_mailbox' \in StatusBox!Box
  <2>1. Report(EncodePlcStatus(machine', target_reached')) \in StatusData
    BY <1>1, <1>6, ReportAssumption
  <2>2. \/ status_mailbox' = status_mailbox
        \/ status_mailbox' = StatusBox!Published(status_mailbox,
                                 Report(EncodePlcStatus(machine', target_reached')))
    BY DEF StepAndPublish, TryPublishStatus, StatusBox!Publish
  <2>3. status_mailbox \in StatusBox!Box
    BY BoxTypes
  <2>. QED
    BY <2>1, <2>2, <2>3, StatusBoxOperations
<1>10. WorkerTypeOK'
  BY <1>1, <1>9 DEF IInv, TypeOK, WorkerTypeOK, request, link,
                    CommandBox!TypeOK, StatusBox!TypeOK
<1>11. unattended \in Nat /\ unattended' \in 0 .. MaxUnattended /\ unattended' \in Nat
  BY MaxUnattendedAssumption DEF StepAndPublish, IInv, TypeOK
<1>12. healthy' \in BOOLEAN
  BY <1>1 DEF Healthy, IInv, TypeOK, WorkerTypeOK
<1>13. TypeOK'
  BY <1>1, <1>8, <1>10, <1>11, <1>12 DEF IInv, TypeOK
<1>14. RunningIsSupervised'
  BY <1>1, <1>3, <1>7
     DEF RunningIsSupervised, IInv, CommandedByPlc, InitialCommand, Expired
<1>15. Attended'
  <2> SUFFICES ASSUME unattended' > 0 PROVE Attended'
    BY DEF Attended
  <2>1. machine'.state = "running" /\ unattended' <= unattended + 1
    BY <1>11 DEF StepAndPublish
  <2>2. KicksLeft' = KicksLeft
    BY <1>1 DEF KicksLeft, InHand, InMailbox
  <2>3. Allowance(KicksLeft) \in Nat
    BY KicksLeftType, AllowanceOf
  <2>4. watchdog.elapsed \in Nat /\ watchdog.elapsed >= 1
    BY <1>1, WatchdogType DEF IInv, TypeOK, Counting
  <2>. QED
    BY <1>1, <1>11, <2>1, <2>2, <2>3, <2>4 DEF IInv, Attended
<1>. QED
  BY <1>1, <1>13, <1>14, <1>15 DEF IInv, MailboxInUse, Counting, CommandedByPlc

LEMMA Invariance == Spec => []IInv
<1>1. IInv /\ [Next]_vars => IInv'
  <2> SUFFICES ASSUME IInv, [Next]_vars PROVE IInv'
    OBVIOUS
  <2>1. CASE UNCHANGED vars
    <3>1. UNCHANGED <<workerVars, plc_command, control_word, controlVars, unattended>>
      BY <2>1 DEF vars
    <3>2. WorkerTypeOK' /\ Kernel!TypeOK'
      BY <3>1 DEF IInv, TypeOK, WorkerTypeOK, workerVars, request, link, mailboxes,
                  controlVars, kernelVars, Kernel!TypeOK, CommandBox!TypeOK,
                  StatusBox!TypeOK
    <3>3. TypeOK' /\ KicksLeft' = KicksLeft
      BY <3>1, <3>2 DEF IInv, TypeOK, controlVars, workerVars, mailboxes, KicksLeft,
                        InHand, InMailbox
    <3>. QED
      BY <3>1, <3>3
         DEF workerVars, mailboxes, controlVars, kernelVars, IInv, MailboxInUse,
             Counting, CommandedByPlc, RunningIsSupervised, Attended
  <2>2. CASE Run
    BY <2>2, WorkerIInv, PublishIInv DEF Run, RunStep
  <2>3. CASE Own
    BY <2>3, WorkerIInv DEF Own
  <2>4. CASE BeginRead
    BY <2>4, WorkerIInv DEF BeginRead
  <2>. QED
    BY <2>1, <2>2, <2>3, <2>4, PlcIInv, ReadIInv, TakeCommandIInv,
       TakeNothingIInv, StepIInv DEF Next
<1>. QED
  BY <1>1, InitIInv, PTL DEF Spec

-----------------------------------------------------------------------------
(* The variables of the asynchronous bridge keep their types.               *)
THEOREM TypeCorrect == Spec => []TypeOK
<1>1. IInv => TypeOK
  BY DEF IInv
<1>. QED
  BY <1>1, Invariance, PTL

(* Between two cycles of AsyncPlcSupervisor::update a running axis has a    *)
(* PLC command behind it and a watchdog that has not expired.               *)
THEOREM Supervised == Spec => []RunningIsSupervised
<1>1. IInv => RunningIsSupervised
  BY DEF IInv
<1>. QED
  BY <1>1, Invariance, PTL

(* However slow and lossy the worker is, an axis does not run on for four   *)
(* timeouts after the PLC's last heartbeat.                                 *)
THEOREM SilenceStopsTheAxis == Spec => []UnattendedBounded
<1>1. IInv => UnattendedBounded
  <2> SUFFICES ASSUME IInv, unattended > 0 PROVE UnattendedBounded
    BY TimeoutAssumption, MaxUnattendedAssumption
       DEF UnattendedBounded, IInv, TypeOK
  <2>1. /\ watchdog.elapsed \in 0 .. Timeout /\ Timeout \in Nat \ {0}
        /\ unattended \in Nat
    BY WatchdogType, TimeoutAssumption, MaxUnattendedAssumption DEF IInv, TypeOK
  <2>2. /\ Allowance(KicksLeft) \in Nat
        /\ Allowance(KicksLeft) <= 3 * (Timeout - 1)
    BY KicksLeftType, AllowanceOf
  <2>3. CASE cycle = "between"
    <3>1. watchdog.elapsed < Timeout
      BY <2>3, WatchdogRuns
    <3>. QED
      BY <2>1, <2>2, <2>3, <3>1 DEF IInv, Attended, UnattendedBounded
  <2>4. CASE cycle = "taken"
    BY <2>1, <2>2, <2>4 DEF IInv, Attended, UnattendedBounded
  <2>. QED
    BY <2>3, <2>4 DEF IInv, TypeOK
<1>. QED
  BY <1>1, Invariance, PTL

=============================================================================
