------------------------ MODULE PlcSupervisorProofs -------------------------
(* Proofs about the synchronous supervisor, for every poll period, timeout  *)
(* and set of commands: an axis runs under supervision only, for a bounded  *)
(* time after the PLC's last heartbeat, and no punctual PLC is taken for a  *)
(* silent one.  In the second part, about its demonstration: for every      *)
(* timeout that DemoAssumption allows it shows what is documented.          *)
EXTENDS PlcDemo, ControllerStateMachineProofs

(* Since the first heartbeat the watchdog counts the cycles after the last  *)
(* kick, the cycle of the kick among them.                                  *)
Counting == last_plc_heartbeat # NoValue => watchdog.armed /\ watchdog.elapsed >= 1

(* While every poll finds a new heartbeat the watchdog counts the cycles    *)
(* since the last poll.                                                     *)
InStep ==
    punctual =>
        \/ last_plc_heartbeat = NoValue /\ poll_elapsed = PollPeriod
        \/ /\ last_plc_heartbeat # NoValue
           /\ poll_elapsed < PollPeriod
           /\ watchdog.elapsed <= poll_elapsed + 1

(* The PLC's last heartbeat came after the last kick, or it was the last    *)
(* kick and was found before the one before it had expired.                 *)
Attended ==
    unattended > 0 =>
        /\ machine.state = "running"
        /\ unattended <= IF plc_command.heartbeat = last_plc_heartbeat
                         THEN watchdog.elapsed + Timeout - 2
                         ELSE watchdog.elapsed - 1

IInv ==
    /\ TypeOK
    /\ Counting
    /\ InStep
    /\ Attended
    /\ RunningIsSupervised
    /\ NoFalseAlarm

-----------------------------------------------------------------------------
(* INSTANCE gives MotionKernel definitions of its own, equal to ours.       *)
LEMMA SameUpdate ==
    ASSUME NEW m, NEW c, NEW reached, NEW detected
    PROVE  Kernel!Update(m, c, reached, detected) = Update(m, c, reached, detected)
BY DEF Update, Kernel!Update, EmergencyStopped, Kernel!EmergencyStopped,
       Released, Kernel!Released, ForceFault, Kernel!ForceFault, Sequence,
       Kernel!Sequence, PoweredOff, Kernel!PoweredOff, Disabled,
       Kernel!Disabled, LatchedState, Kernel!LatchedState

(* A bit is set or it is not. *)
LEMMA BitType ==
    ASSUME NEW word, NEW bit
    PROVE  BitIsSet(word, bit) \in BOOLEAN
<1>1. BitIsSet(word, bit) = TRUE \/ BitIsSet(word, bit) = FALSE
  BY Zenon DEF BitIsSet
<1>. QED
  BY <1>1

(* The words that a PLC writes become motion commands. *)
LEMMA DecodedType ==
    ASSUME NEW offer \in Offer
    PROVE  DecodePlcCommand(offer) \in MotionCommand
<1>1. offer \in PlcWords
  BY OfferAssumption
<1>2. /\ BitIsSet(offer.control_word, ControlBit.power_available) \in BOOLEAN
      /\ BitIsSet(offer.control_word, ControlBit.enable) \in BOOLEAN
      /\ BitIsSet(offer.control_word, ControlBit.start) \in BOOLEAN
      /\ BitIsSet(offer.control_word, ControlBit.stop) \in BOOLEAN
      /\ BitIsSet(offer.control_word, ControlBit.reset_fault) \in BOOLEAN
      /\ BitIsSet(offer.control_word, ControlBit.emergency_stop) \in BOOLEAN
  BY BitType
<1>3. /\ offer.target_position_rad \in Position \cup {NonFinite}
      /\ offer.max_velocity_rad_s \in Rate \cup {NonFinite}
      /\ offer.max_acceleration_rad_s2 \in Rate \cup {NonFinite}
  BY <1>1 DEF PlcWords
<1>. QED
  BY <1>2, <1>3, Zenon DEF DecodePlcCommand, MotionCommand

LEMMA InitialCommandType == InitialCommand \in MotionCommand
BY PositionAssumption, RateAssumption
   DEF InitialCommand, MotionCommand

(* The watchdog's operations. *)
LEMMA WatchdogType ==
    ASSUME NEW w \in WatchdogState
    PROVE  /\ w.elapsed \in 0 .. Timeout /\ w.armed \in BOOLEAN
           /\ Kick(w) \in WatchdogState
           /\ Advance(w) \in WatchdogState
           /\ Kick(w).elapsed = 0 /\ Kick(w).armed
           /\ Advance(w).armed = w.armed
           /\ w.armed /\ w.elapsed < Timeout => Advance(w).elapsed = w.elapsed + 1
           /\ ~(w.armed /\ w.elapsed < Timeout) => Advance(w) = w
BY TimeoutAssumption DEF WatchdogState, Kick, Advance

(* A cycle under a detected fault, or none: its fault is that one, one that *)
(* the machine has held, or none.                                           *)
LEMMA UpdateFault ==
    ASSUME NEW m \in Machine, NEW c \in MotionCommand,
           NEW reached \in BOOLEAN, NEW detected \in FaultCode
    PROVE  Update(m, c, reached, detected).fault \in {m.fault, detected, "none"}
BY DEF Update, EmergencyStopped, Released, PoweredOff, Disabled, ForceFault,
       Machine

-----------------------------------------------------------------------------
LEMMA InitIInv == Init => IInv
<1> SUFFICES ASSUME Init PROVE IInv
  OBVIOUS
<1>1. PoweredOff \in Machine
  BY DEF PoweredOff, Machine, ControllerState, FaultCode
<1>2. /\ Kernel!TypeOK /\ machine.state = "power_off" /\ machine.fault = "none"
  BY <1>1 DEF Init, Kernel!Init, Kernel!TypeOK, PoweredOff, Kernel!PoweredOff,
              Machine, Kernel!Machine, ControllerState, Kernel!ControllerState,
              FaultCode, Kernel!FaultCode, InitialCommand,
              Kernel!InitialCommand
<1>3. watchdog \in WatchdogState
  BY TimeoutAssumption DEF Init, NewWatchdog, WatchdogState
<1>4. /\ poll_elapsed \in 0 .. PollPeriod /\ unattended \in 0 .. MaxUnattended
  BY TimeoutAssumption, PollPeriodAssumption
     DEF Init, MaxUnattended
<1>5. TypeOK
  BY <1>2, <1>3, <1>4 DEF Init, TypeOK
<1>. QED
  BY <1>2, <1>5 DEF Init, IInv, Counting, InStep, Attended,
                    RunningIsSupervised, NoFalseAlarm

(* The PLC's own steps touch its command and the history only. *)
LEMMA PlcStepIInv == IInv /\ PlcStep => IInv'
<1> SUFFICES ASSUME IInv, NEW offer \in Offer,
                    PlcBeat(offer) \/ PlcFrozenWrite(offer)
             PROVE  IInv'
  BY DEF PlcStep
<1>1. /\ plc_command' \in [offer : Offer, heartbeat : Heartbeat]
      /\ unattended' \in 0 .. MaxUnattended
      /\ unattended' > 0 => /\ unattended' = unattended
                            /\ plc_command'.heartbeat = plc_command.heartbeat
  BY TimeoutAssumption
     DEF PlcBeat, PlcFrozenWrite, IInv, TypeOK, MaxUnattended
<1>2. UNCHANGED <<supervisorVars, punctual>>
  BY DEF PlcBeat, PlcFrozenWrite
<1>3. Kernel!TypeOK'
  BY <1>2 DEF supervisorVars, kernelVars, Kernel!TypeOK, IInv, TypeOK
<1>4. TypeOK'
  BY <1>1, <1>2, <1>3 DEF supervisorVars, kernelVars, IInv, TypeOK
<1>5. Attended'
  BY <1>1, <1>2 DEF supervisorVars, kernelVars, IInv, Attended
<1>. QED
  BY <1>2, <1>4, <1>5 DEF supervisorVars, kernelVars, IInv, Counting, InStep,
                          RunningIsSupervised, NoFalseAlarm

-----------------------------------------------------------------------------
(* What an update does to its own variables and to the machine.             *)
LEMMA UpdateEffect ==
    ASSUME IInv, NEW read \in BOOLEAN, NEW written \in BOOLEAN,
           SupervisorUpdate(read, written)
    PROVE  /\ TypeOK'
           /\ machine'.state = "running" =>
                 ~Expired(watchdog') /\ last_plc_heartbeat' # NoValue
           /\ machine'.fault = "communication_timeout" =>
                 \/ machine.fault = "communication_timeout"
                 \/ Expired(watchdog') \/ last_plc_heartbeat' = NoValue
<1> DEFINE c == Commanded(read)
           fault == CommunicationFault(watchdog', last_plc_heartbeat')
           detected == Kernel!DetectedFault(c, fault)
<1>1. /\ c \in {DecodePlcCommand(offer) : offer \in Offer} \cup {Kernel!InitialCommand}
      /\ c \in MotionCommand
  <2>1. /\ plc_command.offer \in Offer
        /\ command \in {DecodePlcCommand(offer) : offer \in Offer} \cup {Kernel!InitialCommand}
    BY DEF IInv, TypeOK, Kernel!TypeOK
  <2>2. Kernel!InitialCommand \in MotionCommand
    BY InitialCommandType DEF InitialCommand, Kernel!InitialCommand
  <2>. QED
    BY <2>1, <2>2, DecodedType DEF Commanded
<1>2. fault \in {"none", "communication_timeout"}
  BY DEF CommunicationFault
<1>3. /\ detected \in {"none", "communication_timeout", "invalid_command"}
      /\ fault # "none" => detected = fault
      /\ fault = "none" => detected # "communication_timeout"
  BY <1>2 DEF Kernel!DetectedFault, Kernel!ValidateCommand
<1>4. detected \in FaultCode /\ machine \in Machine /\ target_reached \in BOOLEAN
  BY <1>3 DEF FaultCode, IInv, TypeOK, Kernel!TypeOK, Machine, Kernel!Machine,
              ControllerState, Kernel!ControllerState, Kernel!FaultCode
<1>5. machine' = Update(machine, c, target_reached, detected)
  BY SameUpdate DEF SupervisorUpdate, Kernel!Cycle
<1>6. machine' \in Machine
  BY <1>1, <1>4, <1>5, UpdateType
<1>7. Kernel!TypeOK'
  BY <1>1, <1>2, <1>6
     DEF SupervisorUpdate, Kernel!Cycle, Kernel!TypeOK, Machine, Kernel!Machine,
         ControllerState, Kernel!ControllerState, FaultCode, Kernel!FaultCode
<1>8. machine'.state = "running" => detected = "none"
  BY <1>1, <1>4, <1>5, UpdateRunning
<1>9. machine'.fault = "communication_timeout" =>
        machine.fault = "communication_timeout" \/ detected = "communication_timeout"
  BY <1>1, <1>4, <1>5, UpdateFault
<1>10. watchdog' \in WatchdogState
  BY WatchdogType DEF SupervisorUpdate, Watched, IInv, TypeOK
<1>11. /\ poll_elapsed' \in 0 .. PollPeriod
       /\ last_plc_heartbeat' \in Heartbeat \cup {NoValue}
       /\ unattended' \in 0 .. MaxUnattended
       /\ punctual' \in BOOLEAN
       /\ plc_command' = plc_command
  BY TimeoutAssumption, PollPeriodAssumption
     DEF SupervisorUpdate, PollDue,
         Known, IInv, TypeOK, MaxUnattended
<1>12. TypeOK'
  BY <1>7, <1>10, <1>11 DEF TypeOK, IInv
<1>13. fault = "none" <=> ~Expired(watchdog') /\ last_plc_heartbeat' # NoValue
  BY DEF CommunicationFault
<1>. QED
  BY <1>2, <1>3, <1>8, <1>9, <1>12, <1>13

(* What the watchdog shows after an update. *)
LEMMA WatchdogEffect ==
    ASSUME IInv, NEW read \in BOOLEAN, NEW written \in BOOLEAN,
           SupervisorUpdate(read, written)
    PROVE  /\ read /\ IsNewHeartbeat =>
                /\ watchdog'.armed /\ watchdog'.elapsed = 1
                /\ last_plc_heartbeat' = plc_command.heartbeat
           /\ ~(read /\ IsNewHeartbeat) =>
                /\ watchdog' = Advance(watchdog)
                /\ last_plc_heartbeat' = last_plc_heartbeat
<1>1. watchdog \in WatchdogState /\ Kick(watchdog) \in WatchdogState
  BY WatchdogType DEF IInv, TypeOK
<1>2. CASE read /\ IsNewHeartbeat
  <2>1. watchdog' = Advance(Kick(watchdog))
    BY <1>2 DEF SupervisorUpdate, Watched
  <2>2. Kick(watchdog).elapsed = 0 /\ Kick(watchdog).armed
    BY <1>1, WatchdogType
  <2>3. watchdog'.armed /\ watchdog'.elapsed = 1
    BY <1>1, <2>1, <2>2, WatchdogType, TimeoutAssumption
  <2>. QED
    BY <1>2, <2>3 DEF SupervisorUpdate, Known
<1>3. CASE ~(read /\ IsNewHeartbeat)
  BY <1>3 DEF SupervisorUpdate, Watched, Known, IsNewHeartbeat, IInv, TypeOK
<1>. QED
  BY <1>2, <1>3

(* An update keeps the invariant. *)
LEMMA SupervisorUpdateIInv ==
    ASSUME IInv, NEW read \in BOOLEAN, NEW written \in BOOLEAN,
           SupervisorUpdate(read, written)
    PROVE  IInv'
<1>1. /\ watchdog \in WatchdogState /\ watchdog' \in WatchdogState
      /\ poll_elapsed \in 0 .. PollPeriod /\ poll_elapsed' \in 0 .. PollPeriod
      /\ unattended \in Nat /\ unattended' \in Nat
      /\ Timeout \in Nat \ {0} /\ PollPeriod \in Nat \ {0}
      /\ plc_command' = plc_command /\ plc_command.heartbeat \in Heartbeat
  BY UpdateEffect, TimeoutAssumption, PollPeriodAssumption
     DEF IInv, TypeOK, SupervisorUpdate,
         MaxUnattended
<1>2. plc_command.heartbeat # NoValue
  BY <1>1, HeartbeatAssumption
<1>3. Counting'
  <2>1. CASE read /\ IsNewHeartbeat
    <3>1. watchdog'.armed /\ watchdog'.elapsed = 1
      BY <2>1, WatchdogEffect
    <3>. QED
      BY <3>1 DEF Counting
  <2>2. CASE ~(read /\ IsNewHeartbeat)
    <3>1. /\ watchdog' = Advance(watchdog)
          /\ last_plc_heartbeat' = last_plc_heartbeat
      BY <2>2, WatchdogEffect
    <3>2. watchdog.elapsed \in 0 .. Timeout /\ Timeout \in Nat
      BY <1>1, WatchdogType
    <3>3. /\ Advance(watchdog).armed = watchdog.armed
          /\ Advance(watchdog).elapsed \in {watchdog.elapsed, watchdog.elapsed + 1}
      BY <1>1, WatchdogType
    <3>. QED
      BY <3>1, <3>2, <3>3 DEF IInv, Counting
  <2>. QED
    BY <2>1, <2>2
<1>4. RunningIsSupervised'
  BY UpdateEffect DEF RunningIsSupervised
<1>5. InStep'
  <2> SUFFICES ASSUME punctual' PROVE InStep'
    BY DEF InStep
  <2>1. punctual /\ (PollDue => read /\ IsNewHeartbeat)
    BY DEF SupervisorUpdate
  <2>2. CASE PollDue
    <3>1. poll_elapsed' = 0
      BY <2>2 DEF SupervisorUpdate
    <3>2. /\ watchdog'.elapsed = 1
          /\ last_plc_heartbeat' = plc_command.heartbeat
      BY <2>1, <2>2, WatchdogEffect
    <3>. QED
      BY <1>1, <1>2, <3>1, <3>2 DEF InStep
  <2>3. CASE ~PollDue
    <3>1. poll_elapsed' = poll_elapsed + 1 /\ poll_elapsed + 1 < PollPeriod
      BY <1>1, <2>3 DEF SupervisorUpdate, PollDue
    <3>2. ~read
      BY <2>3 DEF SupervisorUpdate
    <3>3. watchdog'.elapsed <= watchdog.elapsed + 1
      BY <1>1, <3>2, WatchdogEffect, WatchdogType
    <3>4. watchdog.elapsed \in Nat /\ watchdog'.elapsed \in Nat
      BY <1>1, WatchdogType
    <3>. QED
      BY <1>1, <2>1, <3>1, <3>2, <3>3, <3>4, WatchdogEffect DEF IInv, InStep
  <2>. QED
    BY <2>2, <2>3
<1>6. NoFalseAlarm'
  <2> SUFFICES ASSUME PollPeriod < Timeout, punctual'
               PROVE  machine'.fault # "communication_timeout"
    BY DEF NoFalseAlarm
  <2>1. machine.fault # "communication_timeout"
    BY DEF SupervisorUpdate, IInv, NoFalseAlarm
  <2>2. last_plc_heartbeat' # NoValue /\ watchdog'.elapsed <= PollPeriod
    <3>1. CASE PollDue
      <4>1. read /\ IsNewHeartbeat
        BY <3>1 DEF SupervisorUpdate
      <4>2. /\ watchdog'.elapsed = 1
            /\ last_plc_heartbeat' = plc_command.heartbeat
        BY <4>1, WatchdogEffect
      <4>. QED
        BY <1>1, <1>2, <4>2
    <3>2. CASE ~PollDue
      <4>1. poll_elapsed' # PollPeriod
        BY <1>1, <3>2 DEF SupervisorUpdate, PollDue
      <4>2. watchdog'.elapsed \in Nat
        BY <1>1, WatchdogType
      <4>. QED
        BY <1>1, <1>5, <4>1, <4>2 DEF InStep
    <3>. QED
      BY <3>1, <3>2
  <2>3. ~Expired(watchdog')
    BY <1>1, <2>2, WatchdogType DEF Expired
  <2>. QED
    BY <2>1, <2>2, <2>3, UpdateEffect
<1>7. Attended'
  <2> SUFFICES ASSUME unattended' > 0 PROVE Attended'
    BY DEF Attended
  <2>1. machine'.state = "running" /\ unattended' <= unattended + 1
    BY <1>1 DEF SupervisorUpdate
  <2>2. ~Expired(watchdog') /\ last_plc_heartbeat' # NoValue
    BY <2>1, UpdateEffect
  <2>3. watchdog'.armed /\ watchdog'.elapsed < Timeout
    BY <1>1, <1>3, <2>2, WatchdogType DEF Counting, Expired
  <2>4. /\ watchdog.elapsed \in 0 .. Timeout /\ watchdog'.elapsed \in 0 .. Timeout
    BY <1>1, WatchdogType
  <2>5. unattended > 0 => watchdog.elapsed < Timeout
    BY <1>1, <2>4 DEF IInv, Attended, RunningIsSupervised, Counting, Expired
  <2>6. CASE read /\ IsNewHeartbeat
    <3>1. watchdog'.elapsed = 1 /\ plc_command'.heartbeat = last_plc_heartbeat'
      BY <1>1, <2>6, WatchdogEffect
    <3>2. unattended > 0 => unattended <= watchdog.elapsed - 1
      BY <2>6 DEF IInv, Attended, IsNewHeartbeat
    <3>. QED
      BY <1>1, <2>1, <2>3, <2>4, <2>5, <3>1, <3>2 DEF Attended
  <2>7. CASE ~(read /\ IsNewHeartbeat)
    <3>1. watchdog' = Advance(watchdog) /\ last_plc_heartbeat' = last_plc_heartbeat
      BY <2>7, WatchdogEffect
    <3>2. watchdog.armed /\ watchdog.elapsed >= 1
      BY <2>2, <3>1 DEF IInv, Counting
    <3>3. watchdog'.elapsed = watchdog.elapsed + 1
      BY <1>1, <2>3, <2>4, <3>1, <3>2, WatchdogType
    <3>. QED
      BY <1>1, <2>1, <2>4, <3>1, <3>2, <3>3 DEF IInv, Attended
  <2>. QED
    BY <2>6, <2>7
<1>. QED
  BY <1>3, <1>4, <1>5, <1>6, <1>7, UpdateEffect DEF IInv

LEMMA Invariance == Spec => []IInv
<1>1. IInv /\ [Next]_vars => IInv'
  <2> SUFFICES ASSUME IInv, [Next]_vars PROVE IInv'
    OBVIOUS
  <2>1. CASE UNCHANGED vars
    BY <2>1 DEF vars, supervisorVars, kernelVars, IInv, TypeOK, Kernel!TypeOK,
                Counting, InStep, Attended, RunningIsSupervised, NoFalseAlarm
  <2>. QED
    BY <2>1, PlcStepIInv, SupervisorUpdateIInv DEF Next
<1>. QED
  BY <1>1, InitIInv, PTL DEF Spec

-----------------------------------------------------------------------------
(* PlcSupervisor's variables keep their types. *)
THEOREM TypeCorrect == Spec => []TypeOK
<1>1. IInv => TypeOK
  BY DEF IInv
<1>. QED
  BY <1>1, Invariance, PTL

(* A running axis has a PLC command behind it and a watchdog that has not   *)
(* expired.                                                                 *)
THEOREM Supervised == Spec => []RunningIsSupervised
<1>1. IInv => RunningIsSupervised
  BY DEF IInv
<1>. QED
  BY <1>1, Invariance, PTL

(* However polls fail, an axis does not run on for longer than twice the    *)
(* timeout after the PLC's last heartbeat.                                  *)
THEOREM SilenceStopsTheAxis == Spec => []UnattendedBounded
<1>1. IInv => UnattendedBounded
  <2> SUFFICES ASSUME IInv PROVE UnattendedBounded
    OBVIOUS
  <2>1. watchdog.elapsed \in 0 .. Timeout /\ Timeout \in Nat \ {0}
    BY WatchdogType, TimeoutAssumption DEF IInv, TypeOK
  <2>2. unattended \in Nat
    BY <2>1 DEF IInv, TypeOK, MaxUnattended
  <2>3. unattended > 0 => watchdog.elapsed < Timeout
    BY <2>1, <2>2 DEF IInv, Attended, RunningIsSupervised, Counting, Expired
  <2>. QED
    BY <2>1, <2>2, <2>3 DEF IInv, Attended, UnattendedBounded
<1>. QED
  BY <1>1, Invariance, PTL

(* Whenever the timeout exceeds the poll period, be it by one cycle, a PLC  *)
(* that answers every poll with a new heartbeat causes no timeout.          *)
THEOREM PunctualPlcIsHeard == Spec => []NoFalseAlarm
<1>1. IInv => NoFalseAlarm
  BY DEF IInv
<1>. QED
  BY <1>1, Invariance, PTL

(* Until a PLC is heard the loop has no command but the one it was made     *)
(* with, which asks for power and nothing else.                             *)
Unheard ==
    /\ last_plc_heartbeat = NoValue => command = InitialCommand
    /\ UnheardIsFault

(* An update that leaves the PLC unheard faults the axis whatever its state.*)
LEMMA UpdateUnheard ==
    ASSUME IInv, Unheard, NEW read \in BOOLEAN, NEW written \in BOOLEAN,
           SupervisorUpdate(read, written)
    PROVE  Unheard'
<1> SUFFICES ASSUME last_plc_heartbeat' = NoValue
             PROVE  /\ command' = InitialCommand
                    /\ machine' = [state |-> "fault", fault |-> "communication_timeout"]
  BY DEF Unheard, UnheardIsFault
<1>1. plc_command.heartbeat # NoValue
  BY HeartbeatAssumption DEF IInv, TypeOK
<1>2. read = FALSE /\ last_plc_heartbeat = NoValue
  BY <1>1 DEF SupervisorUpdate, Known
<1>3. Commanded(read) = InitialCommand
  BY <1>2 DEF Unheard, Commanded
<1>4. CommunicationFault(watchdog', last_plc_heartbeat') = "communication_timeout"
  BY DEF CommunicationFault
<1>5. /\ command' = InitialCommand
      /\ machine' = Update(machine, InitialCommand, target_reached,
                           Kernel!DetectedFault(InitialCommand, "communication_timeout"))
  BY <1>3, <1>4, SameUpdate DEF SupervisorUpdate, Kernel!Cycle
<1>6. Kernel!DetectedFault(InitialCommand, "communication_timeout") = "communication_timeout"
  BY DEF Kernel!DetectedFault
<1>7. InitialCommand.power_available = TRUE /\ InitialCommand.emergency_stop = FALSE
  BY DEF InitialCommand
<1>8. machine' = ForceFault(machine, "communication_timeout")
  BY <1>5, <1>6, <1>7 DEF Update
<1>. QED
  BY <1>5, <1>8 DEF ForceFault

(* From the first cycle on a PLC that has not been heard is a fault of the  *)
(* axis: only a heartbeat, and then a reset, can lead out of it.            *)
THEOREM UnheardPlcIsAFault == Spec => []UnheardIsFault
<1>1. Init => Unheard
  BY PollPeriodAssumption
     DEF Init, Unheard, UnheardIsFault, Kernel!Init, InitialCommand,
         Kernel!InitialCommand
<1>2. IInv /\ Unheard /\ [Next]_vars => Unheard'
  <2> SUFFICES ASSUME IInv, Unheard, [Next]_vars PROVE Unheard'
    OBVIOUS
  <2>1. CASE PlcStep \/ UNCHANGED vars
    <3>1. UNCHANGED <<command, last_plc_heartbeat, poll_elapsed, machine>>
      BY <2>1 DEF PlcStep, PlcBeat, PlcFrozenWrite, vars, supervisorVars, kernelVars
    <3>. QED
      BY <3>1 DEF Unheard, UnheardIsFault
  <2>. QED
    BY <2>1, UpdateUnheard DEF Next
<1>3. Unheard => UnheardIsFault
  BY DEF Unheard
<1>. QED
  BY <1>1, <1>2, <1>3, Invariance, PTL DEF Spec

-----------------------------------------------------------------------------
(* The demonstration.  Every cycle of its script has a word, a silence, by  *)
(* the time of its update, and a stage.                                     *)

(* The cycles since the last kick, by the end of cycle n, n included.       *)
Silence(n) ==
    CASE n \in 40 .. 59 -> n - 19
      [] n \in Freeze .. Restore - 1 -> n - 979
      [] OTHER -> (n % 20) + 1

(* How far down the documented sequence the axis is before cycle n.         *)
Stage(n) ==
    CASE n = 0 -> 1
      [] n \in 1 .. 20 -> 2
      [] n \in 21 .. 60 -> 3
      [] n \in 61 .. 979 + Timeout -> 4
      [] n \in 980 + Timeout .. Restore -> 5
      [] n \in Restore + 1 .. 1340 -> 6
      [] n > 1340 -> 7

(* The machine at a stage: the fifth is the fault.                          *)
Shown(k) ==
    [state |-> Documented[k],
     fault |-> IF k = 5 THEN "communication_timeout" ELSE "none"]

(* The command in the PLC has been taken. *)
Heard ==
    /\ last_plc_heartbeat = plc_command.heartbeat
    /\ command = DecodePlcCommand(plc_command.offer)

(* What poll timer and watchdog have counted. *)
Clocks ==
    IF cycle = 0 THEN poll_elapsed = PollPeriod /\ watchdog = NewWatchdog
    ELSE /\ poll_elapsed = (cycle - 1) % 20
         /\ last_plc_heartbeat # NoValue
         /\ watchdog.elapsed = IF Silence(cycle - 1) < Timeout
                               THEN Silence(cycle - 1) ELSE Timeout

(* The PLC's command: the script's last word, not heard yet only in the     *)
(* cycle that the script has just given it in.                              *)
News == cycle = 0 \/ (scripted /\ Beats(cycle))

Offered ==
    /\ plc_command.offer.control_word
         = Word(IF scripted \/ cycle = 0 THEN cycle ELSE cycle - 1)
    /\ IF News THEN last_plc_heartbeat # plc_command.heartbeat ELSE Heard

(* The invariant: cycle and script determine everything but the data of     *)
(* the command and the numbers of the heartbeats.                           *)
DemoInv ==
    /\ IInv
    /\ cycle \in 0 .. TotalCycles /\ scripted \in BOOLEAN
    /\ scripted => cycle < TotalCycles
    /\ Offered
    /\ Clocks
    /\ target_reached = FALSE
    /\ machine = Shown(Stage(cycle))
    /\ announced = [i \in 1 .. Stage(cycle) |-> Documented[i]]

-----------------------------------------------------------------------------
(* The timetable.                                                           *)
LEMMA Constants ==
    /\ TotalCycles = 1800 /\ Freeze = 1000 /\ Restore = 1300
    /\ PollPeriod = 20 /\ Timeout \in 41 .. 320
  BY DemoAssumption DEF TotalCycles, Freeze, Restore

(* The words by their cycles, as numbers. *)
LEMMA Words ==
    /\ \A n \in 0 .. 19 : Word(n) = 32
    /\ \A n \in 20 .. 59 : Word(n) = 33
    /\ \A n \in 60 .. 79 : Word(n) = 35
    /\ \A n \in 80 .. 1299 : Word(n) = 33
    /\ \A n \in 1300 .. 1339 : Word(n) = 40
    /\ \A n \in 1340 .. 1799 : Word(n) = 33
<1>1. /\ ControlBit.power_available = 32 /\ ControlBit.enable = 1
      /\ ControlBit.start = 2 /\ ControlBit.reset_fault = 8 /\ Enabled = 33
  BY DEF ControlBit, Enabled
<1>2. \A n \in 0 .. 19 : Word(n) = 32
  BY <1>1 DEF Word, Restore
<1>3. \A n \in 20 .. 59 : Word(n) = 33
  BY <1>1 DEF Word, Restore
<1>4. \A n \in 60 .. 79 : Word(n) = 35
  BY <1>1 DEF Word, Restore
<1>5. \A n \in 80 .. 1299 : Word(n) = 33
  <2> SUFFICES ASSUME NEW n \in 80 .. 1299 PROVE Word(n) = 33
    OBVIOUS
  <2>1. /\ ~(n < 20) /\ n \notin 60 .. 79
        /\ n \in 80 .. Restore - 1 /\ ~(n >= 1340) /\ n \notin Restore .. 1339
    BY DEF Restore
  <2>2. Word(n) = Enabled
    BY <2>1 DEF Word
  <2>. QED
    BY <1>1, <2>2
<1>6. \A n \in 1300 .. 1339 : Word(n) = 40
  <2> SUFFICES ASSUME NEW n \in 1300 .. 1339 PROVE Word(n) = 40
    OBVIOUS
  <2>1. /\ ~(n < 20) /\ n \notin 20 .. 59 /\ n \notin 60 .. 79
        /\ n \notin 80 .. Restore - 1 /\ ~(n >= 1340) /\ n \in Restore .. 1339
    BY DEF Restore
  <2>2. Word(n) = ControlBit.power_available + ControlBit.reset_fault
    BY <2>1 DEF Word
  <2>. QED
    BY <1>1, <2>2
<1>7. \A n \in 1340 .. 1799 : Word(n) = 33
  BY <1>1 DEF Word, Restore
<1>. QED
  BY <1>2, <1>3, <1>4, <1>5, <1>6, <1>7

(* The stages by their cycles. *)
LEMMA Stages ==
    /\ \A n \in {0} : Stage(n) = 1
    /\ \A n \in 1 .. 20 : Stage(n) = 2
    /\ \A n \in 21 .. 60 : Stage(n) = 3
    /\ \A n \in 61 .. 979 + Timeout : Stage(n) = 4
    /\ \A n \in 980 + Timeout .. 1300 : Stage(n) = 5
    /\ \A n \in 1301 .. 1340 : Stage(n) = 6
    /\ \A n \in 1341 .. 1800 : Stage(n) = 7
<1>1. Timeout \in 41 .. 320
  BY Constants
<1>2. \A n \in {0} : Stage(n) = 1
  BY <1>1 DEF Stage, Restore
<1>3. \A n \in 1 .. 20 : Stage(n) = 2
  BY <1>1 DEF Stage, Restore
<1>4. \A n \in 21 .. 60 : Stage(n) = 3
  BY <1>1 DEF Stage, Restore
<1>5. \A n \in 61 .. 979 + Timeout : Stage(n) = 4
  BY <1>1 DEF Stage, Restore
<1>6. \A n \in 980 + Timeout .. 1300 : Stage(n) = 5
  BY <1>1 DEF Stage, Restore
<1>7. \A n \in 1301 .. 1340 : Stage(n) = 6
  BY <1>1 DEF Stage, Restore
<1>8. \A n \in 1341 .. 1800 : Stage(n) = 7
  BY <1>1 DEF Stage, Restore
<1>. QED
  BY <1>2, <1>3, <1>4, <1>5, <1>6, <1>7, <1>8

(* A word lasts until the next heartbeat, and heartbeats come with polls.   *)
LEMMA WordLasts ==
    ASSUME NEW n \in 1 .. 1799, ~Beats(n)
    PROVE  Word(n) = Word(n - 1)
<1>1. n \notin {20, 60, 80, 1300, 1340}
  BY DEF Beats, Freeze, Restore
<1>2. n \in 0 .. 1799 /\ n - 1 \in 0 .. 1799
  OBVIOUS
<1>3. \/ n \in 0 .. 19 /\ n - 1 \in 0 .. 19
      \/ n \in 20 .. 59 /\ n - 1 \in 20 .. 59
      \/ n \in 60 .. 79 /\ n - 1 \in 60 .. 79
      \/ n \in 80 .. 1299 /\ n - 1 \in 80 .. 1299
      \/ n \in 1300 .. 1339 /\ n - 1 \in 1300 .. 1339
      \/ n \in 1340 .. 1799 /\ n - 1 \in 1340 .. 1799
  BY <1>1
<1>4. CASE n \in 0 .. 19 /\ n - 1 \in 0 .. 19
  <2>1. Word(n) = 32
    BY <1>4, Words
  <2>2. Word(n - 1) = 32
    BY <1>4, Words
  <2>. QED
    BY <2>1, <2>2
<1>5. CASE n \in 20 .. 59 /\ n - 1 \in 20 .. 59
  <2>1. Word(n) = 33
    BY <1>5, Words
  <2>2. Word(n - 1) = 33
    BY <1>5, Words
  <2>. QED
    BY <2>1, <2>2
<1>6. CASE n \in 60 .. 79 /\ n - 1 \in 60 .. 79
  <2>1. Word(n) = 35
    BY <1>6, Words
  <2>2. Word(n - 1) = 35
    BY <1>6, Words
  <2>. QED
    BY <2>1, <2>2
<1>7. CASE n \in 80 .. 1299 /\ n - 1 \in 80 .. 1299
  <2>1. Word(n) = 33
    BY <1>7, Words
  <2>2. Word(n - 1) = 33
    BY <1>7, Words
  <2>. QED
    BY <2>1, <2>2
<1>8. CASE n \in 1300 .. 1339 /\ n - 1 \in 1300 .. 1339
  <2>1. Word(n) = 40
    BY <1>8, Words
  <2>2. Word(n - 1) = 40
    BY <1>8, Words
  <2>. QED
    BY <2>1, <2>2
<1>9. CASE n \in 1340 .. 1799 /\ n - 1 \in 1340 .. 1799
  <2>1. Word(n) = 33
    BY <1>9, Words
  <2>2. Word(n - 1) = 33
    BY <1>9, Words
  <2>. QED
    BY <2>1, <2>2
<1>. QED
  BY <1>3, <1>4, <1>5, <1>6, <1>7, <1>8, <1>9

(* A heartbeat comes in a cycle that polls, never amid a silence.           *)
LEMMA BeatsArePolled ==
    ASSUME NEW n \in 0 .. 1799, Beats(n)
    PROVE  n % 20 = 0 /\ n > 0 /\ n \notin 40 .. 59 /\ n \notin 1000 .. 1299
  BY DEF Beats, Freeze, Restore

(* The silence goes on where the script gives no heartbeat ...              *)
LEMMA SilenceGoesOn ==
    ASSUME NEW n \in 1 .. 1799, ~Beats(n)
    PROVE  Silence(n) = Silence(n - 1) + 1
<1>1. n - 1 \in 0 .. 1799 /\ n \in 0 .. 1799
  OBVIOUS
<1>2. n % 20 # 0 => n % 20 = ((n - 1) % 20) + 1
  OBVIOUS
<1>3. n % 20 = 0 => n = 40 \/ n \in 1000 .. 1299
  <2>1. n % 20 = 0 => n \notin {20, 60} /\ n \notin 80 .. 999 /\ ~(n >= 1300)
    BY DEF Beats, Freeze, Restore
  <2>2. n % 20 = 0 /\ n < 80 => n \in {20, 40, 60}
    OBVIOUS
  <2>. QED
    BY <2>1, <2>2
<1>4. n = 1000 => (n - 1) % 20 = 19
  OBVIOUS
<1>5. n = 40 => (n - 1) % 20 = 19
  OBVIOUS
<1>6. n \notin {60, 1300}
  BY DEF Beats, Freeze, Restore
<1>7. CASE n \in 40 .. 59
  <2>1. Silence(n) = n - 19
    BY <1>1, <1>7 DEF Silence, Freeze, Restore
  <2>2. CASE n = 40
    <3>1. Silence(n - 1) = ((n - 1) % 20) + 1
      BY <1>1, <2>2 DEF Silence, Freeze, Restore
    <3>. QED
      BY <2>1, <2>2, <3>1, <1>4, <1>5
  <2>3. CASE n # 40
    <3>1. Silence(n - 1) = n - 1 - 19
      BY <1>1, <1>7, <2>3 DEF Silence, Freeze, Restore
    <3>. QED
      BY <2>1, <3>1
  <2>. QED
    BY <2>2, <2>3
<1>8. CASE n \in 1000 .. 1299
  <2>1. Silence(n) = n - 979
    BY <1>1, <1>8 DEF Silence, Freeze, Restore
  <2>2. CASE n = 1000
    <3>1. Silence(n - 1) = ((n - 1) % 20) + 1
      BY <1>1, <2>2 DEF Silence, Freeze, Restore
    <3>. QED
      BY <2>1, <2>2, <3>1, <1>4, <1>5
  <2>3. CASE n # 1000
    <3>1. Silence(n - 1) = n - 1 - 979
      BY <1>1, <1>8, <2>3 DEF Silence, Freeze, Restore
    <3>. QED
      BY <2>1, <3>1
  <2>. QED
    BY <2>2, <2>3
<1>9. CASE n \notin 40 .. 59 /\ n \notin 1000 .. 1299
  <2>1. n - 1 \notin 40 .. 59 /\ n - 1 \notin 1000 .. 1299
    BY <1>6, <1>9
  <2>2. Silence(n) = (n % 20) + 1
    BY <1>1, <1>9 DEF Silence, Freeze, Restore
  <2>3. Silence(n - 1) = ((n - 1) % 20) + 1
    BY <1>1, <2>1 DEF Silence, Freeze, Restore
  <2>4. n % 20 = ((n - 1) % 20) + 1
    BY <1>2, <1>3, <1>9
  <2>5. (n - 1) % 20 \in Int
    OBVIOUS
  <2>. QED
    BY <2>2, <2>3, <2>4, <2>5
<1>. QED
  BY <1>7, <1>8, <1>9

(* ... and it lasts for the timeout during the freeze, and only then.       *)
LEMMA SilenceIsNoticed ==
    ASSUME NEW n \in 0 .. 1799
    PROVE  Silence(n) >= Timeout <=> n \in 979 + Timeout .. 1299
<1>1. Timeout \in 41 .. 320
  BY Constants
<1>2. CASE n \in 40 .. 59
  <2>1. Silence(n) = n - 19
    BY <1>2 DEF Silence, Freeze, Restore
  <2>. QED
    BY <1>1, <1>2, <2>1
<1>3. CASE n \in 1000 .. 1299
  <2>1. Silence(n) = n - 979
    BY <1>3 DEF Silence, Freeze, Restore
  <2>. QED
    BY <1>1, <1>3, <2>1
<1>4. CASE n \notin 40 .. 59 /\ n \notin 1000 .. 1299
  <2>1. Silence(n) = (n % 20) + 1
    BY <1>4 DEF Silence, Freeze, Restore
  <2>2. n % 20 \in 0 .. 19
    OBVIOUS
  <2>. QED
    BY <1>1, <1>4, <2>1, <2>2
<1>. QED
  BY <1>2, <1>3, <1>4

(* A command that has its bits from a control word.                         *)
Asks(c, word) ==
    /\ c.power_available = BitIsSet(word, 32) /\ c.emergency_stop = BitIsSet(word, 16)
    /\ c.reset_fault = BitIsSet(word, 8) /\ c.stop = BitIsSet(word, 4)
    /\ c.start = BitIsSet(word, 2) /\ c.enable = BitIsSet(word, 1)

(* The bits of the words the script gives.                                  *)
LEMMA Bits ==
    /\ BitIsSet(32, 32) = TRUE /\ BitIsSet(33, 32) = TRUE
    /\ BitIsSet(35, 32) = TRUE /\ BitIsSet(40, 32) = TRUE
    /\ BitIsSet(32, 1) = FALSE /\ BitIsSet(33, 1) = TRUE
    /\ BitIsSet(35, 1) = TRUE /\ BitIsSet(40, 1) = FALSE
    /\ BitIsSet(32, 2) = FALSE /\ BitIsSet(33, 2) = FALSE
    /\ BitIsSet(35, 2) = TRUE /\ BitIsSet(40, 2) = FALSE
    /\ BitIsSet(32, 4) = FALSE /\ BitIsSet(33, 4) = FALSE
    /\ BitIsSet(35, 4) = FALSE /\ BitIsSet(40, 4) = FALSE
    /\ BitIsSet(32, 8) = FALSE /\ BitIsSet(33, 8) = FALSE
    /\ BitIsSet(35, 8) = FALSE /\ BitIsSet(40, 8) = TRUE
    /\ BitIsSet(32, 16) = FALSE /\ BitIsSet(33, 16) = FALSE
    /\ BitIsSet(35, 16) = FALSE /\ BitIsSet(40, 16) = FALSE
  BY DEF BitIsSet

(* Decoded commands have their bits from their words.                       *)
LEMMA DecodedWords ==
    \A offer : Asks(DecodePlcCommand(offer), offer.control_word)
  BY Zenon DEF DecodePlcCommand, Asks, ControlBit

(* The documented states by their places.                                   *)
LEMMA States ==
    /\ Documented[1] = "power_off" /\ Documented[2] = "disabled"
    /\ Documented[3] = "ready" /\ Documented[4] = "running"
    /\ Documented[5] = "fault" /\ Documented[6] = "disabled"
    /\ Documented[7] = "ready"
  BY DEF Documented

(* A cycle of the state machine, from a stage, on a command, under a fault. *)
Stepped(k, c, fault) == Kernel!Update(Shown(k), c, FALSE, fault)

(* Power alone: the axis is disabled.                                       *)
LEMMA Transitions32 ==
    \A c : Asks(c, 32) =>
        /\ Stepped(1, c, "none") = Shown(2)
        /\ Stepped(2, c, "none") = Shown(2)
<1> SUFFICES ASSUME NEW c, Asks(c, 32)
             PROVE  /\ Stepped(1, c, "none") = Shown(2)
                    /\ Stepped(2, c, "none") = Shown(2)
  OBVIOUS
<1>1. /\ c.power_available = TRUE /\ c.emergency_stop = FALSE /\ c.reset_fault = FALSE
      /\ c.stop = FALSE /\ c.start = FALSE /\ c.enable = FALSE
  BY Bits, Zenon DEF Asks
<1>. QED
  BY <1>1, States DEF Stepped, Shown, Kernel!Update, Kernel!ForceFault,
                      Kernel!LatchedState, Kernel!Released, Kernel!Disabled,
                      Kernel!Sequence

(* Power and enable: it is ready, or goes on running, or in its fault.      *)
LEMMA Transitions33 ==
    \A c : Asks(c, 33) =>
        /\ Stepped(2, c, "none") = Shown(3)
        /\ Stepped(3, c, "none") = Shown(3)
        /\ Stepped(4, c, "none") = Shown(4)
        /\ Stepped(4, c, "communication_timeout") = Shown(5)
        /\ Stepped(5, c, "communication_timeout") = Shown(5)
        /\ Stepped(6, c, "none") = Shown(7)
        /\ Stepped(7, c, "none") = Shown(7)
<1> SUFFICES ASSUME NEW c, Asks(c, 33)
             PROVE  /\ Stepped(2, c, "none") = Shown(3)
                    /\ Stepped(3, c, "none") = Shown(3)
                    /\ Stepped(4, c, "none") = Shown(4)
                    /\ Stepped(4, c, "communication_timeout") = Shown(5)
                    /\ Stepped(5, c, "communication_timeout") = Shown(5)
                    /\ Stepped(6, c, "none") = Shown(7)
                    /\ Stepped(7, c, "none") = Shown(7)
  OBVIOUS
<1>1. /\ c.power_available = TRUE /\ c.emergency_stop = FALSE /\ c.reset_fault = FALSE
      /\ c.stop = FALSE /\ c.start = FALSE /\ c.enable = TRUE
  BY Bits, Zenon DEF Asks
<1>. QED
  BY <1>1, States DEF Stepped, Shown, Kernel!Update, Kernel!ForceFault,
                      Kernel!LatchedState, Kernel!Released, Kernel!Disabled,
                      Kernel!Sequence

(* The start bit with them: it runs.                                        *)
LEMMA Transitions35 ==
    \A c : Asks(c, 35) =>
        /\ Stepped(3, c, "none") = Shown(4)
        /\ Stepped(4, c, "none") = Shown(4)
<1> SUFFICES ASSUME NEW c, Asks(c, 35)
             PROVE  /\ Stepped(3, c, "none") = Shown(4)
                    /\ Stepped(4, c, "none") = Shown(4)
  OBVIOUS
<1>1. /\ c.power_available = TRUE /\ c.emergency_stop = FALSE /\ c.reset_fault = FALSE
      /\ c.stop = FALSE /\ c.start = TRUE /\ c.enable = TRUE
  BY Bits, Zenon DEF Asks
<1>. QED
  BY <1>1, States DEF Stepped, Shown, Kernel!Update, Kernel!ForceFault,
                      Kernel!LatchedState, Kernel!Released, Kernel!Disabled,
                      Kernel!Sequence

(* Power and reset: the fault is gone.                                      *)
LEMMA Transitions40 ==
    \A c : Asks(c, 40) =>
        /\ Stepped(5, c, "none") = Shown(6)
        /\ Stepped(6, c, "none") = Shown(6)
<1> SUFFICES ASSUME NEW c, Asks(c, 40)
             PROVE  /\ Stepped(5, c, "none") = Shown(6)
                    /\ Stepped(6, c, "none") = Shown(6)
  OBVIOUS
<1>1. /\ c.power_available = TRUE /\ c.emergency_stop = FALSE /\ c.reset_fault = TRUE
      /\ c.stop = FALSE /\ c.start = FALSE /\ c.enable = FALSE
  BY Bits, Zenon DEF Asks
<1>. QED
  BY <1>1, States DEF Stepped, Shown, Kernel!Update, Kernel!ForceFault,
                      Kernel!LatchedState, Kernel!Released, Kernel!Disabled,
                      Kernel!Sequence

(* The fault that the supervisor reports in cycle n.                        *)
FaultOf(n) ==
    IF n \in 979 + Timeout .. 1299 THEN "communication_timeout" ELSE "none"

(* Word and fault of a cycle take the axis to the next cycle's stage.       *)
LEMMA CycleShows ==
    ASSUME NEW n \in 0 .. 1799, NEW c, Asks(c, Word(n))
    PROVE  Stepped(Stage(n), c, FaultOf(n)) = Shown(Stage(n + 1))
<1>1. /\ Timeout \in 41 .. 320
      /\ n \notin 979 + Timeout .. 1299 => FaultOf(n) = "none"
      /\ n \in 979 + Timeout .. 1299 => FaultOf(n) = "communication_timeout"
  BY Constants DEF FaultOf
<1>2. CASE n \in 0 .. 19
  <2>1. Word(n) = 32
    BY <1>2, Words
  <2>2. FaultOf(n) = "none"
    BY <1>1, <1>2
  <2>3. Stage(n) = 1 \/ Stage(n) = 2
    <3>1. n \in {0} \/ n \in 1 .. 20
      BY <1>1, <1>2
    <3>. QED
      BY <3>1, Stages
  <2>4. Stage(n + 1) = 2
    <3>1. n + 1 \in 1 .. 20
      BY <1>1, <1>2
    <3>. QED
      BY <3>1, Stages
  <2>. QED
    BY <2>1, <2>2, <2>3, <2>4, Transitions32, SMT
<1>3. CASE n \in 20 .. 59
  <2>1. Word(n) = 33
    BY <1>3, Words
  <2>2. FaultOf(n) = "none"
    BY <1>1, <1>3
  <2>3. Stage(n) = 2 \/ Stage(n) = 3
    <3>1. n \in 1 .. 20 \/ n \in 21 .. 60
      BY <1>1, <1>3
    <3>. QED
      BY <3>1, Stages
  <2>4. Stage(n + 1) = 3
    <3>1. n + 1 \in 21 .. 60
      BY <1>1, <1>3
    <3>. QED
      BY <3>1, Stages
  <2>. QED
    BY <2>1, <2>2, <2>3, <2>4, Transitions33, SMT
<1>4. CASE n \in 60 .. 79
  <2>1. Word(n) = 35
    BY <1>4, Words
  <2>2. FaultOf(n) = "none"
    BY <1>1, <1>4
  <2>3. Stage(n) = 3 \/ Stage(n) = 4
    <3>1. n \in 21 .. 60 \/ n \in 61 .. 979 + Timeout
      BY <1>1, <1>4
    <3>. QED
      BY <3>1, Stages
  <2>4. Stage(n + 1) = 4
    <3>1. n + 1 \in 61 .. 979 + Timeout
      BY <1>1, <1>4
    <3>. QED
      BY <3>1, Stages
  <2>. QED
    BY <2>1, <2>2, <2>3, <2>4, Transitions35, SMT
<1>5. CASE n \in 80 .. 978 + Timeout
  <2>1. Word(n) = 33
    <3>1. n \in 80 .. 1299
      BY <1>1, <1>5
    <3>. QED
      BY <3>1, Words
  <2>2. FaultOf(n) = "none"
    BY <1>1, <1>5
  <2>3. Stage(n) = 4
    <3>1. n \in 61 .. 979 + Timeout
      BY <1>1, <1>5
    <3>. QED
      BY <3>1, Stages
  <2>4. Stage(n + 1) = 4
    <3>1. n + 1 \in 61 .. 979 + Timeout
      BY <1>1, <1>5
    <3>. QED
      BY <3>1, Stages
  <2>. QED
    BY <2>1, <2>2, <2>3, <2>4, Transitions33, SMT
<1>6. CASE n \in 979 + Timeout .. 1299
  <2>1. Word(n) = 33
    <3>1. n \in 80 .. 1299
      BY <1>1, <1>6
    <3>. QED
      BY <3>1, Words
  <2>2. FaultOf(n) = "communication_timeout"
    BY <1>1, <1>6
  <2>3. Stage(n) = 4 \/ Stage(n) = 5
    <3>1. n \in 61 .. 979 + Timeout \/ n \in 980 + Timeout .. 1300
      BY <1>1, <1>6
    <3>. QED
      BY <3>1, Stages
  <2>4. Stage(n + 1) = 5
    <3>1. n + 1 \in 980 + Timeout .. 1300
      BY <1>1, <1>6
    <3>. QED
      BY <3>1, Stages
  <2>. QED
    BY <2>1, <2>2, <2>3, <2>4, Transitions33, SMT
<1>7. CASE n \in 1300 .. 1339
  <2>1. Word(n) = 40
    BY <1>7, Words
  <2>2. FaultOf(n) = "none"
    BY <1>1, <1>7
  <2>3. Stage(n) = 5 \/ Stage(n) = 6
    <3>1. n \in 980 + Timeout .. 1300 \/ n \in 1301 .. 1340
      BY <1>1, <1>7
    <3>. QED
      BY <3>1, Stages
  <2>4. Stage(n + 1) = 6
    <3>1. n + 1 \in 1301 .. 1340
      BY <1>1, <1>7
    <3>. QED
      BY <3>1, Stages
  <2>. QED
    BY <2>1, <2>2, <2>3, <2>4, Transitions40, SMT
<1>8. CASE n \in 1340 .. 1799
  <2>1. Word(n) = 33
    BY <1>8, Words
  <2>2. FaultOf(n) = "none"
    BY <1>1, <1>8
  <2>3. Stage(n) = 6 \/ Stage(n) = 7
    <3>1. n \in 1301 .. 1340 \/ n \in 1341 .. 1800
      BY <1>1, <1>8
    <3>. QED
      BY <3>1, Stages
  <2>4. Stage(n + 1) = 7
    <3>1. n + 1 \in 1341 .. 1800
      BY <1>1, <1>8
    <3>. QED
      BY <3>1, Stages
  <2>. QED
    BY <2>1, <2>2, <2>3, <2>4, Transitions33, SMT
<1>. QED
  BY <1>1, <1>2, <1>3, <1>4, <1>5, <1>6, <1>7, <1>8

(* The demonstration's steps are the supervisor's.                          *)
LEMMA DemoSteps ==
    ASSUME IInv, cycle \in 0 .. TotalCycles, [DemoNext]_demoVars
    PROVE  [Next]_vars /\ IInv'
<1>1. ASSUME Script PROVE PlcStep \/ UNCHANGED vars
  <2>1. CASE Beats(cycle)
    <3> DEFINE offer == [plc_command.offer EXCEPT !.control_word = Word(cycle)]
    <3>1. plc_command.offer \in Offer
      BY DEF IInv, TypeOK
    <3>2. offer \in Offer
      BY <3>1, DemoAssumption
    <3>3. PlcBeat(offer)
      BY <1>1, <2>1 DEF Script
    <3>. QED
      BY <3>2, <3>3 DEF PlcStep
  <2>2. CASE ~Beats(cycle)
    BY <1>1, <2>2 DEF Script
  <2>. QED
    BY <2>1, <2>2
<1>2. ASSUME DemoUpdate
      PROVE  \E read, written \in BOOLEAN : SupervisorUpdate(read, written)
  <2>1. PollDue \in BOOLEAN
    BY DEF PollDue
  <2>. QED
    BY <1>2, <2>1 DEF DemoUpdate
<1>3. CASE UNCHANGED demoVars
  BY <1>3 DEF demoVars, vars, supervisorVars, kernelVars, IInv, TypeOK, Kernel!TypeOK,
              Counting, InStep, Attended, RunningIsSupervised, NoFalseAlarm
<1>4. CASE UNCHANGED vars
  BY <1>4 DEF vars, supervisorVars, kernelVars, IInv, TypeOK, Kernel!TypeOK,
              Counting, InStep, Attended, RunningIsSupervised, NoFalseAlarm
<1>. QED
  BY <1>1, <1>2, <1>3, <1>4, PlcStepIInv, SupervisorUpdateIInv DEF DemoNext, Next

(* The invariant holds at the start, and both actions keep it.              *)
LEMMA InitDemoInv == DemoInit => DemoInv
<1> SUFFICES ASSUME DemoInit PROVE DemoInv
  OBVIOUS
<1>1. IInv
  BY InitIInv DEF DemoInit
<1>2. /\ cycle = 0 /\ scripted = FALSE
      /\ plc_command.offer.control_word = Word(0)
      /\ poll_elapsed = PollPeriod /\ watchdog = NewWatchdog
      /\ last_plc_heartbeat = NoValue /\ plc_command.heartbeat \in Heartbeat
      /\ target_reached = FALSE /\ machine = Kernel!PoweredOff
      /\ announced = <<"power_off">>
  BY DEF DemoInit, Init, Kernel!Init
<1>3. Stage(0) = 1
  BY Stages
<1>4. machine = Shown(Stage(cycle))
  BY <1>2, <1>3, States DEF Kernel!PoweredOff, Shown
<1>5. announced = [i \in 1 .. Stage(cycle) |-> Documented[i]]
  BY <1>2, <1>3, States
<1>6. Offered
  BY <1>2, HeartbeatAssumption DEF Offered, News
<1>7. Clocks
  BY <1>2 DEF Clocks
<1>8. cycle \in 0 .. TotalCycles
  BY <1>2, Constants
<1>9. scripted \in BOOLEAN /\ (scripted => cycle < TotalCycles) /\ target_reached = FALSE
  BY <1>2, Zenon
<1>. QED
  BY <1>1, <1>4, <1>5, <1>6, <1>7, <1>8, <1>9, Zenon DEF DemoInv

(* The script gives its next word, or lets the last one stand.              *)
LEMMA ScriptDemoInv ==
    ASSUME DemoInv, Script, IInv'
    PROVE  DemoInv'
<1>1. /\ cycle \in 0 .. 1799 /\ cycle < TotalCycles
      /\ scripted \in BOOLEAN /\ ~scripted
      /\ scripted' = TRUE /\ cycle' = cycle /\ announced' = announced
      /\ UNCHANGED supervisorVars
  <2>1. cycle \in 0 .. 1799 /\ cycle < TotalCycles
    <3>1. cycle \in 0 .. TotalCycles
      BY DEF DemoInv
    <3>2. cycle < TotalCycles
      BY DEF Script
    <3>. QED
      BY <3>1, <3>2, Constants
  <2>2. UNCHANGED supervisorVars
    BY DEF Script, PlcBeat, vars
  <2>. QED
    BY <2>1, <2>2 DEF Script, DemoInv
<1>2. Clocks' /\ target_reached' = FALSE /\ machine' = Shown(Stage(cycle'))
      /\ announced' = [i \in 1 .. Stage(cycle') |-> Documented[i]]
  BY <1>1 DEF supervisorVars, kernelVars, Clocks, DemoInv
<1>3. Offered'
  <2>1. CASE Beats(cycle)
    <3>1. /\ plc_command'.offer = [plc_command.offer EXCEPT !.control_word = Word(cycle)]
          /\ plc_command'.heartbeat # last_plc_heartbeat
      BY <2>1 DEF Script, PlcBeat
    <3>2. plc_command'.offer.control_word = Word(cycle)
      <4>1. plc_command.offer \in PlcWords
        BY OfferAssumption DEF DemoInv, IInv, TypeOK
      <4>. QED
        BY <3>1, <4>1 DEF PlcWords
    <3>. QED
      BY <1>1, <2>1, <3>1, <3>2 DEF Offered, News, supervisorVars
  <2>2. CASE ~Beats(cycle)
    <3>1. UNCHANGED vars
      BY <2>2 DEF Script
    <3>2. cycle # 0 => Word(cycle) = Word(cycle - 1)
      BY <1>1, <2>2, WordLasts
    <3>3. plc_command.offer.control_word = Word(cycle)
      BY <1>1, <3>2 DEF DemoInv, Offered
    <3>. QED
      BY <1>1, <2>2, <3>1, <3>3
         DEF DemoInv, Offered, News, Heard, vars, supervisorVars, kernelVars
  <2>. QED
    BY <2>1, <2>2
<1>. QED
  BY <1>1, <1>2, <1>3 DEF DemoInv

(* What the update finds: it polls when the script may have had news, and   *)
(* it times out when the silence has lasted that long.                      *)
LEMMA UpdateFinds ==
    ASSUME DemoInv, DemoUpdate
    PROVE  /\ cycle \in 0 .. 1799 /\ scripted
           /\ (PollDue <=> cycle % 20 = 0)
           /\ poll_elapsed' = cycle % 20
           /\ last_plc_heartbeat' = plc_command.heartbeat
           /\ plc_command.heartbeat \in Heartbeat
           /\ Commanded(PollDue) = DecodePlcCommand(plc_command.offer)
           /\ (PollDue /\ IsNewHeartbeat) <=> News
<1>1. cycle \in 0 .. 1799 /\ scripted
  <2>1. cycle \in 0 .. TotalCycles
    BY DEF DemoInv
  <2>2. scripted
    BY DEF DemoUpdate
  <2>3. cycle < TotalCycles
    BY <2>2 DEF DemoInv
  <2>. QED
    BY <2>1, <2>2, <2>3, Constants
<1>2. poll_elapsed = IF cycle = 0 THEN 20 ELSE (cycle - 1) % 20
  BY <1>1, Constants DEF DemoInv, Clocks
<1>3. PollDue <=> cycle % 20 = 0
  <2>1. PollDue <=> poll_elapsed + 1 >= 20
    BY Constants DEF PollDue
  <2>2. CASE cycle = 0
    BY <1>2, <2>1, <2>2
  <2>3. CASE cycle # 0
    <3>1. poll_elapsed = (cycle - 1) % 20
      BY <1>2, <2>3
    <3>2. ((cycle - 1) % 20) + 1 >= 20 <=> cycle % 20 = 0
      BY <1>1, <2>3
    <3>. QED
      BY <2>1, <3>1, <3>2
  <2>. QED
    BY <2>2, <2>3
<1>4. poll_elapsed' = cycle % 20
  BY <1>1, <1>2, <1>3, Constants DEF DemoUpdate, SupervisorUpdate
<1>5. News => PollDue
  BY <1>1, <1>3, BeatsArePolled DEF News
<1>6. News => IsNewHeartbeat
  BY DEF DemoInv, Offered, IsNewHeartbeat
<1>7. ~News => Heard
  BY DEF DemoInv, Offered
<1>8. plc_command.heartbeat \in Heartbeat
  BY DEF DemoInv, IInv, TypeOK
<1>9. last_plc_heartbeat' = plc_command.heartbeat
  BY <1>5, <1>7 DEF DemoUpdate, SupervisorUpdate, Known, Heard
<1>10. Commanded(PollDue) = DecodePlcCommand(plc_command.offer)
  BY <1>5, <1>7 DEF Commanded, Heard
<1>. QED
  BY <1>1, <1>3, <1>4, <1>5, <1>6, <1>7, <1>8, <1>9, <1>10 DEF Heard, IsNewHeartbeat

(* What the update leaves of the watchdog, and the fault it reports.        *)
LEMMA UpdateClocks ==
    ASSUME DemoInv, DemoUpdate
    PROVE  /\ watchdog'.elapsed = IF Silence(cycle) < Timeout
                                   THEN Silence(cycle) ELSE Timeout
           /\ last_plc_heartbeat' # NoValue
           /\ CommunicationFault(watchdog', last_plc_heartbeat') = FaultOf(cycle)
<1>1. /\ cycle \in 0 .. 1799 /\ Timeout \in 41 .. 320
      /\ last_plc_heartbeat' # NoValue
      /\ Silence(cycle) \in Nat
  <2>1. cycle \in 0 .. 1799
    BY UpdateFinds
  <2>2. last_plc_heartbeat' # NoValue
    BY UpdateFinds, HeartbeatAssumption
  <2>3. Silence(cycle) \in Nat
    BY <2>1 DEF Silence, Freeze, Restore
  <2>. QED
    BY <2>1, <2>2, <2>3, Constants
<1>2. IInv /\ PollDue \in BOOLEAN /\ SupervisorUpdate(PollDue, PollDue)
  BY DEF DemoInv, PollDue, DemoUpdate
<1>3. /\ watchdog \in WatchdogState /\ watchdog' \in WatchdogState
  BY <1>2, UpdateEffect DEF IInv, TypeOK
<1>4. watchdog'.armed
  BY <1>1, <1>2, SupervisorUpdateIInv DEF IInv, Counting
<1>5. watchdog'.elapsed = IF Silence(cycle) < Timeout THEN Silence(cycle) ELSE Timeout
  <2>1. CASE News
    <3>1. watchdog'.elapsed = 1
      <4>1. PollDue /\ IsNewHeartbeat
        BY <2>1, UpdateFinds
      <4>. QED
        BY <1>2, <4>1, WatchdogEffect
    <3>2. Silence(cycle) = 1
      <4>1. cycle = 0 \/ Beats(cycle)
        BY <2>1 DEF News
      <4>2. CASE cycle = 0
        BY <1>1, <4>2 DEF Silence, Freeze, Restore
      <4>3. CASE Beats(cycle)
        <5>1. cycle % 20 = 0 /\ cycle \notin 40 .. 59 /\ cycle \notin 1000 .. 1299
          BY <1>1, <4>3, BeatsArePolled
        <5>. QED
          BY <1>1, <5>1 DEF Silence, Freeze, Restore
      <4>. QED
        BY <4>1, <4>2, <4>3
    <3>. QED
      BY <1>1, <3>1, <3>2
  <2>2. CASE ~News
    <3>1. cycle \in 1 .. 1799 /\ ~Beats(cycle)
      BY <1>1, <2>2, UpdateFinds DEF News
    <3>2. watchdog' = Advance(watchdog)
      BY <1>2, <2>2, UpdateFinds, WatchdogEffect
    <3>3. Silence(cycle) = Silence(cycle - 1) + 1 /\ Silence(cycle - 1) \in Nat
      <4>1. cycle - 1 \in 0 .. 1799
        BY <3>1
      <4>2. Silence(cycle - 1) \in Nat
        BY <4>1 DEF Silence, Freeze, Restore
      <4>3. Silence(cycle) = Silence(cycle - 1) + 1
        BY <3>1, SilenceGoesOn
      <4>. QED
        BY <4>2, <4>3
    <3>4. /\ last_plc_heartbeat # NoValue
          /\ watchdog.elapsed = IF Silence(cycle - 1) < Timeout
                                THEN Silence(cycle - 1) ELSE Timeout
      BY <3>1 DEF DemoInv, Clocks
    <3>5. watchdog.armed
      BY <3>4 DEF DemoInv, IInv, Counting
    <3>6. Advance(watchdog).elapsed = IF watchdog.elapsed < Timeout
                                      THEN watchdog.elapsed + 1 ELSE watchdog.elapsed
      BY <1>3, <3>5, WatchdogType DEF Advance
    <3>. QED
      BY <1>1, <3>2, <3>3, <3>4, <3>6
  <2>. QED
    BY <2>1, <2>2
<1>6. Expired(watchdog') <=> Silence(cycle) >= Timeout
  BY <1>1, <1>4, <1>5 DEF Expired
<1>. QED
  BY <1>1, <1>5, <1>6, SilenceIsNoticed DEF CommunicationFault, FaultOf

(* The states that have been announced are the first of the documented ones *)
(* and stay so when the next of them is shown.                              *)
LEMMA Announcement ==
    \A k, l \in 1 .. 7 : l \in {k, k + 1} =>
        LET shown == [i \in 1 .. k |-> Documented[i]]
        IN (IF Documented[l] = shown[Len(shown)] THEN shown
            ELSE Append(shown, Documented[l]))
             = [i \in 1 .. l |-> Documented[i]]
<1> SUFFICES ASSUME NEW k \in 1 .. 7, NEW l \in 1 .. 7, l \in {k, k + 1},
                    NEW shown, shown = [i \in 1 .. k |-> Documented[i]]
             PROVE  (IF Documented[l] = shown[Len(shown)] THEN shown
                     ELSE Append(shown, Documented[l]))
                      = [i \in 1 .. l |-> Documented[i]]
  BY Zenon
<1>1. Len(shown) = k /\ shown[k] = Documented[k]
  OBVIOUS
<1>2. CASE l = k
  BY <1>1, <1>2
<1>3. CASE l = k + 1
  <2>1. Documented[l] # Documented[k]
    BY <1>3, States
  <2> DEFINE S == {Documented[i] : i \in 1 .. 7}
  <2>2. \A i \in 1 .. 7 : Documented[i] \in S
    OBVIOUS
  <2> HIDE DEF S
  <2>3. shown \in Seq(S)
    BY <2>2
  <2>4. Append(shown, Documented[l]) = [i \in 1 .. l |-> Documented[i]]
    BY <1>1, <1>3, <2>2, <2>3
  <2>. QED
    BY <1>1, <2>1, <2>4
<1>. QED
  BY <1>2, <1>3

(* An update hears the word and takes the axis to its next stage.           *)
LEMMA UpdateDemoInv ==
    ASSUME DemoInv, DemoUpdate, IInv'
    PROVE  DemoInv'
<1>1. /\ cycle \in 0 .. 1799 /\ cycle' = cycle + 1
      /\ scripted /\ ~scripted'
      /\ plc_command' = plc_command
      /\ SupervisorUpdate(PollDue, PollDue)
  <2>1. cycle \in 0 .. 1799 /\ scripted
    BY UpdateFinds
  <2>2. SupervisorUpdate(PollDue, PollDue) /\ cycle' = cycle + 1 /\ ~scripted'
    BY DEF DemoUpdate
  <2>3. plc_command' = plc_command
    BY <2>2 DEF SupervisorUpdate
  <2>. QED
    BY <2>1, <2>2, <2>3
<1> DEFINE c == DecodePlcCommand(plc_command.offer)
<1>2. plc_command.offer.control_word = Word(cycle)
  BY <1>1 DEF DemoInv, Offered
<1>3. Kernel!Cycle(c, FaultOf(cycle))
  BY <1>1, UpdateFinds, UpdateClocks DEF SupervisorUpdate
<1>4. Kernel!DetectedFault(c, FaultOf(cycle)) = FaultOf(cycle)
  <2>1. plc_command.offer \in Offer
    BY DEF DemoInv, IInv, TypeOK
  <2>2. ValidProfile(c.target_position_rad, c.max_velocity_rad_s,
                     c.max_acceleration_rad_s2)
    BY <2>1, DemoAssumption DEF DecodePlcCommand
  <2>3. Kernel!ValidateCommand(c) = "none"
    BY <2>2 DEF Kernel!ValidateCommand, Kernel!ValidProfile, ValidProfile
  <2>. QED
    BY <2>3 DEF Kernel!DetectedFault
<1>5. machine' = Shown(Stage(cycle'))
  <2>1. machine' = Stepped(Stage(cycle), c, FaultOf(cycle))
    BY <1>3, <1>4 DEF Kernel!Cycle, DemoInv, Stepped
  <2>2. Asks(c, Word(cycle))
    BY <1>2, DecodedWords
  <2> HIDE DEF c
  <2>3. Stepped(Stage(cycle), c, FaultOf(cycle)) = Shown(Stage(cycle + 1))
    BY <1>1, <2>2, CycleShows
  <2>. QED
    BY <1>1, <2>1, <2>3
<1>6. target_reached' = FALSE
  BY <1>3 DEF DemoUpdate, Kernel!Cycle
<1>7. announced' = [i \in 1 .. Stage(cycle') |-> Documented[i]]
  <2>1. /\ Stage(cycle) \in 1 .. 7 /\ Stage(cycle') \in 1 .. 7
        /\ Stage(cycle') \in {Stage(cycle), Stage(cycle) + 1}
    BY <1>1, Stages, Constants
  <2>2. announced = [i \in 1 .. Stage(cycle) |-> Documented[i]]
    BY DEF DemoInv
  <2>3. machine'.state = Documented[Stage(cycle')]
    BY <1>5 DEF Shown
  <2>4. announced' = IF Documented[Stage(cycle')] = announced[Len(announced)]
                     THEN announced ELSE Append(announced, Documented[Stage(cycle')])
    BY <2>3 DEF DemoUpdate
  <2> DEFINE k == Stage(cycle)
             l == Stage(cycle')
  <2>5. k \in 1 .. 7 /\ l \in 1 .. 7 /\ l \in {k, k + 1}
    BY <2>1
  <2>6. announced = [i \in 1 .. k |-> Documented[i]]
    BY <2>2
  <2>7. announced' = IF Documented[l] = announced[Len(announced)] THEN announced
                     ELSE Append(announced, Documented[l])
    BY <2>4
  <2> HIDE DEF k, l
  <2>8. announced' = [i \in 1 .. l |-> Documented[i]]
    BY <2>5, <2>6, <2>7, Announcement
  <2>. QED
    BY <2>8 DEF l
<1>8. Offered'
  <2>1. cycle' # 0 /\ cycle' - 1 = cycle /\ ~News'
    BY <1>1 DEF News
  <2>2. Heard'
    <3>1. command' = c
      BY <1>3 DEF Kernel!Cycle
    <3>. QED
      BY <1>1, <3>1, UpdateFinds DEF Heard
  <2>. QED
    BY <1>1, <1>2, <2>1, <2>2 DEF Offered
<1>9. Clocks'
  <2>1. cycle' # 0 /\ cycle' - 1 = cycle
    BY <1>1
  <2>. QED
    BY <2>1, UpdateFinds, UpdateClocks DEF Clocks
<1>10. cycle' \in 0 .. TotalCycles
  BY <1>1, Constants
<1>11. scripted' \in BOOLEAN /\ (scripted' => cycle' < TotalCycles)
  <2>1. scripted' = FALSE
    BY DEF DemoUpdate
  <2>. QED
    BY <2>1, Zenon
<1>. QED
  BY <1>5, <1>6, <1>7, <1>8, <1>9, <1>10, <1>11 DEF DemoInv

(* The demonstration keeps the invariant, and every step is a supervisor's. *)
LEMMA DemoInvariance ==
    DemoSpec => []DemoInv /\ [][Next]_vars
<1>1. DemoInv /\ [DemoNext]_demoVars => DemoInv'
  <2> SUFFICES ASSUME DemoInv, [DemoNext]_demoVars PROVE DemoInv'
    OBVIOUS
  <2>1. IInv /\ cycle \in 0 .. TotalCycles
    BY DEF DemoInv
  <2>2. IInv'
    BY <2>1, DemoSteps
  <2>3. CASE UNCHANGED demoVars
    BY <2>2, <2>3 DEF demoVars, vars, supervisorVars, kernelVars, DemoInv, Offered,
                      News, Heard, Clocks
  <2>. QED
    BY <2>2, <2>3, ScriptDemoInv, UpdateDemoInv DEF DemoNext
<1>2. DemoInv /\ [DemoNext]_demoVars => [Next]_vars
  BY DemoSteps DEF DemoInv
<1>. QED
  BY <1>1, <1>2, InitDemoInv, PTL DEF DemoSpec

-----------------------------------------------------------------------------
(* The demonstration is a behaviour of the supervisor.                      *)
THEOREM DemoIsSupervised == DemoSpec => Spec
<1>1. DemoInit => Init
  BY DEF DemoInit
<1>. QED
  BY <1>1, DemoInvariance, PTL DEF DemoSpec, Spec

(* For every timeout between 41 and 320 cycles the demonstration shows the  *)
(* documented sequence ...                                                  *)
THEOREM DemoIsAsDocumented == DemoSpec => []ShowsDocumentedSequence
<1>1. DemoInv => ShowsDocumentedSequence
  <2> SUFFICES ASSUME DemoInv PROVE ShowsDocumentedSequence
    OBVIOUS
  <2>1. announced = [i \in 1 .. Stage(cycle) |-> Documented[i]]
    BY DEF DemoInv
  <2>2. Stage(cycle) \in 1 .. 7 /\ (cycle = TotalCycles => Stage(cycle) = 7)
    <3>1. cycle \in 0 .. 1800
      BY Constants DEF DemoInv
    <3>. QED
      BY <3>1, Stages, Constants
  <2>3. DOMAIN Documented = 1 .. 7
    BY DEF Documented
  <2>4. ASSUME cycle = TotalCycles PROVE announced = Documented /\ ExitsWithSuccess
    <3>1. Documented = [i \in 1 .. 7 |-> Documented[i]]
      BY <2>3 DEF Documented
    <3>2. machine = Shown(7)
      BY <2>2, <2>4 DEF DemoInv
    <3>. QED
      BY <2>1, <2>2, <2>4, <3>1, <3>2, States DEF ExitsWithSuccess, Shown
  <2>. QED
    BY <2>1, <2>2, <2>3, <2>4 DEF ShowsDocumentedSequence
<1>. QED
  BY <1>1, DemoInvariance, PTL

(* ... and its fault in time. *)
THEOREM DemoFaultsInTime == DemoSpec => []FaultsInTime
<1>1. DemoInv => FaultsInTime
  <2> SUFFICES ASSUME DemoInv PROVE FaultsInTime
    OBVIOUS
  <2>1. cycle \in 0 .. 1800 /\ machine = Shown(Stage(cycle))
    BY Constants DEF DemoInv
  <2>2. cycle \in 80 .. Freeze + Timeout - PollPeriod - 1 => Stage(cycle) = 4
    BY <2>1, Stages, Constants
  <2>3. cycle \in Freeze + Timeout .. Restore => Stage(cycle) = 5
    BY <2>1, Stages, Constants
  <2>. QED
    BY <2>1, <2>2, <2>3, States DEF FaultsInTime, Shown
<1>. QED
  BY <1>1, DemoInvariance, PTL

=============================================================================
