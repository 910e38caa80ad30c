------------------------------ MODULE PlcDemo -------------------------------
(* The demonstration of the synchronous supervisor: a PLC that is the same  *)
(* process runs through a script, and before every cycle's update it may    *)
(* give a new command.  Every read and every write succeeds.  The move      *)
(* takes longer than the demonstration, so the target is never reached.     *)
EXTENDS PlcSupervisor, Sequences

TotalCycles == 1800

(* The cycle in which the heartbeat freezes, and the one it goes on in. *)
Freeze == 1000
Restore == 1300

VARIABLES
    cycle,       \* cycle
    scripted,    \* the script has had its turn in this cycle
    announced    \* the transitions printed: previous_state, and those before

demoVars == <<vars, cycle, scripted, announced>>

Enabled == ControlBit.power_available + ControlBit.enable

(* A defect: the start bit comes back with the enable bit. *)
WordStartingAgain(n) ==
    CASE n < 20 -> ControlBit.power_available
      [] n \in 20 .. 59 \/ n \in 80 .. Restore - 1 -> Enabled
      [] n \in 60 .. 79 \/ n >= 1340 -> Enabled + ControlBit.start
      [] n \in Restore .. 1339 -> ControlBit.power_available + ControlBit.reset_fault

(* The word of the last command that the script has set by cycle n.         *)
Word(n) ==
    CASE n < 20 -> ControlBit.power_available
      [] n \in 20 .. 59 \/ n \in 80 .. Restore - 1 \/ n >= 1340 -> Enabled
      [] n \in 60 .. 79 -> Enabled + ControlBit.start
      [] n \in Restore .. 1339 -> ControlBit.power_available + ControlBit.reset_fault

(* The cycles in which the script sets a command, with a new heartbeat.     *)
Beats(n) ==
    \/ n \in {20, 60}
    \/ n % 20 = 0 /\ (n \in 80 .. Freeze - 1 \/ n >= Restore)

(* The program polls every 20 cycles, and its command is a valid move       *)
(* whatever the control word.  Its timeout is 100 cycles; any other does    *)
(* that outlasts the 40 cycles without a heartbeat at the start, and not    *)
(* the 320 without one later.                                               *)
ASSUME DemoAssumption ==
    /\ PollPeriod = 20 /\ Timeout \in 41 .. 320
    /\ \A offer \in Offer :
           /\ ValidProfile(offer.target_position_rad, offer.max_velocity_rad_s,
                           offer.max_acceleration_rad_s2)
           /\ \A n \in 0 .. TotalCycles : [offer EXCEPT !.control_word = Word(n)] \in Offer

DemoInit ==
    /\ Init
    /\ plc_command.offer.control_word = Word(0)
    /\ plc_command.heartbeat = 1
    /\ cycle = 0
    /\ scripted = FALSE
    /\ announced = <<"power_off">>

Script ==
    /\ cycle < TotalCycles
    /\ ~scripted
    /\ scripted' = TRUE
    /\ IF Beats(cycle)
       THEN /\ PlcBeat([plc_command.offer EXCEPT !.control_word = Word(cycle)])
            /\ plc_command'.heartbeat = plc_command.heartbeat + 1
       ELSE UNCHANGED vars
    /\ UNCHANGED <<cycle, announced>>

DemoUpdate ==
    /\ scripted
    /\ SupervisorUpdate(PollDue, PollDue)
    /\ ~target_reached'
    /\ scripted' = FALSE
    /\ cycle' = cycle + 1
    /\ announced' = IF machine'.state = announced[Len(announced)] THEN announced
                    ELSE Append(announced, machine'.state)

DemoNext == Script \/ DemoUpdate

DemoSpec == DemoInit /\ [][DemoNext]_demoVars

(* main's exit code is 0. *)
ExitsWithSuccess == machine = [state |-> "ready", fault |-> "none"]

-----------------------------------------------------------------------------
(* The demonstration shows what the README says: this sequence of states,   *)
(* in this order, and whole by the end, where the exit code tells so ...    *)
Documented ==
    <<"power_off", "disabled", "ready", "running", "fault", "disabled", "ready">>

ShowsDocumentedSequence ==
    /\ \A n \in DOMAIN announced :
           n \in DOMAIN Documented /\ announced[n] = Documented[n]
    /\ cycle = TotalCycles => announced = Documented /\ ExitsWithSuccess

(* ... with the timeout as the fault: it is not announced before the        *)
(* heartbeat has been frozen for the timeout less a poll period, and no     *)
(* later than after the timeout.  The start bit, which stands for one poll  *)
(* period only, has been seen by then.                                      *)
FaultsInTime ==
    /\ cycle \in 80 .. Freeze + Timeout - PollPeriod - 1 => machine.state = "running"
    /\ cycle \in Freeze + Timeout .. Restore =>
           machine = [state |-> "fault", fault |-> "communication_timeout"]

=============================================================================
