----------------------------- MODULE ControlRun ------------------------------
(* The demonstration program from its options to its exit code: it powers,  *)
(* enables and starts the axis with three cycles of the control loop, then  *)
(* hands the thread to run_for, which steps the loop at a fixed rate.       *)
(* run_for never rejects it: parse_options takes positive frequencies only. *)
(*                                                                          *)
(* One thread does all this.  Time is counted in ticks of a steady clock    *)
(* from the call of run_for on; how long a cycle and its callback take, and *)
(* how late a sleeping thread wakes up, are left open within bounds.        *)
EXTENDS ControlLoop, Sequences

CONSTANTS
    OptionSet,    \* command lines considered, as parse_options reads them
    Period,       \* 1 / FrequencyHz, in ticks
    Work,         \* ticks that a step may take
    Callback,     \* ticks that a callback may take
    MaxLatency,   \* bound: ticks that a sleep may last too long
    Usual,        \* the ticks that a cycle and its callback usually take
    Worst         \* the most they ever take

ASSUME TimingAssumption ==
    /\ {Period, Usual, Worst, MaxLatency} \subseteq Nat
    /\ Work \subseteq Nat /\ Callback \subseteq Nat
    /\ Usual < Period /\ Period <= Worst
    /\ MaxLatency <= Period - Usual
    /\ \A work \in Work, callback \in Callback : work + callback <= Worst
(* The arguments are read one by one, up to the last, to the first that is  *)
(* wrong, or to --help.  Of the good frequencies one is considered.         *)
ASSUME OptionAssumption ==
    /\ OptionSet \subseteq [target : Position, max_velocity : Rate,
                            max_acceleration : Rate, duration : Int,
                            frequency : Int, fast : BOOLEAN, csv : BOOLEAN,
                            read_to : {"end", "error", "help"}]
    /\ \A o \in OptionSet : o.frequency > 0 => o.frequency = FrequencyHz

(* The commands that main sends. *)
Enabling == [InitialCommand EXCEPT !.enable = TRUE]
MovingTo(o) ==
    [Enabling EXCEPT !.target_position_rad = o.target,
                     !.max_velocity_rad_s = o.max_velocity,
                     !.max_acceleration_rad_s2 = o.max_acceleration]
StartingTo(o) == [MovingTo(o) EXCEPT !.start = TRUE]
Commands ==
    {InitialCommand, Enabling} \cup {MovingTo(o) : o \in OptionSet}
    \cup {StartingTo(o) : o \in OptionSet}

ASSUME RunAssumption == Commands \subseteq Command

VARIABLES
    at,               \* how far main has come
    options,          \* the command line
    sent,             \* commands sent to the loop so far
    cycle,            \* run_for's counter
    now,              \* the clock
    next_cycle,       \* the end of the cycle that is or was last under way
    deadline_misses,  \* timing.deadline_misses
    exit_code,
    overruns          \* history: cycles that took longer than usual

clockVars == <<cycle, now, next_cycle, deadline_misses, overruns>>
runVars == <<at, options, sent, exit_code, clockVars, vars>>

CycleCount == options.duration \div Period

RunInit ==
    /\ at = "options"
    /\ options \in OptionSet
    /\ sent = 0
    /\ cycle = 0 /\ now = 0 /\ next_cycle = 0
    /\ deadline_misses = 0 /\ overruns = 0
    /\ exit_code = 0
    /\ Init /\ servo.position = 0

-----------------------------------------------------------------------------
(* main, up to run_for *)

(* --help ends the program there and then, with 0. *)
ShowHelp ==
    /\ at = "options"
    /\ options.read_to = "help"
    /\ at' = "exited"
    /\ exit_code' = 0
    /\ UNCHANGED <<options, sent, clockVars, vars>>

Accepted ==
    /\ options.read_to = "end"
    /\ options.max_velocity > 0
    /\ options.max_acceleration > 0
    /\ options.duration > 0
    /\ options.frequency > 0

ParseOptions ==
    /\ at = "options"
    /\ options.read_to # "help"
    /\ at' = IF Accepted THEN "command" ELSE "exited"
    /\ exit_code' = IF Accepted THEN exit_code ELSE 1
    /\ UNCHANGED <<options, sent, clockVars, vars>>

(* A defect: the start bit stays set. *)
ScriptStarting == <<InitialCommand, Enabling, StartingTo(options), StartingTo(options)>>

(* POWER_OFF -> DISABLED -> READY -> RUNNING; the last one has no step.     *)
Script == <<InitialCommand, Enabling, StartingTo(options), MovingTo(options)>>

SendCommand ==
    /\ at = "command"
    /\ sent' = sent + 1
    /\ SetCommand(Script[sent'])
    /\ at' = IF sent' < Len(Script) THEN "step" ELSE "csv"
    /\ UNCHANGED <<options, exit_code, clockVars>>

StepOnce ==
    /\ at = "step"
    /\ at' = "command"
    /\ Step
    /\ UNCHANGED <<options, sent, exit_code, clockVars>>

(* The file is opened while the axis is running already. *)
OpenCsv(ok) ==
    /\ at = "csv"
    /\ ok \/ options.csv
    /\ at' = IF ok THEN "cycle" ELSE "exited"
    /\ exit_code' = IF ok THEN exit_code ELSE 1
    /\ UNCHANGED <<options, sent, clockVars, vars>>

-----------------------------------------------------------------------------
(* run_for *)

More == cycle < CycleCount

(* A defect: the run ends on the verdict alone. *)
DoneAtTarget == status'.target_reached

Done == status'.target_reached /\ status'.state = "ready"

(* A defect: the thread sleeps until a period from now. *)
AwakeFromNow(time, latency) ==
    IF options.fast THEN time ELSE now + Period + latency

(* When the thread goes on after it has done its cycle's work.              *)
Awake(time, latency) ==
    IF options.fast \/ time >= next_cycle' THEN time ELSE next_cycle' + latency

(* One turn of the loop.  The deadline is the grid's, however late the      *)
(* cycle began; the callback runs after the clock was read for it.          *)
Iterate(work, callback, latency) ==
    /\ at = "cycle"
    /\ More
    /\ next_cycle' = next_cycle + Period
    /\ Step
    /\ deadline_misses' = deadline_misses + (IF now + work > next_cycle' THEN 1 ELSE 0)
    /\ overruns' = overruns + (IF work + callback > Usual THEN 1 ELSE 0)
    /\ now' = Awake(now + work + callback, latency)
    /\ cycle' = cycle + 1
    /\ at' = IF Done THEN "returned" ELSE "cycle"
    /\ UNCHANGED <<options, sent, exit_code>>

RunOut ==
    /\ at = "cycle"
    /\ ~More
    /\ at' = "returned"
    /\ UNCHANGED <<options, sent, exit_code, clockVars, vars>>

Success == status.target_reached /\ status.fault = "none"

Exit ==
    /\ at = "returned"
    /\ at' = "exited"
    /\ exit_code' = IF Success THEN 0 ELSE 2
    /\ UNCHANGED <<options, sent, clockVars, vars>>

RunNext ==
    \/ ShowHelp
    \/ ParseOptions
    \/ SendCommand
    \/ StepOnce
    \/ \E ok \in BOOLEAN : OpenCsv(ok)
    \/ \E work \in Work, callback \in Callback, latency \in 0 .. MaxLatency :
           Iterate(work, callback, latency)
    \/ RunOut
    \/ Exit

RunSpec == RunInit /\ [][RunNext]_runVars

-----------------------------------------------------------------------------
(* "POWER_OFF -> DISABLED", "DISABLED -> READY", "READY -> RUNNING"         *)
(* (main.cpp): whatever the accepted options, run_for finds an axis on its  *)
(* way to the target that was asked for ...                                 *)
RunStarts ==
    at = "csv" => machine.state = "running" /\ trajectory.target = options.target

(* ... and a run is this one motion: once the axis has left "running" it is *)
(* not started again, even if the servo, without torque, coasts away from   *)
(* its target and the run goes on.                                          *)
OneMotion ==
    /\ []RunStarts
    /\ [][at = "cycle" /\ machine.state # "running" => machine'.state # "running"]_runVars

(* In real time a cycle never begins early, and how late it begins depends  *)
(* on the overruns so far, not on the number of cycles: wake-up latencies   *)
(* do not add up, since the grid of deadlines never moves.  An overrun may  *)
(* make later cycles miss their deadlines too, until the backlog is worked  *)
(* off; there are no other misses.                                          *)
OnSchedule ==
    /\ at = "cycle" /\ ~options.fast
         => now - cycle * Period \in 0 .. MaxLatency + overruns * (Worst - Period)
    /\ (deadline_misses - overruns) * (Period - Usual)
         <= overruns * (Worst - Period + MaxLatency)

(* A run that ends before its time leaves the servo at its target, slow     *)
(* enough and without torque ...                                            *)
EndsEarlyAtRest ==
    at = "returned" /\ cycle < CycleCount
      => /\ machine = [state |-> "ready", fault |-> "none"]
         /\ servo.torque = "zero"
         /\ AtTarget(MovingTo(options), servo)

(* ... and exit code 0 tells that the servo is where the command line       *)
(* wanted it, however the run ended, or that help was asked for and nothing *)
(* was commanded.                                                           *)
ExitTells ==
    at = "exited" /\ exit_code = 0
      => \/ AtTarget(MovingTo(options), servo) /\ ~trajectory.active
         \/ options.read_to = "help" /\ sent = 0

OutcomeIsTrue == EndsEarlyAtRest /\ ExitTells

=============================================================================
