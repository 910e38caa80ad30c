# MotionBridge in TLA+

MotionBridge drives one servo axis.  A 1 kHz control loop steps a state machine,
a trajectory, a PID controller and a (simulated) servo; a PLC commands the axis
through a control word and a heartbeat, either from the control thread itself
(`PlcSupervisor`) or through a thread of its own and two mailboxes
(`PlcCommunicationWorker`, `AsyncPlcSupervisor`).  These modules model that
code, `*.cfg` are the instances TLC checks, `*Proofs.tla` hold what TLAPS
proves, and `PROJECT.json` ties every definition to the lines it models.
Paths below are relative to `src/`.

## Inventory

| Component | State it keeps | Operations | Interacts with | What makes it correct |
|---|---|---|---|---|
| State machine (`src/core/controller_state_machine.cpp`) | `state_`, `fault_` | `update`, `force_fault` | called by the control loop | precedence of power, emergency stop, fault, latch; state and code agree; a latch is left by a clearance only |
| Control loop (`src/runtime/control_loop.cpp`) | command, external fault, status of the last cycle, `motion_initialized_` | `set_command`, `set_external_fault`, `step`, `run_for` | owns state machine, trajectory, PID, servo; driven by a supervisor or by `run_for` | torque with permission only; a motion starts where the servo is, keeps its target, ends where its profile ends, and does end; deadlines do not drift |
| Trajectory, PID, servo (`src/control`, `src/simulation`) | reference and profile; integral and derivative; position and velocity | `reset`, `set_target`, `update` | called by `step` | monotone approach within the limits; every profile ends; no windup, within a motion or across motions |
| Latest-value mailbox (`latest_value_mailbox.hpp`) | value, sequence number, mutex | `try_publish`, `try_read` | control thread and worker thread | number and value belong together; newest value wins; never stuck on an old one |
| Communication worker (`src/communication/plc_communication_worker.cpp`) | thread, `connected_`, two mailboxes, last status sequence | `start`, `stop`, `run` | PLC adapter, control thread | I/O in a session only; order kept across failures and restarts; delivery; `stop` returns |
| Watchdog (`src/runtime/watchdog.cpp`) | elapsed time, armed | `kick`, `advance`, `expired` | supervisors | expires when and only when the heartbeat is silent |
| Synchronous supervisor (`src/runtime/plc_supervisor.cpp`) | poll timer, watchdog, last heartbeat | `update` | PLC adapter, control loop | a running axis is supervised; no false alarm; faults are reported |
| Asynchronous supervisor (`src/runtime/async_plc_supervisor.cpp`) | watchdog, last sequence and heartbeat, health | `update` | worker, control loop | a running axis is supervised, for a bounded time after the last heartbeat; stop commands arrive; recovery |
| PLC mapping (`src/interfaces/plc_mapping.cpp`) | none | `decode_plc_command`, `encode_plc_status` | supervisors | bits and numbers of the PLC contract |
| OPC UA adapter (`src/communication/opcua_plc.cpp`) | a client | `connect`, `disconnect`, `read_command`, `write_status` | worker; PLC server, node by node | torn transfers are torn in a harmless direction |
| S7 adapter and layout (`src/communication/s7_plc.cpp`, `s7_db_layout.cpp`) | a session flag, the last error | `connect`, `disconnect`, `read_command`, `write_status`; `decode_command`, `encode_status` | worker; a data block of the PLC | both sides agree on every byte; a status never touches the command |
| Demonstrations (`src/main.cpp`, `src/plc_demo.cpp`) | options; cycle counter, script | `main` | control loop; synchronous supervisor and mock PLC | the axis runs when the loop takes over; the documented sequence of states; the exit code tells the truth |
| OPC UA configuration, mock PLC, other demos, probes, plot script, unimplemented interfaces | | | | see "Not modelled" |

What is hard in this code: three actors (PLC program, worker thread, control
thread) that interleave; `try_lock` on both sides of each mailbox, which drops
values; reads and writes that fail at any time and end the session; commands
that are read in several requests while the PLC rewrites them; heartbeats that
are in flight while the PLC is already frozen; verdicts and commands that are
one cycle old when they are used; a fault that is latched in one class and
cleared in another; stop and restart of the worker; cycles that overrun their
deadline; phases of a profile that end within a cycle; offsets and byte orders
that two programs have to agree on.  `PROJECT.json` lists these
hazards at their lines, with the properties that cover each.

## Modules

```
MotionTypes                 states, fault codes, commands
  ControllerStateMachine    update and force_fault as functions
    MotionKernel            abstract control loop, target verdict left open
    ControlLoop             detailed loop; implements MotionKernel
      ControlRun            main.cpp and run_for: start-up, deadlines, exit code
        ControlLoopProofs   about both (with ControllerStateMachineProofs)
  PlcInterface              control word, status word, fault numbers
OpenTrajectory              abstract trajectory, used by ControlLoop
  TrapezoidalTrajectory     the profile in integers; implements it
  PidController             the PID controller as a value
    AxisRegulation          both, around an open servo; AxisRegulationProofs
Watchdog                    watchdog as a value, in control cycles
MailboxContract             abstract mailbox: newest value, unread flag
  LatestValueMailbox        every access under the mutex; implements the contract
    LatestValueMailboxProofs
  PlcCommunicationWorker    the thread, its owner, two mailboxes by contract
    PlcLink                 worker between a counting PLC and a counting loop
      PlcLinkProofs
      PlcLinkPacing         ... with an observer of the thread's sleeps
    AsyncPlcSupervisor      + MotionKernel, Watchdog, PlcInterface: end to end
      AsyncPlcSupervisorProofs
PlcSupervisor               MotionKernel, Watchdog, PlcInterface in one thread
  PlcDemo                   plc_demo.cpp, cycle by cycle
    PlcSupervisorProofs     about both (with ControllerStateMachineProofs)
OpcUaPlc                    node-by-node transfer
S7DbLayout                  the data block's codec
  S7Plc                     the S7 adapter and the PLC's view of the block
    PlcAdapters             both adapters, one of which a program is linked with
      PlcAdaptersProofs
```

`MC*.tla` give the constants their values for TLC.

Three abstract specifications carry the composition.  `MotionKernel` is what the
supervisors need of the control loop: it keeps the last command and external
fault, and each cycle steps the state machine on them.  `ControlLoop` is shown
to implement it (checked and proved).  `MailboxContract` is what the worker and
the supervisors need of a mailbox: one newest value, a truthful "not accepted
yet", and a value published meanwhile is news again.  `LatestValueMailbox` is
shown to implement it (checked and proved).  `OpenTrajectory` is what the control
loop needs of a trajectory: a monotone approach at an open pace, active until it
has arrived.  `TrapezoidalTrajectory`, stepped by `AxisRegulation`, is shown to
implement it (checked and proved).  The modules above them use the abstract specification
only, which is what keeps the end-to-end model small.

### How state and actions correspond to the code

- **ControlLoop.**  `Step` is the whole of `step`: the update on the verdict of
  the cycle before, the set-up of a motion that begins, the trajectory and the
  PID or their reset, the plant, the new verdict, the copy of state and fault to
  `status_`.  Positions are integers; a reference moves monotonically to its
  target at an open pace, the servo answers any torque in any way (at rest
  without torque it stays).  The PID controller's memory is the set of targets
  it stems from, so that "no windup across motions" can be said.  `RejectRun`
  is `run_for`'s refusal of a frequency that is not positive; the rest of
  `run_for` is in `ControlRun`.  `dt` is the positive constant that all callers
  pass.
- **ControlRun.**  `main.cpp` in the order of its statements: options, three
  commands each with a step, a fourth command, the CSV file, `run_for`, the exit
  code.  It extends `ControlLoop`, whose `Step` is the cycle that each of its own
  actions makes.  `Iterate` is a turn of `run_for`'s loop; how long the step and the
  callback take and how late the thread wakes up are its parameters.  `Awake` is
  `sleep_until`, which returns at once when the time has passed.  `overruns` is a
  history variable.  `ShowHelp` is `--help`, which ends the program with 0 as soon as
  it is read; other arguments are read to the end or to the first wrong one.
- **TrapezoidalTrajectory, PidController, AxisRegulation.**  The formulas of the
  code in integers.  A control cycle has `Dt` ticks, so that phases end within a
  cycle; motions are those whose divisions and square root come out even
  (`IsEven`).  The derivative's filter factor is left open between 0 and 1.
  `Regulate`, `Begin` and `Stop` are the branches of `step` that use the two; the
  servo follows its reference at a bounded distance.
- **LatestValueMailbox.**  One action per access to a shared member, per thread.
  The refinement mapping puts the moment of a publication at the store of the
  value: from there on the number the reader is about to see is one that nobody
  has accepted, whether or not `++sequence_` has run.
- **PlcCommunicationWorker.**  `thread` is the point of `run` that the thread has
  reached.  Each call to the PLC has a success and a failure action.  `Abandon`
  is the shared part of the two failure paths: disconnect, `connected_ = false`,
  `continue` (no sleep).  A write that fails (`WriteFails`) may have taken effect
  all the same, as the answer to it may have been lost (`s7_plc.cpp:101-110`,
  `opcua_plc.cpp:157-172`).  What the PLC has taken before the connection broke
  it is assumed to serve before the requests of a later session.  `Forget` at `Start` is `last_status_sequence = 0`.
- **AsyncPlcSupervisor.**  `update` is two actions, since the worker may act
  between its read of the mailbox and the rest: `TakeCommand`/`TakeNothing`,
  then `StepAndPublish`.  The worker's read is two actions as well, `BeginRead`
  for the control word and `ReadCommand` for the rest, the heartbeat included:
  that is how the OPC UA adapter may tear a command (`OpcUaPlc` has all the
  nodes), and the other adapters' whole reads are among its behaviours.  `start` and `stop` are called between updates, by the
  control thread, as the demos do.
- **PlcSupervisor.**  One action per `update`, with the outcomes of its read and
  write as parameters; the PLC changes its command between two updates.  A failed
  write leaves the PLC with the old status, with the new status word alone, or with
  the new status (`Delivered`).
- **PlcAdapters.**  The two adapters side by side; `linked` says which one the
  program uses, and the other one's state stays as it is.
- **PlcDemo.**  The script of `plc_demo.cpp` as a function from cycles to control
  words, `Script` and `DemoUpdate` taking turns as in the loop's body, with
  `PollPeriod` and `Timeout` as 20 and 100 cycles.  `announced` is the sequence of
  states that the program prints.
- **OpcUaPlc.**  One action per node.  The content of a node is the number of
  the PLC cycle, or of the status, it stems from, which is all that "torn" is
  about.  Sending a request and reading a node may fail at any node; a failed
  write may or may not have taken effect.
- **S7DbLayout, S7Plc.**  A byte is a digit to a base, and each field is encoded
  and decoded digit by digit at the offsets of the code.  Writing shifts the number
  by a byte at a time (`Shifted`) and keeps what is left of each shift modulo the
  base, as `write_u16`, `write_u32` and `write_f64` do; reading is `read_u16`,
  `read_u32` and `read_f64` written out.  The PLC's side has
  offsets of its own (`PlcVariable`), from the table of README.md, lines 190-206;
  what is checked is that the two agree.

Definitions that begin "A defect:" are the code with a plausible mistake in it.
They are used nowhere; substituted for the definition that follows them, each
makes a property fail, which shows that the property watches that code.

## Runs

| Run (module, cfg) | Question | Bounds |
|---|---|---|
| `control_loop` (MCControlLoop, ControlLoop.cfg) | all safety rules of the loop; arrival; refinement of MotionKernel | three positions, tolerance 1, 16 commands (one per combination of bits that some branch tells apart, and three invalid ones), two external faults, frequency 0 |
| `mailbox` (MCLatestValueMailbox, LatestValueMailbox.cfg) | refinement of the contract, order, no stuck value | 2 publishers, 1 reader, 2 values, 3 publications |
| `mailbox_refusal` (LatestValueMailboxRefusal.cfg) | *expected violation*: is a single publisher never refused? | 1 publisher |
| `plc_link` (MCPlcLink, PlcLink.cfg) | sessions, order and delivery in both directions, `stop` | 2 commands and 2 statuses, any failures, stops and restarts |
| `plc_link_pacing` (PlcLinkPacing.cfg) | *expected violation*: does the thread sleep between two reads? | as above |
| `async_supervisor` (MCAsyncPlcSupervisor, AsyncPlcSupervisor.cfg) | a running axis is supervised; bound on unattended running | Timeout 3, start and reset commands, 4 heartbeats, unattended cycles counted to 9 |
| `async_liveness` (AsyncLiveness.cfg) | an emergency stop arrives although the heartbeat is frozen; heartbeats and a reset end a timeout | Timeout 3, emergency stop and reset commands, 2 heartbeats |
| `sync_supervisor` (MCPlcSupervisor, PlcSupervisor.cfg) | bound on unattended running, no false alarm, a PLC not yet heard of is a fault, faults reported | poll period 2, Timeout 3, 8 control words |
| `control_run` (MCControlRun, ControlRun.cfg) | the axis runs when `run_for` begins; deadlines and misses; early end; exit code | right and wrong command lines, `--help`; period 4, cycles of 1 or 9 ticks, callbacks of 0 or 1, latency up to 1; runs of 0 and 4 cycles, real time and fast |
| `axis_regulation` (MCAxisRegulation, AxisRegulation.cfg) | profile within its limits, ends, implements OpenTrajectory; no windup, and an end to saturation | 8 motions to and from 3 positions, triangular and trapezoidal, both directions; `Dt` 2; output from -9 to 12, the servo up to 2 behind or ahead |
| `plc_adapters` (MCPlcAdapters, PlcAdapters.cfg) | direction of torn reads and writes over OPC UA; the S7 data block | 3 PLC cycles, 3 statuses; base 4, 3 commands and 3 statuses with all their fields |
| `plc_demo` (MCPlcDemo, PlcDemo.cfg) | the documented sequence of states, the timeout in time, success | none: the program's 1800 cycles and its periods |

Why the bounds are enough.  A control cycle looks at one command, one verdict
and one position relative to one target; with three positions a reference can
lie strictly between a start and a target, and with a tolerance of one the servo
can be at a target or near it, or not.  With a frequency of 0, which `run_for`
refuses, the refusal may come at any time between the other calls; nothing else
depends on the frequency, so every behaviour of a loop with a good frequency is
among those checked.
The mailbox has one slot: a third publication repeats what a second one does.
A heartbeat is only compared for equality with the last one, and at most three
old heartbeats are held at a time (by the supervisor, in the mailbox, in the
worker's hands), so four always leave a fresh one for the bound; for liveness
two are enough, as the PLC may wait until one is free, and holding it up gives
it fewer chances.  The
timeout of 3 against a poll period of 2 is the shortest that gives no false
alarm, where a cycle more or less decides.  The asynchronous bound of 8 for the timeout of 3 can be
exceeded in the model, which counts to 9.  With 9 ticks in a period of 4, one
overrun spans three deadlines, so that a backlog is worked off over several
cycles, and a callback alone makes a cycle overrun only together with its work.
The motions of `axis_regulation` have phases of odd and of even numbers of ticks
in cycles of two, so that cycles end in the middle of each phase, at its end and
behind the end of the profile; the servo is at most two positions away
from its reference, which saturates the output on both sides and lets the integral
be held for arbitrarily long.  With a base of 4 a number of eight bytes
has non-zero digits at different places in the values chosen, so that a
wrong order, offset or width of a field shows.

What the two bounds say.  Synchronously, polls may fail: the PLC's last
heartbeat may be found in the last cycle before the watchdog would expire, and
it counts from there, so that the axis may run `2 * (Timeout - 1)` cycles after
it.  Asynchronously, the axis may run `4 * (Timeout - 1)` cycles after the PLC's
last heartbeat: the one last taken, the one in the mailbox, the one in the
worker's hands and the one the PLC stopped at each kick the watchdog once when
the worker is slow enough, or its calls fail.  "A frozen heartbeat stops the
axis after the watchdog's timeout" is therefore true only when the worker's
calls are short and succeed.  Both bounds are proved for every timeout.

### What the runs found

Two statements do not hold of the code, each by a run of its own.

- README.md, line 117, says that the worker "performs blocking reads and writes
  at 50 Hz".  After a failed read or write it continues without a sleep
  (`plc_communication_worker.cpp:84-89` and `:99-104`), so a PLC that accepts
  connections but does not answer is connected and read at full speed.
- `tests/test_main.cpp:357` requires that `try_publish_status` succeed while the
  worker is running.  It returns false when the worker is inside `try_read`.

## Fairness

- Mailbox: a thread inside a critical section leaves it (weak).  A thread that
  calls `try_read` again and again is not refused for ever, and does not fail
  for ever to use what it reads (strong): both callers poll, and the critical
  sections are a few assignments.
- Worker: the thread is scheduled and its calls return (weak).  Each of connect,
  read, publish and write succeeds eventually when it is tried again and again
  (strong).  A requested stop is joined (weak).  Nothing is assumed of `start`
  and `stop` themselves: the delivery properties except a stopped worker.
- Asynchronous bridge: both threads as above; control cycles go on (weak), and a
  command in the mailbox is not missed for ever (strong).  Nothing is assumed of
  the PLC's program; that its heartbeat goes on is a premise of the one property
  that needs it (`Beating` in `Recovers`), and that the worker is not stopped a
  premise of both (`Serving`).
- Control loop: cycles go on, and each update brings an active trajectory nearer
  to the end of its finite profile (weak).  That every profile does end is
  `ProfileEnds` of the axis regulation, which assumes only that cycles go on, as
  does `SaturationEnds`: that the error keeps its sign is its premise.
  That the servo settles once the profile has ended is not assumed of the plant
  but a premise of `Arrives`.
- Synchronous supervisor: cycles go on (weak); a write that is retried at every
  poll succeeds eventually (strong).

No safety property depends on fairness.

## Proofs

TLAPS proves, for all values of the constants and under the named assumptions
of the modules (`PositionAssumption`, `RateAssumption`, `NonFiniteAssumption`,
`CommandAssumption`, `ExternalFaultAssumption`, `FrequencyAssumption`,
`ToleranceAssumption`; `NoValueAssumption`, `ThreadAssumption`,
`MaxSequenceAssumption`; `MaxHeartbeatAssumption`, `HeartbeatData`;
`TimeoutAssumption`, `PollPeriodAssumption`, `OfferAssumption`,
`HeartbeatAssumption`, `ReportAssumption`, `MaxUnattendedAssumption`;
`GainAssumption`, `OutputAssumption`, `BoundAssumption`, `DtAssumption`,
`MotionAssumption`, `IntervalAssumption`; `TimingAssumption`,
`OptionAssumption`, `RunAssumption`; `MaxVersionAssumption`, `BaseAssumption`,
`S7Assumption`; `DemoAssumption`), each of which TLC evaluates in the runs.  The
type invariants (`TypeOK`), `NoLateRefusal`, `FaultCodeKept` and the synchronous
supervisor's `RunningIsSupervised` are proved here for all values and not listed in
the runs again.

- **ControlLoopProofs.**  The invariant is `TypeOK /\ FaultConsistent /\
  MotionSetUp`.  The lemma that carries it is `RunningIsPermitted`: a cycle that
  ends in "running" has a valid profile, so `set_target` cannot refuse it and
  the second `force_fault` in `step` is dead code (`RefusalIsNeverLate`).  From
  the same lemma follow `TorqueIsPermitted` and `TargetIsPinned`; `LatchIsKept`
  follows from the state machine's own lemma `UpdateLatched`.
  `FaultCodeIsKept` needs `FaultConsistent` to know that a code is held in a
  latched state only; `CompletionIsTrue` adds `VerdictIsTrue`, that the verdict
  of the last cycle still holds of trajectory and servo when it is used.
  `ControlLoopImplementsKernel` is step simulation under the mapping
  `target_reached <- status.target_reached`.

  The second part is about `ControlRun`; the first cites none of its assumptions.
  `RunIsALoop` says that the program is a behaviour of `ControlLoop`, so that the
  first part holds of it; it needs the invariant, which says that `main` sends
  commands of the loop only.  `RunIInv` adds to the loop's invariant `OnScript`,
  where each of the start-up's three cycles has brought the axis (`Risen`),
  `UnderWay`, that under `run_for` the axis runs or has arrived and that its
  verdict is on the target of the command line, and `InTime`.  From the first two
  follow `RunIsOneMotion` and `OutcomeIsTold`.  `RunIsOnSchedule` is an argument
  about debts: the grid of deadlines never moves (`next_cycle = cycle * Period`),
  so a cycle in usual time pays off at least `Period - Usual` of what earlier
  overruns cost; a miss that is not an overrun happens only while something is
  owed.  `InTime` therefore adds what is still owed (`Backlog`) to what the misses
  so far have paid, and bounds the sum by what the overruns have cost.
  `TimingAssumption` is what this needs of the clock: a latency is no more than
  the slack of a usual cycle.
- **LatestValueMailboxProofs.**  The invariant adds to the types that only the
  holder of the mutex is inside a critical section, and what each position
  implies: a stored value is not yet counted, `last` and the snapshot's number
  never exceed `sequence`, a snapshot in the making equals the shared members.
  `MailboxImplementsContract` maps `Store` to Publish, `CopySequence` to Take
  (or to nothing when the number is old) and all other accesses to stuttering.
- **PlcAdaptersProofs.**  Over OPC UA the invariant adds that the nodes before the
  next one already hold the status being written and that no node is ahead of it;
  then the heartbeat, written last, is never ahead of another node.  `ReadInv`
  orders the nodes read so far by age, between the beginning of the call and the
  PLC's present command, and keeps the heartbeat of the command before at or
  behind the beginning of the call; a complete command is therefore torn forward
  only (`TornReadsAreForward`), and one with the heartbeat of the command before
  is whole (`RepeatsAreWhole`).

  Of the data block two facts are proved for every base of a byte, 256 among
  them, and all numbers that fit their fields.  `ReadsBack`: a number is read
  back from where its bytes were written, since each shift divides by the base and
  each byte keeps the remainder.  `PlacesApart`: no two variables share a byte, nor
  do the two sides.  `S7IInv` then says what lies in the block byte by byte: the
  command that the PLC gave last and, once a write has succeeded, the status
  delivered last or one attempted since.  What is read from it is
  `StatusStaysIntact` on the PLC's side and `CommandArrivesIntact` on the adapter's.
- **PlcLinkProofs.**  `AtWork` says what the worker has in its hands at each point
  of `run`, and that `connected_` tells whether a session is open.
  `StatusesInLine` and `CommandsInLine` order the copies of a status and of a
  command by age along their way (source, hands, mailbox, destination); every
  step moves a copy forward only, so neither end goes back (`StatusesStayInOrder`,
  `CommandsStayInOrder`).  A failed write leaves the PLC with what it had or with
  what was in the worker's hands, and both keep the order.
- **PlcSupervisorProofs.**  `Counting` says that the watchdog counts the cycles
  since the last kick, `InStep` that under a punctual PLC it counts those since
  the last poll, and `Attended` bounds the unattended cycles by the watchdog's
  time, plus a timeout when the PLC's last heartbeat was the last kick.  `Unheard`
  says that until the first heartbeat the loop has its initial command, on which
  every update makes the missing heartbeat a fault, whatever the watchdog says
  (`UnheardPlcIsAFault`).

  The second part is about `PlcDemo`, for every timeout from 41 to 320 cycles
  (`DemoAssumption`; the program's is 100), any set of heartbeats and any valid
  moves.  `DemoIsSupervised` says that the demonstration is a behaviour of the
  supervisor, so that the first part holds of it.  The invariant `DemoInv` is a
  timetable: `Stage` says how far down the documented sequence the axis is before
  each cycle, `Silence` what the watchdog has counted by its end.  A word lasts
  until the next heartbeat (`WordLasts`), heartbeats come in cycles that poll only
  (`BeatsArePolled`), and the silence lasts for the timeout in the freeze and
  nowhere else (`SilenceIsNoticed`), which is where the range of timeouts comes
  from: at the start the script gives no heartbeat for 40 cycles, in the freeze for
  320.  So each cycle's word and fault take the axis from its stage to the next
  cycle's (`CycleShows`), whence `DemoIsAsDocumented` and `DemoFaultsInTime`.
- **AsyncPlcSupervisorProofs.**  `Attended` allows the axis `Timeout - 1` cycles
  for each kick that can still come: `KicksLeft` counts them along the way from
  the PLC over the worker's hands and the mailbox to the supervisor.  Every kick
  uses one up, and only a new heartbeat of the PLC, which resets the history
  variable, adds one.  `MailboxInUse` keeps the mailbox's contract and
  `CommandedByPlc` that an axis runs on a command of the PLC.
- **AxisRegulationProofs.**  `IntegralDoesNotWindUp` needs that the output's range
  contains 0, that errors are bounded, and that an error which does not lead out
  of saturation is not added.  For the trajectory the distance at a time is put as
  one sum over the three phases: how long the profile has been speeding up, cruising
  and slowing down by then (`ProfileInPhases`).  A cycle that spans two phases, or
  the end, then needs no case of its own (`ProfileMoves`).  `PlannedTimes` shows
  that `set_target`'s quotients and root make phases that span exactly the way to
  the target, for triangular and trapezoidal profiles; `UpdateMoves` that a cycle
  keeps limits and target and never goes back.  `TrajectoryInv` says that an active
  trajectory is on such a profile, and that a motion begins where motions do.
  `ReferenceKeepsLimits` and `ProfileIsOpen` follow.  Both are about the motions of
  the model, whose divisions and roots come out even (`IsEven`); the positions are
  any set of integers without gaps (`IntervalAssumption`).

Only model-checked: liveness (fairness and ENABLED are out of the prover's
reach): `Arrives`, `EveryPublicationArrives`, `StopReturns`, `StatusArrives`,
`CommandArrives`, `EmergencyStopArrives`, `Recovers`, `FaultReported`,
`ProfileEnds` and `SaturationEnds`.  Every other property of a passing run has its theorem.

## Not modelled

- The servo's dynamics (floating point): any answer to a torque is considered.
- Rounding: trajectory and PID controller are modelled in integers for motions
  whose divisions and roots are exact; in control cycles the watchdog and the
  poll timer count exactly.  With the periods in use the code's sums of 0.001
  reach 0.02, 0.03, 0.05, 0.1 and 0.25 after as many additions as the quotient
  says.
- Means and maxima of the timing statistics, the CSV file's content, the length
  of the worker's sleeps, and its three counters.
- The OPC UA configuration parser: it is sequential, runs once before anything
  else, and consists of the handling of characters that these models abstract
  from.
- `async_plc_demo.cpp` and `s7_live_demo.cpp`, whose loops are `update` after
  `update` of the asynchronous supervisor, with the PLC's or a script's commands,
  and so among the behaviours of `AsyncPlcSupervisor`; the probes, the plot script
  and the interfaces without an implementation.
- Wrap-around of the 32-bit heartbeat: the PLC would have to advance it by 2^32
  between two reads to be taken for frozen.

## Plan

1. *Done:* all components with state of their own; the refinements of kernel,
   mailbox contract and open trajectory; torn commands in the asynchronous
   bridge; proofs of every safety property.
2. *Modules left:* the scripts of the asynchronous demonstration, once a way is
   found to bound the worker's sleeps against the control cycles.
