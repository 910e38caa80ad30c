-------------------- MODULE ControllerStateMachineProofs --------------------
(* Lemmas about one update of the controller state machine, for every       *)
(* machine, command and detected fault.                                     *)
EXTENDS ControllerStateMachine, TLAPS

(* ControllerStateMachine::update yields a state and a fault code. *)
LEMMA UpdateType ==
    ASSUME NEW m \in Machine, NEW c \in MotionCommand,
           NEW reached \in BOOLEAN, NEW detected \in FaultCode
    PROVE  Update(m, c, reached, detected) \in Machine
<1>1. Sequence(m.state, c, reached) \in ControllerState
      \/ m.state \in LatchedState
  <2>1. m.state \in ControllerState
    BY DEF Machine
  <2>. QED
    BY <2>1 DEF Sequence, ControllerState, LatchedState
<1>2. PoweredOff \in Machine /\ Disabled \in Machine
  BY DEF PoweredOff, Disabled, Machine, ControllerState, FaultCode
<1>3. ForceFault(m, detected) \in Machine
  BY DEF ForceFault, Machine, ControllerState
<1>4. [m EXCEPT !.state = "emergency_stop"] \in Machine
  BY DEF Machine, ControllerState
<1>. QED
  BY <1>1, <1>2, <1>3, <1>4 DEF Update, EmergencyStopped, Released, Machine

(* What a cycle that ends in "running" tells about its inputs. *)
LEMMA UpdateRunning ==
    ASSUME NEW m \in Machine, NEW c \in MotionCommand,
           NEW reached \in BOOLEAN, NEW detected \in FaultCode,
           Update(m, c, reached, detected).state = "running"
    PROVE  /\ c.power_available
           /\ c.enable
           /\ ~c.emergency_stop
           /\ detected = "none"
           /\ m.state \notin LatchedState
           /\ m.state = "running" => ~c.stop
<1>1. c.power_available /\ ~c.emergency_stop
  BY DEF Update, EmergencyStopped, Released, PoweredOff, Machine
<1>2. detected = "none"
  BY <1>1 DEF Update, EmergencyStopped, Released, ForceFault
<1>3. m.state \notin LatchedState
  BY <1>1, <1>2 DEF Update, EmergencyStopped, Released, Disabled, LatchedState
<1>4. Sequence(m.state, c, reached) = "running"
  BY <1>1, <1>2, <1>3 DEF Update, EmergencyStopped, Released, Machine
<1>5. m.state \in ControllerState
  BY DEF Machine
<1>6. c.enable /\ (m.state = "running" => ~c.stop)
  BY <1>3, <1>4, <1>5 DEF Sequence, ControllerState, LatchedState
<1>. QED
  BY <1>1, <1>2, <1>3, <1>6

(* A code is held exactly while the machine is latched. *)
Consistent(m) ==
    /\ m.state = "fault" => m.fault # "none"
    /\ m.fault # "none" => m.state \in LatchedState

(* One update keeps state and fault code in agreement. *)
LEMMA UpdateConsistent ==
    ASSUME NEW m \in Machine, NEW c \in MotionCommand,
           NEW reached \in BOOLEAN, NEW detected \in FaultCode,
           Consistent(m)
    PROVE  Consistent(Update(m, c, reached, detected))
<1>1. CASE ~c.power_available
  BY <1>1 DEF Update, EmergencyStopped, Released, PoweredOff, Consistent
<1>2. CASE c.power_available /\ c.emergency_stop
  BY <1>2 DEF Update, EmergencyStopped, Released, Consistent, Machine, LatchedState
<1>3. CASE c.power_available /\ ~c.emergency_stop /\ detected # "none"
  BY <1>3 DEF Update, EmergencyStopped, Released, ForceFault, Consistent, LatchedState
<1>4. CASE /\ c.power_available /\ ~c.emergency_stop /\ detected = "none"
           /\ m.state \in LatchedState
  BY <1>4 DEF Update, EmergencyStopped, Released, Disabled, Consistent
<1>5. CASE /\ c.power_available /\ ~c.emergency_stop /\ detected = "none"
           /\ m.state \notin LatchedState
  <2>1. m.fault = "none"
    BY <1>5 DEF Consistent
  <2>2. m.state \in ControllerState
    BY DEF Machine
  <2>3. Sequence(m.state, c, reached) # "fault"
    BY <1>5, <2>2 DEF Sequence, ControllerState, LatchedState
  <2>. QED
    BY <1>5, <2>1, <2>3 DEF Update, EmergencyStopped, Released, Consistent, Machine
<1>. QED
  BY <1>1, <1>2, <1>3, <1>4, <1>5 DEF MotionCommand

(* A latched machine is released by a power loss or a reset only. *)
LEMMA UpdateLatched ==
    ASSUME NEW m \in Machine, NEW c \in MotionCommand,
           NEW reached \in BOOLEAN, NEW detected \in FaultCode,
           m.state \in LatchedState,
           Update(m, c, reached, detected).state \notin LatchedState
    PROVE  \/ ~c.power_available
           \/ c.reset_fault /\ ~c.emergency_stop /\ detected = "none"
<1>1. CASE c.power_available /\ c.emergency_stop
  BY <1>1 DEF Update, EmergencyStopped, Released, LatchedState, Machine
<1>2. CASE c.power_available /\ ~c.emergency_stop /\ detected # "none"
  BY <1>2 DEF Update, EmergencyStopped, Released, ForceFault, LatchedState
<1>3. CASE c.power_available /\ ~c.emergency_stop /\ detected = "none"
  BY <1>3 DEF Update, EmergencyStopped, Released
<1>. QED
  BY <1>1, <1>2, <1>3 DEF MotionCommand

=============================================================================
