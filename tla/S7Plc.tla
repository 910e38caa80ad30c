------------------------------- MODULE S7Plc --------------------------------
(* The Siemens S7 adapter and the PLC's data block.  A command is fetched   *)
(* and a status delivered in one request each, which the network library    *)
(* and the PLC serve as a whole or not at all.                              *)
EXTENDS S7DbLayout

CONSTANTS
    Command,   \* commands that the PLC program gives
    Status,    \* statuses that the caller writes
    NoValue    \* std::nullopt, or no call yet

VARIABLES
    connected,   \* impl_->connected
    failed,      \* impl_->error is not empty
    db,          \* the PLC's data block
    received,    \* what the last read_command returned
    given,       \* history: the command that the PLC program gave last
    delivered,   \* history: the status of the last write that succeeded
    attempted    \* history: statuses of the failed writes since

vars == <<connected, failed, db, received, given, delivered, attempted>>

(* The PLC program's view of its variables, as the README's table lists     *)
(* them: absolute offsets, the most significant byte first.                 *)
PlcVariable ==
    [control_word |-> Field(0, 2), target_position_rad |-> Field(2, 8),
     max_velocity_rad_s |-> Field(10, 8),
     max_acceleration_rad_s2 |-> Field(18, 8), heartbeat |-> Field(26, 4),
     status_word |-> Field(30, 2), actual_position_rad |-> Field(32, 8),
     actual_velocity_rad_s |-> Field(40, 8),
     following_error_rad |-> Field(48, 8), fault_code |-> Field(56, 2),
     controller_heartbeat |-> Field(58, 4)]

PlcSees(field) ==
    ReadNumber(db, PlcVariable[field].offset, PlcVariable[field].width)

Places(field) ==
    PlcVariable[field].offset .. PlcVariable[field].offset + PlcVariable[field].width - 1

(* The PLC program's next cycle writes its variables. *)
WithCommand(block, c) ==
    [i \in DOMAIN block |->
        IF \E f \in DOMAIN c : i \in Places(f)
        THEN LET f == CHOOSE f \in DOMAIN c : i \in Places(f)
             IN ByteOf(c[f], PlcVariable[f].width, i - PlcVariable[f].offset)
        ELSE block[i]]

Init ==
    /\ connected = FALSE
    /\ failed = FALSE
    /\ given \in Command
    /\ db = WithCommand([i \in 0 .. total_size - 1 |-> 0], given)
    /\ received = NoValue
    /\ delivered = NoValue
    /\ attempted = {}

PlcCycle(c) ==
    /\ given' = c
    /\ db' = WithCommand(db, c)
    /\ UNCHANGED <<connected, failed, received, delivered, attempted>>

-----------------------------------------------------------------------------
Connect(ok) ==
    /\ connected' = ok
    /\ failed' = ~ok
    /\ UNCHANGED <<db, received, given, delivered, attempted>>

Disconnect ==
    /\ connected' = FALSE
    /\ UNCHANGED <<failed, db, received, given, delivered, attempted>>

(* Cli_DBRead and Cli_DBWrite, which succeed in a session only. *)
CommandBlock == [i \in 0 .. command_size - 1 |-> db[command_offset + i]]

WithStatus(status) ==
    [i \in DOMAIN db |->
        IF i - status_offset \in 0 .. status_size - 1
        THEN EncodeStatus(status)[i - status_offset] ELSE db[i]]

(* A failed read leaves the session as it is. *)
ReadCommand(ok) ==
    /\ ok => connected
    /\ received' = IF ok THEN DecodeCommand(CommandBlock) ELSE NoValue
    /\ failed' = ~ok
    /\ UNCHANGED <<connected, db, given, delivered, attempted>>

WriteStatus(status) ==
    /\ connected
    /\ db' = WithStatus(status)
    /\ delivered' = status
    /\ attempted' = {}
    /\ failed' = FALSE
    /\ UNCHANGED <<connected, received, given>>

(* Without a session nothing is sent; in one, the request may be lost, or   *)
(* only its answer.                                                         *)
WriteStatusFails(status) ==
    /\ db' \in {db} \cup (IF connected THEN {WithStatus(status)} ELSE {})
    /\ attempted' = IF connected THEN attempted \cup {status} ELSE attempted
    /\ failed' = TRUE
    /\ UNCHANGED <<connected, received, given, delivered>>

Next ==
    \/ \E c \in Command : PlcCycle(c)
    \/ \E ok \in BOOLEAN : Connect(ok) \/ ReadCommand(ok)
    \/ Disconnect
    \/ \E status \in Status : WriteStatus(status) \/ WriteStatusFails(status)

Spec == Init /\ [][Next]_vars

-----------------------------------------------------------------------------
(* A command that is returned is, in every field, the one that the PLC      *)
(* program has given at that time: the two sides agree on where its fields  *)
(* are and in which order their bytes come.                                 *)
CommandIntact == [][ReadCommand(TRUE) => received' = given]_vars

(* Whatever is written or fails to be written, the PLC finds a whole status *)
(* in its block, the last one delivered or one attempted since, and its own *)
(* command untouched.                                                       *)
StatusIntact ==
    /\ \/ delivered = NoValue
       \/ \E status \in {delivered} \cup attempted :
              \A f \in DOMAIN status : PlcSees(f) = status[f]
    /\ \A f \in DOMAIN given : PlcSees(f) = given[f]

=============================================================================
