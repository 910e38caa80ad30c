------------------------------ MODULE OpcUaPlc ------------------------------
(* The OPC UA adapter between one thread that calls it and a PLC program    *)
(* that goes on.  A command is read and a status is written node by node,   *)
(* one request to the server each, so a PLC cycle may fall between any two. *)
(*                                                                          *)
(* The PLC program rewrites its whole command block in one cycle, the       *)
(* caller composes a whole status: a node's content is the number of the    *)
(* rewriting, or of the status, that it stems from.                         *)
EXTENDS Naturals, Sequences

CONSTANTS
    MaxVersion,   \* bound: rewritings and statuses considered
    NoCommand     \* std::nullopt

ASSUME MaxVersionAssumption == MaxVersion \in Nat

VARIABLES
    client,       \* impl_->client is not null: a session is open
    call,         \* the call in progress, "none" between two
    next,         \* the place of the node that is transferred next
    plc_command,  \* the rewriting that the PLC's command block shows
    began,        \* history: plc_command when the last read began
    command,      \* read_command's local command
    received,     \* the last command that was returned
    status,       \* the status that write_status was last given
    plc_status    \* the status nodes

vars == <<client, call, next, plc_command, began, command, received, status,
          plc_status>>

Version == 0 .. MaxVersion

(* A defect: the heartbeat is read first. *)
HeartbeatReadFirst ==
    <<"plc_heartbeat", "control_word", "target_position", "max_velocity",
      "max_acceleration">>

(* The nodes in the order in which they are read and written. *)
CommandNode ==
    <<"control_word", "target_position", "max_velocity", "max_acceleration",
      "plc_heartbeat">>

(* A defect: the heartbeat is written first. *)
HeartbeatWrittenFirst ==
    <<"controller_heartbeat", "status_word", "actual_position",
      "actual_velocity", "following_error", "fault_code">>

StatusNode ==
    <<"status_word", "actual_position", "actual_velocity", "following_error",
      "fault_code", "controller_heartbeat">>

Nodes(order) == {order[i] : i \in DOMAIN order}

Command == [Nodes(CommandNode) -> Version]

TypeOK ==
    /\ client \in BOOLEAN
    /\ call \in {"none", "read", "write"}
    /\ next \in 1 .. Len(StatusNode)
    /\ plc_command \in Version
    /\ began \in Version
    /\ command \in Command
    /\ received \in Command \cup {NoCommand}
    /\ status \in Version
    /\ plc_status \in [Nodes(StatusNode) -> Version]

Blank == [n \in Nodes(CommandNode) |-> 0]

Init ==
    /\ client = FALSE
    /\ call = "none"
    /\ next = 1
    /\ plc_command = 0
    /\ began = 0
    /\ command = Blank
    /\ received = NoCommand
    /\ status = 0
    /\ plc_status = [n \in Nodes(StatusNode) |-> 0]

-----------------------------------------------------------------------------
(* The PLC program's next cycle rewrites the command block, the heartbeat   *)
(* with it.  That it always renews the heartbeat is an assumption about the *)
(* PLC; AsyncPlcSupervisor, whose PLC may freeze it, does without.          *)
PlcCycle ==
    /\ plc_command < MaxVersion
    /\ plc_command' = plc_command + 1
    /\ UNCHANGED <<client, call, next, began, command, received, status,
                   plc_status>>

(* connect closes what is open before it tries anew. *)
Connect(ok) ==
    /\ call = "none"
    /\ client' = ok
    /\ UNCHANGED <<call, next, plc_command, began, command, received, status,
                   plc_status>>

Disconnect ==
    /\ call = "none"
    /\ client' = FALSE
    /\ UNCHANGED <<call, next, plc_command, began, command, received, status,
                   plc_status>>

-----------------------------------------------------------------------------
(* read_command *)

(* A defect: a read resumes where the last one has failed. *)
ResumeRead ==
    /\ call = "none"
    /\ client
    /\ call' = "read"
    /\ next' = IF next <= Len(CommandNode) THEN next ELSE 1
    /\ began' = plc_command
    /\ UNCHANGED <<client, plc_command, command, received, status, plc_status>>

BeginRead ==
    /\ call = "none"
    /\ client
    /\ call' = "read"
    /\ next' = 1
    /\ began' = plc_command
    /\ command' = Blank
    /\ UNCHANGED <<client, plc_command, received, status, plc_status>>

ReadNode ==
    /\ call = "read"
    /\ command' = [command EXCEPT ![CommandNode[next]] = plc_command]
    /\ IF next = Len(CommandNode)
       THEN call' = "none" /\ next' = 1 /\ received' = command'
       ELSE call' = call /\ next' = next + 1 /\ received' = received
    /\ UNCHANGED <<client, plc_command, began, status, plc_status>>

(* A request fails, or its answer has the wrong type: no command at all.    *)
ReadNodeFails ==
    /\ call = "read"
    /\ call' = "none"
    /\ UNCHANGED <<client, next, plc_command, began, command, received, status,
                   plc_status>>

-----------------------------------------------------------------------------
(* write_status *)

(* The caller writes a new status, or the one that it failed to write.      *)
BeginWrite ==
    /\ call = "none"
    /\ client
    /\ status' \in {status, status + 1} \cap Version
    /\ call' = "write"
    /\ next' = 1
    /\ UNCHANGED <<client, plc_command, began, command, received, plc_status>>

WriteNode ==
    /\ call = "write"
    /\ plc_status' = [plc_status EXCEPT ![StatusNode[next]] = status]
    /\ IF next = Len(StatusNode)
       THEN call' = "none" /\ next' = 1
       ELSE call' = call /\ next' = next + 1
    /\ UNCHANGED <<client, plc_command, began, command, received, status>>

(* The request is refused, or its answer is lost: what was written stays.   *)
WriteNodeFails ==
    /\ call = "write"
    /\ plc_status' \in {plc_status, [plc_status EXCEPT ![StatusNode[next]] = status]}
    /\ call' = "none"
    /\ UNCHANGED <<client, next, plc_command, began, command, received, status>>

Next ==
    \/ PlcCycle
    \/ \E ok \in BOOLEAN : Connect(ok)
    \/ Disconnect
    \/ BeginRead
    \/ ReadNode
    \/ ReadNodeFails
    \/ BeginWrite
    \/ WriteNode
    \/ WriteNodeFails

Spec == Init /\ [][Next]_vars

-----------------------------------------------------------------------------
Returned == ReadNode /\ next = Len(CommandNode)

(* A command may be torn, but in one direction only: nothing in it is older *)
(* than the call, no start bit comes with an older target or older limits,  *)
(* and nothing is newer than the heartbeat it is judged by.                 *)
TornForward ==
    [][Returned =>
         \A n \in Nodes(CommandNode) :
             /\ began <= received'[n]
             /\ received'["control_word"] <= received'[n]
             /\ received'[n] <= received'["plc_heartbeat"]]_vars

(* A read that shows the heartbeat of the read before it is whole: a torn   *)
(* command does not outlast the next read of a PLC that stands still.  This *)
(* depends on a heartbeat that is renewed whenever the block is rewritten.  *)
RepeatIsWhole ==
    [][Returned /\ received # NoCommand
         /\ received'["plc_heartbeat"] = received["plc_heartbeat"]
         => \A n \in Nodes(CommandNode) : received'[n] = received'["plc_heartbeat"]]_vars

(* The heartbeat commits a status: whichever heartbeat the PLC finds, at    *)
(* any time, all other nodes are at least as new, across failed, repeated   *)
(* and half-done writes.                                                    *)
HeartbeatCommits ==
    \A n \in Nodes(StatusNode) : plc_status["controller_heartbeat"] <= plc_status[n]

=============================================================================
