------------------------- MODULE PlcAdaptersProofs --------------------------
(* Proofs about the two network adapters.  Over OPC UA, whatever fails in   *)
(* between, the heartbeat of a status is the last of its nodes to change,   *)
(* and a command that is torn is torn in one direction only.  Over the data *)
(* block of a Siemens PLC both sides read the numbers that were written.    *)
EXTENDS PlcAdapters, TLAPS

(* A read stays among its nodes.  Before the next one, the status nodes     *)
(* hold the status being written; no node holds one that was not given yet. *)
IInv ==
    /\ TypeOK
    /\ call = "read" => next <= Len(CommandNode)
    /\ \A n \in Nodes(StatusNode) : plc_status[n] <= status
    /\ call = "write" =>
         \A i \in 1 .. Len(StatusNode) :
             i < next => plc_status[StatusNode[i]] = status
    /\ HeartbeatCommits

(* The places of the status nodes, the heartbeat in the last one.           *)
LEMMA StatusNodes ==
    /\ Len(StatusNode) = 6
    /\ DOMAIN StatusNode = 1 .. 6
    /\ StatusNode[6] = "controller_heartbeat"
    /\ \A i \in 1 .. 6 : StatusNode[i] = "controller_heartbeat" => i = 6
    /\ \A n \in Nodes(StatusNode) : \E i \in 1 .. 6 : n = StatusNode[i]
    /\ \A i \in 1 .. 6 : StatusNode[i] \in Nodes(StatusNode)
  BY DEF StatusNode, Nodes

(* The command has fewer nodes than the status.                             *)
LEMMA CommandNodes ==
    /\ Len(CommandNode) = 5
    /\ DOMAIN CommandNode = 1 .. 5
    /\ \A i \in 1 .. 5 : CommandNode[i] \in Nodes(CommandNode)
  BY DEF CommandNode, Nodes

(* The initial state: nothing was given and nothing was written.            *)
LEMMA InitIInv == Init => IInv
<1> SUFFICES ASSUME Init PROVE IInv
  OBVIOUS
<1>1. 0 \in Version
  BY MaxVersionAssumption DEF Version
<1>2. Blank \in Command
  BY <1>1 DEF Blank, Command
<1>3. /\ plc_status \in [Nodes(StatusNode) -> Version]
      /\ \A n \in Nodes(StatusNode) : plc_status[n] = 0
  BY <1>1 DEF Init
<1>4. HeartbeatCommits
  BY <1>3, StatusNodes DEF HeartbeatCommits
<1>5. next \in 1 .. Len(StatusNode) /\ command \in Command
  BY <1>2, StatusNodes DEF Init
<1>6. /\ client \in BOOLEAN
      /\ call \in {"none", "read", "write"}
      /\ plc_command \in Version /\ began \in Version /\ status \in Version
      /\ received \in Command \cup {NoCommand}
  BY <1>1 DEF Init
<1>7. TypeOK
  BY <1>3, <1>5, <1>6 DEF TypeOK
<1>8. status = 0 /\ call = "none"
  BY DEF Init
<1>9. QED BY <1>3, <1>4, <1>7, <1>8 DEF IInv

(* Writing the next node, and whether or not the call goes on after it,     *)
(* keeps what the invariant says of the nodes.                              *)
LEMMA WrittenNode ==
    ASSUME IInv, call = "write",
           plc_status' = [plc_status EXCEPT ![StatusNode[next]] = status]
    PROVE  /\ plc_status' \in [Nodes(StatusNode) -> Version]
           /\ \A n \in Nodes(StatusNode) : plc_status'[n] <= status
           /\ \A i \in 1 .. 6 : i <= next => plc_status'[StatusNode[i]] = status
           /\ HeartbeatCommits'
<1>1. /\ next \in 1 .. 6 /\ status \in Version
      /\ plc_status \in [Nodes(StatusNode) -> Version]
  BY StatusNodes DEF IInv, TypeOK
<1>2. StatusNode[next] \in Nodes(StatusNode)
  BY <1>1, StatusNodes
<1>3. \A n \in Nodes(StatusNode) :
          plc_status'[n] = IF n = StatusNode[next] THEN status ELSE plc_status[n]
  BY <1>1, <1>2
<1>4. \A n \in Nodes(StatusNode) : plc_status[n] \in Nat /\ status \in Nat
  BY <1>1, MaxVersionAssumption DEF Version
<1>5. \A n \in Nodes(StatusNode) : plc_status'[n] <= status
  BY <1>3, <1>4 DEF IInv
<1>6. \A i \in 1 .. 6 : i <= next => plc_status'[StatusNode[i]] = status
  BY <1>1, <1>3, StatusNodes DEF IInv
<1>7. HeartbeatCommits'
  <2>1. CASE next = 6
    BY <2>1, <1>4, <1>6, StatusNodes DEF HeartbeatCommits
  <2>2. CASE next # 6
    <3>1. plc_status'["controller_heartbeat"] = plc_status["controller_heartbeat"]
      BY <2>2, <1>1, <1>3, StatusNodes
    <3>2. QED BY <3>1, <1>3, <1>4, StatusNodes DEF IInv, HeartbeatCommits
  <2>3. QED BY <2>1, <2>2
<1>8. QED BY <1>1, <1>2, <1>5, <1>6, <1>7

(* Every step keeps the invariant: one case per action. *)
LEMMA NextIInv == IInv /\ [Next]_vars => IInv'
<1> SUFFICES ASSUME IInv, [Next]_vars PROVE IInv'
  OBVIOUS
<1>1. ASSUME PlcCycle PROVE IInv'
  BY <1>1, StatusNodes, MaxVersionAssumption
  DEF PlcCycle, IInv, TypeOK, HeartbeatCommits, Version
<1>2. ASSUME NEW ok \in BOOLEAN, Connect(ok) PROVE IInv'
  BY <1>2, StatusNodes DEF Connect, IInv, TypeOK, HeartbeatCommits
<1>3. ASSUME Disconnect PROVE IInv'
  BY <1>3, StatusNodes DEF Disconnect, IInv, TypeOK, HeartbeatCommits
<1>4. ASSUME BeginRead PROVE IInv'
  BY <1>4, StatusNodes, CommandNodes, MaxVersionAssumption
  DEF BeginRead, IInv, TypeOK, HeartbeatCommits, Command, Blank, Version
<1>5. ASSUME ReadNode PROVE IInv'
  <2>1. /\ next \in 1 .. 5 /\ plc_command \in Version /\ command \in Command
        /\ received \in Command \cup {NoCommand}
    BY <1>5, StatusNodes, CommandNodes DEF ReadNode, IInv, TypeOK
  <2>2. command' \in Command
    BY <1>5, <2>1 DEF ReadNode, Command
  <2>3. CASE next = 5
    <3>1. call' = "none" /\ next' = 1 /\ received' = command'
      BY <1>5, <2>3, CommandNodes DEF ReadNode
    <3>2. QED
      BY <1>5, <2>2, <3>1, StatusNodes DEF ReadNode, IInv, TypeOK, HeartbeatCommits
  <2>4. CASE next # 5
    <3>1. call' = "read" /\ next' = next + 1 /\ received' = received
      BY <1>5, <2>4, CommandNodes DEF ReadNode
    <3>2. next' \in 1 .. 5
      BY <2>1, <2>4, <3>1
    <3>3. QED
      BY <1>5, <2>2, <3>1, <3>2, StatusNodes, CommandNodes
      DEF ReadNode, IInv, TypeOK, HeartbeatCommits
  <2>5. QED BY <2>3, <2>4
<1>6. ASSUME ReadNodeFails PROVE IInv'
  BY <1>6, StatusNodes DEF ReadNodeFails, IInv, TypeOK, HeartbeatCommits
<1>7. ASSUME BeginWrite PROVE IInv'
  <2>1. status \in Nat /\ status' \in Version /\ status <= status'
    BY <1>7, MaxVersionAssumption DEF BeginWrite, IInv, TypeOK, Version
  <2>2. \A n \in Nodes(StatusNode) : plc_status[n] \in Nat /\ status' \in Nat
    BY <2>1, MaxVersionAssumption DEF IInv, TypeOK, Version
  <2>3. \A n \in Nodes(StatusNode) : plc_status[n] <= status'
    BY <2>1, <2>2 DEF IInv
  <2>4. QED
    BY <1>7, <2>1, <2>3, StatusNodes DEF BeginWrite, IInv, TypeOK, HeartbeatCommits
<1>8. ASSUME WriteNode PROVE IInv'
  <2>1. /\ plc_status' \in [Nodes(StatusNode) -> Version]
        /\ \A n \in Nodes(StatusNode) : plc_status'[n] <= status
        /\ \A i \in 1 .. 6 : i <= next => plc_status'[StatusNode[i]] = status
        /\ HeartbeatCommits'
    BY <1>8, WrittenNode DEF WriteNode
  <2>2. next \in 1 .. 6 BY StatusNodes DEF IInv, TypeOK
  <2>3. next' \in 1 .. 6 /\ call' \in {"none", "write"}
        /\ (call' = "write" => next' = next + 1)
    BY <1>8, <2>2, StatusNodes DEF WriteNode
  <2>4. call' = "write" =>
          \A i \in 1 .. 6 : i < next' => plc_status'[StatusNode[i]] = status
    BY <2>1, <2>2, <2>3
  <2>5. TypeOK'
    BY <1>8, <2>1, <2>3, StatusNodes DEF WriteNode, IInv, TypeOK
  <2>6. QED BY <1>8, <2>1, <2>4, <2>5, StatusNodes DEF WriteNode, IInv
<1>9. ASSUME WriteNodeFails PROVE IInv'
  <2>1. CASE plc_status' = plc_status
    BY <1>9, <2>1, StatusNodes DEF WriteNodeFails, IInv, TypeOK, HeartbeatCommits
  <2>2. CASE plc_status' = [plc_status EXCEPT ![StatusNode[next]] = status]
    <3>1. /\ plc_status' \in [Nodes(StatusNode) -> Version]
          /\ \A n \in Nodes(StatusNode) : plc_status'[n] <= status
          /\ HeartbeatCommits'
      BY <1>9, <2>2, WrittenNode DEF WriteNodeFails
    <3>2. QED BY <1>9, <3>1 DEF WriteNodeFails, IInv, TypeOK
  <2>3. QED BY <1>9, <2>1, <2>2 DEF WriteNodeFails
<1>10. CASE UNCHANGED vars
  BY <1>10 DEF vars, IInv, TypeOK, HeartbeatCommits
<1>11. QED
  BY <1>1, <1>2, <1>3, <1>4, <1>5, <1>6, <1>7, <1>8, <1>9, <1>10 DEF Next

(* The invariant holds in every behaviour. *)
THEOREM Invariance == Spec => []IInv
  BY InitIInv, NextIInv, PTL DEF Spec

(* The variables of the adapter keep their types. *)
THEOREM TypeCorrect == Spec => []TypeOK
<1>1. IInv => TypeOK BY DEF IInv
<1>2. QED BY <1>1, Invariance, PTL

(* Whichever heartbeat the PLC finds, at any time and after any failures,   *)
(* the other nodes are at least as new.                                     *)
THEOREM HeartbeatIsLast == Spec => []HeartbeatCommits
<1>1. IInv => HeartbeatCommits BY DEF IInv
<1>2. QED BY <1>1, Invariance, PTL

-----------------------------------------------------------------------------
(* What the nodes of a read have in common: they are read in their order    *)
(* from a PLC that only goes on, since the read began.                      *)
ReadSoFar ==
    \A i \in 1 .. 5 : i < next =>
        /\ began <= command[CommandNode[i]]
        /\ command[CommandNode[i]] <= plc_command
        /\ \A j \in 1 .. i : command[CommandNode[j]] <= command[CommandNode[i]]

(* The heartbeat of the command before is not newer than the read.          *)
NotAhead(limit) ==
    received # NoCommand => received["plc_heartbeat"] <= limit

ReadInv ==
    /\ began <= plc_command
    /\ NotAhead(plc_command)
    /\ call = "read" => ReadSoFar /\ NotAhead(began)

(* The places of the command nodes, the heartbeat in the last one.          *)
LEMMA CommandPlaces ==
    /\ CommandNode[1] = "control_word"
    /\ CommandNode[5] = "plc_heartbeat"
    /\ "plc_heartbeat" \in Nodes(CommandNode)
    /\ \A n \in Nodes(CommandNode) : \E i \in 1 .. 5 : n = CommandNode[i]
    /\ \A i, j \in 1 .. 5 : CommandNode[i] = CommandNode[j] => i = j
  BY DEF CommandNode, Nodes

(* One more node is at least as new as those before it.                     *)
LEMMA NodeRead ==
    ASSUME IInv, ReadInv, ReadNode
    PROVE  \A i \in 1 .. 5 : i <= next =>
             /\ began <= command'[CommandNode[i]]
             /\ command'[CommandNode[i]] <= plc_command
             /\ \A j \in 1 .. i : command'[CommandNode[j]] <= command'[CommandNode[i]]
<1>1. /\ call = "read" /\ next \in 1 .. 5 /\ command \in Command
      /\ began \in Nat /\ plc_command \in Nat /\ began <= plc_command
  BY StatusNodes, CommandNodes, MaxVersionAssumption
  DEF ReadNode, IInv, TypeOK, ReadInv, Version
<1>2. \A i \in 1 .. 5 : command'[CommandNode[i]] =
          IF i = next THEN plc_command ELSE command[CommandNode[i]]
  BY <1>1, CommandNodes, CommandPlaces DEF ReadNode, Command
<1>3. \A i \in 1 .. 5 : command[CommandNode[i]] \in Nat
  BY <1>1, CommandNodes, MaxVersionAssumption DEF Command, Version
<1>4. ReadSoFar
  BY <1>1 DEF ReadInv
<1> SUFFICES ASSUME NEW i \in 1 .. 5, i <= next
             PROVE  /\ began <= command'[CommandNode[i]]
                    /\ command'[CommandNode[i]] <= plc_command
                    /\ \A j \in 1 .. i :
                         command'[CommandNode[j]] <= command'[CommandNode[i]]
  OBVIOUS
<1>5. CASE i = next
  <2>1. command'[CommandNode[i]] = plc_command
    BY <1>2, <1>5
  <2>2. \A j \in 1 .. i : command'[CommandNode[j]] <= plc_command
    BY <1>1, <1>2, <1>4, <1>5 DEF ReadSoFar
  <2>3. QED BY <1>1, <2>1, <2>2
<1>6. CASE i # next
  <2>1. i < next BY <1>1, <1>6
  <2>2. \A j \in 1 .. i : command'[CommandNode[j]] = command[CommandNode[j]]
    BY <1>1, <1>2, <2>1
  <2>3. QED BY <1>4, <2>1, <2>2 DEF ReadSoFar
<1>7. QED BY <1>5, <1>6

(* The initial state: nothing was read.                                     *)
LEMMA InitReadInv == Init => ReadInv
  BY DEF Init, ReadInv, NotAhead

(* Every step keeps the invariant: one case per action that touches the     *)
(* command or the PLC's block.                                              *)
LEMMA NextReadInv == IInv /\ ReadInv /\ [Next]_vars => ReadInv'
<1> SUFFICES ASSUME IInv, ReadInv, [Next]_vars PROVE ReadInv'
  OBVIOUS
<1>1. /\ plc_command \in Nat /\ began \in Nat /\ next \in Nat
      /\ command \in Command
      /\ \A i \in 1 .. 5 : command[CommandNode[i]] \in Nat
      /\ received # NoCommand => received["plc_heartbeat"] \in Nat
  BY CommandNodes, CommandPlaces, MaxVersionAssumption, StatusNodes
  DEF IInv, TypeOK, Command, Version
<1>2. ASSUME PlcCycle PROVE ReadInv'
  <2>1. began' <= plc_command' /\ NotAhead(plc_command)'
    BY <1>1, <1>2 DEF PlcCycle, ReadInv, NotAhead
  <2>2. ReadSoFar => ReadSoFar'
    BY <1>1, <1>2 DEF PlcCycle, ReadSoFar
  <2>3. NotAhead(began) => NotAhead(began)'
    BY <1>2 DEF PlcCycle, NotAhead
  <2>4. QED BY <1>2, <2>1, <2>2, <2>3 DEF PlcCycle, ReadInv
<1>3. ASSUME BeginRead PROVE ReadInv'
  <2>1. began' = plc_command /\ plc_command' = plc_command /\ next' = 1
        /\ received' = received
    BY <1>3 DEF BeginRead
  <2>2. NotAhead(plc_command)' /\ NotAhead(began)'
    BY <2>1 DEF ReadInv, NotAhead
  <2>3. ReadSoFar'
    BY <2>1 DEF ReadSoFar
  <2>4. QED BY <1>1, <2>1, <2>2, <2>3 DEF ReadInv
<1>4. ASSUME ReadNode PROVE ReadInv'
  <2>1. /\ plc_command' = plc_command /\ began' = began /\ call = "read"
        /\ next \in 1 .. 5
    BY <1>4, CommandNodes, StatusNodes DEF ReadNode, IInv, TypeOK
  <2>2. CASE next = 5
    <3>1. call' = "none" /\ received' = command'
      BY <1>4, <2>2, CommandNodes DEF ReadNode
    <3>2. received'["plc_heartbeat"] <= plc_command
      BY <1>4, <2>2, <3>1, NodeRead, CommandPlaces
    <3>3. QED BY <2>1, <3>1, <3>2 DEF ReadInv, NotAhead
  <2>3. CASE next # 5
    <3>1. call' = "read" /\ next' = next + 1 /\ received' = received
      BY <1>4, <2>1, <2>3, CommandNodes DEF ReadNode
    <3>2. NotAhead(plc_command)' /\ NotAhead(began)'
      BY <2>1, <3>1 DEF ReadInv, NotAhead
    <3>3. \A i \in 1 .. 5 : i < next' => i <= next
      BY <2>1, <3>1
    <3>4. ReadSoFar'
      BY <1>4, <2>1, <3>3, NodeRead DEF ReadSoFar
    <3>5. QED BY <2>1, <3>2, <3>4 DEF ReadInv
  <2>4. QED BY <2>2, <2>3
<1>5. ASSUME /\ UNCHANGED <<plc_command, began, command, received>>
             /\ call' = "read" => call = "read" /\ next' = next
      PROVE  ReadInv'
  BY <1>5 DEF ReadInv, ReadSoFar, NotAhead
<1>6. CASE \/ \E ok \in BOOLEAN : Connect(ok)
           \/ Disconnect
           \/ ReadNodeFails
           \/ BeginWrite
           \/ WriteNode
           \/ WriteNodeFails
           \/ UNCHANGED vars
  BY <1>5, <1>6
  DEF Connect, Disconnect, ReadNodeFails, BeginWrite, WriteNode, WriteNodeFails, vars
<1>7. QED BY <1>2, <1>3, <1>4, <1>6 DEF Next

(* The invariant of a read holds in every behaviour. *)
LEMMA ReadInvariance == Spec => []ReadInv
  BY InitReadInv, NextReadInv, Invariance, PTL DEF Spec

(* What a read returns: its nodes in their order, from the PLC of the call. *)
LEMMA ReturnedCommand ==
    ASSUME IInv, ReadInv, Returned
    PROVE  \A n \in Nodes(CommandNode) :
             /\ began <= received'[n]
             /\ received'["control_word"] <= received'[n]
             /\ received'[n] <= received'["plc_heartbeat"]
<1>1. ReadNode /\ next = 5 /\ received' = command'
  BY CommandNodes DEF Returned, ReadNode
<1>2. \A i \in 1 .. 5 :
        /\ began <= received'[CommandNode[i]]
        /\ \A j \in 1 .. i : received'[CommandNode[j]] <= received'[CommandNode[i]]
  BY <1>1, NodeRead
<1>3. \A i \in 1 .. 5 :
        /\ began <= received'[CommandNode[i]]
        /\ received'[CommandNode[1]] <= received'[CommandNode[i]]
        /\ received'[CommandNode[i]] <= received'[CommandNode[5]]
  BY <1>2
<1>4. QED BY <1>3, CommandPlaces

(* A torn command is torn forward: nothing in it is older than the call, no *)
(* start bit comes with an older target, nothing is newer than the          *)
(* heartbeat.                                                               *)
THEOREM TornReadsAreForward == Spec => TornForward
<1>1. IInv /\ ReadInv /\ [Next]_vars
        => [Returned =>
             \A n \in Nodes(CommandNode) :
                 /\ began <= received'[n]
                 /\ received'["control_word"] <= received'[n]
                 /\ received'[n] <= received'["plc_heartbeat"]]_vars
  BY ReturnedCommand
<1>2. QED BY <1>1, Invariance, ReadInvariance, PTL DEF Spec, TornForward

(* A command whose heartbeat was seen before is whole: a PLC that stands    *)
(* still is read as it is at the second read.                               *)
THEOREM RepeatsAreWhole == Spec => RepeatIsWhole
<1>1. IInv /\ ReadInv /\ [Next]_vars
        => [Returned /\ received # NoCommand
              /\ received'["plc_heartbeat"] = received["plc_heartbeat"]
              => \A n \in Nodes(CommandNode) :
                   received'[n] = received'["plc_heartbeat"]]_vars
  <2> SUFFICES ASSUME IInv, ReadInv, Returned, received # NoCommand,
                      received'["plc_heartbeat"] = received["plc_heartbeat"],
                      NEW n \in Nodes(CommandNode)
               PROVE  received'[n] = received'["plc_heartbeat"]
    OBVIOUS
  <2>1. began <= received'[n] /\ received'[n] <= received'["plc_heartbeat"]
    BY ReturnedCommand
  <2>2. received'["plc_heartbeat"] <= began
    BY DEF Returned, ReadNode, ReadInv, NotAhead
  <2>3. received'[n] \in Nat /\ began \in Nat /\ received'["plc_heartbeat"] \in Nat
    <3>1. received' \in Command /\ began \in Version
      BY StatusNodes, CommandNodes DEF Returned, ReadNode, IInv, TypeOK, Command
    <3>2. QED BY <3>1, CommandPlaces, MaxVersionAssumption DEF Command, Version
  <2>4. QED BY <2>1, <2>2, <2>3
<1>2. QED BY <1>1, Invariance, ReadInvariance, PTL DEF Spec, RepeatIsWhole

-----------------------------------------------------------------------------
(* The data block.  A byte is what is left of a number after a division by  *)
(* the base, and the division's result goes into the bytes before it.       *)
LEMMA LastByte ==
    ASSUME NEW n \in Nat
    PROVE  /\ n \div Base \in Nat /\ n % Base \in Nat
           /\ (n \div Base) * Base + (n % Base) = n
           /\ n < Base => n % Base = n
<1>1. Base \in Nat /\ Base > 1
  BY BaseAssumption
<1>2. n \div Base \in Nat /\ n % Base \in 0 .. Base - 1
  BY <1>1
<1>4. (n \div Base) * Base + (n % Base) = n
  BY <1>1
<1>3. n < Base => n % Base = n
  BY <1>1
<1>. QED
  BY <1>1, <1>2, <1>3, <1>4

(* One such division for each of a number's shifts.                         *)
LEMMA ShiftsDown ==
    ASSUME NEW n \in Nat
    PROVE  LET s == S7!Shifted(n)
           IN /\ \A i \in 1 .. 8 : s[i] \in Nat
              /\ s[1] = n
              /\ s[2] * Base + (s[1] % Base) = s[1] /\ s[3] * Base + (s[2] % Base) = s[2]
              /\ s[4] * Base + (s[3] % Base) = s[3] /\ s[5] * Base + (s[4] % Base) = s[4]
              /\ s[6] * Base + (s[5] % Base) = s[5] /\ s[7] * Base + (s[6] % Base) = s[6]
              /\ s[8] * Base + (s[7] % Base) = s[7]
<1> DEFINE s1 == n \div Base
           s2 == s1 \div Base
           s3 == s2 \div Base
           s4 == s3 \div Base
           s5 == s4 \div Base
           s6 == s5 \div Base
           s7 == s6 \div Base
<1>1. s1 \in Nat
  BY LastByte
<1> HIDE DEF s1
<1>2. s2 \in Nat
  BY <1>1, LastByte
<1> HIDE DEF s2
<1>3. s3 \in Nat
  BY <1>2, LastByte
<1> HIDE DEF s3
<1>4. s4 \in Nat
  BY <1>3, LastByte
<1> HIDE DEF s4
<1>5. s5 \in Nat
  BY <1>4, LastByte
<1> HIDE DEF s5
<1>6. s6 \in Nat
  BY <1>5, LastByte
<1> HIDE DEF s6
<1>7. s7 \in Nat
  BY <1>6, LastByte
<1> HIDE DEF s7
<1>8. S7!Shifted(n) = <<n, s1, s2, s3, s4, s5, s6, s7>>
  BY DEF S7!Shifted, s1, s2, s3, s4, s5, s6, s7
<1>9. \A i \in 1 .. 8 : i \in {1, 2, 3, 4, 5, 6, 7, 8}
  OBVIOUS
<1>10. /\ s1 * Base + (n % Base) = n /\ s2 * Base + (s1 % Base) = s1
       /\ s3 * Base + (s2 % Base) = s2 /\ s4 * Base + (s3 % Base) = s3
       /\ s5 * Base + (s4 % Base) = s4 /\ s6 * Base + (s5 % Base) = s5
       /\ s7 * Base + (s6 % Base) = s6
  BY <1>1, <1>2, <1>3, <1>4, <1>5, <1>6, LastByte DEF s1, s2, s3, s4, s5, s6, s7
<1>11. /\ S7!Shifted(n)[1] = n /\ S7!Shifted(n)[2] = s1 /\ S7!Shifted(n)[3] = s2
       /\ S7!Shifted(n)[4] = s3 /\ S7!Shifted(n)[5] = s4 /\ S7!Shifted(n)[6] = s5
       /\ S7!Shifted(n)[7] = s6 /\ S7!Shifted(n)[8] = s7
  BY <1>8
<1>12. \A i \in 1 .. 8 : S7!Shifted(n)[i] \in Nat
  BY <1>1, <1>2, <1>3, <1>4, <1>5, <1>6, <1>7, <1>9, <1>11
<1>. QED
  BY <1>10, <1>11, <1>12

(* A number that fits in its bytes is read back from where its bytes lie.   *)
LEMMA ReadsBack ==
    ASSUME NEW bytes, NEW offset \in Nat, NEW width \in {2, 4, 8}, NEW n \in Nat,
           S7!Shifted(n)[width] < Base,
           \A i \in 0 .. width - 1 : bytes[offset + i] = S7!ByteOf(n, width, i)
    PROVE  S7!ReadNumber(bytes, offset, width) = n
<1> DEFINE s == S7!Shifted(n)
<1>1. (\A i \in 1 .. 8 : s[i] \in Nat) /\ s[1] = n
  BY ShiftsDown
<1>2. \A i \in 0 .. width - 1 : bytes[offset + i] = s[width - i] % Base
  BY DEF S7!ByteOf
<1>3. /\ s[2] * Base + (s[1] % Base) = s[1] /\ s[3] * Base + (s[2] % Base) = s[2]
      /\ s[4] * Base + (s[3] % Base) = s[3] /\ s[5] * Base + (s[4] % Base) = s[4]
      /\ s[6] * Base + (s[5] % Base) = s[5] /\ s[7] * Base + (s[6] % Base) = s[6]
      /\ s[8] * Base + (s[7] % Base) = s[7]
  BY ShiftsDown
<1>4. s[width] % Base = s[width]
  BY <1>1, LastByte
<1> HIDE DEF s
<1>5. offset + 0 = offset
  OBVIOUS
<1>6. CASE width = 2
  <2>1. bytes[offset] = s[2] /\ bytes[offset + 1] = s[1] % Base
    BY <1>2, <1>4, <1>5, <1>6
  <2>2. S7!ReadU16(bytes, offset) = n
    <3>1. S7!ReadU16(bytes, offset) = s[2] * Base + (s[1] % Base)
      BY <2>1 DEF S7!ReadU16
    <3>. QED
      BY <1>1, <1>3, <3>1
  <2>. QED
    BY <1>6, <2>2 DEF S7!ReadNumber
<1>7. CASE width = 4
  <2>1. /\ bytes[offset] = s[4] /\ bytes[offset + 1] = s[3] % Base
        /\ bytes[offset + 2] = s[2] % Base /\ bytes[offset + 3] = s[1] % Base
    BY <1>2, <1>4, <1>5, <1>7
  <2>2. S7!ReadU16(bytes, offset) = s[3]
    <3>1. S7!ReadU16(bytes, offset) = s[4] * Base + (s[3] % Base)
      BY <2>1 DEF S7!ReadU16
    <3>. QED
      BY <1>3, <3>1
  <2>3. S7!ReadU32(bytes, offset) = n
    <3>1. S7!ReadU32(bytes, offset) = (s[3] * Base + (s[2] % Base)) * Base + (s[1] % Base)
      BY <2>1, <2>2 DEF S7!ReadU32
    <3>. QED
      BY <1>1, <1>3, <3>1
  <2>. QED
    BY <1>7, <2>3 DEF S7!ReadNumber
<1>8. CASE width = 8
  <2>1. /\ bytes[offset] = s[8] /\ bytes[offset + 1] = s[7] % Base
        /\ bytes[offset + 2] = s[6] % Base /\ bytes[offset + 3] = s[5] % Base
        /\ bytes[offset + 4] = s[4] % Base /\ bytes[offset + 5] = s[3] % Base
        /\ bytes[offset + 6] = s[2] % Base /\ bytes[offset + 7] = s[1] % Base
    BY <1>2, <1>4, <1>5, <1>8
  <2>2. S7!ReadU16(bytes, offset) = s[7]
    <3>1. S7!ReadU16(bytes, offset) = s[8] * Base + (s[7] % Base)
      BY <2>1 DEF S7!ReadU16
    <3>. QED
      BY <1>3, <3>1
  <2>3. S7!ReadU32(bytes, offset) = s[5]
    <3>1. S7!ReadU32(bytes, offset) = (s[7] * Base + (s[6] % Base)) * Base + (s[5] % Base)
      BY <2>1, <2>2 DEF S7!ReadU32
    <3>. QED
      BY <1>3, <3>1
  <2>4. S7!ReadF64(bytes, offset) = n
    <3>1. S7!ReadF64(bytes, offset)
            = (((s[5] * Base + (s[4] % Base)) * Base
                + (s[3] % Base)) * Base + (s[2] % Base)) * Base + (s[1] % Base)
      BY <2>1, <2>3 DEF S7!ReadF64
    <3>. QED
      BY <1>1, <1>3, <3>1
  <2>. QED
    BY <1>8, <2>4 DEF S7!ReadNumber
<1>. QED
  BY <1>6, <1>7, <1>8

(* The fields of a command and of a status.                                 *)
CommandField ==
    {"control_word", "target_position_rad", "max_velocity_rad_s",
     "max_acceleration_rad_s2", "heartbeat"}

StatusField ==
    {"status_word", "actual_position_rad", "actual_velocity_rad_s",
     "following_error_rad", "fault_code", "controller_heartbeat"}

Offset(f) == S7!PlcVariable[f].offset
Width(f) == S7!PlcVariable[f].width

(* The PLC's variable holds a number, byte by byte.                         *)
Holds(block, f, n) ==
    \A i \in S7!Places(f) : block[i] = S7!ByteOf(n, Width(f), i - Offset(f))

(* The README's table of the PLC's variables.                               *)
LEMMA Variables ==
    /\ Offset("control_word") = 0 /\ Width("control_word") = 2
    /\ Offset("target_position_rad") = 2 /\ Width("target_position_rad") = 8
    /\ Offset("max_velocity_rad_s") = 10 /\ Width("max_velocity_rad_s") = 8
    /\ Offset("max_acceleration_rad_s2") = 18 /\ Width("max_acceleration_rad_s2") = 8
    /\ Offset("heartbeat") = 26 /\ Width("heartbeat") = 4
    /\ Offset("status_word") = 30 /\ Width("status_word") = 2
    /\ Offset("actual_position_rad") = 32 /\ Width("actual_position_rad") = 8
    /\ Offset("actual_velocity_rad_s") = 40 /\ Width("actual_velocity_rad_s") = 8
    /\ Offset("following_error_rad") = 48 /\ Width("following_error_rad") = 8
    /\ Offset("fault_code") = 56 /\ Width("fault_code") = 2
    /\ Offset("controller_heartbeat") = 58 /\ Width("controller_heartbeat") = 4
  BY DEF S7!PlcVariable, S7!Field, Offset, Width

(* Every variable is of one of the three widths, and in one piece.          *)
LEMMA Widths ==
    \A f \in CommandField \cup StatusField :
        /\ Offset(f) \in Nat /\ Width(f) \in {2, 4, 8}
        /\ S7!Places(f) = Offset(f) .. Offset(f) + Width(f) - 1
<1>1. \A f : S7!Places(f) = Offset(f) .. Offset(f) + Width(f) - 1
  BY DEF S7!Places, Offset, Width
<1>. QED
  BY <1>1, Variables DEF CommandField, StatusField

(* No two variables of one side share a byte, nor do the two sides.         *)
LEMMA PlacesApart ==
    /\ \A f \in CommandField : S7!Places(f) \subseteq 0 .. 29
    /\ \A f \in StatusField : S7!Places(f) \subseteq 30 .. 61
    /\ \A f, g \in CommandField : \A i : i \in S7!Places(f) /\ i \in S7!Places(g) => f = g
    /\ \A f, g \in StatusField : \A i : i \in S7!Places(f) /\ i \in S7!Places(g) => f = g
<1>1. ASSUME NEW f \in CommandField, NEW i \in S7!Places(f) PROVE i \in 0 .. 29
  <2>1. i \in Offset(f) .. Offset(f) + Width(f) - 1
    BY <1>1, Widths
  <2>. QED
    BY <1>1, <2>1, Variables DEF CommandField
<1>2. ASSUME NEW f \in StatusField, NEW i \in S7!Places(f) PROVE i \in 30 .. 61
  <2>1. i \in Offset(f) .. Offset(f) + Width(f) - 1
    BY <1>2, Widths
  <2>. QED
    BY <1>2, <2>1, Variables DEF StatusField
<1>3. ASSUME NEW f \in CommandField, NEW g \in CommandField, f # g,
             NEW i, i \in S7!Places(f), i \in S7!Places(g)
      PROVE  FALSE
  <2>1. /\ i \in Offset(f) .. Offset(f) + Width(f) - 1
        /\ i \in Offset(g) .. Offset(g) + Width(g) - 1
    BY <1>3, Widths
  <2>. QED
    BY <1>3, <2>1, Variables DEF CommandField
<1>4. ASSUME NEW f \in StatusField, NEW g \in StatusField, f # g,
             NEW i, i \in S7!Places(f), i \in S7!Places(g)
      PROVE  FALSE
  <2>1. /\ i \in Offset(f) .. Offset(f) + Width(f) - 1
        /\ i \in Offset(g) .. Offset(g) + Width(g) - 1
    BY <1>4, Widths
  <2>. QED
    BY <1>4, <2>1, Variables DEF StatusField
<1>. QED
  BY <1>1, <1>2, <1>3, <1>4

(* What a variable holds is what is read from it.                           *)
LEMMA HeldIsRead ==
    ASSUME NEW block, NEW f \in CommandField \cup StatusField, NEW n \in Nat,
           S7!Shifted(n)[Width(f)] < Base, Holds(block, f, n)
    PROVE  S7!ReadNumber(block, Offset(f), Width(f)) = n
<1>1. Offset(f) \in Nat /\ Width(f) \in {2, 4, 8}
  BY Widths
<1>2. ASSUME NEW i \in 0 .. Width(f) - 1
      PROVE  block[Offset(f) + i] = S7!ByteOf(n, Width(f), i)
  <2>1. Offset(f) + i \in S7!Places(f)
    BY <1>1, <1>2, Widths
  <2>2. (Offset(f) + i) - Offset(f) = i
    BY <1>1, <1>2
  <2>. QED
    BY <2>1, <2>2 DEF Holds
<1>. QED
  BY <1>1, <1>2, ReadsBack

(* The fields of a command, each of which fits its variable.                *)
LEMMA CommandFits ==
    ASSUME NEW c \in PlcCommandData
    PROVE  /\ DOMAIN c = CommandField
           /\ c = [f \in CommandField |-> c[f]]
           /\ \A f \in CommandField :
                  c[f] \in Nat /\ S7!Shifted(c[f])[Width(f)] < Base
<1>1. \A n : S7!Shifted(n) = Shifted(n)
  BY DEF S7!Shifted, Shifted
<1>2. /\ c.control_word \in U16 /\ c.target_position_rad \in F64
      /\ c.max_velocity_rad_s \in F64 /\ c.max_acceleration_rad_s2 \in F64
      /\ c.heartbeat \in U32
  BY DEF PlcCommandData
<1>3. DOMAIN c = CommandField /\ c = [f \in CommandField |-> c[f]]
  BY DEF PlcCommandData, CommandField
<1>4. ASSUME NEW f \in CommandField
      PROVE  c[f] \in Nat /\ S7!Shifted(c[f])[Width(f)] < Base
  <2>1. c[f] \in Nat /\ Shifted(c[f])[Width(f)] < Base
    BY <1>2, <1>4, Variables DEF U16, U32, F64, CommandField
  <2>. QED
    BY <1>1, <2>1
<1>. QED
  BY <1>3, <1>4

(* The same of a status.                                                    *)
LEMMA StatusFits ==
    ASSUME NEW s \in PlcStatusData
    PROVE  /\ DOMAIN s = StatusField
           /\ \A f \in StatusField :
                  s[f] \in Nat /\ S7!Shifted(s[f])[Width(f)] < Base
<1>1. \A n : S7!Shifted(n) = Shifted(n)
  BY DEF S7!Shifted, Shifted
<1>2. /\ s.status_word \in U16 /\ s.actual_position_rad \in F64
      /\ s.actual_velocity_rad_s \in F64 /\ s.following_error_rad \in F64
      /\ s.fault_code \in U16 /\ s.controller_heartbeat \in U32
  BY DEF PlcStatusData
<1>3. DOMAIN s = StatusField
  BY DEF PlcStatusData, StatusField
<1>4. ASSUME NEW f \in StatusField
      PROVE  s[f] \in Nat /\ S7!Shifted(s[f])[Width(f)] < Base
  <2>1. s[f] \in Nat /\ Shifted(s[f])[Width(f)] < Base
    BY <1>2, <1>4, Variables DEF U16, U32, F64, StatusField
  <2>. QED
    BY <1>1, <2>1
<1>. QED
  BY <1>3, <1>4

(* The PLC program's cycle puts its command in, and touches no status.      *)
LEMMA CommandPut ==
    ASSUME NEW block, DOMAIN block = 0 .. 61, NEW c \in PlcCommandData
    PROVE  /\ DOMAIN S7!WithCommand(block, c) = 0 .. 61
           /\ \A f \in CommandField : Holds(S7!WithCommand(block, c), f, c[f])
           /\ \A i \in 30 .. 61 : S7!WithCommand(block, c)[i] = block[i]
<1> DEFINE result == S7!WithCommand(block, c)
<1>1. DOMAIN c = CommandField
  BY CommandFits
<1>2. DOMAIN result = 0 .. 61
  BY DEF S7!WithCommand
<1>3. ASSUME NEW f \in CommandField, NEW i \in S7!Places(f)
      PROVE  result[i] = S7!ByteOf(c[f], Width(f), i - Offset(f))
  <2> DEFINE g == CHOOSE g \in DOMAIN c : i \in S7!Places(g)
  <2>1. i \in 0 .. 61
    BY <1>3, PlacesApart
  <2>2. \E h \in DOMAIN c : i \in S7!Places(h)
    BY <1>1, <1>3
  <2>3. g \in CommandField /\ i \in S7!Places(g)
    BY <1>1, <2>2
  <2>4. g = f
    BY <1>3, <2>3, PlacesApart
  <2>5. result[i] = S7!ByteOf(c[g], S7!PlcVariable[g].width,
                              i - S7!PlcVariable[g].offset)
    BY <2>1, <2>2 DEF S7!WithCommand
  <2>. QED
    BY <2>4, <2>5 DEF Offset, Width
<1>4. ASSUME NEW i \in 30 .. 61 PROVE result[i] = block[i]
  <2>1. ~ \E h \in DOMAIN c : i \in S7!Places(h)
    BY <1>1, PlacesApart
  <2>2. i \in 0 .. 61
    OBVIOUS
  <2>. QED
    BY <2>1, <2>2 DEF S7!WithCommand
<1>. QED
  BY <1>2, <1>3, <1>4 DEF Holds

(* The byte of a field, 30 places before its place in the block.            *)
LEMMA StatusEncoded ==
    ASSUME NEW s, NEW j \in 0 .. 31, NEW f \in StatusField, j + 30 \in S7!Places(f)
    PROVE  S7!EncodeStatus(s)[j] = S7!ByteOf(s[f], Width(f), (j + 30) - Offset(f))
<1> DEFINE In(h) == j - S7!StatusFields[h].offset \in 0 .. S7!StatusFields[h].width - 1
<1>1. S7!status_size = 32 /\ DOMAIN S7!StatusFields = StatusField
  BY DEF S7!status_size, S7!StatusFields, StatusField
<1>2. ASSUME NEW h \in StatusField
      PROVE  /\ S7!StatusFields[h].offset = Offset(h) - 30
             /\ S7!StatusFields[h].width = Width(h)
  BY <1>2, Variables DEF S7!StatusFields, S7!Field, StatusField
<1>3. ASSUME NEW h \in StatusField
      PROVE  /\ j - S7!StatusFields[h].offset = (j + 30) - Offset(h)
             /\ In(h) <=> j + 30 \in S7!Places(h)
  <2>1. /\ Offset(h) \in Nat /\ Width(h) \in Nat
        /\ S7!Places(h) = Offset(h) .. Offset(h) + Width(h) - 1
    BY <1>3, Widths
  <2>2. j - (Offset(h) - 30) = (j + 30) - Offset(h)
    BY <2>1
  <2>3. (j + 30) - Offset(h) \in 0 .. Width(h) - 1
          <=> j + 30 \in Offset(h) .. Offset(h) + Width(h) - 1
    BY <2>1
  <2>. QED
    BY <1>2, <1>3, <2>1, <2>2, <2>3
<1>4. \A h \in DOMAIN S7!StatusFields : In(h) <=> h = f
  BY <1>1, <1>3, PlacesApart
<1>5. j \in 0 .. S7!status_size - 1
  BY <1>1
<1>6. (CHOOSE h \in DOMAIN S7!StatusFields : In(h)) = f
  BY <1>1, <1>4
<1>7. S7!EncodeStatus(s)[j] = S7!ByteOf(s[f], S7!StatusFields[f].width,
                                        j - S7!StatusFields[f].offset)
  BY <1>5, <1>6 DEF S7!EncodeStatus
<1>. QED
  BY <1>2, <1>3, <1>7

(* A write puts the status in, and touches no command.                      *)
LEMMA StatusPut ==
    ASSUME DOMAIN db = 0 .. 61, NEW s \in PlcStatusData
    PROVE  /\ DOMAIN S7!WithStatus(s) = 0 .. 61
           /\ \A f \in StatusField : Holds(S7!WithStatus(s), f, s[f])
           /\ \A i \in 0 .. 29 : S7!WithStatus(s)[i] = db[i]
<1> DEFINE result == S7!WithStatus(s)
<1>1. S7!status_offset = 30 /\ S7!status_size = 32
  BY DEF S7!status_offset, S7!status_size
<1>2. DOMAIN result = 0 .. 61
  BY DEF S7!WithStatus
<1>3. ASSUME NEW f \in StatusField, NEW i \in S7!Places(f)
      PROVE  result[i] = S7!ByteOf(s[f], Width(f), i - Offset(f))
  <2>1. i \in 30 .. 61 /\ i - 30 \in 0 .. 31
    BY <1>3, PlacesApart
  <2>2. result[i] = S7!EncodeStatus(s)[i - 30]
    BY <1>1, <2>1 DEF S7!WithStatus
  <2>3. (i - 30) + 30 = i
    BY <2>1
  <2>. QED
    BY <1>3, <2>1, <2>2, <2>3, StatusEncoded
<1>4. ASSUME NEW i \in 0 .. 29 PROVE result[i] = db[i]
  BY <1>1, <1>4 DEF S7!WithStatus
<1>. QED
  BY <1>2, <1>3, <1>4 DEF Holds

-----------------------------------------------------------------------------
(* The data block holds the PLC's command, and a status that was written.   *)
Commanded(block, c) == \A f \in CommandField : Holds(block, f, c[f])

Reported(block, s) ==
    s \in PlcStatusData /\ \A f \in StatusField : Holds(block, f, s[f])

(* The inductive invariant of the data block.                               *)
S7IInv ==
    /\ DOMAIN db = 0 .. 61
    /\ given \in PlcCommandData
    /\ Commanded(db, given)
    /\ \/ delivered = NoValue
       \/ \E s \in {delivered} \cup attempted : Reported(db, s)

(* Neither side's part of the block is changed with the other's.            *)
LEMMA PartsApart ==
    ASSUME NEW a, NEW b
    PROVE  /\ \A c : (\A i \in 0 .. 29 : b[i] = a[i]) /\ Commanded(a, c)
                         => Commanded(b, c)
           /\ \A s : (\A i \in 30 .. 61 : b[i] = a[i]) /\ Reported(a, s)
                         => Reported(b, s)
  BY PlacesApart DEF Commanded, Reported, Holds

(* The initial block: zeros, and the PLC's first command.                   *)
LEMMA InitS7IInv == S7!Init => S7IInv
<1> SUFFICES ASSUME S7!Init PROVE S7IInv
  OBVIOUS
<1> DEFINE zeros == [i \in 0 .. S7!total_size - 1 |-> 0]
<1>1. S7!total_size = 62
  BY DEF S7!total_size, S7!command_size, S7!status_size
<1>2. DOMAIN zeros = 0 .. 61
  BY <1>1
<1>3. given \in PlcCommandData /\ db = S7!WithCommand(zeros, given) /\ delivered = NoValue
  BY S7Assumption DEF S7!Init
<1> HIDE DEF zeros
<1>. QED
  BY <1>2, <1>3, CommandPut DEF S7IInv, Commanded

(* Every step: the PLC's cycle puts its command in, a write its status, and *)
(* a write that fails either as well or nothing.                            *)
LEMMA NextS7IInv == S7IInv /\ [AdaptersNext]_<<vars, s7_vars, linked>> => S7IInv'
<1> SUFFICES ASSUME S7IInv, [AdaptersNext]_<<vars, s7_vars, linked>> PROVE S7IInv'
  OBVIOUS
<1>1. CASE UNCHANGED s7_vars
  BY <1>1 DEF S7IInv, s7_vars
<1>2. ASSUME NEW c \in S7Command, S7!PlcCycle(c) PROVE S7IInv'
  <2>1. /\ c \in PlcCommandData /\ given' = c
        /\ db' = S7!WithCommand(db, c)
        /\ UNCHANGED <<delivered, attempted>>
    BY <1>2, S7Assumption DEF S7!PlcCycle
  <2>2. /\ DOMAIN db' = 0 .. 61 /\ Commanded(db', c)
        /\ \A i \in 30 .. 61 : db'[i] = db[i]
    BY <2>1, CommandPut DEF S7IInv, Commanded
  <2>3. \A s : Reported(db, s) => Reported(db', s)
    BY <2>2, PartsApart
  <2>. QED
    BY <2>1, <2>2, <2>3 DEF S7IInv
<1>3. ASSUME NEW ok \in BOOLEAN,
             S7!Connect(ok) \/ S7!ReadCommand(ok) \/ S7!Disconnect
      PROVE  S7IInv'
  <2>1. UNCHANGED <<db, given, delivered, attempted>>
    BY <1>3 DEF S7!Connect, S7!ReadCommand, S7!Disconnect
  <2>. QED
    BY <2>1 DEF S7IInv
<1>4. ASSUME NEW s \in S7Status, db' = S7!WithStatus(s), UNCHANGED given
      PROVE  /\ DOMAIN db' = 0 .. 61 /\ Commanded(db', given) /\ Reported(db', s)
             /\ given' \in PlcCommandData /\ Commanded(db', given')
  <2>1. s \in PlcStatusData
    BY <1>4, S7Assumption
  <2>2. /\ DOMAIN db' = 0 .. 61 /\ Reported(db', s)
        /\ \A i \in 0 .. 29 : db'[i] = db[i]
    BY <1>4, <2>1, StatusPut DEF S7IInv, Reported
  <2>3. Commanded(db', given)
    BY <2>2, PartsApart DEF S7IInv
  <2>. QED
    BY <1>4, <2>2, <2>3 DEF S7IInv
<1>5. ASSUME NEW s \in S7Status, S7!WriteStatus(s) PROVE S7IInv'
  <2>1. db' = S7!WithStatus(s) /\ delivered' = s /\ UNCHANGED given
    BY <1>5 DEF S7!WriteStatus
  <2>. QED
    BY <1>4, <2>1 DEF S7IInv
<1>6. ASSUME NEW s \in S7Status, S7!WriteStatusFails(s) PROVE S7IInv'
  <2>1. /\ UNCHANGED <<given, delivered>> /\ attempted \subseteq attempted'
        /\ db' = db \/ (db' = S7!WithStatus(s) /\ s \in attempted')
    BY <1>6 DEF S7!WriteStatusFails
  <2>2. CASE db' = db
    BY <2>1, <2>2 DEF S7IInv
  <2>3. CASE db' = S7!WithStatus(s) /\ s \in attempted'
    BY <1>4, <2>1, <2>3 DEF S7IInv
  <2>. QED
    BY <2>1, <2>2, <2>3
<1>. QED
  BY <1>1, <1>2, <1>3, <1>5, <1>6 DEF AdaptersNext, S7!Next, s7_vars

(* The PLC reads what its variables hold.                                   *)
LEMMA PlcReads ==
    /\ \A c \in PlcCommandData :
           Commanded(db, c) => \A f \in DOMAIN c : S7!PlcSees(f) = c[f]
    /\ \A s \in PlcStatusData :
           Reported(db, s) => \A f \in DOMAIN s : S7!PlcSees(f) = s[f]
<1>1. ASSUME NEW c \in PlcCommandData, Commanded(db, c), NEW f \in DOMAIN c
      PROVE  S7!PlcSees(f) = c[f]
  BY <1>1, CommandFits, HeldIsRead DEF Commanded, S7!PlcSees, Offset, Width
<1>2. ASSUME NEW s \in PlcStatusData, Reported(db, s), NEW f \in DOMAIN s
      PROVE  S7!PlcSees(f) = s[f]
  BY <1>2, StatusFits, HeldIsRead DEF Reported, S7!PlcSees, Offset, Width
<1>. QED
  BY <1>1, <1>2

(* The buffer that is decoded begins where the block does.                  *)
LEMMA AdapterReads ==
    ASSUME NEW c \in PlcCommandData, Commanded(db, c)
    PROVE  S7!DecodeCommand(S7!CommandBlock) = c
<1> DEFINE block == S7!CommandBlock
<1>1. S7!command_offset = 0 /\ S7!command_size = 30
  BY DEF S7!command_offset, S7!command_size
<1>2. \A i \in 0 .. 29 : block[i] = db[i]
  <2>1. \A i \in 0 .. 29 : 0 + i = i
    OBVIOUS
  <2>. QED
    BY <1>1, <2>1 DEF S7!CommandBlock
<1> HIDE DEF block
<1>3. Commanded(block, c)
  BY <1>2, PartsApart
<1>4. /\ DOMAIN S7!CommandFields = CommandField
      /\ \A f \in CommandField :
             /\ S7!CommandFields[f].offset = Offset(f)
             /\ S7!CommandFields[f].width = Width(f)
  BY Variables DEF S7!CommandFields, S7!Field, CommandField
<1>5. \A f \in CommandField : S7!ReadNumber(block, Offset(f), Width(f)) = c[f]
  BY <1>3, CommandFits, HeldIsRead DEF Commanded
<1>6. S7!DecodeCommand(block) = [f \in CommandField |-> c[f]]
  BY <1>4, <1>5 DEF S7!DecodeCommand
<1>. QED
  BY <1>6, CommandFits DEF block

-----------------------------------------------------------------------------
(* The invariant of the data block holds throughout.                        *)
THEOREM S7Invariance == AdaptersSpec => []S7IInv
<1>1. AdaptersInit => S7IInv
  BY InitS7IInv DEF AdaptersInit
<1>. QED
  BY <1>1, NextS7IInv, PTL DEF AdaptersSpec

(* After any writes and failures the PLC reads a whole status, the last one *)
(* delivered or one attempted since, and its own command as it gave it.     *)
THEOREM StatusStaysIntact == AdaptersSpec => []StatusIntact
<1>1. S7IInv => StatusIntact
  BY PlcReads DEF S7IInv, StatusIntact, S7!StatusIntact, Reported
<1>. QED
  BY <1>1, S7Invariance, PTL

(* A command that read_command returns is, in every field, the one that the *)
(* PLC program has given at that time.                                      *)
THEOREM CommandArrivesIntact == AdaptersSpec => CommandIntact
<1>1. S7IInv /\ [AdaptersNext]_<<vars, s7_vars, linked>>
        => [S7!ReadCommand(TRUE) => s7_received' = given]_(S7!vars)
  <2> SUFFICES ASSUME S7IInv, S7!ReadCommand(TRUE) PROVE s7_received' = given
    OBVIOUS
  <2>1. s7_received' = S7!DecodeCommand(S7!CommandBlock)
    BY DEF S7!ReadCommand
  <2>. QED
    BY <2>1, AdapterReads DEF S7IInv
<1>. QED
  BY <1>1, S7Invariance, PTL DEF AdaptersSpec, CommandIntact, S7!CommandIntact

-----------------------------------------------------------------------------
(* A program that is linked with one adapter is a behaviour of each: what   *)
(* was proved of the OPC UA adapter holds in it too.                        *)
THEOREM AdaptersStandAlone == AdaptersSpec => Spec /\ S7!Spec
<1>1. AdaptersInit => Init /\ S7!Init
  BY DEF AdaptersInit
<1>2. [AdaptersNext]_<<vars, s7_vars, linked>> => [Next]_vars /\ [S7!Next]_(S7!vars)
  BY DEF AdaptersNext, s7_vars, S7!vars
<1>. QED
  BY <1>1, <1>2, PTL DEF AdaptersSpec, Spec, S7!Spec

=============================================================================
