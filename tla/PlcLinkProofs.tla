--------------------------- MODULE PlcLinkProofs ----------------------------
(* Proofs about the communication worker, for any number of commands and    *)
(* statuses: it reads and writes in an open session only, and neither       *)
(* direction ever goes back to something older.                             *)
EXTENDS PlcLink, TLAPS

(* connected_ tells whether a session is open, and what run has in its      *)
(* hands depends on where it is.                                            *)
AtWork ==
    /\ session = connected
    /\ thread = "publish" <=> received # NoValue
    /\ thread = "write" <=> status_mailbox.held # NoValue

(* Statuses on their way to the PLC, the oldest last.                       *)
StatusesInLine ==
    /\ status_mailbox.unread \/ status_mailbox.superseded
         => status_mailbox.value # NoValue
    /\ status_mailbox.value # NoValue
         => status_mailbox.value <= controller_heartbeat
    /\ status_mailbox.held # NoValue
         => /\ status_mailbox.value # NoValue
            /\ status_mailbox.held <= status_mailbox.value
    /\ plc_status # NoValue
         => /\ status_mailbox.value # NoValue
            /\ plc_status <= status_mailbox.value
            /\ status_mailbox.held # NoValue => plc_status <= status_mailbox.held

(* Commands on their way to the control thread, the oldest last.            *)
CommandsInLine ==
    /\ command_mailbox.unread \/ command_mailbox.superseded
         => command_mailbox.value # NoValue
    /\ received # NoValue => received <= plc_heartbeat
    /\ command_mailbox.value # NoValue
         => /\ command_mailbox.value <= plc_heartbeat
            /\ received # NoValue => command_mailbox.value <= received
    /\ accepted # NoValue
         => /\ command_mailbox.value # NoValue
            /\ accepted <= command_mailbox.value

IInv ==
    /\ TypeOK
    /\ IoNeedsSession
    /\ AtWork
    /\ StatusesInLine
    /\ CommandsInLine

-----------------------------------------------------------------------------
(* Commands and statuses are numbers, and NoValue is not one of them.       *)
LEMMA DataTypes ==
    /\ MaxHeartbeat \in Nat
    /\ CommandData = 0 .. MaxHeartbeat /\ StatusData = 1 .. MaxHeartbeat
    /\ NoValue \notin CommandData /\ NoValue \notin StatusData
BY MaxHeartbeatAssumption, HeartbeatData, NoValueAssumption

(* The parts of a mailbox. *)
LEMMA BoxTypes ==
    ASSUME IInv
    PROVE  /\ command_mailbox.value \in CommandData \cup {NoValue}
           /\ command_mailbox.held \in CommandData \cup {NoValue}
           /\ command_mailbox.unread \in BOOLEAN
           /\ command_mailbox.superseded \in BOOLEAN
           /\ status_mailbox.value \in StatusData \cup {NoValue}
           /\ status_mailbox.held \in StatusData \cup {NoValue}
           /\ status_mailbox.unread \in BOOLEAN
           /\ status_mailbox.superseded \in BOOLEAN
           /\ command_mailbox \in CommandBox!Box /\ status_mailbox \in StatusBox!Box
BY DEF IInv, TypeOK, WorkerTypeOK, CommandBox!TypeOK, CommandBox!Box,
       StatusBox!TypeOK, StatusBox!Box

LEMMA InitIInv == Init => IInv
<1> SUFFICES ASSUME Init PROVE IInv
  OBVIOUS
<1> USE DEF Init, WorkerInit
<1>1. command_mailbox = CommandBox!Empty /\ status_mailbox = StatusBox!Empty
  BY DEF CommandBox!Init, StatusBox!Init
<1>2. TypeOK
  <2>1. CommandBox!TypeOK /\ StatusBox!TypeOK
    BY <1>1 DEF CommandBox!TypeOK, CommandBox!Box, CommandBox!Empty,
                StatusBox!TypeOK, StatusBox!Box, StatusBox!Empty
  <2>2. plc_heartbeat \in 0 .. MaxHeartbeat /\ controller_heartbeat \in 0 .. MaxHeartbeat
    BY DataTypes
  <2>. QED
    BY <2>1, <2>2 DEF TypeOK, WorkerTypeOK
<1>. QED
  BY <1>1, <1>2 DEF IInv, IoNeedsSession, AtWork, StatusesInLine, CommandsInLine,
                    CommandBox!Empty, StatusBox!Empty

-----------------------------------------------------------------------------
(* Steps of the thread and of its owner that leave both mailboxes, what     *)
(* they hand over and the counters alone.                                   *)
LEMMA ControlSteps ==
    ASSUME IInv, UNCHANGED clockVars,
           \/ RequestStop \/ Join
           \/ Test \/ WakeUp \/ ReadFails \/ NoStatus \/ Exit
           \/ \E ok \in BOOLEAN : Connect(ok)
    PROVE  IInv'
<1>1. UNCHANGED <<received, mailboxes, plc_status, clockVars>>
  BY DEF RequestStop, Join, Test, WakeUp, ReadFails, NoStatus, Exit, Connect
<1>2. TypeOK'
  BY <1>1 DEF mailboxes, clockVars, IInv, TypeOK, WorkerTypeOK,
              CommandBox!TypeOK, StatusBox!TypeOK, request, link, RequestStop,
              Join, Test, WakeUp, ReadFails, Abandon, NoStatus, Exit, Connect
<1>3. IoNeedsSession' /\ AtWork'
  <2> USE <1>1 DEF mailboxes, request, link, IInv, IoNeedsSession, AtWork
  <2>1. CASE RequestStop \/ Join
    BY <2>1 DEF RequestStop, Join
  <2>2. CASE Test \/ WakeUp \/ NoStatus
    BY <2>2 DEF Test, WakeUp, NoStatus, TypeOK, WorkerTypeOK
  <2>3. CASE ReadFails \/ Exit
    BY <2>3 DEF ReadFails, Abandon, Exit
  <2>4. CASE \E ok \in BOOLEAN : Connect(ok)
    BY <2>4 DEF Connect
  <2>. QED
    BY <2>1, <2>2, <2>3, <2>4
<1>. QED
  BY <1>1, <1>2, <1>3 DEF mailboxes, clockVars, IInv, StatusesInLine, CommandsInLine

(* A worker that is started, and its side of the status mailbox.            *)
LEMMA StatusSteps ==
    ASSUME IInv, UNCHANGED clockVars,
           Start \/ TakeStatus \/ WriteStatus \/ WriteFails
    PROVE  /\ IInv'
           /\ plc_status # NoValue => plc_status' # NoValue /\ plc_status' >= plc_status
<1> USE DEF request, link, clockVars
<1>1. UNCHANGED <<owner, received, command_mailbox, plc_heartbeat,
                  controller_heartbeat, accepted>>
  BY DEF Start, TakeStatus, WriteStatus, WriteFails
<1>2. CASE Start
  <2>1. status_mailbox' = StatusBox!Forgotten(status_mailbox)
    BY <1>2 DEF Start, StatusBox!Forget
  <2>2. /\ status_mailbox' \in StatusBox!Box
        /\ status_mailbox'.value = status_mailbox.value
        /\ status_mailbox'.held = status_mailbox.held
        /\ status_mailbox'.superseded = status_mailbox.superseded
        /\ status_mailbox'.unread => status_mailbox.value # NoValue
    BY <2>1, BoxTypes DEF StatusBox!Forgotten, StatusBox!Box
  <2>3. TypeOK'
    BY <1>1, <1>2, <2>2 DEF Start, IInv, TypeOK, WorkerTypeOK, CommandBox!TypeOK,
                            StatusBox!TypeOK
  <2>4. IoNeedsSession' /\ AtWork' /\ UNCHANGED plc_status
    BY <1>1, <1>2, <2>2 DEF Start, IInv, IoNeedsSession, AtWork
  <2>5. StatusesInLine' /\ CommandsInLine'
    BY <1>1, <2>2, <2>4 DEF IInv, StatusesInLine, CommandsInLine
  <2>6. plc_status # NoValue => plc_status \in Nat
    BY DataTypes DEF IInv, TypeOK, WorkerTypeOK
  <2>. QED
    BY <2>3, <2>4, <2>5, <2>6 DEF IInv
<1>3. CASE TakeStatus
  <2>1. /\ status_mailbox' = StatusBox!Taken(status_mailbox)
        /\ status_mailbox.unread
    BY <1>3 DEF TakeStatus, StatusBox!Take
  <2>2. /\ status_mailbox' \in StatusBox!Box
        /\ status_mailbox'.value = status_mailbox.value
        /\ status_mailbox'.held = status_mailbox.value
        /\ status_mailbox'.superseded = status_mailbox.superseded
        /\ status_mailbox.value # NoValue
    BY <2>1, BoxTypes DEF StatusBox!Taken, StatusBox!Box, IInv, StatusesInLine
  <2>3. TypeOK'
    BY <1>1, <1>3, <2>2 DEF TakeStatus, IInv, TypeOK, WorkerTypeOK,
                            CommandBox!TypeOK, StatusBox!TypeOK
  <2>4. IoNeedsSession' /\ AtWork' /\ UNCHANGED plc_status
    BY <1>1, <1>3, <2>2 DEF TakeStatus, IInv, IoNeedsSession, AtWork
  <2>5. status_mailbox.value \in Nat /\ (plc_status # NoValue => plc_status \in Nat)
    BY <2>2, BoxTypes, DataTypes DEF IInv, TypeOK, WorkerTypeOK
  <2>6. StatusesInLine' /\ CommandsInLine'
    BY <1>1, <2>2, <2>4, <2>5 DEF IInv, StatusesInLine, CommandsInLine
  <2>. QED
    BY <2>3, <2>4, <2>5, <2>6 DEF IInv
<1>4. CASE WriteStatus
  <2>1. /\ status_mailbox' = StatusBox!Accepted(status_mailbox)
        /\ status_mailbox.held # NoValue
        /\ plc_status' = status_mailbox.held
    BY <1>4 DEF WriteStatus, StatusBox!Accept
  <2>2. /\ status_mailbox' \in StatusBox!Box
        /\ status_mailbox'.value = status_mailbox.value
        /\ status_mailbox'.held = NoValue
        /\ status_mailbox'.unread \/ status_mailbox'.superseded
             => status_mailbox.superseded
    BY <2>1, BoxTypes DEF StatusBox!Accepted, StatusBox!Box
  <2>3. TypeOK'
    BY <1>1, <1>4, <2>1, <2>2, BoxTypes
       DEF WriteStatus, IInv, TypeOK, WorkerTypeOK, CommandBox!TypeOK,
           StatusBox!TypeOK
  <2>4. IoNeedsSession' /\ AtWork'
    BY <1>1, <1>4, <2>2 DEF WriteStatus, IInv, IoNeedsSession, AtWork
  <2>5. StatusesInLine' /\ CommandsInLine'
    BY <1>1, <2>1, <2>2 DEF IInv, StatusesInLine, CommandsInLine
  <2>6. plc_status # NoValue => plc_status' >= plc_status
    BY <2>1, BoxTypes, DataTypes DEF IInv, TypeOK, WorkerTypeOK, StatusesInLine
  <2>. QED
    BY <2>1, <2>3, <2>4, <2>5, <2>6 DEF IInv
<1>5. CASE WriteFails
  <2>1. /\ status_mailbox' = StatusBox!Discarded(status_mailbox)
        /\ status_mailbox.held # NoValue
        /\ plc_status' \in {plc_status, status_mailbox.held}
    BY <1>5 DEF WriteFails, StatusBox!Discard
  <2>2. /\ status_mailbox' \in StatusBox!Box
        /\ status_mailbox'.value = status_mailbox.value
        /\ status_mailbox'.held = NoValue
        /\ status_mailbox'.unread \/ status_mailbox'.superseded
             => status_mailbox.unread
    BY <2>1, BoxTypes DEF StatusBox!Discarded, StatusBox!Box
  <2>3. TypeOK'
    BY <1>1, <1>5, <2>1, <2>2, BoxTypes
       DEF WriteFails, Abandon, IInv, TypeOK, WorkerTypeOK, CommandBox!TypeOK,
           StatusBox!TypeOK
  <2>4. IoNeedsSession' /\ AtWork'
    BY <1>1, <1>5, <2>2 DEF WriteFails, Abandon, IInv, IoNeedsSession, AtWork
  <2>5. StatusesInLine' /\ CommandsInLine'
    BY <1>1, <2>1, <2>2 DEF IInv, StatusesInLine, CommandsInLine
  <2>6. plc_status # NoValue => plc_status' # NoValue /\ plc_status' >= plc_status
    BY <2>1, BoxTypes, DataTypes DEF IInv, TypeOK, WorkerTypeOK, StatusesInLine
  <2>. QED
    BY <2>3, <2>4, <2>5, <2>6 DEF IInv
<1>. QED
  BY <1>2, <1>3, <1>4, <1>5

(* The control thread publishes a status with a new heartbeat.              *)
LEMMA PublishStep ==
    ASSUME IInv, NEW lock \in BOOLEAN, PublishStatus(lock)
    PROVE  IInv' /\ UNCHANGED <<plc_status, accepted>>
<1> USE DEF request, link
<1>1. /\ controller_heartbeat \in Nat
      /\ controller_heartbeat' = controller_heartbeat + 1
      /\ controller_heartbeat' \in StatusData
      /\ UNCHANGED <<thread, owner, stop_requested, connected, session, received,
                     command_mailbox, plc_status, plc_heartbeat, accepted>>
  BY DataTypes DEF PublishStatus, TryPublishStatus, IInv, TypeOK
<1>2. CASE ~lock
  <2>1. UNCHANGED status_mailbox
    BY <1>2 DEF PublishStatus, TryPublishStatus
  <2>2. TypeOK'
    BY <1>1, <2>1, DataTypes DEF IInv, TypeOK, WorkerTypeOK, CommandBox!TypeOK,
                                 StatusBox!TypeOK
  <2>3. status_mailbox.value # NoValue => status_mailbox.value \in Nat
    BY BoxTypes, DataTypes
  <2>. QED
    BY <1>1, <2>1, <2>2, <2>3
       DEF IInv, IoNeedsSession, AtWork, StatusesInLine, CommandsInLine
<1>3. CASE lock
  <2>1. status_mailbox' = StatusBox!Published(status_mailbox, controller_heartbeat')
    BY <1>3 DEF PublishStatus, TryPublishStatus, StatusBox!Publish
  <2>2. /\ status_mailbox' \in StatusBox!Box
        /\ status_mailbox'.value = controller_heartbeat'
        /\ status_mailbox'.held = status_mailbox.held
    BY <1>1, <2>1, BoxTypes DEF StatusBox!Published, StatusBox!Box
  <2>3. TypeOK'
    BY <1>1, <2>2, DataTypes DEF IInv, TypeOK, WorkerTypeOK, CommandBox!TypeOK,
                                 StatusBox!TypeOK
  <2>4. /\ status_mailbox.value # NoValue => status_mailbox.value \in Nat
        /\ status_mailbox.held # NoValue => status_mailbox.held \in Nat
        /\ plc_status # NoValue => plc_status \in Nat
        /\ controller_heartbeat' # NoValue
    BY <1>1, BoxTypes, DataTypes DEF IInv, TypeOK, WorkerTypeOK
  <2>5. StatusesInLine'
    BY <1>1, <2>2, <2>4 DEF IInv, StatusesInLine
  <2>6. IoNeedsSession' /\ AtWork' /\ CommandsInLine'
    BY <1>1, <2>2 DEF IInv, IoNeedsSession, AtWork, CommandsInLine
  <2>. QED
    BY <1>1, <2>3, <2>5, <2>6 DEF IInv
<1>. QED
  BY <1>2, <1>3

-----------------------------------------------------------------------------
(* The steps of a command on its way.                                       *)
LEMMA CommandSteps ==
    ASSUME IInv,
           \/ PlcCycle \/ ReadCommand \/ ReceiveCommand
           \/ \E lock \in BOOLEAN : PublishCommand(lock) /\ UNCHANGED clockVars
    PROVE  /\ IInv' /\ UNCHANGED plc_status
           /\ accepted # NoValue => accepted' >= accepted
<1> USE DEF request, link, clockVars
<1>1. UNCHANGED <<owner, stop_requested, connected, session, status_mailbox,
                  plc_status, controller_heartbeat>>
  BY DEF workerVars, mailboxes, PlcCycle, ReadCommand, Read, ReceiveCommand,
         TryReadCommand, PublishCommand
<1>2. /\ plc_heartbeat \in Nat
      /\ received # NoValue => received \in Nat
      /\ accepted # NoValue => accepted \in Nat
      /\ command_mailbox.value # NoValue => command_mailbox.value \in Nat
  BY BoxTypes, DataTypes DEF IInv, TypeOK, WorkerTypeOK
<1>3. CASE PlcCycle
  <2>1. /\ UNCHANGED <<thread, received, command_mailbox, accepted>>
        /\ plc_heartbeat' = plc_heartbeat + 1 /\ plc_heartbeat' \in 0 .. MaxHeartbeat
    BY <1>2, <1>3, DataTypes DEF PlcCycle, workerVars, mailboxes
  <2>2. TypeOK'
    BY <1>1, <2>1 DEF IInv, TypeOK, WorkerTypeOK, CommandBox!TypeOK,
                      StatusBox!TypeOK
  <2>. QED
    BY <1>1, <1>2, <2>1, <2>2
       DEF IInv, IoNeedsSession, AtWork, StatusesInLine, CommandsInLine
<1>4. CASE ReadCommand
  <2>1. /\ UNCHANGED <<command_mailbox, accepted, plc_heartbeat>>
        /\ thread = "read" /\ thread' = "publish" /\ received' = plc_heartbeat
    BY <1>4 DEF ReadCommand, Read, mailboxes
  <2>2. received' \in CommandData /\ received' # NoValue
    BY <2>1, DataTypes DEF IInv, TypeOK
  <2>3. TypeOK'
    BY <1>1, <2>1, <2>2 DEF IInv, TypeOK, WorkerTypeOK, CommandBox!TypeOK,
                            StatusBox!TypeOK
  <2>. QED
    BY <1>1, <1>2, <2>1, <2>2, <2>3
       DEF IInv, IoNeedsSession, AtWork, StatusesInLine, CommandsInLine
<1>5. CASE ReceiveCommand
  <2>1. /\ UNCHANGED <<thread, received, plc_heartbeat>>
        /\ command_mailbox.unread
        /\ command_mailbox' = CommandBox!Accepted(CommandBox!Taken(command_mailbox))
        /\ accepted' = command_mailbox.value
    BY <1>5 DEF ReceiveCommand, TryReadCommand
  <2>2. /\ command_mailbox' \in CommandBox!Box
        /\ command_mailbox'.value = command_mailbox.value
        /\ command_mailbox'.unread \/ command_mailbox'.superseded
             => command_mailbox.superseded
    BY <2>1, BoxTypes DEF CommandBox!Accepted, CommandBox!Taken, CommandBox!Box
  <2>3. command_mailbox.value # NoValue
    BY <2>1 DEF IInv, CommandsInLine
  <2>4. TypeOK'
    BY <1>1, <2>1, <2>2, BoxTypes DEF IInv, TypeOK, WorkerTypeOK,
                                      CommandBox!TypeOK, StatusBox!TypeOK
  <2>. QED
    BY <1>1, <1>2, <2>1, <2>2, <2>3, <2>4
       DEF IInv, IoNeedsSession, AtWork, StatusesInLine, CommandsInLine
<1>6. ASSUME NEW lock \in BOOLEAN, PublishCommand(lock), UNCHANGED clockVars
      PROVE  IInv' /\ (accepted # NoValue => accepted' >= accepted)
  <2>1. /\ UNCHANGED <<accepted, plc_heartbeat>>
        /\ thread = "publish" /\ thread' = "status" /\ received' = NoValue
    BY <1>6 DEF PublishCommand
  <2>2. received # NoValue /\ received \in CommandData
    BY <2>1 DEF IInv, AtWork, TypeOK, WorkerTypeOK
  <2>3. \/ UNCHANGED command_mailbox
        \/ command_mailbox' = CommandBox!Published(command_mailbox, received)
    BY <1>6 DEF PublishCommand, CommandBox!Publish
  <2>4. /\ command_mailbox' \in CommandBox!Box
        /\ command_mailbox'.value \in {command_mailbox.value, received}
        /\ command_mailbox'.value # received => UNCHANGED command_mailbox
    <3>1. CASE UNCHANGED command_mailbox
      BY <3>1, BoxTypes
    <3>2. CASE command_mailbox' = CommandBox!Published(command_mailbox, received)
      BY <2>2, <3>2, BoxTypes DEF CommandBox!Published, CommandBox!Box
    <3>. QED
      BY <2>3, <3>1, <3>2
  <2>5. TypeOK'
    BY <1>1, <2>1, <2>4 DEF IInv, TypeOK, WorkerTypeOK, CommandBox!TypeOK,
                            StatusBox!TypeOK
  <2>. QED
    BY <1>1, <1>2, <2>1, <2>2, <2>4, <2>5
       DEF IInv, IoNeedsSession, AtWork, StatusesInLine, CommandsInLine
<1>. QED
  BY <1>1, <1>3, <1>4, <1>5, <1>6

(* Every step keeps the invariant and the order of what has arrived.        *)
LEMMA Steps ==
    IInv /\ [Next]_vars =>
        /\ IInv'
        /\ plc_status # NoValue => plc_status' >= plc_status
        /\ accepted # NoValue => accepted' >= accepted
<1> SUFFICES ASSUME IInv, [Next]_vars
             PROVE  /\ IInv'
                    /\ plc_status # NoValue => plc_status' >= plc_status
                    /\ accepted # NoValue => accepted' >= accepted
  OBVIOUS
<1>1. /\ plc_status # NoValue => plc_status \in Nat
      /\ accepted # NoValue => accepted \in Nat
  BY DataTypes DEF IInv, TypeOK, WorkerTypeOK
<1>2. CASE (OwnerStep \/ RunStep) /\ UNCHANGED clockVars
  <2>1. CASE RequestStop \/ Join \/ Test \/ WakeUp \/ ReadFails \/ NoStatus \/ Exit
             \/ \E ok \in BOOLEAN : Connect(ok)
    <3>1. UNCHANGED <<plc_status, accepted>>
      BY <1>2, <2>1 DEF clockVars, RequestStop, Join, Test, WakeUp, ReadFails,
                        NoStatus, Exit, Connect
    <3>. QED
      BY <1>1, <1>2, <2>1, <3>1, ControlSteps
  <2>2. CASE Start \/ TakeStatus \/ WriteStatus \/ WriteFails
    <3>1. UNCHANGED accepted
      BY <1>2 DEF clockVars
    <3>. QED
      BY <1>1, <1>2, <2>2, <3>1, StatusSteps
  <2>3. CASE \E lock \in BOOLEAN : PublishCommand(lock)
    BY <1>1, <1>2, <2>3, CommandSteps
  <2>. QED
    BY <1>2, <2>1, <2>2, <2>3 DEF OwnerStep, RunStep
<1>3. CASE ReadCommand \/ PlcCycle \/ ReceiveCommand
  BY <1>1, <1>3, CommandSteps
<1>4. CASE \E lock \in BOOLEAN : PublishStatus(lock)
  BY <1>1, <1>4, PublishStep
<1>5. CASE UNCHANGED vars
  BY <1>1, <1>5
     DEF vars, workerVars, request, link, mailboxes, IInv, TypeOK, WorkerTypeOK,
         CommandBox!TypeOK, StatusBox!TypeOK, IoNeedsSession, AtWork,
         StatusesInLine, CommandsInLine
<1>. QED
  BY <1>2, <1>3, <1>4, <1>5 DEF Next

LEMMA Invariance == Spec => []IInv
  BY InitIInv, Steps, PTL DEF Spec

-----------------------------------------------------------------------------
(* The worker's variables keep their types. *)
THEOREM TypeCorrect == Spec => []TypeOK
<1>1. IInv => TypeOK
  BY DEF IInv
<1>. QED
  BY <1>1, Invariance, PTL

(* run reads and writes only in an open session, and leaves none behind.    *)
THEOREM SessionIsOpen == Spec => []IoNeedsSession
<1>1. IInv => IoNeedsSession
  BY DEF IInv
<1>. QED
  BY <1>1, Invariance, PTL

(* The PLC never sees the controller's heartbeat go back. *)
THEOREM StatusesStayInOrder == Spec => StatusInOrder
<1>1. IInv /\ [Next]_vars => [plc_status # NoValue => plc_status' >= plc_status]_vars
  BY Steps
<1>. QED
  BY <1>1, Invariance, PTL DEF Spec, StatusInOrder

(* The control thread never goes back to an older command. *)
THEOREM CommandsStayInOrder == Spec => CommandsInOrder
<1>1. IInv /\ [Next]_vars => [accepted # NoValue => accepted' >= accepted]_vars
  BY Steps
<1>. QED
  BY <1>1, Invariance, PTL DEF Spec, CommandsInOrder

=============================================================================
