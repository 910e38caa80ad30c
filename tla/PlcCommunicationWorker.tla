----------------------- MODULE PlcCommunicationWorker -----------------------
(* The thread that talks to the PLC, the two mailboxes between it and the   *)
(* control thread, and the owner's start and stop.                          *)
(*                                                                          *)
(* "thread" names the point of PlcCommunicationWorker::run that the thread  *)
(* has reached.  Connect, read and write may take any time and may fail at  *)
(* any time.  The mailboxes are used by their contract (MailboxContract,    *)
(* which LatestValueMailbox implements); a try_lock may fail at any time.   *)
EXTENDS Naturals

CONSTANTS
    CommandData,   \* what the PLC may answer to a read
    StatusData,    \* what the control thread publishes
    NoValue        \* no such data

ASSUME NoValueAssumption == NoValue \notin CommandData /\ NoValue \notin StatusData

VARIABLES
    thread,           \* thread_ and its position in run
    owner,            \* "free", or "joining" inside stop()
    stop_requested,   \* the stop token
    connected,        \* connected_
    session,          \* the adapter holds an open session with the PLC
    received,         \* the command in run's hands after a read
    command_mailbox,  \* command_mailbox_
    status_mailbox,   \* status_mailbox_
    plc_status        \* the status that the PLC has; when its parts come one
                      \* by one, the last part

request == <<owner, stop_requested>>
link == <<connected, session>>
mailboxes == <<command_mailbox, status_mailbox>>
workerVars == <<thread, request, link, received, mailboxes, plc_status>>

CommandBox ==
    INSTANCE MailboxContract WITH box <- command_mailbox, Value <- CommandData
StatusBox ==
    INSTANCE MailboxContract WITH box <- status_mailbox, Value <- StatusData

WorkerTypeOK ==
    /\ thread \in {"none", "test", "connect", "wait", "read", "publish",
                   "status", "write", "sleep", "exit", "exited"}
    /\ owner \in {"free", "joining"}
    /\ stop_requested \in BOOLEAN
    /\ connected \in BOOLEAN
    /\ session \in BOOLEAN
    /\ received \in CommandData \cup {NoValue}
    /\ CommandBox!TypeOK
    /\ StatusBox!TypeOK
    /\ plc_status \in StatusData \cup {NoValue}

WorkerInit ==
    /\ thread = "none"
    /\ owner = "free"
    /\ stop_requested = FALSE
    /\ connected = FALSE
    /\ session = FALSE
    /\ received = NoValue
    /\ CommandBox!Init
    /\ StatusBox!Init
    /\ plc_status = NoValue

-----------------------------------------------------------------------------
(* The owner: start, stop and the destructor's stop.                        *)

(* A joinable thread makes start() return at once.  run begins with         *)
(* last_status_sequence = 0: it has accepted no status.                     *)
Start ==
    /\ owner = "free"
    /\ thread = "none"
    /\ thread' = "test"
    /\ stop_requested' = FALSE
    /\ StatusBox!Forget
    /\ UNCHANGED <<owner, link, received, command_mailbox, plc_status>>

RequestStop ==
    /\ owner = "free"
    /\ thread # "none"
    /\ owner' = "joining"
    /\ stop_requested' = TRUE
    /\ UNCHANGED <<thread, link, received, mailboxes, plc_status>>

Join ==
    /\ owner = "joining"
    /\ thread = "exited"
    /\ owner' = "free"
    /\ thread' = "none"
    /\ UNCHANGED <<stop_requested, link, received, mailboxes, plc_status>>

-----------------------------------------------------------------------------
(* PlcCommunicationWorker::run *)

Test ==
    /\ thread = "test"
    /\ thread' = IF stop_requested THEN "exit"
                 ELSE IF connected THEN "read" ELSE "connect"
    /\ UNCHANGED <<request, link, received, mailboxes, plc_status>>

(* A defect: a refused connection ends the thread. *)
ConnectOnce(ok) ==
    /\ thread = "connect"
    /\ session' = ok
    /\ connected' = ok
    /\ thread' = IF ok THEN "read" ELSE "exit"
    /\ UNCHANGED <<request, received, mailboxes, plc_status>>

Connect(ok) ==
    /\ thread = "connect"
    /\ session' = ok
    /\ connected' = ok
    /\ thread' = IF ok THEN "read" ELSE "wait"
    /\ UNCHANGED <<request, received, mailboxes, plc_status>>

(* A defect: the stop token is looked at after a failure only. *)
WakeUpToIo ==
    /\ thread \in {"wait", "sleep"}
    /\ thread' = IF connected THEN "read" ELSE "connect"
    /\ UNCHANGED <<request, link, received, mailboxes, plc_status>>

(* Both sleeps, reconnect_period and poll_period, end in the loop's test.   *)
WakeUp ==
    /\ thread \in {"wait", "sleep"}
    /\ thread' = "test"
    /\ UNCHANGED <<request, link, received, mailboxes, plc_status>>

(* A failed read or write ends the session and, with it, this iteration:    *)
(* "continue" skips the sleep.                                              *)
Abandon ==
    /\ session' = FALSE
    /\ connected' = FALSE
    /\ thread' = "test"

Read(data) ==
    /\ thread = "read"
    /\ received' = data
    /\ thread' = "publish"
    /\ UNCHANGED <<request, link, mailboxes, plc_status>>

(* A defect: a failed read passes for a command with a heartbeat of 0. *)
ReadFailsUnnoticed ==
    /\ thread = "read"
    /\ received' = 0
    /\ thread' = "publish"
    /\ UNCHANGED <<request, link, mailboxes, plc_status>>

ReadFails ==
    /\ thread = "read"
    /\ Abandon
    /\ UNCHANGED <<request, received, mailboxes, plc_status>>

(* The command is dropped when the mailbox is busy. *)
PublishCommand(lock) ==
    /\ thread = "publish"
    /\ IF lock THEN CommandBox!Publish(received) ELSE UNCHANGED command_mailbox
    /\ received' = NoValue
    /\ thread' = "status"
    /\ UNCHANGED <<request, link, status_mailbox, plc_status>>

TakeStatus ==
    /\ thread = "status"
    /\ StatusBox!Take
    /\ thread' = "write"
    /\ UNCHANGED <<request, link, received, command_mailbox, plc_status>>

(* The mailbox is busy, empty, or holds what was written before. *)
NoStatus ==
    /\ thread = "status"
    /\ thread' = "sleep"
    /\ UNCHANGED <<request, link, received, mailboxes, plc_status>>

WriteStatus ==
    /\ thread = "write"
    /\ plc_status' = status_mailbox.held
    /\ StatusBox!Accept
    /\ thread' = "sleep"
    /\ UNCHANGED <<request, link, received, command_mailbox>>

(* A defect: the sequence number is remembered before the write succeeds. *)
WriteFailsRemembered ==
    /\ thread = "write"
    /\ plc_status' \in {plc_status, status_mailbox.held}
    /\ StatusBox!Accept
    /\ Abandon
    /\ UNCHANGED <<request, received, command_mailbox>>

(* A write that fails may have taken effect all the same: the adapters fail *)
(* when the answer of the PLC does not come.  The status counts as not      *)
(* written and is written again, unless a newer one has come by then.       *)
WriteFails ==
    /\ thread = "write"
    /\ plc_status' \in {plc_status, status_mailbox.held}
    /\ StatusBox!Discard
    /\ Abandon
    /\ UNCHANGED <<request, received, command_mailbox>>

(* A defect: the thread ends without disconnecting. *)
ExitConnected ==
    /\ thread = "exit"
    /\ connected' = FALSE
    /\ thread' = "exited"
    /\ UNCHANGED <<request, session, received, mailboxes, plc_status>>

Exit ==
    /\ thread = "exit"
    /\ session' = FALSE
    /\ connected' = FALSE
    /\ thread' = "exited"
    /\ UNCHANGED <<request, received, mailboxes, plc_status>>

-----------------------------------------------------------------------------
(* What the control thread, which is also the owner, does in between.       *)

TryPublishStatus(s, lock) ==
    /\ owner = "free"
    /\ IF lock THEN StatusBox!Publish(s) ELSE UNCHANGED status_mailbox
    /\ UNCHANGED <<thread, request, link, received, command_mailbox, plc_status>>

(* try_read_command, and the sequence number remembered at once. *)
TryReadCommand ==
    /\ owner = "free"
    /\ command_mailbox.unread
    /\ command_mailbox' = CommandBox!Accepted(CommandBox!Taken(command_mailbox))
    /\ UNCHANGED <<thread, request, link, received, status_mailbox, plc_status>>

OwnerStep == Start \/ RequestStop \/ Join

RunStep ==
    \/ Test
    \/ \E ok \in BOOLEAN : Connect(ok)
    \/ WakeUp
    \/ ReadFails
    \/ \E lock \in BOOLEAN : PublishCommand(lock)
    \/ TakeStatus
    \/ NoStatus
    \/ WriteStatus
    \/ WriteFails
    \/ Exit

=============================================================================
