------------------------- MODULE LatestValueMailbox -------------------------
(* The mailbox between the 1 kHz control thread and the PLC thread: a value *)
(* and a sequence number under a mutex that both sides only ever try to     *)
(* lock.  Each access to the shared members is a step.  A try_lock that     *)
(* fails, on contention or spuriously, changes nothing: try_publish drops   *)
(* its value, try_read returns nothing.                                     *)
(*                                                                          *)
(* The reader is modelled with what both users of the mailbox do next: they *)
(* compare the sequence number with the last one they accepted.             *)
EXTENDS Naturals

CONSTANTS
    Value,         \* what is published
    NoValue,       \* std::nullopt
    Writer,        \* the threads that publish
    Reader,        \* the thread that reads
    NoThread,      \* the mutex is free
    MaxSequence    \* bound: publications considered

ASSUME NoValueAssumption == NoValue \notin Value
ASSUME ThreadAssumption ==
    Reader \notin Writer /\ NoThread \notin Writer \cup {Reader}
ASSUME MaxSequenceAssumption == MaxSequence \in Nat

VARIABLES
    mutex,      \* mutex_: the thread that holds it
    value,      \* value_
    sequence,   \* sequence_
    writing,    \* per writer: how far its try_publish is, and its argument
    reading,    \* how far the reader is
    snapshot,   \* the Snapshot that try_read builds and returns
    last        \* the last sequence number accepted, 0 for none

vars == <<mutex, value, sequence, writing, reading, snapshot, last>>

TypeOK ==
    /\ mutex \in Writer \cup {Reader, NoThread}
    /\ value \in Value \cup {NoValue}
    /\ sequence \in Nat
    /\ writing \in [Writer -> [at : {"idle", "locked", "stored", "counted"},
                               value : Value \cup {NoValue}]]
    /\ reading \in {"idle", "locked", "copied", "returned"}
    /\ snapshot \in [value : Value \cup {NoValue}, sequence : Nat]
    /\ last \in Nat

Init ==
    /\ mutex = NoThread
    /\ value = NoValue
    /\ sequence = 0
    /\ writing = [w \in Writer |-> [at |-> "idle", value |-> NoValue]]
    /\ reading = "idle"
    /\ snapshot = [value |-> NoValue, sequence |-> 0]
    /\ last = 0

-----------------------------------------------------------------------------
(* try_publish *)

LockToPublish(w, v) ==
    /\ writing[w].at = "idle"
    /\ mutex = NoThread
    /\ sequence < MaxSequence
    /\ mutex' = w
    /\ writing' = [writing EXCEPT ![w] = [at |-> "locked", value |-> v]]
    /\ UNCHANGED <<value, sequence, reading, snapshot, last>>

Store(w) ==
    /\ writing[w].at = "locked"
    /\ value' = writing[w].value
    /\ writing' = [writing EXCEPT ![w].at = "stored"]
    /\ UNCHANGED <<mutex, sequence, reading, snapshot, last>>

(* A defect: the sequence number is too narrow and wraps to 0.              *)
CountWrapping(w) ==
    /\ writing[w].at = "stored"
    /\ sequence' = (sequence + 1) % MaxSequence
    /\ writing' = [writing EXCEPT ![w].at = "counted"]
    /\ UNCHANGED <<mutex, value, reading, snapshot, last>>

Count(w) ==
    /\ writing[w].at = "stored"
    /\ sequence' = sequence + 1
    /\ writing' = [writing EXCEPT ![w].at = "counted"]
    /\ UNCHANGED <<mutex, value, reading, snapshot, last>>

Published(w) ==
    /\ writing[w].at = "counted"
    /\ mutex' = NoThread
    /\ writing' = [writing EXCEPT ![w] = [at |-> "idle", value |-> NoValue]]
    /\ UNCHANGED <<value, sequence, reading, snapshot, last>>

-----------------------------------------------------------------------------
(* try_read, and what its caller does with the snapshot *)

LockToRead ==
    /\ reading = "idle"
    /\ mutex = NoThread
    /\ mutex' = Reader
    /\ reading' = "locked"
    /\ UNCHANGED <<value, sequence, writing, snapshot, last>>

FindNothing ==
    /\ reading = "locked"
    /\ value = NoValue
    /\ mutex' = NoThread
    /\ reading' = "idle"
    /\ UNCHANGED <<value, sequence, writing, snapshot, last>>

(* A defect: the mutex is held for the value only, not for its number.      *)
CopyValueAndUnlock ==
    /\ reading = "locked"
    /\ value # NoValue
    /\ snapshot' = [snapshot EXCEPT !.value = value]
    /\ mutex' = NoThread
    /\ reading' = "copied"
    /\ UNCHANGED <<value, sequence, writing, last>>

CopyValue ==
    /\ reading = "locked"
    /\ value # NoValue
    /\ snapshot' = [snapshot EXCEPT !.value = value]
    /\ reading' = "copied"
    /\ UNCHANGED <<mutex, value, sequence, writing, last>>

CopySequence ==
    /\ reading = "copied"
    /\ snapshot' = [snapshot EXCEPT !.sequence = sequence]
    /\ mutex' = NoThread
    /\ reading' = "returned"
    /\ UNCHANGED <<value, sequence, writing, last>>

(* The snapshot is old news. *)
Skip ==
    /\ reading = "returned"
    /\ snapshot.sequence = last
    /\ reading' = "idle"
    /\ UNCHANGED <<mutex, value, sequence, writing, snapshot, last>>

(* The reader uses the value and remembers its number ... *)
Accept ==
    /\ reading = "returned"
    /\ snapshot.sequence # last
    /\ last' = snapshot.sequence
    /\ reading' = "idle"
    /\ UNCHANGED <<mutex, value, sequence, writing, snapshot>>

(* ... or fails to, as the worker does when the PLC refuses the status. *)
Discard ==
    /\ reading = "returned"
    /\ snapshot.sequence # last
    /\ reading' = "idle"
    /\ UNCHANGED <<mutex, value, sequence, writing, snapshot, last>>

(* A worker that is started again begins with last_status_sequence = 0. *)
Restart ==
    /\ reading = "idle"
    /\ last' = 0
    /\ UNCHANGED <<mutex, value, sequence, writing, reading, snapshot>>

-----------------------------------------------------------------------------
WriterStep(w) ==
    \/ \E v \in Value : LockToPublish(w, v)
    \/ Store(w)
    \/ Count(w)
    \/ Published(w)

ReaderStep ==
    \/ LockToRead
    \/ FindNothing
    \/ CopyValue
    \/ CopySequence
    \/ Skip
    \/ Accept
    \/ Discard
    \/ Restart

Next == (\E w \in Writer : WriterStep(w)) \/ ReaderStep

Spec == Init /\ [][Next]_vars

(* A thread inside a critical section leaves it.  The reader tries again    *)
(* and again, and since critical sections are short its try_lock does not   *)
(* fail for ever; nor does what it does with the values it reads.           *)
Fairness ==
    /\ \A w \in Writer : WF_vars(Store(w) \/ Count(w) \/ Published(w))
    /\ WF_vars(FindNothing \/ CopyValue \/ CopySequence \/ Skip)
    /\ SF_vars(LockToRead)
    /\ SF_vars(Accept)

FairSpec == Spec /\ Fairness

-----------------------------------------------------------------------------
(* The publication takes effect when the value is stored: from then on, and *)
(* before sequence_ counts it, the number the mailbox is about to show is   *)
(* one that nobody has accepted.                                            *)
Uncounted == \E w \in Writer : writing[w].at = "stored"

Holding == reading = "returned" /\ snapshot.sequence # last

Unread == Uncounted \/ sequence # last
Held == IF Holding THEN snapshot.value ELSE NoValue
Superseded == Holding /\ (Uncounted \/ sequence # snapshot.sequence)

TheBox == [value |-> value, unread |-> Unread, held |-> Held,
           superseded |-> Superseded]

Contract == INSTANCE MailboxContract WITH box <- TheBox

(* However the two threads interleave, and whichever try_lock fails, the    *)
(* reader sees a newest value and the truth about having accepted it.       *)
ImplementsContract == Contract!Spec

(* Every publication is eventually accepted or overtaken by a later one:    *)
(* "latest value" never means "stuck on an old value".                      *)
EveryPublicationArrives ==
    \A n \in 1 .. MaxSequence : (sequence = n) ~> (last >= n)

(* "require(worker.try_publish_status(status), "PLC worker rejected         *)
(* status")" (tests/test_main.cpp): the only publisher is never refused.    *)
(* It is, whenever its try_lock comes while the worker is inside try_read.  *)
PublishNeverRefused ==
    \A w \in Writer : writing[w].at = "idle" => mutex = NoThread

=============================================================================
