---------------------- MODULE LatestValueMailboxProofs ----------------------
(* The mailbox keeps its contract, for any set of writers and values.       *)
EXTENDS LatestValueMailbox, TLAPS

USE DEF vars

(* The mutex is held by whoever is inside a critical section. *)
LockInv ==
    /\ \A w \in Writer : writing[w].at # "idle" <=> mutex = w
    /\ reading \in {"locked", "copied"} <=> mutex = Reader

(* What the critical sections keep true of the data they guard: no number   *)
(* runs ahead of sequence_, the value is there once it has been counted or  *)
(* is about to be, and a copy is a copy.                                    *)
DataInv ==
    /\ last <= sequence
    /\ snapshot.sequence <= sequence
    /\ value # NoValue <=> (Uncounted \/ sequence # 0)
    /\ reading = "copied" => snapshot.value = value /\ value # NoValue
    /\ reading = "returned" => snapshot.value # NoValue
    /\ \A w \in Writer : writing[w].at # "idle" => writing[w].value \in Value

IInv == TypeOK /\ LockInv /\ DataInv

(* An empty mailbox that nobody uses. *)
LEMMA InitIInv == Init => IInv
BY ThreadAssumption DEF Init, IInv, TypeOK, LockInv, DataInv, Uncounted

(* Steps of a writer. *)
LEMMA WriterIInv ==
    ASSUME IInv, NEW w \in Writer, WriterStep(w)
    PROVE  IInv'
<1>. USE ThreadAssumption, NoValueAssumption DEF IInv, TypeOK, LockInv, DataInv
<1>1. ASSUME NEW v \in Value, LockToPublish(w, v) PROVE IInv'
  BY <1>1 DEF LockToPublish, Uncounted
<1>2. CASE Store(w)
  BY <1>2 DEF Store, Uncounted
<1>3. CASE Count(w)
  BY <1>3 DEF Count, Uncounted
<1>4. CASE Published(w)
  BY <1>4 DEF Published, Uncounted
<1>. QED
  BY <1>1, <1>2, <1>3, <1>4 DEF WriterStep

(* Steps of the reader. *)
LEMMA ReaderIInv == IInv /\ ReaderStep => IInv'
<1>. SUFFICES ASSUME IInv, ReaderStep PROVE IInv'
  OBVIOUS
<1>. USE ThreadAssumption DEF IInv, TypeOK, LockInv, DataInv, Uncounted
<1>1. CASE LockToRead
  BY <1>1 DEF LockToRead
<1>2. CASE FindNothing
  BY <1>2 DEF FindNothing
<1>3. CASE CopyValue
  BY <1>3 DEF CopyValue
<1>4. CASE CopySequence
  BY <1>4 DEF CopySequence
<1>5. CASE Skip \/ Discard
  BY <1>5 DEF Skip, Discard
<1>6. CASE Accept
  BY <1>6 DEF Accept
<1>7. CASE Restart
  BY <1>7 DEF Restart
<1>. QED
  BY <1>1, <1>2, <1>3, <1>4, <1>5, <1>6, <1>7 DEF ReaderStep

(* Every access of either thread keeps the invariant. *)
LEMMA NextIInv == IInv /\ [Next]_vars => IInv'
<1>1. IInv /\ UNCHANGED vars => IInv'
  BY DEF IInv, TypeOK, LockInv, DataInv, Uncounted
<1>. QED
  BY <1>1, WriterIInv, ReaderIInv DEF Next

(* The invariant holds in every behaviour, for any number of publishers and *)
(* publications.                                                            *)
THEOREM Invariance == Spec => []IInv
BY InitIInv, NextIInv, PTL DEF Spec

(* The mailbox keeps its types; in particular its mutex has one holder or   *)
(* none.                                                                    *)
THEOREM TypeCorrect == Spec => []TypeOK
BY Invariance, PTL DEF IInv

-----------------------------------------------------------------------------
(* Every step of the mailbox is a step of its contract, or none.            *)

(* A publication takes effect as its value is stored. *)
LEMMA StoreRefines ==
    ASSUME IInv, NEW w \in Writer, Store(w)
    PROVE  TheBox' = Contract!Published(TheBox, writing[w].value)
           /\ writing[w].value \in Value
<1>1. Uncounted'
  BY DEF Store, Uncounted, IInv, TypeOK
<1>2. value' = writing[w].value /\ Unread' /\ Held' = Held
      /\ Superseded' = (Held # NoValue)
  BY <1>1 DEF Store, Unread, Held, Superseded, Holding, IInv, DataInv
<1>3. writing[w].value \in Value
  BY DEF Store, IInv, DataInv
<1>. QED
  BY <1>2, <1>3 DEF TheBox, Contract!Published

(* The rest of try_publish the contract does not see. *)
LEMMA WriterStutters ==
    ASSUME IInv, NEW w \in Writer,
           (\E v \in Value : LockToPublish(w, v)) \/ Count(w) \/ Published(w)
    PROVE  TheBox' = TheBox
<1>. USE DEF TheBox, Unread, Held, Superseded, Holding, Uncounted
<1>1. ASSUME NEW v \in Value, LockToPublish(w, v) PROVE TheBox' = TheBox
  <2>1. ~Uncounted /\ ~Uncounted'
    BY <1>1, ThreadAssumption DEF LockToPublish, IInv, LockInv, TypeOK
  <2>. QED
    BY <1>1, <2>1 DEF LockToPublish
<1>2. CASE Count(w)
  <2>1. Uncounted /\ ~Uncounted'
    BY <1>2 DEF Count, IInv, LockInv, TypeOK
  <2>2. /\ sequence' # last'
        /\ sequence' # snapshot'.sequence
    BY <1>2 DEF Count, IInv, DataInv, TypeOK
  <2>. QED
    BY <1>2, <2>1, <2>2 DEF Count
<1>3. CASE Published(w)
  <2>1. ~Uncounted /\ ~Uncounted'
    BY <1>3 DEF Published, IInv, LockInv, TypeOK
  <2>. QED
    BY <1>3, <2>1 DEF Published
<1>. QED
  BY <1>1, <1>2, <1>3

(* A read takes effect as the sequence number is copied. *)
LEMMA ReaderRefines ==
    ASSUME IInv, ReaderStep
    PROVE  \/ TheBox' = TheBox
           \/ /\ Unread /\ Held = NoValue
              /\ TheBox' = Contract!Taken(TheBox)
           \/ Held # NoValue /\ TheBox' = Contract!Accepted(TheBox)
           \/ Held # NoValue /\ TheBox' = Contract!Discarded(TheBox)
           \/ Held = NoValue /\ TheBox' = Contract!Forgotten(TheBox)
<1>1. CASE LockToRead \/ FindNothing \/ CopyValue \/ Skip
  <2>1. Uncounted' = Uncounted /\ ~Holding /\ ~Holding'
    BY <1>1 DEF LockToRead, FindNothing, CopyValue, Skip, Uncounted, Holding
  <2>. QED
    BY <1>1, <2>1 DEF LockToRead, FindNothing, CopyValue, Skip, TheBox, Unread,
                      Held, Superseded
<1>2. CASE CopySequence
  <2>1. ~Uncounted /\ ~Uncounted' /\ ~Holding
    BY <1>2, ThreadAssumption DEF CopySequence, Uncounted, Holding, IInv, LockInv
  <2>2. snapshot' = [value |-> value, sequence |-> sequence]
    BY <1>2 DEF CopySequence, IInv, DataInv, TypeOK
  <2>3. Holding' = (sequence # last)
    BY <1>2, <2>2 DEF CopySequence, Holding
  <2>4. Unread' = Unread /\ Superseded' = Superseded /\ value' = value
        /\ Held = NoValue
    BY <1>2, <2>1, <2>2, <2>3 DEF CopySequence, Unread, Superseded, Held
  <2>5. CASE sequence # last
    <3>1. Unread /\ Held' = value
      BY <1>2, <2>2, <2>5 DEF CopySequence, Unread, Held, Holding
    <3>. QED
      BY <2>4, <3>1 DEF TheBox, Contract!Taken
  <2>6. CASE sequence = last
    BY <1>2, <2>3, <2>4, <2>6 DEF CopySequence, Held, TheBox
  <2>. QED
    BY <2>5, <2>6
<1>3. CASE Accept
  <2>1. Uncounted' = Uncounted /\ Holding /\ ~Holding'
    BY <1>3 DEF Accept, Uncounted, Holding
  <2>2. Held # NoValue /\ Held' = NoValue /\ Superseded' = FALSE /\ Unread' = Superseded
    BY <1>3, <2>1 DEF Accept, Held, Superseded, Unread, IInv, DataInv
  <2>. QED
    BY <1>3, <2>2 DEF Accept, TheBox, Contract!Accepted
<1>4. CASE Discard
  <2>1. Uncounted' = Uncounted /\ Holding /\ ~Holding'
    BY <1>4 DEF Discard, Uncounted, Holding
  <2>2. Held # NoValue /\ Held' = NoValue /\ Superseded' = FALSE /\ Unread' = Unread
    BY <1>4, <2>1 DEF Discard, Held, Superseded, Unread, IInv, DataInv
  <2>. QED
    BY <1>4, <2>2 DEF Discard, TheBox, Contract!Discarded
<1>5. CASE Restart
  <2>1. Uncounted' = Uncounted /\ ~Holding /\ ~Holding'
    BY <1>5 DEF Restart, Uncounted, Holding
  <2>2. Unread' = (value # NoValue)
    BY <1>5, <2>1 DEF Restart, Unread, IInv, DataInv
  <2>3. Held = NoValue /\ Held' = Held /\ Superseded' = Superseded
    BY <2>1 DEF Held, Superseded
  <2>. QED
    BY <1>5, <2>2, <2>3 DEF Restart, TheBox, Contract!Forgotten
<1>. QED
  BY <1>1, <1>2, <1>3, <1>4, <1>5 DEF ReaderStep

(* However the threads interleave, a latest-value mailbox is one value with *)
(* a flag that says whether its reader has accepted it.                     *)
THEOREM MailboxImplementsContract == Spec => ImplementsContract
<1>1. Init => Contract!Init
  <2>. SUFFICES ASSUME Init PROVE Contract!Init
    OBVIOUS
  <2>1. ~Uncounted /\ ~Holding
    BY DEF Init, Uncounted, Holding
  <2>2. Unread = FALSE /\ Held = NoValue /\ Superseded = FALSE
    BY <2>1 DEF Init, Unread, Held, Superseded
  <2>. QED
    BY <2>2 DEF Init, TheBox, Contract!Init, Contract!Empty
<1>2. ASSUME IInv, [Next]_vars PROVE [Contract!Next]_TheBox
  <2>1. ASSUME NEW w \in Writer, WriterStep(w) PROVE [Contract!Next]_TheBox
    <3>1. CASE Store(w)
      BY <1>2, <3>1, StoreRefines DEF Contract!Next, Contract!Publish
    <3>2. CASE ~Store(w)
      BY <1>2, <2>1, <3>2, WriterStutters DEF WriterStep
    <3>. QED
      BY <3>1, <3>2
  <2>2. CASE ReaderStep
    <3>1. TheBox.unread = Unread /\ TheBox.held = Held
      BY DEF TheBox
    <3>. QED
      BY <1>2, <2>2, <3>1, ReaderRefines
         DEF Contract!Next, Contract!Take, Contract!Accept, Contract!Discard,
             Contract!Forget
  <2>3. CASE UNCHANGED vars
    BY <2>3 DEF TheBox, Unread, Held, Superseded, Uncounted, Holding
  <2>. QED
    BY <1>2, <2>1, <2>2, <2>3 DEF Next
<1>. QED
  BY <1>1, <1>2, Invariance, PTL DEF Spec, ImplementsContract, Contract!Spec

=============================================================================
