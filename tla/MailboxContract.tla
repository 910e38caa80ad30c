-------------------------- MODULE MailboxContract ---------------------------
(* What a latest-value mailbox promises a reader who compares sequence      *)
(* numbers: at any time there is one newest value, the reader knows whether *)
(* it has accepted it, and a value published while the reader is busy with  *)
(* an older one is still news afterwards.  The numbers themselves are gone. *)

CONSTANTS
    Value,    \* what is published
    NoValue   \* nothing published, nothing in hand; not a Value

VARIABLE box

(* value: the newest value; unread: the reader has not accepted it; held:   *)
(* what the reader is busy with; superseded: a newer value came since.      *)
Box == [value : Value \cup {NoValue}, unread : BOOLEAN,
        held : Value \cup {NoValue}, superseded : BOOLEAN]

Empty == [value |-> NoValue, unread |-> FALSE, held |-> NoValue,
          superseded |-> FALSE]

Published(b, v) ==
    [value |-> v, unread |-> TRUE, held |-> b.held,
     superseded |-> b.held # NoValue]

Taken(b) ==
    [value |-> b.value, unread |-> b.unread, held |-> b.value,
     superseded |-> b.superseded]

Accepted(b) ==
    [value |-> b.value, unread |-> b.superseded, held |-> NoValue,
     superseded |-> FALSE]

Discarded(b) ==
    [value |-> b.value, unread |-> b.unread, held |-> NoValue,
     superseded |-> FALSE]

Forgotten(b) ==
    [value |-> b.value, unread |-> b.value # NoValue, held |-> b.held,
     superseded |-> b.superseded]

TypeOK == box \in Box

Init == box = Empty

Publish(v) == box' = Published(box, v)

Take == /\ box.unread
        /\ box.held = NoValue
        /\ box' = Taken(box)

Accept == box.held # NoValue /\ box' = Accepted(box)

(* The reader could not make use of the value and will take it again. *)
Discard == box.held # NoValue /\ box' = Discarded(box)

(* A reader that is started anew has accepted nothing. *)
Forget == box.held = NoValue /\ box' = Forgotten(box)

Next == (\E v \in Value : Publish(v)) \/ Take \/ Accept \/ Discard \/ Forget

Spec == Init /\ [][Next]_box

=============================================================================
