----------------------------- MODULE Watchdog -------------------------------
(* The watchdog as a value that its owner keeps: how long ago it was kicked *)
(* and whether it ever was.  Time is counted in control cycles, and elapsed *)
(* time stops at Timeout, since the only question ever asked of it is       *)
(* whether it has come that far.                                            *)
EXTENDS Naturals

CONSTANT Timeout   \* timeout_seconds_, in control cycles

ASSUME TimeoutAssumption == Timeout \in Nat \ {0}

WatchdogState == [elapsed : 0 .. Timeout, armed : BOOLEAN]

NewWatchdog == [elapsed |-> 0, armed |-> FALSE]

(* Two defects: the elapsed time is left as it is; a watchdog that has      *)
(* expired stays so.                                                        *)
KickWithoutReset(w) == [w EXCEPT !.armed = TRUE]

KickUnlessExpired(w) ==
    IF w.armed /\ w.elapsed >= Timeout THEN w ELSE [elapsed |-> 0, armed |-> TRUE]

Kick(w) == [elapsed |-> 0, armed |-> TRUE]

(* A watchdog that was never kicked does not count. *)
Advance(w) ==
    IF w.armed /\ w.elapsed < Timeout
    THEN [w EXCEPT !.elapsed = w.elapsed + 1] ELSE w

Expired(w) == w.armed /\ w.elapsed >= Timeout

=============================================================================
