------------------------ MODULE MCLatestValueMailbox ------------------------
(* LatestValueMailbox for TLC: the two threads of the program and, since    *)
(* the template does not forbid it, a second publisher.                     *)
EXTENDS LatestValueMailbox

CONSTANTS w1, w2, v1, v2

MCWriter == {w1, w2}
MCOneWriter == {w1}
MCValue == {v1, v2}

=============================================================================
