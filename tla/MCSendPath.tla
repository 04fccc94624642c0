----------------------------- MODULE MCSendPath -----------------------------
(* Two senders and a send buffer of one datagram, so that each finds the   *)
(* buffer full, and the readiness cleared, because of the other.           *)
EXTENDS SendPath

CONSTANTS s1, s2

=============================================================================
