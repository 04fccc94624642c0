----------------------------- MODULE AuthFilter -----------------------------
(***************************************************************************)
(* What the receive path of a PacketSocket promises: the datagrams that    *)
(* reach the socket are taken in the order of their arrival; each one is   *)
(* handed on, once and unchanged, if it is authentic, and counted as       *)
(* rejected if it is not.  This goes on until the socket fails.            *)
(*                                                                         *)
(* RecvPath.tla, the model of poll_recv, is shown to implement this.       *)
(***************************************************************************)
EXTENDS Integers, Sequences

CONSTANTS
    Packets,    \* the packets that can reach the socket
    Authentic,  \* those the socket's authenticator accepts
    U64         \* number of values of a counter, 2^64

VARIABLES
    inbound,    \* the packets that have reached the socket, oldest first
    delivered,  \* the packets handed on
    rejected,   \* the counter of rejected packets
    closed      \* the socket has failed

vars == <<inbound, delivered, rejected, closed>>

Init ==
    /\ inbound = <<>>
    /\ delivered = <<>>
    /\ rejected = 0
    /\ closed = FALSE

Arrive ==
    /\ \E p \in Packets : inbound' = Append(inbound, p)
    /\ UNCHANGED <<delivered, rejected, closed>>

Deliver ==
    /\ ~closed
    /\ inbound # <<>>
    /\ Head(inbound) \in Authentic
    /\ delivered' = Append(delivered, Head(inbound))
    /\ inbound' = Tail(inbound)
    /\ UNCHANGED <<rejected, closed>>

Reject ==
    /\ ~closed
    /\ inbound # <<>>
    /\ Head(inbound) \notin Authentic
    /\ rejected' = (rejected + 1) % U64
    /\ inbound' = Tail(inbound)
    /\ UNCHANGED <<delivered, closed>>

Fail ==
    /\ closed' = TRUE
    /\ UNCHANGED <<inbound, delivered, rejected>>

Next == Arrive \/ Deliver \/ Reject \/ Fail

Spec == Init /\ [][Next]_vars

\* The filter does not stop while there is something to take.
FairSpec == Spec /\ WF_vars(Deliver \/ Reject)

=============================================================================
