---------------------------- MODULE MCConnection ----------------------------
(* Two IPs with two ports: a client may be where it has bound, or move to  *)
(* another port or another IP.                                             *)
EXTENDS Connection

CONSTANTS a1, a2

MCTrunc80AES(k, m) == <<k, m.nonce, m.src, m.dst>>
MCNonce == {"initial", "scid", "server"} \X Clients \X (0 .. MaxAccepts)
MCLocalIp == [c \in Clients |-> a1]
MCAddresses == {[ip |-> a1, port |-> 1], [ip |-> a1, port |-> 2], [ip |-> a2, port |-> 1]}

=============================================================================
