----------------------------- MODULE MCRecvPath -----------------------------
(* A server's socket, one client, and packets that differ in what the      *)
(* authenticator and a reused slot could confuse: a long and a short       *)
(* header, a token from another source, a token of the other direction, a  *)
(* truncated datagram and an IPv6 source.                                  *)
EXTENDS RecvPath

CONSTANTS client, server, other, v6, n1

MCTrunc80AES(k, m) == <<k, m.nonce, m.src, m.dst>>

Token(direction, src, dst) ==
    LET t == mint_between(direction, src, dst, n1)
    IN  [selector |-> t.selector, nonce |-> t.nonce, tag |-> t.tag]

C2S == Token("ClientToServer", client, server)

Packet(src, long, len, token) ==
    [src |-> src, datagram |-> [len |-> len, long |-> long, dcid_len |-> TOKEN_LEN, token |-> token]]

Initial == Packet(client, TRUE, 1200, C2S)
Short == Packet(client, FALSE, 60, C2S)
FromElsewhere == Packet(other, FALSE, 59, C2S)
OtherDirection == Packet(client, FALSE, 61, Token("ServerToClient", client, server))
Truncated == Packet(client, TRUE, 25, C2S)
OverIpv6 == Packet(v6, FALSE, 60, C2S)

AllPackets == {Initial, Short, FromElsewhere, OtherDirection, Truncated, OverIpv6}
TwoPackets == {Short, FromElsewhere}
FloodPackets == {FromElsewhere}

SomeErrors == {"ConnectionRefused", "PermissionDenied"}
TransientErrors == {"ConnectionRefused", "HostUnreachable"}

=============================================================================
