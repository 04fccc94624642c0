-------------------------------- MODULE Auth --------------------------------
(***************************************************************************)
(* The pure part of src/auth.rs: the token format, minting, verification,  *)
(* the parser that finds the destination connection ID of a datagram, the  *)
(* Authenticator and the connection ID generators.  There is no state      *)
(* here; the modules that have some are built on these operators.          *)
(*                                                                         *)
(* A nonce is drawn from the random number generator at each mint; here it *)
(* is a parameter, which the calling action chooses with \E.               *)
(***************************************************************************)
EXTENDS Integers

CONSTANTS
    Ipv4Addr,         \* the IPv4 addresses a packet can carry as its source
    Ipv6Addr,         \* the IPv6 addresses
    UNSPECIFIED,      \* Ipv4Addr::UNSPECIFIED, 0.0.0.0: no packet's source
    Nonce,            \* the values of the 8-byte nonce field
    Trunc80AES(_, _)  \* Trunc80(AES(key, message)), the cipher of crate aes

-----------------------------------------------------------------------------
(* Lengths, directions and keys.                                           *)

TOKEN_LEN == 20
SELECTOR_LEN == 2
NONCE_LEN == 8
TAG_LEN == 10
AES_BLOCK_LEN == 16

\* The two compile-time assertions on the layout.
ASSUME LayoutAssumption ==
    /\ SELECTOR_LEN + NONCE_LEN + TAG_LEN = TOKEN_LEN
    /\ NONCE_LEN + 2 * 4 = AES_BLOCK_LEN

Direction == {"ClientToServer", "ServerToClient"}

selector(direction) == IF direction = "ClientToServer" THEN 1 ELSE 2

key(direction) == IF direction = "ClientToServer" THEN "F_AB" ELSE "F_BA"

\* The directions whose selector is n: one of them, or none.
from_selector(n) == {direction \in Direction : selector(direction) = n}

\* The <<source, destination>> pair of a packet travelling `direction'.
path(direction, peers) ==
    IF direction = "ClientToServer" THEN <<peers.client, peers.server>>
                                    ELSE <<peers.server, peers.client>>

-----------------------------------------------------------------------------
(* The tag.  The cipher is external.  What the scheme asks of it is that   *)
(* the tags of the messages in play differ; an 80-bit coincidence is left  *)
(* out by this assumption and by nothing else.                             *)

TokenAddr == Ipv4Addr \cup {UNSPECIFIED}
Key == {"F_AB", "F_BA"}
Message == [nonce : Nonce, src : TokenAddr, dst : TokenAddr]

ASSUME AddrAssumption ==
    /\ UNSPECIFIED \notin Ipv4Addr
    /\ Ipv6Addr \cap TokenAddr = {}

ASSUME TagAssumption ==
    \A k1, k2 \in Key : \A m1, m2 \in Message :
        Trunc80AES(k1, m1) = Trunc80AES(k2, m2) => k1 = k2 /\ m1 = m2

tag(k, nonce, src, dst) ==
    Trunc80AES(k, [nonce |-> nonce, src |-> src, dst |-> dst])

-----------------------------------------------------------------------------
(* Connection IDs.  A connection ID has a length and the three fields a    *)
(* token of full length has; what the fields of a shorter one hold is      *)
(* never looked at.                                                        *)

\* Mutant: the tag is written over the nonce.
BugOverlap(direction, nonce, src, dst) ==
    LET t == tag(key(direction), nonce, src, dst)
    IN  [len |-> TOKEN_LEN, selector |-> selector(direction), nonce |-> t, tag |-> t]

assemble(direction, nonce, src, dst) ==
    [len      |-> TOKEN_LEN,
     selector |-> selector(direction),
     nonce    |-> nonce,
     tag      |-> tag(key(direction), nonce, src, dst)]

mint_between(direction, src, dst, nonce) == assemble(direction, nonce, src, dst)

mint(direction, peers, nonce) ==
    LET p == path(direction, peers) IN mint_between(direction, p[1], p[2], nonce)

\* The fold over the exclusive ors is zero when the slices agree everywhere.
constant_time_eq(a, b) == a = b

\* Mutant: the direction the selector names is not compared.
BugAnyDirection(token, direction, src, dst) ==
    IF token.len # TOKEN_LEN THEN "BadLength"
    ELSE IF from_selector(token.selector) = {} THEN "UnknownSelector"
    ELSE IF constant_time_eq(token.tag, tag(key(direction), token.nonce, src, dst))
         THEN "Ok"
         ELSE "BadTag"

\* "Ok", or the AuthError of the first test that fails.
verify(token, direction, src, dst) ==
    IF token.len # TOKEN_LEN THEN "BadLength"
    ELSE IF from_selector(token.selector) = {} THEN "UnknownSelector"
    ELSE IF direction \notin from_selector(token.selector) THEN "WrongDirection"
    ELSE IF constant_time_eq(token.tag, tag(key(direction), token.nonce, src, dst))
         THEN "Ok"
         ELSE "BadTag"

-----------------------------------------------------------------------------
(* Datagrams.  `long' is the header form bit, `dcid_len' the byte at       *)
(* offset 5 of a long header, `token' the three fields read at the offset  *)
(* where the header form puts the connection ID.                           *)

CidOffset(datagram) == IF datagram.long THEN 6 ELSE 1

CidLen(datagram) == IF datagram.long THEN datagram.dcid_len ELSE TOKEN_LEN

\* destination_cid returns Some.
HasDestinationCid(datagram) ==
    /\ datagram.len > 0
    /\ datagram.long => datagram.len > 5 /\ datagram.dcid_len <= TOKEN_LEN
    /\ CidOffset(datagram) + CidLen(datagram) <= datagram.len

destination_cid(datagram) ==
    [len      |-> CidLen(datagram),
     selector |-> datagram.token.selector,
     nonce    |-> datagram.token.nonce,
     tag      |-> datagram.token.tag]

\* Authenticator::check for an authenticator [inbound, local_ip].
check(authenticator, datagram, src) ==
    IF src \notin TokenAddr THEN "NotIpv4"
    ELSE IF ~HasDestinationCid(datagram) THEN "NotQuic"
    ELSE verify(destination_cid(datagram), authenticator.inbound,
                src, authenticator.local_ip)

-----------------------------------------------------------------------------
(* Connection ID generators, [direction, local_ip].                        *)

generate_cid(generator, nonce) ==
    mint_between(generator.direction, UNSPECIFIED, generator.local_ip, nonce)

generate_cid_for(generator, remote, nonce) ==
    IF remote \notin TokenAddr
    THEN mint_between(generator.direction, UNSPECIFIED, generator.local_ip, nonce)
    ELSE mint_between(generator.direction, remote, generator.local_ip, nonce)

initial_dst_cid_provider(peers, nonce) == mint("ClientToServer", peers, nonce)

-----------------------------------------------------------------------------
(* What the check is for, said without the check.                          *)

\* The datagram holds all the bytes of a token where its header form says.
CarriesWholeToken(datagram) ==
    IF datagram.long
    THEN datagram.dcid_len = TOKEN_LEN /\ datagram.len >= 1 + 4 + 1 + TOKEN_LEN
    ELSE datagram.len >= 1 + TOKEN_LEN

\* The datagram carries a token minted for this direction and path, as it was
\* minted.
CarriesTokenOf(datagram, direction, src, dst) ==
    /\ CarriesWholeToken(datagram)
    /\ \E nonce \in Nonce :
          destination_cid(datagram) = mint_between(direction, src, dst, nonce)

=============================================================================
