------------------------------ MODULE TokenLife ------------------------------
(***************************************************************************)
(* The life of one connection ID: it is minted by one of the functions of  *)
(* src/auth.rs that mint, it may be altered on its way, it travels in a    *)
(* datagram of some header form and length, and an Authenticator somewhere *)
(* gives its verdict.  The module composes minting with checking, so that  *)
(* the verdict can be compared with where the token really came from.      *)
(***************************************************************************)
EXTENDS Auth

CONSTANTS
    Selectors,     \* values an altered selector field may hold
    ForgedTags,    \* values an altered tag field may hold
    DatagramLens,  \* lengths of the datagrams that reach an authenticator
    DcidLens       \* values of the byte at offset 5 of a datagram

ASSUME WireAssumption ==
    /\ Selectors \subseteq Nat
    /\ DatagramLens \subseteq Nat
    /\ DcidLens \subseteq Nat

VARIABLES
    stage,   \* "mint", "carried" or "checked"
    origin,  \* for which direction and path the token was minted, and whether
             \* it still is what was minted
    cid,     \* the connection ID
    seen,    \* the datagram, its source and the authenticator it reached
    verdict  \* the result of Authenticator::check

vars == <<stage, origin, cid, seen, verdict>>

Generator == [direction : Direction, local_ip : TokenAddr]
Authenticator == [inbound : Direction, local_ip : TokenAddr]
RemoteAddr == Ipv4Addr \cup Ipv6Addr
Origin == [direction : Direction, src : TokenAddr, dst : TokenAddr, intact : BOOLEAN]

Init ==
    /\ stage = "mint"
    /\ origin = <<>>
    /\ cid = <<>>
    /\ seen = <<>>
    /\ verdict = "none"

-----------------------------------------------------------------------------

Minted(direction, src, dst, token) ==
    /\ stage = "mint"
    /\ stage' = "carried"
    /\ origin' = [direction |-> direction, src |-> src, dst |-> dst, intact |-> TRUE]
    /\ cid' = token
    /\ UNCHANGED <<seen, verdict>>

\* The client picks the destination connection ID of its Initial packet.
MintInitial ==
    \E peers \in [client : TokenAddr, server : TokenAddr], nonce \in Nonce :
        Minted("ClientToServer", peers.client, peers.server,
               initial_dst_cid_provider(peers, nonce))

\* Quinn asks an endpoint for a connection ID for the peer at `remote'.
GenerateCidFor ==
    \E g \in Generator, remote \in RemoteAddr, nonce \in Nonce :
        Minted(g.direction, IF remote \in Ipv4Addr THEN remote ELSE UNSPECIFIED,
               g.local_ip, generate_cid_for(g, remote, nonce))

\* A Quinn without the patch asks for one without saying for whom.
GenerateCid ==
    \E g \in Generator, nonce \in Nonce :
        Minted(g.direction, UNSPECIFIED, g.local_ip, generate_cid(g, nonce))

\* Some key gives the tag t to the nonce on some path.
IsTagOf(t, nonce) ==
    \E k \in Key, src, dst \in TokenAddr : t = tag(k, nonce, src, dst)

\* One field of the token is altered on the way.  A new tag is one that no key
\* gives to the token's nonce: to guess such a tag is the 80-bit coincidence
\* that TagAssumption leaves out.
Corrupt ==
    /\ stage = "carried"
    /\ origin.intact
    /\ \/ \E s \in Selectors \ {cid.selector} : cid' = [cid EXCEPT !.selector = s]
       \/ \E n \in Nonce \ {cid.nonce} : cid' = [cid EXCEPT !.nonce = n]
       \/ \E t \in ForgedTags : /\ ~IsTagOf(t, cid.nonce)
                              /\ cid' = [cid EXCEPT !.tag = t]
    /\ origin' = [origin EXCEPT !.intact = FALSE]
    /\ UNCHANGED <<stage, seen, verdict>>

DatagramOf(token, len, long, dcid_len) ==
    [len |-> len, long |-> long, dcid_len |-> dcid_len,
     token |-> [selector |-> token.selector, nonce |-> token.nonce, tag |-> token.tag]]

\* A datagram that has the token where its header form puts the connection
\* ID, as much of it as its length allows, reaches an authenticator.
Check ==
    /\ stage = "carried"
    /\ stage' = "checked"
    /\ \E len \in DatagramLens, long \in BOOLEAN, dcid_len \in DcidLens,
          src \in RemoteAddr, a \in Authenticator :
          LET d == DatagramOf(cid, len, long, dcid_len) IN
          /\ seen' = [datagram |-> d, src |-> src, authenticator |-> a]
          /\ verdict' = check(a, d, src)
    /\ UNCHANGED <<origin, cid>>

Next == MintInitial \/ GenerateCidFor \/ GenerateCid \/ Corrupt \/ Check

Spec == Init /\ [][Next]_vars

-----------------------------------------------------------------------------

Verdicts == {"Ok", "NotIpv4", "NotQuic", "BadLength", "UnknownSelector",
             "WrongDirection", "BadTag"}

\* Type invariant: the verdict is one of the results of Authenticator::check,
\* and once a token exists it carries a nonce and a known origin.
TypeOK ==
    /\ stage \in {"mint", "carried", "checked"}
    /\ verdict \in Verdicts \cup {"none"}
    /\ stage # "mint" => origin \in Origin /\ cid.nonce \in Nonce
    /\ (stage = "checked") = (verdict # "none")

\* Authenticator::check answers Ok exactly for a whole, unaltered token that
\* was minted for the authenticator's direction, the datagram's source and the
\* authenticator's own address.  So a token minted for a known peer is accepted
\* from that peer, one minted without a peer address or for an IPv6 peer
\* (auth.rs:333 "guaranteed not to authenticate") is accepted from nobody, one
\* of the other direction or from another path is refused, and so is every
\* one-field corruption and every truncation.
AcceptsExactlyWhatWasMinted ==
    stage = "checked" =>
        (verdict = "Ok" <=>
            /\ origin = [direction |-> seen.authenticator.inbound,
                         src       |-> seen.src,
                         dst       |-> seen.authenticator.local_ip,
                         intact    |-> TRUE]
            /\ CarriesWholeToken(seen.datagram))

=============================================================================
