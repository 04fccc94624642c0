----------------------------- MODULE AuthProofs -----------------------------
(***************************************************************************)
(* What verify and Authenticator::check decide, for every set of addresses *)
(* and nonces and every tag function without collisions.                   *)
(***************************************************************************)
EXTENDS Auth, TLAPS

\* The two directions have different selectors and different keys, so the
\* selector read from a token names at most one direction (auth.rs:126-146).
LEMMA SelectorsDistinguish ==
    ASSUME NEW d1 \in Direction, NEW d2 \in Direction
    PROVE  /\ selector(d1) = selector(d2) <=> d1 = d2
           /\ key(d1) = key(d2) <=> d1 = d2
           /\ d1 \in from_selector(selector(d2)) <=> d1 = d2
           /\ key(d1) \in Key
  BY DEF Direction, selector, key, from_selector, Key

\* verify accepts a token exactly if it is the one assemble makes from its own
\* nonce for the direction and path it is verified for: "BadLength",
\* "UnknownSelector", "WrongDirection" and "BadTag" cover all the ways to differ.
LEMMA VerifyIsReassembly ==
    ASSUME NEW direction \in Direction, NEW src, NEW dst,
           NEW len, NEW sel, NEW nonce, NEW t
    PROVE  LET token == [len |-> len, selector |-> sel, nonce |-> nonce, tag |-> t]
           IN  verify(token, direction, src, dst) = "Ok"
               <=> token = assemble(direction, nonce, src, dst)
<1> DEFINE token == [len |-> len, selector |-> sel, nonce |-> nonce, tag |-> t]
<1>1. direction \in from_selector(sel) <=> sel = selector(direction)
  BY DEF from_selector
<1>2. verify(token, direction, src, dst) = "Ok"
      <=> /\ len = TOKEN_LEN
          /\ direction \in from_selector(sel)
          /\ t = tag(key(direction), nonce, src, dst)
  BY DEF verify, constant_time_eq
<1>3. token = assemble(direction, nonce, src, dst)
      <=> /\ len = TOKEN_LEN
          /\ sel = selector(direction)
          /\ t = tag(key(direction), nonce, src, dst)
  BY DEF assemble
<1> QED BY <1>1, <1>2, <1>3

\* Tokens made for different directions, paths or nonces differ: a token
\* belongs to the one path and direction it was minted for.
LEMMA TokensAreBound ==
    ASSUME NEW d1 \in Direction, NEW s1 \in TokenAddr, NEW t1 \in TokenAddr, NEW n1 \in Nonce,
           NEW d2 \in Direction, NEW s2 \in TokenAddr, NEW t2 \in TokenAddr, NEW n2 \in Nonce,
           assemble(d1, n1, s1, t1).tag = assemble(d2, n2, s2, t2).tag
    PROVE  d1 = d2 /\ s1 = s2 /\ t1 = t2 /\ n1 = n2
<1> DEFINE m1 == [nonce |-> n1, src |-> s1, dst |-> t1]
           m2 == [nonce |-> n2, src |-> s2, dst |-> t2]
<1>1. m1 \in Message /\ m2 \in Message
  BY DEF Message
<1>2. Trunc80AES(key(d1), m1) = Trunc80AES(key(d2), m2)
  BY DEF assemble, tag
<1>3. key(d1) = key(d2) /\ m1 = m2
  BY <1>1, <1>2, SelectorsDistinguish, TagAssumption
<1> QED BY <1>3, SelectorsDistinguish

\* The parser finds a full-length connection ID exactly in the datagrams that
\* hold all its bytes: its bounds (auth.rs:265-281) are neither too tight nor
\* too loose.
LEMMA ParserFindsWholeTokens ==
    ASSUME NEW d, d.len \in Nat, d.long \in BOOLEAN, d.dcid_len \in Nat
    PROVE  HasDestinationCid(d) /\ CidLen(d) = TOKEN_LEN <=> CarriesWholeToken(d)
  BY DEF HasDestinationCid, CidLen, CidOffset, CarriesWholeToken, TOKEN_LEN

\* Authenticator::check answers Ok exactly if the source is an IPv4 address
\* and the datagram carries a whole token minted for the authenticator's
\* direction on the path from that source to the authenticator's own address.
THEOREM CheckDecidesOrigin ==
    ASSUME NEW a, a.inbound \in Direction,
           NEW d, d.len \in Nat, d.long \in BOOLEAN, d.dcid_len \in Nat,
           d.token.nonce \in Nonce,
           NEW src
    PROVE  check(a, d, src) = "Ok"
           <=> src \in TokenAddr /\ CarriesTokenOf(d, a.inbound, src, a.local_ip)
<1> DEFINE cid == destination_cid(d)
           minted(n) == mint_between(a.inbound, src, a.local_ip, n)
<1>1. cid = [len |-> CidLen(d), selector |-> d.token.selector,
             nonce |-> d.token.nonce, tag |-> d.token.tag]
  BY DEF destination_cid
<1>2. verify(cid, a.inbound, src, a.local_ip) = "Ok" <=> cid = minted(d.token.nonce)
  BY <1>1, VerifyIsReassembly DEF mint_between
<1>3. \A n : minted(n).nonce = n /\ minted(n).len = TOKEN_LEN
  BY DEF mint_between, assemble
<1>4. cid = minted(d.token.nonce) <=> \E n \in Nonce : cid = minted(n)
  BY <1>1, <1>3
<1>5. cid = minted(d.token.nonce) => CidLen(d) = TOKEN_LEN
  BY <1>1, <1>3
<1>6. check(a, d, src) = "Ok"
      <=> /\ src \in TokenAddr
          /\ HasDestinationCid(d)
          /\ verify(cid, a.inbound, src, a.local_ip) = "Ok"
  BY DEF check
<1>7. HasDestinationCid(d) /\ CidLen(d) = TOKEN_LEN <=> CarriesWholeToken(d)
  BY ParserFindsWholeTokens
<1> QED BY <1>2, <1>4, <1>5, <1>6, <1>7 DEF CarriesTokenOf

=============================================================================
