--------------------------- MODULE TokenLifeProofs ---------------------------
(***************************************************************************)
(* The verdict on a token agrees with its origin, for all addresses,       *)
(* nonces, datagram lengths and corruptions.                               *)
(***************************************************************************)
EXTENDS TokenLife, AuthProofs

\* A connection ID that exists has the fields of a token of full length.
IsToken(c) ==
    /\ c = [len |-> TOKEN_LEN, selector |-> c.selector, nonce |-> c.nonce, tag |-> c.tag]
    /\ c.nonce \in Nonce

\* The inductive invariant: an intact token is what assemble makes for its
\* origin, an altered one is what assemble makes for no path at all.
TokenInv ==
    /\ TypeOK
    /\ stage # "mint" =>
          /\ origin \in Origin
          /\ IsToken(cid)
          /\ origin.intact => cid = assemble(origin.direction, cid.nonce, origin.src, origin.dst)
          /\ ~origin.intact =>
                \A direction \in Direction : \A src, dst \in TokenAddr :
                    cid # assemble(direction, cid.nonce, src, dst)
    /\ AcceptsExactlyWhatWasMinted

\* assemble makes a token of full length with the nonce it is given.
LEMMA AssembleMakesTokens ==
    ASSUME NEW direction, NEW nonce \in Nonce, NEW src, NEW dst
    PROVE  /\ IsToken(assemble(direction, nonce, src, dst))
           /\ assemble(direction, nonce, src, dst).nonce = nonce
  BY DEF IsToken, assemble

\* A step that mints a token for `src' and `dst' establishes the invariant.
LEMMA MintedEstablishes ==
    ASSUME NEW direction \in Direction, NEW src \in TokenAddr, NEW dst \in TokenAddr,
           NEW nonce \in Nonce,
           TokenInv, Minted(direction, src, dst, assemble(direction, nonce, src, dst))
    PROVE  TokenInv'
<1>1. /\ stage = "mint" /\ stage' = "carried"
      /\ origin' = [direction |-> direction, src |-> src, dst |-> dst, intact |-> TRUE]
      /\ cid' = assemble(direction, nonce, src, dst)
      /\ verdict' = verdict
  BY DEF Minted
<1>2. origin' \in Origin
  BY <1>1 DEF Origin
<1>3. IsToken(cid') /\ cid'.nonce = nonce
  BY <1>1, AssembleMakesTokens
<1>4. TypeOK'
  BY <1>1, <1>2, <1>3 DEF TokenInv, TypeOK
<1>5. cid' = assemble(origin'.direction, cid'.nonce, origin'.src, origin'.dst)
  BY <1>1, <1>3
<1> QED BY <1>1, <1>2, <1>3, <1>4, <1>5 DEF TokenInv, AcceptsExactlyWhatWasMinted

\* Altering one field of an intact token makes it a token of no path.
LEMMA CorruptPreserves == TokenInv /\ Corrupt => TokenInv'
<1> SUFFICES ASSUME TokenInv, Corrupt PROVE TokenInv'
  OBVIOUS
<1>1. /\ stage = "carried" /\ stage' = stage /\ verdict' = verdict
      /\ origin.intact
      /\ origin' = [origin EXCEPT !.intact = FALSE]
  BY DEF Corrupt
<1>2. /\ origin \in Origin
      /\ IsToken(cid)
      /\ cid = assemble(origin.direction, cid.nonce, origin.src, origin.dst)
  BY <1>1 DEF TokenInv
<1>3. origin' \in Origin /\ ~origin'.intact
  BY <1>1, <1>2 DEF Origin
<1>4. IsToken(cid') /\ \A direction \in Direction : \A src, dst \in TokenAddr :
                           cid' # assemble(direction, cid'.nonce, src, dst)
  <2> SUFFICES ASSUME NEW direction \in Direction, NEW src \in TokenAddr, NEW dst \in TokenAddr
               PROVE  IsToken(cid') /\ cid' # assemble(direction, cid'.nonce, src, dst)
    <3>1. TokenAddr # {} /\ Direction # {}
      BY DEF TokenAddr, Direction
    <3> QED BY <3>1
  <2>1. /\ origin.direction \in Direction
        /\ origin.src \in TokenAddr /\ origin.dst \in TokenAddr
    BY <1>2 DEF Origin
  <2>2. CASE \E s \in Selectors \ {cid.selector} : cid' = [cid EXCEPT !.selector = s]
    <3>1. PICK s \in Selectors \ {cid.selector} : cid' = [cid EXCEPT !.selector = s]
      BY <2>2
    <3>2. /\ IsToken(cid')
          /\ cid'.nonce = cid.nonce /\ cid'.tag = cid.tag /\ cid'.selector # cid.selector
      BY <1>2, <3>1 DEF IsToken
    <3>3. ASSUME cid' = assemble(direction, cid'.nonce, src, dst) PROVE FALSE
      <4>1. /\ assemble(origin.direction, cid.nonce, origin.src, origin.dst).tag
               = assemble(direction, cid.nonce, src, dst).tag
        BY <1>2, <3>2, <3>3
      <4>2. origin.direction = direction
        BY <2>1, <4>1, <1>2, TokensAreBound DEF IsToken
      <4>3. cid.selector = selector(direction) /\ cid'.selector = selector(direction)
        BY <1>2, <3>3, <4>2 DEF assemble
      <4> QED BY <3>2, <4>3
    <3> QED BY <3>2, <3>3
  <2>3. CASE \E n \in Nonce \ {cid.nonce} : cid' = [cid EXCEPT !.nonce = n]
    <3>1. PICK n \in Nonce \ {cid.nonce} : cid' = [cid EXCEPT !.nonce = n]
      BY <2>3
    <3>2. IsToken(cid') /\ cid'.nonce = n /\ cid'.tag = cid.tag
      BY <1>2, <3>1 DEF IsToken
    <3>3. ASSUME cid' = assemble(direction, cid'.nonce, src, dst) PROVE FALSE
      <4>1. assemble(origin.direction, cid.nonce, origin.src, origin.dst).tag
            = assemble(direction, n, src, dst).tag
        BY <1>2, <3>2, <3>3
      <4>2. cid.nonce = n
        BY <2>1, <4>1, <1>2, TokensAreBound DEF IsToken
      <4> QED BY <4>2
    <3> QED BY <3>2, <3>3
  <2>4. CASE \E t \in ForgedTags : ~IsTagOf(t, cid.nonce) /\ cid' = [cid EXCEPT !.tag = t]
    <3>1. PICK t \in ForgedTags : ~IsTagOf(t, cid.nonce) /\ cid' = [cid EXCEPT !.tag = t]
      BY <2>4
    <3>2. IsToken(cid') /\ cid'.nonce = cid.nonce /\ cid'.tag = t
      BY <1>2, <3>1 DEF IsToken
    <3>3. assemble(direction, cid.nonce, src, dst).tag = tag(key(direction), cid.nonce, src, dst)
      BY DEF assemble
    <3>4. key(direction) \in Key
      BY SelectorsDistinguish
    <3>5. t # tag(key(direction), cid.nonce, src, dst)
      BY <3>1, <3>4 DEF IsTagOf
    <3> QED BY <3>2, <3>3, <3>5
  <2> QED BY <2>2, <2>3, <2>4 DEF Corrupt
<1>5. TypeOK'
  BY <1>1, <1>3, <1>4 DEF TokenInv, TypeOK, IsToken
<1> QED BY <1>1, <1>3, <1>4, <1>5 DEF TokenInv, AcceptsExactlyWhatWasMinted

\* The verdict of Authenticator::check is one of the seven results.
LEMMA CheckReturnsVerdict ==
    ASSUME NEW a, NEW d, NEW src
    PROVE  check(a, d, src) \in Verdicts
  BY DEF check, verify, Verdicts

\* The check of a token that has the invariant gives the right verdict.
LEMMA CheckPreserves == TokenInv /\ Check => TokenInv'
<1> SUFFICES ASSUME TokenInv, Check PROVE TokenInv'
  OBVIOUS
<1>1. PICK len \in DatagramLens, long \in BOOLEAN, dcid_len \in DcidLens,
           src \in RemoteAddr, a \in Authenticator :
         LET d == DatagramOf(cid, len, long, dcid_len) IN
         /\ seen' = [datagram |-> d, src |-> src, authenticator |-> a]
         /\ verdict' = check(a, d, src)
  BY DEF Check
<1> DEFINE d == DatagramOf(cid, len, long, dcid_len)
           there == assemble(a.inbound, cid.nonce, src, a.local_ip)
<1>2. stage = "carried" /\ stage' = "checked" /\ origin' = origin /\ cid' = cid
  BY DEF Check
<1>3. origin \in Origin /\ IsToken(cid)
  BY <1>2 DEF TokenInv
<1>4. /\ d.len \in Nat /\ d.long \in BOOLEAN /\ d.dcid_len \in Nat
      /\ d.token.selector = cid.selector
      /\ d.token.nonce = cid.nonce
      /\ d.token.tag = cid.tag
  <2>1. len \in Nat /\ dcid_len \in Nat
    BY WireAssumption
  <2>2. /\ d.len = len /\ d.long = long /\ d.dcid_len = dcid_len
        /\ d.token = [selector |-> cid.selector, nonce |-> cid.nonce, tag |-> cid.tag]
    BY Zenon DEF DatagramOf
  <2>3. d.long \in BOOLEAN
    BY <2>2, Zenon
  <2> QED BY <2>1, <2>2, <2>3
<1>5. a.inbound \in Direction /\ a.local_ip \in TokenAddr
  BY DEF Authenticator
<1>6. verdict' = "Ok"
      <=> src \in TokenAddr /\ CarriesTokenOf(d, a.inbound, src, a.local_ip)
  BY <1>1, <1>3, <1>4, <1>5, CheckDecidesOrigin DEF IsToken
<1>7. CarriesTokenOf(d, a.inbound, src, a.local_ip) <=> CarriesWholeToken(d) /\ cid = there
  <2>1. CarriesWholeToken(d) => destination_cid(d) = cid
    <3>1. CarriesWholeToken(d) => CidLen(d) = TOKEN_LEN
      BY <1>4, ParserFindsWholeTokens
    <3> QED BY <1>3, <1>4, <3>1 DEF destination_cid, IsToken
  <2>2. \A n : mint_between(a.inbound, src, a.local_ip, n).nonce = n
    BY DEF mint_between, assemble
  <2>3. there = mint_between(a.inbound, src, a.local_ip, cid.nonce)
    BY DEF mint_between
  <2> QED BY <1>3, <2>1, <2>2, <2>3 DEF CarriesTokenOf, IsToken
<1>8. src \in TokenAddr =>
        (cid = there <=> origin = [direction |-> a.inbound, src |-> src,
                                   dst |-> a.local_ip, intact |-> TRUE])
  <2> SUFFICES ASSUME src \in TokenAddr
               PROVE  cid = there <=> origin = [direction |-> a.inbound, src |-> src,
                                                dst |-> a.local_ip, intact |-> TRUE]
    OBVIOUS
  <2>1. /\ origin = [direction |-> origin.direction, src |-> origin.src,
                     dst |-> origin.dst, intact |-> origin.intact]
        /\ origin.direction \in Direction /\ origin.src \in TokenAddr
        /\ origin.dst \in TokenAddr /\ origin.intact \in BOOLEAN
    BY <1>3 DEF Origin
  <2>2. CASE ~origin.intact
    <3>1. cid # there
      BY <1>2, <1>5, <2>2 DEF TokenInv
    <3> QED BY <2>1, <2>2, <3>1
  <2>3. CASE origin.intact
    <3>1. cid = assemble(origin.direction, cid.nonce, origin.src, origin.dst)
      BY <1>2, <2>3 DEF TokenInv
    <3>2. cid = there => /\ origin.direction = a.inbound
                         /\ origin.src = src
                         /\ origin.dst = a.local_ip
      <4> SUFFICES ASSUME cid = there
                   PROVE  /\ origin.direction = a.inbound
                          /\ origin.src = src
                          /\ origin.dst = a.local_ip
        OBVIOUS
      <4>1. assemble(origin.direction, cid.nonce, origin.src, origin.dst).tag
            = assemble(a.inbound, cid.nonce, src, a.local_ip).tag
        BY <3>1
      <4> HIDE DEF there
      <4> QED BY <1>3, <1>5, <2>1, <4>1, TokensAreBound DEF IsToken
    <3> QED BY <2>1, <2>3, <3>1, <3>2
  <2> QED BY <2>1, <2>2, <2>3
<1>9. AcceptsExactlyWhatWasMinted'
  <2>1. /\ seen'.authenticator.inbound = a.inbound
        /\ seen'.authenticator.local_ip = a.local_ip
        /\ seen'.src = src
        /\ seen'.datagram = d
    BY <1>1
  <2>2. origin = [direction |-> a.inbound, src |-> src, dst |-> a.local_ip, intact |-> TRUE]
        => src \in TokenAddr
    BY <1>3 DEF Origin
  <2> HIDE DEF d, there
  <2> QED BY <1>2, <1>6, <1>7, <1>8, <2>1, <2>2 DEF AcceptsExactlyWhatWasMinted
<1>10. TypeOK'
  <2>1. verdict' \in Verdicts /\ "none" \notin Verdicts
    BY <1>1, CheckReturnsVerdict DEF Verdicts
  <2> QED BY <1>2, <1>3, <2>1 DEF TypeOK, IsToken
<1> QED BY <1>2, <1>9, <1>10 DEF TokenInv

\* TokenInv holds throughout the life of a token.
LEMMA TokenInvAlways == Spec => []TokenInv
<1>1. Init => TokenInv
  BY DEF Init, TokenInv, TypeOK, AcceptsExactlyWhatWasMinted
<1>2. TokenInv /\ [Next]_vars => TokenInv'
  <2> SUFFICES ASSUME TokenInv, [Next]_vars PROVE TokenInv'
    OBVIOUS
  <2>1. CASE MintInitial
    <3>1. PICK peers \in [client : TokenAddr, server : TokenAddr], nonce \in Nonce :
             Minted("ClientToServer", peers.client, peers.server,
                    initial_dst_cid_provider(peers, nonce))
      BY <2>1 DEF MintInitial
    <3>2. initial_dst_cid_provider(peers, nonce)
          = assemble("ClientToServer", nonce, peers.client, peers.server)
      BY DEF initial_dst_cid_provider, mint, path, mint_between
    <3>3. "ClientToServer" \in Direction /\ peers.client \in TokenAddr /\ peers.server \in TokenAddr
      BY DEF Direction
    <3> QED BY <3>1, <3>2, <3>3, MintedEstablishes
  <2>2. CASE GenerateCidFor
    <3>1. PICK g \in Generator, remote \in RemoteAddr, nonce \in Nonce :
             Minted(g.direction, IF remote \in Ipv4Addr THEN remote ELSE UNSPECIFIED,
                    g.local_ip, generate_cid_for(g, remote, nonce))
      BY <2>2 DEF GenerateCidFor
    <3> DEFINE src == IF remote \in Ipv4Addr THEN remote ELSE UNSPECIFIED
    <3>2. generate_cid_for(g, remote, nonce) = assemble(g.direction, nonce, src, g.local_ip)
      BY AddrAssumption DEF generate_cid_for, mint_between, RemoteAddr, TokenAddr
    <3>3. g.direction \in Direction /\ g.local_ip \in TokenAddr /\ src \in TokenAddr
      BY DEF Generator, TokenAddr
    <3> QED BY <3>1, <3>2, <3>3, MintedEstablishes
  <2>3. CASE GenerateCid
    <3>1. PICK g \in Generator, nonce \in Nonce :
             Minted(g.direction, UNSPECIFIED, g.local_ip, generate_cid(g, nonce))
      BY <2>3 DEF GenerateCid
    <3>2. generate_cid(g, nonce) = assemble(g.direction, nonce, UNSPECIFIED, g.local_ip)
      BY DEF generate_cid, mint_between
    <3>3. g.direction \in Direction /\ g.local_ip \in TokenAddr /\ UNSPECIFIED \in TokenAddr
      BY DEF Generator, TokenAddr
    <3> QED BY <3>1, <3>2, <3>3, MintedEstablishes
  <2>4. CASE Corrupt
    BY <2>4, CorruptPreserves
  <2>5. CASE Check
    BY <2>5, CheckPreserves
  <2>6. CASE UNCHANGED vars
    BY <2>6 DEF vars, TokenInv, TypeOK, AcceptsExactlyWhatWasMinted
  <2> QED BY <2>1, <2>2, <2>3, <2>4, <2>5, <2>6 DEF Next
<1> QED BY <1>1, <1>2, PTL DEF Spec

\* Authenticator::check answers with one of its results, once, and a token that
\* exists carries a nonce and a known origin: TypeOK always holds.
THEOREM TypesHold == Spec => []TypeOK
<1>1. TokenInv => TypeOK
  BY DEF TokenInv
<1> QED BY <1>1, TokenInvAlways, PTL

\* Every token, however it was minted, altered and carried, gets the verdict
\* its origin deserves: AcceptsExactlyWhatWasMinted always holds.
THEOREM VerdictMatchesOrigin == Spec => []AcceptsExactlyWhatWasMinted
<1>1. TokenInv => AcceptsExactlyWhatWasMinted
  BY DEF TokenInv
<1> QED BY <1>1, TokenInvAlways, PTL

=============================================================================
