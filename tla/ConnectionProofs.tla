-------------------------- MODULE ConnectionProofs --------------------------
(***************************************************************************)
(* Proofs about Connection, for any number of clients and addresses, any   *)
(* nonces, and any bounds: what the two sockets refuse, where the server   *)
(* has connections, and why a connection runs into its idle timeout.       *)
(***************************************************************************)
EXTENDS Connection, FiniteSetTheorems, TLAPS

-----------------------------------------------------------------------------
(* Tokens on their path.                                                   *)

\* A packet that carries the token assembled for one path passes an
\* authenticator of that direction and destination exactly if it comes from
\* the path's source (auth.rs, assemble and check).
LEMMA TokenOnPath ==
    ASSUME NEW p, NEW d \in Direction, NEW n \in Nonce,
           NEW s \in TokenAddr, NEW t \in TokenAddr, NEW src \in TokenAddr,
           p.dcid = assemble(d, n, s, t)
    PROVE  check([inbound |-> d, local_ip |-> t], Datagram(p), src) = "Ok" <=> src = s
<1>1. HasDestinationCid(Datagram(p))
    BY DEF HasDestinationCid, Datagram, CidOffset, CidLen, assemble, TOKEN_LEN
<1>2. destination_cid(Datagram(p)) = assemble(d, n, s, t)
    BY DEF destination_cid, Datagram, CidLen, assemble, TOKEN_LEN
<1>3. d \in from_selector(selector(d)) /\ key(d) \in Key
    BY DEF from_selector, Direction, selector, key, Key
<1>4. check([inbound |-> d, local_ip |-> t], Datagram(p), src) = "Ok"
         <=> tag(key(d), n, s, t) = tag(key(d), n, src, t)
    BY <1>1, <1>2, <1>3 DEF check, verify, assemble, constant_time_eq
<1>5. tag(key(d), n, s, t) = tag(key(d), n, src, t) => src = s
    <2>. DEFINE m1 == [nonce |-> n, src |-> s, dst |-> t]
                m2 == [nonce |-> n, src |-> src, dst |-> t]
    <2>1. m1 \in Message /\ m2 \in Message
        BY DEF Message
    <2>2. Trunc80AES(key(d), m1) = Trunc80AES(key(d), m2) => m1 = m2
        BY <2>1, <1>3, TagAssumption
    <2> QED
        BY <2>2 DEF tag
<1> QED
    BY <1>4, <1>5

\* The connection IDs of client c that the server minted for the IP c has bound.
BoundCids(c) ==
    {ServerCid(c, n, a) : n \in 0 .. MaxAccepts, a \in {b \in Addresses : b.ip = LocalIp[c]}}

\* The tokens of the two endpoints are those of the client's path: the
\* provider's and the generators' connection IDs (lib.rs, server_endpoint and
\* client_endpoint).
LEMMA MintedForPath ==
    ASSUME NEW c \in Clients
    PROVE  /\ \A cid \in {InitialCid(c)} \cup BoundCids(c) :
                 \E n \in Nonce : cid = assemble("ClientToServer", n, LocalIp[c], ServerIp)
           /\ \E n \in Nonce : ClientCid(c) = assemble("ServerToClient", n, ServerIp, LocalIp[c])
<1>1. LocalIp[c] \in TokenAddr /\ ServerIp \in TokenAddr
    BY ConnectionAssumption DEF TokenAddr
<1>2. /\ Draw("initial", c, 0) \in Nonce /\ Draw("scid", c, 0) \in Nonce
      /\ \A n \in 0 .. MaxAccepts : Draw("server", c, n) \in Nonce
    BY ConnectionAssumption
<1>3. InitialCid(c) = assemble("ClientToServer", Draw("initial", c, 0), LocalIp[c], ServerIp)
    BY DEF InitialCid, initial_dst_cid_provider, mint, mint_between, path, Peers
<1>4. ClientCid(c) = assemble("ServerToClient", Draw("scid", c, 0), ServerIp, LocalIp[c])
    BY <1>1 DEF ClientCid, generate_cid_for, mint_between, ClientGenerator
<1>5. ASSUME NEW cid \in BoundCids(c)
      PROVE  \E n \in Nonce : cid = assemble("ClientToServer", n, LocalIp[c], ServerIp)
    <2>1. PICK n \in 0 .. MaxAccepts, a \in Addresses :
             a.ip = LocalIp[c] /\ cid = ServerCid(c, n, a)
        BY <1>5 DEF BoundCids
    <2>2. cid = assemble("ClientToServer", Draw("server", c, n), LocalIp[c], ServerIp)
        BY <2>1, <1>1 DEF ServerCid, generate_cid_for, mint_between, ServerGenerator
    <2> QED
        BY <2>2, <1>2
<1> QED
    BY <1>2, <1>3, <1>4, <1>5

-----------------------------------------------------------------------------
(* Packets.                                                                *)

FromClient(p) ==
    /\ p.to = "server" /\ p.kind \in {"Initial", "Data", "Close"}
    /\ p.conn \in Clients /\ p.src \in Addresses
    /\ p.dcid \in {InitialCid(p.conn)} \cup BoundCids(p.conn)
    /\ p.kind = "Initial" => p.dcid = InitialCid(p.conn)
    /\ p.scid = ClientCid(p.conn)

FromServer(p) ==
    /\ p.to = "client" /\ p.conn \in Clients
    /\ \/ /\ p.kind \in {"Reply", "Data", "Close"}
          /\ p.dcid = ClientCid(p.conn) /\ p.scid \in BoundCids(p.conn)
       \/ p.kind = "Reset" /\ p.dcid = RandomCid

\* The server's socket passes a client's packet exactly if it comes from the
\* IP the client has bound.
LEMMA VerdictAtServer ==
    ASSUME NEW p, FromClient(p)
    PROVE  Verdict(p) = "Ok" <=> p.src.ip = LocalIp[p.conn]
<1>1. PICK n \in Nonce : p.dcid = assemble("ClientToServer", n, LocalIp[p.conn], ServerIp)
    BY MintedForPath DEF FromClient
<1>2. p.src.ip \in TokenAddr /\ LocalIp[p.conn] \in TokenAddr /\ ServerIp \in TokenAddr
    BY ConnectionAssumption DEF TokenAddr, FromClient
<1>3. "ClientToServer" \in Direction
    BY DEF Direction
<1>4. check(ServerAuthenticator, Datagram(p), p.src.ip) = "Ok" <=> p.src.ip = LocalIp[p.conn]
    BY <1>1, <1>2, <1>3, TokenOnPath DEF ServerAuthenticator
<1> QED
    BY <1>4 DEF Verdict, FromClient

\* A client's socket passes everything of the server's but stateless resets.
LEMMA VerdictAtClient ==
    ASSUME NEW p, FromServer(p)
    PROVE  Verdict(p) = "Ok" <=> p.kind # "Reset"
<1>1. LocalIp[p.conn] \in TokenAddr /\ ServerIp \in TokenAddr /\ "ServerToClient" \in Direction
    BY ConnectionAssumption DEF TokenAddr, FromServer, Direction
<1>2. Verdict(p) = check(ClientAuthenticator(p.conn), Datagram(p), ServerIp)
    BY DEF Verdict, FromServer
<1>3. CASE p.kind # "Reset"
    <2>1. PICK n \in Nonce : p.dcid = assemble("ServerToClient", n, ServerIp, LocalIp[p.conn])
        BY <1>3, MintedForPath DEF FromServer
    <2> QED
        BY <2>1, <1>1, <1>2, <1>3, TokenOnPath DEF ClientAuthenticator
<1>4. CASE p.kind = "Reset"
    <2>1. p.dcid = RandomCid
        BY <1>4 DEF FromServer
    <2>2. /\ destination_cid(Datagram(p)).tag = RandomCid.tag
          /\ destination_cid(Datagram(p)).nonce = RandomCid.nonce
        BY <2>1 DEF destination_cid, Datagram
    <2>3. RandomCid.tag # tag(key("ServerToClient"), RandomCid.nonce, ServerIp, LocalIp[p.conn])
        BY RandomAssumption DEF FromServer
    <2>4. verify(destination_cid(Datagram(p)), "ServerToClient", ServerIp, LocalIp[p.conn]) # "Ok"
        BY <2>2, <2>3 DEF verify, constant_time_eq
    <2> QED
        BY <2>4, <1>2, <1>4 DEF check, ClientAuthenticator
<1> QED
    BY <1>3, <1>4

-----------------------------------------------------------------------------
(* The inductive invariant.                                                *)

Packets == \A p \in net : FromClient(p) \/ FromServer(p)

\* The two ends of c's connection use the connection IDs of its path.
Uses(c) ==
    /\ client[c].use \in {InitialCid(c)} \cup BoundCids(c)
    /\ client[c].state \in {"idle", "connecting"} => client[c].use = InitialCid(c)
    /\ conns[c].open => conns[c].own \in BoundCids(c) /\ conns[c].remote.ip = LocalIp[c]

Bound == Packets /\ \A c \in Clients : Uses(c)

\* A client that has not moved sends from where it is, and has been answered
\* only if that is at the IP it has bound.
Still(c) ==
    moves[c] = 0 =>
        /\ \A p \in net : p.conn = c =>
              /\ p.to = "server" => p.src = addr[c]
              /\ p.to = "client" /\ p.kind # "Reset" => addr[c].ip = LocalIp[c]
        /\ conns[c].open \/ client[c].state = "open" => addr[c].ip = LocalIp[c]

IInv == TypeOK /\ Bound /\ \A c \in Clients : Still(c)

\* The invariant of the packets gives the property of the sockets.
LEMMA BoundRefuses ==
    Bound => RefusedForCause
<1> SUFFICES ASSUME Bound, NEW p \in net
             PROVE  Verdict(p) = "Ok" <=>
                       IF p.to = "server" THEN p.src.ip = LocalIp[p.conn] ELSE p.kind # "Reset"
    BY DEF RefusedForCause
<1>1. CASE FromClient(p)
    BY <1>1, VerdictAtServer DEF FromClient
<1>2. CASE FromServer(p)
    BY <1>2, VerdictAtClient DEF FromServer
<1> QED
    BY <1>1, <1>2 DEF Bound, Packets

\* What a packet is does not change with the state.
LEMMA PacketsNext ==
    ASSUME \A p \in net' : FromClient(p) \/ FromServer(p)
    PROVE  Packets'
BY DEF Packets, FromClient, FromServer

\* Nor do the connection IDs of a path, so an end that keeps its own is right.
LEMMA UsesNext ==
    ASSUME NEW c \in Clients,
           client'[c].use \in {InitialCid(c)} \cup BoundCids(c),
           client'[c].state \in {"idle", "connecting"} => client'[c].use = InitialCid(c),
           conns'[c].open => conns'[c].own \in BoundCids(c) /\ conns'[c].remote.ip = LocalIp[c]
    PROVE  Uses(c)'
BY DEF Uses

\* The bounds are numbers.
LEMMA Bounds ==
    /\ IdleTicks \in Nat /\ 0 \in 0 .. IdleTicks
    /\ MaxAccepts \in Nat /\ 0 \in 0 .. MaxAccepts
    /\ MaxRestarts \in Nat /\ 0 \in 0 .. MaxRestarts
BY ConnectionAssumption

\* The invariant holds before anything is sent.
LEMMA InitIInv ==
    Init => IInv
<1> SUFFICES ASSUME Init PROVE IInv
    OBVIOUS
<1>1. TypeOK
    BY Bounds DEF Init, TypeOK, NoConn, Ended
<1>2. Bound
    BY DEF Init, Bound, Packets, Uses, NoConn
<1>3. \A c \in Clients : Still(c)
    BY DEF Init, Still, NoConn
<1> QED
    BY <1>1, <1>2, <1>3 DEF IInv

\* What a client sends is a client's packet, from where the client is.
LEMMA SentByClient ==
    ASSUME IInv, NEW c \in Clients, NEW kind \in {"Initial", "Data", "Close"},
           kind = "Initial" => client[c].state \in {"idle", "connecting"}
    PROVE  /\ FromClient(ToServer(kind, c))
           /\ ToServer(kind, c).conn = c /\ ToServer(kind, c).to = "server"
           /\ ToServer(kind, c).src = addr[c]
BY DEF IInv, TypeOK, Bound, Uses, FromClient, ToServer

\* What the server sends is a server's packet.
LEMMA SentByServer ==
    ASSUME NEW c \in Clients, NEW kind \in {"Reply", "Data", "Close"}, NEW dst,
           NEW dcid, dcid = ClientCid(c), NEW scid \in BoundCids(c)
    PROVE  /\ FromServer(ToClient(kind, c, dst, dcid, scid))
           /\ ToClient(kind, c, dst, dcid, scid).conn = c
           /\ ToClient(kind, c, dst, dcid, scid).to = "client"
BY DEF FromServer, ToClient

\* They are connection IDs that server_endpoint's generator minted.
LEMMA BoundAreMinted ==
    ASSUME NEW c \in Clients
    PROVE  BoundCids(c) \subseteq ServerCids(c)
BY DEF BoundCids, ServerCids

-----------------------------------------------------------------------------
(* The steps.  A step that leaves alone what the invariant speaks of, apart *)
(* from taking packets off the network, keeps it.                          *)

\* Taking packets away keeps the invariant of the packets and the connections.
LEMMA FewerPackets ==
    ASSUME IInv, net' \subseteq net, UNCHANGED <<addr, client, conns, moves>>
    PROVE  Bound' /\ \A c \in Clients : Still(c)'
<1>1. Bound'
    BY PacketsNext, UsesNext DEF IInv, Bound, Packets, Uses
<1>2. ASSUME NEW c \in Clients PROVE Still(c)'
    BY <1>2 DEF IInv, Still
<1> QED
    BY <1>1, <1>2

\* A client's own steps: Connect, Close and the timeout (client.rs).
LEMMA ClientSteps ==
    ASSUME IInv, NEW c \in Clients, Connect(c) \/ Close(c) \/ ClientTimesOut(c)
    PROVE  IInv'
<1>1. /\ FromClient(ToServer("Initial", c)) \/ client[c].state # "idle"
      /\ FromClient(ToServer("Close", c))
      /\ \A kind : /\ ToServer(kind, c).conn = c /\ ToServer(kind, c).to = "server"
                   /\ ToServer(kind, c).src = addr[c]
    BY SentByClient, Zenon DEF ToServer
<1>2. /\ UNCHANGED <<addr, conns, generation, accepts, expired, moves, faults, idle>>
      /\ \E kind : net' \subseteq net \cup {ToServer(kind, c)} /\ FromClient(ToServer(kind, c))
    <2>1. CASE Connect(c)
        BY <1>1, <2>1 DEF Connect
    <2>2. CASE Close(c)
        BY <1>1, <2>2 DEF Close
    <2>3. CASE ClientTimesOut(c)
        BY <1>1, <2>3 DEF ClientTimesOut
    <2> QED
        BY <2>1, <2>2, <2>3
<1>3. PICK kind : net' \subseteq net \cup {ToServer(kind, c)} /\ FromClient(ToServer(kind, c))
    BY <1>2
<1>4. /\ client[c] \in [state : {"idle", "connecting", "open"} \cup Ended,
                        trusts : 0 .. MaxRestarts, use : {InitialCid(c)} \cup ServerCids(c)]
      /\ generation \in 0 .. MaxRestarts /\ DOMAIN client = Clients
    BY Zenon DEF IInv, TypeOK
<1>5. /\ DOMAIN client' = Clients /\ client'[c].use = client[c].use
      /\ client'[c].state \in {"connecting", "closed", "timedout"}
      /\ client'[c].state = "connecting" => client[c].state = "idle"
      /\ client'[c] \in [state : {"idle", "connecting", "open"} \cup Ended,
                         trusts : 0 .. MaxRestarts, use : {InitialCid(c)} \cup ServerCids(c)]
      /\ \A d \in Clients \ {c} : client'[d] = client[d]
    <2>1. CASE Connect(c)
        BY <1>4, <2>1, Zenon DEF Connect, Ended
    <2>2. CASE Close(c)
        BY <1>4, <2>2 DEF Close, Ended
    <2>3. CASE ClientTimesOut(c)
        BY <1>4, <2>3 DEF ClientTimesOut, Ended
    <2> QED
        BY <2>1, <2>2, <2>3
<1>6. TypeOK'
    BY <1>2, <1>5, Zenon DEF IInv, TypeOK
<1>7. Bound'
    <2>1. \A p \in net' : FromClient(p) \/ FromServer(p)
        BY <1>3 DEF IInv, Bound, Packets
    <2>2. ASSUME NEW d \in Clients PROVE Uses(d)'
        <3>1. Uses(d)
            BY DEF IInv, Bound
        <3> QED
            BY <1>2, <1>5, <3>1, UsesNext DEF Uses
    <2> QED
        BY <2>1, <2>2, PacketsNext DEF Bound
<1>8. ASSUME NEW d \in Clients PROVE Still(d)'
    BY <1>1, <1>2, <1>3, <1>5, <1>8 DEF IInv, Still
<1> QED
    BY <1>6, <1>7, <1>8 DEF IInv

\* What reaches a client is a server's packet.
LEMMA ReachesFromServer ==
    ASSUME IInv, NEW c \in Clients, NEW p, Reaches(c, p)
    PROVE  p \in net /\ FromServer(p) /\ p.conn = c
BY DEF IInv, Bound, Packets, Reaches, FromClient

\* A packet that reaches a client (lib.rs, client_endpoint): the client adopts
\* the server's connection ID, ends, or goes on as it is.
LEMMA ClientReceivesStep ==
    ASSUME IInv, NEW c \in Clients, NEW p, ClientReceives(c, p)
    PROVE  IInv'
<1>. UNCHANGED <<addr, conns, generation, accepts, expired, moves, faults>>
    BY DEF ClientReceives
<1>1. /\ client[c] \in [state : {"idle", "connecting", "open"} \cup Ended,
                        trusts : 0 .. MaxRestarts, use : {InitialCid(c)} \cup ServerCids(c)]
      /\ DOMAIN client = Clients
      /\ idle \in [Clients -> [client : 0 .. IdleTicks, server : 0 .. IdleTicks]]
      /\ 0 \in 0 .. IdleTicks
    BY Bounds, Zenon DEF IInv, TypeOK
<1>2. p \in net /\ FromServer(p) /\ p.conn = c
    <2>1. Reaches(c, p)
        BY ONLY ClientReceives(c, p) DEF ClientReceives, Opens, Fails, Ends, Hears, Drops, Passes
    <2> QED
        BY <2>1, ReachesFromServer
<1>3. CASE Opens(c, p)
    <2>1. p.scid \in BoundCids(c) /\ p.scid \in ServerCids(c) /\ p.kind # "Reset" /\ p.to = "client"
        BY <1>2, <1>3, BoundAreMinted DEF Opens, FromServer
    <2>2. /\ DOMAIN client' = Clients /\ client'[c].use = p.scid /\ client'[c].state = "open"
          /\ client'[c] \in [state : {"idle", "connecting", "open"} \cup Ended,
                             trusts : 0 .. MaxRestarts, use : {InitialCid(c)} \cup ServerCids(c)]
          /\ \A d \in Clients \ {c} : client'[d] = client[d]
        BY <1>1, <1>3, <2>1, Zenon DEF Opens
    <2>3. idle' \in [Clients -> [client : 0 .. IdleTicks, server : 0 .. IdleTicks]]
        BY <1>1, <1>3 DEF Opens
    <2>4. net' \subseteq net
        BY <1>3 DEF Opens
    <2>5. TypeOK'
        BY <2>2, <2>3, Zenon DEF IInv, TypeOK
    <2>6. Bound'
        <3>1. \A r \in net' : FromClient(r) \/ FromServer(r)
            BY <2>4 DEF IInv, Bound, Packets
        <3>2. ASSUME NEW d \in Clients PROVE Uses(d)'
            <4>1. Uses(d)
                BY DEF IInv, Bound
            <4> QED
                BY <2>1, <2>2, <4>1, UsesNext DEF Uses
        <3> QED
            BY <3>1, <3>2, PacketsNext DEF Bound
    <2>7. ASSUME NEW d \in Clients PROVE Still(d)'
        BY <1>2, <2>1, <2>2, <2>4, <2>7 DEF IInv, Still
    <2> QED
        BY <2>5, <2>6, <2>7 DEF IInv
<1>4. CASE Fails(c, p)
    <2>. DEFINE q == [ToServer("Close", c) EXCEPT !.dcid = p.scid]
    <2>1. p.scid \in BoundCids(c)
        BY <1>2, <1>4 DEF Fails, FromServer
    <2>2. FromClient(q) /\ q.conn = c /\ q.to = "server" /\ q.src = addr[c]
        BY <2>1 DEF ToServer, FromClient, IInv, TypeOK
    <2>3. /\ DOMAIN client' = Clients /\ client'[c].use = client[c].use /\ client'[c].state = "failed"
          /\ client'[c] \in [state : {"idle", "connecting", "open"} \cup Ended,
                             trusts : 0 .. MaxRestarts, use : {InitialCid(c)} \cup ServerCids(c)]
          /\ \A d \in Clients \ {c} : client'[d] = client[d]
        BY <1>1, <1>4 DEF Fails, Ended
    <2>4. net' \subseteq net \cup {q} /\ UNCHANGED idle
        BY <1>4 DEF Fails
    <2>. HIDE DEF q
    <2>5. TypeOK'
        BY <2>3, <2>4, Zenon DEF IInv, TypeOK
    <2>6. Bound'
        <3>1. \A r \in net' : FromClient(r) \/ FromServer(r)
            BY <2>2, <2>4 DEF IInv, Bound, Packets
        <3>2. ASSUME NEW d \in Clients PROVE Uses(d)'
            <4>1. Uses(d)
                BY DEF IInv, Bound
            <4> QED
                BY <2>3, <4>1, UsesNext DEF Uses
        <3> QED
            BY <3>1, <3>2, PacketsNext DEF Bound
    <2>7. ASSUME NEW d \in Clients PROVE Still(d)'
        BY <2>2, <2>3, <2>4, <2>7 DEF IInv, Still
    <2> QED
        BY <2>5, <2>6, <2>7 DEF IInv
<1>5. CASE Ends(c, p)
    <2>1. /\ DOMAIN client' = Clients /\ client'[c].use = client[c].use /\ client'[c].state = "closed"
          /\ client'[c] \in [state : {"idle", "connecting", "open"} \cup Ended,
                             trusts : 0 .. MaxRestarts, use : {InitialCid(c)} \cup ServerCids(c)]
          /\ \A d \in Clients \ {c} : client'[d] = client[d]
        BY <1>1, <1>5 DEF Ends, Ended
    <2>2. net' \subseteq net /\ UNCHANGED idle
        BY <1>5 DEF Ends
    <2>3. TypeOK'
        BY <2>1, <2>2, Zenon DEF IInv, TypeOK
    <2>4. Bound'
        <3>1. \A r \in net' : FromClient(r) \/ FromServer(r)
            BY <2>2 DEF IInv, Bound, Packets
        <3>2. ASSUME NEW d \in Clients PROVE Uses(d)'
            <4>1. Uses(d)
                BY DEF IInv, Bound
            <4> QED
                BY <2>1, <4>1, UsesNext DEF Uses
        <3> QED
            BY <3>1, <3>2, PacketsNext DEF Bound
    <2>5. ASSUME NEW d \in Clients PROVE Still(d)'
        BY <2>1, <2>2, <2>5 DEF IInv, Still
    <2> QED
        BY <2>3, <2>4, <2>5 DEF IInv
<1>6. CASE Hears(c, p) \/ Drops(c, p)
    <2>1. net' \subseteq net /\ UNCHANGED client
        BY <1>6 DEF Hears, Drops
    <2>2. idle' \in [Clients -> [client : 0 .. IdleTicks, server : 0 .. IdleTicks]]
        BY <1>1, <1>6 DEF Hears, Drops
    <2>3. TypeOK'
        BY <2>1, <2>2, Zenon DEF IInv, TypeOK
    <2> QED
        BY <2>1, <2>3, FewerPackets DEF IInv
<1> QED
    BY <1>3, <1>4, <1>5, <1>6 DEF ClientReceives

\* A packet that arrives at the server is a client's, from the IP it has bound.
LEMMA ArrivesBound ==
    ASSUME IInv, NEW p, Arrives(p)
    PROVE  p \in net /\ FromClient(p) /\ p.src.ip = LocalIp[p.conn] /\ p.conn \in Clients
<1>1. p \in net /\ FromClient(p)
    BY DEF IInv, Bound, Packets, Arrives, FromServer
<1> QED
    BY <1>1, VerdictAtServer DEF Arrives, FromClient

\* A packet that reaches the server (lib.rs, server_endpoint): a connection is
\* made for the address the Initial came from, or goes on, or ends.
LEMMA ServerReceivesStep ==
    ASSUME IInv, NEW p, ServerReceives(p)
    PROVE  IInv'
<1>. DEFINE c == p.conn
<1>1. /\ idle \in [Clients -> [client : 0 .. IdleTicks, server : 0 .. IdleTicks]]
      /\ 0 \in 0 .. IdleTicks /\ accepts \in [Clients -> 0 .. MaxAccepts] /\ MaxAccepts \in Nat
      /\ DOMAIN conns = Clients
    BY Bounds DEF IInv, TypeOK
<1>2. CASE Refused(p) \/ Discard(p)
    <2>1. net' \subseteq net /\ UNCHANGED <<addr, client, conns, idle, generation, accepts, expired, moves, faults>>
        BY <1>2 DEF Refused, Discard
    <2>2. TypeOK'
        BY <2>1, Zenon DEF IInv, TypeOK
    <2> QED
        BY <2>1, <2>2, FewerPackets DEF IInv
<1>3. CASE Accept(p)
    <2>. DEFINE scid == ServerCid(c, accepts[c], p.src)
                q == ToClient("Reply", c, p.src, p.scid, scid)
    <2>1. p \in net /\ FromClient(p) /\ p.src.ip = LocalIp[c] /\ c \in Clients /\ p.kind = "Initial"
        BY <1>3, ArrivesBound DEF Accept
    <2>2. accepts[c] \in 0 .. MaxAccepts /\ accepts[c] < MaxAccepts
        BY <1>1, <1>3, <2>1 DEF Accept
    <2>3. scid \in BoundCids(c) /\ p.scid = ClientCid(c) /\ p.dcid = InitialCid(c) /\ p.src \in Addresses
        BY <2>1, <2>2 DEF BoundCids, FromClient
    <2>4. FromServer(q) /\ q.conn = c /\ q.to = "client"
        BY <2>1, <2>3 DEF FromServer, ToClient
    <2>5. /\ conns' = [conns EXCEPT ![c] = NewConn(p, scid)]
          /\ net' = (net \ {p}) \cup {q}
          /\ idle' = [idle EXCEPT ![c].server = 0]
          /\ accepts' = [accepts EXCEPT ![c] = @ + 1]
          /\ UNCHANGED <<addr, client, generation, expired, moves, faults>>
        BY <1>3 DEF Accept
    <2>. HIDE DEF scid, q, c
    <2>6. /\ DOMAIN conns' = Clients /\ conns'[c] = NewConn(p, scid)
          /\ \A d \in Clients \ {c} : conns'[d] = conns[d]
        BY <1>1, <2>1, <2>5
    <2>7. NewConn(p, scid) \in [open : {TRUE}, remote : Addresses, initial : {InitialCid(c)},
                               own : ServerCids(c), use : {ClientCid(c)}]
        BY <2>1, <2>3, BoundAreMinted DEF NewConn
    <2>8. /\ idle' \in [Clients -> [client : 0 .. IdleTicks, server : 0 .. IdleTicks]]
          /\ accepts' \in [Clients -> 0 .. MaxAccepts]
        <3>1. accepts[c] + 1 \in 0 .. MaxAccepts
            BY <1>1, <2>2
        <3>2. accepts' \in [Clients -> 0 .. MaxAccepts]
            BY <1>1, <2>5, <3>1, Zenon
        <3>3. idle' \in [Clients -> [client : 0 .. IdleTicks, server : 0 .. IdleTicks]]
            BY <1>1, <2>5, Zenon
        <3> QED
            BY <3>2, <3>3
    <2>9. TypeOK'
        BY <2>5, <2>6, <2>7, <2>8, Zenon DEF IInv, TypeOK
    <2>10. Bound'
        <3>1. \A r \in net' : FromClient(r) \/ FromServer(r)
            BY <2>4, <2>5 DEF IInv, Bound, Packets
        <3>2. ASSUME NEW d \in Clients PROVE Uses(d)'
            <4>1. Uses(d)
                BY DEF IInv, Bound
            <4> QED
                BY <2>1, <2>3, <2>5, <2>6, <4>1, UsesNext DEF Uses, NewConn
        <3> QED
            BY <3>1, <3>2, PacketsNext DEF Bound
    <2>11. ASSUME NEW d \in Clients PROVE Still(d)'
        <3>1. CASE d = c
            <4>1. moves[c] = 0 => p.src = addr[c]
                BY <2>1 DEF IInv, Still, FromClient, c
            <4> QED
                BY <2>1, <2>4, <2>5, <3>1, <4>1 DEF IInv, Still
        <3>2. CASE d # c
            BY <2>4, <2>5, <2>6, <2>11, <3>2 DEF IInv, Still
        <3> QED
            BY <3>1, <3>2
    <2> QED
        BY <2>9, <2>10, <2>11 DEF IInv
<1>4. CASE ForConnection(p)
    <2>. DEFINE q == ToClient("Reply", c, p.src, conns[c].use, conns[c].own)
    <2>1. p \in net /\ FromClient(p) /\ p.src.ip = LocalIp[c] /\ c \in Clients
        BY <1>4, ArrivesBound DEF ForConnection
    <2>2. conns[c].open /\ conns[c].own \in BoundCids(c) /\ conns[c].use = ClientCid(c)
        <3>1. conns[c].open
            BY <1>4 DEF ForConnection, Routed
        <3>2. conns[c] # NoConn
            BY <3>1 DEF NoConn
        <3>3. conns[c].use = ClientCid(c)
            BY <2>1, <3>2, Zenon DEF IInv, TypeOK
        <3> QED
            BY <2>1, <3>1, <3>3 DEF IInv, Bound, Uses
    <2>3. FromServer(q) /\ q.conn = c /\ q.to = "client"
        BY <2>1, <2>2, SentByServer
    <2>4. /\ net' \subseteq net \cup {q}
          /\ idle' = [idle EXCEPT ![c].server = 0]
          /\ conns' = conns \/ conns' = [conns EXCEPT ![c] = NoConn]
          /\ UNCHANGED <<addr, client, generation, accepts, expired, moves, faults>>
        BY <1>4 DEF ForConnection
    <2>. HIDE DEF q, c
    <2>5. DOMAIN conns' = Clients /\ \A d \in Clients : conns'[d] = conns[d] \/ conns'[d] = NoConn
        BY <1>1, <2>1, <2>4
    <2>6. idle' \in [Clients -> [client : 0 .. IdleTicks, server : 0 .. IdleTicks]]
        BY <1>1, <2>4, Zenon
    <2>7. TypeOK'
        BY <2>4, <2>5, <2>6, Zenon DEF IInv, TypeOK
    <2>8. Bound'
        <3>1. \A r \in net' : FromClient(r) \/ FromServer(r)
            BY <2>3, <2>4 DEF IInv, Bound, Packets
        <3>2. ASSUME NEW d \in Clients PROVE Uses(d)'
            <4>1. Uses(d)
                BY DEF IInv, Bound
            <4> QED
                BY <2>4, <2>5, <4>1, UsesNext DEF Uses, NoConn
        <3> QED
            BY <3>1, <3>2, PacketsNext DEF Bound
    <2>9. ASSUME NEW d \in Clients PROVE Still(d)'
        BY <2>2, <2>3, <2>4, <2>5, <2>9 DEF IInv, Still, NoConn
    <2> QED
        BY <2>7, <2>8, <2>9 DEF IInv
<1>5. CASE Reset(p)
    <2>. DEFINE q == ToClient("Reset", c, p.src, RandomCid, RandomCid)
    <2>1. c \in Clients
        BY <1>5, ArrivesBound DEF Reset
    <2>2. FromServer(q) /\ q.conn = c /\ q.to = "client" /\ q.kind = "Reset"
        BY <2>1 DEF FromServer, ToClient
    <2>3. /\ net' \subseteq net \cup {q}
          /\ UNCHANGED <<addr, client, conns, idle, generation, accepts, expired, moves, faults>>
        BY <1>5 DEF Reset
    <2>. HIDE DEF q, c
    <2>4. TypeOK'
        BY <2>3, Zenon DEF IInv, TypeOK
    <2>5. Bound'
        <3>1. \A r \in net' : FromClient(r) \/ FromServer(r)
            BY <2>2, <2>3 DEF IInv, Bound, Packets
        <3>2. ASSUME NEW d \in Clients PROVE Uses(d)'
            <4>1. Uses(d)
                BY DEF IInv, Bound
            <4> QED
                BY <2>3, <4>1, UsesNext DEF Uses
        <3> QED
            BY <3>1, <3>2, PacketsNext DEF Bound
    <2>6. ASSUME NEW d \in Clients PROVE Still(d)'
        BY <2>2, <2>3, <2>6 DEF IInv, Still
    <2> QED
        BY <2>4, <2>5, <2>6 DEF IInv
<1> QED
    BY <1>2, <1>3, <1>4, <1>5 DEF ServerReceives

\* A connection that times out at the server, or with all others by a restart
\* (server.rs), is forgotten; the farewell of an orderly end is a server's.
LEMMA ServerForgets ==
    ASSUME IInv, Restart \/ \E c \in Clients : ServerTimesOut(c)
    PROVE  IInv'
<1>. DEFINE bye(c) == ToClient("Close", c, conns[c].remote, conns[c].use, conns[c].own)
<1>1. ASSUME NEW c \in Clients, conns[c].open
      PROVE  FromServer(bye(c)) /\ bye(c).conn = c /\ bye(c).to = "client"
    <2>1. conns[c] # NoConn
        BY <1>1 DEF NoConn
    <2>2. conns[c].use = ClientCid(c) /\ conns[c].own \in BoundCids(c)
        BY <1>1, <2>1, Zenon DEF IInv, TypeOK, Bound, Uses
    <2> QED
        BY <2>2, SentByServer
<1>2. /\ UNCHANGED <<addr, client, idle, accepts, moves, faults>>
      /\ net' \subseteq net \cup {bye(c) : c \in {d \in Clients : conns[d].open}}
      /\ DOMAIN conns' = Clients /\ \A d \in Clients : conns'[d] = conns[d] \/ conns'[d] = NoConn
      /\ generation' \in 0 .. MaxRestarts /\ expired' \subseteq Clients
    <2>1. DOMAIN conns = Clients /\ generation \in 0 .. MaxRestarts /\ expired \subseteq Clients
          /\ MaxRestarts \in Nat
        BY Bounds DEF IInv, TypeOK
    <2>2. CASE Restart
        BY <2>1, <2>2 DEF Restart
    <2>3. CASE \E c \in Clients : ServerTimesOut(c)
        BY <2>1, <2>3 DEF ServerTimesOut
    <2> QED
        BY <2>2, <2>3
<1>. HIDE DEF bye
<1>3. ~NoConn.open
    BY DEF NoConn
<1>4. TypeOK'
    BY <1>2, Zenon DEF IInv, TypeOK
<1>5. Bound'
    <2>1. \A p \in net' : FromClient(p) \/ FromServer(p)
        BY <1>1, <1>2 DEF IInv, Bound, Packets
    <2>2. ASSUME NEW d \in Clients PROVE Uses(d)'
        <3>1. Uses(d)
            BY DEF IInv, Bound
        <3> QED
            <4>1. conns'[d].open => conns'[d] = conns[d]
                BY <1>2, <1>3
            <4> QED
                BY <1>2, <3>1, <4>1, UsesNext DEF Uses
    <2> QED
        BY <2>1, <2>2, PacketsNext DEF Bound
<1>6. ASSUME NEW d \in Clients PROVE Still(d)'
    <2>1. Still(d) /\ (conns'[d].open => conns[d].open)
        BY <1>2, <1>3 DEF IInv
    <2>2. \A q \in net' : q \in net \/ (q.conn = d => q.to = "client" /\ conns[d].open)
        BY <1>1, <1>2
    <2>3. UNCHANGED <<addr, client, moves>>
        BY <1>2
    <2> QED
        BY ONLY <2>1, <2>2, <2>3 DEF Still
<1> QED
    BY <1>4, <1>5, <1>6 DEF IInv

\* The interval's packets are packets of the two ends (lib.rs, transport_config).
LEMMA TickStep ==
    ASSUME IInv, Tick
    PROVE  IInv'
<1>1. ASSUME NEW c \in Clients, NEW q \in KeepAlive(c)
      PROVE  \/ FromClient(q) /\ q.conn = c /\ q.to = "server" /\ q.src = addr[c]
             \/ FromServer(q) /\ q.conn = c /\ q.to = "client" /\ conns[c].open
    <2>1. \/ \E kind \in {"Initial", "Data"} :
                q = ToServer(kind, c) /\ (kind = "Initial" => client[c].state = "connecting")
          \/ q = ToClient("Data", c, conns[c].remote, conns[c].use, conns[c].own) /\ conns[c].open
        BY <1>1 DEF KeepAlive
    <2>2. CASE \E kind \in {"Initial", "Data"} :
                q = ToServer(kind, c) /\ (kind = "Initial" => client[c].state = "connecting")
        <3>1. PICK kind \in {"Initial", "Data"} :
                 q = ToServer(kind, c) /\ (kind = "Initial" => client[c].state = "connecting")
            BY <2>2
        <3> QED
            BY <3>1, SentByClient
    <2>3. CASE q = ToClient("Data", c, conns[c].remote, conns[c].use, conns[c].own) /\ conns[c].open
        <3>1. conns[c] # NoConn
            BY <2>3 DEF NoConn
        <3>2. conns[c].use = ClientCid(c) /\ conns[c].own \in BoundCids(c)
            BY <2>3, <3>1, Zenon DEF IInv, TypeOK, Bound, Uses
        <3> QED
            BY <2>3, <3>2 DEF FromServer, ToClient
    <2> QED
        BY <2>1, <2>2, <2>3
<1>2. /\ UNCHANGED <<addr, client, conns, generation, accepts, expired, moves>>
      /\ \A q \in net' : q \in net \/ \E c \in Clients : q \in KeepAlive(c)
    BY DEF Tick
<1>3. idle' \in [Clients -> [client : 0 .. IdleTicks, server : 0 .. IdleTicks]]
    <2>1. ASSUME NEW n \in 0 .. IdleTicks PROVE Older(n) \in 0 .. IdleTicks
        BY Bounds DEF Older
    <2>2. idle \in [Clients -> [client : 0 .. IdleTicks, server : 0 .. IdleTicks]]
        BY DEF IInv, TypeOK
    <2> QED
        BY <2>1, <2>2, Bounds DEF Tick
<1>4. TypeOK'
    BY <1>2, <1>3, Zenon DEF IInv, TypeOK
<1>5. Bound'
    <2>1. \A p \in net' : FromClient(p) \/ FromServer(p)
        BY <1>1, <1>2 DEF IInv, Bound, Packets
    <2>2. ASSUME NEW d \in Clients PROVE Uses(d)'
        <3>1. Uses(d)
            BY DEF IInv, Bound
        <3> QED
            BY <1>2, <3>1, UsesNext DEF Uses
    <2> QED
        BY <2>1, <2>2, PacketsNext DEF Bound
<1>6. ASSUME NEW d \in Clients PROVE Still(d)'
    <2>1. Still(d)
        BY DEF IInv
    <2> QED
        BY <1>1, <1>2, <2>1 DEF Still
<1> QED
    BY <1>4, <1>5, <1>6 DEF IInv

\* Every step keeps the invariant.
LEMMA NextIInv ==
    ASSUME IInv, [Next]_vars
    PROVE  IInv'
<1>1. CASE Deliver
    <2>1. PICK p \in net : \/ ServerReceives(p) \/ Astray(p)
                           \/ \E c \in Clients : ClientReceives(c, p)
        BY <1>1 DEF Deliver
    <2>2. CASE Astray(p)
        <3>1. TypeOK'
            BY <2>2, Zenon DEF Astray, IInv, TypeOK
        <3>2. net' \subseteq net /\ UNCHANGED <<addr, client, conns, moves>>
            BY <2>2 DEF Astray
        <3> QED
            BY <3>1, <3>2, FewerPackets DEF IInv
    <2> QED
        BY <2>1, <2>2, ServerReceivesStep, ClientReceivesStep
<1>2. CASE TimeOut
    BY <1>2, ClientSteps, ServerForgets DEF TimeOut
<1>3. CASE Tick
    BY <1>3, TickStep
<1>4. ASSUME NEW c \in Clients, Connect(c) \/ Close(c) PROVE IInv'
    BY <1>4, ClientSteps
<1>5. ASSUME NEW c \in Clients, Rebind(c) PROVE IInv'
    <2>1. PICK a \in Addresses : addr' = [addr EXCEPT ![c] = a]
        BY <1>5, Zenon DEF Rebind
    <2>2. /\ addr' \in [Clients -> Addresses] /\ \A d \in Clients \ {c} : addr'[d] = addr[d]
          /\ moves' \in [Clients -> Nat] /\ moves'[c] # 0
          /\ \A d \in Clients \ {c} : moves'[d] = moves[d]
          /\ UNCHANGED <<client, conns, net, idle, generation, accepts, expired, faults>>
        <3>1. addr \in [Clients -> Addresses] /\ moves \in [Clients -> Nat]
            BY DEF IInv, TypeOK
        <3>2. /\ moves' = [moves EXCEPT ![c] = @ + 1]
              /\ UNCHANGED <<client, conns, net, idle, generation, accepts, expired, faults>>
            BY <1>5 DEF Rebind
        <3> QED
            BY <2>1, <3>1, <3>2
    <2>3. TypeOK'
        BY <2>2, Zenon DEF IInv, TypeOK
    <2>4. Bound'
        <3>1. \A p \in net' : FromClient(p) \/ FromServer(p)
            BY <2>2 DEF IInv, Bound, Packets
        <3>2. ASSUME NEW d \in Clients PROVE Uses(d)'
            <4>1. Uses(d)
                BY DEF IInv, Bound
            <4> QED
                BY <2>2, <4>1, UsesNext DEF Uses
        <3> QED
            BY <3>1, <3>2, PacketsNext DEF Bound
    <2>5. ASSUME NEW d \in Clients PROVE Still(d)'
        BY <2>2, <2>5 DEF IInv, Still
    <2> QED
        BY <2>3, <2>4, <2>5 DEF IInv
<1>6. ASSUME NEW p \in net, Lose(p) PROVE IInv'
    <2>1. TypeOK'
        BY <1>6, Zenon DEF Lose, IInv, TypeOK
    <2>2. net' \subseteq net /\ UNCHANGED <<addr, client, conns, moves>>
        BY <1>6 DEF Lose
    <2> QED
        BY <2>1, <2>2, FewerPackets DEF IInv
<1>7. CASE Restart
    BY <1>7, ServerForgets
<1>8. CASE UNCHANGED vars
    <2>1. TypeOK'
        BY <1>8, Zenon DEF vars, IInv, TypeOK
    <2>2. net' \subseteq net /\ UNCHANGED <<addr, client, conns, moves>>
        BY <1>8 DEF vars
    <2> QED
        BY <2>1, <2>2, FewerPackets DEF IInv
<1> QED
    BY <1>1, <1>2, <1>3, <1>4, <1>5, <1>6, <1>7, <1>8 DEF Next

-----------------------------------------------------------------------------

\* No timer runs past the timeout, and every connection has an address and the
\* connection IDs that were minted for it.
THEOREM TypesHold == Spec => []TypeOK
<1>1. IInv => TypeOK
    BY DEF IInv
<1> QED
    BY <1>1, InitIInv, NextIInv, PTL DEF Spec

\* Whatever is lost, late or reordered, however often clients move and the
\* server is restarted: the server's socket refuses exactly what comes from
\* another IP than its client has bound, and a client's socket exactly the
\* stateless resets.
THEOREM SocketsRefuseForCause == Spec => []RefusedForCause
<1>1. IInv => RefusedForCause
    BY BoundRefuses DEF IInv
<1> QED
    BY <1>1, InitIInv, NextIInv, PTL DEF Spec

\* And the server has connections only at the IP their client has bound, which
\* the client has never left if it connected without moving.
THEOREM ConnectionsAreBound == Spec => []OpenWhereBound
<1>1. IInv => OpenWhereBound
    <2>1. ASSUME IInv, NEW c \in Clients
          PROVE  /\ conns[c].open => conns[c].remote.ip = LocalIp[c]
                 /\ client[c].state = "open" => moves[c] > 0 \/ addr[c].ip = LocalIp[c]
        <3>1. Uses(c) /\ Still(c) /\ moves[c] \in Nat
            BY <2>1 DEF IInv, Bound, TypeOK
        <3>2. moves[c] = 0 \/ moves[c] > 0
            BY ONLY <3>1
        <3>3. conns[c].open => conns[c].remote.ip = LocalIp[c]
            BY ONLY <3>1, Zenon DEF Uses
        <3>4. client[c].state = "open" => moves[c] > 0 \/ addr[c].ip = LocalIp[c]
            BY ONLY <3>1, <3>2, Zenon DEF Still
        <3> QED
            BY ONLY <3>3, <3>4
    <2> QED
        BY <2>1 DEF OpenWhereBound
<1> QED
    BY <1>1, InitIInv, NextIInv, PTL DEF Spec

-----------------------------------------------------------------------------
(* Why connections time out.  A timer that has run for n intervals has seen *)
(* n - 1 packets lost or late, and the last one may be on its way.         *)

\* Nothing has happened to c's connection that lets it time out.
Undisturbed(c) ==
    /\ moves[c] = 0 /\ addr[c].ip = LocalIp[c]
    /\ generation = 0 /\ faults < IdleTicks - 1

Live(c) == client[c].state \in {"connecting", "open"}
Mail(c) == {p \in net : p.conn = c}

\* A packet of a live client's connection belongs to the one connection that
\* the server has for it.
InTune(c, p) ==
    /\ p.kind # "Close"
    /\ p.to = "client" /\ p.kind # "Reset" =>
          /\ conns[c].open /\ p.scid = conns[c].own
          /\ p.dst = addr[c] /\ p.certificate = 0
    /\ p.to = "server" /\ p.kind = "Data" => conns[c].open /\ p.dcid = conns[c].own

\* The two ends agree on their connection.
Agreed(c) ==
    /\ client[c].trusts = 0
    /\ client[c].state = "idle" => Mail(c) = {} /\ ~conns[c].open /\ idle[c].client = 0
    /\ client[c].state = "open" => conns[c].open /\ client[c].use = conns[c].own
    /\ Live(c) /\ conns[c].open => conns[c].remote = addr[c]
    /\ Live(c) => \A p \in Mail(c) : InTune(c, p)

\* A packet that restarts the client's timer, or leads to one that does.
Answer(c, p) ==
    IF client[c].state = "open" THEN p.kind = "Data" /\ p.to = "client"
                                ELSE p.kind \in {"Initial", "Reply"}

ClientHears(c) ==
    Live(c) => \/ idle[c].client <= faults
               \/ idle[c].client = faults + 1 /\ \E p \in Mail(c) : Answer(c, p)

ServerHears(c) ==
    Live(c) /\ conns[c].open =>
        \/ idle[c].server <= faults
        \/ idle[c].server = faults + 1 /\ \E p \in Mail(c) : p.to = "server"

InTime(c) == client[c].state # "timedout" /\ (c \in expired => client[c].state \in Ended)

Good(c) == InTime(c) /\ Agreed(c) /\ ClientHears(c) /\ ServerHears(c)

Healthy(c) == Undisturbed(c) => Good(c)

\* There are finitely many packets on their way.
Counted == IsFiniteSet(net) /\ faults \in Nat

\* A client that is undisturbed has always been.
LEMMA WasUndisturbed ==
    ASSUME IInv, Counted, [Next]_vars, NEW c \in Clients, Undisturbed(c)'
    PROVE  /\ Undisturbed(c) /\ addr'[c] = addr[c] /\ generation' = generation
           /\ faults' \in Nat /\ faults <= faults'
<1>1. moves[c] \in Nat /\ generation \in Nat /\ faults \in Nat /\ IdleTicks \in Nat
    BY Bounds DEF IInv, TypeOK, Counted
<1>2. ASSUME Deliver PROVE UNCHANGED <<addr, generation, moves, faults>>
    <2>1. ASSUME NEW p, ServerReceives(p) PROVE UNCHANGED <<addr, generation, moves, faults>>
        BY <2>1 DEF ServerReceives, Refused, Accept, ForConnection, Discard, Reset
    <2>2. ASSUME NEW p, NEW d, ClientReceives(d, p) PROVE UNCHANGED <<addr, generation, moves, faults>>
        BY <2>2 DEF ClientReceives
    <2>3. ASSUME NEW p, Astray(p) PROVE UNCHANGED <<addr, generation, moves, faults>>
        BY <2>3 DEF Astray
    <2> QED
        BY <1>2, <2>1, <2>2, <2>3 DEF Deliver
<1>3. \/ UNCHANGED <<addr, generation, moves, faults>>
      \/ UNCHANGED <<addr, generation, moves>> /\ faults' \in {faults + 1, faults + Cardinality(net)}
      \/ generation' = generation + 1
      \/ \E d \in Clients : Rebind(d) /\ UNCHANGED <<generation, faults>>
    <2>1. ASSUME NEW d \in Clients, ClientTimesOut(d) \/ ServerTimesOut(d) \/ Connect(d) \/ Close(d)
          PROVE  UNCHANGED <<addr, generation, moves, faults>>
        BY <2>1 DEF ClientTimesOut, ServerTimesOut, Connect, Close
    <2>2. ASSUME Tick \/ \E p \in net : Lose(p)
          PROVE  /\ UNCHANGED <<addr, generation, moves>>
                 /\ faults' \in {faults + 1, faults + Cardinality(net)}
        BY <2>2 DEF Tick, Lose
    <2>3. ASSUME Restart PROVE generation' = generation + 1
        BY <2>3 DEF Restart
    <2>4. ASSUME NEW d \in Clients, Rebind(d) PROVE UNCHANGED <<generation, faults>>
        BY <2>4 DEF Rebind
    <2>5. ASSUME UNCHANGED vars PROVE UNCHANGED <<addr, generation, moves, faults>>
        BY <2>5 DEF vars
    <2> QED
        BY <1>2, <2>1, <2>2, <2>3, <2>4, <2>5 DEF Next, TimeOut
<1>4. generation' # generation + 1
    BY <1>1 DEF Undisturbed
<1>5. Cardinality(net) \in Nat
    BY FS_CardinalityType DEF Counted
<1>6. faults' \in Nat /\ faults <= faults'
    BY <1>1, <1>3, <1>4, <1>5
<1>7. UNCHANGED <<addr[c], generation, moves[c]>>
    <2>1. ASSUME NEW d \in Clients, Rebind(d) PROVE UNCHANGED <<addr[c], moves[c]>>
        <3>1. d # c
            BY <1>1, <2>1 DEF Rebind, Undisturbed, IInv, TypeOK
        <3> QED
            BY <2>1, <3>1, Zenon DEF Rebind, IInv, TypeOK
    <2> QED
        BY <1>3, <1>4, <2>1, Zenon
<1> QED
    BY <1>1, <1>6, <1>7 DEF Undisturbed

\* A timer holds a number, and one that is in time stays so when the timers are
\* allowed more.
LEMMA TimersCount ==
    ASSUME IInv, NEW c \in Clients
    PROVE  idle[c].client \in Nat /\ idle[c].server \in Nat
<1>1. idle \in [Clients -> [client : 0 .. IdleTicks, server : 0 .. IdleTicks]]
    BY Zenon DEF IInv, TypeOK
<1> QED
    BY ONLY c \in Clients, <1>1, Bounds

LEMMA MoreTime ==
    ASSUME NEW t \in Nat, NEW m \in Nat, NEW n \in Nat, m <= n
    PROVE  /\ t <= m => t <= n
           /\ t = m + 1 => t <= n \/ (t = n + 1 /\ n = m)
OBVIOUS

\* A step that does not concern c leaves its connection in good order.
LEMMA Unconcerned ==
    ASSUME IInv, Counted, NEW c \in Clients, Good(c),
           UNCHANGED <<client[c], conns[c], idle[c], addr[c], Mail(c)>>,
           c \in expired' => c \in expired, faults' \in Nat, faults <= faults'
    PROVE  Good(c)'
<1>1. idle[c].client \in Nat /\ idle[c].server \in Nat /\ faults \in Nat
    BY TimersCount, Zenon DEF Counted
<1>2. InTime(c)'
    BY Zenon DEF Good, InTime
<1>3. Agreed(c)'
    BY Zenon DEF Good, Agreed, Live, InTune
<1>4. ClientHears(c)'
    BY <1>1, MoreTime, Zenon DEF Good, ClientHears, Live, Answer
<1>5. ServerHears(c)'
    BY <1>1, MoreTime, Zenon DEF Good, ServerHears, Live
<1> QED
    BY <1>2, <1>3, <1>4, <1>5 DEF Good

\* Nothing is asked of a client that has ended otherwise than by its timer.
LEMMA EndedIsGood ==
    ASSUME NEW c \in Clients, client'[c].state \in Ended, client'[c].state # "timedout",
           client'[c].trusts = 0
    PROVE  Good(c)'
BY Zenon DEF Good, InTime, Agreed, ClientHears, ServerHears, Live, Ended

\* The timers have not run out.
LEMMA TimersRun ==
    ASSUME IInv, Counted, NEW c \in Clients, Undisturbed(c), Good(c), Live(c)
    PROVE  /\ idle[c].client < IdleTicks
           /\ conns[c].open => idle[c].server < IdleTicks
<1>1. idle[c].client \in Nat /\ idle[c].server \in Nat /\ faults \in Nat /\ IdleTicks \in Nat
    BY Bounds DEF IInv, TypeOK, Counted
<1>2. faults < IdleTicks - 1
    BY DEF Undisturbed
<1>3. idle[c].client <= faults \/ idle[c].client = faults + 1
    BY DEF Good, ClientHears
<1>4. conns[c].open => idle[c].server <= faults \/ idle[c].server = faults + 1
    BY DEF Good, ServerHears
<1> QED
    BY <1>1, <1>2, <1>3, <1>4

\* The client's own steps (client.rs): it connects with everything in order.
LEMMA OwnStepsGood ==
    ASSUME IInv, Counted, NEW c \in Clients, Undisturbed(c), Good(c),
           Connect(c) \/ Close(c) \/ ClientTimesOut(c)
    PROVE  Good(c)'
<1>1. /\ client[c] \in [state : {"idle", "connecting", "open"} \cup Ended,
                        trusts : 0 .. MaxRestarts, use : {InitialCid(c)} \cup ServerCids(c)]
      /\ DOMAIN client = Clients /\ faults \in Nat
    BY Zenon DEF IInv, TypeOK, Counted
<1>2. client[c].trusts = 0 /\ generation = 0
    BY Zenon DEF Good, Agreed, Undisturbed
<1>3. CASE Connect(c)
    <2>. DEFINE q == ToServer("Initial", c)
    <2>1. client[c].state = "idle" /\ Mail(c) = {} /\ ~conns[c].open /\ idle[c].client = 0
        BY <1>3 DEF Connect, Good, Agreed
    <2>2. client'[c].state = "connecting" /\ client'[c].trusts = 0
        BY <1>1, <1>3, <1>2 DEF Connect
    <2>3. net' = net \cup {q} /\ UNCHANGED <<conns, idle, expired, faults, addr>>
        BY <1>3, Zenon DEF Connect
    <2>4. q.conn = c /\ q.kind = "Initial" /\ q.to = "server"
        BY Zenon DEF ToServer
    <2>. HIDE DEF q
    <2>5. Mail(c)' = {q}
        BY <2>1, <2>3, <2>4, Zenon DEF Mail
    <2>6. InTime(c)'
        BY <2>1, <2>2, <2>3, Zenon DEF Good, InTime, Ended
    <2>7. Agreed(c)'
        BY <2>1, <2>2, <2>3, <2>4, <2>5, Zenon DEF Agreed, InTune, Live
    <2>8. ClientHears(c)' /\ ServerHears(c)'
        BY <1>1, <2>1, <2>3 DEF ClientHears, ServerHears
    <2> QED
        BY <2>6, <2>7, <2>8 DEF Good
<1>4. CASE Close(c)
    <2>1. client'[c].state = "closed" /\ client'[c].trusts = 0
        BY <1>1, <1>4, <1>2 DEF Close
    <2> QED
        BY <2>1, EndedIsGood, Zenon DEF Ended
<1>5. CASE ClientTimesOut(c)
    <2>1. Live(c) /\ idle[c].client = IdleTicks /\ IdleTicks \in Nat
        BY <1>5, Bounds, Zenon DEF ClientTimesOut, Live
    <2> QED
        BY <2>1, TimersRun
<1> QED
    BY <1>3, <1>4, <1>5

\* What the packets of a live client's connection are.
LEMMA LiveMail ==
    ASSUME IInv, NEW c \in Clients, Undisturbed(c), Good(c), Live(c), NEW p \in net, p.conn = c
    PROVE  /\ InTune(c, p)
           /\ p.to = "server" => /\ FromClient(p) /\ p.kind \in {"Initial", "Data"}
                                 /\ p.src = addr[c] /\ Verdict(p) = "Ok"
           /\ p.to # "server" => /\ FromServer(p) /\ p.to = "client"
                                 /\ p.kind \in {"Reply", "Data", "Reset"}
                                 /\ Verdict(p) = "Ok" <=> p.kind # "Reset"
<1>1. InTune(c, p)
    BY Zenon DEF Good, Agreed, Mail
<1>2. CASE FromClient(p)
    <2>1. p.src = addr[c] /\ p.src.ip = LocalIp[p.conn]
        BY <1>2, Zenon DEF IInv, Still, Undisturbed, FromClient
    <2>2. Verdict(p) = "Ok"
        BY <1>2, <2>1, VerdictAtServer, Zenon
    <2> QED
        BY <1>1, <1>2, <2>1, <2>2, Zenon DEF InTune, FromClient
<1>3. CASE FromServer(p)
    <2>1. Verdict(p) = "Ok" <=> p.kind # "Reset"
        BY <1>3, VerdictAtClient
    <2>2. p.to = "client" /\ p.kind \in {"Reply", "Data", "Close", "Reset"}
        BY <1>3 DEF FromServer
    <2> QED
        BY <1>1, <1>3, <2>1, <2>2 DEF InTune
<1> QED
    BY <1>2, <1>3, Zenon DEF IInv, Bound, Packets

\* A packet that nobody waits for may be taken away.
LEMMA OthersStay ==
    ASSUME IInv, Counted, NEW c \in Clients, Undisturbed(c), Good(c), Live(c),
           NEW p \in net, p.to = "client", ~Answer(c, p), net' = net \ {p},
           UNCHANGED <<client[c], conns[c], idle[c], addr[c], expired, faults>>
    PROVE  Good(c)'
<1>1. Mail(c)' \subseteq Mail(c) /\ Mail(c) \subseteq Mail(c)' \cup {p}
    BY Zenon DEF Mail
<1>2. InTime(c)'
    BY Zenon DEF Good, InTime
<1>3. client'[c].state # "idle"
    BY Zenon DEF Live
<1>4. Agreed(c)'
    BY <1>1, <1>3, Zenon DEF Good, Agreed, Live, InTune
<1>5. ClientHears(c)'
    BY <1>1, Zenon DEF Good, ClientHears, Live, Answer
<1>6. ServerHears(c)'
    BY <1>1, Zenon DEF Good, ServerHears, Live
<1> QED
    BY <1>2, <1>4, <1>5, <1>6, Zenon DEF Good

\* A packet that reaches a live client completes its handshake, restarts its
\* timer, or is nothing that anybody waits for.
LEMMA ClientReceivesGood ==
    ASSUME IInv, Counted, NEW c \in Clients, Undisturbed(c), Good(c), Live(c),
           NEW p, ClientReceives(c, p)
    PROVE  Good(c)'
<1>1. UNCHANGED <<addr, conns, generation, accepts, expired, moves, faults>>
    BY DEF ClientReceives
<1>2. p \in net /\ p.to = "client" /\ p.conn = c /\ p.dst = addr[c]
    BY Zenon DEF ClientReceives, Opens, Fails, Ends, Hears, Drops, Passes, Reaches
<1>3. /\ InTune(c, p) /\ FromServer(p) /\ p.kind \in {"Reply", "Data", "Reset"}
      /\ Verdict(p) = "Ok" <=> p.kind # "Reset"
    BY <1>2, LiveMail, Zenon
<1>4. /\ p.kind # "Close" /\ client[c].trusts = 0 /\ faults \in Nat
      /\ p.kind # "Reset" => conns[c].open /\ p.scid = conns[c].own /\ p.certificate = 0
    BY <1>2, <1>3, Zenon DEF InTune, Good, Agreed, Counted
<1>5. /\ client[c] \in [state : {"idle", "connecting", "open"} \cup Ended,
                        trusts : 0 .. MaxRestarts, use : {InitialCid(c)} \cup ServerCids(c)]
      /\ DOMAIN client = Clients
      /\ idle \in [Clients -> [client : 0 .. IdleTicks, server : 0 .. IdleTicks]]
    BY Zenon DEF IInv, TypeOK
<1>6. CASE Fails(c, p) \/ Ends(c, p)
    BY <1>4, <1>6 DEF Fails, Ends
<1>7. CASE Opens(c, p) \/ Hears(c, p)
    <2>1. /\ conns[c].open /\ p.scid = conns[c].own
          /\ client'[c].state = "open" /\ client'[c].use = conns[c].own /\ client'[c].trusts = 0
        BY <1>4, <1>5, <1>7 DEF Opens, Hears, Sealed
    <2>2. idle'[c].client = 0 /\ idle'[c].server = idle[c].server /\ net' = net \ {p}
        BY <1>5, <1>7, Zenon DEF Opens, Hears
    <2>3. Mail(c)' \subseteq Mail(c) /\ Mail(c) \subseteq Mail(c)' \cup {p}
        BY <2>2, Zenon DEF Mail
    <2>4. InTime(c)'
        BY <1>1, <2>1, Zenon DEF Good, InTime, Live, Ended
    <2>5. Agreed(c)'
        BY <1>1, <2>1, <2>3, Zenon DEF Good, Agreed, Live, InTune
    <2>6. ClientHears(c)'
        <3>1. idle'[c].client = 0 /\ faults' = faults /\ faults \in Nat
            BY <1>1, <1>4, <2>2, Zenon
        <3>2. idle'[c].client <= faults'
            BY ONLY <3>1
        <3> QED
            BY <3>2, Zenon DEF ClientHears
    <2>7. ServerHears(c)'
        BY <1>1, <1>2, <2>2, <2>3 DEF Good, ServerHears, Live
    <2> QED
        BY <2>4, <2>5, <2>6, <2>7 DEF Good
<1>8. CASE Drops(c, p)
    <2>1. net' = net \ {p} /\ UNCHANGED <<client, idle>>
        BY <1>8, Zenon DEF Drops
    <2>2. CASE p.kind = "Reset"
        <3>1. ~Answer(c, p)
            BY <2>2, Zenon DEF Answer
        <3> QED
            BY <1>1, <1>2, <2>1, <3>1, OthersStay, Zenon
    <2>3. CASE p.kind = "Reply"
        <3>1. client[c].state = "open"
            BY <1>3, <1>8, <2>3, Zenon DEF Drops, Live
        <3>2. ~Answer(c, p)
            BY <2>3, <3>1, Zenon DEF Answer
        <3> QED
            BY <1>1, <1>2, <2>1, <3>2, OthersStay, Zenon
    <2>4. CASE p.kind = "Data"
        <3>1. client[c].state = "open" => client[c].use = conns[c].own
            BY Zenon DEF Good, Agreed
        <3>2. client[c].state = "connecting"
            BY <1>3, <1>4, <1>8, <2>4, <3>1 DEF Drops, Live, Sealed
        <3>3. ~Answer(c, p)
            BY <2>4, <3>2, Zenon DEF Answer
        <3> QED
            BY <1>1, <1>2, <2>1, <3>3, OthersStay
    <2> QED
        BY <1>3, <2>2, <2>3, <2>4
<1> QED
    BY <1>6, <1>7, <1>8 DEF ClientReceives

\* A live client's packet that reaches the server makes the connection or
\* belongs to it, and restarts the server's timer.
LEMMA ServerReceivesGood ==
    ASSUME IInv, Counted, NEW c \in Clients, Undisturbed(c), Good(c), Live(c),
           NEW p \in net, p.conn = c, ServerReceives(p)
    PROVE  Good(c)'
<1>1. p.to = "server"
    BY Zenon DEF ServerReceives, Refused, Accept, ForConnection, Discard, Reset, Arrives
<1>2. /\ InTune(c, p) /\ FromClient(p) /\ p.kind \in {"Initial", "Data"}
      /\ p.src = addr[c] /\ Verdict(p) = "Ok"
    BY <1>1, LiveMail, Zenon
<1>3. /\ client[c].state = "open" => conns[c].open
      /\ conns[c].open => conns[c].remote = addr[c]
      /\ client[c].state \in {"connecting", "open"}
    BY Zenon DEF Good, Agreed, Live
<1>4. /\ DOMAIN conns = Clients /\ faults \in Nat /\ generation = 0
      /\ idle \in [Clients -> [client : 0 .. IdleTicks, server : 0 .. IdleTicks]]
    BY Zenon DEF IInv, TypeOK, Counted, Undisturbed
<1>5. ASSUME NEW q, q.conn = c, q.to = "client", q.kind = "Reply", q.dst = addr[c],
             q.certificate = 0, conns'[c].open, q.scid = conns'[c].own,
             conns'[c].remote = addr[c], ~conns[c].open \/ conns'[c] = conns[c],
             p.kind = "Initial", net' = (net \ {p}) \cup {q},
             idle'[c].client = idle[c].client, idle'[c].server = 0,
             UNCHANGED <<client, addr, expired, faults>>
      PROVE  Good(c)'
    <2>1. Mail(c)' = (Mail(c) \ {p}) \cup {q}
        BY <1>5 DEF Mail
    <2>2. InTime(c)'
        BY <1>5 DEF Good, InTime
    <2>3. \A r \in Mail(c)' : InTune(c, r)'
        <3>1. InTune(c, q)'
            BY <1>5, Zenon DEF InTune
        <3>2. ASSUME NEW r \in Mail(c) PROVE InTune(c, r)'
            <4>1. InTune(c, r)
                BY Zenon DEF Good, Agreed
            <4> QED
                BY <1>5, <4>1, Zenon DEF InTune
        <3> QED
            BY <2>1, <3>1, <3>2
    <2>4. Agreed(c)'
        <3>1. conns[c].open => conns'[c] = conns[c]
            BY <1>5, Zenon
        <3> QED
            BY <1>3, <1>5, <2>3, <3>1, Zenon DEF Good, Agreed, Live
    <2>5. ClientHears(c)'
        <3>1. CASE client[c].state = "open"
            <4>1. \A r \in Mail(c) : Answer(c, r) => r \in Mail(c)' /\ Answer(c, r)'
                BY <1>5, <2>1, <3>1, Zenon DEF Answer
            <4> QED
                BY <1>5, <4>1, Zenon DEF Good, ClientHears, Live
        <3>2. CASE client[c].state = "connecting"
            <4>1. q \in Mail(c)' /\ Answer(c, q)'
                BY <1>5, <2>1, <3>2, Zenon DEF Answer
            <4> QED
                BY <1>5, <4>1, Zenon DEF Good, ClientHears, Live
        <3> QED
            BY <1>3, <3>1, <3>2, Zenon
    <2>6. ServerHears(c)'
        BY <1>4, <1>5 DEF ServerHears
    <2> QED
        BY <2>2, <2>4, <2>5, <2>6 DEF Good
<1>6. CASE Accept(p)
    <2>. DEFINE scid == ServerCid(c, accepts[c], p.src)
                q == ToClient("Reply", c, p.src, p.scid, scid)
    <2>1. /\ p.kind = "Initial" /\ ~conns[c].open
          /\ conns' = [conns EXCEPT ![c] = NewConn(p, scid)]
          /\ net' = (net \ {p}) \cup {q}
          /\ idle' = [idle EXCEPT ![c].server = 0]
          /\ UNCHANGED <<addr, client, expired, faults>>
        BY <1>6 DEF Accept
    <2>2. /\ q.conn = c /\ q.to = "client" /\ q.kind = "Reply" /\ q.dst = addr[c]
          /\ q.certificate = 0 /\ q.scid = scid
        BY <1>2, <1>4, Zenon DEF ToClient
    <2>. HIDE DEF q, scid
    <2>3. conns'[c].open /\ conns'[c].own = scid /\ conns'[c].remote = addr[c]
        BY <1>2, <1>4, <2>1 DEF NewConn
    <2>4. idle'[c].client = idle[c].client /\ idle'[c].server = 0
        BY <1>4, <2>1
    <2> QED
        BY <1>5, <2>1, <2>2, <2>3, <2>4
<1>7. CASE ForConnection(p) /\ p.kind = "Initial"
    <2>. DEFINE q == ToClient("Reply", c, p.src, conns[c].use, conns[c].own)
    <2>1. /\ conns[c].open /\ conns' = conns
          /\ net' = (net \ {p}) \cup {q}
          /\ idle' = [idle EXCEPT ![c].server = 0]
          /\ UNCHANGED <<addr, client, expired, faults>>
        BY <1>7, Zenon DEF ForConnection, Routed
    <2>2. /\ q.conn = c /\ q.to = "client" /\ q.kind = "Reply" /\ q.dst = addr[c]
          /\ q.certificate = 0 /\ q.scid = conns[c].own
        BY <1>2, <1>4, Zenon DEF ToClient
    <2>. HIDE DEF q
    <2>3. idle'[c].client = idle[c].client /\ idle'[c].server = 0
        BY <1>4, <2>1
    <2> QED
        BY <1>3, <1>5, <1>7, <2>1, <2>2, <2>3
<1>8. CASE ForConnection(p) /\ p.kind = "Data"
    <2>1. /\ conns' = conns /\ net' = net \ {p}
          /\ idle' = [idle EXCEPT ![c].server = 0]
          /\ UNCHANGED <<addr, client, expired, faults>>
        BY <1>8 DEF ForConnection
    <2>2. idle'[c].client = idle[c].client /\ idle'[c].server = 0
        BY <1>4, <2>1
    <2>3. Mail(c)' \subseteq Mail(c) /\ Mail(c) \subseteq Mail(c)' \cup {p}
        BY <2>1 DEF Mail
    <2>4. InTime(c)'
        BY <2>1 DEF Good, InTime
    <2>5. Agreed(c)'
        BY <1>3, <2>1, <2>3 DEF Good, Agreed, Live, InTune
    <2>6. ClientHears(c)'
        <3>1. \A r \in Mail(c) : Answer(c, r) => r \in Mail(c)' /\ Answer(c, r)'
            BY <1>1, <1>8, <2>1, <2>3 DEF Answer
        <3> QED
            BY <2>1, <2>2, <3>1 DEF Good, ClientHears, Live
    <2>7. ServerHears(c)'
        BY <1>4, <2>1, <2>2 DEF ServerHears
    <2> QED
        BY <2>4, <2>5, <2>6, <2>7 DEF Good
<1>9. CASE Refused(p) \/ Discard(p)
    BY <1>2, <1>3, <1>9, Zenon DEF Refused, Discard, Routed
<1>10. CASE Reset(p)
    BY <1>1, <1>2, <1>10, Zenon DEF Reset, Routed, InTune
<1> QED
    BY <1>2, <1>6, <1>7, <1>8, <1>9, <1>10, Zenon DEF ServerReceives

\* The packets of an interval are those of their client.
LEMMA TickMail ==
    ASSUME Tick, NEW c \in Clients
    PROVE  Mail(c)' = Mail(c) \cup KeepAlive(c)
<1>1. \A d \in Clients : \A q \in KeepAlive(d) : q.conn = d
    BY DEF KeepAlive, ToServer, ToClient
<1>2. net' = net \cup UNION {KeepAlive(d) : d \in Clients}
    BY Zenon DEF Tick
<1> QED
    BY <1>1, <1>2 DEF Mail

\* An interval that finds a packet on its way counts it as late.
LEMMA LateAreCounted ==
    ASSUME Counted, Tick
    PROVE  faults' \in Nat /\ faults <= faults' /\ (net # {} => faults + 1 <= faults')
<1>1. Cardinality(net) \in Nat /\ (net # {} => Cardinality(net) # 0)
    BY FS_CardinalityType, FS_EmptySet DEF Counted
<1> QED
    BY <1>1 DEF Tick, Counted

\* A timer that an interval advances has seen one more packet late, unless one
\* of this interval restarts it.
LEMMA TimerAdvances ==
    ASSUME NEW n \in Nat, NEW f \in Nat, NEW g \in Nat, f <= g,
           n <= f \/ (n = f + 1 /\ f + 1 <= g)
    PROVE  Older(n) <= g \/ Older(n) = g + 1
BY Bounds DEF Older

\* An interval passes: each end has sent the other something (lib.rs,
\* transport_config).
LEMMA TickGood ==
    ASSUME IInv, Counted, NEW c \in Clients, Undisturbed(c), Good(c), Tick
    PROVE  Good(c)'
<1>1. /\ UNCHANGED <<addr, client, conns, generation, expired>>
      /\ idle'[c].client = IF client[c].state = "idle" THEN 0 ELSE Older(idle[c].client)
      /\ idle'[c].server = IF conns[c].open THEN Older(idle[c].server) ELSE 0
    BY Zenon DEF Tick
<1>2. /\ Mail(c)' = Mail(c) \cup KeepAlive(c)
      /\ faults' \in Nat /\ faults <= faults' /\ (net # {} => faults + 1 <= faults')
    BY TickMail, LateAreCounted, Zenon
<1>3. /\ client[c].state \in {"idle", "connecting", "open"} \cup Ended
      /\ idle[c].client \in Nat /\ idle[c].server \in Nat /\ faults \in Nat
    <2>1. client[c] \in [state : {"idle", "connecting", "open"} \cup Ended,
                         trusts : 0 .. MaxRestarts, use : {InitialCid(c)} \cup ServerCids(c)]
        BY Zenon DEF IInv, TypeOK
    <2>2. idle \in [Clients -> [client : 0 .. IdleTicks, server : 0 .. IdleTicks]] /\ faults \in Nat
        BY Zenon DEF IInv, TypeOK, Counted
    <2> QED
        BY <2>1, <2>2, Bounds
<1>4. InTime(c)'
    BY <1>1, Zenon DEF Good, InTime
<1>5. CASE client[c].state \in Ended
    BY <1>1, <1>5, EndedIsGood, Zenon DEF Good, InTime, Agreed
<1>6. CASE client[c].state = "idle"
    <2>1. KeepAlive(c) = {}
        BY <1>6, Zenon DEF KeepAlive, Good, Agreed
    <2>2. Agreed(c)'
        BY <1>1, <1>2, <1>6, <2>1, Zenon DEF Good, Agreed, Live
    <2>3. ~Live(c)'
        BY <1>1, <1>6 DEF Live
    <2> QED
        BY <1>4, <2>2, <2>3, Zenon DEF Good, ClientHears, ServerHears
<1>7. CASE Live(c)
    <2>1. /\ generation = 0 /\ client[c].trusts = 0
          /\ client[c].state = "open" => conns[c].open /\ client[c].use = conns[c].own
          /\ conns[c].open => conns[c].remote = addr[c]
        BY <1>7, Zenon DEF Good, Agreed, Undisturbed
    <2>. DEFINE u == ToServer("Initial", c)
                v == ToServer("Data", c)
                w == ToClient("Data", c, conns[c].remote, conns[c].use, conns[c].own)
    <2>2. /\ client[c].state = "connecting" => u \in KeepAlive(c)
          /\ client[c].state = "open" => v \in KeepAlive(c) /\ w \in KeepAlive(c)
          /\ \A q \in KeepAlive(c) : \/ q = u
                                     \/ q = v /\ client[c].state = "open"
                                     \/ q = w /\ conns[c].open
        BY <1>7, <2>1, Zenon DEF KeepAlive, Live
    <2>3. /\ u.to = "server" /\ u.kind = "Initial"
          /\ v.to = "server" /\ v.kind = "Data" /\ v.dcid = client[c].use
          /\ w.to = "client" /\ w.kind = "Data" /\ w.dst = conns[c].remote
          /\ w.scid = conns[c].own /\ w.certificate = 0
        BY <2>1, Zenon DEF ToServer, ToClient
    <2>. HIDE DEF u, v, w
    <2>4. \A q \in Mail(c)' : InTune(c, q)'
        <3>1. ASSUME NEW q \in Mail(c) PROVE InTune(c, q)'
            <4>1. InTune(c, q)
                BY <1>7, Zenon DEF Good, Agreed
            <4> QED
                BY <1>1, <4>1, Zenon DEF InTune
        <3>2. ASSUME NEW q \in KeepAlive(c) PROVE InTune(c, q)'
            BY <1>1, <2>1, <2>2, <2>3, Zenon DEF InTune
        <3> QED
            BY <1>2, <3>1, <3>2, Zenon
    <2>5. Agreed(c)'
        BY <1>1, <1>7, <2>1, <2>4, Zenon DEF Agreed, Live
    <2>6. ClientHears(c)'
        <3>1. idle[c].client <= faults \/ (idle[c].client = faults + 1 /\ faults + 1 <= faults')
            BY <1>2, <1>7, Zenon DEF Good, ClientHears, Mail
        <3>2. idle'[c].client <= faults' \/ idle'[c].client = faults' + 1
            BY <1>1, <1>2, <1>3, <1>7, <3>1, TimerAdvances DEF Live
        <3>3. \E q \in Mail(c)' : Answer(c, q)'
            BY <1>1, <1>2, <1>7, <2>2, <2>3 DEF Answer, Live
        <3> QED
            BY <3>2, <3>3, Zenon DEF ClientHears
    <2>7. ServerHears(c)'
        <3> SUFFICES ASSUME conns[c].open
                     PROVE  /\ idle'[c].server <= faults' \/ idle'[c].server = faults' + 1
                            /\ \E q \in Mail(c)' : q.to = "server"
            BY <1>1, Zenon DEF ServerHears
        <3>1. idle[c].server <= faults \/ (idle[c].server = faults + 1 /\ faults + 1 <= faults')
            BY <1>2, <1>7 DEF Good, ServerHears, Mail
        <3>2. idle'[c].server <= faults' \/ idle'[c].server = faults' + 1
            BY <1>1, <1>2, <1>3, <3>1, TimerAdvances
        <3>3. \E q \in Mail(c)' : q.to = "server"
            BY <1>2, <1>7, <2>2, <2>3 DEF Live
        <3> QED
            BY <3>2, <3>3
    <2> QED
        BY <1>4, <2>5, <2>6, <2>7 DEF Good
<1> QED
    BY <1>3, <1>5, <1>6, <1>7, Zenon DEF Live

\* A packet that is lost is counted, so the timers are allowed one interval more.
LEMMA LoseGood ==
    ASSUME IInv, Counted, NEW c \in Clients, Good(c), NEW p \in net, Lose(p)
    PROVE  Good(c)'
<1>1. /\ faults' = faults + 1 /\ net' = net \ {p} /\ faults \in Nat
      /\ UNCHANGED <<addr, client, conns, idle, expired>>
    BY DEF Lose, Counted
<1>2. Mail(c)' \subseteq Mail(c)
    BY <1>1 DEF Mail
<1>3. /\ idle[c].client <= faults + 1 => idle[c].client <= faults'
      /\ idle[c].server <= faults + 1 => idle[c].server <= faults'
      /\ idle[c].client <= faults => idle[c].client <= faults + 1
      /\ idle[c].server <= faults => idle[c].server <= faults + 1
      /\ faults + 1 <= faults + 1
    <2>1. idle[c].client \in Nat /\ idle[c].server \in Nat
        BY TimersCount, Zenon
    <2> QED
        BY ONLY <1>1, <2>1
<1>4. InTime(c)'
    BY <1>1, Zenon DEF Good, InTime
<1>5. Agreed(c)'
    BY <1>1, <1>2, Zenon DEF Good, Agreed, Live, InTune
<1>6. ClientHears(c)'
    BY <1>1, <1>3, Zenon DEF Good, ClientHears, Live
<1>7. ServerHears(c)'
    BY <1>1, <1>3, Zenon DEF Good, ServerHears, Live
<1> QED
    BY <1>4, <1>5, <1>6, <1>7 DEF Good

\* A packet of one client's connection concerns no other client.
LEMMA DeliveredElsewhere ==
    ASSUME IInv, NEW c \in Clients, NEW p \in net, p.conn # c,
           ServerReceives(p) \/ Astray(p) \/ \E d \in Clients : ClientReceives(d, p)
    PROVE  UNCHANGED <<client[c], conns[c], idle[c], addr[c], Mail(c), expired, faults>>
<1>1. /\ DOMAIN client = Clients /\ DOMAIN conns = Clients
      /\ idle \in [Clients -> [client : 0 .. IdleTicks, server : 0 .. IdleTicks]]
    BY Zenon DEF IInv, TypeOK
<1>2. ASSUME NEW q, q.conn = p.conn, net' \subseteq net \cup {q}, net \subseteq net' \cup {p}
      PROVE  Mail(c)' = Mail(c)
    BY <1>2 DEF Mail
<1>3. CASE Refused(p) \/ Discard(p) \/ Astray(p)
    <2>1. net' = net \ {p} /\ UNCHANGED <<client, conns, idle, addr, expired, faults>>
        BY <1>3, Zenon DEF Refused, Discard, Astray
    <2> QED
        BY <1>2, <2>1, Zenon
<1>4. CASE Reset(p)
    <2>. DEFINE q == ToClient("Reset", p.conn, p.src, RandomCid, RandomCid)
    <2>1. net' = (net \ {p}) \cup {q} /\ UNCHANGED <<client, conns, idle, addr, expired, faults>>
        BY <1>4 DEF Reset
    <2>2. q.conn = p.conn
        BY DEF ToClient
    <2>. HIDE DEF q
    <2> QED
        BY <1>2, <2>1, <2>2
<1>5. CASE Accept(p) \/ ForConnection(p)
    <2>1. PICK q : q.conn = p.conn /\ net' \subseteq net \cup {q} /\ net \subseteq net' \cup {p}
        <3>1. ASSUME Accept(p)
              PROVE  net' = (net \ {p}) \cup
                        {ToClient("Reply", p.conn, p.src, p.scid, ServerCid(p.conn, accepts[p.conn], p.src))}
            BY <3>1 DEF Accept
        <3>2. ASSUME ForConnection(p)
              PROVE  \/ net' = net \ {p}
                     \/ net' = (net \ {p}) \cup
                          {ToClient("Reply", p.conn, p.src, conns[p.conn].use, conns[p.conn].own)}
            BY <3>2 DEF ForConnection
        <3>3. \A dcid, scid : ToClient("Reply", p.conn, p.src, dcid, scid).conn = p.conn
            BY DEF ToClient
        <3> QED
            BY <1>5, <3>1, <3>2, <3>3
    <2>2. /\ idle' = [idle EXCEPT ![p.conn].server = 0]
          /\ UNCHANGED <<client, addr, expired, faults>>
        BY <1>5 DEF Accept, ForConnection
    <2>3. conns'[c] = conns[c]
        BY <1>1, <1>5, Zenon DEF Accept, ForConnection
    <2> QED
        BY <1>1, <1>2, <2>1, <2>2, <2>3, Zenon
<1>6. ASSUME NEW d \in Clients, ClientReceives(d, p)
      PROVE  UNCHANGED <<client[c], conns[c], idle[c], addr[c], Mail(c), expired, faults>>
    <2>1. p.conn = d
        BY <1>6 DEF ClientReceives, Opens, Fails, Ends, Hears, Drops, Passes, Reaches
    <2>2. UNCHANGED <<client[c], idle[c]>>
        BY <1>1, <1>6, <2>1 DEF ClientReceives, Opens, Fails, Ends, Hears, Drops
    <2>3. UNCHANGED <<conns, addr, expired, faults>>
        BY <1>6 DEF ClientReceives
    <2>4. Mail(c)' = Mail(c)
        <3>1. CASE Fails(d, p)
            <4>. DEFINE q == [ToServer("Close", d) EXCEPT !.dcid = p.scid]
            <4>1. net' = (net \ {p}) \cup {q}
                BY <3>1 DEF Fails
            <4>2. q.conn = d
                BY DEF ToServer
            <4>. HIDE DEF q
            <4> QED
                BY <1>2, <2>1, <4>1, <4>2
        <3>2. CASE Opens(d, p) \/ Ends(d, p) \/ Hears(d, p) \/ Drops(d, p)
            <4>1. net' = net \ {p}
                BY <3>2 DEF Opens, Ends, Hears, Drops
            <4> QED
                BY <1>2, <4>1
        <3> QED
            BY <1>6, <3>1, <3>2 DEF ClientReceives
    <2> QED
        BY <2>2, <2>3, <2>4
<1> QED
    BY <1>3, <1>4, <1>5, <1>6, Zenon DEF ServerReceives

\* Whatever packet is delivered, an undisturbed connection stays in good order.
LEMMA DeliverGood ==
    ASSUME IInv, Counted, NEW c \in Clients, Undisturbed(c), Good(c), Deliver
    PROVE  Good(c)'
<1>1. PICK p \in net : ServerReceives(p) \/ Astray(p) \/ \E d \in Clients : ClientReceives(d, p)
    BY DEF Deliver
<1>2. CASE p.conn # c
    <2>1. UNCHANGED <<client[c], conns[c], idle[c], addr[c], Mail(c), expired, faults>>
        BY <1>1, <1>2, DeliveredElsewhere
    <2>2. faults \in Nat /\ faults <= faults
        BY DEF Counted
    <2> QED
        BY <2>1, <2>2, Unconcerned
<1>3. CASE p.conn = c /\ Live(c)
    <2>1. CASE ServerReceives(p)
        BY <1>3, <2>1, ServerReceivesGood
    <2>2. ASSUME NEW d \in Clients, ClientReceives(d, p) PROVE Good(c)'
        <3>1. d = c
            BY <1>3, <2>2, Zenon DEF ClientReceives, Opens, Fails, Ends, Hears, Drops, Passes, Reaches
        <3> QED
            BY <1>3, <2>2, <3>1, ClientReceivesGood
    <2>3. CASE Astray(p)
        <3>1. /\ p.to = "client" /\ addr[c] # p.dst /\ net' = net \ {p}
              /\ UNCHANGED <<client, conns, idle, addr, expired, faults>>
            BY <1>3, <2>3, Zenon DEF Astray
        <3>2. p.kind = "Reset"
            BY <1>3, <3>1, LiveMail, Zenon DEF InTune
        <3>3. ~Answer(c, p)
            BY <3>2 DEF Answer
        <3> QED
            BY <1>3, <3>1, <3>3, OthersStay, Zenon
    <2> QED
        BY <1>1, <2>1, <2>2, <2>3
<1>4. CASE p.conn = c /\ ~Live(c)
    <2>1. p \in Mail(c)
        BY <1>4, Zenon DEF Mail
    <2>2. client[c].state # "idle"
        BY <2>1, Zenon DEF Good, Agreed
    <2>3. client[c].state \in Ended /\ client[c].state # "timedout" /\ client[c].trusts = 0
        <3>1. client[c] \in [state : {"idle", "connecting", "open"} \cup Ended,
                             trusts : 0 .. MaxRestarts, use : {InitialCid(c)} \cup ServerCids(c)]
            BY Zenon DEF IInv, TypeOK
        <3>2. client[c].state \in {"idle", "connecting", "open"} \cup Ended
            BY ONLY <3>1
        <3> QED
            BY <1>4, <2>2, <3>2 DEF Live, Good, InTime, Agreed
    <2>4. client'[c] = client[c]
        <3>1. ASSUME NEW d \in Clients, ClientReceives(d, p) PROVE client'[c] = client[c]
            <4>1. d = c
                BY <1>4, <3>1 DEF ClientReceives, Opens, Fails, Ends, Hears, Drops, Passes, Reaches
            <4> QED
                BY <1>4, <3>1, <4>1 DEF ClientReceives, Opens, Fails, Ends, Hears, Drops, Sealed, Live
        <3> QED
            BY <1>1, <3>1 DEF ServerReceives, Refused, Accept, ForConnection, Discard, Reset, Astray
    <2> QED
        BY <2>3, <2>4, EndedIsGood
<1> QED
    BY <1>2, <1>3, <1>4

\* The server's timer runs out only for a client that is gone, and another
\* client's steps change nothing.
LEMMA TimeOutGood ==
    ASSUME IInv, Counted, NEW c \in Clients, Undisturbed(c), Good(c),
           NEW d \in Clients, ServerTimesOut(d)
    PROVE  Good(c)'
<1>1. /\ conns[d].open /\ idle[d].server = IdleTicks
      /\ conns' = [conns EXCEPT ![d] = NoConn] /\ expired' = expired \cup {d}
      /\ UNCHANGED <<addr, client, net, idle, faults>> /\ DOMAIN conns = Clients
    BY Zenon DEF ServerTimesOut, IInv, TypeOK
<1>2. CASE d # c
    <2>1. UNCHANGED <<client[c], conns[c], idle[c], addr[c], Mail(c)>> /\ (c \in expired' => c \in expired)
        BY <1>1, <1>2 DEF Mail
    <2>2. faults' \in Nat /\ faults <= faults'
        BY <1>1 DEF Counted
    <2> QED
        BY <2>1, <2>2, Unconcerned, Zenon
<1>3. CASE d = c
    <2>1. ~Live(c)
        BY <1>1, <1>3, TimersRun, Bounds
    <2>2. client[c].state # "idle"
        BY <1>1, <1>3, Zenon DEF Good, Agreed
    <2>3. client[c] \in [state : {"idle", "connecting", "open"} \cup Ended,
                         trusts : 0 .. MaxRestarts, use : {InitialCid(c)} \cup ServerCids(c)]
        BY Zenon DEF IInv, TypeOK
    <2>4. client[c].state \in {"idle", "connecting", "open"} \cup Ended
        BY ONLY <2>3, Zenon
    <2>5. client[c].state \in Ended /\ client[c].state # "timedout" /\ client[c].trusts = 0
        BY <2>1, <2>2, <2>4, Zenon DEF Live, Good, InTime, Agreed
    <2> QED
        BY <1>1, <2>5, EndedIsGood, Zenon
<1> QED
    BY <1>2, <1>3, Zenon

\* The same for the steps that a client takes by itself.
LEMMA ClientStepsGood ==
    ASSUME IInv, Counted, NEW c \in Clients, Undisturbed(c), Good(c), NEW d \in Clients,
           Connect(d) \/ Close(d) \/ ClientTimesOut(d) \/ Rebind(d), addr'[c] = addr[c],
           Undisturbed(c)'
    PROVE  Good(c)'
<1>1. UNCHANGED <<conns, idle, expired, faults>>
    BY Zenon DEF Connect, Close, ClientTimesOut, Rebind
<1>2. CASE d # c
    <2>1. client'[c] = client[c]
        BY <1>2, Zenon DEF Connect, Close, ClientTimesOut, Rebind, IInv, TypeOK
    <2>2. Mail(c)' = Mail(c)
        <3>1. \A kind : ToServer(kind, d).conn = d
            BY DEF ToServer
        <3>2. net' = net \/ \E kind : net' = net \cup {ToServer(kind, d)}
            BY DEF Connect, Close, ClientTimesOut, Rebind
        <3> QED
            BY <1>2, <3>1, <3>2, Zenon DEF Mail
    <2>3. faults' \in Nat /\ faults <= faults'
        BY <1>1 DEF Counted
    <2> QED
        BY <1>1, <2>1, <2>2, <2>3, Unconcerned, Zenon
<1>3. CASE d = c
    <2>1. ~Rebind(c)
        <3>1. moves \in [Clients -> Nat] /\ moves'[c] = 0
            BY Zenon DEF IInv, TypeOK, Undisturbed
        <3>2. moves' # [moves EXCEPT ![c] = @ + 1]
            BY ONLY c \in Clients, <3>1
        <3> QED
            BY <3>2, Zenon DEF Rebind
    <2> QED
        BY <1>3, <2>1, OwnStepsGood, Zenon
<1> QED
    BY <1>2, <1>3, Zenon

\* Every step keeps an undisturbed connection in good order.
LEMMA HealthyStep ==
    ASSUME IInv, Counted, \A c \in Clients : Healthy(c), [Next]_vars
    PROVE  \A c \in Clients : Healthy(c)'
<1> SUFFICES ASSUME NEW c \in Clients, Undisturbed(c)' PROVE Good(c)'
    BY DEF Healthy
<1>1. /\ Undisturbed(c) /\ addr'[c] = addr[c] /\ generation' = generation
      /\ faults' \in Nat /\ faults <= faults'
    BY WasUndisturbed
<1>2. Good(c)
    BY <1>1 DEF Healthy
<1>3. CASE Deliver
    BY <1>1, <1>2, <1>3, DeliverGood, Zenon
<1>4. CASE TimeOut
    BY <1>1, <1>2, <1>4, TimeOutGood, ClientStepsGood, Zenon DEF TimeOut
<1>5. CASE Tick
    BY <1>1, <1>2, <1>5, TickGood, Zenon
<1>6. CASE \E d \in Clients : Connect(d) \/ Close(d) \/ Rebind(d)
    BY <1>1, <1>2, <1>6, ClientStepsGood, Zenon
<1>7. CASE \E p \in net : Lose(p)
    BY <1>2, <1>7, LoseGood, Zenon
<1>8. CASE Restart
    <2>1. generation \in 0 .. MaxRestarts /\ generation' = generation + 1
        BY <1>8, Zenon DEF Restart, IInv, TypeOK
    <2>2. generation' # generation
        BY ONLY <2>1, Bounds
    <2> QED
        BY <1>1, <2>2, Zenon
<1>9. CASE UNCHANGED vars
    <2>1. UNCHANGED <<client[c], conns[c], idle[c], addr[c], Mail(c), expired>>
        BY <1>9, Zenon DEF vars, Mail
    <2> QED
        BY <1>1, <1>2, <2>1, Unconcerned, Zenon
<1> QED
    BY <1>3, <1>4, <1>5, <1>6, <1>7, <1>8, <1>9 DEF Next

\* A function takes finitely many arguments to finitely many values.
LEMMA FiniteImage ==
    ASSUME NEW S, IsFiniteSet(S), NEW f
    PROVE  IsFiniteSet({f[x] : x \in S})
<1>. DEFINE T == {f[x] : x \in S}
            g == [x \in S |-> f[x]]
<1>1. g \in [S -> T] /\ \A t \in T : \E x \in S : g[x] = t
    OBVIOUS
<1>. HIDE DEF T, g
<1>2. g \in Surjection(S, T)
    BY <1>1 DEF Surjection
<1>3. IsFiniteSet(T)
    BY <1>2, FS_Surjection
<1> QED
    BY <1>3 DEF T

\* A step puts finitely many packets on their way: at most one, or those of the
\* clients, of whom there are finitely many.
LEMMA CountedStep ==
    ASSUME IInv, Counted, [Next]_vars
    PROVE  Counted'
<1>1. ASSUME NEW q, net' \subseteq net \cup {q} PROVE IsFiniteSet(net')
    <2>1. IsFiniteSet(net \cup {q})
        BY FS_AddElement DEF Counted
    <2> QED
        BY <1>1, <2>1, FS_Subset
<1>2. IsFiniteSet(Clients)
    BY ConnectionAssumption
<1>3. faults \in Nat /\ Cardinality(net) \in Nat /\ IsFiniteSet(net)
    BY FS_CardinalityType DEF Counted
<1>4. CASE Deliver
    <2>1. PICK p \in net : ServerReceives(p) \/ Astray(p) \/ \E d \in Clients : ClientReceives(d, p)
        BY <1>4 DEF Deliver
    <2>2. ASSUME ServerReceives(p) PROVE faults' = faults /\ \E q : net' \subseteq net \cup {q}
        BY <2>2 DEF ServerReceives, Refused, Accept, ForConnection, Discard, Reset
    <2>3. ASSUME NEW d \in Clients, ClientReceives(d, p)
          PROVE  faults' = faults /\ \E q : net' \subseteq net \cup {q}
        BY <2>3 DEF ClientReceives, Opens, Fails, Ends, Hears, Drops
    <2>4. ASSUME Astray(p) PROVE faults' = faults /\ \E q : net' \subseteq net \cup {q}
        BY <2>4 DEF Astray
    <2> QED
        BY <1>1, <1>3, <2>1, <2>2, <2>3, <2>4 DEF Counted
<1>5. CASE \E d \in Clients : \/ Connect(d) \/ Close(d) \/ Rebind(d)
                              \/ ClientTimesOut(d) \/ ServerTimesOut(d)
    <2>1. faults' = faults /\ \E q : net' \subseteq net \cup {q}
        BY <1>5 DEF Connect, Close, Rebind, ClientTimesOut, ServerTimesOut
    <2> QED
        BY <1>1, <1>3, <2>1 DEF Counted
<1>6. CASE \E p \in net : Lose(p)
    <2>1. faults' = faults + 1 /\ \E q : net' \subseteq net \cup {q}
        BY <1>6 DEF Lose
    <2> QED
        BY <1>1, <1>3, <2>1 DEF Counted
<1>7. CASE Tick
    <2>1. ASSUME NEW c \in Clients PROVE IsFiniteSet(KeepAlive(c))
        <3>. DEFINE w == ToClient("Data", c, conns[c].remote, conns[c].use, conns[c].own)
        <3>1. PICK u : KeepAlive(c) \subseteq {u} \cup {w}
            BY DEF KeepAlive
        <3>. HIDE DEF w
        <3>2. IsFiniteSet({u} \cup {w})
            BY FS_Singleton, FS_AddElement, Zenon
        <3> QED
            BY <3>1, <3>2, FS_Subset
    <2>2. IsFiniteSet({KeepAlive(c) : c \in Clients})
        <3>. DEFINE f == [c \in Clients |-> KeepAlive(c)]
        <3>1. IsFiniteSet({f[c] : c \in Clients})
            BY <1>2, FiniteImage, Zenon
        <3>2. {f[c] : c \in Clients} = {KeepAlive(c) : c \in Clients}
            OBVIOUS
        <3> QED
            BY <3>1, <3>2
    <2>3. IsFiniteSet(UNION {KeepAlive(c) : c \in Clients})
        BY <2>1, <2>2, FS_UNION
    <2>4. IsFiniteSet(net')
        BY <1>3, <1>7, <2>3, FS_Union, Zenon DEF Tick
    <2> QED
        BY <1>3, <1>7, <2>4 DEF Tick, Counted
<1>8. CASE Restart
    <2>. DEFINE bye(c) == ToClient("Close", c, conns[c].remote, conns[c].use, conns[c].own)
                S == {d \in Clients : conns[d].open}
                f == [c \in Clients |-> bye(c)]
    <2>1. faults' = faults /\ (net' = net \/ net' = net \cup {bye(c) : c \in S})
        BY <1>8 DEF Restart
    <2>. HIDE DEF bye
    <2>2. IsFiniteSet(S)
        BY <1>2, FS_Subset
    <2>3. {f[c] : c \in S} = {bye(c) : c \in S}
        OBVIOUS
    <2>. HIDE DEF S, f
    <2>4. IsFiniteSet({bye(c) : c \in S})
        BY <2>2, <2>3, FiniteImage, Zenon
    <2>5. IsFiniteSet(net')
        BY <1>3, <2>1, <2>4, FS_Union, Zenon
    <2> QED
        BY <1>3, <2>1, <2>5 DEF Counted
<1>9. CASE UNCHANGED vars
    BY <1>3, <1>9 DEF vars, Counted
<1> QED
    BY <1>4, <1>5, <1>6, <1>7, <1>8, <1>9 DEF Next, TimeOut

\* Whatever else happens, however many clients there are and however long the
\* idle timeout is in keep-alive intervals: a connection times out only if its
\* client moved or has bound another IP, the server was restarted, the other end
\* is gone, or all but one of the intervals' packets were lost or late
\* (lib.rs:43-44).
THEOREM TimeoutsHaveCause == Spec => []TimedOutForCause
<1>. DEFINE Inv == IInv /\ Counted /\ \A c \in Clients : Healthy(c)
<1>1. Init => Inv
    <2> SUFFICES ASSUME Init PROVE Counted /\ \A c \in Clients : Healthy(c)
        BY InitIInv
    <2>1. Counted
        BY FS_EmptySet, Zenon DEF Init, Counted
    <2>2. ASSUME NEW c \in Clients PROVE Good(c)
        BY DEF Init, Good, InTime, Agreed, ClientHears, ServerHears, Live, Mail, NoConn, Ended
    <2> QED
        BY <2>1, <2>2 DEF Healthy
<1>2. Inv /\ [Next]_vars => Inv'
    BY NextIInv, CountedStep, HealthyStep
<1>3. Inv => TimedOutForCause
    <2> SUFFICES ASSUME Inv, NEW c \in Clients,
                        ~(\/ moves[c] > 0 \/ addr[c].ip # LocalIp[c]
                          \/ generation > 0 \/ faults >= IdleTicks - 1)
                 PROVE  InTime(c)
        BY Zenon DEF TimedOutForCause, InTime
    <2>0. /\ moves \in [Clients -> Nat] /\ generation \in 0 .. MaxRestarts
          /\ faults \in Nat /\ IdleTicks \in Nat /\ MaxRestarts \in Nat
        BY Bounds, Zenon DEF IInv, TypeOK, Counted
    <2>1. moves[c] \in Nat /\ generation \in Nat /\ faults \in Nat /\ IdleTicks \in Nat
        BY ONLY <2>0, c \in Clients
    <2>2. Undisturbed(c)
        BY <2>1 DEF Undisturbed
    <2> QED
        BY <2>2 DEF Healthy, Good
<1> QED
    BY <1>1, <1>2, <1>3, PTL DEF Spec

=============================================================================
