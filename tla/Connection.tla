----------------------------- MODULE Connection -----------------------------
(***************************************************************************)
(* Connections between clients and one server, seen from the tokens: which *)
(* connection ID each endpoint mints and for whom (src/auth.rs, the        *)
(* endpoints of src/lib.rs), which packets the sockets' authenticators let *)
(* through, and what the transport configuration makes of the rest.  An    *)
(* address may change under a running client, the server may be restarted, *)
(* packets are lost, late or out of order.                                 *)
(*                                                                         *)
(* Quinn is external: it routes by connection ID, discards what comes from *)
(* another address than a connection's own when migration is off, answers  *)
(* a short header it cannot route with a stateless reset, and keeps the    *)
(* two timers.  Time is counted in keep-alive intervals.  A connection is  *)
(* named by its client, which makes one in its life.                       *)
(***************************************************************************)
EXTENDS Auth, FiniteSets

CONSTANTS
    Clients,
    ServerIp,     \* the server's --listen, which is the clients' --server
    LocalIp,      \* each client's --local-ip
    Addresses,    \* the addresses a client may have, as the server sees them
    IdleTicks,    \* IDLE_TIMEOUT / KEEP_ALIVE_INTERVAL (6)
    MaxAccepts,   \* bound: connections accepted for one client
    MaxFaults,    \* bound: packets lost or late
    MaxMoves,     \* bound: changes of address of a client
    MaxRestarts   \* bound: restarts of the server

\* What the n-th draw of a kind for client c yields.  A nonce is random, so no
\* two draws coincide.
Draw(kind, c, n) == <<kind, c, n>>

ASSUME ConnectionAssumption ==
    /\ IsFiniteSet(Clients)
    /\ ServerIp \in Ipv4Addr
    /\ LocalIp \in [Clients -> Ipv4Addr]
    /\ Addresses \subseteq [ip : Ipv4Addr, port : Nat]
    /\ IdleTicks \in Nat \ {0}
    /\ MaxAccepts \in Nat /\ MaxRestarts \in Nat
    /\ \A c \in Clients, n \in 0 .. MaxAccepts, k \in {"initial", "scid", "server"} :
          Draw(k, c, n) \in Nonce

-----------------------------------------------------------------------------
(* Endpoints.                                                              *)

Peers(c) == [client |-> LocalIp[c], server |-> ServerIp]

ClientAuthenticator(c) == [inbound |-> "ServerToClient", local_ip |-> LocalIp[c]]
ServerAuthenticator == [inbound |-> "ClientToServer", local_ip |-> ServerIp]

\* client_endpoint: the generator's connection IDs and the first destination.
ClientGenerator(c) == [direction |-> "ServerToClient", local_ip |-> LocalIp[c]]
ClientCid(c) == generate_cid_for(ClientGenerator(c), ServerIp, Draw("scid", c, 0))
InitialCid(c) == initial_dst_cid_provider(Peers(c), Draw("initial", c, 0))

\* server_endpoint: what the n-th connection accepted for client c, at
\* `remote', is given.
ServerGenerator == [direction |-> "ClientToServer", local_ip |-> ServerIp]

\* Mutant: the generator is asked without saying for whom.
BugUnpatched(c, n, remote) == generate_cid(ServerGenerator, Draw("server", c, n))

ServerCid(c, n, remote) == generate_cid_for(ServerGenerator, remote.ip, Draw("server", c, n))

\* The bytes of a stateless reset where a connection ID would be are random.  The
\* first may be the selector the client asks for, so that it is for the tag to
\* tell that they are no token: the other values are refused before it.
RandomCid ==
    [len      |-> TOKEN_LEN,
     selector |-> selector("ServerToClient"),
     nonce    |-> <<"random">>,
     tag      |-> <<"random">>]

\* Random bytes are not the right tag by chance (one time in 2^80).
ASSUME RandomAssumption ==
    \A c \in Clients :
        RandomCid.tag # tag(key("ServerToClient"), RandomCid.nonce, ServerIp, LocalIp[c])

-----------------------------------------------------------------------------

VARIABLES
    addr,        \* each client's address, as the server sees it
    client,      \* each client: its state, the certificate it trusts and the
                 \* connection ID it sends with
    conns,       \* the server's connection of each client: none, or its
                 \* remote address, its own connection ID and the client's
    net,         \* the packets on their way
    idle,        \* intervals since each end heard from the other
    generation,  \* restarts of the server, each with a new certificate
    accepts,     \* connections accepted for each client
    expired,     \* clients whose connection timed out at the server
    moves,       \* changes of address of each client
    faults       \* packets lost or late

vars == <<addr, client, conns, net, idle, generation, accepts, expired, moves, faults>>

NoConn == [open |-> FALSE]
Ended == {"closed", "timedout", "failed"}

Init ==
    /\ addr \in [Clients -> Addresses]
    /\ \A c, d \in Clients : addr[c] = addr[d] => c = d
    /\ client = [c \in Clients |-> [state |-> "idle", trusts |-> 0, use |-> InitialCid(c)]]
    /\ conns = [c \in Clients |-> NoConn]
    /\ net = {}
    /\ idle = [c \in Clients |-> [client |-> 0, server |-> 0]]
    /\ generation = 0
    /\ accepts = [c \in Clients |-> 0]
    /\ expired = {}
    /\ moves = [c \in Clients |-> 0]
    /\ faults = 0

-----------------------------------------------------------------------------
(* Packets.  `scid' is the sender's own connection ID; the keys by which a *)
(* connection's packets are sealed are named by the server's.              *)

ToServer(kind, c) ==
    [to |-> "server", kind |-> kind, conn |-> c, src |-> addr[c],
     dcid |-> client[c].use, scid |-> ClientCid(c)]

ToClient(kind, c, dst, dcid, scid) ==
    [to |-> "client", kind |-> kind, conn |-> c, dst |-> dst, dcid |-> dcid, scid |-> scid,
     certificate |-> generation]

Datagram(p) ==
    [len |-> 1200, long |-> p.kind \in {"Initial", "Reply"}, dcid_len |-> p.dcid.len,
     token |-> [selector |-> p.dcid.selector, nonce |-> p.dcid.nonce, tag |-> p.dcid.tag]]

\* What the socket that p is for makes of it.
Verdict(p) ==
    IF p.to = "server"
    THEN check(ServerAuthenticator, Datagram(p), p.src.ip)
    ELSE check(ClientAuthenticator(p.conn), Datagram(p), ServerIp)

-----------------------------------------------------------------------------
(* The client.                                                             *)

Connect(c) ==
    /\ client[c].state = "idle"
    /\ client' = [client EXCEPT ![c].state = "connecting", ![c].trusts = generation]
    /\ net' = net \cup {ToServer("Initial", c)}
    /\ UNCHANGED <<addr, conns, idle, generation, accepts, expired, moves, faults>>

\* After its last ping the client closes the connection.
Close(c) ==
    /\ client[c].state = "open"
    /\ client' = [client EXCEPT ![c].state = "closed"]
    /\ net' = net \cup {ToServer("Close", c)}
    /\ UNCHANGED <<addr, conns, idle, generation, accepts, expired, moves, faults>>

ClientTimesOut(c) ==
    /\ client[c].state \in {"connecting", "open"}
    /\ idle[c].client = IdleTicks
    /\ client' = [client EXCEPT ![c].state = "timedout"]
    /\ UNCHANGED <<addr, conns, net, idle, generation, accepts, expired, moves, faults>>

\* A packet for client c reaches its socket, and passes it.
Reaches(c, p) == p \in net /\ p.to = "client" /\ p.conn = c /\ addr[c] = p.dst

Passes(c, p) == Reaches(c, p) /\ Verdict(p) = "Ok"

\* The packet is sealed with the keys of the client's connection.
Sealed(c, p) == client[c].state = "open" /\ p.scid = client[c].use

\* The handshake completes.
Opens(c, p) ==
    /\ Passes(c, p) /\ p.kind = "Reply"
    /\ client[c].state = "connecting" /\ p.certificate = client[c].trusts
    /\ client' = [client EXCEPT ![c].state = "open", ![c].use = p.scid]
    /\ idle' = [idle EXCEPT ![c].client = 0]
    /\ net' = net \ {p}

\* The server has another certificate than the one the client trusts.
Fails(c, p) ==
    /\ Passes(c, p) /\ p.kind = "Reply"
    /\ client[c].state = "connecting" /\ p.certificate # client[c].trusts
    /\ client' = [client EXCEPT ![c].state = "failed"]
    /\ net' = (net \ {p}) \cup {[ToServer("Close", c) EXCEPT !.dcid = p.scid]}
    /\ UNCHANGED idle

\* The server closes the connection.
Ends(c, p) ==
    /\ Passes(c, p) /\ p.kind = "Close" /\ Sealed(c, p)
    /\ client' = [client EXCEPT ![c].state = "closed"]
    /\ net' = net \ {p}
    /\ UNCHANGED idle

Hears(c, p) ==
    /\ Passes(c, p) /\ p.kind = "Data" /\ Sealed(c, p)
    /\ idle' = [idle EXCEPT ![c].client = 0]
    /\ net' = net \ {p}
    /\ UNCHANGED client

\* The socket refuses the packet, or Quinn has no use for it.
Drops(c, p) ==
    /\ Reaches(c, p)
    /\ \/ Verdict(p) # "Ok"
       \/ p.kind = "Reply" /\ client[c].state # "connecting"
       \/ p.kind \in {"Data", "Close"} /\ ~Sealed(c, p)
    /\ net' = net \ {p}
    /\ UNCHANGED <<client, idle>>

ClientReceives(c, p) ==
    /\ Opens(c, p) \/ Fails(c, p) \/ Ends(c, p) \/ Hears(c, p) \/ Drops(c, p)
    /\ UNCHANGED <<addr, conns, generation, accepts, expired, moves, faults>>

-----------------------------------------------------------------------------
(* The server.                                                             *)

\* The socket refuses the packet, and Quinn never sees it.
Refused(p) ==
    /\ p \in net /\ p.to = "server"
    /\ Verdict(p) # "Ok"
    /\ net' = net \ {p}
    /\ UNCHANGED <<addr, client, conns, idle, generation, accepts, expired, moves, faults>>

\* Mutant: the socket is bound without an authenticator.
BugNoAuthenticator(p) == p \in net /\ p.to = "server"

Arrives(p) == p \in net /\ p.to = "server" /\ Verdict(p) = "Ok"

\* Mutant: the two connection IDs are swapped.
BugSwapped(p, scid) ==
    [open |-> TRUE, remote |-> p.src, initial |-> p.dcid, own |-> p.scid, use |-> scid]

NewConn(p, scid) ==
    [open |-> TRUE, remote |-> p.src, initial |-> p.dcid, own |-> scid, use |-> p.scid]

\* An Initial that belongs to no connection makes one, for the address it came
\* from.
Accept(p) ==
    LET c == p.conn
        scid == ServerCid(c, accepts[c], p.src)
    IN  /\ Arrives(p) /\ p.kind = "Initial"
        /\ ~conns[c].open /\ accepts[c] < MaxAccepts
        /\ conns' = [conns EXCEPT ![c] = NewConn(p, scid)]
        /\ accepts' = [accepts EXCEPT ![c] = @ + 1]
        /\ idle' = [idle EXCEPT ![c].server = 0]
        /\ net' = (net \ {p}) \cup {ToClient("Reply", c, p.src, p.scid, scid)}
        /\ UNCHANGED <<addr, client, generation, expired, moves, faults>>

\* The connection of p's destination connection ID.
Routed(p) ==
    /\ conns[p.conn].open
    /\ p.dcid \in {conns[p.conn].own, conns[p.conn].initial}

\* A packet of a connection, from its address.
ForConnection(p) ==
    LET c == p.conn IN
    /\ Arrives(p) /\ Routed(p) /\ p.src = conns[c].remote
    /\ conns' = IF p.kind = "Close" THEN [conns EXCEPT ![c] = NoConn] ELSE conns
    /\ idle' = [idle EXCEPT ![c].server = 0]
    /\ net' = (net \ {p}) \cup
              (IF p.kind = "Initial"
               THEN {ToClient("Reply", c, p.src, conns[c].use, conns[c].own)} ELSE {})
    /\ UNCHANGED <<addr, client, generation, accepts, expired, moves, faults>>

\* A packet of a connection, from another address: migration is off.
Discard(p) ==
    /\ Arrives(p) /\ Routed(p) /\ p.src # conns[p.conn].remote
    /\ net' = net \ {p}
    /\ UNCHANGED <<addr, client, conns, idle, generation, accepts, expired, moves, faults>>

\* A short header that no connection has issued: a stateless reset.
Reset(p) ==
    /\ Arrives(p) /\ p.kind # "Initial" /\ ~Routed(p)
    /\ net' = (net \ {p}) \cup {ToClient("Reset", p.conn, p.src, RandomCid, RandomCid)}
    /\ UNCHANGED <<addr, client, conns, idle, generation, accepts, expired, moves, faults>>

ServerReceives(p) ==
    Refused(p) \/ Accept(p) \/ ForConnection(p) \/ Discard(p) \/ Reset(p)

\* Mutant: max_idle_timeout is not set.
BugNoIdleTimeout(c) == FALSE /\ UNCHANGED vars

ServerTimesOut(c) ==
    /\ conns[c].open
    /\ idle[c].server = IdleTicks
    /\ conns' = [conns EXCEPT ![c] = NoConn]
    /\ expired' = expired \cup {c}
    /\ UNCHANGED <<addr, client, net, idle, generation, accepts, moves, faults>>

\* The server ends, by Ctrl-C with a farewell to its clients or without, and is
\* started again: with no connections and a new certificate.
Restart ==
    /\ generation < MaxRestarts
    /\ generation' = generation + 1
    /\ \/ UNCHANGED net
       \/ net' = net \cup {ToClient("Close", c, conns[c].remote, conns[c].use, conns[c].own) :
                             c \in {d \in Clients : conns[d].open}}
    /\ conns' = [c \in Clients |-> NoConn]
    /\ UNCHANGED <<addr, client, idle, accepts, expired, moves, faults>>

-----------------------------------------------------------------------------
(* The network and time.                                                   *)

\* A client moves, to another interface or behind another NAT mapping, while
\* its address matters.
Rebind(c) ==
    /\ client[c].state \in {"connecting", "open"}
    /\ moves[c] < MaxMoves
    /\ \E a \in Addresses : /\ \A d \in Clients : addr[d] # a
                            /\ addr' = [addr EXCEPT ![c] = a]
    /\ moves' = [moves EXCEPT ![c] = @ + 1]
    /\ UNCHANGED <<client, conns, net, idle, generation, accepts, expired, faults>>

Lose(p) ==
    /\ faults < MaxFaults
    /\ faults' = faults + 1
    /\ net' = net \ {p}
    /\ UNCHANGED <<addr, client, conns, idle, generation, accepts, expired, moves>>

\* Nobody that would know the packet is where it goes.
Astray(p) ==
    /\ p \in net /\ p.to = "client" /\ addr[p.conn] # p.dst
    /\ net' = net \ {p}
    /\ UNCHANGED <<addr, client, conns, idle, generation, accepts, expired, moves, faults>>

\* Mutant: keep_alive_interval is not set.
BugNoKeepAlive(c) ==
    IF client[c].state = "connecting" THEN {ToServer("Initial", c)} ELSE {}

\* What the two ends of a connection send in an interval: the Initial, again,
\* while it is not answered, and keep-alives.
KeepAlive(c) ==
    (CASE client[c].state = "connecting" -> {ToServer("Initial", c)}
       [] client[c].state = "open"       -> {ToServer("Data", c)}
       [] OTHER                          -> {})
    \cup (IF conns[c].open
          THEN {ToClient("Data", c, conns[c].remote, conns[c].use, conns[c].own)} ELSE {})

Older(n) == IF n < IdleTicks THEN n + 1 ELSE n

\* An interval passes, and the next one's packets are sent.  What has not
\* arrived by then is late.
Tick ==
    /\ faults + Cardinality(net) <= MaxFaults
    /\ faults' = faults + Cardinality(net)
    /\ net' = net \cup UNION {KeepAlive(c) : c \in Clients}
    /\ idle' = [c \in Clients |->
                  [client |-> IF client[c].state = "idle" THEN 0 ELSE Older(idle[c].client),
                   server |-> IF conns[c].open THEN Older(idle[c].server) ELSE 0]]
    /\ UNCHANGED <<addr, client, conns, generation, accepts, expired, moves>>

-----------------------------------------------------------------------------

Deliver ==
    \E p \in net : ServerReceives(p) \/ Astray(p) \/ \E c \in Clients : ClientReceives(c, p)

TimeOut == \E c \in Clients : ClientTimesOut(c) \/ ServerTimesOut(c)

Next ==
    \/ Deliver \/ TimeOut \/ Tick
    \/ \E c \in Clients : Connect(c) \/ Close(c) \/ Rebind(c)
    \/ \E p \in net : Lose(p)
    \/ Restart

Spec == Init /\ [][Next]_vars

\* Time passes, timers fire, and what is not lost is delivered.
FairSpec == Spec /\ WF_vars(Tick) /\ WF_vars(TimeOut) /\ WF_vars(Deliver)

-----------------------------------------------------------------------------

ServerCids(c) == {ServerCid(c, n, a) : n \in 0 .. MaxAccepts, a \in Addresses}

\* Type invariant: no timer runs past the timeout, and every connection has
\* an address and the connection IDs minted for it.
TypeOK ==
    /\ addr \in [Clients -> Addresses]
    /\ DOMAIN client = Clients /\ DOMAIN conns = Clients
    /\ \A c \in Clients :
          /\ client[c] \in [state : {"idle", "connecting", "open"} \cup Ended,
                           trusts : 0 .. MaxRestarts, use : {InitialCid(c)} \cup ServerCids(c)]
          /\ conns[c] \in {NoConn} \cup
                [open : {TRUE}, remote : Addresses, initial : {InitialCid(c)},
                 own : ServerCids(c), use : {ClientCid(c)}]
    /\ idle \in [Clients -> [client : 0 .. IdleTicks, server : 0 .. IdleTicks]]
    /\ generation \in 0 .. MaxRestarts
    /\ accepts \in [Clients -> 0 .. MaxAccepts] /\ moves \in [Clients -> Nat]
    /\ expired \subseteq Clients

\* The sockets refuse exactly what was not sent on the path that its token
\* binds: the server's everything, and only that, which a client sends from
\* another IP than its --local-ip, a client's nothing but stateless resets.
\* "the server must not have rejected any of its peer's authenticated packets"
\* (tests/echo.rs:179), and the same for a connection that moved or restarted.
RefusedForCause ==
    \A p \in net :
        Verdict(p) = "Ok" <=>
            IF p.to = "server" THEN p.src.ip = LocalIp[p.conn] ELSE p.kind # "Reset"

\* The server has connections only at the IP their client has bound: "a client
\* whose tokens are minted for a different address pair cannot complete a
\* handshake at all" (tests/echo.rs:309), nor can one that moved before it.
OpenWhereBound ==
    \A c \in Clients :
        /\ conns[c].open => conns[c].remote.ip = LocalIp[c]
        /\ client[c].state = "open" => moves[c] > 0 \/ addr[c].ip = LocalIp[c]

\* A connection times out for a reason: the client moved or has bound another
\* IP, the server was restarted, the other end is gone, or nearly as many
\* packets were lost or late as there are keep-alive intervals in the idle
\* timeout (lib.rs:43-44).
TimedOutForCause ==
    \A c \in Clients :
        LET trouble == \/ moves[c] > 0 \/ addr[c].ip # LocalIp[c]
                       \/ generation > 0 \/ faults >= IdleTicks - 1
        IN  /\ client[c].state = "timedout" => trouble
            /\ c \in expired => trouble \/ client[c].state \in Ended

\* One end has a connection that the other does not have, or both have it but
\* the client is elsewhere.
HalfOpen(c) ==
    \/ client[c].state = "open" /\ (~conns[c].open \/ conns[c].own # client[c].use)
    \/ conns[c].open /\ client[c].state \in Ended
    \/ conns[c].open /\ addr[c] # conns[c].remote

\* No connection stays half open: a client that moves "stalls until the idle
\* timeout" (lib.rs:114-115), no longer, and so do one whose server was
\* restarted, although the reset that would tell it is refused by its socket,
\* and a connection of a client that is gone.
HalfOpenEnds == \A c \in Clients : []<>~HalfOpen(c)

=============================================================================
