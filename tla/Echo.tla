-------------------------------- MODULE Echo --------------------------------
(***************************************************************************)
(* The ping protocol (src/lib.rs) from end to end: the main of the client  *)
(* (src/bin/client.rs) with ping, and the main of the server               *)
(* (src/bin/server.rs) with run_echo_server, serve_connection and          *)
(* echo_stream.  Next to the clients that run this program there are       *)
(* others, which use their streams in any way QUIC allows.                 *)
(*                                                                         *)
(* Quinn is external.  Each peer has one connection to the server, seen    *)
(* from two sides, `near' at the peer and `far' at the server, which learn *)
(* of its end at different times.  A stream is reliable, and what matters  *)
(* of its bytes is how many there are: echo_stream writes back those it    *)
(* read.  A side uses a stream while its connection is open; bytes that    *)
(* came just before the end and are read just after it are read just       *)
(* before it in the model, which nobody can tell apart.                    *)
(***************************************************************************)
EXTENDS Integers, FiniteSets

CONSTANTS
    Clients,         \* peers that run client.rs
    Others,          \* peers that do as they like
    Sizes,           \* values of --size
    Count,           \* --count, 0 for no limit
    MAX_PING_BYTES,  \* the limit on a payload
    MaxStreams,      \* bound: streams of a peer
    OtherStreams     \* bound: streams of one of the Others

Peers == Clients \cup Others
Streams == 1 .. MaxStreams

ASSUME EchoAssumption ==
    /\ IsFiniteSet(Peers) /\ Clients \cap Others = {}
    /\ Sizes \subseteq Nat
    /\ Count \in Nat /\ MAX_PING_BYTES \in Nat /\ MaxStreams \in Nat
    /\ OtherStreams \in 0 .. MaxStreams

VARIABLES
    near, far,        \* the connection of each peer: "none", "connecting" or
                      \* "incoming", then "handshake" (far only), "open", "gone"
    up, down,         \* the two halves of each stream: bytes written, how it
                      \* was ended, and whether its reader has stopped it
    opened,           \* streams each peer has opened
    granted, window,  \* flow control: bytes of its echo each of the Others lets
                      \* a stream carry, and how many more its connection
    pc, size,         \* the clients: where main is, --size
    seq, rtts, lost,  \* its counts (rtts is the number of round-trip times)
    main,             \* the server: where main is
    conns, accepted,  \* where serve_connection is, streams it has accepted
    tasks, payload,   \* where echo_stream is, and how many bytes it has read
    printed           \* lines written to stderr about streams

client == <<pc, size, seq, rtts, lost>>
server == <<main, conns, accepted, tasks, payload, printed>>
credit == <<granted, window>>
wire == <<near, far, up, down, opened, credit>>
vars == <<client, server, wire>>

NewHalf == [n |-> 0, end |-> "no", stopped |-> FALSE]

Init ==
    /\ near = [p \in Peers |-> "none"] /\ far = [p \in Peers |-> "none"]
    /\ up = [p \in Peers |-> [s \in Streams |-> NewHalf]] /\ down = up
    /\ opened = [p \in Peers |-> 0]
    /\ granted = [p \in Others |-> [s \in Streams |-> 0]] /\ window = [p \in Others |-> 0]
    /\ pc = [c \in Clients |-> "start"]
    /\ size \in [Clients -> Sizes]
    /\ seq = [c \in Clients |-> 0] /\ rtts = seq /\ lost = seq
    /\ main = "start"
    /\ conns = [p \in Peers |-> "none"]
    /\ accepted = [p \in Peers |-> 0]
    /\ tasks = [p \in Peers |-> [s \in Streams |-> "none"]]
    /\ payload = [p \in Peers |-> [s \in Streams |-> 0]]
    /\ printed = 0

-----------------------------------------------------------------------------
(* Quinn and the network.                                                  *)

\* The server's endpoint has the peer's first packet.
Incoming(p) ==
    /\ near[p] = "connecting" /\ far[p] = "none"
    /\ main = "serving"
    /\ far' = [far EXCEPT ![p] = "incoming"]
    /\ UNCHANGED <<client, server, near, up, down, opened, credit>>

\* A handshake the server has begun completes, at the peer first.
NearOpens(p) ==
    /\ near[p] = "connecting" /\ far[p] = "handshake"
    /\ near' = [near EXCEPT ![p] = "open"]
    /\ UNCHANGED <<client, server, far, up, down, opened, credit>>

FarOpens(p) ==
    /\ near[p] = "open" /\ far[p] = "handshake"
    /\ far' = [far EXCEPT ![p] = "open"]
    /\ UNCHANGED <<client, server, near, up, down, opened, credit>>

Alive(side) == side \notin {"none", "gone"}

\* A connection that waits to be accepted has no timer yet.
Timed(side) == Alive(side) /\ side # "incoming"

\* One side learns that the other is gone: it is told, or times out.
NearEnds(p) ==
    /\ Timed(near[p])
    /\ \/ far[p] = "gone"
       \/ far[p] = "none" /\ main \notin {"start", "serving"}
    /\ near' = [near EXCEPT ![p] = "gone"]
    /\ UNCHANGED <<client, server, far, up, down, opened, credit>>

FarEnds(p) ==
    /\ Timed(far[p]) /\ near[p] = "gone"
    /\ far' = [far EXCEPT ![p] = "gone"]
    /\ UNCHANGED <<client, server, near, up, down, opened, credit>>

\* The network fails for longer than IDLE_TIMEOUT, and a side gives up.
Disconnect(p) ==
    /\ \/ Timed(near[p]) /\ near' = [near EXCEPT ![p] = "gone"] /\ UNCHANGED far
       \/ Timed(far[p]) /\ far' = [far EXCEPT ![p] = "gone"] /\ UNCHANGED near
    /\ UNCHANGED <<client, server, up, down, opened, credit>>

-----------------------------------------------------------------------------
(* client.rs: main, and ping.                                              *)

Goto(c, label) == pc' = [pc EXCEPT ![c] = label]

\* The arguments are good and the endpoint is built: connect.
Start(c) ==
    /\ pc[c] = "start"
    /\ size[c] <= MAX_PING_BYTES
    /\ near' = [near EXCEPT ![c] = "connecting"]
    /\ Goto(c, "connect")
    /\ UNCHANGED <<size, seq, rtts, lost, server, far, up, down, opened, credit>>

\* An argument is refused, or the certificate, the socket or the endpoint fails.
StartFails(c) ==
    /\ pc[c] = "start"
    /\ Goto(c, "exited")
    /\ UNCHANGED <<size, seq, rtts, lost, server, wire>>

Connected(c) ==
    /\ pc[c] = "connect"
    /\ near[c] = "open"
    /\ Goto(c, "loop")
    /\ UNCHANGED <<size, seq, rtts, lost, server, wire>>

ConnectFails(c) ==
    /\ pc[c] = "connect"
    /\ near[c] = "gone"
    /\ Goto(c, "exited")
    /\ UNCHANGED <<size, seq, rtts, lost, server, wire>>

NextPing(c) ==
    /\ pc[c] = "loop"
    /\ Count = 0 \/ seq[c] < Count
    /\ Goto(c, "open")
    /\ UNCHANGED <<size, seq, rtts, lost, server, wire>>

OpenBi(c) ==
    /\ pc[c] = "open"
    /\ near[c] = "open" /\ opened[c] < MaxStreams
    /\ opened' = [opened EXCEPT ![c] = @ + 1]
    /\ Goto(c, "write")
    /\ UNCHANGED <<size, seq, rtts, lost, server, near, far, up, down, credit>>

\* A byte of write_all, or its end.
WriteAll(c) ==
    /\ pc[c] = "write"
    /\ near[c] = "open" /\ ~up[c][opened[c]].stopped
    /\ \/ /\ up[c][opened[c]].n < size[c]
          /\ up' = [up EXCEPT ![c][opened[c]].n = @ + 1]
          /\ UNCHANGED pc
       \/ /\ up[c][opened[c]].n = size[c]
          /\ Goto(c, "finish")
          /\ UNCHANGED up
    /\ UNCHANGED <<size, seq, rtts, lost, server, near, far, down, opened, credit>>

\* Mutant: ping leaves its stream unfinished.
BugNoFinish(c) ==
    /\ pc[c] = "finish"
    /\ Goto(c, "read")
    /\ UNCHANGED <<size, seq, rtts, lost, server, wire>>

\* finish does not fail, but on a connection that is gone it reaches nobody.
Finish(c) ==
    /\ pc[c] = "finish"
    /\ up' = IF near[c] = "open" THEN [up EXCEPT ![c][opened[c]].end = "fin"] ELSE up
    /\ Goto(c, "read")
    /\ UNCHANGED <<size, seq, rtts, lost, server, near, far, down, opened, credit>>

Echoed(c) == down[c][opened[c]]

\* ping is Ok: the echo is complete and is the payload.
PingOk(c) ==
    /\ pc[c] = "read"
    /\ near[c] = "open"
    /\ Echoed(c).end = "fin" /\ Echoed(c).n = size[c]
    /\ rtts' = [rtts EXCEPT ![c] = @ + 1]
    /\ seq' = [seq EXCEPT ![c] = @ + 1]
    /\ Goto(c, "loop")
    /\ UNCHANGED <<size, lost, server, wire>>

\* read_to_end fails, or the echo is not the payload.
EchoBad(c) ==
    \/ Echoed(c).n > MAX_PING_BYTES
    \/ Echoed(c).end = "reset"
    \/ Echoed(c).end = "fin" /\ Echoed(c).n # size[c]

\* Mutant: a ping that fails is not counted as lost.
BugLossUncounted(c) ==
    /\ \/ pc[c] \in {"open", "write", "read"} /\ near[c] = "gone"
       \/ pc[c] = "write" /\ up[c][opened[c]].stopped
       \/ pc[c] = "read" /\ EchoBad(c)
    /\ seq' = [seq EXCEPT ![c] = @ + 1]
    /\ Goto(c, "loop")
    /\ UNCHANGED <<size, rtts, lost, server, wire>>

\* ping is an error: the connection is gone, the server has stopped the stream,
\* or the echo is bad.  ping drops the stream, which stops its reading half and
\* resets its writing half if it has been stopped before it was finished.
PingFails(c) ==
    /\ \/ pc[c] \in {"open", "write", "read"} /\ near[c] = "gone"
       \/ pc[c] = "write" /\ up[c][opened[c]].stopped
       \/ pc[c] = "read" /\ EchoBad(c)
    /\ lost' = [lost EXCEPT ![c] = @ + 1]
    /\ seq' = [seq EXCEPT ![c] = @ + 1]
    /\ Goto(c, "loop")
    /\ IF near[c] = "open"
       THEN /\ down' = [down EXCEPT ![c][opened[c]].stopped = TRUE]
            /\ up' = [up EXCEPT ![c][opened[c]].end = IF @ = "no" THEN "reset" ELSE @]
       ELSE UNCHANGED <<up, down>>
    /\ UNCHANGED <<size, rtts, server, near, far, opened, credit>>

\* The loop is over: the connection is closed.
CloseConnection(c) ==
    /\ pc[c] = "loop"
    /\ Count # 0 /\ seq[c] >= Count
    /\ near' = [near EXCEPT ![c] = "gone"]
    /\ Goto(c, "wait_idle")
    /\ UNCHANGED <<size, seq, rtts, lost, server, far, up, down, opened, credit>>

\* wait_idle returns when the connection has drained; main prints its summary.
Summary(c) ==
    /\ pc[c] = "wait_idle"
    /\ Goto(c, "done")
    /\ UNCHANGED <<size, seq, rtts, lost, server, wire>>

\* The process is killed, and the server is not told.
Kill(c) ==
    /\ pc[c] \notin {"start", "exited", "done", "killed"}
    /\ near' = [near EXCEPT ![c] = "gone"]
    /\ Goto(c, "killed")
    /\ UNCHANGED <<size, seq, rtts, lost, server, far, up, down, opened, credit>>

-----------------------------------------------------------------------------
(* Other peers.                                                            *)

OtherConnects(p) ==
    /\ near[p] = "none"
    /\ near' = [near EXCEPT ![p] = "connecting"]
    /\ UNCHANGED <<client, server, far, up, down, opened, credit>>

OtherOpens(p) ==
    /\ near[p] = "open" /\ opened[p] < OtherStreams
    /\ opened' = [opened EXCEPT ![p] = @ + 1]
    /\ UNCHANGED <<client, server, near, far, up, down, credit>>

OtherWrites(p, s) ==
    /\ near[p] = "open" /\ s <= opened[p]
    /\ up[p][s].end = "no"
    /\ \/ /\ up[p][s].n <= MAX_PING_BYTES /\ ~up[p][s].stopped
          /\ up' = [up EXCEPT ![p][s].n = @ + 1]
       \/ \E end \in {"fin", "reset"} : up' = [up EXCEPT ![p][s].end = end]
    /\ UNCHANGED <<client, server, near, far, down, opened, credit>>

OtherStops(p, s) ==
    /\ near[p] = "open" /\ s <= opened[p]
    /\ ~down[p][s].stopped
    /\ down' = [down EXCEPT ![p][s].stopped = TRUE]
    /\ UNCHANGED <<client, server, near, far, up, opened, credit>>

\* The peer takes one more byte, of the echo of this stream or of all its echoes.
\* (More than MAX_PING_BYTES at a time is of no use to a task.)
OtherGrants(p, s) ==
    /\ near[p] = "open" /\ s <= opened[p]
    /\ \/ /\ granted[p][s] < MAX_PING_BYTES
          /\ granted' = [granted EXCEPT ![p][s] = @ + 1]
          /\ UNCHANGED window
       \/ /\ window[p] < MAX_PING_BYTES
          /\ window' = [window EXCEPT ![p] = @ + 1]
          /\ UNCHANGED granted
    /\ UNCHANGED <<client, server, near, far, up, down, opened>>

-----------------------------------------------------------------------------
(* server.rs: main.                                                        *)

ServerStarts ==
    /\ main = "start"
    /\ main' \in {"serving", "done"}  \* "done": an argument or the socket is bad
    /\ UNCHANGED <<client, conns, accepted, tasks, payload, printed, wire>>

\* select! ends: ctrl_c is Ok, or accept is None because the endpoint's driver
\* has ended, which ends run_echo_server.
SelectEnds ==
    /\ main = "serving"
    /\ main' = "close"
    /\ UNCHANGED <<client, conns, accepted, tasks, payload, printed, wire>>

FarGone == [p \in Peers |-> IF Alive(far[p]) THEN "gone" ELSE far[p]]

\* ctrl_c is an error, which `?' returns from main at once.
SelectFails ==
    /\ main = "serving"
    /\ main' = "done"
    /\ far' = FarGone
    /\ UNCHANGED <<client, conns, accepted, tasks, payload, printed>>
    /\ UNCHANGED <<near, up, down, opened, credit>>

\* Mutant: main only waits.
BugNoClose ==
    /\ main = "close"
    /\ main' = "wait_idle"
    /\ UNCHANGED <<client, conns, accepted, tasks, payload, printed, wire>>

CloseEndpoint ==
    /\ main = "close"
    /\ main' = "wait_idle"
    /\ far' = FarGone
    /\ UNCHANGED <<client, conns, accepted, tasks, payload, printed>>
    /\ UNCHANGED <<near, up, down, opened, credit>>

WaitIdle ==
    /\ main = "wait_idle"
    /\ \A p \in Peers : ~Alive(far[p])
    /\ main' = "done"
    /\ UNCHANGED <<client, conns, accepted, tasks, payload, printed, wire>>

-----------------------------------------------------------------------------
(* run_echo_server and serve_connection.                                   *)

\* Mutant: the connection is served before the next one is accepted.
BugServesInTurn(p) ==
    /\ main = "serving"
    /\ far[p] = "incoming"
    /\ \A q \in Peers : conns[q] \in {"none", "ended"}
    /\ far' = [far EXCEPT ![p] = "handshake"]
    /\ conns' = [conns EXCEPT ![p] = "incoming"]
    /\ UNCHANGED <<client, main, accepted, tasks, payload, printed, near, up, down, opened, credit>>

\* accept returns an incoming connection, and a task is spawned that awaits it.
Accept(p) ==
    /\ main = "serving"
    /\ far[p] = "incoming"
    /\ far' = [far EXCEPT ![p] = "handshake"]
    /\ conns' = [conns EXCEPT ![p] = "incoming"]
    /\ UNCHANGED <<client, main, accepted, tasks, payload, printed, near, up, down, opened, credit>>

\* The handshake ends, well or badly.
IncomingAwaited(p) ==
    /\ main # "done"
    /\ conns[p] = "incoming"
    /\ \/ far[p] = "open" /\ conns' = [conns EXCEPT ![p] = "accept_bi"]
       \/ far[p] = "gone" /\ conns' = [conns EXCEPT ![p] = "ended"]
    /\ UNCHANGED <<client, main, accepted, tasks, payload, printed, wire>>

\* Mutant: a stream is echoed before the next one is accepted.
BugStreamsInTurn(p) ==
    /\ main # "done"
    /\ conns[p] = "accept_bi"
    /\ far[p] = "open"
    /\ \E s \in accepted[p] + 1 .. opened[p] : up[p][s].n > 0 \/ up[p][s].end # "no"
    /\ \A s \in Streams : tasks[p][s] \in {"none", "ended"}
    /\ accepted' = [accepted EXCEPT ![p] = @ + 1]
    /\ tasks' = [tasks EXCEPT ![p][accepted'[p]] = "read"]
    /\ UNCHANGED <<client, main, conns, payload, printed, wire>>

\* A stream shows when something has been sent on it or on a later one.
AcceptBi(p) ==
    /\ main # "done"
    /\ conns[p] = "accept_bi"
    /\ far[p] = "open"
    /\ \E s \in accepted[p] + 1 .. opened[p] : up[p][s].n > 0 \/ up[p][s].end # "no"
    /\ accepted' = [accepted EXCEPT ![p] = @ + 1]
    /\ tasks' = [tasks EXCEPT ![p][accepted'[p]] = "read"]
    /\ UNCHANGED <<client, main, conns, payload, printed, wire>>

\* serve_connection returns, with Ok or with an error that nobody looks at.
AcceptBiFails(p) ==
    /\ main # "done"
    /\ conns[p] = "accept_bi"
    /\ far[p] = "gone"
    /\ conns' = [conns EXCEPT ![p] = "ended"]
    /\ UNCHANGED <<client, main, accepted, tasks, payload, printed, wire>>

-----------------------------------------------------------------------------
(* echo_stream.                                                            *)

Task(p, s, label) == tasks' = [tasks EXCEPT ![p][s] = label]

\* Mutant: the limit itself is too long.
BugLimitTooLong(p, s) == up[p][s].n >= MAX_PING_BYTES

\* Mutant: the limit can be exceeded by one.
BugLimitExceeded(p, s) == up[p][s].n > MAX_PING_BYTES + 1

\* read_to_end has been sent more than it takes.
TooLong(p, s) == up[p][s].n > MAX_PING_BYTES

ReadToEnd(p, s) ==
    /\ main # "done"
    /\ tasks[p][s] = "read"
    /\ far[p] = "open"
    /\ up[p][s].end = "fin" /\ ~TooLong(p, s)
    /\ payload' = [payload EXCEPT ![p][s] = up[p][s].n]
    /\ Task(p, s, "write")
    /\ UNCHANGED <<client, main, conns, accepted, printed, wire>>

\* read_to_end fails and the streams are dropped: the reading half is stopped,
\* and the writing half, on which nothing was written, finished, or reset if
\* the peer has stopped it.  The failure is printed.
ReadFails(p, s) ==
    /\ main # "done"
    /\ tasks[p][s] = "read"
    /\ \/ far[p] = "gone" /\ UNCHANGED <<up, down>>
       \/ /\ far[p] = "open"
          /\ TooLong(p, s) \/ up[p][s].end = "reset"
          /\ up' = [up EXCEPT ![p][s].stopped = TRUE]
          /\ down' = [down EXCEPT ![p][s].end = IF down[p][s].stopped THEN "reset" ELSE "fin"]
    /\ printed' = printed + 1
    /\ Task(p, s, "ended")
    /\ UNCHANGED <<client, main, conns, accepted, payload, near, far, opened, credit>>

\* The peer's flow control lets the stream carry one more byte.  A client lets it
\* carry any echo: transport_config leaves Quinn's windows, of 1.25 MB for a
\* stream, more than MAX_PING_BYTES, and without limit for the connection.
HasCredit(p, s) == p \in Others => down[p][s].n < granted[p][s] /\ window[p] > 0

\* A byte of write_all, which waits for credit and uses it up, or its end.
EchoWrites(p, s) ==
    /\ main # "done"
    /\ tasks[p][s] = "write"
    /\ far[p] = "open" /\ ~down[p][s].stopped
    /\ \/ /\ down[p][s].n < payload[p][s] /\ HasCredit(p, s)
          /\ down' = [down EXCEPT ![p][s].n = @ + 1]
          /\ window' = [q \in Others |-> IF q = p THEN window[q] - 1 ELSE window[q]]
          /\ UNCHANGED tasks
       \/ /\ down[p][s].n = payload[p][s]
          /\ Task(p, s, "finish")
          /\ UNCHANGED <<down, window>>
    /\ UNCHANGED <<client, main, conns, accepted, payload, printed, near, far, up, opened, granted>>

\* write_all fails: the connection is gone or the peer has stopped the stream.
WriteFails(p, s) ==
    /\ main # "done"
    /\ tasks[p][s] = "write"
    /\ \/ far[p] = "gone" /\ UNCHANGED down
       \/ /\ far[p] = "open" /\ down[p][s].stopped
          /\ down' = [down EXCEPT ![p][s].end = "reset"]
    /\ printed' = printed + 1
    /\ Task(p, s, "ended")
    /\ UNCHANGED <<client, main, conns, accepted, payload, near, far, up, opened, credit>>

EchoFinishes(p, s) ==
    /\ main # "done"
    /\ tasks[p][s] = "finish"
    /\ down' = IF far[p] = "open" THEN [down EXCEPT ![p][s].end = "fin"] ELSE down
    /\ Task(p, s, "ended")
    /\ UNCHANGED <<client, main, conns, accepted, payload, printed, near, far, up, opened, credit>>

-----------------------------------------------------------------------------

Client(c) ==
    \/ Start(c) \/ StartFails(c) \/ Connected(c) \/ ConnectFails(c)
    \/ NextPing(c) \/ OpenBi(c) \/ WriteAll(c) \/ Finish(c)
    \/ PingOk(c) \/ PingFails(c) \/ CloseConnection(c) \/ Summary(c)

Other(p) ==
    \/ OtherConnects(p) \/ OtherOpens(p)
    \/ \E s \in Streams : OtherWrites(p, s) \/ OtherStops(p, s) \/ OtherGrants(p, s)

Connection(p) == Incoming(p) \/ NearOpens(p) \/ FarOpens(p) \/ NearEnds(p) \/ FarEnds(p)

ConnTask(p) == IncomingAwaited(p) \/ AcceptBi(p) \/ AcceptBiFails(p)

EchoStream(p, s) ==
    \/ ReadToEnd(p, s) \/ ReadFails(p, s)
    \/ EchoWrites(p, s) \/ WriteFails(p, s) \/ EchoFinishes(p, s)

ServerMain == ServerStarts \/ CloseEndpoint \/ WaitIdle \/ \E p \in Peers : Accept(p)

Next ==
    \/ ServerMain \/ SelectEnds \/ SelectFails
    \/ \E c \in Clients : Client(c) \/ Kill(c)
    \/ \E p \in Others : Other(p)
    \/ \E p \in Peers : Connection(p) \/ Disconnect(p) \/ ConnTask(p)
    \/ \E p \in Peers, s \in Streams : EchoStream(p, s)

Spec == Init /\ [][Next]_vars

\* Tasks that can run are run, a handshake goes on, and the end of a connection
\* comes to the other side.  Accepting is fair to each peer, since accept takes
\* the incoming connections in their order.  Nothing is assumed of the other
\* peers, of the signal, or of failures.
FairSpec ==
    /\ Spec
    /\ WF_vars(ServerMain)
    /\ \A c \in Clients : WF_vars(Client(c))
    /\ \A p \in Peers :
          /\ WF_vars(Connection(p)) /\ WF_vars(ConnTask(p)) /\ WF_vars(Accept(p))
          /\ \A s \in Streams : WF_vars(EchoStream(p, s))

-----------------------------------------------------------------------------

Half(limit) == [n : 0 .. limit, end : {"no", "fin", "reset"}, stopped : BOOLEAN]

\* Type invariant: echo_stream never holds more than MAX_PING_BYTES of a stream,
\* nor writes more than that back, however much a peer sends (lib.rs:39-40).
\* (A peer may send any amount: one byte too many is the model's bound.)
TypeOK ==
    /\ near \in [Peers -> {"none", "connecting", "open", "gone"}]
    /\ far \in [Peers -> {"none", "incoming", "handshake", "open", "gone"}]
    /\ up \in [Peers -> [Streams -> Half(MAX_PING_BYTES + 1)]]
    /\ down \in [Peers -> [Streams -> Half(MAX_PING_BYTES)]]
    /\ opened \in [Peers -> 0 .. MaxStreams]
    /\ granted \in [Others -> [Streams -> Nat]] /\ window \in [Others -> Nat]
    /\ pc \in [Clients -> {"start", "connect", "loop", "open", "write", "finish", "read",
                           "wait_idle", "done", "exited", "killed"}]
    /\ size \in [Clients -> Sizes]
    /\ seq \in [Clients -> Nat] /\ rtts \in [Clients -> Nat] /\ lost \in [Clients -> Nat]
    /\ main \in {"start", "serving", "close", "wait_idle", "done"}
    /\ conns \in [Peers -> {"none", "incoming", "accept_bi", "ended"}]
    /\ accepted \in [Peers -> 0 .. MaxStreams]
    /\ tasks \in [Peers -> [Streams -> {"none", "read", "write", "finish", "ended"}]]
    /\ payload \in [Peers -> [Streams -> 0 .. MAX_PING_BYTES]]
    /\ printed \in Nat

\* A client counts a ping as lost only when its connection is gone: as long as
\* it lasts, every ping that main sends is echoed in full, a payload of no bytes
\* and one of MAX_PING_BYTES included.
LostOnlyWithConnection == \A c \in Clients : lost[c] > 0 => near[c] = "gone"

\* The summary adds up: every ping main has sent was echoed or lost, and as many
\* as were echoed have been written back in full by tasks of the server.
PingsAddUp ==
    \A c \in Clients :
        /\ seq[c] = rtts[c] + lost[c]
        /\ rtts[c] <= Cardinality({s \in Streams :
              tasks[c][s] = "ended" /\ down[c][s].n = size[c] /\ down[c][s].end = "fin"})

\* A client with a number of pings to send ends, although the server may be
\* shut down, the network may fail and other peers hold on to their connections
\* and streams: no ping waits for ever.
EveryClientEnds ==
    \A c \in Clients : <>(pc[c] \in {"done", "exited", "killed"})

\* A server that is told to stop does, whatever its peers do.
ShutdownEnds == main = "close" ~> main = "done"

\* "Accepts connections until `endpoint' is closed" (lib.rs:218): no connection
\* waits for ever to be accepted, although another peer may hold on to its own.
IncomingAreAccepted ==
    \A p \in Peers : far[p] = "incoming" ~> far[p] # "incoming"

\* echo_stream waits in write_all for credit that its peer has not given.
Starved(p, s) ==
    tasks[p][s] = "write" /\ down[p][s].n < payload[p][s] /\ ~HasCredit(p, s)

\* A stream that its peer has ended is dealt with by a task of its own, unless
\* the connection or the server ends, even if an earlier stream of the same peer
\* is never ended, fails, or is not read.  The one thing that can keep the task
\* is the peer itself, if from some time on it never gives credit for the echo:
\* for the stream, or for a connection whose credit echoes it does not read have
\* used up.  No stream waits for any other reason.
StreamsAreAnswered ==
    \A p \in Peers, s \in Streams :
        []<>~Starved(p, s) =>
            (up[p][s].end # "no" ~> \/ tasks[p][s] = "ended"
                                    \/ far[p] = "gone" \/ main = "done")

\* "Failures are dropped rather than reported" and "callers wanting visibility
\* should count outcomes, not print them" (lib.rs:229-231): the server prints
\* nothing about what a peer does.
FailuresAreSilent == printed = 0

=============================================================================
