----------------------------- MODULE EchoProofs -----------------------------
(***************************************************************************)
(* Proofs about Echo, for any number of clients and other peers, any sizes *)
(* and any limit: a ping is lost only with its connection, and the         *)
(* client's counts add up.                                                 *)
(***************************************************************************)
EXTENDS Echo, FiniteSetTheorems, TLAPS

\* The numbers are numbers, and clients are peers.
LEMMA Bounds ==
    /\ MAX_PING_BYTES \in Nat /\ MaxStreams \in Nat /\ Sizes \subseteq Nat
    /\ OtherStreams \in Nat /\ OtherStreams <= MaxStreams
    /\ Clients \subseteq Peers /\ Others \subseteq Peers
BY EchoAssumption DEF Peers

\* What the arithmetic of counts and limits comes to.
LEMMA Ordered ==
    /\ \A i, j \in Nat : i <= j => i <= j + 1 /\ i # j + 1 /\ ~(i > j)
    /\ \A i, j, k \in Nat : i <= j /\ j <= k => i <= k
OBVIOUS

-----------------------------------------------------------------------------
(* Types.                                                                  *)

Labels == {"none", "read", "write", "finish", "ended"}

\* Of the streams: what the two ends change.
StreamsOK ==
    /\ up \in [Peers -> [Streams -> Half(MAX_PING_BYTES + 1)]]
    /\ down \in [Peers -> [Streams -> Half(MAX_PING_BYTES)]]
    /\ opened \in [Peers -> 0 .. MaxStreams]
    /\ accepted \in [Peers -> 0 .. MaxStreams]
    /\ tasks \in [Peers -> [Streams -> Labels]]
    /\ payload \in [Peers -> [Streams -> 0 .. MAX_PING_BYTES]]

\* Of the credit for echoes.
CreditOK == granted \in [Others -> [Streams -> Nat]] /\ window \in [Others -> Nat]

\* Of the processes and their connections.
ProcessesOK ==
    /\ near \in [Peers -> {"none", "connecting", "open", "gone"}]
    /\ far \in [Peers -> {"none", "incoming", "handshake", "open", "gone"}]
    /\ pc \in [Clients -> {"start", "connect", "loop", "open", "write", "finish", "read",
                           "wait_idle", "done", "exited", "killed"}]
    /\ size \in [Clients -> Sizes]
    /\ seq \in [Clients -> Nat] /\ rtts \in [Clients -> Nat] /\ lost \in [Clients -> Nat]
    /\ main \in {"start", "serving", "close", "wait_idle", "done"}
    /\ conns \in [Peers -> {"none", "incoming", "accept_bi", "ended"}]
    /\ printed \in Nat

Pinging == {"write", "finish", "read"}

\* A client past its checks keeps within the limit and, in a ping, has a stream.
ClientsOK ==
    \A c \in Clients :
        /\ pc[c] = "start" => near[c] = "none" /\ lost[c] = 0
        /\ pc[c] \in {"connect", "loop", "open", "write", "finish", "read"} =>
              size[c] <= MAX_PING_BYTES
        /\ pc[c] \in Pinging => opened[c] \in Streams

Types == StreamsOK /\ CreditOK /\ ProcessesOK /\ ClientsOK

\* The parts are the type invariant.
LEMMA TypesSplit ==
    Types => TypeOK
BY DEF Types, StreamsOK, CreditOK, ProcessesOK, TypeOK, Labels

\* A change of one field of one half of a stream.
LEMMA HalfChanges ==
    ASSUME NEW limit, NEW h \in [Peers -> [Streams -> Half(limit)]], NEW p \in Peers, NEW s \in Streams
    PROVE  /\ h[p][s] \in Half(limit)
           /\ \A v \in 0 .. limit : [h EXCEPT ![p][s].n = v] \in [Peers -> [Streams -> Half(limit)]]
           /\ \A v \in {"no", "fin", "reset"} : [h EXCEPT ![p][s].end = v] \in [Peers -> [Streams -> Half(limit)]]
           /\ \A v \in BOOLEAN : [h EXCEPT ![p][s].stopped = v] \in [Peers -> [Streams -> Half(limit)]]
<1>1. h[p][s] \in Half(limit)
    OBVIOUS
<1>2. ASSUME NEW x \in Half(limit) PROVE [h EXCEPT ![p][s] = x] \in [Peers -> [Streams -> Half(limit)]]
    OBVIOUS
<1>3. /\ \A v \in 0 .. limit : [h[p][s] EXCEPT !.n = v] \in Half(limit)
      /\ \A v \in {"no", "fin", "reset"} : [h[p][s] EXCEPT !.end = v] \in Half(limit)
      /\ \A v \in BOOLEAN : [h[p][s] EXCEPT !.stopped = v] \in Half(limit)
    BY <1>1, Zenon DEF Half
<1> QED
    BY <1>1, <1>2, <1>3

\* A change of one task.
LEMMA TaskChanges ==
    ASSUME NEW t \in [Peers -> [Streams -> Labels]], NEW p \in Peers, NEW s \in Streams,
           NEW l \in Labels
    PROVE  [t EXCEPT ![p][s] = l] \in [Peers -> [Streams -> Labels]]
OBVIOUS

-----------------------------------------------------------------------------
(* The invariant.                                                          *)

\* The stream s of a client that has not lost its connection.  Its halves agree
\* with the task that echoes it, and neither end has given it up.
Healthy(c, s) ==
    /\ up[c][s].n <= size[c] /\ up[c][s].n <= MAX_PING_BYTES
    /\ up[c][s].end # "reset" /\ ~up[c][s].stopped
    /\ up[c][s].end = "fin" => up[c][s].n = size[c]
    /\ down[c][s].n <= size[c] /\ down[c][s].n <= MAX_PING_BYTES
    /\ down[c][s].end # "reset" /\ ~down[c][s].stopped
    /\ down[c][s].end = "fin" => tasks[c][s] = "ended" /\ down[c][s].n = size[c]
    /\ tasks[c][s] \in {"write", "finish"} => payload[c][s] = size[c]
    /\ tasks[c][s] \in {"none", "read"} => down[c][s].n = 0
    /\ tasks[c][s] = "finish" => down[c][s].n = size[c]
    /\ s > opened[c] => up[c][s].n = 0 /\ up[c][s].end = "no"

\* The stream of the ping in progress is as far as ping is.
PingAt(c) ==
    /\ pc[c] \in {"write", "finish"} => up[c][opened[c]].end = "no"
    /\ pc[c] = "finish" => up[c][opened[c]].n = size[c]

\* So are the streams of every client that has not lost its connection.
StreamInv ==
    \A c \in Clients : near[c] # "gone" => PingAt(c) /\ \A s \in Streams : Healthy(c, s)

\* The task of a stream starts when it is accepted.
TaskInv == \A p \in Peers, s \in Streams : s > accepted[p] => tasks[p][s] = "none"

\* The streams of a client's earlier pings that were echoed in full.
Answered(c) ==
    {s \in Streams :
        /\ s <= opened[c] /\ (pc[c] \in Pinging => s # opened[c])
        /\ tasks[c][s] = "ended" /\ down[c][s].n = size[c] /\ down[c][s].end = "fin"}

\* The counts add up, and each round trip has a stream of its own.
CountInv ==
    \A c \in Clients :
        /\ seq[c] = rtts[c] + lost[c]
        /\ rtts[c] <= Cardinality(Answered(c))

\* The inductive invariant.
Inv == Types /\ StreamInv /\ TaskInv /\ LostOnlyWithConnection /\ CountInv

-----------------------------------------------------------------------------
(* Types are kept.                                                         *)

\* Steps that leave every stream alone.
QuietStep ==
    \/ ServerStarts \/ CloseEndpoint \/ WaitIdle \/ SelectEnds \/ SelectFails
    \/ \E c \in Clients :
          \/ Start(c) \/ StartFails(c) \/ Connected(c) \/ ConnectFails(c) \/ NextPing(c)
          \/ PingOk(c) \/ CloseConnection(c) \/ Summary(c) \/ Kill(c)
    \/ \E p \in Others : OtherConnects(p) \/ \E s \in Streams : OtherGrants(p, s)
    \/ \E p \in Peers :
          \/ Accept(p) \/ Incoming(p) \/ NearOpens(p) \/ FarOpens(p) \/ NearEnds(p)
          \/ FarEnds(p) \/ Disconnect(p) \/ IncomingAwaited(p) \/ AcceptBiFails(p)

\* Steps by which a peer changes a stream of its own.
PeerStep ==
    \/ \E c \in Clients : OpenBi(c) \/ WriteAll(c) \/ Finish(c) \/ PingFails(c)
    \/ \E p \in Others : OtherOpens(p) \/ \E s \in Streams : OtherWrites(p, s) \/ OtherStops(p, s)

\* Steps by which the server does.
TaskStep ==
    \/ \E p \in Peers : AcceptBi(p)
    \/ \E p \in Peers, s \in Streams : EchoStream(p, s)

\* Next, by what its steps do to the streams.
LEMMA StepKinds ==
    Next => QuietStep \/ PeerStep \/ TaskStep
BY DEF Next, QuietStep, PeerStep, TaskStep, ServerMain, Client, Other, Connection, ConnTask

\* QuietStep changes no stream.
LEMMA QuietStepIsQuiet ==
    QuietStep => UNCHANGED <<up, down, opened, accepted, tasks, payload>>
<1> SUFFICES ASSUME QuietStep PROVE UNCHANGED <<up, down, opened, accepted, tasks, payload>>
    OBVIOUS
<1>1. CASE ServerStarts \/ CloseEndpoint \/ WaitIdle \/ SelectEnds \/ SelectFails
    BY <1>1 DEF ServerStarts, CloseEndpoint, WaitIdle, SelectEnds, SelectFails, wire
<1>2. ASSUME NEW c \in Clients,
             \/ Start(c) \/ StartFails(c) \/ Connected(c) \/ ConnectFails(c) \/ NextPing(c)
             \/ PingOk(c) \/ CloseConnection(c) \/ Summary(c) \/ Kill(c)
      PROVE  UNCHANGED <<up, down, opened, accepted, tasks, payload>>
    BY <1>2 DEF Start, StartFails, Connected, ConnectFails, NextPing, PingOk,
                CloseConnection, Summary, Kill, server, wire
<1>3. ASSUME NEW p \in Others, OtherConnects(p) \/ \E s \in Streams : OtherGrants(p, s)
      PROVE  UNCHANGED <<up, down, opened, accepted, tasks, payload>>
    BY <1>3 DEF OtherConnects, OtherGrants, server
<1>4. ASSUME NEW p \in Peers,
             \/ Accept(p) \/ Incoming(p) \/ NearOpens(p) \/ FarOpens(p) \/ NearEnds(p)
             \/ FarEnds(p) \/ Disconnect(p) \/ IncomingAwaited(p) \/ AcceptBiFails(p)
      PROVE  UNCHANGED <<up, down, opened, accepted, tasks, payload>>
    BY <1>4 DEF Accept, Incoming, NearOpens, FarOpens, NearEnds, FarEnds, Disconnect,
                IncomingAwaited, AcceptBiFails, server, wire
<1> QED
    BY <1>1, <1>2, <1>3, <1>4 DEF QuietStep

\* What AcceptBi accepts is a stream.
LEMMA AcceptBiStream ==
    ASSUME StreamsOK, NEW p \in Peers, AcceptBi(p)
    PROVE  /\ accepted[p] + 1 \in Streams
           /\ accepted' = [accepted EXCEPT ![p] = accepted[p] + 1]
           /\ tasks' = [tasks EXCEPT ![p][accepted[p] + 1] = "read"]
           /\ UNCHANGED <<near, up, down, opened, payload, main, conns, printed, far, client>>
<1>1. accepted[p] \in 0 .. MaxStreams /\ opened[p] \in 0 .. MaxStreams
    BY DEF StreamsOK
<1>2. accepted[p] + 1 \in Streams
    BY <1>1, Bounds DEF AcceptBi, Streams
<1>3. accepted' = [accepted EXCEPT ![p] = accepted[p] + 1] /\ accepted'[p] = accepted[p] + 1
    BY DEF AcceptBi, StreamsOK
<1> QED
    BY <1>2, <1>3, Zenon DEF AcceptBi, wire

\* The streams of a peer and their tasks keep their types.
LEMMA StreamsOKNext ==
    ASSUME Types, Next
    PROVE  StreamsOK'
<1> USE Bounds
<1>0. StreamsOK /\ ClientsOK /\ ProcessesOK
    BY DEF Types
<1>1. CASE QuietStep
    BY <1>0, <1>1, QuietStepIsQuiet DEF StreamsOK
<1>2. ASSUME NEW c \in Clients, OpenBi(c) \/ WriteAll(c) \/ Finish(c) \/ PingFails(c)
      PROVE  StreamsOK'
    <2>0. UNCHANGED <<accepted, tasks, payload>> /\ c \in Peers
        BY <1>2 DEF OpenBi, WriteAll, Finish, PingFails, server
    <2>1. CASE OpenBi(c)
        BY <1>0, <2>0, <2>1 DEF StreamsOK, OpenBi
    <2>2. CASE WriteAll(c)
        <3>1. opened[c] \in Streams /\ size[c] <= MAX_PING_BYTES /\ size[c] \in Nat
            BY <1>0, <2>2 DEF ClientsOK, ProcessesOK, WriteAll, Pinging
        <3>2. up[c][opened[c]].n \in 0 .. MAX_PING_BYTES + 1
            BY <3>1, <1>0, <2>0 DEF StreamsOK, Half
        <3>3. up' \in [Peers -> [Streams -> Half(MAX_PING_BYTES + 1)]]
            <4>1. CASE /\ up[c][opened[c]].n < size[c]
                       /\ up' = [up EXCEPT ![c][opened[c]].n = up[c][opened[c]].n + 1]
                <5>1. up[c][opened[c]].n + 1 \in 0 .. MAX_PING_BYTES + 1
                    BY <4>1, <3>1, <3>2
                <5> QED
                    BY <5>1, <4>1, <3>1, <2>0, <1>0, HalfChanges, Zenon DEF StreamsOK
            <4>2. CASE UNCHANGED up
                BY <4>2, <1>0 DEF StreamsOK
            <4> QED
                BY <4>1, <4>2, <2>2 DEF WriteAll
        <3> QED
            BY <1>0, <2>0, <2>2, <3>3 DEF StreamsOK, WriteAll
    <2>3. CASE Finish(c)
        <3>1. opened[c] \in Streams
            BY <1>0, <2>3 DEF ClientsOK, Finish, Pinging
        <3>2. [up EXCEPT ![c][opened[c]].end = "fin"] \in [Peers -> [Streams -> Half(MAX_PING_BYTES + 1)]]
            BY <1>0, <2>0, <3>1, HalfChanges, Zenon DEF StreamsOK
        <3> QED
            BY <1>0, <2>0, <2>3, <3>2 DEF StreamsOK, Finish
    <2>4. CASE PingFails(c)
        <3>1. CASE near[c] # "open"
            BY <1>0, <2>0, <2>4, <3>1 DEF StreamsOK, PingFails
        <3>2. CASE near[c] = "open"
            <4>1. opened[c] \in Streams
                BY <1>0, <2>4, <3>2 DEF ClientsOK, PingFails, Pinging
            <4> DEFINE e == IF up[c][opened[c]].end = "no" THEN "reset" ELSE up[c][opened[c]].end
            <4>2. up[c][opened[c]] \in Half(MAX_PING_BYTES + 1)
                BY <1>0, <2>0, <4>1 DEF StreamsOK
            <4>3. e \in {"no", "fin", "reset"}
                BY <4>2 DEF Half
            <4>4. up' = [up EXCEPT ![c][opened[c]].end = e]
                BY <2>4, <3>2 DEF PingFails
            <4>5. down' = [down EXCEPT ![c][opened[c]].stopped = TRUE]
                BY <2>4, <3>2 DEF PingFails
            <4> HIDE DEF e
            <4>6. up' \in [Peers -> [Streams -> Half(MAX_PING_BYTES + 1)]]
                BY <1>0, <2>0, <4>1, <4>3, <4>4, HalfChanges, Zenon DEF StreamsOK
            <4>7. down' \in [Peers -> [Streams -> Half(MAX_PING_BYTES)]]
                BY <1>0, <2>0, <4>1, <4>5, HalfChanges, Zenon DEF StreamsOK
            <4> QED
                BY <1>0, <2>0, <2>4, <4>6, <4>7 DEF StreamsOK, PingFails
        <3> QED
            BY <3>1, <3>2
    <2> QED
        BY <1>2, <2>1, <2>2, <2>3, <2>4
<1>3. ASSUME NEW p \in Others, OtherOpens(p) PROVE StreamsOK'
    BY <1>0, <1>3 DEF StreamsOK, OtherOpens, server
<1>4. ASSUME NEW p \in Others, NEW s \in Streams, OtherWrites(p, s) PROVE StreamsOK'
    <2>0. UNCHANGED <<accepted, tasks, payload, down, opened>> /\ p \in Peers
        BY <1>4 DEF OtherWrites, server
    <2>1. up[p][s].n \in 0 .. MAX_PING_BYTES + 1
        BY <1>0, <2>0 DEF StreamsOK, Half
    <2>2. CASE up[p][s].n <= MAX_PING_BYTES /\ up' = [up EXCEPT ![p][s].n = up[p][s].n + 1]
        <3>1. up[p][s].n + 1 \in 0 .. MAX_PING_BYTES + 1
            BY <2>1, <2>2
        <3>2. up' \in [Peers -> [Streams -> Half(MAX_PING_BYTES + 1)]]
            BY <1>0, <2>0, <2>2, <3>1, HalfChanges, Zenon DEF StreamsOK
        <3> QED
            BY <1>0, <2>0, <3>2 DEF StreamsOK
    <2>3. ASSUME NEW e \in {"fin", "reset"}, up' = [up EXCEPT ![p][s].end = e] PROVE StreamsOK'
        <3>1. up' \in [Peers -> [Streams -> Half(MAX_PING_BYTES + 1)]]
            BY <1>0, <2>0, <2>3, HalfChanges, Zenon DEF StreamsOK
        <3> QED
            BY <1>0, <2>0, <3>1 DEF StreamsOK
    <2> QED
        BY <1>4, <2>2, <2>3 DEF OtherWrites
<1>5. ASSUME NEW p \in Others, NEW s \in Streams, OtherStops(p, s) PROVE StreamsOK'
    <2>1. UNCHANGED <<accepted, tasks, payload, up, opened>> /\ p \in Peers
        BY <1>5 DEF OtherStops, server
    <2>2. down' \in [Peers -> [Streams -> Half(MAX_PING_BYTES)]]
        BY <1>0, <1>5, <2>1, HalfChanges, Zenon DEF StreamsOK, OtherStops
    <2> QED
        BY <1>0, <2>1, <2>2 DEF StreamsOK
<1>6. ASSUME NEW p \in Peers, AcceptBi(p) PROVE StreamsOK'
    <2>1. accepted[p] + 1 \in 0 .. MaxStreams /\ accepted[p] + 1 \in Streams
        BY <1>0, <1>6, AcceptBiStream DEF Streams
    <2>2. accepted' \in [Peers -> 0 .. MaxStreams]
        <3>1. accepted' = [accepted EXCEPT ![p] = accepted[p] + 1]
            BY <1>0, <1>6, AcceptBiStream
        <3> QED
            BY <1>0, <2>1, <3>1 DEF StreamsOK
    <2>3. tasks' \in [Peers -> [Streams -> Labels]]
        <3>1. tasks' = [tasks EXCEPT ![p][accepted[p] + 1] = "read"] /\ "read" \in Labels
            BY <1>0, <1>6, AcceptBiStream DEF Labels
        <3>2. tasks \in [Peers -> [Streams -> Labels]]
            BY <1>0 DEF StreamsOK
        <3> QED
            BY <2>1, <3>1, <3>2, TaskChanges
    <2>4. UNCHANGED <<up, down, opened, payload>>
        BY <1>0, <1>6, AcceptBiStream
    <2> QED
        BY <1>0, <2>2, <2>3, <2>4 DEF StreamsOK
<1>7. ASSUME NEW p \in Peers, NEW s \in Streams, EchoStream(p, s) PROVE StreamsOK'
    <2>0. UNCHANGED <<opened, accepted>>
        BY <1>7 DEF EchoStream, ReadToEnd, ReadFails, EchoWrites, WriteFails, EchoFinishes, wire
    <2>1. tasks' \in [Peers -> [Streams -> Labels]]
        <3>1. tasks' = tasks \/ \E l \in {"write", "finish", "ended"} : tasks' = [tasks EXCEPT ![p][s] = l]
            BY <1>7 DEF EchoStream, ReadToEnd, ReadFails, EchoWrites, WriteFails, EchoFinishes, Task
        <3>2. tasks \in [Peers -> [Streams -> Labels]] /\ {"write", "finish", "ended"} \subseteq Labels
            BY <1>0 DEF StreamsOK, Labels
        <3>3. ASSUME NEW l \in {"write", "finish", "ended"}, tasks' = [tasks EXCEPT ![p][s] = l]
              PROVE  tasks' \in [Peers -> [Streams -> Labels]]
            <4>1. l \in Labels
                BY <3>2
            <4>2. [tasks EXCEPT ![p][s] = l] \in [Peers -> [Streams -> Labels]]
                BY <3>2, <4>1, TaskChanges
            <4> QED
                BY <3>3, <4>2
        <3> QED
            BY <3>1, <3>2, <3>3
    <2>2. up[p][s] \in Half(MAX_PING_BYTES + 1) /\ down[p][s] \in Half(MAX_PING_BYTES)
        BY <1>0 DEF StreamsOK
    <2>3. payload' \in [Peers -> [Streams -> 0 .. MAX_PING_BYTES]]
        <3>1. CASE ReadToEnd(p, s)
            <4>1. up[p][s].n \in 0 .. MAX_PING_BYTES
                BY <2>2, <3>1 DEF ReadToEnd, TooLong, Half
            <4> QED
                BY <1>0, <3>1, <4>1 DEF StreamsOK, ReadToEnd
        <3>2. CASE ~ReadToEnd(p, s)
            BY <1>0, <1>7, <3>2 DEF StreamsOK, EchoStream, ReadFails, EchoWrites, WriteFails, EchoFinishes
        <3> QED
            BY <3>1, <3>2
    <2>4. up' = up \/ up' = [up EXCEPT ![p][s].stopped = TRUE]
        BY <1>7 DEF EchoStream, ReadToEnd, ReadFails, EchoWrites, WriteFails, EchoFinishes, wire
    <2>5. \/ down' = down
          \/ \E e \in {"fin", "reset"} : down' = [down EXCEPT ![p][s].end = e]
          \/ down[p][s].n < payload[p][s] /\ down' = [down EXCEPT ![p][s].n = down[p][s].n + 1]
        BY <1>7 DEF EchoStream, ReadToEnd, ReadFails, EchoWrites, WriteFails, EchoFinishes, wire
    <2>6. up' \in [Peers -> [Streams -> Half(MAX_PING_BYTES + 1)]]
        <3>1. up \in [Peers -> [Streams -> Half(MAX_PING_BYTES + 1)]]
            BY <1>0 DEF StreamsOK
        <3>2. [up EXCEPT ![p][s].stopped = TRUE] \in [Peers -> [Streams -> Half(MAX_PING_BYTES + 1)]]
            BY <3>1, HalfChanges, Zenon
        <3> QED
            BY <2>4, <3>1, <3>2, Zenon
    <2>7. down[p][s].n < payload[p][s] => down[p][s].n + 1 \in 0 .. MAX_PING_BYTES
        <3>1. payload[p][s] \in 0 .. MAX_PING_BYTES
            BY <1>0 DEF StreamsOK
        <3>2. down[p][s].n \in 0 .. MAX_PING_BYTES
            BY <2>2 DEF Half
        <3> QED
            BY <3>1, <3>2
    <2>8. down' \in [Peers -> [Streams -> Half(MAX_PING_BYTES)]]
        <3>1. down \in [Peers -> [Streams -> Half(MAX_PING_BYTES)]]
            BY <1>0 DEF StreamsOK
        <3>2. ASSUME NEW e \in {"fin", "reset"}, down' = [down EXCEPT ![p][s].end = e]
              PROVE  down' \in [Peers -> [Streams -> Half(MAX_PING_BYTES)]]
            <4>1. [down EXCEPT ![p][s].end = e] \in [Peers -> [Streams -> Half(MAX_PING_BYTES)]]
                BY <3>1, HalfChanges, Zenon
            <4> QED
                BY <3>2, <4>1
        <3>3. down[p][s].n < payload[p][s] =>
                 [down EXCEPT ![p][s].n = down[p][s].n + 1] \in [Peers -> [Streams -> Half(MAX_PING_BYTES)]]
            BY <2>7, <3>1, HalfChanges, Zenon
        <3> QED
            BY <2>5, <3>1, <3>2, <3>3, Zenon
    <2> QED
        BY <1>0, <2>0, <2>1, <2>3, <2>6, <2>8 DEF StreamsOK
<1> QED
    BY <1>1, <1>2, <1>3, <1>4, <1>5, <1>6, <1>7, StepKinds DEF PeerStep, TaskStep

\* Credit is never overdrawn: a task that writes has found some.
LEMMA CreditOKNext ==
    ASSUME Types, Next
    PROVE  CreditOK'
<1>0. CreditOK
    BY DEF Types
<1>1. ASSUME NEW p \in Others, NEW s \in Streams, OtherGrants(p, s) PROVE CreditOK'
    <2>1. granted[p][s] + 1 \in Nat /\ window[p] + 1 \in Nat
        BY <1>0 DEF CreditOK
    <2>2. \/ granted' = [granted EXCEPT ![p][s] = granted[p][s] + 1] /\ UNCHANGED window
          \/ window' = [window EXCEPT ![p] = window[p] + 1] /\ UNCHANGED granted
        BY <1>1 DEF OtherGrants
    <2> QED
        BY <1>0, <2>1, <2>2 DEF CreditOK
<1>2. ASSUME NEW p \in Peers, NEW s \in Streams, EchoStream(p, s) PROVE CreditOK'
    <2>1. CASE EchoWrites(p, s)
        BY <1>0, <2>1 DEF CreditOK, EchoWrites, HasCredit
    <2>2. CASE ~EchoWrites(p, s)
        BY <1>0, <1>2, <2>2, Zenon DEF CreditOK, EchoStream, ReadToEnd, ReadFails, WriteFails,
                                       EchoFinishes, wire, credit
    <2> QED
        BY <2>1, <2>2
<1>3. CASE UNCHANGED credit
    BY <1>0, <1>3 DEF CreditOK, credit
<1>4. ASSUME NEW c \in Clients, Client(c) \/ Kill(c) PROVE UNCHANGED credit
    BY <1>4, Zenon DEF Client, Start, StartFails, Connected, ConnectFails, NextPing, OpenBi, WriteAll,
                Finish, PingOk, PingFails, CloseConnection, Summary, Kill, wire
<1>5. ASSUME NEW p \in Others,
             \/ OtherConnects(p) \/ OtherOpens(p)
             \/ \E s \in Streams : OtherWrites(p, s) \/ OtherStops(p, s)
      PROVE  UNCHANGED credit
    BY <1>5, Zenon DEF OtherConnects, OtherOpens, OtherWrites, OtherStops
<1>6. ASSUME NEW p \in Peers, Accept(p) \/ Connection(p) \/ Disconnect(p) \/ ConnTask(p)
      PROVE  UNCHANGED credit
    BY <1>6, Zenon DEF Accept, Connection, Incoming, NearOpens, FarOpens, NearEnds, FarEnds,
                Disconnect, ConnTask, IncomingAwaited, AcceptBi, AcceptBiFails, wire
<1>7. CASE ServerStarts \/ CloseEndpoint \/ WaitIdle \/ SelectEnds \/ SelectFails
    BY <1>3, <1>7, Zenon DEF ServerStarts, CloseEndpoint, WaitIdle, SelectEnds, SelectFails, wire
<1> QED
    BY <1>1, <1>2, <1>3, <1>4, <1>5, <1>6, <1>7 DEF Next, ServerMain, Other

\* The processes and their connections keep their types.
LEMMA ProcessesOKNext ==
    ASSUME Types, Next
    PROVE  ProcessesOK'
<1> USE Bounds
<1>0. ProcessesOK
    BY DEF Types
<1>1. CASE ServerStarts \/ WaitIdle \/ SelectEnds
    BY <1>0, <1>1 DEF ProcessesOK, ServerStarts, WaitIdle, SelectEnds, client, wire
<1>2. CASE CloseEndpoint \/ SelectFails
    BY <1>0, <1>2 DEF ProcessesOK, CloseEndpoint, SelectFails, FarGone, client
<1>3. ASSUME NEW p \in Peers,
             \/ Accept(p) \/ Incoming(p) \/ NearOpens(p) \/ FarOpens(p) \/ NearEnds(p)
             \/ FarEnds(p) \/ Disconnect(p) \/ IncomingAwaited(p) \/ AcceptBiFails(p)
      PROVE  ProcessesOK'
    BY <1>0, <1>3 DEF ProcessesOK, Accept, Incoming, NearOpens, FarOpens, NearEnds, FarEnds,
                      Disconnect, IncomingAwaited, AcceptBiFails, client, server, wire
<1>4. ASSUME NEW c \in Clients,
             \/ Start(c) \/ StartFails(c) \/ Connected(c) \/ ConnectFails(c) \/ NextPing(c)
             \/ CloseConnection(c) \/ Summary(c) \/ Kill(c)
      PROVE  ProcessesOK'
    BY <1>0, <1>4 DEF ProcessesOK, Start, StartFails, Connected, ConnectFails, NextPing,
                      CloseConnection, Summary, Kill, Goto, server, wire
<1>5. ASSUME NEW c \in Clients,
             OpenBi(c) \/ WriteAll(c) \/ Finish(c) \/ PingOk(c) \/ PingFails(c)
      PROVE  ProcessesOK'
    <2>1. CASE OpenBi(c) \/ WriteAll(c) \/ Finish(c)
        BY <1>0, <2>1 DEF ProcessesOK, OpenBi, WriteAll, Finish, Goto, server
    <2>2. CASE PingOk(c)
        BY <1>0, <2>2 DEF ProcessesOK, PingOk, Goto, server, wire
    <2>3. CASE PingFails(c)
        BY <1>0, <2>3 DEF ProcessesOK, PingFails, Goto, server
    <2> QED
        BY <1>5, <2>1, <2>2, <2>3, Zenon
<1>6. ASSUME NEW p \in Others,
             \/ OtherConnects(p) \/ OtherOpens(p)
             \/ \E s \in Streams : OtherWrites(p, s) \/ OtherStops(p, s) \/ OtherGrants(p, s)
      PROVE  ProcessesOK'
    BY <1>0, <1>6 DEF ProcessesOK, OtherConnects, OtherOpens, OtherWrites, OtherStops,
                      OtherGrants, client, server
<1>7. ASSUME NEW p \in Peers, AcceptBi(p) \/ \E s \in Streams : EchoStream(p, s)
      PROVE  ProcessesOK'
    <2>1. UNCHANGED <<client, main, conns, near, far>> /\ printed' \in {printed, printed + 1}
        BY <1>7, Zenon DEF AcceptBi, EchoStream, ReadToEnd, ReadFails, EchoWrites, WriteFails,
                    EchoFinishes, wire
    <2> QED
        BY <1>0, <2>1 DEF ProcessesOK, client
<1> QED
    BY <1>1, <1>2, <1>3, <1>4, <1>5, <1>6, <1>7, StepKinds DEF QuietStep, PeerStep, TaskStep

-----------------------------------------------------------------------------
(* A step as one client sees it.                                           *)

\* Client d has no part in the step, unless its connection is opened or ended.
Elsewhere(d) ==
    /\ \/ near'[d] = near[d]
       \/ near[d] # "none" /\ near'[d] = "gone"
       \/ near[d] = "connecting" /\ near'[d] = "open"
    /\ up'[d] = up[d] /\ down'[d] = down[d] /\ opened'[d] = opened[d]
    /\ tasks'[d] = tasks[d] /\ payload'[d] = payload[d] /\ accepted'[d] = accepted[d]
    /\ pc'[d] = pc[d] /\ size'[d] = size[d]
    /\ seq'[d] = seq[d] /\ rtts'[d] = rtts[d] /\ lost'[d] = lost[d]

\* A step is the client's own, the server's on one of its streams, or elsewhere.
LEMMA StepsForClient ==
    ASSUME Types, Next, NEW d \in Clients
    PROVE  \/ Client(d) \/ Kill(d)
           \/ AcceptBi(d) \/ \E s \in Streams : EchoStream(d, s)
           \/ Elsewhere(d)
<1> USE Bounds
<1>0. StreamsOK /\ ProcessesOK /\ d \in Peers /\ d \notin Others
    BY EchoAssumption DEF Types
<1>1. CASE ServerStarts \/ WaitIdle \/ SelectEnds \/ CloseEndpoint \/ SelectFails
    BY <1>1 DEF Elsewhere, ServerStarts, WaitIdle, SelectEnds, CloseEndpoint, SelectFails, client, wire
<1>2. ASSUME NEW p \in Peers,
             \/ Accept(p) \/ Incoming(p) \/ NearOpens(p) \/ FarOpens(p) \/ NearEnds(p)
             \/ FarEnds(p) \/ Disconnect(p) \/ IncomingAwaited(p) \/ AcceptBiFails(p)
      PROVE  Elsewhere(d)
    <2>1. UNCHANGED <<up, down, opened, accepted, tasks, payload, client>>
        BY <1>2 DEF Accept, Incoming, NearOpens, FarOpens, NearEnds, FarEnds, Disconnect,
                    IncomingAwaited, AcceptBiFails, server, wire
    <2>2. \/ near'[d] = near[d]
          \/ near[d] # "none" /\ near'[d] = "gone"
          \/ near[d] = "connecting" /\ near'[d] = "open"
        BY <1>0, <1>2 DEF ProcessesOK, Accept, Incoming, NearOpens, FarOpens, NearEnds, FarEnds,
                          Disconnect, IncomingAwaited, AcceptBiFails, wire, Timed, Alive
    <2> QED
        BY <2>1, <2>2 DEF Elsewhere, client
<1>3. ASSUME NEW c \in Clients, Client(c) \/ Kill(c), c # d
      PROVE  Elsewhere(d)
    <2>1. CASE \/ Start(c) \/ StartFails(c) \/ Connected(c) \/ ConnectFails(c) \/ NextPing(c)
               \/ CloseConnection(c) \/ Summary(c) \/ Kill(c)
        BY <1>0, <1>3, <2>1, Zenon DEF Elsewhere, ProcessesOK, Start, StartFails, Connected, ConnectFails,
            NextPing, CloseConnection, Summary, Kill, Goto, server, wire
    <2>2. CASE OpenBi(c) \/ WriteAll(c) \/ Finish(c)
        BY <1>0, <1>3, <2>2 DEF Elsewhere, ProcessesOK, StreamsOK, OpenBi, WriteAll, Finish, Goto, server
    <2>3. CASE PingOk(c) \/ PingFails(c)
        BY <1>0, <1>3, <2>3 DEF Elsewhere, ProcessesOK, StreamsOK, PingOk, PingFails, Goto, server, wire
    <2> QED
        BY <1>3, <2>1, <2>2, <2>3 DEF Client
<1>4. ASSUME NEW p \in Others, OtherConnects(p) \/ OtherOpens(p) PROVE Elsewhere(d)
    BY <1>0, <1>4 DEF Elsewhere, ProcessesOK, StreamsOK, OtherConnects, OtherOpens, client, server
<1>5. ASSUME NEW p \in Others, NEW s \in Streams,
             OtherWrites(p, s) \/ OtherStops(p, s) \/ OtherGrants(p, s)
      PROVE  Elsewhere(d)
    BY <1>0, <1>5 DEF Elsewhere, StreamsOK, OtherWrites, OtherStops, OtherGrants, client, server
<1>6. ASSUME NEW p \in Peers, p # d, AcceptBi(p) PROVE Elsewhere(d)
    BY <1>0, <1>6, AcceptBiStream DEF Elsewhere, StreamsOK, client
<1>7. ASSUME NEW p \in Peers, p # d, NEW s \in Streams, EchoStream(p, s) PROVE Elsewhere(d)
    BY <1>0, <1>7 DEF Elsewhere, StreamsOK, EchoStream, ReadToEnd, ReadFails, EchoWrites,
                      WriteFails, EchoFinishes, Task, client, wire
<1> QED
    BY <1>1, <1>2, <1>3, <1>4, <1>5, <1>6, <1>7
       DEF Next, ServerMain, Other, Connection, ConnTask

\* A client past its checks stays within the limit, and a ping has its stream.
LEMMA ClientsOKNext ==
    ASSUME Types, Next
    PROVE  ClientsOK'
<1> USE Bounds
<1> SUFFICES ASSUME NEW d \in Clients
             PROVE  /\ pc'[d] = "start" => near'[d] = "none" /\ lost'[d] = 0
                    /\ pc'[d] \in {"connect", "loop", "open", "write", "finish", "read"} =>
                          size'[d] <= MAX_PING_BYTES
                    /\ pc'[d] \in Pinging => opened'[d] \in Streams
    BY DEF ClientsOK
<1>0. /\ StreamsOK /\ ProcessesOK /\ d \in Peers
      /\ pc[d] = "start" => near[d] = "none" /\ lost[d] = 0
      /\ pc[d] \in {"connect", "loop", "open", "write", "finish", "read"} => size[d] <= MAX_PING_BYTES
      /\ pc[d] \in Pinging => opened[d] \in Streams
    BY DEF Types, ClientsOK
<1>1. CASE Elsewhere(d)
    BY <1>0, <1>1, Zenon DEF Elsewhere
<1>2. CASE AcceptBi(d) \/ \E s \in Streams : EchoStream(d, s)
    <2>1. UNCHANGED <<client, near, opened>>
        BY <1>2, Zenon DEF AcceptBi, EchoStream, ReadToEnd, ReadFails, EchoWrites,
                    WriteFails, EchoFinishes, wire
    <2> QED
        BY <1>0, <2>1 DEF client
<1>3. CASE \/ Start(d) \/ StartFails(d) \/ Connected(d) \/ ConnectFails(d) \/ NextPing(d)
           \/ CloseConnection(d) \/ Summary(d) \/ Kill(d)
    BY <1>0, <1>3 DEF ProcessesOK, Start, StartFails, Connected, ConnectFails, NextPing,
        CloseConnection, Summary, Kill, Goto, Pinging, wire
<1>4. CASE OpenBi(d)
    <2>a. opened[d] \in 0 .. MaxStreams
        BY <1>0, Zenon DEF StreamsOK
    <2>b. opened[d] < MaxStreams
        BY <1>4, Zenon DEF OpenBi
    <2>1. opened[d] + 1 \in Streams
        BY <2>a, <2>b DEF Streams
    <2> QED
        BY <1>0, <1>4, <2>1 DEF StreamsOK, ProcessesOK, OpenBi, Goto
<1>5. CASE WriteAll(d) \/ Finish(d) \/ PingOk(d) \/ PingFails(d)
    BY <1>0, <1>5 DEF ProcessesOK, WriteAll, Finish, PingOk, PingFails, Goto, Pinging, wire
<1> QED
    BY <1>1, <1>2, <1>3, <1>4, <1>5, StepsForClient, Zenon DEF Client

-----------------------------------------------------------------------------
(* The streams of a client.                                                *)

\* What types say of one stream.
LEMMA StreamTypes ==
    ASSUME StreamsOK, NEW p \in Peers, NEW s \in Streams
    PROVE  /\ up[p][s] \in Half(MAX_PING_BYTES + 1) /\ down[p][s] \in Half(MAX_PING_BYTES)
           /\ up[p][s].n \in Nat /\ down[p][s].n \in Nat
           /\ up[p][s].end \in {"no", "fin", "reset"} /\ down[p][s].end \in {"no", "fin", "reset"}
           /\ payload[p][s] \in 0 .. MAX_PING_BYTES
           /\ tasks[p][s] \in Labels
<1>1. up[p][s] \in Half(MAX_PING_BYTES + 1) /\ down[p][s] \in Half(MAX_PING_BYTES)
    BY DEF StreamsOK
<1>2. payload[p][s] \in 0 .. MAX_PING_BYTES /\ tasks[p][s] \in Labels
    BY DEF StreamsOK
<1>3. ASSUME NEW h \in Half(MAX_PING_BYTES) \cup Half(MAX_PING_BYTES + 1)
      PROVE  h.n \in Nat /\ h.end \in {"no", "fin", "reset"}
    BY Bounds DEF Half
<1> QED
    BY <1>1, <1>2, <1>3, Zenon

\* A ping fails only for want of a connection: no stream that is healthy gives
\* ping a reason.
LEMMA PingFailsWhenGone ==
    ASSUME Types, StreamInv, NEW c \in Clients, PingFails(c)
    PROVE  near[c] = "gone"
<1> SUFFICES ASSUME near[c] # "gone" PROVE FALSE
    OBVIOUS
<1>1. \/ pc[c] = "write" /\ up[c][opened[c]].stopped
      \/ pc[c] = "read" /\ EchoBad(c)
    BY DEF PingFails
<1>2. opened[c] \in Streams /\ c \in Peers
    BY <1>1, Bounds, Zenon DEF Types, ClientsOK, Pinging
<1>3. Healthy(c, opened[c])
    BY <1>2, Zenon DEF StreamInv
<1>4. down[c][opened[c]].n \in Nat
    BY <1>2, StreamTypes DEF Types
<1> QED
    <2>1. ~up[c][opened[c]].stopped
        BY <1>3, Zenon DEF Healthy
    <2>2. /\ Echoed(c).n <= MAX_PING_BYTES /\ Echoed(c).end # "reset"
          /\ Echoed(c).end = "fin" => Echoed(c).n = size[c]
        BY <1>3, Zenon DEF Healthy, Echoed
    <2>3. ~(Echoed(c).n > MAX_PING_BYTES)
        BY <1>4, <2>2, Ordered, Bounds, Zenon DEF Echoed
    <2> QED
        BY <1>1, <2>1, <2>2, <2>3, Zenon DEF EchoBad

\* A task changes nothing of other streams.
LEMMA EchoLeavesOthers ==
    ASSUME StreamsOK, NEW p \in Peers, NEW s \in Streams, EchoStream(p, s), NEW r \in Streams, r # s
    PROVE  /\ up'[p][r] = up[p][r] /\ down'[p][r] = down[p][r]
           /\ tasks'[p][r] = tasks[p][r] /\ payload'[p][r] = payload[p][r]
BY DEF StreamsOK, EchoStream, ReadToEnd, ReadFails, EchoWrites, WriteFails, EchoFinishes, Task, wire

\* The server's steps keep a client's streams healthy.
LEMMA HealthyEcho ==
    ASSUME Types, NEW c \in Clients, NEW s \in Streams, \A q \in Streams : Healthy(c, q),
           EchoStream(c, s), NEW r \in Streams
    PROVE  Healthy(c, r)'
<1> USE Bounds
<1>0. c \in Peers /\ StreamsOK /\ ProcessesOK /\ Healthy(c, s) /\ Healthy(c, r) /\ size[c] \in Nat
    BY Zenon DEF Types, ProcessesOK
<1>1. UNCHANGED <<size, opened>>
    BY DEF EchoStream, ReadToEnd, ReadFails, EchoWrites, WriteFails, EchoFinishes, client, wire
<1>2. CASE r # s
    <2>1. /\ up'[c][r] = up[c][r] /\ down'[c][r] = down[c][r]
          /\ tasks'[c][r] = tasks[c][r] /\ payload'[c][r] = payload[c][r]
        BY <1>0, <1>2, EchoLeavesOthers
    <2> QED
        BY <1>0, <1>1, <2>1, Zenon DEF Healthy
<1>3. CASE r = s
    <2>0. /\ up[c][s] \in Half(MAX_PING_BYTES + 1) /\ down[c][s] \in Half(MAX_PING_BYTES)
          /\ up[c][s].n \in Nat /\ down[c][s].n \in Nat
          /\ up[c][s].end \in {"no", "fin", "reset"} /\ down[c][s].end \in {"no", "fin", "reset"}
        BY <1>0, StreamTypes
    <2>1. CASE ReadToEnd(c, s)
        <3>1. /\ up' = up /\ down' = down /\ tasks'[c][s] = "write" /\ payload'[c][s] = up[c][s].n
              /\ tasks[c][s] = "read" /\ up[c][s].end = "fin"
            BY <1>0, <2>1, Zenon DEF StreamsOK, ReadToEnd, Task, wire
        <3> QED
            BY <1>0, <1>1, <1>3, <2>0, <3>1, Zenon DEF Healthy
    <2>2. CASE ReadFails(c, s)
        <3>1. ~TooLong(c, s) /\ up[c][s].end # "reset"
            <4>1. up[c][s].n <= MAX_PING_BYTES /\ up[c][s].end # "reset"
                BY <1>0, Zenon DEF Healthy
            <4> QED
                BY <2>0, <4>1 DEF TooLong
        <3>2. /\ up' = up /\ down' = down /\ tasks'[c][s] = "ended" /\ payload' = payload
              /\ tasks[c][s] = "read"
            BY <1>0, <2>2, <3>1 DEF StreamsOK, ReadFails, Task
        <3> QED
            BY <1>0, <1>1, <1>3, <2>0, <3>2, Zenon DEF Healthy
    <2>3. CASE EchoWrites(c, s)
        <3>0. up' = up /\ payload' = payload /\ tasks[c][s] = "write" /\ payload[c][s] = size[c]
            BY <1>0, <2>3 DEF EchoWrites, Healthy
        <3>1. CASE down[c][s].n < payload[c][s] /\ down' = [down EXCEPT ![c][s].n = @ + 1] /\ UNCHANGED tasks
            <4>1. down'[c][s] = [down[c][s] EXCEPT !.n = down[c][s].n + 1]
                BY <1>0, <3>1 DEF StreamsOK
            <4>2. /\ down'[c][s].n = down[c][s].n + 1 /\ down'[c][s].end = down[c][s].end
                  /\ down'[c][s].stopped = down[c][s].stopped
                BY ONLY <4>1, <2>0 DEF Half
            <4>3. payload[c][s] \in 0 .. MAX_PING_BYTES /\ down[c][s].end # "fin"
                BY <1>0, <3>0, StreamTypes, Zenon DEF Healthy
            <4>4. down'[c][s].n <= size[c] /\ down'[c][s].n <= MAX_PING_BYTES
                BY <1>0, <2>0, <3>0, <3>1, <4>2, <4>3
            <4>5. ~down'[c][s].stopped /\ down'[c][s].end \notin {"fin", "reset"} /\ tasks'[c][s] = "write"
                BY <1>0, <2>0, <3>0, <3>1, <4>2, <4>3 DEF Healthy
            <4> QED
                BY <1>0, <1>1, <1>3, <3>0, <4>4, <4>5, Zenon DEF Healthy
        <3>2. CASE down[c][s].n = payload[c][s] /\ Task(c, s, "finish") /\ UNCHANGED down
            <4>1. tasks'[c][s] = "finish"
                BY <1>0, <3>2 DEF StreamsOK, Task
            <4> QED
                BY <1>0, <1>1, <1>3, <2>0, <3>0, <3>2, <4>1, Zenon DEF Healthy
        <3> QED
            BY <2>3, <3>1, <3>2 DEF EchoWrites
    <2>4. CASE WriteFails(c, s)
        <3>1. ~down[c][s].stopped
            BY <1>0, Zenon DEF Healthy
        <3>2. /\ up' = up /\ down' = down /\ tasks'[c][s] = "ended" /\ payload' = payload
              /\ tasks[c][s] = "write"
            BY <1>0, <2>4, <3>1 DEF StreamsOK, WriteFails, Task
        <3> QED
            BY <1>0, <1>1, <1>3, <2>0, <3>2, Zenon DEF Healthy
    <2>5. CASE EchoFinishes(c, s)
        <3>1. up' = up /\ payload' = payload /\ tasks'[c][s] = "ended" /\ tasks[c][s] = "finish"
            BY <1>0, <2>5 DEF StreamsOK, EchoFinishes, Task
        <3>2. CASE down' = down
            BY <1>0, <1>1, <1>3, <2>0, <3>1, <3>2, Zenon DEF Healthy
        <3>3. CASE down' = [down EXCEPT ![c][s].end = "fin"]
            <4>1. down'[c][s] = [down[c][s] EXCEPT !.end = "fin"]
                BY <1>0, <3>3 DEF StreamsOK
            <4>2. /\ down'[c][s].n = down[c][s].n /\ down'[c][s].end = "fin"
                  /\ down'[c][s].stopped = down[c][s].stopped
                BY ONLY <4>1, <2>0 DEF Half
            <4> QED
                BY <1>0, <1>1, <1>3, <2>0, <3>1, <4>2, Zenon DEF Healthy
        <3> QED
            BY <2>5, <3>2, <3>3 DEF EchoFinishes
    <2> QED
        BY <2>1, <2>2, <2>3, <2>4, <2>5 DEF EchoStream
<1> QED
    BY <1>2, <1>3

\* A task neither writes nor ends what its peer sends.
LEMMA EchoKeepsUp ==
    ASSUME StreamsOK, NEW p \in Peers, NEW s \in Streams, EchoStream(p, s), NEW r \in Streams
    PROVE  up'[p][r].n = up[p][r].n /\ up'[p][r].end = up[p][r].end
<1>1. up' = up \/ up' = [up EXCEPT ![p][s].stopped = TRUE]
    BY DEF EchoStream, ReadToEnd, ReadFails, EchoWrites, WriteFails, EchoFinishes, wire
<1>2. CASE up' = [up EXCEPT ![p][s].stopped = TRUE]
    <2>1. /\ up[p][r] \in Half(MAX_PING_BYTES + 1)
          /\ up'[p][r] = IF r = s THEN [up[p][r] EXCEPT !.stopped = TRUE] ELSE up[p][r]
        BY <1>2, Zenon DEF StreamsOK
    <2> QED
        BY <2>1 DEF Half
<1> QED
    BY <1>1, <1>2

\* A client's own step, while its connection lasts, keeps its streams healthy.
LEMMA StreamsOfClient ==
    ASSUME Types, StreamInv, NEW c \in Clients, Client(c) \/ Kill(c), near'[c] # "gone"
    PROVE  PingAt(c)' /\ \A s \in Streams : Healthy(c, s)'
<1> USE Bounds
<1>0. c \in Peers /\ StreamsOK /\ ProcessesOK /\ size[c] \in Nat /\ opened[c] \in 0 .. MaxStreams
    BY Zenon DEF Types, ProcessesOK, StreamsOK
<1>a. near[c] # "gone" /\ ~Kill(c) /\ ~CloseConnection(c)
    BY <1>0, Zenon DEF ProcessesOK, Types, ClientsOK, Client, Start, StartFails, Connected,
        ConnectFails, NextPing,
        OpenBi, WriteAll, Finish, PingOk, PingFails, CloseConnection, Summary, Kill, wire
<1>b. PingAt(c) /\ \A s \in Streams : Healthy(c, s)
    BY <1>a DEF StreamInv
<1>c. UNCHANGED <<size, down, tasks, payload>>
    BY <1>a, PingFailsWhenGone DEF Client, Start, StartFails, Connected, ConnectFails, NextPing,
        OpenBi, WriteAll, Finish, PingOk, Summary, server, wire
<1>1. CASE \/ Start(c) \/ StartFails(c) \/ Connected(c) \/ ConnectFails(c) \/ NextPing(c)
           \/ PingOk(c) \/ Summary(c)
    <2>1. UNCHANGED <<up, opened>> /\ pc'[c] \notin Pinging
        BY <1>0, <1>1 DEF ProcessesOK, Start, StartFails, Connected, ConnectFails, NextPing, PingOk, Summary,
            Goto, Pinging, wire
    <2> QED
        BY <1>b, <1>c, <2>1, Zenon DEF PingAt, Healthy, Pinging
<1>2. CASE OpenBi(c)
    <2>1. /\ opened'[c] = opened[c] + 1 /\ opened'[c] \in Streams
          /\ up' = up /\ pc'[c] = "write"
        BY <1>0, <1>2 DEF StreamsOK, ProcessesOK, OpenBi, Goto, Streams
    <2>2. up[c][opened[c] + 1].end = "no"
        <3>1. Healthy(c, opened[c] + 1)
            BY <1>b, <2>1, Zenon
        <3>2. opened[c] + 1 > opened[c]
            BY <1>0
        <3> QED
            BY <3>1, <3>2, Zenon DEF Healthy
    <2>3. PingAt(c)'
        BY <2>1, <2>2 DEF PingAt
    <2>4. ASSUME NEW s \in Streams PROVE Healthy(c, s)'
        <3>1. Healthy(c, s)
            BY <1>b
        <3>2. s > opened'[c] => s > opened[c]
            BY <1>0, <2>1 DEF Streams
        <3> QED
            BY <1>c, <2>1, <3>1, <3>2, Zenon DEF Healthy
    <2> QED
        BY <2>3, <2>4
<1>3. CASE WriteAll(c)
    <2>0. opened[c] \in Streams /\ opened' = opened /\ pc[c] = "write" /\ size[c] <= MAX_PING_BYTES
        BY <1>3 DEF Types, ClientsOK, Pinging, WriteAll
    <2>o. PICK o \in Streams : o = opened[c]
        BY <2>0
    <2>1. up[c][o] \in Half(MAX_PING_BYTES + 1) /\ up[c][o].n \in Nat /\ Healthy(c, o) /\ up[c][o].end = "no"
        BY <1>0, <1>b, <2>0, <2>o, StreamTypes, Zenon DEF PingAt
    <2>2. CASE up[c][o].n < size[c] /\ up' = [up EXCEPT ![c][o].n = @ + 1] /\ UNCHANGED pc
        <3>1. \A s \in Streams :
                 up'[c][s] = IF s = o THEN [up[c][o] EXCEPT !.n = up[c][o].n + 1] ELSE up[c][s]
            BY <1>0, <2>0, <2>o, <2>2 DEF StreamsOK
        <3>2. /\ up'[c][o].n = up[c][o].n + 1 /\ up'[c][o].end = "no"
              /\ up'[c][o].stopped = up[c][o].stopped
            BY <2>0, <2>o, <2>1, <3>1 DEF Half
        <3>3. PingAt(c)'
            BY <2>0, <2>o, <2>2, <3>2 DEF PingAt
        <3>4. Healthy(c, o)'
            <4>1. up'[c][o].n <= size[c] /\ up'[c][o].n <= MAX_PING_BYTES
                BY <1>0, <2>0, <2>o, <2>1, <2>2, <3>2
            <4>2. ~(o > opened'[c])
                BY <1>0, <2>0, <2>o
            <4>3. ~up'[c][o].stopped
                BY <2>1, <3>2, Zenon DEF Healthy
            <4> QED
                BY <1>c, <2>0, <2>o, <2>1, <3>2, <4>1, <4>2, <4>3, Zenon DEF Healthy
        <3>5. ASSUME NEW s \in Streams, s # o PROVE Healthy(c, s)'
            <4>1. Healthy(c, s) /\ up'[c][s] = up[c][s]
                BY <1>b, <3>1, <3>5
            <4> QED
                BY <1>c, <2>0, <2>o, <4>1, Zenon DEF Healthy
        <3> QED
            BY <3>3, <3>4, <3>5
    <2>3. CASE up[c][o].n = size[c] /\ Goto(c, "finish") /\ UNCHANGED up
        <3>1. pc'[c] = "finish"
            BY <1>0, <2>3 DEF ProcessesOK, Goto
        <3> QED
            BY <1>b, <1>c, <2>0, <2>o, <2>1, <2>3, <3>1, Zenon DEF PingAt, Healthy
    <2> QED
        BY <1>3, <2>o, <2>2, <2>3 DEF WriteAll
<1>4. CASE Finish(c)
    <2>0. opened[c] \in Streams /\ opened' = opened /\ pc[c] = "finish" /\ pc'[c] = "read"
        BY <1>0, <1>4 DEF Types, ClientsOK, ProcessesOK, Pinging, Finish, Goto
    <2>o. PICK o \in Streams : o = opened[c]
        BY <2>0
    <2>1. PingAt(c)'
        BY <2>0, <2>o DEF PingAt
    <2>2. CASE up' = up
        BY <1>b, <1>c, <2>0, <2>o, <2>1, <2>2, Zenon DEF Healthy
    <2>3. CASE up' = [up EXCEPT ![c][o].end = "fin"]
        <3>1. up[c][o] \in Half(MAX_PING_BYTES + 1) /\ Healthy(c, o) /\ up[c][o].n = size[c]
            BY <1>0, <1>b, <2>0, <2>o, StreamTypes, Zenon DEF PingAt
        <3>2. \A s \in Streams : up'[c][s] = IF s = o THEN [up[c][o] EXCEPT !.end = "fin"] ELSE up[c][s]
            BY <1>0, <2>0, <2>o, <2>3 DEF StreamsOK
        <3>3. /\ up'[c][o].n = up[c][o].n /\ up'[c][o].end = "fin"
              /\ up'[c][o].stopped = up[c][o].stopped
            BY <2>0, <2>o, <3>1, <3>2 DEF Half
        <3>4. Healthy(c, o)'
            <4>1. ~(o > opened'[c])
                BY <1>0, <2>0, <2>o
            <4>2. ~up'[c][o].stopped
                BY <3>1, <3>3, Zenon DEF Healthy
            <4> QED
                BY <1>c, <2>0, <2>o, <3>1, <3>3, <4>1, <4>2, Zenon DEF Healthy
        <3>5. ASSUME NEW s \in Streams, s # o PROVE Healthy(c, s)'
            <4>1. Healthy(c, s) /\ up'[c][s] = up[c][s]
                BY <1>b, <3>2, <3>5
            <4> QED
                BY <1>c, <2>0, <2>o, <4>1, Zenon DEF Healthy
        <3> QED
            BY <2>1, <3>4, <3>5
    <2> QED
        BY <1>4, <2>o, <2>2, <2>3 DEF Finish
<1> QED
    BY <1>a, <1>1, <1>2, <1>3, <1>4, PingFailsWhenGone, Zenon DEF Client

\* The streams of the clients stay healthy.
LEMMA StreamInvNext ==
    ASSUME Types, StreamInv, TaskInv, Next
    PROVE  StreamInv'
<1> SUFFICES ASSUME NEW c \in Clients, near'[c] # "gone"
             PROVE  PingAt(c)' /\ \A s \in Streams : Healthy(c, s)'
    BY Zenon DEF StreamInv
<1>0. c \in Peers /\ StreamsOK
    BY Bounds DEF Types
<1>1. CASE Client(c) \/ Kill(c)
    BY <1>1, StreamsOfClient
<1>2. CASE AcceptBi(c)
    <2>1. PingAt(c) /\ \A s \in Streams : Healthy(c, s)
        BY <1>0, <1>2, AcceptBiStream DEF StreamInv
    <2>2. PingAt(c)'
        BY <1>0, <1>2, <2>1, AcceptBiStream DEF PingAt, client
    <2>3. ASSUME NEW s \in Streams PROVE Healthy(c, s)'
        <3>1. UNCHANGED <<up, down, opened, payload, size>> /\ Healthy(c, s)
            BY <1>0, <1>2, <2>1, AcceptBiStream DEF client
        <3>2. CASE s # accepted[c] + 1
            <4>1. tasks'[c][s] = tasks[c][s]
                BY <1>0, <1>2, <3>2, AcceptBiStream DEF StreamsOK
            <4> QED
                BY <3>1, <4>1, Zenon DEF Healthy
        <3>3. CASE s = accepted[c] + 1
            <4>1. tasks'[c][s] = "read"
                BY <1>0, <1>2, <3>3, AcceptBiStream DEF StreamsOK
            <4>2. accepted[c] \in Nat
                BY <1>0, Bounds DEF StreamsOK
            <4>3. s > accepted[c]
                BY <3>3, <4>2
            <4>4. tasks[c][s] = "none"
                BY <1>0, <4>3, Zenon DEF TaskInv
            <4> QED
                BY <3>1, <4>1, <4>4, Zenon DEF Healthy
        <3> QED
            BY <3>2, <3>3
    <2> QED
        BY <2>2, <2>3
<1>3. ASSUME NEW s \in Streams, EchoStream(c, s)
      PROVE  PingAt(c)' /\ \A r \in Streams : Healthy(c, r)'
    <2>1. UNCHANGED <<near, pc, size, opened>>
        BY <1>3 DEF EchoStream, ReadToEnd, ReadFails, EchoWrites, WriteFails, EchoFinishes, client, wire
    <2>2. PingAt(c) /\ \A r \in Streams : Healthy(c, r)
        BY <2>1 DEF StreamInv
    <2>3. pc[c] \in {"write", "finish"} => opened[c] \in Streams
        BY DEF Types, ClientsOK, Pinging
    <2>4. PingAt(c)'
        BY <1>0, <1>3, <2>1, <2>2, <2>3, EchoKeepsUp DEF PingAt
    <2> QED
        BY <1>3, <2>2, <2>4, HealthyEcho
<1>4. CASE Elsewhere(c)
    <2>1. PingAt(c) /\ \A s \in Streams : Healthy(c, s)
        BY <1>4 DEF StreamInv, Elsewhere
    <2>2. PingAt(c)'
        BY <1>4, <2>1, Zenon DEF Elsewhere, PingAt
    <2>3. ASSUME NEW s \in Streams PROVE Healthy(c, s)'
        <3>1. Healthy(c, s)
            BY <2>1
        <3> QED
            BY <1>4, <3>1, Zenon DEF Elsewhere, Healthy
    <2> QED
        BY <2>2, <2>3
<1> QED
    BY <1>1, <1>2, <1>3, <1>4, StepsForClient

\* No task starts before its stream is accepted, nor is started again.
LEMMA TaskInvNext ==
    ASSUME Types, TaskInv, Next
    PROVE  TaskInv'
<1> USE Bounds
<1>0. StreamsOK
    BY DEF Types
<1>1. CASE QuietStep
    BY <1>1, QuietStepIsQuiet DEF TaskInv
<1>2. CASE PeerStep
    <2>1. UNCHANGED <<accepted, tasks>>
        BY <1>2, Zenon DEF PeerStep, OpenBi, WriteAll, Finish, PingFails, OtherOpens, OtherWrites,
                    OtherStops, server
    <2> QED
        BY <2>1 DEF TaskInv
<1>3. ASSUME NEW p \in Peers, AcceptBi(p) PROVE TaskInv'
    <2> SUFFICES ASSUME NEW q \in Peers, NEW s \in Streams, s > accepted'[q]
                 PROVE  tasks'[q][s] = "none"
        BY DEF TaskInv
    <2>1. accepted[q] \in Nat /\ accepted[p] \in Nat
        BY <1>0 DEF StreamsOK
    <2>2. accepted'[q] = IF q = p THEN accepted[p] + 1 ELSE accepted[q]
        BY <1>0, <1>3, AcceptBiStream DEF StreamsOK
    <2>3. s > accepted[q] /\ (q = p => s # accepted[p] + 1)
        BY <2>1, <2>2 DEF Streams
    <2>4. tasks'[q][s] = tasks[q][s]
        BY <1>0, <1>3, <2>3, AcceptBiStream DEF StreamsOK
    <2> QED
        BY <2>3, <2>4 DEF TaskInv
<1>4. ASSUME NEW p \in Peers, NEW s \in Streams, EchoStream(p, s) PROVE TaskInv'
    <2>1. accepted' = accepted /\ tasks[p][s] # "none"
        BY <1>4 DEF EchoStream, ReadToEnd, ReadFails, EchoWrites, WriteFails, EchoFinishes
    <2>2. \A q \in Peers, r \in Streams : <<q, r>> # <<p, s>> => tasks'[q][r] = tasks[q][r]
        BY <1>0, <1>4 DEF StreamsOK, EchoStream, ReadToEnd, ReadFails, EchoWrites, WriteFails,
                          EchoFinishes, Task
    <2> QED
        BY <2>1, <2>2 DEF TaskInv
<1> QED
    BY <1>1, <1>2, <1>3, <1>4, StepKinds DEF TaskStep

\* A client counts a loss only once its connection is gone, for good.
LEMMA LostNext ==
    ASSUME Types, StreamInv, LostOnlyWithConnection, Next
    PROVE  LostOnlyWithConnection'
<1> SUFFICES ASSUME NEW c \in Clients, lost'[c] > 0 PROVE near'[c] = "gone"
    BY DEF LostOnlyWithConnection
<1>0. lost[c] > 0 => near[c] = "gone"
    BY DEF LostOnlyWithConnection
<1>1. CASE Elsewhere(c)
    BY <1>0, <1>1 DEF Elsewhere
<1>2. CASE AcceptBi(c) \/ \E s \in Streams : EchoStream(c, s)
    <2>1. UNCHANGED <<lost, near>>
        BY <1>2, Zenon DEF AcceptBi, EchoStream, ReadToEnd, ReadFails, EchoWrites, WriteFails, EchoFinishes,
                    client, wire
    <2> QED
        BY <1>0, <2>1
<1>3. CASE PingFails(c)
    BY <1>3, PingFailsWhenGone, Zenon DEF PingFails
<1>4. CASE Start(c)
    BY <1>4 DEF Start, Types, ClientsOK
<1>5. CASE Kill(c) \/ CloseConnection(c)
    BY <1>5, Bounds DEF Kill, CloseConnection, Types, ProcessesOK
<1>6. CASE \/ StartFails(c) \/ Connected(c) \/ ConnectFails(c) \/ NextPing(c) \/ OpenBi(c)
           \/ WriteAll(c) \/ Finish(c) \/ PingOk(c) \/ Summary(c)
    BY <1>0, <1>6 DEF StartFails, Connected, ConnectFails, NextPing, OpenBi, WriteAll, Finish,
                      PingOk, Summary, wire
<1> QED
    BY <1>1, <1>2, <1>3, <1>4, <1>5, <1>6, StepsForClient, Zenon DEF Client

-----------------------------------------------------------------------------
(* The counts of a client.                                                 *)

\* The server leaves alone the stream of a task that has ended.
LEMMA EndedIsLeft ==
    ASSUME Types, TaskInv, NEW c \in Clients, AcceptBi(c) \/ \E q \in Streams : EchoStream(c, q),
           NEW s \in Streams, tasks[c][s] = "ended"
    PROVE  tasks'[c][s] = "ended" /\ down'[c][s] = down[c][s]
<1>0. c \in Peers /\ StreamsOK
    BY Bounds DEF Types
<1>1. CASE AcceptBi(c)
    <2>1. accepted[c] \in Nat
        BY <1>0, Bounds DEF StreamsOK
    <2>2. s # accepted[c] + 1
        BY <1>0, <2>1 DEF TaskInv
    <2> QED
        BY <1>0, <1>1, <2>2, AcceptBiStream DEF StreamsOK
<1>2. ASSUME NEW r \in Streams, EchoStream(c, r) PROVE tasks'[c][s] = "ended" /\ down'[c][s] = down[c][s]
    <2>1. r # s
        BY <1>2, Zenon DEF EchoStream, ReadToEnd, ReadFails, EchoWrites, WriteFails, EchoFinishes
    <2> QED
        BY <1>0, <1>2, <2>1, EchoLeavesOthers
<1> QED
    BY <1>1, <1>2

\* A client never takes back what the server has written, and goes on to
\* another stream only by opening it.
LEMMA ClientKeepsEchoes ==
    ASSUME Types, NEW c \in Clients, Client(c) \/ Kill(c), NEW s \in Streams
    PROVE  /\ size'[c] = size[c] /\ tasks' = tasks
           /\ down'[c][s].n = down[c][s].n /\ down'[c][s].end = down[c][s].end
           /\ \/ opened'[c] = opened[c] /\ (pc'[c] \in Pinging => pc[c] \in Pinging)
              \/ opened'[c] = opened[c] + 1 /\ pc[c] \notin Pinging
<1>0. c \in Peers /\ StreamsOK /\ ProcessesOK
    BY Bounds DEF Types
<1>1. UNCHANGED <<size, tasks>>
    BY Zenon DEF Client, Start, StartFails, Connected, ConnectFails, NextPing, OpenBi,
        WriteAll, Finish, PingOk,
        PingFails, CloseConnection, Summary, Kill, server
<1>2. down'[c][s].n = down[c][s].n /\ down'[c][s].end = down[c][s].end
    <2>1. down' = down \/ down' = [down EXCEPT ![c][opened[c]].stopped = TRUE]
        BY Zenon DEF Client, Start, StartFails, Connected, ConnectFails, NextPing, OpenBi,
        WriteAll, Finish, PingOk,
            PingFails, CloseConnection, Summary, Kill, wire
    <2>2. CASE down' = [down EXCEPT ![c][opened[c]].stopped = TRUE]
        <3>1. /\ down[c][s] \in Half(MAX_PING_BYTES)
              /\ down'[c][s] = IF s = opened[c] THEN [down[c][s] EXCEPT !.stopped = TRUE] ELSE down[c][s]
            BY <1>0, <2>2, Zenon DEF StreamsOK
        <3> QED
            BY <3>1 DEF Half
    <2> QED
        BY <2>1, <2>2
<1>3. CASE OpenBi(c)
    BY <1>0, <1>1, <1>2, <1>3, Zenon DEF StreamsOK, OpenBi, Pinging
<1>4. CASE \/ Start(c) \/ StartFails(c) \/ Connected(c) \/ ConnectFails(c) \/ NextPing(c)
           \/ WriteAll(c) \/ Finish(c) \/ PingOk(c) \/ PingFails(c) \/ CloseConnection(c)
           \/ Summary(c) \/ Kill(c)
    <2>1. opened' = opened
        BY <1>4, Zenon DEF Start, StartFails, Connected, ConnectFails, NextPing, WriteAll,
            Finish, PingOk, PingFails, CloseConnection, Summary, Kill, wire
    <2>2. \/ pc' = pc
          \/ pc[c] \in Pinging
          \/ \E l \in {"connect", "exited", "loop", "open", "wait_idle", "done", "killed"} :
                pc' = [pc EXCEPT ![c] = l]
        BY <1>4, Zenon DEF Start, StartFails, Connected, ConnectFails, NextPing, WriteAll,
            Finish, PingOk, PingFails, CloseConnection, Summary, Kill, Goto, Pinging
    <2>3. pc'[c] \in Pinging => pc[c] \in Pinging
        BY <1>0, <2>2 DEF ProcessesOK, Pinging
    <2> QED
        BY <1>1, <1>2, <2>1, <2>3, Zenon
<1> QED
    BY <1>3, <1>4, Zenon DEF Client

\* What has been echoed in full stays so.
LEMMA AnsweredGrows ==
    ASSUME Types, TaskInv, Next, NEW c \in Clients
    PROVE  Answered(c) \subseteq Answered(c)'
<1> SUFFICES ASSUME NEW s \in Streams, s <= opened[c], pc[c] \in Pinging => s # opened[c],
                    tasks[c][s] = "ended", down[c][s].n = size[c], down[c][s].end = "fin"
             PROVE  /\ s <= opened'[c] /\ (pc'[c] \in Pinging => s # opened'[c])
                    /\ tasks'[c][s] = "ended" /\ down'[c][s].n = size'[c] /\ down'[c][s].end = "fin"
    BY Zenon DEF Answered
<1>1. CASE Elsewhere(c)
    BY <1>1, Zenon DEF Elsewhere
<1>2. CASE AcceptBi(c) \/ \E q \in Streams : EchoStream(c, q)
    <2>1. UNCHANGED <<opened, pc, size>>
        BY <1>2, Zenon DEF AcceptBi, EchoStream, ReadToEnd, ReadFails, EchoWrites, WriteFails, EchoFinishes,
                    client, wire
    <2> QED
        BY <1>2, <2>1, EndedIsLeft, Zenon
<1>3. CASE Client(c) \/ Kill(c)
    <2>1. s \in Nat /\ opened[c] \in Nat
        BY Bounds DEF Streams, Types, StreamsOK
    <2>2. /\ size'[c] = size[c] /\ tasks' = tasks
          /\ down'[c][s].n = down[c][s].n /\ down'[c][s].end = down[c][s].end
          /\ \/ opened'[c] = opened[c] /\ (pc'[c] \in Pinging => pc[c] \in Pinging)
             \/ opened'[c] = opened[c] + 1 /\ pc[c] \notin Pinging
        BY <1>3, ClientKeepsEchoes, Zenon
    <2>3. s <= opened[c] + 1 /\ s # opened[c] + 1
        BY <2>1, Ordered, Zenon
    <2>4. s <= opened'[c] /\ (pc'[c] \in Pinging => s # opened'[c])
        BY <2>2, <2>3, Zenon
    <2> QED
        BY <2>2, <2>4, Zenon
<1> QED
    BY <1>1, <1>2, <1>3, StepsForClient, Zenon

\* Finite sets of streams: a larger one has as many members at least.
LEMMA StreamsFinite ==
    ASSUME NEW S \in SUBSET Streams, NEW T \in SUBSET Streams, S \subseteq T
    PROVE  /\ IsFiniteSet(T) /\ Cardinality(S) \in Nat /\ Cardinality(T) \in Nat
           /\ Cardinality(S) <= Cardinality(T)
           /\ S # T => Cardinality(S) < Cardinality(T)
<1>1. IsFiniteSet(Streams)
    BY Bounds, FS_Interval DEF Streams
<1>2. IsFiniteSet(S) /\ IsFiniteSet(T)
    BY <1>1, FS_Subset
<1> QED
    BY <1>2, FS_Subset, FS_CardinalityType

\* A client's counts add up, and each ping that was Ok has its stream.
LEMMA CountInvNext ==
    ASSUME Types, StreamInv, TaskInv, CountInv, Next
    PROVE  CountInv'
<1> SUFFICES ASSUME NEW c \in Clients
             PROVE  seq'[c] = rtts'[c] + lost'[c] /\ rtts'[c] <= Cardinality(Answered(c)')
    BY DEF CountInv
<1>0. /\ seq[c] = rtts[c] + lost[c] /\ rtts[c] <= Cardinality(Answered(c))
      /\ rtts[c] \in Nat /\ lost[c] \in Nat /\ ProcessesOK /\ StreamsOK /\ c \in Peers
    BY Bounds DEF CountInv, Types, ProcessesOK
<1>1. Answered(c) \in SUBSET Streams /\ Answered(c)' \in SUBSET Streams
    BY Zenon DEF Answered
<1>2. /\ Cardinality(Answered(c)) \in Nat /\ Cardinality(Answered(c)') \in Nat
      /\ Cardinality(Answered(c)) <= Cardinality(Answered(c)')
      /\ Answered(c) # Answered(c)' => Cardinality(Answered(c)) < Cardinality(Answered(c)')
    BY <1>1, AnsweredGrows, StreamsFinite
<1>3. CASE UNCHANGED <<rtts, lost, seq>> \/ Elsewhere(c)
    BY <1>0, <1>2, <1>3 DEF Elsewhere
<1>4. CASE PingFails(c)
    BY <1>0, <1>2, <1>4 DEF PingFails, ProcessesOK
<1>5. CASE PingOk(c)
    <2>1. opened[c] \in Streams /\ pc[c] \in Pinging
        BY <1>5 DEF PingOk, Types, ClientsOK, Pinging
    <2>2. Healthy(c, opened[c])
        BY <1>5, <2>1 DEF StreamInv, PingOk
    <2>3. down[c][opened[c]].end = "fin" /\ down[c][opened[c]].n = size[c]
        BY <1>5 DEF PingOk, Echoed
    <2>4. tasks[c][opened[c]] = "ended"
        BY <2>2, <2>3, Zenon DEF Healthy
    <2>5. pc'[c] \notin Pinging /\ UNCHANGED <<opened, down, tasks, size>>
        BY <1>0, <1>5 DEF ProcessesOK, PingOk, Goto, Pinging, server, wire
    <2>6. opened[c] \in Nat
        BY <2>1 DEF Streams
    <2>7. opened[c] \in Answered(c)' /\ opened[c] \notin Answered(c)
        <3>1. opened[c] <= opened[c]
            BY <2>6
        <3> QED
            BY <2>1, <2>3, <2>4, <2>5, <3>1, Zenon DEF Answered
    <2>8. /\ rtts'[c] = rtts[c] + 1 /\ seq'[c] = seq[c] + 1 /\ lost'[c] = lost[c]
        BY <1>0, <1>5 DEF PingOk, ProcessesOK
    <2> QED
        BY <1>0, <1>2, <2>7, <2>8
<1>6. CASE \/ Start(c) \/ StartFails(c) \/ Connected(c) \/ ConnectFails(c) \/ NextPing(c)
           \/ OpenBi(c) \/ WriteAll(c) \/ Finish(c) \/ CloseConnection(c) \/ Summary(c) \/ Kill(c)
    <2>1. UNCHANGED <<rtts, lost, seq>>
        BY <1>6 DEF Start, StartFails, Connected, ConnectFails, NextPing, OpenBi, WriteAll, Finish,
            CloseConnection, Summary, Kill
    <2> QED
        BY <1>3, <2>1
<1>7. CASE AcceptBi(c) \/ \E s \in Streams : EchoStream(c, s)
    <2>1. UNCHANGED <<rtts, lost, seq>>
        BY <1>7, Zenon DEF AcceptBi, EchoStream, ReadToEnd, ReadFails, EchoWrites, WriteFails,
                    EchoFinishes, client
    <2> QED
        BY <1>3, <2>1
<1> QED
    BY <1>3, <1>4, <1>5, <1>6, <1>7, StepsForClient, Zenon DEF Client

-----------------------------------------------------------------------------
(* The theorems.                                                           *)

\* The invariant holds at the start.
LEMMA InvInit ==
    Init => Inv
<1> SUFFICES ASSUME Init PROVE Inv
    OBVIOUS
<1> USE Bounds
<1>1. NewHalf \in Half(MAX_PING_BYTES) /\ NewHalf \in Half(MAX_PING_BYTES + 1)
    BY DEF NewHalf, Half
<1>2. StreamsOK
    BY <1>1 DEF Init, StreamsOK, Labels
<1>3. ProcessesOK /\ ClientsOK /\ CreditOK
    BY DEF Init, ProcessesOK, ClientsOK, CreditOK, Pinging
<1>4. TaskInv /\ LostOnlyWithConnection
    BY DEF Init, TaskInv, LostOnlyWithConnection
<1>5. StreamInv
    <2> SUFFICES ASSUME NEW c \in Clients PROVE PingAt(c) /\ \A s \in Streams : Healthy(c, s)
        BY DEF StreamInv
    <2>1. pc[c] = "start" /\ size[c] \in Nat
        BY Zenon DEF Init
    <2>2. ASSUME NEW s \in Streams PROVE Healthy(c, s)
        <3>1. up[c][s] = NewHalf /\ down[c][s] = NewHalf /\ tasks[c][s] = "none"
            BY DEF Init
        <3>2. NewHalf.n = 0 /\ NewHalf.end = "no" /\ ~NewHalf.stopped
            BY DEF NewHalf
        <3> QED
            BY <2>1, <3>1, <3>2 DEF Healthy
    <2> QED
        BY <2>1, <2>2 DEF PingAt
<1>6. CountInv
    <2> SUFFICES ASSUME NEW c \in Clients
                 PROVE  seq[c] = rtts[c] + lost[c] /\ rtts[c] <= Cardinality(Answered(c))
        BY DEF CountInv
    <2>1. seq[c] = 0 /\ rtts[c] = 0 /\ lost[c] = 0
        BY DEF Init
    <2>2. Answered(c) \in SUBSET Streams
        BY DEF Answered
    <2>3. Cardinality(Answered(c)) \in Nat
        BY <2>2, StreamsFinite
    <2> QED
        BY <2>1, <2>3
<1> QED
    BY <1>2, <1>3, <1>4, <1>5, <1>6 DEF Inv, Types

\* And after every step.
LEMMA InvNext ==
    Inv /\ [Next]_vars => Inv'
<1> SUFFICES ASSUME Inv, [Next]_vars PROVE Inv'
    OBVIOUS
<1>1. CASE Next
    BY <1>1, StreamsOKNext, CreditOKNext, ProcessesOKNext, ClientsOKNext, StreamInvNext, TaskInvNext, LostNext,
       CountInvNext DEF Inv, Types
<1>2. CASE UNCHANGED vars
    <2> USE <1>2 DEF vars, client, server, wire, credit
    <2>1. Types'
        BY Zenon DEF Inv, Types, StreamsOK, CreditOK, ProcessesOK, ClientsOK
    <2>2. \A c \in Clients : Answered(c)' = Answered(c)
        BY Zenon DEF Answered
    <2>3. \A c \in Clients : PingAt(c) => PingAt(c)'
        BY DEF PingAt
    <2>4. ASSUME NEW c \in Clients, NEW s \in Streams, Healthy(c, s) PROVE Healthy(c, s)'
        <3>1. UNCHANGED <<up, down, tasks, payload, size, opened>>
            OBVIOUS
        <3> QED
            BY ONLY <2>4, <3>1, Zenon DEF Healthy
    <2>5. StreamInv'
        BY <2>3, <2>4 DEF Inv, StreamInv
    <2>6. TaskInv' /\ LostOnlyWithConnection'
        BY Zenon DEF Inv, TaskInv, LostOnlyWithConnection
    <2>7. CountInv'
        BY <2>2 DEF Inv, CountInv
    <2> QED
        BY <2>1, <2>5, <2>6, <2>7 DEF Inv
<1> QED
    BY <1>1, <1>2

\* The whole invariant, always.
LEMMA InvAlways ==
    Spec => []Inv
BY InvInit, InvNext, PTL DEF Spec

\* echo_stream never holds more than MAX_PING_BYTES of a stream nor writes more
\* than that back, whatever its peer sends: TypeOK always holds.
THEOREM TypesHold ==
    Spec => []TypeOK
<1>1. Inv => TypeOK
    BY TypesSplit DEF Inv
<1> QED
    BY <1>1, InvAlways, PTL

\* A ping of client.rs is lost only when its connection is gone, whatever other
\* peers do on theirs.
THEOREM PingsAreEchoed ==
    Spec => []LostOnlyWithConnection
<1>1. Inv => LostOnlyWithConnection
    BY DEF Inv
<1> QED
    BY <1>1, InvAlways, PTL

\* The client's summary adds up, and every round trip it reports is a payload
\* that a task of the server has written back in full.
THEOREM SummaryAddsUp ==
    Spec => []PingsAddUp
<1>1. Inv => PingsAddUp
    <2> SUFFICES ASSUME Inv, NEW c \in Clients
                 PROVE  /\ seq[c] = rtts[c] + lost[c]
                        /\ rtts[c] <= Cardinality({s \in Streams :
                              tasks[c][s] = "ended" /\ down[c][s].n = size[c] /\ down[c][s].end = "fin"})
        BY Zenon DEF PingsAddUp
    <2> DEFINE T == {s \in Streams :
                       tasks[c][s] = "ended" /\ down[c][s].n = size[c] /\ down[c][s].end = "fin"}
    <2>1. Answered(c) \in SUBSET Streams /\ T \in SUBSET Streams /\ Answered(c) \subseteq T
        BY Zenon DEF Answered
    <2>2. seq[c] = rtts[c] + lost[c] /\ rtts[c] <= Cardinality(Answered(c)) /\ rtts[c] \in Nat
        BY DEF Inv, CountInv, Types, ProcessesOK
    <2> HIDE DEF T
    <2>3. /\ Cardinality(Answered(c)) \in Nat /\ Cardinality(T) \in Nat
          /\ Cardinality(Answered(c)) <= Cardinality(T)
        BY <2>1, StreamsFinite
    <2>5. rtts[c] <= Cardinality(T)
        BY <2>2, <2>3, Ordered, Zenon
    <2> QED
        BY <2>2, <2>5 DEF T
<1> QED
    BY <1>1, InvAlways, PTL

=============================================================================
