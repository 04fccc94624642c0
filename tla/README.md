# pktauth in TLA+

TLA+ specifications of pktauth: QUIC packet authentication in the connection
ID, checked at the socket before Quinn parses a datagram. The modules are
model-checked with TLC on small instances, and the most important properties are
proved with TLAPS for every value of the constants.

Paths such as `socket.rs:161` are relative to the crate's `src/`.

## 1. The system

| Part | Source | State | Operations that change it |
|---|---|---|---|
| Tokens | `auth.rs` | none (a nonce is drawn at each mint) | `mint`, `mint_between`, `verify` |
| Parser, `Authenticator` | `auth.rs` | direction, local address (fixed) | `destination_cid`, `check` |
| Connection ID generators | `auth.rs` | direction, local address (fixed) | `generate_cid`, `generate_cid_for`, `initial_dst_cid_provider` |
| Receive path | `socket.rs` | `filled`, `bufs`, `meta`, the waker | `poll_recv` |
| Send path | `socket.rs` | each sender's `writable` future | `poll_send`, `try_send`, `send_datagram` |
| Counters | `socket.rs` | five `AtomicU64` | the two paths; `counts` reads them |
| Endpoints, TLS | `lib.rs` | configuration | `server_endpoint`, `client_endpoint` |
| Ping protocol | `lib.rs` | streams of a connection, spawned tasks | `run_echo_server`, `serve_connection`, `echo_stream`, `ping` |
| Client, server | `bin/client.rs`, `bin/server.rs` | `seq`, `rtts`, `lost`; shutdown | the ping loop; `select!` on Ctrl-C |
| Load generator | `bin/blaster.rs` | stop flag, statistics | `blast`, `main`, `report` |

How they interact. Quinn's endpoint driver, one task, calls `poll_recv` of the
one socket of an endpoint. `poll_recv` reads datagrams, asks `Authenticator`
about each, and gives Quinn those that pass. Each Quinn task that sends has a
`PacketSender` of its own, all over the same socket. The connection IDs that the
peer puts on its packets were minted by this side's generator, except the first
one, which the client mints with `initial_dst_cid_provider`; so what one side
mints is what it will later check. The application holds a clone of the socket
and reads its counters at any time.

What is hard here: a slot is used again after a rejection; errors come in the
middle of a batch; readiness is cleared, signalled and waited for by different
parties; several senders wait on one socket; the counters are read while they
are written; the parser works at the limits of its slices; a token is right
for one direction of one path only, while addresses change and servers restart
under running connections; and the load generator stops threads that sleep or are
in the middle of counting. `PROJECT.json` lists these hazards with the
line where each bites.

What makes it correct: Quinn sees exactly the datagrams that carry a token minted
for the path they took, once, unchanged and in order; the counters say what
became of every datagram; nothing that can make progress sleeps; and a
connection whose tokens no longer fit its path ends.

## 2. The modules

| Module | Models |
|---|---|
| `Auth` | The functions of `auth.rs` as operators, with the source's names |
| `TokenLife` | Minting, alteration, transport and check of one token |
| `AuthFilter` | What the receive path promises, in four actions |
| `RecvPath` | `poll_recv` and `counts`, among kernel, tokio and Quinn; implements `AuthFilter` |
| `SendPath` | `poll_send`, `try_send`, `send_datagram` for several senders |
| `Echo` | The client's and the server's `main`, the echo server and `ping`, over Quinn's streams |
| `Connection` | Clients and a server, with `Auth`'s tokens, the two endpoints' generators and authenticators and the transport configuration, over a network |
| `Blaster` | The load generator: `main`, `blast` and `report` |
| `AuthProofs`, `TokenLifeProofs`, `RecvPathProofs`, `RecvFilterProofs`, `SendPathProofs`, `EchoProofs`, `ConnectionProofs`, `BlasterProofs` | Theorems |
| `MCTokenLife`, `MCRecvPath`, `MCSendPath`, `MCEcho`, `MCConnection`, `MCBlaster` | Instances for TLC |

**Auth.** A connection ID is a record of its length and its three fields. The
cipher is the constant operator `Trunc80AES`, of which `TagAssumption` asks only
that tags of different keys or messages differ: a coincidence of 80-bit tags is
outside the model, and so is the secrecy of the keys (the source says they are
none). A datagram is its length, its header form bit, the byte at offset 5 and the
token fields at the offset the form gives; `HasDestinationCid` does the parser's
arithmetic on lengths. Only the first packet of a datagram is examined, as in
the code; packets coalesced behind it are not in the model. No packet has
0.0.0.0 as its source (`AddrAssumption`), which is what makes tokens minted for
`UNSPECIFIED` useless.

**TokenLife.** One token is minted by any of the three functions, possibly altered
in one field, put in a datagram of any header form and length, and checked by
any authenticator. An altered tag is one that no key gives to the token's nonce
(otherwise the alteration would have produced another genuine token by
guessing it).

**RecvPath.** `pc` is where the endpoint driver is: `woken` (Quinn is about to
call), `top` (the loop), `recv` (the while loop), `bytes` and `check` (a datagram
has been read, and counted once or twice), `parked` (`Pending`) and `failed` (an
error was returned). Reading a datagram and counting it in `received` are one step,
its bytes and its rejection are counted in steps of their own, and so is each load of
`counts`. Joining the first two hides nothing from `counts`: a load between them sees
what one before the read sees.
A datagram longer than Quinn's buffer is cut by the kernel; `Packets` are what
is left. External and modelled from their use: the receive queue and the
pending socket error; tokio, as an event to process, a readiness flag, and a
waker (its tick makes WouldBlock and clearing the flag one step); Quinn, which
polls after each wake-up and after each `Ready(Ok)`. An error other than a
transient one that comes when a slot is filled is dropped, as in the code.
`lost` and `handed` are history variables. The fetch_adds of `poll_recv` are
taken in program order, the relaxed loads of `counts` in any order.
`counts` also loads the two send counters, which `poll_recv` does not touch;
they are left out here.

**AuthFilter.** The datagrams that have reached the socket, those delivered, the
number rejected, and whether the socket has failed. In the refinement mapping a
datagram being examined is still inbound and a filled slot is delivered. The
refinement is of `poll_recv` called with a `RecvMeta` for each buffer, as Quinn
calls it.

**SendPath.** Each sender's task is `idle`, at the `top` of the loop, about to
`send`, between a write and its two counters (`sent`, `sent_bytes`), `parked`,
`woken` or `failed`. A future that has been notified is Ready even if the
readiness has been cleared since. External: the send buffer, the reactor, and
Quinn, which gives each sender one transmit at a time, of one or more segments
(`segments`; Quinn passes only one, but `try_send` splits any), and may drop a sender that
is waiting. An epoll event is raised whenever the buffer drains.

**Echo.** `pc` is where a client's `main` is (`open`, `write`, `finish` and `read`
are the awaits of `ping`), `main` where the server's is, `conns` where the task of
each connection is and `tasks` that of each stream; an await is a step that is
enabled when what it awaits has happened. External: Quinn. A connection has two
sides, `near` at the peer and `far` at the server, which learn of its end at
different times: when told, by the idle timeout (`Disconnect`), or never as long
as both keep it alive. A stream is two halves, each the number of bytes written,
how it was ended and whether its reader stopped it; dropping a half ends it as
Quinn's `Drop` does. `Others` are peers that use their streams in any way, or
not at all, beside the clients of this crate. The server writes to one of them only
as far as its flow control allows (`HasCredit`): such a peer grants credit, for a stream
(`granted`) or for the whole connection (`window`, which the echoes on all its streams
use up), when it likes (`OtherGrants`), so that `write_all` may wait for ever. A client's
credit is never the limit: `transport_config` leaves Quinn's windows as they are,
1.25 MB for a stream and unlimited for the connection, and an echo has at most
64 KiB. `ping_payload` is left out: the
bytes echoed are the bytes read, and what can differ is their number. A client can be killed
and a server stopped at any point. The transport below is taken as a working one;
what `PacketSocket` does to datagrams is the subject of the other modules.

**Connection.** `client` and `conns` are the two ends of each client's connection:
the client's state, the certificate it trusts and the connection ID it sends with;
the server's remote address for it, its own connection ID and the client's. The
connection IDs come from `Auth`'s `generate_cid_for` and `initial_dst_cid_provider`
with the directions and addresses of `server_endpoint` and `client_endpoint`, and
every packet goes through `Auth`'s `check` with the authenticator of the socket it
reaches. What the receive path does with the verdict is `RecvPath`'s subject; here
it is one step. Addresses have a port, which no tag covers. A client may move to
another port or IP, the server may restart with or without a farewell, packets are
lost, late or reordered. Time is counted in keep-alive intervals, and timers need
not be prompt: what has not arrived when an interval ends counts as a fault.
A stateless reset has random bytes where the token would be; `RandomCid` gives them the
selector the client asks for, so that they pass all but the test of the tag, which
`RandomAssumption` says they do not meet by chance.
External: Quinn's routing by connection ID, its refusal to migrate, stateless
resets, retransmission of the Initial, and its timers. `cid_lifetime` is `None`, so
Quinn does not rotate connection IDs by age; the further ones it issues at the start
are minted like the first and are represented by it.

**Blaster.** `main` and `worker` are where `main` is, `pc` where each thread is: a
system call, an atomic operation or a wait is a step. `taken` and `refused` are what
the sockets really did; the three statistics are added one by one after it. Time is in
seconds, and passes while `main` waits in its `select!` or for a sleeping
thread. Of the template only the arithmetic of its length is modelled. The reporter
keeps one of its two loads, since it treats the other alike.

## 3. The runs

Mutants are small changes to the mapped definitions, kept next to them and named
`Bug...`; each property is broken by the one listed for it in `PROJECT.json`.

| Run | Properties | Instance | Distinct states |
|---|---|---|---|
| `token_life` | `TypeOK`, `AcceptsExactlyWhatWasMinted` | 2 IPv4, 1 IPv6, 2 nonces, lengths on both sides of every limit | 227,142 |
| `recv_safety` | `TypeOK`, `OnlyAuthentic`, `Accounted`, `NothingLost`, `NoLostWakeup` | 6 kinds of packet, 3 buffers and 2 `RecvMeta`, 4 arrivals, 1 error, counters modulo 3 | 487,148 |
| `recv_live` | `NothingLost`, `ImplementsFilter`, `ImplementsFairFilter`, `EverythingIsRead`, `SlotsAreHandedOver`, `CountsNeverGoBack` | 2 kinds of packet, 2 buffers with a `RecvMeta` each, 2 transient errors, 2 calls of `counts`, no wrap | 272,316 |
| `recv_torn` | `RejectedAreReceived` (violated) | 1 call of `counts` | |
| `recv_flood` | `SlotsAreHandedOver` (violated) | one accepted packet among endless rejected ones | |
| `send_safety` | `TypeOK`, `CountersMatchWire`, `OkMeansWritten`, `OnceAndInOrder`, `NoLostWakeup`, `EveryTransmitEnds` | 2 senders, 2 transmits each, of 1 or 2 segments, buffer of 1, at most 3 datagrams before one of a split transmit, 1 error | 1,122,303 |
| `echo_streams` | `TypeOK`, `StreamsAreAnswered` | 1 other peer, 2 streams used in any way, credit granted byte by byte or not, limit 1 | 954,165 |
| `echo_client` | `LostOnlyWithConnection`, `PingsAddUp`, `EveryClientEnds`, `ShutdownEnds`, `IncomingAreAccepted` | 1 client, 2 pings, sizes below, at and beyond the limit, beside 1 peer that may never close | 87,826 |
| `echo_silent` | `FailuresAreSilent` (violated) | a client that goes away | |
| `connection` | `TypeOK`, `RefusedForCause`, `OpenWhereBound`, `TimedOutForCause`, `HalfOpenEnds` | 1 client, 2 IPs, one of them with 2 ports, 2 moves, 1 restart, 2 faults, a timeout of 3 intervals | 181,572 |
| `blaster` | `TypeOK`, `SummaryIsExact`, `ReportsFitSummary`, `RateIsKept`, `EveryRunEnds` | 2 threads, 2 batches of 2, rates 0 and 2, 1 failing send, a duration of 1 | 802,298 |
| `blaster_sizes` | `NeverPanics` (violated) | sizes on both sides of every limit | |

Why the bounds are enough. Two slots are the least with a slot that is filled
while another is used again, and with a batch that ends partly filled; four
arrivals fill both slots around two rejections. A queue of two or three lets
`poll_recv` find it empty, partly read and full. One error can come at every
point of a batch; two show that the readiness survives the first. Small counters
wrap in `recv_safety`, which does not compare them; `recv_live` and
`recv_torn`, which do, use a width that is not reached. Two senders
and a buffer of one make each find the buffer full, and the readiness cleared,
because of the other. `MaxDatagrams` bounds the number of datagrams written: a
split transmit that blocks after its first datagram is sent again from the start, so
the number has no bound of its own. Three are the least with which one that has been sent
again is completed.
In `Echo`, two pings let the connection end during the first and the
loop go on; two streams let one be left unfinished, or without credit, while the other
is echoed, and share a connection's credit that is enough for one of them; and
a client beside a peer that holds on to its connection shows whether one is
served at the expense of the other. In `Connection`, a client may start at the IP it
has bound or elsewhere, move to another port, to another IP and back; two faults are
the fewest that can end a connection whose timeout is three intervals, so that both
sides of `TimedOutForCause` occur. `MaxAccepts` is never reached. There
is one client, because two exceed what TLC can do with the liveness; clients share
only the clock, restarts and the addresses one leaves to the other, and the proofs
are for any number of them. In `Blaster`, two threads are the least with one that is
joined while the other runs, two batches the least with a look at the flag between
them, and the deadline falls before, in and after each.

Deadlock is not checked: all these systems may stop, a token when it has been
checked, a path when its bounds are used up or its socket has failed, `Echo`
when the processes have ended, `Connection` when its faults are used up, and
`Blaster` when its process has exited or its threads' batches are used up.

Fairness. `FairSpec` of `RecvPath` has weak fairness of the reactor and of the
driver's own steps: tokio's I/O thread keeps turning, and a task that is awake
is polled, which is what the multi-threaded runtime of `#[tokio::main]` does.
Nothing is assumed of arrivals, errors, other wake-ups or the shutdown of the
runtime. `recv_live` leaves out fatal errors and shutdown, after which
`poll_recv` is not called again. `FairSpec` of `SendPath` adds that the
interface drains the send buffer. A sender could be starved by others that
fill the buffer for ever; the bound on transmits leaves that out. `FairSpec` of
`Echo` has weak fairness of each client, of the server's `main` and each of its
tasks (the same runtime), and of the progress of handshakes and the news that a
connection has ended, which Quinn's retransmissions and idle timeout give.
`Accept` is fair to each peer, since Quinn's accept queue is first in, first out.
Nothing is assumed of the other peers, of the credit they grant, of Ctrl-C, of kills or
of disconnections. So `StreamsAreAnswered` has a condition, that the stream is not
`Starved` from some time on: its echo may wait for credit, but again and again it has some. Without
it TLC shows a peer that ends its stream and grants nothing, whose task waits
until the connection ends. The condition is about the one stream, and the conclusion holds
whatever the credit of the others. One stream cannot use up the connection's
credit for ever, since what it may echo is bounded.
`FairSpec` of `Connection` has weak fairness of the clock, of Quinn's idle timers and
of the delivery of what is not lost; of moves, restarts and losses nothing is
assumed. `FairSpec` of `Blaster` has weak fairness of the clock, of `main` and of each
thread, which the operating system schedules; of the reporter nothing is assumed.

### Where the code and its documentation differ

* `recv_torn`: "`received` counts every datagram read off the wire, including the
  `rejected` ones" (`socket.rs:40`), but a snapshot can have more rejected than
  received: `counts` loads `received`, `poll_recv` reads and rejects a datagram,
  `counts` loads `rejected`.
* `recv_flood`: datagrams without a valid tag "must not disturb a healthy
  connection" (`tests/echo.rs:188`), but `poll_recv` reads them without limit
  in one call, and what it has accepted waits in its slot until the queue is
  empty or all the slots are filled.
* `echo_silent`: "Failures are dropped rather than reported" (`lib.rs:229`), and
  nothing that a peer can provoke should print, but `serve_connection` prints a
  line for every stream that fails (`lib.rs:260`), for example when a client
  goes away in the middle of a ping.
* `blaster_sizes`: "the length field must fit a 2-byte varint, which {size}-byte
  datagrams satisfy" (`blaster.rs:121`), but sizes from 16434 to 65535 pass the checks
  before it and do not: the program panics where it should return the error of
  line 118.

Two more, without a run:

* `--pps` is "Packets per second across all threads" (`blaster.rs:60`), but each
  thread sends at least one a second, so a rate below the number of threads is
  exceeded; `RateIsKept` leaves that case out.
* The comment at `lib.rs:114` says that a peer that migrates stops authenticating.
  That is so when its IP changes. The tag covers no port, so after a change of port the
  socket still accepts its packets, and it is `migration(false)` that stalls it. In both
  cases, and after a restart, a client learns of the end only by its idle timeout:
  its socket refuses stateless resets (`RefusedForCause`), which carry no token.

## 4. The proofs

All theorems hold for every value of the constants that satisfies the named
assumptions, which TLC evaluates in the runs. The type invariant of each
state machine has a theorem **`TypesHold`** of its own, from the same inductive
invariants as the rest.

* **`CheckDecidesOrigin`** (`AuthProofs`): `check` is Ok exactly when the source is
  an IPv4 address and the datagram holds a whole token minted for the
  authenticator's direction, that source and its own address. From
  `SelectorsDistinguish`, `VerifyIsReassembly` (a token verifies iff it is what
  `assemble` gives for its own nonce) and `ParserFindsWholeTokens` (the
  parser's slices and the length test of `verify` together demand exactly a whole
  token). `TokensAreBound` is where the collision-free tags are used.
* **`VerdictMatchesOrigin`** (`TokenLifeProofs`):
  `AcceptsExactlyWhatWasMinted`. The invariant `TokenInv` adds that the
  token is `assemble` of its recorded origin while intact, and differs
  from every such token once altered, which no property says by itself.
* **`OnlyAuthenticHandedOver`** and **`NoneIsLost`** (`RecvPathProofs`): `OnlyAuthentic`
  and `NothingLost`. `OnlyAuthentic` alone is not inductive, since it says nothing of a
  batch in progress. `SlotInv` adds that every slot below `filled` holds an
  authentic packet, with the length and address of the datagram in its buffer,
  and that the buffer at `filled` holds the packet under examination. That `filled`
  never exceeds the number of `RecvMeta` is part of `TypeOK` (**`TypesHold`**).
* **`WakeupsAreNotLost`**: `NoLostWakeup`, with `WakeInv`: what is on the socket is
  either announced by an event or covered by the readiness flag, and a parked
  driver has its waker registered.
* **`CountersAddUp`**: `Accounted`, with the arithmetic of `%` stated as lemmas
  (`ModRange`, `ModSplit`, `ModUnique`, `ModAdd`).
* **`ReportsNeverGoBack`**: `CountsNeverGoBack`, in every behaviour in which no
  fetch_add exceeds the width of its counter (`NoOverflow`, a condition on steps; with
  64 bits it would take 2^64 datagrams or bytes to break it). `LoadInv` puts what `counts` has
  loaded so far between its last result and the counters.
  **`RejectedWereReceived`**, under the same condition: the counters themselves never
  have more rejected than received, so it is only the loads at different times that
  let a snapshot have more (`recv_torn`). `Exact` is `Accounted` without the `%`.
* **`RecvImplementsFilter`** (`RecvFilterProofs`): `ImplementsFilter`, when
  `NumBufs <= NumMeta`. Arrivals map to arrivals, `CheckFails` to Reject,
  `CheckPasses` to Deliver, the two error returns to Fail, and all other steps
  to stuttering, by `SlotInv`. The theorem covers a socket without an authenticator
  (`--no-dcid-validation`), for which the filter passes everything; the runs
  all have one.
* **`SendersAreWoken`** (`SendPathProofs`): `NoLostWakeup`, with `WakeInv`:
  a parked sender has its own future registered, a registered future means that the
  readiness is cleared, and then the buffer is full or an event is on its way.
  **`SendCountersMatch`**: `CountersMatchWire`, by the number of senders
  that are between a write and its two counters. **`OkIsKept`**: `OkMeansWritten`,
  with an invariant that the segments before the current one have been written.
  **`WrittenOnceInOrder`**: `OnceAndInOrder`.
* **`PingsAreEchoed`** (`EchoProofs`): `LostOnlyWithConnection`, for any number
  of clients and other peers, any payload sizes, count of pings and limit. A ping
  fails for what a stream shows it, so the invariant `StreamInv` says of every stream of
  a client whose connection lasts that the two halves agree with how far `ping` and
  its task are (`PingAt`, `Healthy`): nothing is reset, stopped or too long, what is finished is
  the whole payload, and what is echoed is part of it. **`SummaryAddsUp`**: `PingsAddUp`;
  the count of complete echoes is inductive only for the pings before
  the current one (`Answered`), and since a task that has ended is never started
  again (`TaskInv`). **`TypesHold`** is here more than types: what `echo_stream` holds
  of a stream, and what it has written back, is at most `MAX_PING_BYTES`, whatever
  the peer sends and grants.
* **`SocketsRefuseForCause`** (`ConnectionProofs`): `RefusedForCause`, for any
  number of clients, any addresses and any faults, from `TagAssumption` and `RandomAssumption`. The verdict on
  a packet depends on the connection ID it carries, so the invariant `Bound`
  adds that every packet is one that a client or the server could have sent (`Packets`),
  and that the connection IDs the two ends hold are ones minted for the
  path (`Uses`). **`ConnectionsAreBound`**: `OpenWhereBound`, with `Still`: a client that has not
  moved has sent everything from where it is, and has been answered only if that is
  where it has bound.
* **`TimeoutsHaveCause`** (`ConnectionProofs`): `TimedOutForCause`, for any finite set of
  clients and any timeout. The invariant speaks of clients that are `Undisturbed`
  (none of the causes has occurred), and since a cause once there stays, such a client
  has always been so (`WasUndisturbed`). Its connection is `Good`: the two ends agree
  on addresses and connection IDs and every packet between them belongs to the one
  connection (`Agreed`, `InTune`), so none is dropped; and each timer is at most the
  number of faults, or one more while a packet that will reset it is on its way
  (`ClientHears`, `ServerHears`). A tick turns every packet still on its way into a
  fault (`LateAreCounted`), which pays for the interval it adds to the timers. The
  faults are counted by `Cardinality`, so the set of packets has to be finite
  (`Counted`), which is where the finiteness of `Clients` is used.
* **`SummariesAreExact`** (`BlasterProofs`): `SummaryIsExact`, for any number
  of threads. `Counts` says that each statistic lacks exactly what the threads
  between a send and its addition still have to add, and `Progress` that `main` has joined
  the threads before its current one; together they leave nothing to add at the end.
  **`ReportsFit`**: `ReportsFitSummary`, with `last <= loaded <= stats.sent`.
* **`RateKept`** (`BlasterProofs`): `RateIsKept`, for any number of threads, any rate and
  batch. A sum over the threads would need induction; instead the sends are the set
  `Sends` of pairs of a thread and the number of one of its sends, whose cardinality is
  `taken + refused` (`Tally`: every step adds the one pair it should). `Paced` bounds what
  each thread has sent by its schedule and one batch, so `Sends` lies in a product of
  intervals, whose size is the bound.
* **`OnlyLongSizesPanic`** (`BlasterProofs`): the exact extent of `blaster_sizes`. The
  program panics for no size outside 16434 to 65535, and `TemplateOf` shows that
  `InitialTemplate::new` does for each of these.

Only model-checked: liveness (`ImplementsFairFilter`, `EverythingIsRead`,
`SlotsAreHandedOver`, `EveryTransmitEnds`, `HalfOpenEnds`, `EveryRunEnds` and those of
`Echo`), which TLAPS does not handle under fairness. Every other property that a passing
run checks has a theorem; that of `CountsNeverGoBack` has `NoOverflow` as its condition,
since a counter that wraps goes back.

## 5. Not modelled

* TLS, beyond a client's trust in one certificate: building the configuration for
  rustls and rcgen changes no state of this program.
* `randomize_dcid` and `SplitMix64` of the load generator: 64-bit
  multiplication is beyond TLC's integers, and nothing depends on the values.
* `ping_payload`: the bytes of a ping are compared as a whole, and what can differ is
  their number, which `Echo` models.
* The order of several packets in one datagram: the code examines the first only.
* A receive error of Quinn's own, packet numbers, congestion control and the other
  parts of Quinn that the code in this repository does not configure or implement.
* Coincidences of random values: of 80-bit tags, of nonces, of the bytes of a stateless
  reset with a token.
* Durations and their formatting in the summaries, command-line parsing, the benchmark
  scripts and performance.
