------------------------------ MODULE RecvPath ------------------------------
(***************************************************************************)
(* The receive path of a PacketSocket (src/socket.rs): poll_recv, run by   *)
(* the one task that drives a Quinn endpoint, and counts, called meanwhile *)
(* by the application on its own handle of the same socket.                *)
(*                                                                         *)
(* Around them: the network and the kernel's receive queue, tokio's        *)
(* readiness bookkeeping, and Quinn, which polls again after every Ready   *)
(* and whenever it is woken.  These are external and modelled as far as    *)
(* poll_recv depends on them.                                              *)
(*                                                                         *)
(* The counters are atomics: poll_recv counts a datagram, its bytes and its *)
(* rejection in three steps, and each load of counts is a step of its own. *)
(***************************************************************************)
EXTENDS Auth, Sequences

CONSTANTS
    Packets,         \* packets [src, datagram] that can reach the socket; the
                     \* datagram is what fits the buffers Quinn provides
    Flood,           \* packets of which any number may come
    Authenticating,  \* the socket was bound with an authenticator
    Inbound,         \* its direction
    LocalIp,         \* its address
    ErrorKinds,      \* io::ErrorKinds that a receive may report
    RuntimeMayStop,  \* the tokio runtime may be shut down
    NumBufs,         \* bufs.len()
    NumMeta,         \* meta.len()
    U64,             \* number of values of an AtomicU64, 2^64
    QueueLimit,      \* bound: packets in the kernel's receive queue
    MaxArrivals,     \* bound: packets outside Flood that arrive
    MaxErrors,       \* bound: errors raised
    MaxCounts        \* bound: calls of counts

NoDatagram == [len |-> 0, long |-> FALSE, dcid_len |-> 0, token |-> <<>>]

ASSUME RecvAssumption ==
    /\ \A p \in Packets :
          /\ p = [src |-> p.src, datagram |-> p.datagram]
          /\ p.datagram = [len |-> p.datagram.len, long |-> p.datagram.long,
                           dcid_len |-> p.datagram.dcid_len, token |-> p.datagram.token]
          /\ p.datagram.len \in Nat /\ p.datagram.dcid_len \in Nat
          /\ p.datagram.long \in BOOLEAN
          /\ p.datagram.token.nonce \in Nonce
    /\ Flood \subseteq Packets
    /\ Authenticating \in BOOLEAN
    /\ Inbound \in Direction
    /\ RuntimeMayStop \in BOOLEAN
    /\ "none" \notin ErrorKinds
    /\ NumBufs \in Nat \ {0}
    /\ NumMeta \in Nat
    /\ U64 \in Nat \ {0}

VARIABLES
    queue, sockErr, arrived, errors,  \* the kernel: packets, pending error; bounds
    event, ready, waker,              \* tokio: an epoll event to process, the
                                      \* readiness flag, a registered reader waker
    pc,                               \* where the endpoint driver task is
    filled, got, bufs, metas,         \* poll_recv's locals and arguments
    counters,                         \* Inner::counters, the receive half
    handed,                           \* what poll_recv has given to Quinn
    lost,                             \* how many it read and gave to nobody
    loaded, partial, last, calls      \* counts: fields loaded, their values,
                                      \* the last PacketCounts returned; bound

kernel == <<queue, sockErr, arrived, errors>>
tokio == <<event, ready, waker>>
slots == <<filled, got, bufs, metas>>
app == <<loaded, partial, last, calls>>
vars == <<kernel, tokio, pc, slots, counters, handed, lost, app>>

authenticator == [inbound |-> Inbound, local_ip |-> LocalIp]

\* The test of poll_recv on a packet: without an authenticator all pass.
Passes(datagram, src) ==
    Authenticating => check(authenticator, datagram, src) = "Ok"

\* Mutant: one of the kinds is forgotten.
BugTransient(kind) == kind \in {"ConnectionReset", "HostUnreachable", "NetworkUnreachable"}

is_transient(kind) ==
    kind \in {"ConnectionRefused", "ConnectionReset", "HostUnreachable",
              "NetworkUnreachable"}

\* Mutant: a store in place of the addition.
BugStore(counter, n) == n % U64

fetch_add(counter, n) == (counter + n) % U64

RecvMetaDefault == [addr |-> UNSPECIFIED, len |-> 0, stride |-> 0]
Fields == {"received", "received_bytes", "rejected"}
ZeroCounts == [field \in Fields |-> 0]

Init ==
    /\ queue = <<>> /\ sockErr = "none" /\ arrived = 0 /\ errors = 0
    /\ event = FALSE /\ ready = FALSE /\ waker = FALSE
    /\ pc = "woken"
    /\ filled = 0
    /\ got = [len |-> 0, addr |-> UNSPECIFIED]
    /\ bufs = [i \in 0 .. NumBufs - 1 |-> NoDatagram]
    /\ metas = [i \in 0 .. NumMeta - 1 |-> RecvMetaDefault]
    /\ counters = ZeroCounts
    /\ handed = <<>>
    /\ lost = 0
    /\ loaded = {} /\ partial = ZeroCounts /\ last = ZeroCounts /\ calls = 0

-----------------------------------------------------------------------------
(* The network, the kernel and tokio's reactor.                            *)

Arrive ==
    /\ Len(queue) < QueueLimit
    /\ \E p \in Packets :
          /\ queue' = Append(queue, p)
          /\ \/ p \in Flood /\ UNCHANGED arrived
             \/ p \notin Flood /\ arrived < MaxArrivals /\ arrived' = arrived + 1
    /\ event' = TRUE
    /\ UNCHANGED <<sockErr, errors, ready, waker, pc, slots, counters, handed, lost, app>>

\* An ICMP error for an earlier send, or another error, waits on the socket.
RaiseError ==
    /\ errors < MaxErrors
    /\ sockErr = "none"
    /\ \E kind \in ErrorKinds : sockErr' = kind
    /\ errors' = errors + 1
    /\ event' = TRUE
    /\ UNCHANGED <<queue, arrived, ready, waker, pc, slots, counters, handed, lost, app>>

\* The reactor turns an event into readiness and wakes the reader's waker.
React ==
    /\ event
    /\ event' = FALSE
    /\ ready' = TRUE
    /\ waker' = FALSE
    /\ pc' = IF waker /\ pc = "parked" THEN "woken" ELSE pc
    /\ UNCHANGED <<kernel, slots, counters, handed, lost, app>>

-----------------------------------------------------------------------------
(* Quinn's endpoint driver.                                                *)

\* The driver is also woken for reasons of its own: its timers, its connections.
WakeOtherwise ==
    /\ pc = "parked"
    /\ pc' = "woken"
    /\ UNCHANGED <<kernel, tokio, slots, counters, handed, lost, app>>

\* It calls poll_recv, after a wake-up and after every Ready(Ok).
QuinnPoll ==
    /\ pc = "woken"
    /\ pc' = "top"
    /\ UNCHANGED <<kernel, tokio, slots, counters, handed, lost, app>>

-----------------------------------------------------------------------------
(* PacketSocket::poll_recv.                                                *)

\* ready!(inner.io.poll_recv_ready(cx))?
PollRecvReady ==
    /\ pc = "top"
    /\ ready
    /\ filled' = 0
    /\ pc' = "recv"
    /\ UNCHANGED <<kernel, tokio, got, bufs, metas, counters, handed, lost, app>>

\* It is Pending: the waker of this task is registered.
PollRecvPending ==
    /\ pc = "top"
    /\ ~ready
    /\ waker' = TRUE
    /\ pc' = "parked"
    /\ UNCHANGED <<kernel, event, ready, slots, counters, handed, lost, app>>

\* It is an error, for want of a reactor, which `?' returns to Quinn.
PollRecvReadyFails ==
    /\ pc = "top"
    /\ RuntimeMayStop
    /\ pc' = "failed"
    /\ UNCHANGED <<kernel, tokio, slots, counters, handed, lost, app>>

\* What Quinn finds in slot i: the first meta.len bytes of the buffer.
Slot(i) == [src |-> metas[i].addr, datagram |-> [bufs[i] EXCEPT !.len = metas[i].len]]

Filled == [i \in 1 .. filled |-> Slot(i - 1)]

\* The end of the loop body: Ready(Ok(filled)), or round again.
LeaveWhile ==
    /\ pc' = IF filled > 0 THEN "woken" ELSE "top"
    /\ handed' = handed \o Filled
    /\ filled' = 0
    /\ UNCHANGED <<got, bufs, metas>>

\* bufs.get_mut(filled) is None.
BuffersFull ==
    /\ pc = "recv"
    /\ filled = NumBufs
    /\ LeaveWhile
    /\ UNCHANGED <<kernel, tokio, counters, lost, app>>

\* try_recv_from is Ok((len, addr)), and the datagram is counted.  (The
\* read and this count are one step: in between only the buffer has changed, and
\* nobody else looks at it.)
TryRecvOk ==
    /\ pc = "recv"
    /\ filled < NumBufs
    /\ sockErr = "none"
    /\ queue # <<>>
    /\ queue' = Tail(queue)
    /\ bufs' = [bufs EXCEPT ![filled] = Head(queue).datagram]
    /\ got' = [len |-> Head(queue).datagram.len, addr |-> Head(queue).src]
    /\ counters' = [counters EXCEPT !.received = fetch_add(@, 1)]
    /\ pc' = "bytes"
    /\ UNCHANGED <<sockErr, arrived, errors, tokio, filled, metas, handed, lost, app>>

\* Mutant: only a full batch is returned, a partial one waits for more.
BugWaitsForFullBatch ==
    /\ pc = "recv"
    /\ filled < NumBufs
    /\ sockErr = "none"
    /\ queue = <<>>
    /\ ready' = FALSE
    /\ pc' = "top"
    /\ UNCHANGED <<kernel, event, waker, slots, counters, handed, lost, app>>

\* try_recv_from is WouldBlock, and tokio has cleared the readiness.
TryRecvWouldBlock ==
    /\ pc = "recv"
    /\ filled < NumBufs
    /\ sockErr = "none"
    /\ queue = <<>>
    /\ ready' = FALSE
    /\ LeaveWhile
    /\ UNCHANGED <<kernel, event, waker, counters, lost, app>>

\* Mutant: an error clears the readiness as WouldBlock does.
BugErrorClearsReady ==
    /\ pc = "recv"
    /\ filled < NumBufs
    /\ sockErr # "none"
    /\ is_transient(sockErr) \/ filled > 0
    /\ sockErr' = "none"
    /\ ready' = FALSE
    /\ LeaveWhile
    /\ UNCHANGED <<queue, arrived, errors, event, waker, counters, lost, app>>

\* Mutant: an error starts the batch afresh, forgetting the slots filled.
BugErrorForgetsBatch ==
    /\ pc = "recv"
    /\ filled < NumBufs
    /\ sockErr # "none"
    /\ is_transient(sockErr) \/ filled > 0
    /\ sockErr' = "none"
    /\ filled' = 0
    /\ pc' = "top"
    /\ UNCHANGED <<queue, arrived, errors, tokio, got, bufs, metas, counters, handed, lost, app>>

\* try_recv_from reports the pending error, which takes it off the socket: a
\* transient one ends the batch, and so does any other once a slot is filled.
TryRecvErrDropped ==
    /\ pc = "recv"
    /\ filled < NumBufs
    /\ sockErr # "none"
    /\ is_transient(sockErr) \/ filled > 0
    /\ sockErr' = "none"
    /\ LeaveWhile
    /\ UNCHANGED <<queue, arrived, errors, tokio, counters, lost, app>>

\* Mutant: the error is returned whatever the batch holds.
BugErrorBeforeBatch ==
    /\ pc = "recv"
    /\ filled < NumBufs
    /\ sockErr # "none"
    /\ ~is_transient(sockErr)
    /\ sockErr' = "none"
    /\ pc' = "failed"
    /\ UNCHANGED <<queue, arrived, errors, tokio, slots, counters, handed, lost, app>>

\* Any other error with nothing filled is returned to Quinn, whose driver ends.
TryRecvErrReturned ==
    /\ pc = "recv"
    /\ filled < NumBufs
    /\ sockErr # "none"
    /\ ~is_transient(sockErr)
    /\ filled = 0
    /\ sockErr' = "none"
    /\ pc' = "failed"
    /\ UNCHANGED <<queue, arrived, errors, tokio, slots, counters, handed, lost, app>>

CountBytes ==
    /\ pc = "bytes"
    /\ counters' = [counters EXCEPT !.received_bytes = fetch_add(@, got.len)]
    /\ pc' = "check"
    /\ UNCHANGED <<kernel, tokio, slots, handed, lost, app>>

\* The datagram under check: the first len bytes of the buffer just written.
Datagram == [bufs[filled] EXCEPT !.len = got.len]

\* Mutant: a rejected datagram takes up its slot.
BugRejectedKeepsSlot ==
    /\ pc = "check"
    /\ ~Passes(Datagram, got.addr)
    /\ counters' = [counters EXCEPT !.rejected = fetch_add(@, 1)]
    /\ filled' = filled + 1
    /\ pc' = "recv"
    /\ UNCHANGED <<kernel, tokio, got, bufs, metas, handed, lost, app>>

\* Mutant: a rejected datagram is not counted.
BugRejectedUncounted ==
    /\ pc = "check"
    /\ ~Passes(Datagram, got.addr)
    /\ pc' = "recv"
    /\ UNCHANGED <<kernel, tokio, slots, counters, handed, lost, app>>

\* A datagram that fails leaves `filled' alone, so its slot is used again.
CheckFails ==
    /\ pc = "check"
    /\ ~Passes(Datagram, got.addr)
    /\ counters' = [counters EXCEPT !.rejected = fetch_add(@, 1)]
    /\ pc' = "recv"
    /\ UNCHANGED <<kernel, tokio, slots, handed, lost, app>>

\* Mutant: a datagram for which there is no RecvMeta fills its slot all the same.
BugFillsWithoutMeta ==
    /\ pc = "check"
    /\ Passes(Datagram, got.addr)
    /\ metas' = [i \in DOMAIN metas |->
                  IF i = filled THEN [addr |-> got.addr, len |-> got.len, stride |-> got.len]
                                ELSE metas[i]]
    /\ filled' = filled + 1
    /\ pc' = "recv"
    /\ UNCHANGED <<kernel, tokio, got, bufs, counters, handed, lost, app>>

CheckPasses ==
    /\ pc = "check"
    /\ Passes(Datagram, got.addr)
    /\ filled < NumMeta
    /\ metas' = [metas EXCEPT ![filled] = [addr |-> got.addr, len |-> got.len, stride |-> got.len]]
    /\ filled' = filled + 1
    /\ pc' = "recv"
    /\ UNCHANGED <<kernel, tokio, got, bufs, counters, handed, lost, app>>

\* meta.get_mut(filled) is None: the batch ends and the datagram is lost.
NoMeta ==
    /\ pc = "check"
    /\ Passes(Datagram, got.addr)
    /\ filled >= NumMeta
    /\ lost' = lost + 1
    /\ LeaveWhile
    /\ UNCHANGED <<kernel, tokio, counters, app>>

-----------------------------------------------------------------------------
(* PacketSocket::counts, called by the application.                        *)

\* One of the relaxed loads, which nothing keeps in the order of the text.
Load ==
    /\ calls < MaxCounts
    /\ loaded # Fields
    /\ \E field \in Fields \ loaded :
          /\ partial' = [partial EXCEPT ![field] = counters[field]]
          /\ loaded' = loaded \cup {field}
    /\ UNCHANGED <<kernel, tokio, pc, slots, counters, handed, lost, last, calls>>

\* counts returns the PacketCounts it has loaded.
CountsReturns ==
    /\ loaded = Fields
    /\ last' = partial
    /\ loaded' = {}
    /\ calls' = calls + 1
    /\ UNCHANGED <<kernel, tokio, pc, slots, counters, handed, lost, partial>>

-----------------------------------------------------------------------------

Driver ==
    \/ QuinnPoll \/ PollRecvReady \/ PollRecvPending
    \/ BuffersFull \/ TryRecvOk \/ TryRecvWouldBlock
    \/ TryRecvErrDropped \/ TryRecvErrReturned
    \/ CountBytes \/ CheckFails \/ CheckPasses \/ NoMeta

Next ==
    \/ Arrive \/ RaiseError \/ React
    \/ WakeOtherwise \/ PollRecvReadyFails \/ Driver
    \/ Load \/ CountsReturns

Spec == Init /\ [][Next]_vars

\* The reactor thread keeps running, and a task that can run is polled.
FairSpec == Spec /\ WF_vars(React) /\ WF_vars(Driver)

-----------------------------------------------------------------------------

\* The packets Quinn is to see: those with a token for the path they took to
\* this socket, or all of them if the socket has no authenticator.
Authentic ==
    {p \in Packets :
        Authenticating =>
            p.src \in TokenAddr /\ CarriesTokenOf(p.datagram, Inbound, p.src, LocalIp)}

InFlight == pc \in {"bytes", "check"}

Addr == {p.src : p \in Packets} \cup {UNSPECIFIED}
Buffer == {p.datagram : p \in Packets} \cup {NoDatagram}
PacketCounts == [Fields -> 0 .. U64 - 1]

\* Type invariant: poll_recv stays within its buffers and never reports to Quinn
\* more slots than it has described in `meta', whichever of the two is shorter;
\* a datagram under check has a buffer to be in.
TypeOK ==
    /\ queue \in Seq(Packets)
    /\ sockErr \in ErrorKinds \cup {"none"}
    /\ arrived \in Nat /\ errors \in Nat /\ lost \in Nat /\ calls \in Nat
    /\ event \in BOOLEAN /\ ready \in BOOLEAN /\ waker \in BOOLEAN
    /\ pc \in {"woken", "top", "recv", "bytes", "check", "parked", "failed"}
    /\ filled \in 0 .. NumBufs /\ filled <= NumMeta
    /\ InFlight => filled < NumBufs
    /\ got \in [len : Nat, addr : Addr]
    /\ bufs \in [0 .. NumBufs - 1 -> Buffer]
    /\ metas \in [0 .. NumMeta - 1 -> [addr : Addr, len : Nat, stride : Nat]]
    /\ counters \in PacketCounts
    /\ handed \in Seq(Packets)
    /\ loaded \subseteq Fields
    /\ partial \in PacketCounts /\ last \in PacketCounts

\* Quinn is only ever given packets that arrived with a token minted for their
\* path and direction (unless validation is off), whatever was rejected
\* into the same slot before: no slot is handed over with the bytes of one
\* datagram and the address or length of another.
OnlyAuthentic == handed \in Seq(Authentic)

\* Every datagram that poll_recv has counted as received is counted as
\* rejected, has been handed to Quinn, waits in a slot, is being examined, or
\* was lost for want of a RecvMeta, and is only one of these: the counters
\* agree with what became of the datagrams, modulo their width.
Accounted ==
    counters.received =
        (counters.rejected + Len(handed) + filled + (IF InFlight THEN 1 ELSE 0) + lost) % U64

\* No datagram is lost as long as Quinn provides a RecvMeta for every buffer,
\* which it does: an error in the middle of a batch ends it, but what was read
\* before is still handed over, and slots are empty whenever poll_recv is not
\* running.
NothingLost ==
    /\ NumBufs <= NumMeta => lost = 0
    /\ pc \in {"woken", "top", "parked", "failed"} => filled = 0

\* When poll_recv has returned Pending its waker is registered, and if there is
\* something on the socket an event that will wake it is on its way: "looping
\* re-registers the waker" (socket.rs:199-200) loses no wake-up.
NoLostWakeup ==
    pc = "parked" =>
        /\ waker
        /\ queue # <<>> \/ sockErr # "none" => event

\* What counts reports never goes back from one call to the next, although its
\* loads are relaxed and race with poll_recv (as long as no counter wraps).
CountsNeverGoBack ==
    [][\A field \in Fields : last'[field] >= last[field]]_last

\* While no error but a transient one occurs, every datagram that arrives is
\* read in the end: a queued ICMP error neither stops the endpoint nor lets it
\* sleep with datagrams waiting (socket.rs:202-204).
EverythingIsRead == queue # <<>> ~> queue = <<>>

\* A datagram that has been accepted into a slot is handed to Quinn in the end.
SlotsAreHandedOver == filled > 0 ~> filled = 0

\* `received' "counts every datagram read off the wire, including the
\* `rejected' ones" (socket.rs:40-41): no PacketCounts has more of the latter.
RejectedAreReceived == last.rejected <= last.received

-----------------------------------------------------------------------------
(* poll_recv implements the filter of AuthFilter: the packet being examined *)
(* is still the oldest inbound one, and a filled slot is delivered.         *)

Examined == IF InFlight THEN <<[src |-> got.addr, datagram |-> Datagram]>> ELSE <<>>

Filter ==
    INSTANCE AuthFilter WITH
        inbound   <- Examined \o queue,
        delivered <- handed \o Filled,
        rejected  <- counters.rejected,
        closed    <- pc = "failed"

\* The packets given to Quinn are the authentic ones among those that arrived,
\* each once and in the order of arrival, and the others are counted as
\* rejected (when there is a RecvMeta for every buffer).
ImplementsFilter == Filter!Spec

\* Moreover every packet that arrives is dealt with, until the socket fails.
ImplementsFairFilter == Filter!FairSpec

=============================================================================
