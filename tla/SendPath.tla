------------------------------ MODULE SendPath ------------------------------
(***************************************************************************)
(* The send path of a PacketSocket (src/socket.rs): several PacketSenders, *)
(* one per Quinn task, write through one socket.  Each waits on a          *)
(* writable() future of its own; poll_send, try_send and send_datagram are *)
(* modelled step by step, so that the senders interleave between one       *)
(* datagram and the next, and between a write and the counting of it.      *)
(*                                                                         *)
(* Around them, external: the kernel's send buffer, which empties onto the *)
(* wire; tokio's readiness bookkeeping; and Quinn, which hands a sender one *)
(* transmit at a time, keeps it while poll_send is Pending, and polls again *)
(* when woken.                                                             *)
(***************************************************************************)
EXTENDS Integers, Sequences, FiniteSets

CONSTANTS
    Senders,         \* the tasks that have a PacketSender
    MaxSegments,     \* the most datagrams in a transmit (Quinn is asked for 1)
    DatagramLen,     \* bytes in a datagram
    SendLimit,       \* datagrams the kernel's send buffer holds
    RuntimeMayStop,  \* the tokio runtime may be shut down
    MaxTransmits,    \* bound: transmits of each sender
    MaxErrors,       \* bound: writes that fail
    MaxDatagrams     \* bound: datagrams after which no split transmit is written

ASSUME SendAssumption ==
    /\ IsFiniteSet(Senders)
    /\ MaxSegments \in Nat \ {0}
    /\ DatagramLen \in Nat
    /\ SendLimit \in Nat \ {0}
    /\ RuntimeMayStop \in BOOLEAN

VARIABLES
    pc,                \* where each sender's task is
    writable,          \* its future: "None", "new", "waiting" or "notified"
    transmit,          \* the number of the transmit it is sending, or sent last
    segments, segment, \* its datagrams, and the one of them that try_send is at
    event, ready,      \* tokio: an epoll event to process, the write readiness
    sndbuf, wire,      \* datagrams in the send buffer, and those that have left
    sent, sent_bytes,  \* the counters
    written, dropped,  \* transmits for which poll_send returned Ok: all written,
                       \* or given up because of an error or with their sender
    errors             \* bound

net == <<event, ready, sndbuf, wire>>
counters == <<sent, sent_bytes>>
outcome == <<written, dropped, errors>>
vars == <<pc, writable, transmit, segments, segment, net, counters, outcome>>

Init ==
    /\ pc = [s \in Senders |-> "idle"]
    /\ writable = [s \in Senders |-> "None"]
    /\ transmit = [s \in Senders |-> 0]
    /\ segments = [s \in Senders |-> 1]
    /\ segment = [s \in Senders |-> 1]
    /\ event = FALSE /\ ready = TRUE
    /\ sndbuf = <<>> /\ wire = <<>>
    /\ sent = 0 /\ sent_bytes = 0
    /\ written = {} /\ dropped = {}
    /\ errors = 0

Goto(s, label) == pc' = [pc EXCEPT ![s] = label]
Current(s) == [by |-> s, transmit |-> transmit[s], of |-> segments[s]]
Datagram(s) == [transmit |-> Current(s), segment |-> segment[s]]

-----------------------------------------------------------------------------
(* The kernel and tokio's reactor.                                         *)

Drain ==
    /\ sndbuf # <<>>
    /\ wire' = Append(wire, Head(sndbuf))
    /\ sndbuf' = Tail(sndbuf)
    /\ event' = TRUE
    /\ UNCHANGED <<pc, writable, transmit, segments, segment, ready, counters, outcome>>

Waiting == {s \in Senders : writable[s] = "waiting"}

\* The reactor makes the socket ready and wakes every future that waits for it.
React ==
    /\ event
    /\ event' = FALSE
    /\ ready' = TRUE
    /\ writable' = [s \in Senders |-> IF s \in Waiting THEN "notified" ELSE writable[s]]
    /\ pc' = [s \in Senders |-> IF s \in Waiting /\ pc[s] = "parked" THEN "woken" ELSE pc[s]]
    /\ UNCHANGED <<transmit, segments, segment, sndbuf, wire, counters, outcome>>

-----------------------------------------------------------------------------
(* Quinn.                                                                  *)

NewTransmit(s) ==
    /\ pc[s] = "idle"
    /\ transmit[s] < MaxTransmits
    /\ transmit' = [transmit EXCEPT ![s] = @ + 1]
    /\ \E n \in 1 .. MaxSegments : segments' = [segments EXCEPT ![s] = n]
    /\ Goto(s, "top")
    /\ UNCHANGED <<writable, segment, net, counters, outcome>>

\* A task is also woken for reasons of its own.
WakeOtherwise(s) ==
    /\ pc[s] = "parked"
    /\ Goto(s, "woken")
    /\ UNCHANGED <<writable, transmit, segments, segment, net, counters, outcome>>

PollAgain(s) ==
    /\ pc[s] = "woken"
    /\ Goto(s, "top")
    /\ UNCHANGED <<writable, transmit, segments, segment, net, counters, outcome>>

\* A task that ends takes its sender with it, and the future and the transmit.
DropSender(s) ==
    /\ pc[s] = "parked"
    /\ Goto(s, "idle")
    /\ writable' = [writable EXCEPT ![s] = "None"]
    /\ dropped' = dropped \cup {Current(s)}
    /\ UNCHANGED <<transmit, segments, segment, net, counters, written, errors>>

-----------------------------------------------------------------------------
(* PacketSender::poll_send.                                                *)

\* The future that is polled: the one left by an earlier call, or a new one.
Installed(s) == IF writable[s] = "None" THEN "new" ELSE writable[s]

\* Mutant: the completed future is kept, to be polled again.
BugKeepsFuture(s) ==
    /\ pc[s] = "top"
    /\ \/ Installed(s) = "notified"
       \/ Installed(s) = "new" /\ ready
    /\ writable' = [writable EXCEPT ![s] = "completed"]
    /\ segment' = [segment EXCEPT ![s] = 1]
    /\ Goto(s, "send")
    /\ UNCHANGED <<transmit, segments, net, counters, outcome>>

\* The future is Ready, and dropped; try_send begins at the first datagram.
WritableReady(s) ==
    /\ pc[s] = "top"
    /\ \/ Installed(s) = "notified"
       \/ Installed(s) = "new" /\ ready
    /\ writable' = [writable EXCEPT ![s] = "None"]
    /\ segment' = [segment EXCEPT ![s] = 1]
    /\ Goto(s, "send")
    /\ UNCHANGED <<transmit, segments, net, counters, outcome>>

\* Mutant: the senders share one slot for a waker, and the last to wait has it.
BugSharedSlot(s) ==
    /\ pc[s] = "top"
    /\ \/ Installed(s) = "waiting"
       \/ Installed(s) = "new" /\ ~ready
    /\ writable' = [t \in Senders |-> IF t = s THEN "waiting" ELSE
                                      IF t \in Waiting THEN "None" ELSE writable[t]]
    /\ Goto(s, "parked")
    /\ UNCHANGED <<transmit, segments, segment, net, counters, outcome>>

\* The future is Pending: it has this task's waker.
WritablePending(s) ==
    /\ pc[s] = "top"
    /\ \/ Installed(s) = "waiting"
       \/ Installed(s) = "new" /\ ~ready
    /\ writable' = [writable EXCEPT ![s] = "waiting"]
    /\ Goto(s, "parked")
    /\ UNCHANGED <<transmit, segments, segment, net, counters, outcome>>

\* The future is Ready(Err), for want of a reactor: `ready?' returns it.
WritableFails(s) ==
    /\ pc[s] = "top"
    /\ RuntimeMayStop
    /\ writable' = [writable EXCEPT ![s] = "None"]
    /\ Goto(s, "failed")
    /\ UNCHANGED <<transmit, segments, segment, net, counters, outcome>>

-----------------------------------------------------------------------------
(* try_send and send_datagram, called by poll_send.                        *)

\* try_send_to is Ok.
TrySendOk(s) ==
    /\ pc[s] = "send"
    /\ ready
    /\ Len(sndbuf) < SendLimit
    /\ segments[s] > 1 => Len(wire) + Len(sndbuf) < MaxDatagrams
    /\ sndbuf' = Append(sndbuf, Datagram(s))
    /\ Goto(s, "sent")
    /\ UNCHANGED <<writable, transmit, segments, segment, event, ready, wire, counters, outcome>>

CountSent(s) ==
    /\ pc[s] = "sent"
    /\ sent' = sent + 1
    /\ Goto(s, "sent_bytes")
    /\ UNCHANGED <<writable, transmit, segments, segment, net, sent_bytes, outcome>>

\* Mutant: the loop over the chunks stops after the first.
BugFirstChunkOnly(s) ==
    /\ pc[s] = "sent_bytes"
    /\ sent_bytes' = sent_bytes + DatagramLen
    /\ written' = written \cup {Current(s)}
    /\ Goto(s, "idle")
    /\ UNCHANGED <<writable, transmit, segments, segment, net, sent, dropped, errors>>

\* Mutant: poll_send goes round again after a write that was done.
BugSendsAgain(s) ==
    /\ pc[s] = "sent_bytes"
    /\ sent_bytes' = sent_bytes + DatagramLen
    /\ Goto(s, "top")
    /\ UNCHANGED <<writable, transmit, segments, segment, net, sent, outcome>>

\* Then try_send takes the next datagram, or poll_send returns Ready(Ok).
CountSentBytes(s) ==
    /\ pc[s] = "sent_bytes"
    /\ sent_bytes' = sent_bytes + DatagramLen
    /\ \/ /\ segment[s] < segments[s]
          /\ segment' = [segment EXCEPT ![s] = @ + 1]
          /\ Goto(s, "send")
          /\ UNCHANGED written
       \/ /\ segment[s] = segments[s]
          /\ written' = written \cup {Current(s)}
          /\ Goto(s, "idle")
          /\ UNCHANGED segment
    /\ UNCHANGED <<writable, transmit, segments, net, sent, dropped, errors>>

\* Mutant: a write that would block is counted with those that were done.
BugBlockedCounted(s) ==
    /\ pc[s] = "send"
    /\ ~ready \/ Len(sndbuf) >= SendLimit
    /\ ready' = FALSE
    /\ sent' = sent + 1
    /\ Goto(s, "top")
    /\ UNCHANGED <<writable, transmit, segments, segment, event, sndbuf, wire, sent_bytes, outcome>>

\* try_send_to is WouldBlock, either because another sender's write has found
\* the buffer full and cleared the readiness, or because this one does.
\* poll_send goes round again, to wait and then send the whole transmit.
TrySendWouldBlock(s) ==
    /\ pc[s] = "send"
    /\ ~ready \/ Len(sndbuf) >= SendLimit
    /\ ready' = FALSE
    /\ Goto(s, "top")
    /\ UNCHANGED <<writable, transmit, segments, segment, event, sndbuf, wire, counters, outcome>>

\* try_send_to is another error: the transmit, or what is left of it, is
\* dropped, and poll_send returns Ready(Ok).
TrySendError(s) ==
    /\ pc[s] = "send"
    /\ ready
    /\ errors < MaxErrors
    /\ errors' = errors + 1
    /\ dropped' = dropped \cup {Current(s)}
    /\ Goto(s, "idle")
    /\ UNCHANGED <<writable, transmit, segments, segment, net, counters, written>>

-----------------------------------------------------------------------------

Sender(s) ==
    \/ PollAgain(s) \/ WritableReady(s) \/ WritablePending(s)
    \/ TrySendOk(s) \/ CountSent(s) \/ CountSentBytes(s)
    \/ TrySendWouldBlock(s)

Next ==
    \/ Drain \/ React
    \/ \E s \in Senders :
          \/ NewTransmit(s) \/ WakeOtherwise(s) \/ DropSender(s)
          \/ WritableFails(s) \/ TrySendError(s) \/ Sender(s)

Spec == Init /\ [][Next]_vars

\* The interface drains, the reactor runs, and a task that can run is polled.
FairSpec ==
    /\ Spec
    /\ WF_vars(Drain)
    /\ WF_vars(React)
    /\ \A s \in Senders : WF_vars(Sender(s))

-----------------------------------------------------------------------------

Out == wire \o sndbuf
Transmit == [by : Senders, transmit : Nat, of : 1 .. MaxSegments]
Written == [transmit : Transmit, segment : 1 .. MaxSegments]

\* Type invariant: no future outlives its completion, poll_send never leaves
\* the segments of its transmit, and the send buffer never overflows.
TypeOK ==
    /\ pc \in [Senders -> {"idle", "top", "send", "sent", "sent_bytes", "parked", "woken", "failed"}]
    /\ writable \in [Senders -> {"None", "waiting", "notified"}]
    /\ transmit \in [Senders -> Nat]
    /\ segments \in [Senders -> 1 .. MaxSegments]
    /\ segment \in [Senders -> 1 .. MaxSegments]
    /\ \A s \in Senders : pc[s] \in {"send", "sent", "sent_bytes"} => segment[s] <= segments[s]
    /\ event \in BOOLEAN /\ ready \in BOOLEAN
    /\ sndbuf \in Seq(Written) /\ Len(sndbuf) <= SendLimit
    /\ wire \in Seq(Written)
    /\ sent \in Nat /\ sent_bytes \in Nat /\ errors \in Nat
    /\ written \subseteq Transmit /\ dropped \subseteq Transmit

\* The counters say what the socket took: `sent' is the number of datagrams
\* written, less those whose sender is between the write and the fetch_add, and
\* `sent_bytes' is their length.  A write that blocked or failed is not counted.
CountersMatchWire ==
    LET behind(labels) == Cardinality({s \in Senders : pc[s] \in labels}) IN
    /\ sent + behind({"sent"}) = Len(Out)
    /\ sent_bytes = DatagramLen * (Len(Out) - behind({"sent", "sent_bytes"}))

\* When poll_send has returned Ok for a transmit, either all of it has been
\* written or it was given up because of an error other than WouldBlock
\* (socket.rs:291-295) or with its task, and never both.
OkMeansWritten ==
    /\ \A t \in written : \A i \in 1 .. t.of :
          \E n \in 1 .. Len(Out) : Out[n] = [transmit |-> t, segment |-> i]
    /\ written \cap dropped = {}

\* A sender's transmits are written in its order, and one of a single datagram,
\* as max_transmit_segments asks for, is not written twice: going round the loop
\* after WouldBlock repeats nothing but the start of a split transmit.
OnceAndInOrder ==
    \A m, n \in 1 .. Len(Out) :
        LET first == Out[m].transmit
            second == Out[n].transmit
        IN  m < n /\ first.by = second.by =>
                \/ first.transmit < second.transmit
                \/ first = second /\ first.of > 1

\* A sender whose poll_send is Pending has its waker with its own future, and
\* if there is room to write then an event that wakes it is on its way: no
\* sender loses its wake-up to another (socket.rs:248-250).
NoLostWakeup ==
    \A s \in Senders :
        pc[s] = "parked" =>
            /\ writable[s] = "waiting"
            /\ Len(sndbuf) < SendLimit => event

\* Every poll_send that Quinn keeps polling returns Ready in the end, if the
\* transmit is a single datagram.  (A split one starts again at each WouldBlock,
\* and may do so for ever.)
EveryTransmitEnds ==
    \A s \in Senders :
        pc[s] = "top" /\ segments[s] = 1 ~> pc[s] \in {"idle", "failed"}

=============================================================================
