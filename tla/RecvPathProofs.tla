--------------------------- MODULE RecvPathProofs ---------------------------
(***************************************************************************)
(* Proofs about poll_recv, for any packets, batch sizes, counter width and *)
(* bounds: its invariants, and that it implements AuthFilter.              *)
(***************************************************************************)
EXTENDS RecvPath, AuthProofs, SequenceTheorems

-----------------------------------------------------------------------------
(* Arithmetic of counters that wrap.                                       *)

\* A remainder is in the range of a counter (fetch_add wraps, socket.rs:164-168).
LEMMA ModRange ==
    ASSUME NEW M \in Nat \ {0}, NEW a \in Int
    PROVE  a % M \in 0 .. M - 1
  BY SMT

\* Quotient and remainder make up the number.
LEMMA ModSplit ==
    ASSUME NEW M \in Nat \ {0}, NEW a \in Int
    PROVE  a = ((a \div M) * M) + (a % M)
  BY SMT

\* A number in the range of a counter is the remainder of all it is congruent to.
LEMMA ModUnique ==
    ASSUME NEW M \in Nat \ {0}, NEW q \in Int, NEW r \in 0 .. M - 1
    PROVE  ((q * M) + r) % M = r
  BY SMT

\* Adding to a counter that has wrapped gives what adding before wrapping does.
LEMMA ModAdd ==
    ASSUME NEW M \in Nat \ {0}, NEW a \in Nat, NEW b \in Nat
    PROVE  ((a % M) + b) % M = (a + b) % M
<1> DEFINE qa == a \div M
           c == (a % M) + b
           qc == c \div M
<1>1. qa \in Int /\ c \in Int /\ qc \in Int /\ a % M \in Int
  BY ModRange, SMT
<1>2. a = (qa * M) + (a % M)
  BY ModSplit
<1>3. c = (qc * M) + (c % M)
  BY ModSplit, <1>1
<1>4. c % M \in 0 .. M - 1
  BY ModRange, <1>1
<1>5. c = (a % M) + b
  OBVIOUS
<1> HIDE DEF qa, qc, c
<1>6. a + b = ((qa + qc) * M) + (c % M)
  <2>1. (qa + qc) * M = (qa * M) + (qc * M)
    BY <1>1, SMT
  <2>2. qa * M \in Int /\ qc * M \in Int
    BY <1>1
  <2> QED BY <1>1, <1>2, <1>3, <1>4, <1>5, <2>1, <2>2
<1>7. (((qa + qc) * M) + (c % M)) % M = c % M
  BY ModUnique, <1>1, <1>4
<1> QED BY <1>5, <1>6, <1>7

-----------------------------------------------------------------------------
(* The slots.                                                              *)

\* The packet that slot i, or the datagram under examination, stands for.
PacketAt(addr, i) == [src |-> addr, datagram |-> bufs[i]]

\* The inductive invariant of the slots: each filled one holds the bytes, the
\* length and the address of one and the same authentic packet.
SlotInv ==
    /\ TypeOK
    /\ InFlight => got.len = bufs[filled].len /\ PacketAt(got.addr, filled) \in Packets
    /\ \A i \in 0 .. filled - 1 :
          metas[i].len = bufs[i].len /\ PacketAt(metas[i].addr, i) \in Authentic
    /\ handed \in Seq(Authentic)
    /\ NothingLost

\* Taking the first p.datagram.len bytes of a packet's buffer is no change.
LEMMA WholeDatagram ==
    ASSUME NEW p \in Packets
    PROVE  [p.datagram EXCEPT !.len = p.datagram.len] = p.datagram
<1>1. p.datagram = [len |-> p.datagram.len, long |-> p.datagram.long,
                    dcid_len |-> p.datagram.dcid_len, token |-> p.datagram.token]
  BY RecvAssumption
<1> QED BY <1>1

\* The test of poll_recv separates the authentic packets from the others.
LEMMA PassesIsAuthentic ==
    ASSUME NEW p \in Packets
    PROVE  Passes(p.datagram, p.src) <=> p \in Authentic
<1>1. /\ p.datagram.len \in Nat /\ p.datagram.long \in BOOLEAN /\ p.datagram.dcid_len \in Nat
      /\ p.datagram.token.nonce \in Nonce /\ Inbound \in Direction
  BY RecvAssumption
<1>2. authenticator.inbound = Inbound /\ authenticator.local_ip = LocalIp
  BY DEF authenticator
<1>3. check(authenticator, p.datagram, p.src) = "Ok"
      <=> p.src \in TokenAddr /\ CarriesTokenOf(p.datagram, Inbound, p.src, LocalIp)
  BY <1>1, <1>2, CheckDecidesOrigin
<1> QED BY <1>3 DEF Passes, Authentic

\* The datagram under examination is the one just read.
LEMMA ExaminedIsPacket ==
    ASSUME SlotInv, InFlight
    PROVE  /\ Datagram = bufs[filled]
           /\ PacketAt(got.addr, filled) \in Packets
           /\ Passes(Datagram, got.addr) <=> PacketAt(got.addr, filled) \in Authentic
<1> DEFINE p == PacketAt(got.addr, filled)
<1>1. p \in Packets /\ got.len = bufs[filled].len
  BY DEF SlotInv
<1>2. p.datagram = bufs[filled] /\ p.src = got.addr
  BY DEF PacketAt
<1>3. Datagram = bufs[filled]
  BY <1>1, <1>2, WholeDatagram DEF Datagram
<1> HIDE DEF p
<1>4. Passes(Datagram, got.addr) <=> p \in Authentic
  BY <1>1, <1>2, <1>3, PassesIsAuthentic
<1> QED BY <1>1, <1>3, <1>4 DEF p

\* What Quinn finds in a filled slot is an authentic packet.
LEMMA SlotIsAuthentic ==
    ASSUME SlotInv, NEW i \in 0 .. filled - 1
    PROVE  Slot(i) = PacketAt(metas[i].addr, i) /\ Slot(i) \in Authentic
<1> DEFINE p == PacketAt(metas[i].addr, i)
<1>1. metas[i].len = bufs[i].len /\ p \in Authentic
  BY DEF SlotInv
<1>2. p.datagram = bufs[i] /\ p \in Packets
  BY <1>1 DEF PacketAt, Authentic
<1>3. [bufs[i] EXCEPT !.len = metas[i].len] = bufs[i]
  BY <1>1, <1>2, WholeDatagram
<1> QED BY <1>1, <1>3 DEF Slot, PacketAt

\* The slots poll_recv returns are `filled' authentic packets.
LEMMA FilledIsSequence ==
    ASSUME SlotInv
    PROVE  Filled \in Seq(Authentic) /\ Len(Filled) = filled
<1>1. filled \in Nat
  BY RecvAssumption DEF SlotInv, TypeOK
<1>2. \A i \in 1 .. filled : Slot(i - 1) \in Authentic
  BY <1>1, SlotIsAuthentic
<1> QED BY <1>1, <1>2 DEF Filled

-----------------------------------------------------------------------------
(* SlotInv is inductive.                                                   *)

\* Initially no slot is filled.
LEMMA SlotInit == Init => SlotInv
<1> SUFFICES ASSUME Init PROVE SlotInv
  OBVIOUS
<1> USE RecvAssumption DEF Init
<1>1. PacketCounts # {} /\ ZeroCounts \in PacketCounts
  BY DEF ZeroCounts, PacketCounts
<1>2. got \in [len : Nat, addr : Addr]
  BY DEF Addr
<1>3. bufs \in [0 .. NumBufs - 1 -> Buffer]
  BY DEF Buffer
<1>4. metas \in [0 .. NumMeta - 1 -> [addr : Addr, len : Nat, stride : Nat]]
  BY DEF Addr, RecvMetaDefault
<1>5. ~InFlight
  BY DEF InFlight
<1>6. TypeOK
  <2>1. /\ queue = <<>> /\ handed = <<>> /\ sockErr = "none" /\ pc = "woken"
        /\ arrived = 0 /\ errors = 0 /\ lost = 0 /\ calls = 0 /\ filled = 0
        /\ event = FALSE /\ ready = FALSE /\ waker = FALSE
        /\ counters = ZeroCounts /\ partial = ZeroCounts /\ last = ZeroCounts /\ loaded = {}
    OBVIOUS
  <2>2. 0 \in 0 .. NumBufs /\ 0 <= NumMeta
    OBVIOUS
  <2>3. <<>> \in Seq(Packets)
    BY EmptySeq
  <2> QED BY ONLY <1>1, <1>2, <1>3, <1>4, <1>5, <2>1, <2>2, <2>3 DEF TypeOK
<1>7. 0 .. filled - 1 = {}
  OBVIOUS
<1> QED BY <1>5, <1>6, <1>7 DEF SlotInv, NothingLost

\* The end of the while loop hands the filled slots over and empties them.
LEMMA LeaveWhilePreserves ==
    ASSUME SlotInv, LeaveWhile, pc \in {"recv", "check"},
           queue' \in Seq(Packets), sockErr' \in ErrorKinds \cup {"none"},
           ready' \in BOOLEAN, lost' \in Nat, NumBufs <= NumMeta => lost' = 0,
           UNCHANGED <<arrived, errors, event, waker, counters, app>>
    PROVE  SlotInv'
<1>1. Filled \in Seq(Authentic)
  BY FilledIsSequence
<1>2. handed' \in Seq(Authentic)
  BY <1>1 DEF LeaveWhile, SlotInv
<1>3. handed' \in Seq(Packets)
  BY <1>2 DEF Authentic
<1>4. filled' = 0 /\ pc' \in {"woken", "top"} /\ UNCHANGED <<got, bufs, metas>>
  BY DEF LeaveWhile
<1>5. ~InFlight'
  BY <1>4 DEF InFlight
<1>6. TypeOK'
  <2>1. TypeOK
    BY DEF SlotInv
  <2>2. UNCHANGED <<loaded, partial, last, calls>>
    BY DEF app
  <2>3. 0 \in 0 .. NumBufs /\ 0 <= NumMeta
    BY RecvAssumption
  <2>4. pc' \in {"woken", "top", "recv", "bytes", "check", "parked", "failed"}
    BY ONLY <1>4
  <2>5. /\ got' = got /\ bufs' = bufs /\ metas' = metas
        /\ filled' \in 0 .. NumBufs /\ filled' <= NumMeta
    BY ONLY <1>4, <2>3
  <2>6. /\ arrived' \in Nat /\ errors' \in Nat /\ calls' \in Nat
        /\ event' \in BOOLEAN /\ waker' \in BOOLEAN /\ counters' \in PacketCounts
        /\ loaded' \subseteq Fields /\ partial' \in PacketCounts /\ last' \in PacketCounts
    BY <2>1, <2>2 DEF TypeOK
  <2>7. /\ got' \in [len : Nat, addr : Addr]
        /\ bufs' \in [0 .. NumBufs - 1 -> Buffer]
        /\ metas' \in [0 .. NumMeta - 1 -> [addr : Addr, len : Nat, stride : Nat]]
    BY ONLY <2>1, <2>5 DEF TypeOK
  <2>8. /\ queue' \in Seq(Packets) /\ sockErr' \in ErrorKinds \cup {"none"}
        /\ ready' \in BOOLEAN /\ lost' \in Nat
    OBVIOUS
  <2> QED BY ONLY <1>3, <1>5, <2>4, <2>5, <2>6, <2>7, <2>8 DEF TypeOK
<1>7. (0 .. filled - 1)' = {}
  BY <1>4
<1> QED BY <1>2, <1>4, <1>5, <1>6, <1>7, RecvAssumption DEF SlotInv, NothingLost

\* Reading a datagram into slot `filled' leaves the filled slots alone.
LEMMA TryRecvOkPreserves == SlotInv /\ TryRecvOk => SlotInv'
<1> SUFFICES ASSUME SlotInv, TryRecvOk PROVE SlotInv'
  OBVIOUS
<1> DEFINE p == Head(queue)
<1>1. TypeOK /\ queue # <<>> /\ pc = "recv" /\ filled < NumBufs
  BY DEF SlotInv, TryRecvOk
<1>2. p \in Packets /\ Tail(queue) \in Seq(Packets)
  BY <1>1, HeadTailProperties DEF TypeOK
<1>3. /\ queue' = Tail(queue)
      /\ bufs' = [bufs EXCEPT ![filled] = p.datagram]
      /\ got' = [len |-> p.datagram.len, addr |-> p.src]
      /\ pc' = "bytes"
      /\ counters' = [counters EXCEPT !.received = fetch_add(counters.received, 1)]
      /\ UNCHANGED <<sockErr, arrived, errors, event, ready, waker, filled, metas,
                     handed, lost, loaded, partial, last, calls>>
  BY DEF TryRecvOk, tokio, app
<1> HIDE DEF p
<1>4. p.datagram \in Buffer /\ p.src \in Addr /\ p.datagram.len \in Nat
      /\ p = [src |-> p.src, datagram |-> p.datagram]
  BY <1>2, RecvAssumption DEF Buffer, Addr
<1>5. filled \in 0 .. NumBufs - 1
  BY <1>1, RecvAssumption DEF TypeOK
<1>6. bufs' \in [0 .. NumBufs - 1 -> Buffer] /\ bufs'[filled] = p.datagram
      /\ \A i \in 0 .. filled - 1 : bufs'[i] = bufs[i]
  BY <1>1, <1>3, <1>4, <1>5, RecvAssumption DEF TypeOK
<1>7. counters' \in PacketCounts
  <2>1. fetch_add(counters.received, 1) \in 0 .. U64 - 1
    <3>1. counters.received \in 0 .. U64 - 1
      BY <1>1 DEF TypeOK, PacketCounts, Fields
    <3> QED BY <3>1, ModRange, RecvAssumption DEF fetch_add
  <2> QED BY <1>1, <1>3, <2>1 DEF TypeOK, PacketCounts
<1>8. TypeOK'
  BY <1>1, <1>2, <1>3, <1>4, <1>5, <1>6, <1>7 DEF TypeOK, InFlight
<1>9. PacketAt(got.addr, filled)' = p /\ got'.len = bufs'[filled].len
  BY <1>3, <1>4, <1>6 DEF PacketAt
<1>10. \A i \in 0 .. filled - 1 : PacketAt(metas[i].addr, i)' = PacketAt(metas[i].addr, i)
  BY <1>3, <1>6 DEF PacketAt
<1> QED BY <1>1, <1>2, <1>3, <1>6, <1>8, <1>9, <1>10 DEF SlotInv, InFlight, NothingLost

\* Filling slot `filled' with the datagram that passed adds an authentic packet.
LEMMA CheckPassesPreserves == SlotInv /\ CheckPasses => SlotInv'
<1> SUFFICES ASSUME SlotInv, CheckPasses PROVE SlotInv'
  OBVIOUS
<1>1. TypeOK /\ InFlight /\ filled < NumMeta /\ pc' = "recv" /\ filled' = filled + 1
  BY DEF SlotInv, CheckPasses, InFlight
<1>2. /\ metas' = [metas EXCEPT ![filled] = [addr |-> got.addr, len |-> got.len, stride |-> got.len]]
      /\ UNCHANGED <<queue, sockErr, arrived, errors, event, ready, waker, got, bufs,
                     counters, handed, lost, loaded, partial, last, calls>>
  BY DEF CheckPasses, kernel, tokio, app
<1>3. filled \in 0 .. NumMeta - 1 /\ filled \in 0 .. NumBufs - 1
  BY <1>1, RecvAssumption DEF TypeOK
<1>4. got.len \in Nat /\ got.addr \in Addr
  BY <1>1 DEF TypeOK
<1>5. /\ metas' \in [0 .. NumMeta - 1 -> [addr : Addr, len : Nat, stride : Nat]]
      /\ metas'[filled].addr = got.addr /\ metas'[filled].len = got.len
      /\ \A i \in 0 .. filled - 1 : metas'[i] = metas[i]
  <2>1. metas \in [0 .. NumMeta - 1 -> [addr : Addr, len : Nat, stride : Nat]]
    BY <1>1 DEF TypeOK
  <2>2. [addr |-> got.addr, len |-> got.len, stride |-> got.len]
          \in [addr : Addr, len : Nat, stride : Nat]
    BY ONLY <1>4
  <2>3. NumMeta \in Nat
    BY RecvAssumption
  <2> QED BY ONLY <1>2, <1>3, <2>1, <2>2, <2>3
<1>6. PacketAt(got.addr, filled) \in Authentic /\ got.len = bufs[filled].len
  BY <1>1, ExaminedIsPacket DEF CheckPasses, SlotInv
<1>7. \A i \in 0 .. filled : /\ metas'[i].len = bufs'[i].len
                             /\ PacketAt(metas[i].addr, i)' \in Authentic
  <2> SUFFICES ASSUME NEW i \in 0 .. filled
               PROVE  metas'[i].len = bufs'[i].len /\ PacketAt(metas[i].addr, i)' \in Authentic
    OBVIOUS
  <2>1. CASE i = filled
    BY <1>2, <1>5, <1>6, <2>1 DEF PacketAt
  <2>2. CASE i \in 0 .. filled - 1
    BY <1>2, <1>5, <2>2 DEF PacketAt, SlotInv
  <2> QED BY <1>3, <2>1, <2>2
<1>8. TypeOK'
  <2>1. filled' \in 0 .. NumBufs /\ filled' <= NumMeta
    BY <1>1, <1>3, RecvAssumption
  <2> QED BY <1>1, <1>2, <1>5, <2>1 DEF TypeOK, InFlight
<1>9. (0 .. filled - 1)' = 0 .. filled
  BY <1>1, <1>3
<1>10. NothingLost'
  BY <1>1, <1>2 DEF SlotInv, NothingLost
<1>11. handed' \in Seq(Authentic)
  BY <1>2 DEF SlotInv
<1>12. ~InFlight'
  BY <1>1 DEF InFlight
<1> QED BY <1>7, <1>8, <1>9, <1>10, <1>11, <1>12 DEF SlotInv

\* A step that leaves the slots and what was handed over alone keeps SlotInv.
LEMMA SlotFrame ==
    ASSUME SlotInv, TypeOK', UNCHANGED <<slots, handed, lost>>,
           InFlight' => InFlight,
           pc' \in {"woken", "top", "parked", "failed"} => filled = 0
    PROVE  SlotInv'
<1>1. UNCHANGED <<filled, got, bufs, metas, handed, lost>>
  BY DEF slots
<1>2. NothingLost'
  BY <1>1 DEF SlotInv, NothingLost
<1>3. PacketAt(got.addr, filled)' = PacketAt(got.addr, filled)
  BY <1>1 DEF PacketAt
<1>4. \A i \in 0 .. filled - 1 : PacketAt(metas[i].addr, i)' = PacketAt(metas[i].addr, i)
  BY <1>1 DEF PacketAt
<1> QED BY <1>1, <1>2, <1>3, <1>4 DEF SlotInv

\* The steps of the network, of the reactor and of counts keep the types.
LEMMA EnvironmentTypes ==
    ASSUME TypeOK, Arrive \/ RaiseError \/ React \/ Load \/ CountsReturns
    PROVE  TypeOK' /\ (InFlight' <=> InFlight)
<1>1. CASE Arrive
  <2>1. PICK p \in Packets : queue' = Append(queue, p) /\ (arrived' = arrived \/ arrived' = arrived + 1)
    BY <1>1 DEF Arrive
  <2>2. queue' \in Seq(Packets) /\ arrived' \in Nat
    BY <2>1, AppendProperties DEF TypeOK
  <2> QED BY <1>1, <2>2 DEF Arrive, TypeOK, InFlight, slots, app
<1>2. CASE RaiseError
  BY <1>2 DEF RaiseError, TypeOK, InFlight, slots, app
<1>3. CASE React
  BY <1>3 DEF React, TypeOK, InFlight, kernel, slots, app
<1>4. CASE Load
  <2>1. PICK field \in Fields \ loaded :
           /\ partial' = [partial EXCEPT ![field] = counters[field]]
           /\ loaded' = loaded \cup {field}
    BY <1>4 DEF Load
  <2>2. counters[field] \in 0 .. U64 - 1
    BY DEF TypeOK, PacketCounts
  <2>3. partial' \in PacketCounts /\ loaded' \subseteq Fields
    BY <2>1, <2>2 DEF TypeOK, PacketCounts
  <2> QED BY <1>4, <2>3 DEF Load, TypeOK, InFlight, kernel, tokio, slots
<1>5. CASE CountsReturns
  BY <1>5 DEF CountsReturns, TypeOK, InFlight, kernel, tokio, slots
<1> QED BY <1>1, <1>2, <1>3, <1>4, <1>5

\* SlotInv is kept by every step.
LEMMA SlotStep == SlotInv /\ [Next]_vars => SlotInv'
<1> SUFFICES ASSUME SlotInv, [Next]_vars PROVE SlotInv'
  OBVIOUS
<1> USE DEF SlotInv
<1>1. CASE Arrive \/ RaiseError \/ React \/ Load \/ CountsReturns
  <2>1. TypeOK' /\ (InFlight' <=> InFlight)
    BY <1>1, EnvironmentTypes
  <2>2. UNCHANGED <<slots, handed, lost>>
    BY <1>1 DEF Arrive, RaiseError, React, Load, CountsReturns
  <2>3. pc' = pc \/ (pc = "parked" /\ pc' = "woken")
    BY <1>1 DEF Arrive, RaiseError, React, Load, CountsReturns
  <2> QED BY <2>1, <2>2, <2>3, SlotFrame DEF NothingLost
<1>2. CASE WakeOtherwise \/ QuinnPoll \/ PollRecvPending \/ PollRecvReadyFails
  <2>1. /\ UNCHANGED <<slots, handed, lost>>
        /\ pc \in {"parked", "woken", "top"} /\ pc' \in {"parked", "woken", "top", "failed"}
    BY <1>2 DEF WakeOtherwise, QuinnPoll, PollRecvPending, PollRecvReadyFails
  <2>2. TypeOK'
    BY <1>2, <2>1 DEF WakeOtherwise, QuinnPoll, PollRecvPending, PollRecvReadyFails,
                      TypeOK, InFlight, kernel, tokio, slots, app
  <2> QED BY <2>1, <2>2, SlotFrame DEF NothingLost, InFlight
<1>3. CASE PollRecvReady
  <2>1. filled = 0 /\ filled' = 0 /\ pc' = "recv"
    BY <1>3 DEF PollRecvReady, NothingLost
  <2>2. UNCHANGED <<slots, handed, lost>>
    BY <1>3, <2>1 DEF PollRecvReady, slots
  <2>3. TypeOK'
    BY <1>3, <2>1 DEF PollRecvReady, TypeOK, InFlight, kernel, tokio, slots, app
  <2> QED BY <2>1, <2>2, <2>3, SlotFrame DEF InFlight
<1>4. CASE BuffersFull
  BY <1>4, LeaveWhilePreserves DEF BuffersFull, TypeOK, NothingLost, kernel, tokio
<1>5. CASE TryRecvOk
  BY <1>5, TryRecvOkPreserves
<1>6. CASE TryRecvWouldBlock
  BY <1>6, LeaveWhilePreserves DEF TryRecvWouldBlock, TypeOK, NothingLost, kernel
<1>7. CASE TryRecvErrDropped
  BY <1>7, LeaveWhilePreserves DEF TryRecvErrDropped, TypeOK, NothingLost, tokio
<1>8. CASE TryRecvErrReturned
  <2>1. UNCHANGED <<slots, handed, lost>> /\ pc' = "failed" /\ filled = 0
    BY <1>8 DEF TryRecvErrReturned
  <2>2. TypeOK'
    BY <1>8 DEF TryRecvErrReturned, TypeOK, InFlight, tokio, slots, app
  <2> QED BY <2>1, <2>2, SlotFrame DEF InFlight
<1>9. CASE CountBytes
  <2>1. UNCHANGED <<slots, handed, lost>> /\ pc = "bytes" /\ pc' = "check"
    BY <1>9 DEF CountBytes
  <2>2. counters' \in PacketCounts
    <3>1. counters.received_bytes \in Nat /\ got.len \in Nat
      BY RecvAssumption DEF TypeOK, PacketCounts, Fields
    <3>2. fetch_add(counters.received_bytes, got.len) \in 0 .. U64 - 1
      BY <3>1, ModRange, RecvAssumption DEF fetch_add
    <3> QED BY <1>9, <3>2 DEF CountBytes, TypeOK, PacketCounts
  <2>3. TypeOK'
    BY <1>9, <2>1, <2>2 DEF CountBytes, TypeOK, InFlight, kernel, tokio, slots, app
  <2> QED BY <2>1, <2>3, SlotFrame DEF InFlight
<1>10. CASE CheckFails
  <2>1. UNCHANGED <<slots, handed, lost>> /\ pc = "check" /\ pc' = "recv"
    BY <1>10 DEF CheckFails
  <2>2. counters' \in PacketCounts
    <3>1. counters.rejected \in Nat
      BY RecvAssumption DEF TypeOK, PacketCounts, Fields
    <3>2. fetch_add(counters.rejected, 1) \in 0 .. U64 - 1
      BY <3>1, ModRange, RecvAssumption DEF fetch_add
    <3> QED BY <1>10, <3>2 DEF CheckFails, TypeOK, PacketCounts
  <2>3. TypeOK'
    BY <1>10, <2>1, <2>2 DEF CheckFails, TypeOK, InFlight, kernel, tokio, slots, app
  <2> QED BY <2>1, <2>3, SlotFrame DEF InFlight
<1>11. CASE CheckPasses
  BY <1>11, CheckPassesPreserves
<1>12. CASE NoMeta
  <2>1. ~(NumBufs <= NumMeta)
    <3>1. filled < NumBufs /\ filled >= NumMeta /\ filled \in Nat
      BY <1>12, RecvAssumption DEF NoMeta, TypeOK, InFlight
    <3> QED BY <3>1, RecvAssumption
  <2>2. LeaveWhile /\ lost' = lost + 1 /\ pc \in {"recv", "check"}
        /\ UNCHANGED <<queue, sockErr, arrived, errors, event, ready, waker, counters, app>>
    BY ONLY <1>12 DEF NoMeta, kernel, tokio
  <2>3. queue \in Seq(Packets) /\ sockErr \in ErrorKinds \cup {"none"}
        /\ ready \in BOOLEAN /\ lost \in Nat
    BY DEF TypeOK
  <2>4. queue' \in Seq(Packets) /\ sockErr' \in ErrorKinds \cup {"none"}
        /\ ready' \in BOOLEAN /\ lost' \in Nat
    BY ONLY <2>2, <2>3
  <2> QED BY <2>1, <2>2, <2>4, LeaveWhilePreserves
<1>13. CASE UNCHANGED vars
  <2>1. UNCHANGED <<slots, handed, lost>> /\ pc' = pc
    BY <1>13 DEF vars
  <2>2. TypeOK'
    BY <1>13 DEF TypeOK, InFlight, vars, kernel, tokio, slots, app
  <2> QED BY <2>1, <2>2, SlotFrame DEF InFlight, NothingLost
<1> QED
  BY <1>1, <1>2, <1>3, <1>4, <1>5, <1>6, <1>7, <1>8, <1>9, <1>10, <1>11, <1>12, <1>13
  DEF Next, Driver

\* poll_recv stays within the buffers Quinn provides and its counters within
\* their width: TypeOK always holds.
THEOREM TypesHold == Spec => []TypeOK
<1>1. SlotInv => TypeOK
  BY DEF SlotInv
<1> QED BY <1>1, SlotInit, SlotStep, PTL DEF Spec

\* poll_recv hands Quinn nothing but authentic packets: OnlyAuthentic always
\* holds, whatever was read into the same slots before.
THEOREM OnlyAuthenticHandedOver == Spec => []OnlyAuthentic
<1>1. SlotInv => OnlyAuthentic
  BY DEF SlotInv, OnlyAuthentic
<1> QED BY <1>1, SlotInit, SlotStep, PTL DEF Spec

\* It drops none of the packets it has read, whichever errors end its batches:
\* NothingLost always holds.
THEOREM NoneIsLost == Spec => []NothingLost
<1>1. SlotInv => NothingLost
  BY DEF SlotInv
<1> QED BY <1>1, SlotInit, SlotStep, PTL DEF Spec

-----------------------------------------------------------------------------
(* Wake-ups.                                                               *)

\* The inductive invariant of the readiness: what is on the socket has its
\* event ahead or its readiness set, and a parked task has its waker registered
\* and went to sleep without readiness.
WakeInv ==
    /\ queue # <<>> \/ sockErr # "none" => event \/ ready
    /\ pc = "parked" => waker /\ ~ready

\* Every step keeps WakeInv; in particular readiness is cleared only when the
\* socket has been found empty, and the only way to sleep is without readiness.
LEMMA WakeStep == WakeInv /\ [Next]_vars => WakeInv'
<1> SUFFICES ASSUME WakeInv, [Next]_vars PROVE WakeInv'
  OBVIOUS
<1> USE DEF WakeInv, kernel, tokio
<1>1. CASE Arrive
  BY <1>1 DEF Arrive
<1>2. CASE RaiseError
  BY <1>2 DEF RaiseError
<1>3. CASE React
  BY <1>3 DEF React
<1>4. CASE WakeOtherwise \/ QuinnPoll \/ PollRecvReady \/ PollRecvReadyFails
  BY <1>4 DEF WakeOtherwise, QuinnPoll, PollRecvReady, PollRecvReadyFails
<1>5. CASE PollRecvPending
  BY <1>5 DEF PollRecvPending
<1>6. CASE BuffersFull \/ TryRecvErrDropped \/ NoMeta
  BY <1>6 DEF BuffersFull, TryRecvErrDropped, NoMeta, LeaveWhile
<1>7. CASE TryRecvOk
  BY <1>7 DEF TryRecvOk
<1>8. CASE TryRecvWouldBlock
  BY <1>8 DEF TryRecvWouldBlock, LeaveWhile
<1>9. CASE TryRecvErrReturned
  BY <1>9 DEF TryRecvErrReturned
<1>10. CASE CountBytes \/ CheckFails \/ CheckPasses
  BY <1>10 DEF CountBytes, CheckFails, CheckPasses
<1>11. CASE Load \/ CountsReturns
  <2>1. UNCHANGED <<kernel, tokio, pc>>
    BY ONLY <1>11 DEF Load, CountsReturns
  <2> QED BY ONLY <2>1, WakeInv DEF WakeInv, kernel, tokio
<1>12. CASE UNCHANGED vars
  BY <1>12 DEF vars
<1> QED
  BY <1>1, <1>2, <1>3, <1>4, <1>5, <1>6, <1>7, <1>8, <1>9, <1>10, <1>11, <1>12
  DEF Next, Driver

\* poll_recv never sleeps on a socket that has something to read without a
\* wake-up on its way: NoLostWakeup always holds.
THEOREM WakeupsAreNotLost == Spec => []NoLostWakeup
<1>1. Init => WakeInv
  BY DEF Init, WakeInv
<1>2. WakeInv => NoLostWakeup
  BY DEF WakeInv, NoLostWakeup
<1> QED BY <1>1, <1>2, WakeStep, PTL DEF Spec

-----------------------------------------------------------------------------
(* The counters.                                                           *)

\* The datagrams that were read, by what became of them.
Outcomes == counters.rejected + Len(handed) + filled + (IF InFlight THEN 1 ELSE 0) + lost

\* All that is summed up are natural numbers.
LEMMA OutcomeTypes ==
    ASSUME SlotInv
    PROVE  /\ counters.received \in Nat /\ counters.rejected \in Nat
           /\ Len(handed) \in Nat /\ filled \in Nat /\ lost \in Nat
           /\ Outcomes \in Nat
<1>1. counters.received \in Nat /\ counters.rejected \in Nat
  <2>1. counters \in PacketCounts
    BY DEF SlotInv, TypeOK
  <2>2. U64 \in Nat
    BY RecvAssumption
  <2> QED BY ONLY <2>1, <2>2 DEF PacketCounts, Fields
<1>2. Len(handed) \in Nat
  BY LenProperties DEF SlotInv
<1>3. filled \in Nat /\ lost \in Nat
  <2>1. filled \in 0 .. NumBufs /\ lost \in Nat
    BY DEF SlotInv, TypeOK
  <2>2. NumBufs \in Nat
    BY RecvAssumption
  <2> QED BY ONLY <2>1, <2>2
<1> QED BY <1>1, <1>2, <1>3 DEF Outcomes

\* The end of the while loop moves the filled slots to what was handed over.
LEMMA LeaveWhileOutcomes ==
    ASSUME SlotInv, LeaveWhile
    PROVE  Len(handed') = Len(handed) + filled /\ filled' = 0 /\ ~InFlight'
<1>1. handed \in Seq(Authentic) /\ Filled \in Seq(Authentic) /\ Len(Filled) = filled
  BY FilledIsSequence DEF SlotInv
<1>2. handed' = handed \o Filled /\ filled' = 0 /\ pc' \in {"woken", "top"}
  BY DEF LeaveWhile
<1> QED BY <1>1, <1>2, ConcatProperties DEF InFlight

\* Only reading a datagram and rejecting one change the counters of the balance;
\* every other step moves datagrams from one outcome to another.
LEMMA OutcomesElsewhere ==
    ASSUME SlotInv, [Next]_vars, ~TryRecvOk, ~CheckFails
    PROVE  Outcomes' = Outcomes /\ counters'.received = counters.received
<1>0. /\ counters.received \in Nat /\ counters.rejected \in Nat
      /\ Len(handed) \in Nat /\ filled \in Nat /\ lost \in Nat
      /\ Outcomes \in Nat /\ U64 \in Nat \ {0}
  BY OutcomeTypes, RecvAssumption
<1> USE <1>0
<1>1. CASE CheckPasses
  <2>1. Outcomes' = Outcomes /\ counters' = counters
    <3>1. InFlight /\ ~InFlight' /\ filled' = filled + 1 /\ UNCHANGED <<counters, handed, lost>>
      BY <1>1 DEF CheckPasses, InFlight
    <3>2. Outcomes = counters.rejected + Len(handed) + filled + 1 + lost
      BY <3>1 DEF Outcomes
    <3>3. Outcomes' = counters.rejected + Len(handed) + (filled + 1) + 0 + lost
      BY <3>1 DEF Outcomes
    <3> QED BY <3>1, <3>2, <3>3
  <2> QED BY <2>1
<1>2. CASE NoMeta
  <2>1. Outcomes' = Outcomes /\ counters' = counters
    <3>1. InFlight /\ LeaveWhile /\ lost' = lost + 1 /\ counters' = counters
      BY <1>2 DEF NoMeta, InFlight
    <3>2. Len(handed') = Len(handed) + filled /\ filled' = 0 /\ ~InFlight'
      BY <3>1, LeaveWhileOutcomes
    <3>3. Outcomes = counters.rejected + Len(handed) + filled + 1 + lost
      BY <3>1 DEF Outcomes
    <3>4. Outcomes' = counters.rejected + (Len(handed) + filled) + 0 + 0 + (lost + 1)
      BY <3>1, <3>2 DEF Outcomes
    <3> QED BY <3>1, <3>3, <3>4
  <2> QED BY <2>1
<1>3. CASE BuffersFull \/ TryRecvWouldBlock \/ TryRecvErrDropped
  <2>1. Outcomes' = Outcomes /\ counters' = counters
    <3>1. ~InFlight /\ LeaveWhile /\ UNCHANGED <<lost, counters>>
      BY <1>3 DEF BuffersFull, TryRecvWouldBlock, TryRecvErrDropped, InFlight
    <3>2. Len(handed') = Len(handed) + filled /\ filled' = 0 /\ ~InFlight'
      BY <3>1, LeaveWhileOutcomes
    <3>3. Outcomes = counters.rejected + Len(handed) + filled + 0 + lost
      BY <3>1 DEF Outcomes
    <3>4. Outcomes' = counters.rejected + (Len(handed) + filled) + 0 + 0 + lost
      BY <3>1, <3>2 DEF Outcomes
    <3> QED BY <3>1, <3>3, <3>4
  <2> QED BY <2>1
<1>4. CASE CountBytes
  <2>1. /\ counters'.received = counters.received
        /\ counters'.rejected = counters.rejected
    BY <1>4 DEF CountBytes, SlotInv, TypeOK, PacketCounts, Fields
  <2>2. Outcomes' = Outcomes
    BY <1>4, <2>1 DEF CountBytes, Outcomes, InFlight, slots
  <2> QED BY <2>1, <2>2
<1>5. CASE PollRecvReady
  <2>1. filled = 0 /\ filled' = 0
    BY <1>5 DEF PollRecvReady, SlotInv, NothingLost
  <2>2. Outcomes' = Outcomes /\ counters' = counters
    BY <1>5, <2>1 DEF PollRecvReady, Outcomes, InFlight
  <2> QED BY <2>2
<1>6. CASE \/ Arrive \/ RaiseError \/ React \/ WakeOtherwise \/ QuinnPoll \/ PollRecvPending
            \/ PollRecvReadyFails \/ TryRecvErrReturned \/ Load \/ CountsReturns
            \/ UNCHANGED vars
  <2>1. UNCHANGED <<counters, handed, filled, lost>> /\ (InFlight' <=> InFlight)
    BY <1>6 DEF Arrive, RaiseError, React, WakeOtherwise, QuinnPoll, PollRecvPending,
                 PollRecvReadyFails, TryRecvErrReturned, Load, CountsReturns, vars,
                 slots, InFlight
  <2>2. Outcomes' = Outcomes
    BY <2>1 DEF Outcomes
  <2> QED BY <2>1, <2>2
<1> QED
  BY <1>1, <1>2, <1>3, <1>4, <1>5, <1>6 DEF Next, Driver

\* Every step keeps the balance.
LEMMA AccountedStep == SlotInv /\ Accounted /\ [Next]_vars => Accounted'
<1> SUFFICES ASSUME SlotInv, Accounted, [Next]_vars PROVE Accounted'
  OBVIOUS
<1>1. counters.received = Outcomes % U64
  BY DEF Accounted, Outcomes
<1>2. SUFFICES counters'.received = Outcomes' % U64
  BY DEF Accounted, Outcomes
<1>0. /\ counters.received \in Nat /\ counters.rejected \in Nat
      /\ Len(handed) \in Nat /\ filled \in Nat /\ lost \in Nat
      /\ Outcomes \in Nat /\ U64 \in Nat \ {0}
  BY OutcomeTypes, RecvAssumption
<1> USE <1>0
<1>3. CASE TryRecvOk
  <2>1. /\ counters'.received = fetch_add(counters.received, 1)
        /\ counters'.rejected = counters.rejected
    BY <1>3 DEF TryRecvOk, SlotInv, TypeOK, PacketCounts, Fields
  <2>2. Outcomes' = Outcomes + 1
    BY <1>3, <2>1 DEF TryRecvOk, Outcomes, InFlight
  <2>3. ((Outcomes % U64) + 1) % U64 = (Outcomes + 1) % U64
    BY ModAdd, RecvAssumption, Zenon
  <2> QED BY <1>1, <2>1, <2>2, <2>3 DEF fetch_add
<1>4. CASE CheckFails
  <2> DEFINE rest == Len(handed) + filled + lost
  <2>1. /\ counters'.received = counters.received
        /\ counters'.rejected = (counters.rejected + 1) % U64
    BY <1>4 DEF CheckFails, SlotInv, TypeOK, PacketCounts, Fields, fetch_add
  <2>2. Outcomes = (counters.rejected + 1) + rest
    BY <1>4 DEF CheckFails, Outcomes, InFlight
  <2>3. (counters.rejected + 1) % U64 \in Nat
    BY ModRange, RecvAssumption
  <2>4. Outcomes' = ((counters.rejected + 1) % U64) + rest
    BY <1>4, <2>1, <2>3 DEF CheckFails, Outcomes, InFlight, slots
  <2>5. (((counters.rejected + 1) % U64) + rest) % U64 = ((counters.rejected + 1) + rest) % U64
    <3>1. counters.rejected + 1 \in Nat /\ rest \in Nat
      OBVIOUS
    <3> HIDE DEF rest
    <3> QED BY <3>1, ModAdd, Zenon
  <2> QED BY <1>1, <2>1, <2>2, <2>4, <2>5
<1> QED
  BY <1>1, <1>3, <1>4, OutcomesElsewhere

\* The counters agree with what became of the datagrams, however often they
\* wrap: Accounted always holds.
THEOREM CountersAddUp == Spec => []Accounted
<1>1. Init => Accounted
  <2> SUFFICES ASSUME Init PROVE Accounted
    OBVIOUS
  <2>1. counters.received = 0 /\ counters.rejected = 0
    BY DEF Init, ZeroCounts, Fields
  <2>2. Len(handed) = 0 /\ filled = 0 /\ lost = 0 /\ ~InFlight
    BY DEF Init, InFlight
  <2>3. 0 % U64 = 0
    BY RecvAssumption
  <2> QED BY <2>1, <2>2, <2>3 DEF Accounted
<1> QED BY <1>1, SlotInit, SlotStep, AccountedStep, PTL DEF Spec

-----------------------------------------------------------------------------
(* What counts returns.                                                    *)

\* A step in which no fetch_add exceeds the width of its counter.
NoOverflow ==
    /\ TryRecvOk => counters.received + 1 < U64
    /\ CountBytes => counters.received_bytes + got.len < U64
    /\ CheckFails => counters.rejected + 1 < U64

\* The inductive invariant of counts: its last result is not ahead of the
\* counters, and what it has loaded since lies between the two.
LoadInv ==
    \A field \in Fields :
        /\ last[field] <= counters[field]
        /\ field \in loaded => /\ last[field] <= partial[field]
                               /\ partial[field] <= counters[field]

\* Without overflow no counter goes back.
LEMMA CountersGrow ==
    ASSUME TypeOK, [Next]_vars, [NoOverflow]_vars
    PROVE  \A field \in Fields : counters'[field] >= counters[field]
<1>1. /\ counters \in [Fields -> 0 .. U64 - 1] /\ got.len \in Nat
      /\ U64 \in Nat \ {0}
  BY RecvAssumption DEF TypeOK, PacketCounts
<1>2. \A n \in Nat, k \in Nat : n + k < U64 => fetch_add(n, k) = n + k
  BY ONLY <1>1 DEF fetch_add
<1>3. CASE TryRecvOk
  <2>1. counters.received + 1 < U64 /\ counters' = [counters EXCEPT !.received = fetch_add(@, 1)]
    BY <1>3, Zenon DEF TryRecvOk, NoOverflow, vars, tokio
  <2> QED BY ONLY <1>1, <1>2, <2>1 DEF Fields
<1>4. CASE CountBytes
  <2>1. /\ counters.received_bytes + got.len < U64
        /\ counters' = [counters EXCEPT !.received_bytes = fetch_add(@, got.len)]
    BY <1>4 DEF CountBytes, NoOverflow, vars
  <2> QED BY ONLY <1>1, <1>2, <2>1 DEF Fields
<1>5. CASE CheckFails
  <2>1. counters.rejected + 1 < U64 /\ counters' = [counters EXCEPT !.rejected = fetch_add(@, 1)]
    BY <1>5 DEF CheckFails, NoOverflow, vars
  <2> QED BY ONLY <1>1, <1>2, <2>1 DEF Fields
<1>6. CASE counters' = counters
  BY ONLY <1>1, <1>6
<1> QED
  BY <1>3, <1>4, <1>5, <1>6, Zenon
  DEF Next, Driver, Arrive, RaiseError, React, WakeOtherwise, QuinnPoll, PollRecvReady,
      PollRecvPending, PollRecvReadyFails, BuffersFull, TryRecvWouldBlock, TryRecvErrDropped,
      TryRecvErrReturned, CheckPasses, NoMeta, Load, CountsReturns, vars

\* A load takes the counter as it is, and a result is what was loaded.
LEMMA LoadStep ==
    ASSUME TypeOK, TypeOK', LoadInv, [Next]_vars, [NoOverflow]_vars
    PROVE  LoadInv' /\ [\A field \in Fields : last'[field] >= last[field]]_last
<1>1. /\ \A field \in Fields : /\ counters[field] \in Int /\ counters'[field] \in Int
                              /\ partial[field] \in Int /\ last[field] \in Int
      /\ partial \in [Fields -> 0 .. U64 - 1]
  <2>1. /\ counters \in PacketCounts /\ counters' \in PacketCounts
        /\ partial \in PacketCounts /\ last \in PacketCounts
    BY Zenon DEF TypeOK, PacketCounts
  <2> QED BY ONLY <2>1, RecvAssumption DEF PacketCounts
<1>2. \A field \in Fields : counters'[field] >= counters[field]
  BY CountersGrow
<1>3. CASE Load
  <2>1. PICK field \in Fields \ loaded :
           /\ partial' = [partial EXCEPT ![field] = counters[field]]
           /\ loaded' = loaded \cup {field}
    BY <1>3, Zenon DEF Load
  <2>2. UNCHANGED <<last, counters>>
    BY <1>3 DEF Load
  <2> QED BY ONLY LoadInv, <1>1, <2>1, <2>2 DEF LoadInv
<1>4. CASE CountsReturns
  <2>1. loaded = Fields /\ last' = partial /\ loaded' = {} /\ UNCHANGED <<counters, partial>>
    BY <1>4 DEF CountsReturns
  <2> QED BY ONLY LoadInv, <1>1, <2>1 DEF LoadInv
<1>5. CASE UNCHANGED app
  <2>1. UNCHANGED <<loaded, partial, last>>
    BY <1>5 DEF app
  <2> QED BY ONLY LoadInv, <1>1, <1>2, <2>1 DEF LoadInv
<1> QED
  BY <1>3, <1>4, <1>5, Zenon
  DEF Next, Driver, Arrive, RaiseError, React, WakeOtherwise, QuinnPoll, PollRecvReady,
      PollRecvPending, PollRecvReadyFails, BuffersFull, TryRecvOk, TryRecvWouldBlock,
      TryRecvErrDropped, TryRecvErrReturned, CountBytes, CheckFails, CheckPasses, NoMeta, vars

\* As long as no counter exceeds its width, what counts reports never goes back
\* from one call to the next, in whatever order its loads are taken and however
\* they interleave with poll_recv: CountsNeverGoBack holds.
THEOREM ReportsNeverGoBack == Spec /\ [][NoOverflow]_vars => CountsNeverGoBack
<1>1. Init => LoadInv
  BY DEF Init, LoadInv, ZeroCounts
<1>2. SlotInv => TypeOK
  BY DEF SlotInv
<1>3. SlotInv' => TypeOK'
  BY DEF SlotInv
<1>4. TypeOK /\ TypeOK' /\ LoadInv /\ [Next]_vars /\ [NoOverflow]_vars
      => LoadInv' /\ [\A field \in Fields : last'[field] >= last[field]]_last
  BY LoadStep
<1> QED BY <1>1, <1>2, <1>3, <1>4, SlotInit, SlotStep, PTL DEF Spec, CountsNeverGoBack

\* While no counter exceeds its width, the datagrams received are exactly those
\* rejected, handed over, in a slot, under examination or lost.
Exact == counters.received = Outcomes

\* Every step keeps the exact balance.
LEMMA ExactStep ==
    ASSUME SlotInv, Exact, [Next]_vars, [NoOverflow]_vars
    PROVE  Exact'
<1>1. /\ counters.received \in Nat /\ counters.rejected \in Nat
      /\ Len(handed) \in Nat /\ filled \in Nat /\ lost \in Nat /\ U64 \in Nat \ {0}
  BY OutcomeTypes, RecvAssumption
<1>2. counters \in [Fields -> 0 .. U64 - 1]
  BY Zenon DEF SlotInv, TypeOK, PacketCounts
<1>3. CASE TryRecvOk
  <2>1. /\ counters.received + 1 < U64
        /\ counters' = [counters EXCEPT !.received = fetch_add(@, 1)]
        /\ UNCHANGED <<handed, filled, lost>> /\ ~InFlight /\ InFlight'
    BY <1>3 DEF TryRecvOk, NoOverflow, InFlight, vars, tokio
  <2>2. counters'.received = counters.received + 1 /\ counters'.rejected = counters.rejected
    BY ONLY <1>1, <1>2, <2>1 DEF Fields, fetch_add
  <2> QED BY ONLY Exact, <1>1, <2>1, <2>2 DEF Exact, Outcomes
<1>4. CASE CheckFails
  <2>1. /\ counters.rejected + 1 < U64
        /\ counters' = [counters EXCEPT !.rejected = fetch_add(@, 1)]
        /\ UNCHANGED <<handed, filled, lost>> /\ InFlight /\ ~InFlight'
    BY <1>4 DEF CheckFails, NoOverflow, InFlight, vars, slots
  <2>2. counters'.received = counters.received /\ counters'.rejected = counters.rejected + 1
    BY ONLY <1>1, <1>2, <2>1 DEF Fields, fetch_add
  <2> QED BY ONLY Exact, <1>1, <2>1, <2>2 DEF Exact, Outcomes
<1> QED BY <1>3, <1>4, OutcomesElsewhere DEF Exact

\* As long as no counter exceeds its width, the counters themselves never have
\* more datagrams rejected than received (socket.rs:40-41): where a PacketCounts
\* does, the two were loaded at different times.
THEOREM RejectedWereReceived ==
    Spec /\ [][NoOverflow]_vars => [](counters.rejected <= counters.received)
<1>1. Init => Exact
  <2> SUFFICES ASSUME Init PROVE Exact
    OBVIOUS
  <2>1. counters.received = 0 /\ counters.rejected = 0
    BY DEF Init, ZeroCounts, Fields
  <2>2. Len(handed) = 0 /\ filled = 0 /\ lost = 0 /\ ~InFlight
    BY DEF Init, InFlight
  <2> QED BY ONLY <2>1, <2>2 DEF Exact, Outcomes
<1>2. SlotInv /\ Exact /\ [Next]_vars /\ [NoOverflow]_vars => Exact'
  BY ExactStep
<1>3. SlotInv /\ Exact => counters.rejected <= counters.received
  <2> SUFFICES ASSUME SlotInv, Exact
               PROVE  counters.rejected <= counters.received
    OBVIOUS
  <2>1. /\ counters.rejected \in Nat /\ Len(handed) \in Nat /\ filled \in Nat /\ lost \in Nat
    BY OutcomeTypes
  <2> QED BY ONLY Exact, <2>1 DEF Exact, Outcomes
<1> QED BY <1>1, <1>2, <1>3, SlotInit, SlotStep, PTL DEF Spec

=============================================================================
