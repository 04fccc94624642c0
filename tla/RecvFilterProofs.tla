-------------------------- MODULE RecvFilterProofs --------------------------
(***************************************************************************)
(* poll_recv implements the filter of AuthFilter whenever there is a       *)
(* RecvMeta for every buffer: the packet being examined counts as still    *)
(* inbound, and the slots already filled count as delivered.               *)
(***************************************************************************)
EXTENDS RecvPathProofs

\* The abstract state.
AbsInbound == Examined \o queue
AbsDelivered == handed \o Filled

\* The packet under examination, as the slot invariant knows it.
LEMMA ExaminedValue ==
    ASSUME SlotInv
    PROVE  /\ Examined = IF InFlight THEN <<PacketAt(got.addr, filled)>> ELSE <<>>
           /\ Examined \in Seq(Packets)
<1>1. CASE InFlight
  <2>1. Datagram = bufs[filled] /\ PacketAt(got.addr, filled) \in Packets
    BY <1>1, ExaminedIsPacket
  <2> QED BY <1>1, <2>1 DEF Examined, PacketAt
<1>2. CASE ~InFlight
  BY <1>2 DEF Examined
<1> QED BY <1>1, <1>2

\* Arrivals go to the end of what is inbound.
LEMMA ArriveIsArrive ==
    ASSUME SlotInv, SlotInv', Arrive
    PROVE  Filter!Arrive
<1>1. PICK p \in Packets : queue' = Append(queue, p)
  BY DEF Arrive
<1>2. UNCHANGED <<pc, filled, got, bufs, metas, counters, handed>>
  BY DEF Arrive, slots
<1>3. Examined' = Examined /\ Filled' = Filled
  BY <1>2 DEF Examined, InFlight, Datagram, Filled, Slot
<1>4. queue \in Seq(Packets) /\ Examined \in Seq(Packets)
  BY ExaminedValue DEF SlotInv, TypeOK
<1>5. Examined \o Append(queue, p) = Append(Examined \o queue, p)
  <2>1. <<p>> \in Seq(Packets)
    OBVIOUS
  <2>2. Append(queue, p) = queue \o <<p>>
    BY <1>4, AppendIsConcat
  <2>3. Examined \o queue \in Seq(Packets)
    BY <1>4, ConcatProperties
  <2>4. Append(Examined \o queue, p) = (Examined \o queue) \o <<p>>
    BY <2>3, AppendIsConcat
  <2> QED BY <1>4, <2>1, <2>2, <2>4, ConcatAssociative
<1> QED BY <1>1, <1>2, <1>3, <1>5 DEF Filter!Arrive

\* The oldest inbound packet while one is being examined.
LEMMA ExaminedIsOldest ==
    ASSUME SlotInv, InFlight
    PROVE  /\ AbsInbound # <<>>
           /\ Head(AbsInbound) = PacketAt(got.addr, filled)
           /\ Tail(AbsInbound) = queue
<1> DEFINE p == PacketAt(got.addr, filled)
<1>1. Examined = <<p>> /\ p \in Packets /\ queue \in Seq(Packets)
  BY ExaminedValue, ExaminedIsPacket DEF SlotInv, TypeOK
<1> HIDE DEF p
<1> QED BY <1>1 DEF AbsInbound, p

\* Reading a datagram changes neither what is inbound nor what is delivered.
LEMMA TryRecvOkIsStutter ==
    ASSUME SlotInv, SlotInv', TryRecvOk
    PROVE  UNCHANGED <<AbsInbound, AbsDelivered>> /\ counters'.rejected = counters.rejected
<1> DEFINE p == Head(queue)
<1>1. /\ queue # <<>> /\ queue \in Seq(Packets) /\ queue' = Tail(queue)
      /\ ~InFlight /\ InFlight'
      /\ bufs' = [bufs EXCEPT ![filled] = p.datagram]
      /\ got' = [len |-> p.datagram.len, addr |-> p.src]
      /\ UNCHANGED <<filled, metas, handed>>
  BY DEF TryRecvOk, SlotInv, TypeOK, InFlight
<1>2. p \in Packets
  BY <1>1, HeadTailProperties
<1> HIDE DEF p
<1>3. filled \in 0 .. NumBufs - 1 /\ bufs \in [0 .. NumBufs - 1 -> Buffer]
  BY RecvAssumption DEF TryRecvOk, SlotInv, TypeOK
<1>4. Examined' = <<p>>
  <2>1. PacketAt(got.addr, filled)' = p
    BY <1>1, <1>2, <1>3, RecvAssumption DEF PacketAt
  <2>2. Examined' = (IF InFlight THEN <<PacketAt(got.addr, filled)>> ELSE <<>>)'
    <3>1. InFlight' => Datagram' = bufs'[filled']
      <4>1. got'.len = bufs'[filled'].len
        BY <1>1 DEF SlotInv
      <4>2. bufs'[filled'] = p.datagram
        BY <1>1, <1>3
      <4> QED BY <4>1, <4>2, <1>2, WholeDatagram DEF Datagram
    <3> QED BY <1>1, <3>1 DEF Examined, PacketAt
  <2> QED BY <1>1, <2>1, <2>2
<1>5. Examined' \o queue' = Examined \o queue
  <2>1. Examined = <<>>
    BY <1>1 DEF Examined
  <2>2. <<p>> \o Tail(queue) = queue
    BY <1>1 DEF p
  <2>3. <<>> \o queue = queue
    BY <1>1, ConcatEmptySeq
  <2> QED BY <1>1, <1>4, <2>1, <2>2, <2>3
<1>6. Filled' = Filled
  <2>1. \A i \in 1 .. filled : bufs'[i - 1] = bufs[i - 1]
    BY <1>1, <1>3, RecvAssumption
  <2>2. \A i \in 1 .. filled : Slot(i - 1)' = Slot(i - 1)
    BY <1>1, <2>1 DEF Slot
  <2> QED BY <1>1, <2>2 DEF Filled
<1>7. counters'.rejected = counters.rejected
  BY DEF TryRecvOk, SlotInv, TypeOK, PacketCounts, Fields
<1> QED BY <1>1, <1>5, <1>6, <1>7 DEF AbsInbound, AbsDelivered

\* Rejecting the examined datagram is the filter's Reject.
LEMMA CheckFailsIsReject ==
    ASSUME SlotInv, CheckFails
    PROVE  Filter!Reject
<1>1. /\ InFlight /\ ~InFlight' /\ pc # "failed" /\ pc' # "failed"
      /\ UNCHANGED <<queue, filled, bufs, metas, handed>>
  BY DEF CheckFails, InFlight, kernel, slots
<1>2. PacketAt(got.addr, filled) \notin Authentic
  BY <1>1, ExaminedIsPacket DEF CheckFails
<1>3. AbsInbound # <<>> /\ Head(AbsInbound) \notin Authentic /\ Tail(AbsInbound) = queue
  BY <1>1, <1>2, ExaminedIsOldest
<1>4. AbsInbound' = queue
  <2>1. Examined' = <<>> /\ queue \in Seq(Packets)
    BY <1>1 DEF Examined, SlotInv, TypeOK
  <2> QED BY <1>1, <2>1, ConcatEmptySeq DEF AbsInbound
<1>5. AbsDelivered' = AbsDelivered
  BY <1>1 DEF AbsDelivered, Filled, Slot
<1>6. counters'.rejected = (counters.rejected + 1) % U64
  BY DEF CheckFails, fetch_add, SlotInv, TypeOK, PacketCounts, Fields
<1> QED BY <1>1, <1>3, <1>4, <1>5, <1>6 DEF Filter!Reject, AbsInbound, AbsDelivered

\* Filling a slot with the examined datagram is the filter's Deliver.
LEMMA CheckPassesIsDeliver ==
    ASSUME SlotInv, SlotInv', CheckPasses
    PROVE  Filter!Deliver
<1> DEFINE p == PacketAt(got.addr, filled)
<1>1. /\ InFlight /\ ~InFlight' /\ pc # "failed" /\ pc' # "failed"
      /\ filled' = filled + 1 /\ filled \in Nat /\ filled < NumMeta
      /\ metas' = [metas EXCEPT ![filled] = [addr |-> got.addr, len |-> got.len, stride |-> got.len]]
      /\ UNCHANGED <<queue, bufs, handed, counters>>
  BY RecvAssumption DEF CheckPasses, InFlight, kernel, SlotInv, TypeOK
<1>2. p \in Authentic
  BY <1>1, ExaminedIsPacket DEF CheckPasses
<1>3. AbsInbound # <<>> /\ Head(AbsInbound) = p /\ Tail(AbsInbound) = queue
  BY <1>1, ExaminedIsOldest
<1>4. AbsInbound' = queue
  <2>1. Examined' = <<>> /\ queue \in Seq(Packets)
    BY <1>1 DEF Examined, SlotInv, TypeOK
  <2> QED BY <1>1, <2>1, ConcatEmptySeq DEF AbsInbound
<1>5. Filled' = Append(Filled, p)
  <2>1. metas \in [0 .. NumMeta - 1 -> [addr : Addr, len : Nat, stride : Nat]]
    BY DEF SlotInv, TypeOK
  <2>2. filled \in 0 .. NumMeta - 1
    BY <1>1, RecvAssumption
  <2>3. \A i \in 1 .. filled : Slot(i - 1)' = Slot(i - 1)
    <3>1. \A i \in 1 .. filled : metas'[i - 1] = metas[i - 1]
      BY <1>1, <2>1, <2>2, RecvAssumption
    <3> QED BY <1>1, <3>1 DEF Slot
  <2>4. [src |-> metas'[filled].addr,
         datagram |-> [bufs'[filled] EXCEPT !.len = metas'[filled].len]] = p
    <3>1. metas'[filled].addr = got.addr /\ metas'[filled].len = got.len
      BY <1>1, <2>1, <2>2
    <3>2. [bufs[filled] EXCEPT !.len = got.len] = bufs[filled]
      BY <1>1, ExaminedIsPacket DEF Datagram
    <3> QED BY <1>1, <3>1, <3>2 DEF PacketAt
  <2>5. Filled \in Seq(Authentic) /\ Len(Filled) = filled
    BY FilledIsSequence
  <2>6. /\ Filled' = [i \in 1 .. filled + 1 |-> Slot(i - 1)']
        /\ \A i \in 1 .. filled : Filled[i] = Slot(i - 1)
    BY <1>1 DEF Filled
  <2>7. \A i \in 1 .. filled : Filled'[i] = Filled[i]
    BY <1>1, <2>3, <2>6
  <2>8. Filled'[filled + 1] = p
    <3>1. (filled + 1) - 1 = filled /\ filled + 1 \in 1 .. filled + 1
      BY <1>1
    <3> QED BY <2>4, <2>6, <3>1 DEF Slot
  <2> HIDE DEF p
  <2>9. Append(Filled, p) \in Seq(Authentic) /\ Len(Append(Filled, p)) = filled + 1
        /\ (\A i \in 1 .. filled : Append(Filled, p)[i] = Filled[i])
        /\ Append(Filled, p)[filled + 1] = p
    BY <1>2, <2>5, AppendProperties
  <2>10. \A i \in 1 .. filled + 1 : Filled'[i] = Append(Filled, p)[i]
    BY <1>1, <2>7, <2>8, <2>9
  <2>11. Filled' \in Seq(Authentic) /\ Len(Filled') = filled + 1
    <3>1. \A i \in 1 .. filled + 1 : Filled'[i] \in Authentic
      BY <1>1, <1>2, <2>5, <2>7, <2>8
    <3>2. Filled' = [i \in 1 .. filled + 1 |-> Filled'[i]]
      BY <2>6
    <3> QED BY <1>1, <3>1, <3>2
  <2> QED BY <2>9, <2>10, <2>11, SeqEqual
<1>6. AbsDelivered' = Append(AbsDelivered, p)
  <2>1. handed \in Seq(Authentic) /\ Filled \in Seq(Authentic)
    BY FilledIsSequence DEF SlotInv
  <2> HIDE DEF p
  <2>2. <<p>> \in Seq(Authentic)
    BY <1>2
  <2>3. Append(Filled, p) = Filled \o <<p>>
    BY <1>2, <2>1, AppendIsConcat
  <2>4. handed \o Filled \in Seq(Authentic)
    BY <2>1, ConcatProperties
  <2>5. Append(handed \o Filled, p) = (handed \o Filled) \o <<p>>
    BY <1>2, <2>4, AppendIsConcat
  <2> QED BY <1>1, <1>5, <2>1, <2>2, <2>3, <2>5, ConcatAssociative DEF AbsDelivered
<1> QED BY <1>1, <1>2, <1>3, <1>4, <1>6 DEF Filter!Deliver, AbsInbound, AbsDelivered

\* Returning the filled slots to Quinn changes nothing that is observed.
LEMMA LeaveWhileIsStutter ==
    ASSUME SlotInv, LeaveWhile, pc = "recv", UNCHANGED queue
    PROVE  UNCHANGED <<AbsInbound, AbsDelivered>> /\ pc' # "failed"
<1>1. /\ handed' = handed \o Filled /\ filled' = 0 /\ pc' \in {"woken", "top"}
  BY DEF LeaveWhile
<1>2. Filled' = <<>>
  BY <1>1 DEF Filled
<1>3. handed \o Filled \in Seq(Authentic)
  BY FilledIsSequence, ConcatProperties DEF SlotInv
<1>4. Examined = <<>> /\ Examined' = <<>>
  BY <1>1 DEF Examined, InFlight
<1> QED BY <1>1, <1>2, <1>3, <1>4, ConcatEmptySeq DEF AbsInbound, AbsDelivered

\* Every step of poll_recv and of its surroundings is a step of the filter, or
\* changes nothing the filter speaks of.
LEMMA FilterStep ==
    ASSUME NumBufs <= NumMeta
    PROVE  SlotInv /\ SlotInv' /\ [Next]_vars => [Filter!Next]_(Filter!vars)
<1> SUFFICES ASSUME SlotInv, SlotInv', [Next]_vars PROVE [Filter!Next]_(Filter!vars)
  OBVIOUS
<1>0. ASSUME UNCHANGED <<AbsInbound, AbsDelivered>>, counters'.rejected = counters.rejected,
             (pc = "failed") <=> (pc' = "failed")
      PROVE  UNCHANGED Filter!vars
  BY <1>0 DEF Filter!vars, AbsInbound, AbsDelivered
<1>1. CASE Arrive
  BY <1>1, ArriveIsArrive DEF Filter!Next
<1>2. CASE TryRecvOk
  BY <1>0, <1>2, TryRecvOkIsStutter DEF TryRecvOk
<1>3. CASE CheckFails
  BY <1>3, CheckFailsIsReject DEF Filter!Next
<1>4. CASE CheckPasses
  BY <1>4, CheckPassesIsDeliver DEF Filter!Next
<1>5. CASE BuffersFull \/ TryRecvWouldBlock \/ TryRecvErrDropped
  <2>1. LeaveWhile /\ pc = "recv" /\ UNCHANGED queue /\ counters' = counters
    BY <1>5 DEF BuffersFull, TryRecvWouldBlock, TryRecvErrDropped, kernel
  <2> QED BY <1>0, <2>1, LeaveWhileIsStutter
<1>6. CASE NoMeta
  <2>1. filled < NumBufs /\ filled >= NumMeta /\ filled \in Nat
    BY <1>6, RecvAssumption DEF NoMeta, SlotInv, TypeOK, InFlight
  <2> QED BY <2>1, RecvAssumption
<1>7. CASE PollRecvReadyFails \/ TryRecvErrReturned
  <2>1. /\ pc' = "failed" /\ ~InFlight /\ ~InFlight'
        /\ UNCHANGED <<queue, filled, bufs, metas, handed, counters>>
    BY <1>7 DEF PollRecvReadyFails, TryRecvErrReturned, InFlight, kernel, slots
  <2>2. UNCHANGED <<AbsInbound, AbsDelivered>>
    BY <2>1 DEF AbsInbound, AbsDelivered, Examined, Filled, Slot
  <2> QED BY <2>1, <2>2 DEF Filter!Next, Filter!Fail, AbsInbound, AbsDelivered
<1>8. CASE CountBytes
  <2>1. InFlight /\ InFlight' /\ UNCHANGED <<queue, filled, got, bufs, metas, handed>>
        /\ pc # "failed" /\ pc' # "failed"
    BY <1>8 DEF CountBytes, InFlight, kernel, slots
  <2>2. UNCHANGED <<AbsInbound, AbsDelivered>>
    BY <2>1 DEF AbsInbound, AbsDelivered, Examined, Datagram, Filled, Slot
  <2>3. counters'.rejected = counters.rejected
    BY <1>8 DEF CountBytes, SlotInv, TypeOK, PacketCounts, Fields
  <2> QED BY <1>0, <2>1, <2>2, <2>3
<1>9. CASE \/ RaiseError \/ React \/ WakeOtherwise \/ QuinnPoll \/ PollRecvReady
           \/ PollRecvPending \/ Load \/ CountsReturns \/ UNCHANGED vars
  <2>1. /\ UNCHANGED <<queue, filled, got, bufs, metas, handed, counters>>
        /\ InFlight' <=> InFlight
        /\ (pc = "failed") <=> (pc' = "failed")
    BY <1>9 DEF RaiseError, React, WakeOtherwise, QuinnPoll, PollRecvReady, PollRecvPending,
                Load, CountsReturns, vars, kernel, slots, InFlight, SlotInv, NothingLost
  <2>2. UNCHANGED <<AbsInbound, AbsDelivered>>
    BY <2>1 DEF AbsInbound, AbsDelivered, Examined, Datagram, Filled, Slot
  <2> QED BY <1>0, <2>1, <2>2
<1> QED
  BY <1>1, <1>2, <1>3, <1>4, <1>5, <1>6, <1>7, <1>8, <1>9 DEF Next, Driver

\* The packets poll_recv gives to Quinn are the authentic ones among those that
\* arrived, each once, unchanged and in the order of arrival, and every other
\* one is counted as rejected: ImplementsFilter, for any batch size that comes
\* with as many RecvMeta.
THEOREM RecvImplementsFilter ==
    ASSUME NumBufs <= NumMeta
    PROVE  Spec => ImplementsFilter
<1>1. Init => Filter!Init
  <2> SUFFICES ASSUME Init PROVE Filter!Init
    OBVIOUS
  <2>1. /\ queue = <<>> /\ handed = <<>> /\ filled = 0 /\ pc = "woken"
        /\ counters.rejected = 0
    BY DEF Init, ZeroCounts, Fields
  <2>2. Examined = <<>> /\ Filled = <<>>
    BY <2>1 DEF Examined, InFlight, Filled
  <2>3. Examined \o queue = <<>> /\ handed \o Filled = <<>>
    BY <2>1, <2>2
  <2> QED BY <2>1, <2>3 DEF Filter!Init
<1> QED BY <1>1, SlotInit, SlotStep, FilterStep, PTL DEF Spec, ImplementsFilter, Filter!Spec

=============================================================================
