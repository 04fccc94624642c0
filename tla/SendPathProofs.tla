--------------------------- MODULE SendPathProofs ---------------------------
(***************************************************************************)
(* Proofs about poll_send, for any number of senders, any split of the     *)
(* transmits and any size of the send buffer.                              *)
(***************************************************************************)
EXTENDS SendPath, TLAPS, SequenceTheorems, FiniteSetTheorems

-----------------------------------------------------------------------------
(* What is on its way out: only TrySendOk changes it.                      *)

\* Draining moves a datagram from the send buffer to the wire.
LEMMA DrainKeepsOut ==
    ASSUME wire \in Seq(Written), sndbuf \in Seq(Written), Drain
    PROVE  Out' = Out
<1> DEFINE w == Append(wire, Head(sndbuf))
           t == Tail(sndbuf)
<1>1. sndbuf # <<>> /\ wire' = w /\ sndbuf' = t
  BY DEF Drain
<1>2. Len(sndbuf) \in Nat /\ Len(sndbuf) > 0 /\ Len(wire) \in Nat
  BY <1>1, EmptySeq, LenProperties
<1>3. Head(sndbuf) \in Written /\ t \in Seq(Written) /\ Len(t) = Len(sndbuf) - 1
      /\ (\A i \in 1 .. Len(sndbuf) - 1 : t[i] = sndbuf[i + 1]) /\ Head(sndbuf) = sndbuf[1]
  BY <1>1, HeadTailProperties
<1>4. w \in Seq(Written) /\ Len(w) = Len(wire) + 1 /\ w[Len(wire) + 1] = Head(sndbuf)
      /\ \A i \in 1 .. Len(wire) : w[i] = wire[i]
  BY <1>3, AppendProperties
<1> HIDE DEF w, t
<1>5. w \o t \in Seq(Written) /\ wire \o sndbuf \in Seq(Written)
  BY <1>3, <1>4, ConcatProperties
<1>6. Len(w \o t) = Len(w) + Len(t) /\ Len(wire \o sndbuf) = Len(wire) + Len(sndbuf)
  BY <1>3, <1>4, ConcatProperties
<1>7. \A i \in 1 .. Len(w) + Len(t) :
         (w \o t)[i] = IF i <= Len(w) THEN w[i] ELSE t[i - Len(w)]
  BY <1>3, <1>4, ConcatProperties
<1>8. \A i \in 1 .. Len(wire) + Len(sndbuf) :
         (wire \o sndbuf)[i] = IF i <= Len(wire) THEN wire[i] ELSE sndbuf[i - Len(wire)]
  BY ConcatProperties
<1>9. \A i \in 1 .. Len(w \o t) : (w \o t)[i] = (wire \o sndbuf)[i]
  <2> SUFFICES ASSUME NEW i \in 1 .. Len(wire) + Len(sndbuf)
               PROVE  (w \o t)[i] = (wire \o sndbuf)[i]
    BY <1>2, <1>3, <1>4, <1>6
  <2>1. (w \o t)[i] = IF i <= Len(wire) + 1 THEN w[i] ELSE t[i - (Len(wire) + 1)]
    BY <1>2, <1>3, <1>4, <1>7
  <2>2. (wire \o sndbuf)[i] = IF i <= Len(wire) THEN wire[i] ELSE sndbuf[i - Len(wire)]
    BY <1>8
  <2>3. CASE i <= Len(wire)
    BY ONLY <1>2, <1>4, <2>1, <2>2, <2>3
  <2>4. CASE i = Len(wire) + 1
    BY ONLY <1>2, <1>3, <1>4, <2>1, <2>2, <2>4
  <2>5. CASE i > Len(wire) + 1
    <3>1. i - (Len(wire) + 1) \in 1 .. Len(sndbuf) - 1
      BY ONLY <1>2, <2>5, i \in 1 .. Len(wire) + Len(sndbuf)
    <3>2. (i - (Len(wire) + 1)) + 1 = i - Len(wire)
      BY ONLY <1>2, i \in 1 .. Len(wire) + Len(sndbuf)
    <3>3. t[i - (Len(wire) + 1)] = sndbuf[i - Len(wire)]
      BY ONLY <1>3, <3>1, <3>2
    <3> QED BY ONLY <1>2, <2>1, <2>2, <2>5, <3>3, i \in 1 .. Len(wire) + Len(sndbuf)
  <2>6. i <= Len(wire) \/ i = Len(wire) + 1 \/ i > Len(wire) + 1
    BY ONLY <1>2, i \in 1 .. Len(wire) + Len(sndbuf)
  <2> QED BY <2>3, <2>4, <2>5, <2>6
<1>10. w \o t = wire \o sndbuf
  <2>1. Len(w \o t) = Len(wire \o sndbuf)
    BY <1>2, <1>3, <1>4, <1>6
  <2> QED BY <1>5, <1>9, <2>1, SeqEqual
<1> QED BY <1>1, <1>10 DEF Out

\* A write appends a datagram.
LEMMA WriteAppends ==
    ASSUME wire \in Seq(Written), sndbuf \in Seq(Written), NEW d \in Written,
           wire' = wire, sndbuf' = Append(sndbuf, d)
    PROVE  Out' = Append(Out, d)
  BY AppendProperties, ConcatProperties, AppendIsConcat, ConcatAssociative DEF Out

-----------------------------------------------------------------------------
(* Types.                                                                  *)

\* A sender's transmit and datagram have their types.
LEMMA CurrentTypes ==
    ASSUME TypeOK, NEW s \in Senders
    PROVE  /\ Current(s) \in Transmit
           /\ Current(s).by = s /\ Current(s).transmit = transmit[s] /\ Current(s).of = segments[s]
           /\ Datagram(s) \in Written
           /\ Datagram(s).transmit = Current(s) /\ Datagram(s).segment = segment[s]
<1>1. transmit[s] \in Nat /\ segments[s] \in 1 .. MaxSegments /\ segment[s] \in 1 .. MaxSegments
  BY DEF TypeOK
<1> QED BY ONLY <1>1, s \in Senders DEF Current, Datagram, Transmit, Written

\* TypeOK is inductive.
LEMMA TypeStep == TypeOK /\ [Next]_vars => TypeOK'
<1> SUFFICES ASSUME TypeOK, [Next]_vars PROVE TypeOK'
  OBVIOUS
<1>0. MaxSegments \in Nat \ {0} /\ SendLimit \in Nat \ {0} /\ DatagramLen \in Nat
  BY SendAssumption
<1>1. CASE Drain
  <2>1. sndbuf # <<>> /\ wire' = Append(wire, Head(sndbuf)) /\ sndbuf' = Tail(sndbuf)
    BY <1>1 DEF Drain
  <2>2. wire' \in Seq(Written) /\ sndbuf' \in Seq(Written) /\ Len(sndbuf') = Len(sndbuf) - 1
        /\ Len(sndbuf) \in Nat
    BY <2>1, HeadTailProperties, AppendProperties, LenProperties DEF TypeOK
  <2>3. Len(sndbuf') <= SendLimit
    BY <1>0, <2>2 DEF TypeOK
  <2> QED BY <1>1, <2>2, <2>3 DEF Drain, TypeOK, counters, outcome
<1>2. CASE React
  BY <1>2 DEF React, TypeOK, Waiting, counters, outcome
<1>3. ASSUME NEW s \in Senders, NewTransmit(s) PROVE TypeOK'
  <2>1. transmit' \in [Senders -> Nat] /\ segments' \in [Senders -> 1 .. MaxSegments]
    BY <1>3 DEF NewTransmit, TypeOK
  <2> QED BY <1>3, <2>1 DEF NewTransmit, TypeOK, Goto, net, counters, outcome
<1>4. ASSUME NEW s \in Senders, WakeOtherwise(s) \/ PollAgain(s) PROVE TypeOK'
  BY <1>4 DEF WakeOtherwise, PollAgain, TypeOK, Goto, net, counters, outcome
<1>5. ASSUME NEW s \in Senders, DropSender(s) PROVE TypeOK'
  BY <1>5, CurrentTypes DEF DropSender, TypeOK, Goto, net, counters
<1>6. ASSUME NEW s \in Senders, WritableReady(s) PROVE TypeOK'
  BY <1>0, <1>6 DEF WritableReady, TypeOK, Goto, net, counters, outcome
<1>7. ASSUME NEW s \in Senders, WritablePending(s) \/ WritableFails(s) PROVE TypeOK'
  BY <1>7 DEF WritablePending, WritableFails, TypeOK, Goto, net, counters, outcome
<1>8. ASSUME NEW s \in Senders, TrySendOk(s) PROVE TypeOK'
  <2>1. sndbuf' = Append(sndbuf, Datagram(s)) /\ Len(sndbuf) < SendLimit
    BY <1>8 DEF TrySendOk
  <2>2. sndbuf' \in Seq(Written) /\ Len(sndbuf') = Len(sndbuf) + 1 /\ Len(sndbuf) \in Nat
    BY <2>1, CurrentTypes, AppendProperties, LenProperties DEF TypeOK
  <2>3. Len(sndbuf') <= SendLimit
    BY <1>0, <2>1, <2>2
  <2> QED BY <1>8, <2>2, <2>3 DEF TrySendOk, TypeOK, Goto, counters, outcome
<1>9. ASSUME NEW s \in Senders, CountSent(s) PROVE TypeOK'
  BY <1>9 DEF CountSent, TypeOK, Goto, net, outcome
<1>10. ASSUME NEW s \in Senders, CountSentBytes(s) PROVE TypeOK'
  <2>1. sent_bytes' \in Nat
    BY <1>0, <1>10 DEF CountSentBytes, TypeOK
  <2>2. CASE segment[s] < segments[s]
    <3>1. segment' = [segment EXCEPT ![s] = segment[s] + 1] /\ Goto(s, "send") /\ UNCHANGED written
      BY <1>10, <2>2 DEF CountSentBytes, TypeOK
    <3>2. segment[s] + 1 \in 1 .. MaxSegments /\ segment[s] + 1 <= segments[s]
      BY <1>0, <2>2 DEF TypeOK
    <3> QED BY <1>10, <2>1, <3>1, <3>2 DEF CountSentBytes, TypeOK, Goto, net
  <2>3. CASE ~(segment[s] < segments[s])
    <3>1. UNCHANGED segment /\ Goto(s, "idle") /\ written' = written \cup {Current(s)}
      BY <1>10, <2>3 DEF CountSentBytes
    <3> QED BY <1>10, <2>1, <3>1, CurrentTypes DEF CountSentBytes, TypeOK, Goto, net
  <2> QED BY <2>2, <2>3
<1>11. ASSUME NEW s \in Senders, TrySendWouldBlock(s) PROVE TypeOK'
  BY <1>11 DEF TrySendWouldBlock, TypeOK, Goto, counters, outcome
<1>12. ASSUME NEW s \in Senders, TrySendError(s) PROVE TypeOK'
  BY <1>12, CurrentTypes DEF TrySendError, TypeOK, Goto, net, counters
<1>13. CASE UNCHANGED vars
  BY <1>13 DEF vars, TypeOK, net, counters, outcome
<1> QED
  BY <1>1, <1>2, <1>3, <1>4, <1>5, <1>6, <1>7, <1>8, <1>9, <1>10, <1>11, <1>12, <1>13
  DEF Next, Sender

\* Out changes only when a write succeeds, which appends a datagram.
LEMMA OutStep ==
    ASSUME TypeOK, [Next]_vars
    PROVE  \/ Out' = Out /\ \A s \in Senders : ~TrySendOk(s)
           \/ \E s \in Senders : TrySendOk(s) /\ Out' = Append(Out, Datagram(s))
<1>1. CASE \E s \in Senders : TrySendOk(s)
  <2>1. PICK s \in Senders : TrySendOk(s)
    BY <1>1
  <2>2. wire' = wire /\ sndbuf' = Append(sndbuf, Datagram(s))
    BY <2>1 DEF TrySendOk
  <2>3. Out' = Append(Out, Datagram(s))
    BY <2>2, CurrentTypes, WriteAppends DEF TypeOK
  <2> QED BY <2>1, <2>3
<1>2. CASE Drain /\ \A s \in Senders : ~TrySendOk(s)
  BY <1>2, DrainKeepsOut DEF TypeOK
<1>3. CASE ~Drain /\ \A s \in Senders : ~TrySendOk(s)
  <2>1. UNCHANGED <<wire, sndbuf>>
    BY <1>3 DEF Next, Sender, React, NewTransmit, WakeOtherwise, PollAgain, DropSender,
                WritableReady, WritablePending, WritableFails, CountSent, CountSentBytes,
                TrySendWouldBlock, TrySendError, vars, net
  <2> QED BY <1>3, <2>1 DEF Out
<1> QED BY <1>1, <1>2, <1>3

\* Out is a sequence of datagrams.
LEMMA OutType ==
    ASSUME TypeOK
    PROVE  Out \in Seq(Written) /\ Len(Out) \in Nat
  BY ConcatProperties, LenProperties DEF TypeOK, Out

\* What a write adds is at the end of Out.
LEMMA OutAppended ==
    ASSUME TypeOK, NEW s \in Senders, Out' = Append(Out, Datagram(s))
    PROVE  /\ Len(Out) \in Nat
           /\ Len(Out') = Len(Out) + 1
           /\ Out'[Len(Out) + 1] = Datagram(s)
           /\ \A n \in 1 .. Len(Out) : Out'[n] = Out[n]
<1>1. Out \in Seq(Written) /\ Len(Out) \in Nat
  BY OutType
<1>2. Datagram(s) \in Written
  BY CurrentTypes
<1>3. /\ Len(Append(Out, Datagram(s))) = Len(Out) + 1
      /\ Append(Out, Datagram(s))[Len(Out) + 1] = Datagram(s)
      /\ \A n \in 1 .. Len(Out) : Append(Out, Datagram(s))[n] = Out[n]
  BY ONLY <1>1, <1>2, AppendProperties
<1>4. Out' = Append(Out, Datagram(s))
  OBVIOUS
<1> QED BY ONLY <1>1, <1>3, <1>4, Zenon

-----------------------------------------------------------------------------
(* Wake-ups.                                                               *)

\* Readiness is only missing while the buffer is full or an event is to come,
\* and no future waits while there is readiness.
WakeInv ==
    /\ ~ready => Len(sndbuf) >= SendLimit \/ event
    /\ \A s \in Senders : writable[s] = "waiting" => ~ready
    /\ \A s \in Senders : pc[s] = "parked" => writable[s] = "waiting"

\* WakeInv is inductive: one sender's WouldBlock may clear the readiness that
\* another waited for, but never what wakes it.
LEMMA WakeStep == TypeOK /\ WakeInv /\ [Next]_vars => WakeInv'
<1> SUFFICES ASSUME TypeOK, WakeInv, [Next]_vars PROVE WakeInv'
  OBVIOUS
<1>0. pc \in [Senders -> {"idle", "top", "send", "sent", "sent_bytes", "parked", "woken", "failed"}]
      /\ writable \in [Senders -> {"None", "waiting", "notified"}]
  BY DEF TypeOK
<1>1. CASE Drain
  BY <1>1 DEF Drain, WakeInv
<1>2. CASE React
  BY <1>0, <1>2 DEF React, WakeInv, Waiting
<1>3. ASSUME NEW s \in Senders,
             NewTransmit(s) \/ WakeOtherwise(s) \/ PollAgain(s) \/ DropSender(s) \/ TrySendError(s)
      PROVE  WakeInv'
  BY <1>0, <1>3 DEF NewTransmit, WakeOtherwise, PollAgain, DropSender, TrySendError,
                    WakeInv, Goto, net
<1>4. ASSUME NEW s \in Senders, WritableReady(s) \/ WritableFails(s) PROVE WakeInv'
  BY <1>0, <1>4 DEF WritableReady, WritableFails, WakeInv, Goto, net
<1>5. ASSUME NEW s \in Senders, WritablePending(s) PROVE WakeInv'
  BY <1>0, <1>5 DEF WritablePending, Installed, WakeInv, Goto, net
<1>6. ASSUME NEW s \in Senders, TrySendOk(s) PROVE WakeInv'
  <2>1. ready /\ ready' = ready /\ writable' = writable /\ pc' = [pc EXCEPT ![s] = "sent"]
    BY <1>6 DEF TrySendOk, Goto
  <2> QED BY <1>0, <2>1 DEF WakeInv
<1>7. ASSUME NEW s \in Senders, CountSent(s) \/ CountSentBytes(s) PROVE WakeInv'
  <2>1. UNCHANGED <<writable, net>> /\ \E l \in {"sent_bytes", "send", "idle"} : Goto(s, l)
    BY <1>7 DEF CountSent, CountSentBytes
  <2> QED BY <1>0, <2>1 DEF WakeInv, Goto, net
<1>8. ASSUME NEW s \in Senders, TrySendWouldBlock(s) PROVE WakeInv'
  BY <1>0, <1>8 DEF TrySendWouldBlock, WakeInv, Goto
<1>9. CASE UNCHANGED vars
  BY <1>9 DEF vars, net, WakeInv
<1> QED
  BY <1>1, <1>2, <1>3, <1>4, <1>5, <1>6, <1>7, <1>8, <1>9 DEF Next, Sender

\* Initially no sender has a transmit.
LEMMA InitTypes == Init => TypeOK /\ WakeInv
<1> SUFFICES ASSUME Init PROVE TypeOK /\ WakeInv
  OBVIOUS
<1>1. <<>> \in Seq(Written) /\ Len(<<>>) = 0 /\ 1 \in 1 .. MaxSegments /\ 0 <= SendLimit
  BY EmptySeq, SendAssumption
<1>2. TypeOK
  BY <1>1 DEF Init, TypeOK
<1>3. WakeInv
  BY DEF Init, WakeInv
<1> QED BY <1>2, <1>3

\* poll_send never leaves the segments of its transmit, and the send buffer never
\* overflows, however many senders share the socket: TypeOK always holds.
THEOREM TypesHold == Spec => []TypeOK
BY InitTypes, TypeStep, PTL DEF Spec

\* No sender whose poll_send is Pending loses its wake-up to another, however
\* many senders share the socket: NoLostWakeup always holds.
THEOREM SendersAreWoken == Spec => []NoLostWakeup
<1>1. TypeOK /\ WakeInv => NoLostWakeup
  <2> SUFFICES ASSUME TypeOK, WakeInv PROVE NoLostWakeup
    OBVIOUS
  <2>1. Len(sndbuf) \in Nat /\ SendLimit \in Nat
    BY LenProperties, SendAssumption DEF TypeOK
  <2> QED BY <2>1 DEF WakeInv, NoLostWakeup
<1> QED BY <1>1, InitTypes, TypeStep, WakeStep, PTL DEF Spec

-----------------------------------------------------------------------------
(* The counters.                                                           *)

\* The senders whose pc is one of the labels.
At(labels) == {s \in Senders : pc[s] \in labels}

\* There are finitely many of them.
LEMMA AtFinite ==
    ASSUME NEW labels
    PROVE  IsFiniteSet(At(labels)) /\ Cardinality(At(labels)) \in Nat
  BY SendAssumption, FS_Subset, FS_CardinalityType DEF At

\* CountersMatchWire without its LET.
LEMMA CountersAt ==
    CountersMatchWire <=>
        /\ sent + Cardinality(At({"sent"})) = Len(Out)
        /\ sent_bytes = DatagramLen * (Len(Out) - Cardinality(At({"sent", "sent_bytes"})))
  BY DEF CountersMatchWire, At

\* A sender that comes to be at the labels adds one, one that leaves takes one.
LEMMA AtMoves ==
    ASSUME TypeOK, NEW s \in Senders, NEW l, Goto(s, l), NEW labels
    PROVE  /\ pc[s] \notin labels /\ l \in labels =>
                 Cardinality(At(labels)') = Cardinality(At(labels)) + 1
           /\ pc[s] \in labels /\ l \notin labels =>
                 Cardinality(At(labels)') = Cardinality(At(labels)) - 1
           /\ (pc[s] \in labels <=> l \in labels) => At(labels)' = At(labels)
<1>1. pc' = [pc EXCEPT ![s] = l] /\ DOMAIN pc = Senders
  BY DEF Goto, TypeOK
<1>2. ASSUME pc[s] \notin labels, l \in labels
      PROVE  Cardinality(At(labels)') = Cardinality(At(labels)) + 1
  <2>1. At(labels)' = At(labels) \cup {s} /\ s \notin At(labels)
    BY <1>1, <1>2 DEF At
  <2> QED BY <2>1, AtFinite, FS_AddElement
<1>3. ASSUME pc[s] \in labels, l \notin labels
      PROVE  Cardinality(At(labels)') = Cardinality(At(labels)) - 1
  <2>1. At(labels)' = At(labels) \ {s} /\ s \in At(labels)
    BY <1>1, <1>3 DEF At
  <2> QED BY <2>1, AtFinite, FS_RemoveElement
<1>4. ASSUME pc[s] \in labels <=> l \in labels PROVE At(labels)' = At(labels)
  BY <1>1, <1>4 DEF At
<1> QED BY <1>2, <1>3, <1>4

\* Every step keeps the counters in agreement with what was written.
LEMMA CountStep == TypeOK /\ CountersMatchWire /\ [Next]_vars => CountersMatchWire'
<1> SUFFICES ASSUME TypeOK, CountersMatchWire, [Next]_vars PROVE CountersMatchWire'
  OBVIOUS
<1> DEFINE a == Cardinality(At({"sent"}))
           b == Cardinality(At({"sent", "sent_bytes"}))
<1>1. a \in Nat /\ b \in Nat /\ Len(Out) \in Nat /\ sent \in Nat /\ sent_bytes \in Nat
      /\ DatagramLen \in Nat
  BY AtFinite, OutType, SendAssumption DEF TypeOK
<1>2. sent + a = Len(Out) /\ sent_bytes = DatagramLen * (Len(Out) - b)
  BY CountersAt
<1>3. SUFFICES sent' + a' = Len(Out') /\ sent_bytes' = DatagramLen * (Len(Out') - b')
  BY CountersAt DEF CountersMatchWire, At
<1>4. CASE \E s \in Senders : TrySendOk(s)
  <2>1. PICK s \in Senders : TrySendOk(s) /\ Out' = Append(Out, Datagram(s))
    BY <1>4, OutStep
  <2>2. Goto(s, "sent") /\ pc[s] = "send" /\ UNCHANGED <<sent, sent_bytes>>
    BY <2>1 DEF TrySendOk, counters
  <2>3. a' = a + 1 /\ b' = b + 1
    BY <2>2, AtMoves
  <2>4. Len(Out') = Len(Out) + 1
    BY <2>1, OutAppended
  <2>5. Len(Out') - b' = Len(Out) - b
    BY ONLY <1>1, <2>3, <2>4
  <2> HIDE DEF a, b
  <2> QED BY ONLY <1>1, <1>2, <2>2, <2>3, <2>4, <2>5
<1>5. ASSUME \A s \in Senders : ~TrySendOk(s) PROVE Out' = Out
  BY <1>5, OutStep
<1>6. ASSUME NEW s \in Senders, CountSent(s)
      PROVE  sent' + a' = Len(Out') /\ sent_bytes' = DatagramLen * (Len(Out') - b')
  <2>1. Goto(s, "sent_bytes") /\ pc[s] = "sent" /\ sent' = sent + 1 /\ UNCHANGED <<sent_bytes, net>>
    BY <1>6 DEF CountSent
  <2>2. a' = a - 1 /\ b' = b
    BY <2>1, AtMoves
  <2>3. Out' = Out
    BY <2>1 DEF Out, net
  <2> HIDE DEF a, b
  <2> QED BY ONLY <1>1, <1>2, <2>1, <2>2, <2>3
<1>7. ASSUME NEW s \in Senders, CountSentBytes(s)
      PROVE  sent' + a' = Len(Out') /\ sent_bytes' = DatagramLen * (Len(Out') - b')
  <2>1. (Goto(s, "send") \/ Goto(s, "idle")) /\ pc[s] = "sent_bytes"
        /\ sent_bytes' = sent_bytes + DatagramLen /\ UNCHANGED <<sent, net>>
    BY <1>7 DEF CountSentBytes
  <2>2. a' = a /\ b' = b - 1
    BY <2>1, AtMoves
  <2>3. Out' = Out
    BY <2>1 DEF Out, net
  <2>4. DatagramLen * (Len(Out) - b) + DatagramLen = DatagramLen * ((Len(Out) - b) + 1)
    <3> HIDE DEF b
    <3> QED BY ONLY <1>1, SMT
  <2>5. Len(Out') - b' = (Len(Out) - b) + 1
    <3> HIDE DEF b
    <3> QED BY ONLY <1>1, <2>2, <2>3
  <2> HIDE DEF a, b
  <2> QED BY ONLY <1>1, <1>2, <2>1, <2>2, <2>3, <2>4, <2>5
<1>8. CASE /\ \A s \in Senders : ~TrySendOk(s) /\ ~CountSent(s) /\ ~CountSentBytes(s)
  <2>1. UNCHANGED <<sent, sent_bytes>>
    BY <1>8 DEF Next, Sender, Drain, React, NewTransmit, WakeOtherwise, PollAgain, DropSender,
                WritableReady, WritablePending, WritableFails,
                TrySendWouldBlock, TrySendError, vars, counters
  <2>2. UNCHANGED pc \/ React
        \/ \E s \in Senders, l \in {"idle", "top", "send", "parked", "woken", "failed"} :
              Goto(s, l) /\ pc[s] \notin {"sent", "sent_bytes"}
    BY <1>8 DEF Next, Sender, Drain, NewTransmit, WakeOtherwise, PollAgain, DropSender,
                WritableReady, WritablePending, WritableFails,
                TrySendWouldBlock, TrySendError, vars
  <2>3. a' = a /\ b' = b
    <3>1. CASE UNCHANGED pc
      BY <3>1 DEF At
    <3>2. CASE React
      BY <3>2 DEF At, React, Waiting
    <3>3. CASE \E s \in Senders, l \in {"idle", "top", "send", "parked", "woken", "failed"} :
                  Goto(s, l) /\ pc[s] \notin {"sent", "sent_bytes"}
      BY <3>3, AtMoves
    <3> QED BY <2>2, <3>1, <3>2, <3>3
  <2>4. Out' = Out
    BY <1>5, <1>8
  <2> HIDE DEF a, b
  <2> QED BY ONLY <1>2, <2>1, <2>3, <2>4
<1> QED BY <1>4, <1>6, <1>7, <1>8

\* The counters of the send path say what the socket took, whatever the senders
\* do between a write and the counting of it: CountersMatchWire always holds.
THEOREM SendCountersMatch == Spec => []CountersMatchWire
<1>1. Init => CountersMatchWire
  <2> SUFFICES ASSUME Init PROVE CountersMatchWire
    OBVIOUS
  <2>1. At({"sent"}) = {} /\ At({"sent", "sent_bytes"}) = {}
    BY DEF Init, At
  <2>2. Cardinality({}) = 0
    BY FS_EmptySet
  <2>3. Out = <<>> /\ Len(<<>>) = 0
    BY EmptySeq DEF Init, Out
  <2>4. sent = 0 /\ sent_bytes = 0 /\ DatagramLen * (0 - 0) = 0
    BY SendAssumption DEF Init
  <2>5. Cardinality(At({"sent"})) = 0 /\ Cardinality(At({"sent", "sent_bytes"})) = 0 /\ Len(Out) = 0
    BY ONLY <2>1, <2>2, <2>3, Zenon
  <2> QED BY <2>4, <2>5, CountersAt
<1> QED BY <1>1, InitTypes, TypeStep, CountStep, PTL DEF Spec

-----------------------------------------------------------------------------
(* What a transmit leaves behind.                                          *)

Sending == {"send", "sent", "sent_bytes"}

IsOut(d) == \E n \in 1 .. Len(Out) : Out[n] = d

\* What is out stays out.
LEMMA OutGrows ==
    ASSUME TypeOK, [Next]_vars, NEW d, IsOut(d)
    PROVE  IsOut(d)'
<1>1. PICK n \in 1 .. Len(Out) : Out[n] = d
  BY DEF IsOut
<1>2. CASE Out' = Out
  BY <1>1, <1>2 DEF IsOut
<1>3. CASE \E s \in Senders : TrySendOk(s) /\ Out' = Append(Out, Datagram(s))
  <2>1. PICK s \in Senders : Out' = Append(Out, Datagram(s))
    BY <1>3
  <2>2. Len(Out') = Len(Out) + 1 /\ Out'[n] = Out[n] /\ Len(Out) \in Nat
    BY <1>1, <2>1, OutAppended
  <2>3. n \in 1 .. Len(Out') /\ Out'[n] = d
    BY <1>1, <2>2
  <2> QED BY <2>3 DEF IsOut
<1> QED BY <1>2, <1>3, OutStep

\* What a sender is sending is neither written nor dropped yet.
NumberInv ==
    \A t \in written \cup dropped :
        /\ t.transmit <= transmit[t.by]
        /\ pc[t.by] # "idle" => t.transmit < transmit[t.by]

\* NumberInv is inductive: a sender takes a new transmit only when it is idle.
LEMMA NumberStep == TypeOK /\ NumberInv /\ [Next]_vars => NumberInv'
<1> SUFFICES ASSUME TypeOK, NumberInv, [Next]_vars PROVE NumberInv'
  OBVIOUS
<1>0. /\ pc \in [Senders -> {"idle", "top", "send", "sent", "sent_bytes", "parked", "woken", "failed"}]
      /\ transmit \in [Senders -> Nat]
      /\ \A t \in written \cup dropped : t.by \in Senders /\ t.transmit \in Nat
  BY DEF TypeOK, Transmit
<1>1. ASSUME UNCHANGED <<transmit, written, dropped>>,
             \A s \in Senders : pc[s] = "idle" => pc'[s] = "idle"
      PROVE  NumberInv'
  BY ONLY <1>0, <1>1, NumberInv DEF NumberInv
<1>2. ASSUME NEW s \in Senders, NewTransmit(s) PROVE NumberInv'
  <2>1. /\ pc[s] = "idle" /\ transmit' = [transmit EXCEPT ![s] = transmit[s] + 1]
        /\ pc' = [pc EXCEPT ![s] = "top"] /\ UNCHANGED <<written, dropped>>
    BY <1>2 DEF NewTransmit, Goto, outcome
  <2> QED BY ONLY <1>0, <2>1, NumberInv, s \in Senders DEF NumberInv
<1>3. ASSUME NEW s \in Senders, pc[s] # "idle", pc' = [pc EXCEPT ![s] = "idle"],
             UNCHANGED transmit, (written \cup dropped)' = (written \cup dropped) \cup {Current(s)}
      PROVE  NumberInv'
  <2>1. Current(s).by = s /\ Current(s).transmit = transmit[s]
    BY CurrentTypes
  <2>2. \A t \in written \cup dropped : t.transmit <= transmit'[t.by]
           /\ (pc'[t.by] # "idle" => t.transmit < transmit'[t.by])
    BY ONLY <1>0, <1>3, NumberInv DEF NumberInv
  <2>3. transmit[s] <= transmit[s] /\ pc'[s] = "idle"
    BY <1>0, <1>3
  <2> QED BY <1>3, <2>1, <2>2, <2>3 DEF NumberInv
<1>4. ASSUME NEW s \in Senders, DropSender(s) \/ TrySendError(s) PROVE NumberInv'
  BY <1>3, <1>4 DEF DropSender, TrySendError, Goto
<1>5. ASSUME NEW s \in Senders, CountSentBytes(s) PROVE NumberInv'
  BY <1>0, <1>1, <1>3, <1>5 DEF CountSentBytes, Goto
<1>6. ASSUME NEW s \in Senders, WakeOtherwise(s) \/ PollAgain(s) \/ WritableReady(s)
                \/ WritablePending(s) \/ WritableFails(s) \/ TrySendOk(s) \/ CountSent(s)
                \/ TrySendWouldBlock(s)
      PROVE  NumberInv'
  BY <1>0, <1>1, <1>6 DEF WakeOtherwise, PollAgain, WritableReady, WritablePending,
        WritableFails, TrySendOk, CountSent, TrySendWouldBlock, Goto, outcome
<1>7. CASE Drain \/ React \/ UNCHANGED vars
  BY <1>0, <1>1, <1>7 DEF Drain, React, vars, outcome
<1> QED BY <1>2, <1>4, <1>5, <1>6, <1>7 DEF Next, Sender

\* The datagrams of its transmit that sender s has written in this round.
Done(s) == IF pc[s] = "send" THEN 1 .. segment[s] - 1 ELSE 1 .. segment[s]

\* A sender's datagrams up to the one it is at are out.
DoneInv ==
    \A s \in Senders : pc[s] \in Sending =>
        \A i \in Done(s) : IsOut([transmit |-> Current(s), segment |-> i])

\* DoneInv is inductive: each round of poll_send starts at the first datagram,
\* and goes on to the next only after a write.
LEMMA DoneStep == TypeOK /\ DoneInv /\ [Next]_vars => DoneInv'
<1> SUFFICES ASSUME TypeOK, DoneInv, [Next]_vars, NEW s \in Senders, pc'[s] \in Sending,
                    NEW i \in Done(s)'
             PROVE  IsOut([transmit |-> Current(s), segment |-> i])'
  BY DEF DoneInv
<1>0. /\ pc \in [Senders -> {"idle", "top", "send", "sent", "sent_bytes", "parked", "woken", "failed"}]
      /\ segment \in [Senders -> 1 .. MaxSegments] /\ segment[s] \in Nat
  BY SendAssumption DEF TypeOK
<1>1. ASSUME pc[s] \in Sending, i \in Done(s), UNCHANGED <<transmit, segments>>
      PROVE  IsOut([transmit |-> Current(s), segment |-> i])'
  <2>1. IsOut([transmit |-> Current(s), segment |-> i])
    BY <1>1 DEF DoneInv
  <2>2. Current(s)' = Current(s)
    BY <1>1 DEF Current
  <2>3. \A d : IsOut(d) => IsOut(d)'
    BY OutGrows
  <2> QED BY <2>1, <2>2, <2>3 DEF IsOut
<1>2. ASSUME UNCHANGED <<transmit, segments>>, pc'[s] = pc[s], segment'[s] = segment[s]
      PROVE  IsOut([transmit |-> Current(s), segment |-> i])'
  BY <1>1, <1>2 DEF Done
<1>3. CASE Drain \/ React \/ UNCHANGED vars
  <2>1. UNCHANGED <<transmit, segments, segment>>
    BY <1>3 DEF Drain, React, vars
  <2>2. pc'[s] = pc[s]
    BY <1>3 DEF Drain, React, vars, Sending
  <2> QED BY <1>2, <2>1, <2>2
<1>4. ASSUME NEW u \in Senders, NewTransmit(u)
      PROVE  IsOut([transmit |-> Current(s), segment |-> i])'
  <2>1. s # u
    BY <1>0, <1>4 DEF NewTransmit, Goto, Sending
  <2>2. pc'[s] = pc[s] /\ segment'[s] = segment[s] /\ Current(s)' = Current(s)
    BY <1>0, <1>4, <2>1 DEF NewTransmit, Goto, Current, TypeOK
  <2>3. i \in Done(s) /\ pc[s] \in Sending
    BY <2>2 DEF Done
  <2>4. IsOut([transmit |-> Current(s), segment |-> i])
    BY <2>3 DEF DoneInv
  <2>5. \A d : IsOut(d) => IsOut(d)'
    BY OutGrows
  <2> QED BY <2>2, <2>4, <2>5 DEF IsOut
<1>5. ASSUME NEW u \in Senders, WakeOtherwise(u) \/ PollAgain(u) \/ DropSender(u)
                \/ WritablePending(u) \/ WritableFails(u) \/ TrySendWouldBlock(u) \/ TrySendError(u)
      PROVE  IsOut([transmit |-> Current(s), segment |-> i])'
  <2>1. UNCHANGED <<transmit, segments, segment>>
        /\ \E l \in {"idle", "top", "parked", "woken", "failed"} : pc' = [pc EXCEPT ![u] = l]
    BY <1>5 DEF WakeOtherwise, PollAgain, DropSender, WritablePending, WritableFails,
                TrySendWouldBlock, TrySendError, Goto
  <2>2. pc'[s] = pc[s]
    BY <1>0, <2>1 DEF Sending
  <2> QED BY <1>2, <2>1, <2>2
<1>6. ASSUME NEW u \in Senders, WritableReady(u)
      PROVE  IsOut([transmit |-> Current(s), segment |-> i])'
  <2>1. UNCHANGED <<transmit, segments>> /\ segment' = [segment EXCEPT ![u] = 1]
        /\ pc' = [pc EXCEPT ![u] = "send"]
    BY <1>6 DEF WritableReady, Goto
  <2>2. CASE s = u
    BY <1>0, <2>1, <2>2 DEF Done
  <2>3. CASE s # u
    BY <1>0, <1>2, <2>1, <2>3
  <2> QED BY <2>2, <2>3
<1>7. ASSUME NEW u \in Senders, TrySendOk(u)
      PROVE  IsOut([transmit |-> Current(s), segment |-> i])'
  <2>1. UNCHANGED <<transmit, segments, segment>> /\ pc[u] = "send"
        /\ pc' = [pc EXCEPT ![u] = "sent"]
    BY <1>7 DEF TrySendOk, Goto
  <2>2. CASE s # u
    BY <1>0, <1>2, <2>1, <2>2
  <2>3. CASE s = u /\ i # segment[s]
    <3>1. i \in Done(s)
      BY <1>0, <2>1, <2>3 DEF Done
    <3> QED BY <1>1, <2>1, <2>3, <3>1 DEF Sending
  <2>4. CASE s = u /\ i = segment[s]
    <3>1. PICK v \in Senders : TrySendOk(v) /\ Out' = Append(Out, Datagram(v))
      BY <1>7, OutStep
    <3>2. v = s
      BY <1>0, <2>1, <2>4, <3>1 DEF TrySendOk, Goto
    <3>3. Len(Out') = Len(Out) + 1 /\ Out'[Len(Out) + 1] = Datagram(s) /\ Len(Out) \in Nat
      BY <3>1, <3>2, OutAppended
    <3>4. Current(s)' = Current(s)
      BY <2>1 DEF Current
    <3>5. Out'[Len(Out) + 1] = [transmit |-> Current(s)', segment |-> i]
          /\ Len(Out) + 1 \in 1 .. Len(Out')
      BY <2>4, <3>3, <3>4 DEF Datagram
    <3> QED BY <3>5 DEF IsOut
  <2> QED BY <2>2, <2>3, <2>4
<1>8. ASSUME NEW u \in Senders, CountSent(u)
      PROVE  IsOut([transmit |-> Current(s), segment |-> i])'
  <2>1. UNCHANGED <<transmit, segments, segment>> /\ pc[u] = "sent"
        /\ pc' = [pc EXCEPT ![u] = "sent_bytes"]
    BY <1>8 DEF CountSent, Goto
  <2>2. i \in Done(s) /\ pc[s] \in Sending
    BY <1>0, <2>1 DEF Done, Sending
  <2> QED BY <1>1, <2>1, <2>2
<1>9. ASSUME NEW u \in Senders, CountSentBytes(u)
      PROVE  IsOut([transmit |-> Current(s), segment |-> i])'
  <2>1. UNCHANGED <<transmit, segments>> /\ pc[u] = "sent_bytes"
    BY <1>9 DEF CountSentBytes
  <2>2. CASE pc' = [pc EXCEPT ![u] = "send"] /\ segment' = [segment EXCEPT ![u] = segment[u] + 1]
    <3>1. i \in Done(s) /\ pc[s] \in Sending
      BY <1>0, <2>1, <2>2 DEF Done, Sending
    <3> QED BY <1>1, <2>1, <3>1
  <2>3. CASE pc' = [pc EXCEPT ![u] = "idle"] /\ segment' = segment
    <3>1. pc'[s] = pc[s]
      BY <1>0, <2>3 DEF Sending
    <3> QED BY <1>2, <2>1, <2>3, <3>1
  <2> QED BY <1>9, <2>2, <2>3 DEF CountSentBytes, Goto
<1> QED BY <1>3, <1>4, <1>5, <1>6, <1>7, <1>8, <1>9 DEF Next, Sender

\* Ok is returned only after the last datagram has been written, or an error.
LEMMA OkStep ==
    ASSUME TypeOK, NumberInv, DoneInv, OkMeansWritten, [Next]_vars
    PROVE  OkMeansWritten'
<1>1. \A d : IsOut(d) => IsOut(d)'
  BY OutGrows
<1>2. \A t \in written : \A i \in 1 .. t.of : IsOut([transmit |-> t, segment |-> i])'
  BY <1>1 DEF OkMeansWritten, IsOut
<1>3. ASSUME UNCHANGED <<written, dropped>> PROVE OkMeansWritten'
  BY <1>2, <1>3 DEF OkMeansWritten, IsOut
<1>4. \A s \in Senders : pc[s] # "idle" => Current(s) \notin written \cup dropped
  <2>1. \A s \in Senders : Current(s).by = s /\ Current(s).transmit = transmit[s] /\ transmit[s] \in Nat
    BY CurrentTypes DEF TypeOK
  <2> QED BY <2>1 DEF NumberInv
<1>5. ASSUME NEW s \in Senders, pc[s] # "idle", dropped' = dropped \cup {Current(s)}, UNCHANGED written
      PROVE  OkMeansWritten'
  BY <1>2, <1>4, <1>5 DEF OkMeansWritten, IsOut
<1>6. ASSUME NEW s \in Senders, CountSentBytes(s) PROVE OkMeansWritten'
  <2>1. CASE UNCHANGED written
    BY <1>3, <1>6, <2>1 DEF CountSentBytes
  <2>2. CASE segment[s] = segments[s] /\ written' = written \cup {Current(s)}
    <3>1. pc[s] = "sent_bytes" /\ UNCHANGED dropped
      BY <1>6 DEF CountSentBytes
    <3>2. Current(s).of = segment[s]
      BY <2>2, CurrentTypes
    <3>3. \A i \in 1 .. Current(s).of : IsOut([transmit |-> Current(s), segment |-> i])
      BY <3>1, <3>2 DEF DoneInv, Done, Sending
    <3>4. \A i \in 1 .. Current(s).of : IsOut([transmit |-> Current(s), segment |-> i])'
      <4>1. UNCHANGED <<transmit, segments>>
        BY <1>6 DEF CountSentBytes
      <4> QED BY <1>1, <3>3, <4>1 DEF Current, IsOut
    <3>5. Current(s) \notin dropped
      BY <1>4, <3>1
    <3> DEFINE c == Current(s)
    <3>6. c' = c
      BY <1>6 DEF CountSentBytes, Current
    <3>7. \A i \in 1 .. c.of : \E n \in 1 .. Len(Out') : Out'[n] = [transmit |-> c, segment |-> i]
      BY <3>4, <3>6 DEF IsOut
    <3>8. \A t \in written : \A i \in 1 .. t.of :
             \E n \in 1 .. Len(Out') : Out'[n] = [transmit |-> t, segment |-> i]
      BY <1>2 DEF IsOut
    <3>9. written' = written \cup {c} /\ dropped' = dropped /\ c \notin dropped /\ written \cap dropped = {}
      BY <2>2, <3>1, <3>5 DEF OkMeansWritten
    <3> HIDE DEF c
    <3> QED BY <3>7, <3>8, <3>9 DEF OkMeansWritten
  <2> QED BY <1>6, <2>1, <2>2 DEF CountSentBytes
<1>7. ASSUME NEW s \in Senders, DropSender(s) \/ TrySendError(s) PROVE OkMeansWritten'
  BY <1>5, <1>7 DEF DropSender, TrySendError
<1>8. CASE \A s \in Senders : ~CountSentBytes(s) /\ ~DropSender(s) /\ ~TrySendError(s)
  <2>1. UNCHANGED <<written, dropped>>
    BY <1>8 DEF Next, Sender, Drain, React, NewTransmit, WakeOtherwise, PollAgain,
                WritableReady, WritablePending, WritableFails, TrySendOk, CountSent,
                TrySendWouldBlock, vars, outcome
  <2> QED BY <1>3, <2>1
<1> QED BY <1>6, <1>7, <1>8

\* When poll_send has returned Ok for a transmit, every datagram of it has been
\* written or it was given up, never both, however it is split and however often
\* it starts again after WouldBlock: OkMeansWritten always holds.
THEOREM OkIsKept == Spec => []OkMeansWritten
<1>1. Init => NumberInv /\ DoneInv /\ OkMeansWritten
  BY DEF Init, NumberInv, DoneInv, OkMeansWritten, Sending
<1>2. TypeOK /\ NumberInv /\ DoneInv /\ OkMeansWritten /\ [Next]_vars => OkMeansWritten'
  BY OkStep
<1> QED BY <1>1, <1>2, InitTypes, TypeStep, NumberStep, DoneStep, PTL DEF Spec

-----------------------------------------------------------------------------
(* Order.                                                                  *)

ToWrite == {"top", "send", "parked", "woken", "failed"}

\* What is out is no later than its sender's transmit, and if it is of a
\* transmit still to be written, that transmit is a split one.
Placed(t) ==
    /\ t.transmit <= transmit[t.by]
    /\ t.transmit = transmit[t.by] => t.of = segments[t.by]
    /\ t.transmit = transmit[t.by] /\ pc[t.by] \in ToWrite => t.of > 1

OrderInv == \A n \in 1 .. Len(Out) : Placed(Out[n].transmit)

\* No step takes a transmit that is out from its place.
LEMMA PlacedStep ==
    ASSUME TypeOK, [Next]_vars, NEW t \in Transmit, Placed(t)
    PROVE  Placed(t)'
<1>0. /\ pc \in [Senders -> {"idle", "top", "send", "sent", "sent_bytes", "parked", "woken", "failed"}]
      /\ transmit \in [Senders -> Nat] /\ segments \in [Senders -> 1 .. MaxSegments]
      /\ segment \in [Senders -> 1 .. MaxSegments] /\ MaxSegments \in Nat
      /\ t.by \in Senders /\ t.transmit \in Nat /\ t.of \in Nat
  BY SendAssumption DEF TypeOK, Transmit
<1>1. ASSUME UNCHANGED <<transmit, segments>>, pc'[t.by] \in ToWrite => pc[t.by] \in ToWrite
      PROVE  Placed(t)'
  BY ONLY <1>1, Placed(t) DEF Placed
<1>2. ASSUME NEW s \in Senders, NewTransmit(s) PROVE Placed(t)'
  <2>1. PICK k \in 1 .. MaxSegments : segments' = [segments EXCEPT ![s] = k]
    BY <1>2 DEF NewTransmit
  <2>2. transmit' = [transmit EXCEPT ![s] = transmit[s] + 1] /\ pc' = [pc EXCEPT ![s] = "top"]
    BY <1>2 DEF NewTransmit, Goto
  <2>3. CASE t.by = s
    <3>1. t.transmit < transmit'[t.by] /\ transmit'[t.by] \in Nat
      BY ONLY <1>0, <2>2, <2>3, Placed(t), s \in Senders DEF Placed
    <3> QED BY ONLY <1>0, <3>1 DEF Placed
  <2>4. CASE t.by # s
    <3>1. transmit'[t.by] = transmit[t.by] /\ segments'[t.by] = segments[t.by] /\ pc'[t.by] = pc[t.by]
      BY ONLY <1>0, <2>1, <2>2, <2>4
    <3> QED BY ONLY <3>1, Placed(t) DEF Placed
  <2> QED BY <2>3, <2>4
<1>3. ASSUME NEW s \in Senders, CountSentBytes(s) PROVE Placed(t)'
  <2>1. UNCHANGED <<transmit, segments>>
    BY <1>3 DEF CountSentBytes
  <2>2. CASE t.by = s /\ segment[s] < segments[s] /\ pc' = [pc EXCEPT ![s] = "send"]
    <3>1. segments[t.by] > 1
      BY ONLY <1>0, <2>2
    <3> QED BY ONLY <2>1, <3>1, Placed(t) DEF Placed
  <2>3. CASE t.by # s \/ pc' = [pc EXCEPT ![s] = "idle"]
    <3>1. pc'[t.by] \in ToWrite => pc[t.by] \in ToWrite
      BY <1>0, <1>3, <2>3 DEF CountSentBytes, Goto, ToWrite
    <3> QED BY <1>1, <2>1, <3>1
  <2> QED BY <1>3, <2>2, <2>3 DEF CountSentBytes, Goto
<1>4. ASSUME NEW s \in Senders, WakeOtherwise(s) \/ PollAgain(s) \/ WritableReady(s)
                \/ WritablePending(s) \/ WritableFails(s) \/ TrySendWouldBlock(s)
      PROVE  Placed(t)'
  <2>1. UNCHANGED <<transmit, segments>> /\ pc[s] \in ToWrite /\ \E l \in ToWrite : pc' = [pc EXCEPT ![s] = l]
    BY <1>4 DEF WakeOtherwise, PollAgain, WritableReady, WritablePending, WritableFails,
                TrySendWouldBlock, Goto, ToWrite
  <2> QED BY <1>0, <1>1, <2>1
<1>5. ASSUME NEW s \in Senders, TrySendOk(s) \/ CountSent(s) \/ DropSender(s) \/ TrySendError(s)
      PROVE  Placed(t)'
  <2>1. UNCHANGED <<transmit, segments>> /\ \E l \in {"sent", "sent_bytes", "idle"} : pc' = [pc EXCEPT ![s] = l]
    BY <1>5 DEF TrySendOk, CountSent, DropSender, TrySendError, Goto
  <2> QED BY <1>0, <1>1, <2>1 DEF ToWrite
<1>6. CASE Drain \/ React \/ UNCHANGED vars
  <2>1. UNCHANGED <<transmit, segments>> /\ (pc' = pc \/ React)
    BY <1>6 DEF Drain, React, vars
  <2>2. React => pc'[t.by] = IF t.by \in Waiting /\ pc[t.by] = "parked" THEN "woken" ELSE pc[t.by]
    BY <1>0 DEF React
  <2> QED BY <1>1, <2>1, <2>2 DEF ToWrite
<1> QED BY <1>2, <1>3, <1>4, <1>5, <1>6 DEF Next, Sender

\* A write comes after all that its sender has written.
LEMMA OrderStep ==
    ASSUME TypeOK, OrderInv, OnceAndInOrder, [Next]_vars
    PROVE  OrderInv' /\ OnceAndInOrder'
<1>0. \A n \in 1 .. Len(Out) : Out[n].transmit \in Transmit
  <2>1. \A n \in 1 .. Len(Out) : Out[n] \in Written
    BY OutType, ElementOfSeq
  <2> QED BY ONLY <2>1 DEF Written
<1>1. \A n \in 1 .. Len(Out) : Placed(Out[n].transmit)
  BY DEF OrderInv
<1>2. \A t \in Transmit : Placed(t) => Placed(t)'
  BY PlacedStep
<1>3. CASE Out' = Out
  <2>1. OrderInv'
    BY <1>0, <1>1, <1>2, <1>3 DEF OrderInv, Placed
  <2> QED BY <1>3, <2>1 DEF OnceAndInOrder
<1>4. CASE \E s \in Senders : TrySendOk(s) /\ Out' = Append(Out, Datagram(s))
  <2>1. PICK s \in Senders : TrySendOk(s) /\ Out' = Append(Out, Datagram(s))
    BY <1>4
  <2> DEFINE c == Current(s)
             k == Len(Out)
  <2>2. /\ k \in Nat /\ Len(Out') = k + 1 /\ Out'[k + 1].transmit = c
        /\ \A n \in 1 .. k : Out'[n] = Out[n]
    BY <2>1, OutAppended, CurrentTypes
  <2>3. c \in Transmit /\ c.by = s /\ c.transmit = transmit[s] /\ c.of = segments[s]
        /\ transmit[s] \in Nat
    BY CurrentTypes DEF TypeOK
  <2>4. pc[s] = "send" /\ pc' = [pc EXCEPT ![s] = "sent"] /\ UNCHANGED <<transmit, segments>>
    BY <2>1 DEF TrySendOk, Goto
  <2> HIDE DEF c, k
  <2>5. Placed(c)'
    <3>1. pc'[s] = "sent"
      BY <2>4 DEF TypeOK
    <3>2. transmit'[s] = c.transmit /\ segments'[s] = c.of /\ c.transmit <= transmit'[s]
      BY ONLY <2>3, <2>4
    <3>3. c' = c
      BY <2>4 DEF c, Current
    <3> QED BY <2>3, <3>1, <3>2, <3>3 DEF Placed, ToWrite
  <2>6. c' = c
    BY <2>4 DEF c, Current
  <2>7. OrderInv'
    <3> SUFFICES ASSUME NEW n \in 1 .. k + 1 PROVE Placed(Out[n].transmit)'
      BY <2>2 DEF OrderInv
    <3>1. CASE n = k + 1
      BY <2>2, <2>5, <2>6, <3>1 DEF Placed
    <3>2. CASE n \in 1 .. k
      <4>1. Placed(Out[n].transmit)
        BY <1>1, <3>2 DEF k
      <4>2. Out'[n] = Out[n] /\ Out[n].transmit \in Transmit
        BY <1>0, <2>2, <3>2 DEF k
      <4> QED BY <1>2, <4>1, <4>2 DEF Placed
    <3> QED BY <2>2, <3>1, <3>2
  <2>8. \A n \in 1 .. k : Out[n].transmit.by = s =>
           \/ Out[n].transmit.transmit < c.transmit
           \/ Out[n].transmit = c /\ c.of > 1
    <3> SUFFICES ASSUME NEW n \in 1 .. k, Out[n].transmit.by = s
                 PROVE  \/ Out[n].transmit.transmit < c.transmit
                        \/ Out[n].transmit = c /\ c.of > 1
      OBVIOUS
    <3> DEFINE t == Out[n].transmit
    <3>1. t \in Transmit /\ Placed(t) /\ t.by = s
      BY <1>0, <1>1 DEF k
    <3> HIDE DEF t
    <3>2. t.transmit \in Nat /\ t = [by |-> t.by, transmit |-> t.transmit, of |-> t.of]
      BY <3>1 DEF Transmit
    <3>3. c = [by |-> c.by, transmit |-> c.transmit, of |-> c.of]
      BY <2>3 DEF Transmit
    <3>4. CASE t.transmit = c.transmit
      <4>1. t.of = segments[s] /\ t.of > 1
        BY <2>3, <2>4, <3>1, <3>4 DEF Placed, ToWrite
      <4>2. t = c
        BY ONLY <2>3, <3>1, <3>2, <3>3, <3>4, <4>1
      <4> QED BY <4>1, <4>2 DEF t
    <3>5. CASE t.transmit # c.transmit
      <4>1. t.transmit <= c.transmit
        BY ONLY <2>3, <3>1 DEF Placed
      <4>2. t.transmit < c.transmit
        BY ONLY <2>3, <3>2, <3>5, <4>1
      <4> QED BY <4>2 DEF t
    <3> QED BY <3>4, <3>5
  <2>9. OnceAndInOrder'
    <3> SUFFICES ASSUME NEW m \in 1 .. k + 1, NEW n \in 1 .. k + 1, m < n,
                        Out'[m].transmit.by = Out'[n].transmit.by
                 PROVE  \/ Out'[m].transmit.transmit < Out'[n].transmit.transmit
                        \/ Out'[m].transmit = Out'[n].transmit /\ Out'[m].transmit.of > 1
      BY <2>2 DEF OnceAndInOrder
    <3>1. m \in 1 .. k /\ Out'[m] = Out[m] /\ (n \in 1 .. k \/ n = k + 1)
      <4>1. k \in Nat /\ m \in 1 .. k + 1 /\ n \in 1 .. k + 1 /\ m < n
        BY <2>2
      <4>2. m \in 1 .. k /\ (n \in 1 .. k \/ n = k + 1)
        BY ONLY <4>1
      <4> QED BY <2>2, <4>2
    <3>2. CASE n \in 1 .. k
      BY <2>2, <3>1, <3>2 DEF OnceAndInOrder, k
    <3>3. CASE n = k + 1
      BY <2>2, <2>3, <2>8, <3>1, <3>3
    <3> QED BY <3>1, <3>2, <3>3
  <2> QED BY <2>7, <2>9
<1> QED BY <1>3, <1>4, OutStep

\* For every number of senders a sender's transmits go out in its order, and
\* only one that is split can be written more than once: OnceAndInOrder always
\* holds.
THEOREM WrittenOnceInOrder == Spec => []OnceAndInOrder
<1>1. Init => OrderInv /\ OnceAndInOrder
  <2> SUFFICES ASSUME Init PROVE OrderInv /\ OnceAndInOrder
    OBVIOUS
  <2>1. Len(Out) = 0
    BY EmptySeq DEF Init, Out
  <2> QED BY <2>1 DEF OrderInv, OnceAndInOrder
<1>2. TypeOK /\ OrderInv /\ OnceAndInOrder /\ [Next]_vars => OrderInv' /\ OnceAndInOrder'
  BY OrderStep
<1> QED BY <1>1, <1>2, InitTypes, TypeStep, PTL DEF Spec

=============================================================================
