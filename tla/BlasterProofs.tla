---------------------------- MODULE BlasterProofs ----------------------------
(***************************************************************************)
(* Proofs about Blaster, for any number of threads, any sizes, rates and   *)
(* batches: the summary is exact, the reporter's lines fit it, and the     *)
(* threads together keep to the rate.                                      *)
(***************************************************************************)
EXTENDS Blaster, FiniteSetTheorems, TLAPS

\* There is at least one thread, and no number of them is negative.
LEMMA ThreadsExist ==
    threads \in Nat /\ threads >= 1 /\ 1 \in Workers /\ BATCH \in Nat /\ BATCH >= 1
BY BlasterAssumption DEF threads, Workers

Labels == {"none", "bind", "loop", "send", "sent", "bytes", "error", "sleep", "done", "failed"}
Busy == {"send", "sent", "bytes", "error"}

\* The part of the type invariant that the threads change.
ThreadOK ==
    /\ pc \in [Workers -> Labels]
    /\ start \in [Workers -> Nat] /\ sent \in [Workers -> Nat]
    /\ left \in [Workers -> 0 .. BATCH]
    /\ \A i \in Workers : pc[i] \in Busy => left[i] > 0
    /\ stats \in Stats /\ taken \in Nat /\ refused \in Nat

\* The part that main, the clock and the reporter change.
RestOK ==
    /\ now \in Nat /\ size \in Sizes /\ pps \in Rates
    /\ main \in {"template", "spawn", "select", "join", "summary", "ended", "failed", "panicked"}
    /\ worker \in Workers
    /\ running \in BOOLEAN /\ aborted \in BOOLEAN
    /\ summary \in Stats /\ loaded \in Nat /\ last \in Nat
    /\ reporter \in {"none", "sleep", "print"}
    /\ wake \in Nat /\ reported \in Nat
    /\ last <= loaded /\ loaded <= stats.sent /\ reported = last

\* Together they are more than the type invariant.
LEMMA TypeParts ==
    ThreadOK /\ RestOK => TypeOK
BY DEF TypeOK, ThreadOK, RestOK, Labels, Busy

\* The process starts in such a state.
LEMMA InitTypes ==
    Init => ThreadOK /\ RestOK
<1> SUFFICES ASSUME Init PROVE ThreadOK /\ RestOK
    OBVIOUS
<1>1. ZeroStats \in Stats /\ 0 \in 0 .. BATCH
    BY ThreadsExist DEF Stats, ZeroStats
<1>2. ThreadOK
    BY <1>1 DEF Init, ThreadOK, Labels, Busy
<1>3. RestOK
    <2>1. running \in BOOLEAN /\ aborted \in BOOLEAN /\ summary \in Stats
        BY <1>1, Zenon DEF Init
    <2>2. stats.sent = 0
        BY DEF Init, ZeroStats
    <2>3. now = 0 /\ wake = 0 /\ loaded = 0 /\ last = 0 /\ reported = 0 /\ worker = 1
        BY DEF Init
    <2>4. size \in Sizes /\ pps \in Rates /\ main = "template" /\ reporter = "none"
        BY DEF Init
    <2> QED
        BY ONLY <2>1, <2>2, <2>3, <2>4, ThreadsExist DEF RestOK
<1> QED
    BY <1>2, <1>3

\* A thread that goes to a label at which it sends nothing.
LEMMA GotoQuiet ==
    ASSUME ThreadOK, NEW i \in Workers, NEW l \in Labels \ Busy, Goto(i, l),
           left' = left
    PROVE  pc' \in [Workers -> Labels] /\ \A j \in Workers : pc'[j] \in Busy => left'[j] > 0
BY DEF ThreadOK, Goto

\* A thread that goes on within its datagram.
LEMMA GotoBusy ==
    ASSUME ThreadOK, NEW i \in Workers, NEW l \in Labels, Goto(i, l), pc[i] \in Busy,
           left' = left
    PROVE  pc' \in [Workers -> Labels] /\ \A j \in Workers : pc'[j] \in Busy => left'[j] > 0
BY DEF ThreadOK, Goto

\* After a datagram the thread has something left to send, or sends nothing.
LEMMA NextInBatchTypes ==
    ASSUME ThreadOK, NEW i \in Workers, NextInBatch(i), pc[i] \in Busy
    PROVE  /\ pc' \in [Workers -> Labels] /\ \A j \in Workers : pc'[j] \in Busy => left'[j] > 0
           /\ left' \in [Workers -> 0 .. BATCH] /\ sent' \in [Workers -> Nat]
           /\ \E l \in {"send", "sleep", "loop"} : Goto(i, l)
<1>1. left[i] \in 0 .. BATCH /\ left[i] > 0 /\ sent[i] \in Nat /\ BATCH \in Nat
    BY ThreadsExist DEF ThreadOK
<1>2. left[i] - 1 \in 0 .. BATCH /\ sent[i] + BATCH \in Nat
    BY <1>1
<1>3. left' = [left EXCEPT ![i] = left[i] - 1]
    BY DEF NextInBatch
<1>4. left' \in [Workers -> 0 .. BATCH]
    BY <1>2, <1>3 DEF ThreadOK
<1>5. CASE left[i] > 1 /\ Goto(i, "send") /\ UNCHANGED sent
    <2>1. pc' \in [Workers -> Labels]
        BY <1>5 DEF ThreadOK, Goto, Labels
    <2>2. left'[i] > 0 /\ \A j \in Workers \ {i} : left'[j] = left[j] /\ pc'[j] = pc[j]
        BY <1>1, <1>3, <1>5 DEF ThreadOK, Goto
    <2> QED
        BY <1>4, <1>5, <2>1, <2>2 DEF ThreadOK
<1>6. ASSUME NEW l \in {"sleep", "loop"}, Goto(i, l), sent' = [sent EXCEPT ![i] = @ + BATCH]
      PROVE  /\ pc' \in [Workers -> Labels] /\ \A j \in Workers : pc'[j] \in Busy => left'[j] > 0
             /\ sent' \in [Workers -> Nat]
    <2>1. pc' \in [Workers -> Labels]
        BY <1>6 DEF ThreadOK, Goto, Labels
    <2>2. pc'[i] \notin Busy /\ \A j \in Workers \ {i} : left'[j] = left[j] /\ pc'[j] = pc[j]
        BY <1>3, <1>6 DEF ThreadOK, Goto, Busy
    <2>3. sent' \in [Workers -> Nat]
        BY <1>2, <1>6 DEF ThreadOK
    <2> QED
        BY <2>1, <2>2, <2>3 DEF ThreadOK
<1>7. \/ left[i] > 1 /\ Goto(i, "send") /\ UNCHANGED sent
      \/ \E l \in {"sleep", "loop"} : Goto(i, l) /\ sent' = [sent EXCEPT ![i] = @ + BATCH]
    BY DEF NextInBatch
<1> QED
    BY <1>4, <1>5, <1>6, <1>7

\* The statistics grow, and stay natural numbers.
LEMMA StatsGrow ==
    ASSUME ThreadOK, RestOK
    PROVE  /\ stats' = [stats EXCEPT !.sent = @ + 1] => stats' \in Stats /\ loaded <= stats'.sent
           /\ stats' = [stats EXCEPT !.bytes = @ + size] => stats' \in Stats /\ loaded <= stats'.sent
           /\ stats' = [stats EXCEPT !.errors = @ + 1] => stats' \in Stats /\ loaded <= stats'.sent
<1>1. stats \in Stats /\ size \in Nat /\ loaded \in Nat /\ loaded <= stats.sent
    BY BlasterAssumption DEF ThreadOK, RestOK
<1> QED
    BY ONLY <1>1 DEF Stats

\* What a step of a thread leaves alone.
Elsewhere == UNCHANGED <<clock, process, report>>

\* A thread keeps the types of what it changes.
LEMMA ThreadTypes ==
    ASSUME ThreadOK, RestOK, NEW i \in Workers, BindFails(i) \/ SendErr(i) \/ Thread(i)
    PROVE  ThreadOK' /\ RestOK'
<1>1. Elsewhere
    BY DEF Elsewhere, BindFails, SendErr, Thread, Bind, NextBatch, Return, SendOk, AddSent,
           AddBytes, AddError, Wake
<1>2. SUFFICES ThreadOK' /\ loaded <= stats'.sent
    BY <1>1 DEF Elsewhere, RestOK, clock, process, report
<1>3. loaded <= stats.sent
    BY DEF RestOK
<1>4. CASE Bind(i)
    <2>1. start' \in [Workers -> Nat]
        BY <1>4 DEF Bind, ThreadOK, RestOK
    <2>2. Goto(i, "loop") /\ "loop" \in Labels \ Busy
        BY <1>4 DEF Bind, Labels, Busy
    <2> QED
        BY <1>3, <1>4, <2>1, <2>2, GotoQuiet DEF Bind, ThreadOK, socket
<1>5. CASE BindFails(i) \/ Return(i) \/ Wake(i)
    <2>1. PICK l \in Labels \ Busy : Goto(i, l)
        BY <1>5 DEF BindFails, Return, Wake, Labels, Busy
    <2>2. UNCHANGED <<start, sent, left, stats, socket>>
        BY <1>5 DEF BindFails, Return, Wake
    <2> QED
        BY <1>3, <2>1, <2>2, GotoQuiet DEF ThreadOK, socket
<1>6. CASE NextBatch(i)
    <2>1. Goto(i, "send") /\ left' = [left EXCEPT ![i] = BATCH] /\ UNCHANGED <<start, sent, stats, socket>>
        BY <1>6 DEF NextBatch
    <2>2. BATCH \in 0 .. BATCH /\ BATCH > 0
        BY ThreadsExist
    <2>3. pc' \in [Workers -> Labels] /\ left' \in [Workers -> 0 .. BATCH]
        BY <2>1, <2>2 DEF Goto, ThreadOK, Labels
    <2>4. \A j \in Workers : pc'[j] \in Busy => left'[j] > 0
        BY <2>1, <2>2 DEF Goto, ThreadOK
    <2> QED
        BY <1>3, <2>1, <2>3, <2>4 DEF ThreadOK, socket
<1>7. CASE SendOk(i) \/ SendErr(i)
    <2>1. PICK l \in Labels : Goto(i, l) /\ pc[i] \in Busy
        BY <1>7 DEF SendOk, SendErr, Labels, Busy
    <2>2. taken' \in Nat /\ refused' \in Nat /\ UNCHANGED <<start, sent, left, stats>>
        BY <1>7 DEF SendOk, SendErr, ThreadOK
    <2> QED
        BY <1>3, <2>1, <2>2, GotoBusy DEF ThreadOK
<1>8. CASE AddSent(i)
    <2>1. Goto(i, "bytes") /\ "bytes" \in Labels /\ pc[i] \in Busy
        BY <1>8 DEF AddSent, Labels, Busy
    <2>2. stats' \in Stats /\ loaded <= stats'.sent
        BY <1>8, StatsGrow DEF AddSent
    <2>3. UNCHANGED <<start, sent, left, socket>>
        BY <1>8 DEF AddSent
    <2> QED
        BY <2>1, <2>2, <2>3, GotoBusy DEF ThreadOK, socket
<1>9. CASE AddBytes(i) \/ AddError(i)
    <2>1. NextInBatch(i) /\ pc[i] \in Busy /\ UNCHANGED <<start, socket>>
        BY <1>9 DEF AddBytes, AddError, Busy
    <2>2. stats' \in Stats /\ loaded <= stats'.sent
        BY <1>9, StatsGrow DEF AddBytes, AddError
    <2> QED
        BY <2>1, <2>2, NextInBatchTypes DEF ThreadOK, socket
<1> QED
    BY <1>4, <1>5, <1>6, <1>7, <1>8, <1>9 DEF Thread

\* The steps of main, the clock and the reporter.
Others == Tick \/ Main \/ MainFails \/ CtrlC \/ LoadStats \/ PrintLine

\* Of the threads' state they change at most the label of one that is spawned.
LEMMA OthersLeave ==
    ASSUME Others
    PROVE  /\ UNCHANGED <<start, sent, left, stats, taken, refused, size>>
           /\ UNCHANGED pc \/ SpawnOk
BY DEF Others, Tick, Main, MainFails, CtrlC, LoadStats, PrintLine, BuildTemplate, SpawnOk,
       Deadline, StopAll, Join, Summarize, thread, socket, process

\* They keep the types.
LEMMA OthersTypes ==
    ASSUME ThreadOK, RestOK, Others
    PROVE  ThreadOK' /\ RestOK'
<1>1. ThreadOK'
    <2>1. CASE UNCHANGED pc
        BY <2>1, OthersLeave DEF ThreadOK
    <2>2. CASE SpawnOk
        <3>1. Goto(worker, "bind") /\ "bind" \in Labels \ Busy /\ worker \in Workers
            BY <2>2 DEF SpawnOk, Labels, Busy, RestOK
        <3> QED
            BY <3>1, OthersLeave, GotoQuiet DEF ThreadOK
    <2> QED
        BY <2>1, <2>2, OthersLeave
<1> SUFFICES RestOK'
    BY <1>1
<1>2. now \in Nat /\ threads \in Nat /\ stats \in Stats /\ stats.sent \in Nat
    BY ThreadsExist DEF RestOK, ThreadOK, Stats
<1>0. UNCHANGED <<size, stats>>
    BY OthersLeave
<1>3. CASE Tick
    BY <1>0, <1>2, <1>3 DEF Tick, RestOK, process, report
<1>4. CASE BuildTemplate \/ MainFails
    <2>1. main' \in {"spawn", "failed", "panicked"}
        BY <1>4 DEF BuildTemplate, MainFails, InitialTemplate
    <2> QED
        BY <1>0, <1>4, <2>1 DEF BuildTemplate, MainFails, RestOK, clock, report
<1>5. CASE SpawnOk
    <2>1. worker' \in Workers
        BY <1>5, ThreadsExist DEF SpawnOk, RestOK, Workers
    <2>2. main' \in {"spawn", "select"} /\ wake' \in Nat /\ reporter' \in {"none", "sleep", "print"}
        BY <1>2, <1>5 DEF SpawnOk, RestOK
    <2> QED
        BY <1>0, <1>5, <2>1, <2>2 DEF SpawnOk, RestOK, clock
<1>6. CASE Deadline \/ CtrlC
    <2>1. running' \in BOOLEAN /\ aborted' \in BOOLEAN
        BY <1>6, Zenon DEF Deadline, CtrlC, StopAll
    <2> QED
        BY <1>0, <1>6, <2>1 DEF Deadline, CtrlC, StopAll, RestOK, clock
<1>7. CASE Join
    <2>1. worker' \in Workers
        BY <1>7, ThreadsExist DEF Join, RestOK, Workers
    <2> QED
        BY <1>0, <1>7, <2>1 DEF Join, RestOK, clock, report
<1>8. CASE Summarize
    BY <1>0, <1>2, <1>8 DEF Summarize, RestOK, clock, report
<1>9. CASE LoadStats
    BY <1>0, <1>2, <1>9 DEF LoadStats, RestOK, clock, process
<1>10. CASE PrintLine
    <2>1. reported' = last' /\ last' = loaded /\ wake' \in Nat
        BY <1>2, <1>10 DEF PrintLine, RestOK
    <2> QED
        BY <1>0, <1>10, <2>1 DEF PrintLine, RestOK, clock, process
<1> QED
    BY <1>3, <1>4, <1>5, <1>6, <1>7, <1>8, <1>9, <1>10 DEF Others, Main

\* Every step is one of a thread, or of something else.
LEMMA Steps ==
    Next <=> Others \/ \E i \in Workers : BindFails(i) \/ SendErr(i) \/ Thread(i)
BY DEF Next, Others

\* Every step keeps the types.
LEMMA TypeStep ==
    ThreadOK /\ RestOK /\ [Next]_vars => ThreadOK' /\ RestOK'
<1>1. CASE UNCHANGED vars
    BY <1>1 DEF vars, clock, process, thread, socket, report, ThreadOK, RestOK
<1> QED
    BY <1>1, Steps, ThreadTypes, OthersTypes

-----------------------------------------------------------------------------
(* What the statistics lack is what the threads still have to add.         *)

\* The threads whose label is one of these.
At(labels) == {i \in Workers : pc[i] \in labels}

\* There are finitely many of them.
LEMMA AtFinite ==
    ASSUME NEW labels
    PROVE  IsFiniteSet(At(labels)) /\ Cardinality(At(labels)) \in Nat
<1>1. IsFiniteSet(Workers)
    BY ThreadsExist, FS_Interval DEF Workers
<1> QED
    BY <1>1, FS_Subset, FS_CardinalityType DEF At

\* A thread that comes to be at the labels adds one, one that leaves takes one.
LEMMA AtMoves ==
    ASSUME ThreadOK, NEW i \in Workers, NEW l, Goto(i, l), NEW labels
    PROVE  /\ pc[i] \notin labels /\ l \in labels =>
                 Cardinality(At(labels)') = Cardinality(At(labels)) + 1
           /\ pc[i] \in labels /\ l \notin labels =>
                 Cardinality(At(labels)') = Cardinality(At(labels)) - 1
           /\ (pc[i] \in labels <=> l \in labels) => At(labels)' = At(labels)
<1>1. pc' = [pc EXCEPT ![i] = l] /\ DOMAIN pc = Workers
    BY DEF Goto, ThreadOK
<1>2. ASSUME pc[i] \notin labels, l \in labels
      PROVE  Cardinality(At(labels)') = Cardinality(At(labels)) + 1
    <2>1. At(labels)' = At(labels) \cup {i} /\ i \notin At(labels)
        BY <1>1, <1>2 DEF At
    <2> QED
        BY <2>1, AtFinite, FS_AddElement
<1>3. ASSUME pc[i] \in labels, l \notin labels
      PROVE  Cardinality(At(labels)') = Cardinality(At(labels)) - 1
    <2>1. At(labels)' = At(labels) \ {i} /\ i \in At(labels)
        BY <1>1, <1>3 DEF At
    <2> QED
        BY <2>1, AtFinite, FS_RemoveElement
<1>4. ASSUME pc[i] \in labels <=> l \in labels
      PROVE  At(labels)' = At(labels)
    BY <1>1, <1>4 DEF At
<1> QED
    BY <1>2, <1>3, <1>4

Final == {"done", "failed"}

\* What main has spawned, joined and loaded.
Progress ==
    /\ main = "template" => worker = 1
    /\ main \in {"template", "spawn"} => \A i \in Workers : i >= worker => pc[i] = "none"
    /\ main = "select" => worker = 1
    /\ main = "join" => \A i \in Workers : i < worker => pc[i] \in Final
    /\ main \in {"summary", "ended"} => \A i \in Workers : pc[i] \in Final
    /\ main = "ended" => summary = stats

\* Between a send and the additions that count it a thread is at a label of its own.
Counts ==
    /\ taken = stats.sent + Cardinality(At({"sent"}))
    /\ stats.bytes = size * (taken - Cardinality(At({"sent", "bytes"})))
    /\ refused = stats.errors + Cardinality(At({"error"}))

\* Every step keeps the statistics in agreement with what the sockets took.
LEMMA CountStep ==
    ThreadOK /\ RestOK /\ Progress /\ Counts /\ [Next]_vars => Counts'
<1> SUFFICES ASSUME ThreadOK, RestOK, Progress, Counts, [Next]_vars PROVE Counts'
    OBVIOUS
<1> DEFINE a == Cardinality(At({"sent"}))
           b == Cardinality(At({"sent", "bytes"}))
           f == Cardinality(At({"error"}))
<1>1. /\ a \in Nat /\ b \in Nat /\ f \in Nat /\ taken \in Nat /\ refused \in Nat
      /\ size \in Nat /\ stats \in Stats
    BY AtFinite, BlasterAssumption DEF ThreadOK, RestOK
<1>2. /\ stats.sent \in Nat /\ stats.bytes \in Nat /\ stats.errors \in Nat
    BY ONLY <1>1 DEF Stats
<1>3. taken = stats.sent + a /\ refused = stats.errors + f
    BY DEF Counts
<1>bytes. stats.bytes = size * (taken - b)
    BY DEF Counts
<1>4. SUFFICES taken' = stats'.sent + a' /\ stats'.bytes = size' * (taken' - b')
               /\ refused' = stats'.errors + f'
    BY DEF Counts
<1>5. ASSUME NEW i \in Workers, BindFails(i) \/ SendErr(i) \/ Thread(i) PROVE size' = size
    BY <1>5 DEF BindFails, SendErr, Thread, Bind, NextBatch, Return, SendOk, AddSent, AddBytes,
                AddError, Wake, process
<1>6. ASSUME NEW i \in Workers, SendOk(i)
      PROVE  /\ taken' = stats'.sent + a' /\ stats'.bytes = size' * (taken' - b')
             /\ refused' = stats'.errors + f'
    <2>1. Goto(i, "sent") /\ pc[i] = "send" /\ taken' = taken + 1 /\ UNCHANGED <<size, stats, refused>>
        BY <1>6 DEF SendOk, process
    <2>2. a' = a + 1 /\ b' = b + 1 /\ f' = f
        BY <2>1, AtMoves
    <2> HIDE DEF a, b, f
    <2>3. taken' - b' = taken - b
        BY ONLY <1>1, <2>1, <2>2
    <2>4. stats'.bytes = size' * (taken' - b')
        BY ONLY <1>bytes, <2>1, <2>3, Zenon
    <2>5. taken' = stats'.sent + a' /\ refused' = stats'.errors + f'
        BY ONLY <1>1, <1>2, <1>3, <2>1, <2>2
    <2> QED
        BY ONLY <2>4, <2>5
<1>7. ASSUME NEW i \in Workers, SendErr(i)
      PROVE  /\ taken' = stats'.sent + a' /\ stats'.bytes = size' * (taken' - b')
             /\ refused' = stats'.errors + f'
    <2>1. Goto(i, "error") /\ pc[i] = "send" /\ refused' = refused + 1 /\ UNCHANGED <<size, stats, taken>>
        BY <1>7 DEF SendErr, process
    <2>2. a' = a /\ b' = b /\ f' = f + 1
        BY <2>1, AtMoves
    <2> HIDE DEF a, b, f
    <2>3. stats'.bytes = size' * (taken' - b')
        BY ONLY <1>bytes, <2>1, <2>2, Zenon
    <2>4. taken' = stats'.sent + a' /\ refused' = stats'.errors + f'
        BY ONLY <1>1, <1>2, <1>3, <2>1, <2>2
    <2> QED
        BY ONLY <2>3, <2>4
<1>8. ASSUME NEW i \in Workers, AddSent(i)
      PROVE  /\ taken' = stats'.sent + a' /\ stats'.bytes = size' * (taken' - b')
             /\ refused' = stats'.errors + f'
    <2>1. Goto(i, "bytes") /\ pc[i] = "sent" /\ UNCHANGED <<size, taken, refused>>
        BY <1>8 DEF AddSent, process, socket
    <2>2. stats'.sent = stats.sent + 1 /\ stats'.bytes = stats.bytes /\ stats'.errors = stats.errors
        BY <1>1, <1>8 DEF AddSent, Stats
    <2>3. a' = a - 1 /\ b' = b /\ f' = f
        BY <2>1, AtMoves
    <2> HIDE DEF a, b, f
    <2>4. stats'.bytes = size' * (taken' - b')
        BY ONLY <1>bytes, <2>1, <2>2, <2>3, Zenon
    <2>5. taken' = stats'.sent + a' /\ refused' = stats'.errors + f'
        BY ONLY <1>1, <1>2, <1>3, <2>1, <2>2, <2>3
    <2> QED
        BY ONLY <2>4, <2>5
<1>9. ASSUME NEW i \in Workers, AddBytes(i)
      PROVE  /\ taken' = stats'.sent + a' /\ stats'.bytes = size' * (taken' - b')
             /\ refused' = stats'.errors + f'
    <2>1. pc[i] = "bytes" /\ UNCHANGED <<size, taken, refused>>
        BY <1>9 DEF AddBytes, process, socket
    <2>2. PICK l \in {"send", "sleep", "loop"} : Goto(i, l)
        BY <1>9, NextInBatchTypes DEF AddBytes, Busy
    <2>3. stats'.sent = stats.sent /\ stats'.bytes = stats.bytes + size /\ stats'.errors = stats.errors
        BY <1>1, <1>9 DEF AddBytes, Stats
    <2>4. a' = a /\ b' = b - 1 /\ f' = f
        BY <2>1, <2>2, AtMoves
    <2> HIDE DEF a, b, f
    <2>5. size * (taken - b) + size = size * ((taken - b) + 1)
        BY ONLY <1>1, SMT
    <2>6. taken' - b' = (taken - b) + 1
        BY ONLY <1>1, <2>1, <2>4
    <2>7. stats'.bytes = size' * (taken' - b')
        BY ONLY <1>bytes, <2>1, <2>3, <2>5, <2>6, Zenon
    <2> QED
        BY ONLY <1>3, <2>1, <2>3, <2>4, <2>7
<1>10. ASSUME NEW i \in Workers, AddError(i)
       PROVE  /\ taken' = stats'.sent + a' /\ stats'.bytes = size' * (taken' - b')
              /\ refused' = stats'.errors + f'
    <2>1. pc[i] = "error" /\ UNCHANGED <<size, taken, refused>>
        BY <1>10 DEF AddError, process, socket
    <2>2. PICK l \in {"send", "sleep", "loop"} : Goto(i, l)
        BY <1>10, NextInBatchTypes DEF AddError, Busy
    <2>3. stats'.sent = stats.sent /\ stats'.bytes = stats.bytes /\ stats'.errors = stats.errors + 1
        BY <1>1, <1>10 DEF AddError, Stats
    <2>4. a' = a /\ b' = b /\ f' = f - 1
        BY <2>1, <2>2, AtMoves
    <2> HIDE DEF a, b, f
    <2>5. stats'.bytes = size' * (taken' - b')
        BY ONLY <1>bytes, <2>1, <2>3, <2>4, Zenon
    <2>6. taken' = stats'.sent + a' /\ refused' = stats'.errors + f'
        BY ONLY <1>1, <1>2, <1>3, <2>1, <2>3, <2>4
    <2> QED
        BY ONLY <2>5, <2>6
<1>11. ASSUME UNCHANGED <<size, stats, taken, refused>>,
              \/ UNCHANGED pc
              \/ \E i \in Workers, l \in {"bind", "loop", "send", "done", "failed"} :
                    Goto(i, l) /\ pc[i] \notin {"sent", "bytes", "error"}
       PROVE  /\ taken' = stats'.sent + a' /\ stats'.bytes = size' * (taken' - b')
              /\ refused' = stats'.errors + f'
    <2>1. a' = a /\ b' = b /\ f' = f
        <3>1. CASE UNCHANGED pc
            BY <3>1 DEF At
        <3>2. CASE \E i \in Workers, l \in {"bind", "loop", "send", "done", "failed"} :
                      Goto(i, l) /\ pc[i] \notin {"sent", "bytes", "error"}
            BY <3>2, AtMoves
        <3> QED
            BY <1>11, <3>1, <3>2
    <2> HIDE DEF a, b, f
    <2> QED
        BY ONLY <1>3, <1>bytes, <1>11, <2>1
<1>12. ASSUME NEW i \in Workers,
              Bind(i) \/ BindFails(i) \/ NextBatch(i) \/ Return(i) \/ Wake(i)
       PROVE  /\ UNCHANGED <<size, stats, taken, refused>>
              /\ \E l \in {"bind", "loop", "send", "done", "failed"} :
                    Goto(i, l) /\ pc[i] \notin {"sent", "bytes", "error"}
    BY <1>12 DEF Bind, BindFails, NextBatch, Return, Wake, process, socket
<1>13. ASSUME Others
       PROVE  /\ UNCHANGED <<size, stats, taken, refused>>
              /\ \/ UNCHANGED pc
                 \/ Goto(worker, "bind") /\ worker \in Workers /\ pc[worker] = "none"
    <2>1. CASE SpawnOk
        <3>1. main = "spawn" /\ Goto(worker, "bind") /\ worker \in Workers /\ worker >= worker
            BY <2>1, ThreadsExist DEF SpawnOk, RestOK, Workers
        <3> QED
            BY <1>13, <3>1, OthersLeave DEF Progress
    <2> QED
        BY <1>13, <2>1, OthersLeave
<1>14. CASE Others
    BY <1>11, <1>13, <1>14
<1>15. CASE UNCHANGED vars
    BY <1>11, <1>15 DEF vars, process, thread, socket
<1>16. CASE \E i \in Workers : Bind(i) \/ BindFails(i) \/ NextBatch(i) \/ Return(i) \/ Wake(i)
    BY <1>11, <1>12, <1>16
<1> HIDE DEF a, b, f
<1> QED
    BY <1>6, <1>7, <1>8, <1>9, <1>10, <1>14, <1>15, <1>16, Steps DEF Thread

-----------------------------------------------------------------------------
(* main waits for every thread before it loads the statistics.             *)

\* A thread that has returned stays so, and no thread starts by itself.
LEMMA ThreadMoves ==
    ASSUME ThreadOK, NEW i \in Workers, BindFails(i) \/ SendErr(i) \/ Thread(i)
    PROVE  /\ \A j \in Workers : pc[j] \in Final \cup {"none"} => pc'[j] = pc[j]
           /\ UNCHANGED <<main, worker, summary>>
           /\ pc[i] \notin Final \cup {"none"} /\ main # "ended"
<1>1. pc[i] \notin Final \cup {"none"} /\ main # "ended" /\ UNCHANGED <<main, worker, summary>>
    BY DEF BindFails, SendErr, Thread, Bind, NextBatch, Return, SendOk, AddSent, AddBytes,
           AddError, Wake, Alive, Final, process
<1>2. \E l : Goto(i, l)
    BY DEF BindFails, SendErr, Thread, Bind, NextBatch, Return, SendOk, AddSent, AddBytes,
           AddError, Wake, NextInBatch
<1> QED
    BY <1>1, <1>2 DEF Goto, ThreadOK

\* Every step keeps main's progress in agreement with the threads'.
LEMMA ProgressStep ==
    ThreadOK /\ RestOK /\ Progress /\ [Next]_vars => Progress'
<1> SUFFICES ASSUME ThreadOK, RestOK, Progress, [Next]_vars PROVE Progress'
    OBVIOUS
<1>1. ASSUME NEW i \in Workers, BindFails(i) \/ SendErr(i) \/ Thread(i) PROVE Progress'
    <2>1. /\ \A j \in Workers : pc[j] \in Final \cup {"none"} => pc'[j] = pc[j]
          /\ UNCHANGED <<main, worker, summary>> /\ main # "ended"
        BY <1>1, ThreadMoves
    <2> QED
        BY <2>1 DEF Progress
<1>2. CASE UNCHANGED vars
    BY <1>2 DEF Progress, vars, process, thread
<1>3. threads \in Nat /\ worker \in 1 .. threads /\ Workers = 1 .. threads
    BY ThreadsExist DEF RestOK, Workers
<1>4. CASE Tick \/ LoadStats \/ PrintLine
    BY <1>4 DEF Progress, Tick, LoadStats, PrintLine, process, thread
<1>5. CASE BuildTemplate
    <2>1. main' \in {"spawn", "failed", "panicked"} /\ main = "template" /\ UNCHANGED <<pc, worker>>
        BY <1>5 DEF BuildTemplate, InitialTemplate, thread
    <2> QED
        BY <2>1 DEF Progress
<1>6. CASE SpawnOk
    <2>1. main = "spawn" /\ main' \in {"spawn", "select"} /\ Goto(worker, "bind")
          /\ (main' = "spawn" => worker' = worker + 1) /\ (main' = "select" => worker' = 1)
        BY <1>6 DEF SpawnOk
    <2>2. \A i \in Workers : i >= worker + 1 => i >= worker /\ i # worker
        BY <1>3
    <2> QED
        BY <2>1, <2>2 DEF Progress, Goto, ThreadOK
<1>7. CASE MainFails
    BY <1>7 DEF Progress, MainFails
<1>8. CASE Deadline \/ CtrlC
    <2>1. main = "select" /\ main' = "join" /\ UNCHANGED <<pc, worker>>
        BY <1>8 DEF Deadline, CtrlC, StopAll, thread
    <2> QED
        BY <1>3, <2>1 DEF Progress
<1>9. CASE Join
    <2>1. main = "join" /\ pc[worker] \in Final /\ UNCHANGED pc
        BY <1>9 DEF Join, Final, thread
    <2>2. \A i \in Workers : i < worker \/ i = worker => pc[i] \in Final
        BY <2>1 DEF Progress
    <2>3. CASE worker < threads /\ worker' = worker + 1 /\ UNCHANGED main
        BY <1>3, <2>1, <2>2, <2>3 DEF Progress
    <2>4. CASE worker = threads /\ main' = "summary" /\ UNCHANGED worker
        <3>1. \A i \in Workers : i < worker \/ i = worker
            BY <1>3, <2>4
        <3> QED
            BY <2>1, <2>2, <2>4, <3>1 DEF Progress
    <2> QED
        BY <1>9, <2>3, <2>4 DEF Join
<1>10. CASE Summarize
    BY <1>10 DEF Progress, Summarize, thread
<1> QED
    BY <1>1, <1>2, <1>4, <1>5, <1>6, <1>7, <1>8, <1>9, <1>10, Steps DEF Others, Main

-----------------------------------------------------------------------------

\* The inductive invariant.
IInv == ThreadOK /\ RestOK /\ Progress /\ Counts

\* The process starts in it.
LEMMA InitIInv ==
    Init => IInv
<1> SUFFICES ASSUME Init PROVE IInv
    OBVIOUS
<1>1. Progress
    BY DEF Init, Progress
<1>2. ASSUME NEW labels \in {{"sent"}, {"sent", "bytes"}, {"error"}}
      PROVE  Cardinality(At(labels)) = 0
    <2>1. At(labels) = {}
        BY <1>2 DEF Init, At
    <2> QED
        BY <2>1, FS_EmptySet
<1>3. size \in Nat /\ taken = 0 /\ refused = 0 /\ stats.sent = 0 /\ stats.bytes = 0 /\ stats.errors = 0
    BY BlasterAssumption DEF Init, ZeroStats
<1>4. size * (0 - 0) = 0
    BY <1>3
<1>5. Counts
    <2>1. Cardinality(At({"sent"})) = 0 /\ Cardinality(At({"sent", "bytes"})) = 0
          /\ Cardinality(At({"error"})) = 0
        BY <1>2
    <2> QED
        BY <1>3, <1>4, <2>1 DEF Counts
<1> QED
    BY <1>1, <1>5, InitTypes DEF IInv

\* The invariant is inductive.
LEMMA Inductive ==
    Spec => []IInv
<1>1. IInv /\ [Next]_vars => IInv'
    BY TypeStep, ProgressStep, CountStep DEF IInv
<1> QED
    BY <1>1, InitIInv, PTL DEF Spec

\* However many threads there are, none sends more than its batch and main joins
\* only workers there are.
THEOREM TypesHold == Spec => []TypeOK
<1>1. IInv => TypeOK
    BY TypeParts DEF IInv
<1> QED
    BY <1>1, Inductive, PTL

\* The summary counts every datagram the sockets took, all of its bytes and
\* every failed send, whatever the threads are doing when the flag is cleared
\* (blaster.rs:281-294).
THEOREM SummariesAreExact == Spec => []SummaryIsExact
<1>1. IInv => SummaryIsExact
    <2> SUFFICES ASSUME IInv, main = "ended"
                 PROVE  /\ summary = [sent |-> taken, bytes |-> taken * size, errors |-> refused]
                        /\ \A i \in Workers : pc[i] \in {"done", "failed"}
        BY DEF SummaryIsExact
    <2>1. summary = stats /\ \A i \in Workers : pc[i] \in {"done", "failed"}
        BY DEF IInv, Progress, Final
    <2>2. ASSUME NEW labels \in {{"sent"}, {"sent", "bytes"}, {"error"}}
          PROVE  Cardinality(At(labels)) = 0
        <3>1. At(labels) = {}
            BY <2>1, <2>2 DEF At
        <3> QED
            BY <3>1, FS_EmptySet
    <2>3. Cardinality(At({"sent"})) = 0 /\ Cardinality(At({"sent", "bytes"})) = 0
          /\ Cardinality(At({"error"})) = 0
        BY <2>2
    <2>4. taken \in Nat /\ refused \in Nat /\ size \in Nat /\ stats \in Stats
        BY BlasterAssumption DEF IInv, ThreadOK, RestOK
    <2>5. taken - 0 = taken /\ size * taken = taken * size
        BY ONLY <2>4, SMT
    <2>6. stats.bytes = taken * size
        BY <2>3, <2>5, Zenon DEF IInv, Counts
    <2>7. stats.sent = taken /\ stats.errors = refused
        <3>1. taken = stats.sent + 0 /\ refused = stats.errors + 0
            BY <2>3, Zenon DEF IInv, Counts
        <3>2. stats.sent \in Nat /\ stats.errors \in Nat
            BY ONLY <2>4 DEF Stats
        <3> QED
            BY ONLY <3>1, <3>2
    <2>8. stats = [sent |-> stats.sent, bytes |-> stats.bytes, errors |-> stats.errors]
        BY ONLY <2>4 DEF Stats
    <2> QED
        BY ONLY <2>1, <2>6, <2>7, <2>8, Zenon
<1> QED
    BY <1>1, Inductive, PTL

\* The reporter's lines never add up to more than the summary and none of its
\* differences underflows, wherever it is aborted (blaster.rs:309-324).
THEOREM ReportsFit == Spec => []ReportsFitSummary
<1>1. IInv => ReportsFitSummary
    BY DEF IInv, RestOK, ThreadOK, Stats, Progress, ReportsFitSummary
<1> QED
    BY <1>1, Inductive, PTL

-----------------------------------------------------------------------------
(* The sizes.                                                              *)

\* The longest size whose length field fits the 2-byte varint of the template.
LongestFitting == 16433

\* InitialTemplate::new panics for the longer sizes that pass its checks, and for
\* no other.
LEMMA TemplateOf ==
    ASSUME NEW s \in Nat
    PROVE  /\ InitialTemplate(s) \in {"Ok", "Err", "panic"}
           /\ InitialTemplate(s) = "panic" <=> LongestFitting < s /\ s <= U16_MAX
BY SMTT(30) DEF InitialTemplate, MIN_INITIAL_DATAGRAM, TOKEN_LEN, U16_MAX, LongestFitting

\* Whatever else happens, blaster.rs panics for no size but those whose length
\* field does not fit (blaster.rs:119-122).
THEOREM OnlyLongSizesPanic == Spec => [](NeverPanics \/ (LongestFitting < size /\ size <= U16_MAX))
<1> DEFINE Fits == NeverPanics \/ (LongestFitting < size /\ size <= U16_MAX)
<1>1. Init => Fits
    BY DEF Init, NeverPanics
<1>2. IInv /\ Fits /\ [Next]_vars => Fits'
    <2> SUFFICES ASSUME IInv, Fits, [Next]_vars PROVE Fits'
        OBVIOUS
    <2>1. size \in Nat
        BY BlasterAssumption, Zenon DEF IInv, RestOK
    <2>2. CASE BuildTemplate
        <3>1. main' = "panicked" => InitialTemplate(size) = "panic"
            <4>1. InitialTemplate(size) \in {"Ok", "Err", "panic"}
                BY <2>1, TemplateOf, Zenon
            <4>2. main' = CASE InitialTemplate(size) = "Ok"    -> "spawn"
                            [] InitialTemplate(size) = "Err"   -> "failed"
                            [] InitialTemplate(size) = "panic" -> "panicked"
                BY <2>2, Zenon DEF BuildTemplate
            <4> QED
                BY ONLY <4>1, <4>2
        <3>2. size' = size
            BY <2>2, Zenon DEF BuildTemplate
        <3> QED
            BY <2>1, <3>1, <3>2, TemplateOf, Zenon DEF NeverPanics
    <2>3. CASE UNCHANGED <<main, size>>
        BY <2>3 DEF NeverPanics
    <2>4. CASE main' # "panicked"
        BY <2>4 DEF NeverPanics
    <2>5. BuildTemplate \/ UNCHANGED <<main, size>> \/ main' # "panicked"
        <3>1. CASE Main \/ MainFails \/ CtrlC
            BY <3>1 DEF Main, MainFails, CtrlC, SpawnOk, Deadline, StopAll, Join, Summarize
        <3>2. CASE \E i \in Workers : BindFails(i) \/ SendErr(i) \/ Thread(i)
            BY <3>2 DEF BindFails, SendErr, Thread, Bind, NextBatch, Return, SendOk,
                         AddSent, AddBytes, AddError, Wake, process
        <3>3. CASE Tick \/ LoadStats \/ PrintLine \/ UNCHANGED vars
            BY <3>3, Zenon DEF Tick, LoadStats, PrintLine, vars, process
        <3> QED
            BY <3>1, <3>2, <3>3, Zenon DEF Next
    <2> QED
        BY <2>2, <2>3, <2>4, <2>5
<1> HIDE DEF Fits
<1>3. Fits => NeverPanics \/ (LongestFitting < size /\ size <= U16_MAX)
    BY DEF Fits
<1> QED
    BY <1>1, <1>2, <1>3, Inductive, PTL DEF Spec

-----------------------------------------------------------------------------
(* The rate.  The sends of all threads are as many as the pairs of a thread *)
(* and the number of one of its sends.                                     *)

\* The sends that thread i has made: whole batches, and those of the present one.
Attempts(i) ==
    sent[i] + (IF pc[i] = "send" THEN BATCH - left[i]
               ELSE IF pc[i] \in Busy THEN BATCH - left[i] + 1 ELSE 0)

Sends == {s \in Workers \X Nat : s[2] < Attempts(s[1])}

\* No send is counted twice or left out.
Tally == IsFiniteSet(Sends) /\ Cardinality(Sends) = taken + refused

\* A thread that is not asleep is on schedule, and one that is has run ahead by
\* at most the batch it has sent.
OnTime(i) ==
    /\ start[i] <= now
    /\ pc[i] \in {"none", "bind", "failed"} => sent[i] = 0
    /\ pc[i] \in Busy \cup {"loop", "done"} => OnSchedule(i)
    /\ pc[i] = "sleep" => sent[i] <= PerThread(pps) * (now - start[i]) + BATCH

Paced == pps > 0 => \A i \in Workers : OnTime(i)

\* A thread has made some number of sends.
LEMMA AttemptsCount ==
    ASSUME ThreadOK, NEW i \in Workers
    PROVE  Attempts(i) \in Nat
<1>1. left[i] \in 0 .. BATCH /\ sent[i] \in Nat /\ BATCH \in Nat
    BY ThreadsExist DEF ThreadOK
<1> QED
    BY <1>1 DEF Attempts

\* A step changes the sends of the thread that takes it only.
LEMMA AttemptsElsewhere ==
    ASSUME ThreadOK, NEW i \in Workers, BindFails(i) \/ SendErr(i) \/ Thread(i),
           NEW j \in Workers, j # i
    PROVE  Attempts(j)' = Attempts(j)
<1>1. \E l : Goto(i, l)
    BY DEF BindFails, SendErr, Thread, Bind, NextBatch, Return, SendOk, AddSent, AddBytes,
           AddError, Wake, NextInBatch
<1>2. pc'[j] = pc[j]
    BY <1>1 DEF Goto, ThreadOK
<1>3. sent'[j] = sent[j] /\ left'[j] = left[j]
    BY DEF BindFails, SendErr, Thread, Bind, NextBatch, Return, SendOk, AddSent, AddBytes,
           AddError, Wake, NextInBatch, ThreadOK
<1> QED
    BY <1>2, <1>3 DEF Attempts

\* A send is one more, and no other step of a thread is.
LEMMA AttemptsStep ==
    ASSUME ThreadOK, NEW i \in Workers, BindFails(i) \/ SendErr(i) \/ Thread(i)
    PROVE  /\ SendOk(i) \/ SendErr(i) => Attempts(i)' = Attempts(i) + 1
           /\ ~(SendOk(i) \/ SendErr(i)) => Attempts(i)' = Attempts(i)
<1>1. /\ left[i] \in 0 .. BATCH /\ sent[i] \in Nat /\ BATCH \in Nat /\ i \in DOMAIN pc
      /\ i \in DOMAIN left /\ i \in DOMAIN sent
    BY ThreadsExist DEF ThreadOK
<1>2. CASE SendOk(i) \/ SendErr(i)
    <2>1. pc[i] = "send" /\ pc'[i] \in {"sent", "error"} /\ UNCHANGED <<sent, left>>
        BY <1>1, <1>2 DEF SendOk, SendErr, Goto
    <2>2. Attempts(i)' = Attempts(i) + 1
        BY ONLY <1>1, <2>1 DEF Attempts, Busy
    <2> QED
        BY <1>2, <2>2, Zenon
<1>3. CASE Bind(i) \/ BindFails(i) \/ Return(i) \/ Wake(i)
    <2>1. pc[i] \notin Busy /\ pc'[i] \notin Busy /\ UNCHANGED <<sent, left>>
        BY <1>1, <1>3 DEF Bind, BindFails, Return, Wake, Goto, Busy
    <2>2. Attempts(i)' = Attempts(i)
        BY <2>1 DEF Attempts, Busy
    <2> QED
        BY <2>1, <2>2 DEF SendOk, SendErr, Busy
<1>4. CASE NextBatch(i)
    <2>1. pc[i] = "loop" /\ pc'[i] = "send" /\ left'[i] = BATCH /\ UNCHANGED sent
        BY <1>1, <1>4 DEF NextBatch, Goto
    <2>2. Attempts(i)' = Attempts(i)
        BY ONLY <1>1, <2>1 DEF Attempts, Busy
    <2> QED
        BY <2>1, <2>2 DEF SendOk, SendErr
<1>5. CASE AddSent(i)
    <2>1. pc[i] = "sent" /\ pc'[i] = "bytes" /\ UNCHANGED <<sent, left>>
        BY <1>1, <1>5 DEF AddSent, Goto
    <2>2. Attempts(i)' = Attempts(i)
        BY <2>1 DEF Attempts, Busy
    <2> QED
        BY <2>1, <2>2 DEF SendOk, SendErr
<1>6. CASE AddBytes(i) \/ AddError(i)
    <2>1. pc[i] \in {"bytes", "error"} /\ left'[i] = left[i] - 1
        BY <1>1, <1>6 DEF AddBytes, AddError, NextInBatch
    <2>2. \/ pc'[i] = "send" /\ sent' = sent
          \/ left[i] = 1 /\ pc'[i] \in {"sleep", "loop"} /\ sent'[i] = sent[i] + BATCH
        BY <1>1, <1>6 DEF AddBytes, AddError, NextInBatch, Goto
    <2>3. Attempts(i)' = Attempts(i)
        BY ONLY <1>1, <2>1, <2>2 DEF Attempts, Busy
    <2> QED
        BY <2>1, <2>3 DEF SendOk, SendErr
<1> QED
    BY <1>2, <1>3, <1>4, <1>5, <1>6 DEF Thread

\* What is not a step of a thread sends nothing.
LEMMA AttemptsOthers ==
    ASSUME ThreadOK, RestOK, Progress, Others \/ UNCHANGED vars, NEW j \in Workers
    PROVE  Attempts(j)' = Attempts(j)
<1>1. CASE UNCHANGED vars
    BY <1>1 DEF vars, thread, Attempts
<1>2. CASE Others /\ UNCHANGED pc
    BY <1>2, OthersLeave DEF Attempts
<1>3. CASE Others /\ SpawnOk
    <2>1. worker \in Workers /\ worker >= worker /\ main = "spawn" /\ Goto(worker, "bind")
        BY <1>3, ThreadsExist DEF SpawnOk, RestOK, Workers
    <2>2. pc[worker] = "none"
        BY <2>1 DEF Progress
    <2>3. pc'[j] = pc[j] \/ (pc[j] = "none" /\ pc'[j] = "bind")
        BY <2>1, <2>2 DEF Goto, ThreadOK
    <2> QED
        BY <1>3, <2>3, OthersLeave DEF Attempts, Busy
<1> QED
    BY <1>1, <1>2, <1>3, OthersLeave

\* Every step keeps the tally: a send adds the pair of its thread and number.
LEMMA TallyStep ==
    ThreadOK /\ RestOK /\ Progress /\ Tally /\ [Next]_vars => Tally'
<1> SUFFICES ASSUME ThreadOK, RestOK, Progress, Tally, [Next]_vars PROVE Tally'
    OBVIOUS
<1>1. taken \in Nat /\ refused \in Nat
    BY DEF ThreadOK
<1>2. ASSUME \A j \in Workers : Attempts(j)' = Attempts(j), UNCHANGED <<taken, refused>>
      PROVE  Tally'
    <2>1. Sends' = Sends
        BY <1>2 DEF Sends
    <2> QED
        BY <1>2, <2>1 DEF Tally
<1>3. CASE Others \/ UNCHANGED vars
    <2>1. UNCHANGED <<taken, refused>>
        BY <1>3, OthersLeave DEF vars, socket
    <2> QED
        BY <1>2, <1>3, <2>1, AttemptsOthers
<1>4. ASSUME NEW i \in Workers, BindFails(i) \/ SendErr(i) \/ Thread(i)
      PROVE  Tally'
    <2>1. \A j \in Workers : j # i => Attempts(j)' = Attempts(j)
        BY <1>4, AttemptsElsewhere
    <2>2. CASE ~(SendOk(i) \/ SendErr(i))
        <3>1. UNCHANGED <<taken, refused>>
            BY <1>4, <2>2 DEF BindFails, Thread, Bind, NextBatch, Return, AddSent, AddBytes,
                              AddError, Wake, socket
        <3> QED
            BY <1>2, <1>4, <2>1, <2>2, <3>1, AttemptsStep
    <2>3. CASE SendOk(i) \/ SendErr(i)
        <3>1. Attempts(i)' = Attempts(i) + 1 /\ Attempts(i) \in Nat
            BY <1>4, <2>3, AttemptsStep, AttemptsCount
        <3>2. \A n \in Nat : n < Attempts(i) + 1 <=> n < Attempts(i) \/ n = Attempts(i)
            BY <3>1
        <3>3. ~(Attempts(i) < Attempts(i))
            BY <3>1
        <3>4. Sends' = Sends \cup {<<i, Attempts(i)>>} /\ <<i, Attempts(i)>> \notin Sends
            BY <2>1, <3>1, <3>2, <3>3 DEF Sends
        <3>5. taken' + refused' = taken + refused + 1
            BY <1>1, <2>3 DEF SendOk, SendErr
        <3>6. IsFiniteSet(Sends) /\ Cardinality(Sends) = taken + refused
            BY DEF Tally
        <3>7. IsFiniteSet(Sends') /\ Cardinality(Sends') = Cardinality(Sends) + 1
            BY <3>4, <3>6, FS_AddElement, Zenon
        <3> QED
            BY <3>5, <3>6, <3>7, Zenon DEF Tally
    <2> QED
        BY <2>2, <2>3
<1> QED
    BY <1>3, <1>4, Steps

\* The rate of a thread is a number, and time allows it more and more.
LEMMA ScheduleGrows ==
    ASSUME RestOK
    PROVE  /\ PerThread(pps) \in Nat
           /\ \A d \in Nat : /\ PerThread(pps) * d \in Nat
                             /\ PerThread(pps) * d <= PerThread(pps) * (d + 1)
<1>1. pps \in Nat /\ threads \in Nat /\ threads >= 1
    BY ThreadsExist, BlasterAssumption DEF RestOK
<1>2. PerThread(pps) \in Nat
    BY <1>1 DEF PerThread
<1>3. \A p \in Nat, d \in Nat : p * d \in Nat /\ p * (d + 1) = p * d + p
    BY SMT
<1> QED
    BY <1>2, <1>3

\* Every step keeps the threads on time.
LEMMA PacedStep ==
    ThreadOK /\ RestOK /\ Progress /\ Paced /\ [Next]_vars => Paced'
<1> SUFFICES ASSUME ThreadOK, RestOK, Progress, Paced, [Next]_vars, pps' > 0,
                    NEW j \in Workers
             PROVE  OnTime(j)'
    BY DEF Paced
<1>1. pps' = pps
    BY Steps DEF Others, Tick, Main, MainFails, CtrlC, LoadStats, PrintLine, BuildTemplate, SpawnOk,
           Deadline, StopAll, Join, Summarize, process, vars, BindFails, SendErr, Thread, Bind,
           NextBatch, Return, SendOk, AddSent, AddBytes, AddError, Wake
<1>2. OnTime(j)
    BY <1>1 DEF Paced
<1>3. /\ now \in Nat /\ start[j] \in Nat /\ sent[j] \in Nat /\ BATCH \in Nat
      /\ start[j] <= now /\ now - start[j] \in Nat /\ (now - start[j]) + 1 \in Nat
    BY <1>2, ThreadsExist DEF ThreadOK, RestOK, OnTime
<1>4. ASSUME now' = now, start'[j] = start[j], sent'[j] = sent[j], pc'[j] = pc[j]
      PROVE  OnTime(j)'
    BY <1>1, <1>2, <1>4 DEF OnTime, OnSchedule
<1>5. CASE Tick
    <2>1. now' = now + 1 /\ UNCHANGED <<pc, start, sent>>
        BY <1>5 DEF Tick, thread
    <2>2. now' - start'[j] = (now - start[j]) + 1 /\ start'[j] <= now'
        BY <1>3, <2>1
    <2>3. /\ PerThread(pps) * (now - start[j]) \in Nat /\ PerThread(pps) * ((now - start[j]) + 1) \in Nat
          /\ PerThread(pps) * (now - start[j]) <= PerThread(pps) * ((now - start[j]) + 1)
        BY <1>3, ScheduleGrows, Zenon
    <2>4. /\ PerThread(pps') * (now' - start'[j]) \in Nat
          /\ PerThread(pps) * (now - start[j]) <= PerThread(pps') * (now' - start'[j])
        BY ONLY <1>1, <2>2, <2>3, Zenon
    <2> DEFINE a == PerThread(pps) * (now - start[j])
               b == PerThread(pps') * (now' - start'[j])
    <2>5. /\ sent[j] <= a => sent[j] <= b
          /\ sent[j] <= a + BATCH => sent[j] <= b + BATCH
        <3>1. a \in Nat /\ b \in Nat /\ a <= b
            BY <2>3, <2>4
        <3> HIDE DEF a, b
        <3> QED
            BY <1>3, <3>1
    <2> QED
        BY <1>2, <2>1, <2>2, <2>5, Zenon DEF OnTime, OnSchedule
<1>6. CASE (Others /\ ~Tick) \/ UNCHANGED vars
    <2>1. now' = now /\ UNCHANGED <<start, sent>>
        BY <1>6, OthersLeave DEF Others, Main, MainFails, CtrlC, LoadStats, PrintLine,
              BuildTemplate, SpawnOk, Deadline, StopAll, Join, Summarize, clock, vars, thread
    <2>2. CASE UNCHANGED pc
        BY <1>4, <2>1, <2>2
    <2>3. CASE SpawnOk
        <3>1. worker \in Workers /\ worker >= worker /\ main = "spawn" /\ Goto(worker, "bind")
            BY <2>3, ThreadsExist DEF SpawnOk, RestOK, Workers
        <3>2. pc[worker] = "none"
            BY <3>1 DEF Progress
        <3>3. pc'[j] = pc[j] \/ (pc[j] = "none" /\ pc'[j] = "bind")
            BY <3>1, <3>2 DEF Goto, ThreadOK
        <3> QED
            BY <1>2, <1>4, <2>1, <3>3 DEF OnTime, Busy
    <2> QED
        BY <1>6, <2>2, <2>3, OthersLeave DEF vars, thread
<1>7. ASSUME NEW i \in Workers, BindFails(i) \/ SendErr(i) \/ Thread(i) PROVE OnTime(j)'
    <2>1. now' = now
        BY <1>7 DEF BindFails, SendErr, Thread, Bind, NextBatch, Return, SendOk, AddSent, AddBytes,
                    AddError, Wake, clock
    <2>2. CASE i # j
        <3>1. \E l : Goto(i, l)
            BY <1>7 DEF BindFails, SendErr, Thread, Bind, NextBatch, Return, SendOk, AddSent, AddBytes,
                   AddError, Wake, NextInBatch
        <3>2. pc'[j] = pc[j]
            BY <2>2, <3>1 DEF Goto, ThreadOK
        <3>3. sent'[j] = sent[j] /\ start'[j] = start[j]
            BY <1>7, <2>2 DEF BindFails, SendErr, Thread, Bind, NextBatch, Return, SendOk, AddSent,
                   AddBytes, AddError, Wake, NextInBatch, ThreadOK
        <3> QED
            BY <1>4, <2>1, <3>2, <3>3
    <2>3. CASE i = j
        <3>0. j \in DOMAIN pc /\ j \in DOMAIN start /\ j \in DOMAIN sent
            BY DEF ThreadOK
        <3>1. CASE Bind(j)
            <4>1. pc[j] = "bind" /\ pc'[j] = "loop" /\ start'[j] = now /\ sent'[j] = sent[j]
                BY <3>0, <3>1 DEF Bind, Goto
            <4>2. sent'[j] = 0 /\ now' - start'[j] = 0 /\ start'[j] <= now'
                BY <1>2, <1>3, <2>1, <4>1 DEF OnTime
            <4>3. PerThread(pps) * 0 \in Nat
                BY ScheduleGrows
            <4>4. sent'[j] <= PerThread(pps') * (now' - start'[j])
                BY ONLY <1>1, <4>2, <4>3
            <4> QED
                BY <4>1, <4>2, <4>4 DEF OnTime, OnSchedule, Busy
        <3>2. CASE \/ NextBatch(j) \/ Return(j) \/ SendOk(j) \/ SendErr(j) \/ AddSent(j)
            <4>1. /\ pc[j] \in Busy \cup {"loop", "done"} /\ pc'[j] \in Busy \cup {"loop", "done"}
                  /\ UNCHANGED <<start, sent>>
                BY <3>0, <3>2 DEF NextBatch, Return, SendOk, SendErr, AddSent, Goto, Busy
            <4> QED
                BY <1>1, <1>2, <2>1, <4>1 DEF OnTime, OnSchedule, Busy
        <3>3. CASE Wake(j) \/ BindFails(j)
            <4>1. /\ UNCHANGED <<start, sent>>
                  /\ \/ pc'[j] = "loop" /\ OnSchedule(j)
                     \/ pc[j] = "bind" /\ pc'[j] = "failed"
                BY <3>0, <3>3 DEF Wake, BindFails, Goto
            <4> QED
                BY <1>1, <1>2, <2>1, <4>1 DEF OnTime, OnSchedule, Busy
        <3>4. CASE AddBytes(j) \/ AddError(j)
            <4>1. pc[j] \in Busy /\ UNCHANGED start /\ NextInBatch(j)
                BY <3>4 DEF AddBytes, AddError, Busy
            <4>2. \/ pc'[j] = "send" /\ sent' = sent
                  \/ pc'[j] = "sleep" /\ sent'[j] = sent[j] + BATCH
                BY <1>1, <3>0, <4>1 DEF NextInBatch, Goto
            <4>3. CASE pc'[j] = "send" /\ sent' = sent
                BY <1>1, <1>2, <2>1, <4>1, <4>3 DEF OnTime, OnSchedule, Busy
            <4>4. CASE pc'[j] = "sleep" /\ sent'[j] = sent[j] + BATCH
                <5> DEFINE a == PerThread(pps) * (now - start[j])
                <5>1. sent[j] <= a
                    BY <1>2, <4>1 DEF OnTime, OnSchedule
                <5>2. a \in Nat
                    BY <1>3, ScheduleGrows, Zenon
                <5>3. sent'[j] <= a + BATCH
                    <6> HIDE DEF a
                    <6> QED
                        BY ONLY <1>3, <4>4, <5>1, <5>2
                <5>4. start'[j] <= now'
                    BY <1>3, <2>1, <4>1
                <5> QED
                    BY <1>1, <2>1, <4>1, <4>4, <5>3, <5>4, Zenon DEF OnTime, Busy
            <4> QED
                BY <4>2, <4>3, <4>4
        <3> QED
            BY <1>7, <2>3, <3>1, <3>2, <3>3, <3>4 DEF Thread
    <2> QED
        BY <2>2, <2>3
<1> QED
    BY <1>5, <1>6, <1>7, Steps DEF Others

\* The threads' rates add up to no more than the rate asked for, if it is at
\* least one datagram a second for each (blaster.rs, the division of --pps).
LEMMA RatesAddUp ==
    ASSUME NEW p \in Nat, p >= threads
    PROVE  threads * PerThread(p) <= p
<1>1. threads \in Nat /\ threads >= 1
    BY ThreadsExist
<1>2. p \div threads \in Nat /\ threads * (p \div threads) <= p
    BY <1>1, SMT
<1>3. p \div threads >= 1
    BY <1>1, SMT
<1>4. PerThread(p) = p \div threads
    BY <1>1, <1>2, <1>3 DEF PerThread
<1> QED
    BY <1>2, <1>4, Zenon

\* So does what their schedules allow, with a batch for each.
LEMMA SchedulesAddUp ==
    ASSUME NEW t \in Nat, NEW r \in Nat, NEW p \in Nat, NEW d \in Nat, NEW b \in Nat,
           t * r <= p
    PROVE  t * (r * d + b) <= p * d + t * b
<1>1. t * (r * d + b) = (t * r) * d + t * b
    BY SMT
<1>2. t * r \in Nat /\ (t * r) * d \in Nat /\ p * d \in Nat /\ t * b \in Nat
    BY SMT
<1>3. (t * r) * d <= p * d
    <2>1. \A x \in Nat, y \in Nat : x <= y => x * d <= y * d
        BY SMT
    <2> QED
        BY <1>2, <2>1
<1> QED
    BY <1>1, <1>2, <1>3

\* However many threads share it, whatever they are scheduled to do: "Packets per
\* second across all threads" (blaster.rs:60) is exceeded by at most a batch of
\* each, if there is at least one datagram a second for each.
THEOREM RateKept == Spec => []RateIsKept
<1>1. Init => Tally /\ Paced
    <2> SUFFICES ASSUME Init PROVE Tally /\ Paced
        OBVIOUS
    <2>1. \A i \in Workers : Attempts(i) = 0
        BY DEF Init, Attempts, Busy
    <2>2. Sends = {}
        BY <2>1 DEF Sends
    <2>3. Tally
        BY <2>2, FS_EmptySet DEF Tally, Init
    <2>4. Paced
        BY DEF Init, Paced, OnTime, Busy
    <2> QED
        BY <2>3, <2>4
<1>2. IInv /\ Tally /\ Paced /\ [Next]_vars => Tally' /\ Paced'
    BY TallyStep, PacedStep DEF IInv
<1>3. IInv /\ Tally /\ Paced => RateIsKept
    <2> SUFFICES ASSUME IInv, Tally, Paced, pps >= threads
                 PROVE  taken + refused <= pps * now + threads * BATCH
        BY DEF RateIsKept
    <2> DEFINE r == PerThread(pps)
               most == r * now + BATCH
    <2>1. /\ ThreadOK /\ RestOK /\ pps \in Nat /\ threads \in Nat /\ threads >= 1
          /\ now \in Nat /\ BATCH \in Nat /\ pps > 0
        BY ThreadsExist, BlasterAssumption DEF IInv, RestOK
    <2>2. r \in Nat /\ r * now \in Nat /\ most \in Nat
        <3>1. r \in Nat /\ r * now \in Nat
            BY <2>1, ScheduleGrows, Zenon
        <3>2. \A x \in Nat : x + BATCH \in Nat
            BY <2>1
        <3> QED
            BY <3>1, <3>2, Zenon
    <2>3. ASSUME NEW i \in Workers PROVE Attempts(i) <= most
        <3>1. /\ left[i] \in 0 .. BATCH /\ sent[i] \in Nat /\ start[i] \in Nat /\ pc[i] \in Labels
              /\ pc[i] \in Busy => left[i] > 0
            BY <2>1 DEF ThreadOK
        <3>2. OnTime(i) /\ start[i] <= now /\ now - start[i] \in Nat /\ start[i] \in Nat
            BY <2>1, <3>1 DEF Paced, OnTime
        <3>3. r * (now - start[i]) <= r * now /\ r * (now - start[i]) \in Nat
            <4>1. \A x \in Nat, y \in Nat, z \in Nat : x <= y => z * x <= z * y /\ z * x \in Nat
                BY SMT
            <4>2. now - start[i] <= now
                BY <2>1, <3>2
            <4> QED
                BY <2>1, <2>2, <3>2, <4>1, <4>2, Zenon
        <3> DEFINE a == r * (now - start[i])
        <3>4. /\ pc[i] \in {"none", "bind", "failed"} => sent[i] = 0
              /\ pc[i] \in Busy \cup {"loop", "done"} => sent[i] <= a
              /\ pc[i] = "sleep" => sent[i] <= a + BATCH
            BY <3>2, Zenon DEF OnTime, OnSchedule
        <3>5. a \in Nat /\ a <= r * now
            BY <3>3
        <3> HIDE DEF a, r
        <3> QED
            BY <2>1, <2>2, <3>1, <3>4, <3>5 DEF Attempts, Busy, Labels
    <2>4. Cardinality(Sends) <= threads * most
        <3> HIDE DEF most, r
        <3>1. IsFiniteSet(Workers) /\ Cardinality(Workers) = threads
            BY <2>1, FS_Interval DEF Workers
        <3>2. IsFiniteSet(0 .. most - 1) /\ Cardinality(0 .. most - 1) = most
            <4>1. 0 \in Int /\ most - 1 \in Int
                BY <2>2
            <4>2. /\ IsFiniteSet(0 .. most - 1)
                  /\ Cardinality(0 .. most - 1) = IF 0 > most - 1 THEN 0 ELSE (most - 1) - 0 + 1
                BY <4>1, FS_Interval
            <4> QED
                BY <2>2, <4>2
        <3>3. /\ IsFiniteSet(Workers \X (0 .. most - 1))
              /\ Cardinality(Workers \X (0 .. most - 1)) = threads * most
            BY <3>1, <3>2, FS_Product, Zenon
        <3>4. Sends \subseteq Workers \X (0 .. most - 1)
            <4>1. ASSUME NEW i \in Workers, NEW n \in Nat, n < Attempts(i)
                  PROVE  n \in 0 .. most - 1
                BY <2>1, <2>2, <2>3, <4>1, AttemptsCount
            <4> QED
                BY <4>1 DEF Sends
        <3>5. Cardinality(Sends) <= Cardinality(Workers \X (0 .. most - 1))
            BY <3>3, <3>4, FS_Subset, Zenon
        <3> QED
            BY <3>3, <3>5, Zenon
    <2>5. threads * r <= pps
        BY <2>1, RatesAddUp
    <2>6. threads * most <= pps * now + threads * BATCH
        BY <2>1, <2>2, <2>5, SchedulesAddUp
    <2>7. threads * most \in Nat /\ pps * now + threads * BATCH \in Nat
        <3> HIDE DEF most
        <3>1. \A x \in Nat, y \in Nat : x * y \in Nat
            BY SMT
        <3> QED
            BY <2>1, <2>2, <3>1
    <2>8. taken + refused <= threads * most /\ taken + refused \in Nat
        BY <2>1, <2>4 DEF Tally, ThreadOK
    <2> HIDE DEF most
    <2> QED
        BY <2>6, <2>7, <2>8
<1> QED
    BY <1>1, <1>2, <1>3, Inductive, PTL DEF Spec

=============================================================================
