------------------------------ MODULE Blaster ------------------------------
(***************************************************************************)
(* The load generator (src/bin/blaster.rs): main, its sender threads with  *)
(* their pacing, the statistics they share, the stop flag, and the         *)
(* reporter task.  A step is a system call, an atomic operation or a wait. *)
(*                                                                         *)
(* Time is `now', in seconds.  What the datagrams hold matters to their    *)
(* receiver only and is left out, except for the arithmetic of the         *)
(* template's length, which decides whether the program runs at all.       *)
(***************************************************************************)
EXTENDS Integers, FiniteSets

CONSTANTS
    ThreadsArg,   \* --threads, 0 if it is not given
    Parallelism,  \* what available_parallelism answers
    DurationArg,  \* --duration
    Sizes, Rates, \* the values of --size and --pps
    BATCH,        \* datagrams between two looks at the stop flag (64)
    MaxBatches,   \* bound: batches of a thread
    MaxErrors,    \* bound: sends that fail
    MaxTime       \* bound: the clock while main waits in its select

ASSUME BlasterAssumption ==
    /\ ThreadsArg \in Nat /\ Parallelism \in Nat \ {0}
    /\ DurationArg \in Nat /\ Sizes \subseteq Nat /\ Rates \subseteq Nat
    /\ BATCH \in Nat \ {0} /\ MaxTime >= DurationArg

-----------------------------------------------------------------------------
(* The arguments.                                                          *)

MIN_INITIAL_DATAGRAM == 1200
TOKEN_LEN == 20
U16_MAX == 65535

\* InitialTemplate::new: "Ok", "Err", or "panic" where an assertion fails.
InitialTemplate(size) ==
    LET header == 1 + 4 + (1 + TOKEN_LEN) + (1 + TOKEN_LEN) + 1
        remaining == size - (header + 2)
    IN  IF size < MIN_INITIAL_DATAGRAM \/ size > U16_MAX THEN "Err"
        ELSE IF remaining < 0 \/ remaining > U16_MAX THEN "Err"
        ELSE IF remaining >= 16384 THEN "panic"
        ELSE "Ok"

threads == IF ThreadsArg = 0 THEN Parallelism ELSE ThreadsArg
Workers == 1 .. threads

\* Mutant: each thread is given the rate of all.
BugRateOfAll(pps) == pps

PerThread(pps) ==
    IF pps = 0 THEN 0
    ELSE IF pps \div threads < 1 THEN 1 ELSE pps \div threads

-----------------------------------------------------------------------------

VARIABLES
    now,                          \* the clock
    size, pps,                    \* the arguments
    main, worker,                 \* main: where it is, and the worker it spawns
                                  \* or joins next
    running,                      \* the stop flag
    pc, start, sent, left,        \* each thread: where it is, when it began,
                                  \* its own count, what is left of its batch
    stats,                        \* the shared statistics
    taken, refused,               \* sends that were Ok, and that failed
    reporter, wake, loaded, last, \* report: where it is, until when it sleeps,
                                  \* what it has loaded, and had at its last line
    aborted, reported,            \* abort has been called; packets it has printed
    summary                       \* what main prints in the end

clock == <<now>>
process == <<size, pps, main, worker, running, summary>>
thread == <<pc, start, sent, left>>
socket == <<taken, refused>>
report == <<reporter, wake, loaded, last, aborted, reported>>
vars == <<clock, process, thread, stats, socket, report>>

ZeroStats == [sent |-> 0, bytes |-> 0, errors |-> 0]

Init ==
    /\ now = 0
    /\ size \in Sizes /\ pps \in Rates
    /\ main = "template" /\ worker = 1 /\ running = TRUE /\ summary = ZeroStats
    /\ pc = [i \in Workers |-> "none"]
    /\ start = [i \in Workers |-> 0]
    /\ sent = [i \in Workers |-> 0]
    /\ left = [i \in Workers |-> 0]
    /\ stats = ZeroStats
    /\ taken = 0 /\ refused = 0
    /\ reporter = "none" /\ wake = 0 /\ loaded = 0 /\ last = 0
    /\ aborted = FALSE /\ reported = 0

\* The process has not exited; when it does, its threads and tasks are gone.
Alive == main \notin {"ended", "failed", "panicked"}

Goto(i, label) == pc' = [pc EXCEPT ![i] = label]

-----------------------------------------------------------------------------
(* Time.                                                                   *)

\* The schedule of thread i allows what it has sent.
OnSchedule(i) == sent[i] <= PerThread(pps) * (now - start[i])

\* Starting up takes no time.  The bound holds up no thread that main waits for.
Tick ==
    /\ \/ main = "select" /\ now < MaxTime
       \/ main = "join" /\ \E i \in Workers : pc[i] = "sleep" /\ ~OnSchedule(i)
    /\ now' = now + 1
    /\ UNCHANGED <<process, thread, stats, socket, report>>

-----------------------------------------------------------------------------
(* main.                                                                   *)

BuildTemplate ==
    /\ main = "template"
    /\ main' = CASE InitialTemplate(size) = "Ok"    -> "spawn"
                 [] InitialTemplate(size) = "Err"   -> "failed"
                 [] InitialTemplate(size) = "panic" -> "panicked"
    /\ UNCHANGED <<clock, size, pps, worker, running, summary, thread, stats, socket, report>>

\* The next thread is spawned; after the last one, the reporter.
SpawnOk ==
    /\ main = "spawn"
    /\ Goto(worker, "bind")
    /\ \/ /\ worker < threads
          /\ worker' = worker + 1
          /\ UNCHANGED <<main, reporter, wake>>
       \/ /\ worker = threads
          /\ worker' = 1
          /\ main' = "select"
          /\ reporter' = "sleep"
          /\ wake' = now + 1
    /\ UNCHANGED <<clock, size, pps, running, summary, start, sent, left, stats, socket,
                   loaded, last, aborted, reported>>

\* A thread cannot be spawned, or Ctrl-C not awaited: main returns the error.
MainFails ==
    /\ main \in {"spawn", "select"}
    /\ main' = "failed"
    /\ UNCHANGED <<clock, size, pps, worker, running, summary, thread, stats, socket, report>>

\* Mutant: the flag is left as it is.
BugNoStop ==
    /\ main' = "join"
    /\ aborted' = TRUE
    /\ UNCHANGED <<clock, size, pps, worker, running, summary, thread, stats, socket,
                   reporter, wake, loaded, last, reported>>

\* After the select: the flag is cleared and the reporter aborted.
StopAll ==
    /\ main' = "join"
    /\ running' = FALSE
    /\ aborted' = TRUE
    /\ UNCHANGED <<clock, size, pps, worker, summary, thread, stats, socket,
                   reporter, wake, loaded, last, reported>>

Deadline == main = "select" /\ DurationArg > 0 /\ now >= DurationArg /\ StopAll

CtrlC == main = "select" /\ StopAll

\* Mutant: only the first thread is joined.
BugJoinsFirst ==
    /\ main = "join"
    /\ pc[worker] \in {"done", "failed"}
    /\ main' = "summary"
    /\ UNCHANGED <<clock, size, pps, worker, running, summary, thread, stats, socket, report>>

Join ==
    /\ main = "join"
    /\ pc[worker] \in {"done", "failed"}
    /\ \/ worker < threads /\ worker' = worker + 1 /\ UNCHANGED main
       \/ worker = threads /\ main' = "summary" /\ UNCHANGED worker
    /\ UNCHANGED <<clock, size, pps, running, summary, thread, stats, socket, report>>

Summarize ==
    /\ main = "summary"
    /\ summary' = stats
    /\ main' = "ended"
    /\ UNCHANGED <<clock, size, pps, worker, running, thread, stats, socket, report>>

-----------------------------------------------------------------------------
(* blast, run by thread i.                                                 *)

Bind(i) ==
    /\ Alive
    /\ pc[i] = "bind"
    /\ Goto(i, "loop")
    /\ start' = [start EXCEPT ![i] = now]
    /\ UNCHANGED <<clock, process, sent, left, stats, socket, report>>

BindFails(i) ==
    /\ Alive
    /\ pc[i] = "bind"
    /\ Goto(i, "failed")
    /\ UNCHANGED <<clock, process, start, sent, left, stats, socket, report>>

\* Mutant: the range of the batch includes its bound.
BugInclusive(i) ==
    /\ Alive
    /\ pc[i] = "loop"
    /\ running
    /\ sent[i] < MaxBatches * BATCH
    /\ Goto(i, "send")
    /\ left' = [left EXCEPT ![i] = BATCH + 1]
    /\ UNCHANGED <<clock, process, start, sent, stats, socket, report>>

\* The flag is set, and a batch begins.
NextBatch(i) ==
    /\ Alive
    /\ pc[i] = "loop"
    /\ running
    /\ sent[i] < MaxBatches * BATCH
    /\ Goto(i, "send")
    /\ left' = [left EXCEPT ![i] = BATCH]
    /\ UNCHANGED <<clock, process, start, sent, stats, socket, report>>

Return(i) ==
    /\ Alive
    /\ pc[i] = "loop"
    /\ ~running
    /\ Goto(i, "done")
    /\ UNCHANGED <<clock, process, start, sent, left, stats, socket, report>>

SendOk(i) ==
    /\ Alive
    /\ pc[i] = "send"
    /\ taken' = taken + 1
    /\ Goto(i, "sent")
    /\ UNCHANGED <<clock, process, start, sent, left, stats, refused, report>>

SendErr(i) ==
    /\ Alive
    /\ pc[i] = "send"
    /\ refused < MaxErrors
    /\ refused' = refused + 1
    /\ Goto(i, "error")
    /\ UNCHANGED <<clock, process, start, sent, left, stats, taken, report>>

AddSent(i) ==
    /\ Alive
    /\ pc[i] = "sent"
    /\ stats' = [stats EXCEPT !.sent = @ + 1]
    /\ Goto(i, "bytes")
    /\ UNCHANGED <<clock, process, start, sent, left, socket, report>>

\* After a datagram: the next one of the batch or, if that was the last, the
\* pacing, when the thread sleeps unless it is not paced.
NextInBatch(i) ==
    /\ left' = [left EXCEPT ![i] = @ - 1]
    /\ \/ left[i] > 1 /\ Goto(i, "send") /\ UNCHANGED sent
       \/ /\ left[i] = 1
          /\ sent' = [sent EXCEPT ![i] = @ + BATCH]
          /\ Goto(i, IF pps > 0 THEN "sleep" ELSE "loop")

AddBytes(i) ==
    /\ Alive
    /\ pc[i] = "bytes"
    /\ stats' = [stats EXCEPT !.bytes = @ + size]
    /\ NextInBatch(i)
    /\ UNCHANGED <<clock, process, start, socket, report>>

AddError(i) ==
    /\ Alive
    /\ pc[i] = "error"
    /\ stats' = [stats EXCEPT !.errors = @ + 1]
    /\ NextInBatch(i)
    /\ UNCHANGED <<clock, process, start, socket, report>>

\* It wakes when its schedule allows, at once if it is late.
Wake(i) ==
    /\ Alive
    /\ pc[i] = "sleep"
    /\ OnSchedule(i)
    /\ Goto(i, "loop")
    /\ UNCHANGED <<clock, process, start, sent, left, stats, socket, report>>

-----------------------------------------------------------------------------
(* report, a task that abort cancels at its await.  Of its two loads only   *)
(* that of `sent' is kept: the bytes are treated alike.                     *)

LoadStats ==
    /\ Alive
    /\ reporter = "sleep" /\ now >= wake /\ ~aborted
    /\ loaded' = stats.sent
    /\ reporter' = "print"
    /\ UNCHANGED <<clock, process, thread, stats, socket, wake, last, aborted, reported>>

\* Mutant: what was printed is not remembered.
BugForgetsLast ==
    /\ Alive
    /\ reporter = "print"
    /\ reported' = reported + (loaded - last)
    /\ wake' = now + 1
    /\ reporter' = "sleep"
    /\ UNCHANGED <<clock, process, thread, stats, socket, loaded, last, aborted>>

\* It prints the difference, remembers the value and goes to sleep.
PrintLine ==
    /\ Alive
    /\ reporter = "print"
    /\ reported' = reported + (loaded - last)
    /\ last' = loaded
    /\ wake' = now + 1
    /\ reporter' = "sleep"
    /\ UNCHANGED <<clock, process, thread, stats, socket, loaded, aborted>>

-----------------------------------------------------------------------------

Main == BuildTemplate \/ SpawnOk \/ Deadline \/ Join \/ Summarize

Thread(i) ==
    \/ Bind(i) \/ NextBatch(i) \/ Return(i) \/ SendOk(i)
    \/ AddSent(i) \/ AddBytes(i) \/ AddError(i) \/ Wake(i)

Next ==
    \/ Tick \/ Main \/ MainFails \/ CtrlC
    \/ \E i \in Workers : BindFails(i) \/ SendErr(i) \/ Thread(i)
    \/ LoadStats \/ PrintLine

Spec == Init /\ [][Next]_vars

\* Time passes, and main and each thread are scheduled.
FairSpec ==
    /\ Spec
    /\ WF_vars(Tick)
    /\ WF_vars(Main)
    /\ \A i \in Workers : WF_vars(Thread(i))

-----------------------------------------------------------------------------

Stats == [sent : Nat, bytes : Nat, errors : Nat]

\* Type invariant: no thread sends more than its batch, and main joins only
\* workers there are.
TypeOK ==
    /\ now \in Nat /\ size \in Sizes /\ pps \in Rates /\ taken \in Nat /\ refused \in Nat
    /\ main \in {"template", "spawn", "select", "join", "summary", "ended", "failed", "panicked"}
    /\ worker \in Workers
    /\ running \in BOOLEAN /\ aborted \in BOOLEAN
    /\ pc \in [Workers -> {"none", "bind", "loop", "send", "sent", "bytes", "error",
                           "sleep", "done", "failed"}]
    /\ start \in [Workers -> Nat] /\ sent \in [Workers -> Nat]
    /\ left \in [Workers -> 0 .. BATCH]
    /\ \A i \in Workers : pc[i] \in {"send", "sent", "bytes", "error"} => left[i] > 0
    /\ stats \in Stats /\ summary \in Stats /\ loaded \in Nat /\ last \in Nat
    /\ reporter \in {"none", "sleep", "print"}
    /\ wake \in Nat /\ reported \in Nat

\* The summary is exact: it counts every datagram the sockets took, all of their
\* bytes and every send that failed, since main loads the statistics after it
\* has joined the threads (blaster.rs:283-294), and nothing is sent after it.
SummaryIsExact ==
    main = "ended" =>
        /\ summary = [sent |-> taken, bytes |-> taken * size, errors |-> refused]
        /\ \A i \in Workers : pc[i] \in {"done", "failed"}

\* The lines of the reporter add up to no more than the summary, and none of
\* its differences underflows, although it reads the statistics while they
\* change and is aborted in the middle (blaster.rs:309-324).
ReportsFitSummary ==
    /\ last <= loaded
    /\ reported = last
    /\ main = "ended" => reported <= summary.sent

\* With at least one packet a second for each thread, all of them together keep
\* to "Packets per second across all threads" (blaster.rs:60), but for a batch
\* each, however late or early a thread is scheduled.
RateIsKept ==
    pps >= threads => taken + refused <= pps * now + threads * BATCH

\* A run with a duration ends, although the threads may be asleep or in the
\* middle of a batch when the flag is cleared (blaster.rs:52).
EveryRunEnds ==
    DurationArg > 0 /\ main = "select" ~> main \in {"ended", "failed"}

\* "the length field must fit a 2-byte varint, which {size}-byte datagrams
\* satisfy" (blaster.rs:119-122): no size that passed the checks fails it.
NeverPanics == main # "panicked"

=============================================================================
