---------------------------- MODULE ThreadSwitch ----------------------------
(***************************************************************************)
(* cpuoperations/thread_context_switch.c: the time of a thread context     *)
(* switch.  In every trial main() opens two pipes, starts a reader and a   *)
(* writer that bounce a byte NIterations times, joins both and closes the  *)
(* pipes.  fd, fd2, x and duration_per_iteration are globals: the threads  *)
(* use whatever pipes are in fd and fd2 and whatever x is at that time.    *)
(*                                                                         *)
(* pthread_create() is not checked.  When it fails, the pthread_t that     *)
(* main() joins is not initialised: the join returns at once, or the       *)
(* process crashes.                                                        *)
(***************************************************************************)
EXTENDS Integers, FiniteSets

CONSTANTS
    NTrials,       \* N_trials, 100 in the code
    NIterations,   \* N_iterations, 10000 in the code
    MaxFailures    \* bound: how many library calls may fail

ASSUME NTrialsAssumption == NTrials \in Nat \ {0}
ASSUME NIterationsAssumption == NIterations \in Nat \ {0}
ASSUME MaxFailuresAssumption == MaxFailures \in Nat

Trials == 1..NTrials
reader(t) == <<"reader", t>>
writer(t) == <<"writer", t>>
Readers == { reader(t) : t \in Trials }
Writers == { writer(t) : t \in Trials }
Threads == Readers \union Writers

VARIABLES
    main,       \* where main() is
    pc,         \* where each thread is
    x,          \* the global trial counter
    i,          \* each thread's iteration counter
    open,       \* which of the pipes "fd" and "fd2" are open
    put, got,   \* the bytes written to and read from the open pipes
    slot,       \* duration_per_iteration: the trials whose writer stored here
    failures

vars == <<main, pc, x, i, open, put, got, slot, failures>>

MainPCs == {"pipe", "pipe2", "create reader", "create writer", "join reader",
            "join writer", "close", "done", "exited"}
PCs == {"unborn", "read", "write", "end", "finished"}
Both == {"fd", "fd2"}

Init ==
    /\ main = "pipe"
    /\ pc = [h \in Threads |-> "unborn"]
    /\ x = 1
    /\ i = [h \in Threads |-> 0]
    /\ open = {}
    /\ put = [k \in Both |-> 0]
    /\ got = [k \in Both |-> 0]
    /\ slot = [t \in Trials |-> {}]
    /\ failures = 0

Running == main \notin {"done", "exited"}
Goto(h, label) == pc' = [pc EXCEPT ![h] = label]

\* pipe() puts a fresh pipe into fd or fd2.
OpenPipe(k, here, next) ==
    /\ main = here
    /\ main' = next
    /\ open' = open \union {k}
    /\ put' = [put EXCEPT ![k] = 0]
    /\ got' = [got EXCEPT ![k] = 0]
    /\ UNCHANGED <<pc, x, i, slot, failures>>

Pipe == OpenPipe("fd", "pipe", "pipe2")
Pipe2 == OpenPipe("fd2", "pipe2", "create reader")

\* pthread_create() starts a thread, or fails and main() goes on.
Create(h, start, here, next) ==
    /\ main = here
    /\ main' = next
    /\ \/ /\ Goto(h, start)
          /\ UNCHANGED failures
       \/ /\ failures < MaxFailures
          /\ failures' = failures + 1
          /\ UNCHANGED pc
    /\ UNCHANGED <<x, i, open, put, got, slot>>

CreateReader == Create(reader(x), "read", "create reader", "create writer")
CreateWriter == Create(writer(x), "write", "create writer", "join reader")

\* pthread_join() returns, of a thread that finished or was never created.
Join(h, here, next) ==
    /\ main = here
    /\ pc[h] \in {"unborn", "finished"}
    /\ main' = next
    /\ UNCHANGED <<pc, x, i, open, put, got, slot, failures>>

\* A defect: the reader is not joined.
JoinReader_Missing ==
    /\ main = "join reader"
    /\ main' = "join writer"
    /\ UNCHANGED <<pc, x, i, open, put, got, slot, failures>>

JoinReader == Join(reader(x), "join reader", "join writer")

\* A defect: the writer is not joined.
JoinWriter_Missing ==
    /\ main = "join writer"
    /\ main' = "close"
    /\ UNCHANGED <<pc, x, i, open, put, got, slot, failures>>

JoinWriter == Join(writer(x), "join writer", "close")

\* The join of a thread that was not created crashes.
JoinCrashes ==
    /\ \/ main = "join reader" /\ pc[reader(x)] = "unborn"
       \/ main = "join writer" /\ pc[writer(x)] = "unborn"
    /\ main' = "exited"
    /\ UNCHANGED <<pc, x, i, open, put, got, slot, failures>>

\* The four close() calls and the head of the loop; or the report.
Close ==
    /\ main = "close"
    /\ open' = {}
    /\ IF x < NTrials
       THEN x' = x + 1 /\ main' = "pipe"
       ELSE UNCHANGED x /\ main' = "done"
    /\ UNCHANGED <<pc, i, put, got, slot, failures>>

OutPipe(h) == IF h \in Writers THEN "fd" ELSE "fd2"
InPipe(h) == IF h \in Writers THEN "fd2" ELSE "fd"

\* The reader counts after its write, the writer after its read.  The others
\* are off by one.
AfterWrite_OneLess(h) == IF h \in Readers /\ i[h] + 2 >= NIterations THEN "finished" ELSE "read"
AfterWrite(h) == IF h \in Readers /\ i[h] + 1 = NIterations THEN "finished" ELSE "read"
AfterRead_OneMore(h) == IF h \in Writers /\ i[h] = NIterations THEN "end" ELSE "write"
AfterRead(h) == IF h \in Writers /\ i[h] + 1 = NIterations THEN "end" ELSE "write"

Write(h) ==
    /\ Running
    /\ pc[h] = "write"
    /\ OutPipe(h) \in open
    /\ put' = [put EXCEPT ![OutPipe(h)] = @ + 1]
    /\ i' = IF h \in Readers THEN [i EXCEPT ![h] = @ + 1] ELSE i
    /\ Goto(h, AfterWrite(h))
    /\ UNCHANGED <<main, x, open, got, slot, failures>>

\* A defect: read() does not block, and its error is ignored.
Read_Ignored(h) ==
    /\ Running
    /\ pc[h] = "read"
    /\ i' = IF h \in Writers THEN [i EXCEPT ![h] = @ + 1] ELSE i
    /\ Goto(h, AfterRead(h))
    /\ UNCHANGED <<main, x, open, put, got, slot, failures>>

\* A read blocks on an empty pipe: the process itself has a write end open.
Read(h) ==
    /\ Running
    /\ pc[h] = "read"
    /\ InPipe(h) \in open
    /\ put[InPipe(h)] > got[InPipe(h)]
    /\ got' = [got EXCEPT ![InPipe(h)] = @ + 1]
    /\ i' = IF h \in Writers THEN [i EXCEPT ![h] = @ + 1] ELSE i
    /\ Goto(h, AfterRead(h))
    /\ UNCHANGED <<main, x, open, put, slot, failures>>

\* The writer stores its duration into the slot the global x selects.
StoreDuration(h) ==
    /\ Running
    /\ pc[h] = "end"
    /\ slot' = [slot EXCEPT ![x] = @ \union {h[2]}]
    /\ Goto(h, "finished")
    /\ UNCHANGED <<main, x, i, open, put, got, failures>>

\* pipe(), read() or write() returns -1, or the descriptor is closed: exit()
\* ends the process with all its threads.
Exit ==
    /\ Running
    /\ \/ /\ main \in {"pipe", "pipe2"} \/ \E h \in Threads : pc[h] \in {"read", "write"}
          /\ failures < MaxFailures
          /\ failures' = failures + 1
       \/ /\ \/ \E h \in Threads : pc[h] = "read" /\ InPipe(h) \notin open
             \/ \E h \in Threads : pc[h] = "write" /\ OutPipe(h) \notin open
          /\ UNCHANGED failures
    /\ main' = "exited"
    /\ UNCHANGED <<pc, x, i, open, put, got, slot>>

MainStep == Pipe \/ Pipe2 \/ CreateReader \/ CreateWriter \/ JoinReader \/ JoinWriter \/ Close
ThreadStep(h) == Write(h) \/ Read(h) \/ StoreDuration(h)

Terminated == ~Running /\ UNCHANGED vars

Next ==
    \/ MainStep
    \/ \E h \in Threads : ThreadStep(h)
    \/ JoinCrashes
    \/ Exit
    \/ Terminated

Spec == Init /\ [][Next]_vars

\* The scheduler runs whoever is not blocked.
FairSpec == Spec /\ WF_vars(MainStep) /\ \A h \in Threads : WF_vars(ThreadStep(h))

-----------------------------------------------------------------------------
TypeOK ==
    /\ main \in MainPCs
    /\ pc \in [Threads -> PCs]
    /\ x \in Trials
    /\ i \in [Threads -> 0..NIterations]
    /\ open \subseteq Both
    /\ put \in [Both -> 0..NIterations]
    /\ got \in [Both -> 0..NIterations]
    /\ slot \in [Trials -> SUBSET Trials]
    /\ failures \in 0..MaxFailures

\* A duration goes into the slot of the trial it was measured in, although the
\* writer reads the global x that main() advances, even if calls fail; and if
\* none does, main() reports an average over durations that were all measured.
OwnSlot ==
    /\ \A t \in Trials : slot[t] \subseteq {t}
    /\ main = "done" /\ failures = 0 => \A t \in Trials : slot[t] = {t}

\* A thread that is in its exchange works on the pipes of its own trial: main()
\* has neither closed them nor put the next trial's pipes into fd and fd2.  It has
\* closed all of them before it opens the next ones over them.
OwnPipes ==
    /\ Running => \A h \in Threads :
          pc[h] \in {"read", "write"} => h[2] = x /\ open = Both
    /\ main \in {"pipe", "done"} => open = {}

\* All trials end and are reported, unless a call fails.
Completion == <>(failures > 0 \/ main = "done")

Exchange ==
    INSTANCE PingPong WITH
        Rounds <- NTrials, Trips <- NIterations,
        round <- x,
        sent <- IF main \in {"pipe", "pipe2"} THEN 0 ELSE put["fd"],
        returned <- IF main \in {"pipe", "pipe2"} THEN 0 ELSE put["fd2"]

\* As long as no call failed, the reader and the writer take turns strictly, and
\* a trial ends with its last round trip.
TakeTurnsUnlessFailed ==
    Exchange!Init /\ [][failures' = 0 => Exchange!Next]_(Exchange!vars)
=============================================================================
