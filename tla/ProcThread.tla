------------------------------ MODULE ProcThread ------------------------------
(***************************************************************************)
(* cpuoperations/test_process_thread.c: the time to create and run a       *)
(* process, and then a thread.  A trial times Iterations calls of          *)
(* process_func(), which forks a child that prints a line and exits, waits *)
(* for it, and prints a line itself; the second half of main() does the    *)
(* same with pthread_create() and pthread_join().                          *)
(*                                                                         *)
(* printf() appends to the buffer of stdout, which a forked child inherits *)
(* with all that is in it.  The lines are numbered as they are printed.    *)
(***************************************************************************)
EXTENDS Integers, Sequences, FiniteSetsExt

CONSTANTS
    NTrials,    \* Ntrials, of processes and again of threads
    Iterations, \* iterations of a trial
    MaxBufLines,\* bound: the most lines the buffer of stdout holds
    MaxFailures \* bound: how many fork() and pthread_create() calls may fail

ASSUME NTrialsAssumption == NTrials \in Nat \ {0}
ASSUME IterationsAssumption == Iterations \in Nat \ {0}
ASSUME MaxBufLinesAssumption == MaxBufLines \in Nat
ASSUME MaxFailuresAssumption == MaxFailures \in Nat

VARIABLES
    bufLines,   \* lines the buffer of stdout holds: 0 on a terminal
    pc,         \* where main() is
    trial,      \* the trial, counted from 1 over both halves
    i,          \* iterations done in this trial
    child,      \* the child process: "none", "running", "exited" (a zombie)
    childBuf,   \* the lines in the child's copy of the buffer
    thread,     \* the thread: "none", "running", "ended"
    handle,     \* thread1: "garbage", "live" or "joined"
    buf,        \* the lines in main()'s buffer
    out,        \* stdout: how often each line printed so far is on it
    ran,        \* history: processes or threads run in this trial
    times,      \* procTimes and threadTimes: what ran in the trials stored
    failures

vars == <<bufLines, pc, trial, i, child, childBuf, thread, handle, buf, out, ran, times, failures>>

ProcTrials == 1..NTrials
ThreadTrials == NTrials + 1..2 * NTrials

Init ==
    /\ bufLines \in 0..MaxBufLines
    /\ pc = "loop"
    /\ trial = 1
    /\ i = 0
    /\ child = "none"
    /\ childBuf = {}
    /\ thread = "none"
    /\ handle = "garbage"
    /\ buf = {}
    /\ out = <<>>
    /\ ran = 0
    /\ times = <<>>
    /\ failures = 0

\* stdout after some lines were written to it.
Written(lines, copies) ==
    [l \in DOMAIN copies |-> IF l \in lines THEN copies[l] + 1 ELSE copies[l]]

\* A new line: its number, and stdout while it is not written.
Line == Len(out) + 1
Unwritten == Append(out, 0)

\* printf(): a line for which the buffer has no room is written with all lines
\* before it.
Printf ==
    IF Cardinality(buf) < bufLines
    THEN buf' = buf \union {Line} /\ out' = Unwritten
    ELSE buf' = {} /\ out' = Written(buf \union {Line}, Unwritten)

-----------------------------------------------------------------------------
(* Processes. *)

\* process_func(): fork().
Fork ==
    /\ pc = "loop" /\ trial \in ProcTrials /\ i < Iterations
    /\ child = "none"
    /\ child' = "running"
    /\ childBuf' = buf
    /\ ran' = ran + 1
    /\ pc' = "wait"
    /\ UNCHANGED <<bufLines, trial, i, thread, handle, buf, out, times, failures>>

\* A defect: a fork() that failed is tried again.
ForkFails_Retried ==
    /\ pc = "loop" /\ trial \in ProcTrials /\ i < Iterations
    /\ failures < MaxFailures
    /\ failures' = failures + 1
    /\ UNCHANGED <<bufLines, pc, trial, i, child, childBuf, thread, handle, buf, out, ran, times>>

\* fork() returns -1, and so does process_func(), to a loop that does not look.
ForkFails ==
    /\ pc = "loop" /\ trial \in ProcTrials /\ i < Iterations
    /\ failures < MaxFailures
    /\ failures' = failures + 1
    /\ i' = i + 1
    /\ UNCHANGED <<bufLines, pc, trial, child, childBuf, thread, handle, buf, out, ran, times>>

\* A defect: the child ends without writing its buffer, by _exit().
ChildRuns_Unflushed ==
    /\ child = "running"
    /\ child' = "exited"
    /\ out' = Unwritten
    /\ UNCHANGED <<bufLines, pc, trial, i, childBuf, thread, handle, buf, ran, times, failures>>

\* The child: printf() and exit(0), which writes the buffer.
ChildRuns ==
    /\ child = "running"
    /\ child' = "exited"
    /\ out' = Written(childBuf \union {Line}, Unwritten)
    /\ UNCHANGED <<bufLines, pc, trial, i, childBuf, thread, handle, buf, ran, times, failures>>

\* A defect: the parent does not wait.
Wait_Missing ==
    /\ pc = "wait"
    /\ Printf
    /\ i' = i + 1
    /\ pc' = "loop"
    /\ UNCHANGED <<bufLines, trial, child, childBuf, thread, handle, ran, times, failures>>

\* The parent: wait(NULL), printf() and return.
Wait ==
    /\ pc = "wait"
    /\ child = "exited"
    /\ child' = "none"
    /\ Printf
    /\ i' = i + 1
    /\ pc' = "loop"
    /\ UNCHANGED <<bufLines, trial, childBuf, thread, handle, ran, times, failures>>

-----------------------------------------------------------------------------
(* Threads. *)

Create ==
    /\ pc = "loop" /\ trial \in ThreadTrials /\ i < Iterations
    /\ thread = "none"
    /\ thread' = "running"
    /\ handle' = "live"
    /\ ran' = ran + 1
    /\ pc' = "join"
    /\ UNCHANGED <<bufLines, trial, i, child, childBuf, buf, out, times, failures>>

\* pthread_create() fails, which main() does not look at: thread1 keeps what
\* its place on the stack held, the joined thread of the iteration before.
CreateFails ==
    /\ pc = "loop" /\ trial \in ThreadTrials /\ i < Iterations
    /\ failures < MaxFailures
    /\ failures' = failures + 1
    /\ pc' = "join"
    /\ UNCHANGED <<bufLines, trial, i, child, childBuf, thread, handle, buf, out, ran, times>>

\* thread_func(): printf() into the buffer the threads share.
ThreadRuns ==
    /\ thread = "running"
    /\ thread' = "ended"
    /\ Printf
    /\ UNCHANGED <<bufLines, pc, trial, i, child, childBuf, handle, ran, times, failures>>

Join ==
    /\ pc = "join"
    /\ handle = "live" /\ thread = "ended"
    /\ thread' = "none"
    /\ handle' = "joined"
    /\ i' = i + 1
    /\ pc' = "loop"
    /\ UNCHANGED <<bufLines, trial, child, childBuf, buf, out, ran, times, failures>>

\* pthread_join() of a handle that is no thread: undefined.  It returns an
\* error at once, or the program crashes and its buffer is lost.
JoinNoThread ==
    /\ pc = "join"
    /\ handle # "live"
    /\ \/ pc' = "loop" /\ i' = i + 1 /\ UNCHANGED buf
       \/ pc' = "crashed" /\ buf' = {} /\ UNCHANGED i
    /\ UNCHANGED <<bufLines, trial, child, childBuf, thread, handle, out, ran, times, failures>>

-----------------------------------------------------------------------------
\* The time of the trial, divided by Iterations, whatever they ran.
EndTrial ==
    /\ pc = "loop" /\ trial <= 2 * NTrials /\ i = Iterations
    /\ times' = Append(times, ran)
    /\ trial' = trial + 1
    /\ i' = 0
    /\ ran' = 0
    /\ UNCHANGED <<bufLines, pc, child, childBuf, thread, handle, buf, out, failures>>

\* The report (its lines are not counted), and return, which writes the buffer.
Report ==
    /\ pc = "loop" /\ trial > 2 * NTrials
    /\ out' = Written(buf, out)
    /\ buf' = {}
    /\ pc' = "done"
    /\ UNCHANGED <<bufLines, trial, i, child, childBuf, thread, handle, ran, times, failures>>

MainStep == Fork \/ ForkFails \/ Wait \/ Create \/ CreateFails \/ Join \/ JoinNoThread \/ EndTrial \/ Report

Terminated == pc \in {"done", "crashed"} /\ UNCHANGED vars

Next == MainStep \/ ChildRuns \/ ThreadRuns \/ Terminated

Spec == Init /\ [][Next]_vars

-----------------------------------------------------------------------------
TypeOK ==
    /\ pc \in {"loop", "wait", "join", "done", "crashed"}
    /\ trial \in 1..2 * NTrials + 1 /\ i \in 0..Iterations
    /\ child \in {"none", "running", "exited"} /\ thread \in {"none", "running", "ended"}
    /\ handle \in {"garbage", "live", "joined"}
    /\ out \in Seq(Nat) /\ ran \in 0..Iterations
    /\ bufLines \in 0..MaxBufLines
    /\ buf \subseteq DOMAIN out /\ Cardinality(buf) <= bufLines
    /\ childBuf \subseteq DOMAIN out /\ Cardinality(childBuf) <= bufLines
    /\ DOMAIN times = 1..trial - 1 /\ \A t \in 1..trial - 1 : times[t] \in 0..Iterations

\* Outside a call of process_func() no child runs and none is left a zombie,
\* however the calls fail: the time of a trial is that of its own processes.
NobodyLeft == pc \notin {"wait", "join"} => child = "none" /\ thread = "none"

\* Lines neither on stdout nor in main()'s buffer, which will yet be written.
Lost == {l \in DOMAIN out : out[l] = 0} \ buf

\* No line that a process or a thread prints is lost, whoever's copy of the buffer it
\* is in, and a crash loses no more lines than the buffer holds.  On a terminal every
\* line appears exactly once; through a buffer, as often as it was inherited.
NoLineLost ==
    /\ Cardinality(Lost) <= IF pc = "crashed" THEN bufLines ELSE 0
    /\ bufLines = 0 => \A l \in DOMAIN out : out[l] = 1

\* "find avg time to create and run over iterations": what a trial's time lacks
\* of Iterations processes or threads are calls that failed, each counted in the
\* trial it failed in and in no other.
MissingRunsFailed ==
    pc = "loop" =>
        failures = (i - ran) + MapThenSumSet(LAMBDA t : Iterations - times[t], DOMAIN times)
=============================================================================
