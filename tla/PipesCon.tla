------------------------------ MODULE PipesCon ------------------------------
(***************************************************************************)
(* cpuoperations/pipes_con.c: the time of a process context switch.  In    *)
(* every trial main() opens two pipes and forks a child; the two bounce a  *)
(* byte NIterations times, main() through fd[1] and fd2[0], the child      *)
(* through fd[0] and fd2[1].                                               *)
(*                                                                         *)
(* Nobody closes the ends it does not use, and main() never closes fd[0]   *)
(* and fd2[1] at all, so a pipe's end of file depends on who still holds   *)
(* an end: descriptors are part of the state.                              *)
(***************************************************************************)
EXTENDS Integers, FiniteSets

CONSTANTS
    NTrials,       \* N_trials, 10 in the code
    NIterations,   \* N_iterations, 100000 in the code
    MaxFds,        \* how many descriptors a process may have for its pipes
    MaxFailures    \* bound: how many calls of fork, read and write may fail

ASSUME NTrialsAssumption == NTrials \in Nat \ {0}
ASSUME NIterationsAssumption == NIterations \in Nat \ {0}
ASSUME MaxFdsAssumption == MaxFds \in Nat
ASSUME MaxFailuresAssumption == MaxFailures \in Nat

Trials == 1..NTrials
parent == 0
Procs == {parent} \union Trials     \* the child of trial t is process t

\* <<t, 1>> is the pipe fd of trial t and <<t, 2>> its fd2.
Pipes == Trials \X {1, 2}
Ends == Pipes \X {"read", "write"}

VARIABLES
    pc,         \* where each process is
    x,          \* the trial main() is in
    i,          \* each process's iteration counter
    fds,        \* the pipe ends each process has open
    put,        \* how many bytes went into each pipe
    got,        \* how many of them came out
    recorded,   \* the trials whose duration_per_iteration is stored
    failures

vars == <<pc, x, i, fds, put, got, recorded, failures>>

PCs == {"unborn", "pipe", "pipe2", "fork", "write", "read", "end", "exited", "killed", "done"}
Gone == {"unborn", "exited", "killed", "done"}

End(t, k, side) == <<<<t, k>>, side>>
Open(e) == \E p \in Procs : e \in fds[p]
Empty(k) == put[k] = got[k]

Init ==
    /\ pc = [p \in Procs |-> IF p = parent THEN "pipe" ELSE "unborn"]
    /\ x = 1
    /\ i = [p \in Procs |-> 0]
    /\ fds = [p \in Procs |-> {}]
    /\ put = [k \in Pipes |-> 0]
    /\ got = [k \in Pipes |-> 0]
    /\ recorded = {}
    /\ failures = 0

Goto(p, label) == pc' = [pc EXCEPT ![p] = label]

\* exit() or return from main(), and the kernel closes what p had open.
Leave(p, label) ==
    /\ Goto(p, label)
    /\ fds' = [fds EXCEPT ![p] = {}]

\* pipe(): two descriptors, or exit(1) when the table is full.
OpenPipe(k, here, next) ==
    /\ pc[parent] = here
    /\ \/ /\ Cardinality(fds[parent]) + 2 <= MaxFds
          /\ fds' = [fds EXCEPT ![parent] = @ \union {End(x, k, "read"), End(x, k, "write")}]
          /\ Goto(parent, next)
       \/ /\ Cardinality(fds[parent]) + 2 > MaxFds
          /\ Leave(parent, "exited")
    /\ UNCHANGED <<x, i, put, got, recorded, failures>>

Pipe == OpenPipe(1, "pipe", "pipe2")
Pipe2 == OpenPipe(2, "pipe2", "fork")

\* A defect: both sides close the ends they do not use, while a read that
\* returns 0 still counts as a success.
Fork_ClosesUnused ==
    /\ pc[parent] = "fork"
    /\ pc' = [pc EXCEPT ![parent] = "write", ![x] = "read"]
    /\ fds' = [fds EXCEPT ![parent] = @ \ {End(x, 1, "read"), End(x, 2, "write")},
                          ![x] = fds[parent] \ {End(x, 1, "write"), End(x, 2, "read")}]
    /\ UNCHANGED <<x, i, put, got, recorded, failures>>

\* The child has a copy of every descriptor.
Fork ==
    /\ pc[parent] = "fork"
    /\ pc' = [pc EXCEPT ![parent] = "write", ![x] = "read"]
    /\ fds' = [fds EXCEPT ![x] = fds[parent]]
    /\ UNCHANGED <<x, i, put, got, recorded, failures>>

\* The pipes p writes to and reads from.
OutPipe(p) == IF p = parent THEN <<x, 1>> ELSE <<p, 2>>
InPipe(p) == IF p = parent THEN <<x, 2>> ELSE <<p, 1>>

\* Where the loops go on: main() counts a trip after the answer, the child
\* after its own write.  A defect is off by one.
AfterRead_OneMore(p) == IF p = parent /\ i[p] = NIterations THEN "end" ELSE "write"
AfterRead(p) == IF p = parent /\ i[p] + 1 = NIterations THEN "end" ELSE "write"

AfterWrite(p) == IF p # parent /\ i[p] + 1 = NIterations THEN "end" ELSE "read"

\* A write succeeds as long as somebody holds a read end, p itself included.
Write(p) ==
    /\ pc[p] = "write"
    /\ \/ /\ Open(<<OutPipe(p), "read">>)
          /\ put' = [put EXCEPT ![OutPipe(p)] = @ + 1]
          /\ i' = IF p = parent THEN i ELSE [i EXCEPT ![p] = @ + 1]
          /\ Goto(p, AfterWrite(p))
          /\ UNCHANGED fds
       \/ /\ ~Open(<<OutPipe(p), "read">>)     \* SIGPIPE
          /\ Leave(p, "killed")
          /\ UNCHANGED <<put, i>>
    /\ UNCHANGED <<x, got, recorded, failures>>

\* A defect: read() does not block (O_NONBLOCK), and its error is ignored.
Read_Ignored(p) ==
    /\ pc[p] = "read"
    /\ i' = IF p = parent THEN [i EXCEPT ![p] = @ + 1] ELSE i
    /\ Goto(p, AfterRead(p))
    /\ UNCHANGED <<x, fds, put, got, recorded, failures>>

\* A read blocks on an empty pipe while somebody holds a write end, p itself
\* included; then it returns 0, which the test for < 0 lets through.
Read(p) ==
    /\ pc[p] = "read"
    /\ \/ /\ ~Empty(InPipe(p))
          /\ got' = [got EXCEPT ![InPipe(p)] = @ + 1]
       \/ /\ Empty(InPipe(p))
          /\ ~Open(<<InPipe(p), "write">>)
          /\ UNCHANGED got
    /\ i' = IF p = parent THEN [i EXCEPT ![p] = @ + 1] ELSE i
    /\ Goto(p, AfterRead(p))
    /\ UNCHANGED <<x, fds, put, recorded, failures>>

\* fork(), read() or write() returns -1: return 1, exit(2) or exit(3).
Fail(p) ==
    /\ pc[p] \in {"fork", "write", "read"}
    /\ failures < MaxFailures
    /\ failures' = failures + 1
    /\ Leave(p, "exited")
    /\ UNCHANGED <<x, i, put, got, recorded>>

\* The child closes fd[0] and fd2[1] and returns from main().
ChildEnd(t) ==
    /\ pc[t] = "end"
    /\ Leave(t, "exited")
    /\ UNCHANGED <<x, i, put, got, recorded, failures>>

\* A defect: fd2[0] is not closed either.
TrialEnd_LeaksThree ==
    /\ pc[parent] = "end"
    /\ recorded' = recorded \union {x}
    /\ IF x < NTrials
       THEN /\ x' = x + 1
            /\ i' = [i EXCEPT ![parent] = 0]
            /\ fds' = [fds EXCEPT ![parent] = @ \ {End(x, 1, "write")}]
            /\ Goto(parent, "pipe")
       ELSE /\ Leave(parent, "done")
            /\ UNCHANGED <<x, i>>
    /\ UNCHANGED <<put, got, failures>>

\* main() closes fd[1] and fd2[0] and stores the duration.  It does not wait
\* for the child.
TrialEnd ==
    /\ pc[parent] = "end"
    /\ recorded' = recorded \union {x}
    /\ IF x < NTrials
       THEN /\ x' = x + 1
            /\ i' = [i EXCEPT ![parent] = 0]
            /\ fds' = [fds EXCEPT ![parent] = @ \ {End(x, 1, "write"), End(x, 2, "read")}]
            /\ Goto(parent, "pipe")
       ELSE /\ Leave(parent, "done")
            /\ UNCHANGED <<x, i>>
    /\ UNCHANGED <<put, got, failures>>

ParentStep == Pipe \/ Pipe2 \/ Fork \/ Write(parent) \/ Read(parent) \/ TrialEnd
ChildStep(t) == Read(t) \/ Write(t) \/ ChildEnd(t)

Terminated ==
    /\ \A p \in Procs : pc[p] \in Gone
    /\ UNCHANGED vars

Next ==
    \/ ParentStep
    \/ \E t \in Trials : ChildStep(t)
    \/ \E p \in Procs : Fail(p)
    \/ Terminated

Spec == Init /\ [][Next]_vars

\* The kernel runs whoever is not blocked; calls need not fail.
FairSpec == Spec /\ WF_vars(ParentStep) /\ \A t \in Trials : WF_vars(ChildStep(t))

-----------------------------------------------------------------------------
\* In particular no byte is read that nobody wrote, and no process has more
\* pipe ends open than its table of descriptors holds.
TypeOK ==
    /\ pc \in [Procs -> PCs]
    /\ x \in Trials
    /\ i \in [Procs -> 0..NIterations]
    /\ fds \in [Procs -> SUBSET Ends]
    /\ put \in [Pipes -> 0..NIterations]
    /\ got \in [Pipes -> 0..NIterations]
    /\ recorded \subseteq Trials
    /\ failures \in 0..MaxFailures
    /\ \A k \in Pipes : got[k] <= put[k]
    /\ \A p \in Procs : Cardinality(fds[p]) <= MaxFds

\* A stored duration stands for NIterations round trips that took place, even
\* if calls failed: no read that returned 0 was counted as one.  It takes
\* main() and the child to keep open the write ends they do not use.
SampleComplete == \A t \in recorded : got[<<t, 2>>] = NIterations

\* Everything ends and every trial has a duration, unless a call fails: no side
\* waits for a byte that does not come, and the two descriptors that main()
\* leaks in every trial are no obstacle as long as the process may have two per
\* trial and two more.
Completion ==
    MaxFds >= 2 * NTrials + 2 =>
        <>(failures > 0 \/ (recorded = Trials /\ \A p \in Procs : pc[p] \in Gone))

Exchange ==
    INSTANCE PingPong WITH
        Rounds <- NTrials, Trips <- NIterations,
        round <- x,
        sent <- put[<<x, 1>>], returned <- put[<<x, 2>>]

\* Main and the child of its trial take turns strictly, so that every byte is a
\* switch from one to the other, even if calls fail.
TakeTurns == Exchange!Spec
=============================================================================
