----------------------------- MODULE Contention -----------------------------
(***************************************************************************)
(* The multi-process sections of filesysoperations/contention.c.  In every *)
(* trial each process of the trial calls fork() K times in a row (K = 1    *)
(* for the "Two Processes" section, ..., K = 4 for "Sixteen Processes"), a *)
(* chain of if / else if over the return values gives each process a file, *)
(* and every process then waits for its children, reads one block of its   *)
(* file, and adds the time of the read to a sum in shared memory.  The     *)
(* children exit; main stores the sum and starts the next trial.           *)
(*                                                                         *)
(* A process is named by its history: the set of fork() calls that         *)
(* returned 0 in it or in an ancestor.  The call is <<t, i>> for the i-th  *)
(* fork() of trial t, and main is the empty set.                           *)
(*                                                                         *)
(* The value of the sum is kept symbolically, as the set of samples that   *)
(* went into it, so that a lost or a foreign addition shows.               *)
(***************************************************************************)
EXTENDS Integers, FiniteSets, Sequences

CONSTANTS
    K,                \* fork() calls per trial
    NTrials,          \* Ntrials in main(), 100 in the code
    MaxForkFailures,  \* bound: how many fork() calls may return -1
    FailingTrials,    \* bound: the trials they may return -1 in
    FailingForks      \* bound: which of a trial's calls may return -1

ASSUME KAssumption == K \in 1..4
ASSUME NTrialsAssumption == NTrials \in Nat \ {0}
ASSUME MaxForkFailuresAssumption == MaxForkFailures \in Nat
ASSUME FailingTrialsAssumption == FailingTrials \subseteq 1..NTrials
ASSUME FailingForksAssumption == FailingForks \subseteq 1..K

Trials == 1..NTrials
Forks == 1..K
Calls == Trials \X Forks

Earlier(m, n) == m[1] < n[1] \/ (m[1] = n[1] /\ m[2] < n[2])

Proc == SUBSET Calls
main == {}

\* The children p creates: by a call later than every call p was born from.
Children ==
    [p \in Proc |-> { p \union {n} : n \in { c \in Calls : \A m \in p : Earlier(m, c) } }]

\* q was created by p, or by a process p created, and so on.
Descendant(p, q) ==
    /\ p # q
    /\ p \subseteq q
    /\ \A m \in p, n \in q \ p : Earlier(m, n)

\* The if / else if chains after the fork() calls.  Entry f of a chain is the
\* condition of the branch of contention<f>.txt, written as the set of the
\* fork() calls that must have returned 0; the others must have returned a pid.
Two == << {}, {1} >>
Four == << {}, {1}, {2}, {1, 2} >>
Eight == << {}, {1}, {2}, {3}, {2, 3}, {1, 2}, {1, 3}, {1, 2, 3} >>
Sixteen ==
    << {}, {1}, {2}, {1, 2}, {3, 4}, {4}, {2, 3, 4}, {2, 3}, {2, 4}, {3}, {1, 4},
       {1, 3}, {1, 3, 4}, {1, 2, 4}, {1, 2, 3}, {1, 2, 3, 4} >>

BranchTable == << Two, Four, Eight, Sixteen >>

Files == DOMAIN BranchTable[K]
Samples == Proc \X Trials

VARIABLES
    pc,        \* where each process is
    trial,     \* its loop counter b, c, d or e
    forks,     \* how many fork() calls of this trial are behind it
    failed,    \* whether one of those returned -1
    reg,       \* its register between the load and the store of +=
    times,     \* its copy of the array of per-trial results
    agg,       \* the sum in shared memory: the samples it holds
    cache,     \* the files whose first block is in the page cache
    failures   \* how many fork() calls returned -1 so far

vars == <<pc, trial, forks, failed, reg, times, agg, cache, failures>>

PCs == {"unborn", "reset", "fork", "wait", "read", "load", "store",
        "record", "later", "zombie", "reaped", "done"}

\* States without a running process.
Gone == {"unborn", "zombie", "reaped", "done"}

\* The fork() calls of its current trial that returned 0 in p.
Mine(p) == { i \in Forks : <<trial[p], i>> \in p }

\* Which branches of the chain p takes: at most one.
Matching(p) == { f \in Files : ~failed[p] /\ BranchTable[K][f] = Mine(p) }
File(p) == CHOOSE f \in Files : BranchTable[K][f] = Mine(p)

-----------------------------------------------------------------------------
Init ==
    /\ pc = [p \in Proc |-> IF p = main THEN "reset" ELSE "unborn"]
    /\ trial = [p \in Proc |-> 1]
    /\ forks = [p \in Proc |-> 0]
    /\ failed = [p \in Proc |-> FALSE]
    /\ reg = [p \in Proc |-> {}]
    /\ times = [p \in Proc |-> [t \in Trials |-> {}]]
    /\ agg = {}
    /\ cache = {}
    /\ failures = 0

Goto(p, label) == pc' = [pc EXCEPT ![p] = label]

\* A defect: the sum is not reset for the trial.
Reset_KeepsSum(p) ==
    /\ pc[p] = "reset"
    /\ Goto(p, "fork")
    /\ forks' = [forks EXCEPT ![p] = 0]
    /\ failed' = [failed EXCEPT ![p] = FALSE]
    /\ UNCHANGED <<trial, reg, times, agg, cache, failures>>

\* *agg_time = 0 at the head of the loop body.
Reset(p) ==
    /\ pc[p] = "reset"
    /\ Goto(p, "fork")
    /\ agg' = {}
    /\ forks' = [forks EXCEPT ![p] = 0]
    /\ failed' = [failed EXCEPT ![p] = FALSE]
    /\ UNCHANGED <<trial, reg, times, cache, failures>>

\* fork() succeeds: the child is a copy of p at the same place.
Fork(p) ==
    /\ pc[p] = "fork"
    /\ forks[p] < K
    /\ LET call  == <<trial[p], forks[p] + 1>>
           child == p \union {call}
       IN  /\ pc' = [pc EXCEPT ![child] = "fork"]
           /\ trial' = [trial EXCEPT ![child] = trial[p]]
           /\ forks' = [forks EXCEPT ![p] = @ + 1, ![child] = forks[p] + 1]
           /\ failed' = [failed EXCEPT ![child] = failed[p]]
           /\ times' = [times EXCEPT ![child] = times[p]]
    /\ UNCHANGED <<reg, agg, cache, failures>>

\* fork() returns -1, which no branch of the chain tests for.
ForkFails(p) ==
    /\ pc[p] = "fork"
    /\ forks[p] < K
    /\ failures < MaxForkFailures
    /\ trial[p] \in FailingTrials
    /\ forks[p] + 1 \in FailingForks
    /\ forks' = [forks EXCEPT ![p] = @ + 1]
    /\ failed' = [failed EXCEPT ![p] = TRUE]
    /\ failures' = failures + 1
    /\ UNCHANGED <<pc, trial, reg, times, agg, cache>>

\* A branch of the chain matches.
TakeBranch(p) ==
    /\ pc[p] = "fork"
    /\ forks[p] = K
    /\ Matching(p) # {}
    /\ Goto(p, "wait")
    /\ UNCHANGED <<trial, forks, failed, reg, times, agg, cache, failures>>

\* No branch matches: p goes on after the chain, be it parent or child.
FallThrough(p) ==
    /\ pc[p] = "fork"
    /\ forks[p] = K
    /\ Matching(p) = {}
    /\ Goto(p, "record")
    /\ UNCHANGED <<trial, forks, failed, reg, times, agg, cache, failures>>

\* wait(NULL) returns the pid of a child that has exited.
Reap(p) ==
    /\ pc[p] = "wait"
    /\ \E c \in Children[p] : pc[c] = "zombie" /\ Goto(c, "reaped")
    /\ UNCHANGED <<trial, forks, failed, reg, times, agg, cache, failures>>

\* A defect: "while (wait(NULL))", which is true of the -1 as well.
EndWait_Never(p) ==
    /\ pc[p] = "wait"
    /\ \A c \in Children[p] : pc[c] \in {"unborn", "reaped"}
    /\ UNCHANGED vars

\* A defect: "if (wait(NULL) > 0)" for "while (wait(NULL) > 0)".
EndWait_OneWait(p) ==
    /\ pc[p] = "wait"
    /\ \/ \A c \in Children[p] : pc[c] = "unborn"
       \/ \E c \in Children[p] : pc[c] = "reaped"
    /\ Goto(p, "read")
    /\ cache' = {}
    /\ UNCHANGED <<trial, forks, failed, reg, times, agg, failures>>

\* A defect: no wait at all.
EndWait_NoWait(p) ==
    /\ pc[p] = "wait"
    /\ Goto(p, "read")
    /\ cache' = {}
    /\ UNCHANGED <<trial, forks, failed, reg, times, agg, failures>>

\* A defect: the cache is not dropped.
EndWait_NoFlush(p) ==
    /\ pc[p] = "wait"
    /\ \A c \in Children[p] : pc[c] \in {"unborn", "reaped"}
    /\ Goto(p, "read")
    /\ UNCHANGED <<trial, forks, failed, reg, times, agg, cache, failures>>

\* wait(NULL) returns -1: p has no child left.  It opens its file, and
\* seq_time calls system(SHELLSCRIPT), which drops the page cache.
EndWait(p) ==
    /\ pc[p] = "wait"
    /\ \A c \in Children[p] : pc[c] \in {"unborn", "reaped"}
    /\ Goto(p, "read")
    /\ cache' = {}
    /\ UNCHANGED <<trial, forks, failed, reg, times, agg, failures>>

\* seq_time: the timed read of one block.  A read() that fails leaves the loop
\* with the time 0 and nothing in the cache; p's sample stands for that 0 too.
ReadBlock(p) ==
    /\ pc[p] = "read"
    /\ Goto(p, "load")
    /\ cache' \in {cache, cache \union {File(p)}}
    /\ UNCHANGED <<trial, forks, failed, reg, times, agg, failures>>

\* *agg_time += fd_time, a load ...
Load(p) ==
    /\ pc[p] = "load"
    /\ Goto(p, "store")
    /\ reg' = [reg EXCEPT ![p] = agg]
    /\ UNCHANGED <<trial, forks, failed, times, agg, cache, failures>>

\* A defect: "=" for "+=".
Store_Assigns(p) ==
    /\ pc[p] = "store"
    /\ Goto(p, IF Mine(p) = {} THEN "record" ELSE "zombie")
    /\ agg' = {<<p, trial[p]>>}
    /\ reg' = [reg EXCEPT ![p] = {}]
    /\ UNCHANGED <<trial, forks, failed, times, cache, failures>>

\* ... and a store, after which every branch but the first calls exit(0).
Store(p) ==
    /\ pc[p] = "store"
    /\ Goto(p, IF Mine(p) = {} THEN "record" ELSE "zombie")
    /\ agg' = reg[p] \union {<<p, trial[p]>>}
    /\ reg' = [reg EXCEPT ![p] = {}]
    /\ UNCHANGED <<trial, forks, failed, times, cache, failures>>

\* A defect: "<=" for "<" in the loop's test.
Record_OneTooMany(p) ==
    /\ pc[p] = "record"
    /\ times' = [times EXCEPT ![p][trial[p]] = agg]
    /\ IF trial[p] <= NTrials
       THEN /\ trial' = [trial EXCEPT ![p] = @ + 1]
            /\ Goto(p, "reset")
       ELSE /\ Goto(p, IF p = main THEN "done" ELSE "later")
            /\ UNCHANGED trial
    /\ UNCHANGED <<forks, failed, reg, agg, cache, failures>>

\* proc_times[b] = *agg_time / 2^K, then the next trial or, after the last
\* one, the end of the section.  A child that no branch accepted does the same.
Record(p) ==
    /\ pc[p] = "record"
    /\ times' = [times EXCEPT ![p][trial[p]] = agg]
    /\ IF trial[p] < NTrials
       THEN /\ trial' = [trial EXCEPT ![p] = @ + 1]
            /\ Goto(p, "reset")
       ELSE /\ Goto(p, IF p = main THEN "done" ELSE "later")
            /\ UNCHANGED trial
    /\ UNCHANGED <<forks, failed, reg, agg, cache, failures>>

\* Such a child also runs what is left of main(): the statistics and the
\* later sections, with process trees and shared memory of their own, and
\* then returns.
Leave(p) ==
    /\ pc[p] = "later"
    /\ Goto(p, "zombie")
    /\ UNCHANGED <<trial, forks, failed, reg, times, agg, cache, failures>>

Step(p) ==
    \/ Reset(p) \/ Fork(p) \/ ForkFails(p) \/ TakeBranch(p) \/ FallThrough(p)
    \/ Reap(p) \/ EndWait(p) \/ ReadBlock(p) \/ Load(p)
    \/ Store(p) \/ Record(p) \/ Leave(p)

\* Nothing runs any more.
Terminated ==
    /\ \A p \in Proc : pc[p] \in Gone
    /\ UNCHANGED vars

Next == (\E p \in Proc : Step(p)) \/ Terminated

Spec == Init /\ [][Next]_vars

\* The kernel runs every runnable process, and wait() returns once it can.
FairSpec == Spec /\ \A p \in Proc : WF_vars(Step(p))

-----------------------------------------------------------------------------
TypeOK ==
    /\ pc \in [Proc -> PCs]
    /\ trial \in [Proc -> Trials]
    /\ forks \in [Proc -> 0..K]
    /\ failed \in [Proc -> BOOLEAN]
    /\ reg \in [Proc -> SUBSET Samples]
    /\ times \in [Proc -> [Trials -> SUBSET Samples]]
    /\ agg \in SUBSET Samples
    /\ cache \in SUBSET Files
    /\ failures \in 0..MaxForkFailures

\* From its wait loop on, and before its next fork(), a process is alone.
PastWait ==
    {"read", "load", "store", "record", "reset", "later", "zombie", "reaped", "done"}

\* As long as no fork() failed: once a process has left its wait loop, every
\* process it created, directly or through its children, has exited and been
\* waited for.  The code waits for children only; that grandchildren are gone
\* too takes every process of the tree to have waited.
ReadExclusion ==
    failures = 0 =>
        \A p, q \in Proc :
            pc[p] \in PastWait /\ Descendant(p, q) => pc[q] \in {"unborn", "reaped"}

\* As long as no fork() failed: no more than half of a trial's 2^K processes
\* measure at the same time, since parents wait for their children first.  The
\* "2 processes" of the K = 1 section never contend.
HalfAtOnce ==
    failures = 0 =>
        Cardinality({ p \in Proc : pc[p] = "read" }) <= 2 ^ (K - 1)

\* As long as no fork() failed: a process that is about to time its read finds
\* its block out of the page cache, whatever the others read since it dropped
\* the cache.
ColdRead ==
    failures = 0 =>
        \A p \in Proc : pc[p] = "read" => File(p) \notin cache

\* The result stored for a trial is made of samples of that trial only.
OwnTrialOnly ==
    \A t \in Trials : times[main][t] \subseteq Proc \X {t}

\* The same, as long as no fork() failed.
OwnTrialOnlyUnlessForkFails == failures = 0 => OwnTrialOnly

Recorded(t) == trial[main] > t \/ pc[main] = "done"

\* As long as no fork() failed: however the unsynchronised additions race, the
\* result of a trial counts main and at least one child of main.
CountsMainAndAChild ==
    failures = 0 =>
        \A t \in Trials : Recorded(t) =>
            /\ <<main, t>> \in times[main][t]
            /\ \E i \in Forks : <<{<<t, i>>}, t>> \in times[main][t]

\* The result of a trial is the time of all its processes, as the comments
\* at the four *_agg_time pointers say.
SumComplete ==
    \A t \in Trials : Recorded(t) =>
        times[main][t] = { <<{ <<t, i>> : i \in S }, t>> : S \in SUBSET Forks }

\* The section ends, for every process in it, even if some fork() failed: no
\* wait() blocks for ever and no process is left behind.
Termination == <>[](pc[main] = "done" /\ \A p \in Proc : pc[p] \in Gone)
=============================================================================
