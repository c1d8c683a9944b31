--------------------------- MODULE PipesConProofs ---------------------------
(***************************************************************************)
(* Proofs about PipesCon, for every number of trials, iterations,          *)
(* descriptors and failures: main() and the child of its trial take turns  *)
(* (PipesCon implements PingPong), and a stored duration stands for a      *)
(* complete exchange.                                                      *)
(***************************************************************************)
EXTENDS PipesCon, FiniteSetTheorems, TLAPS

\* The two pipes of a trial.
Fd(t) == <<t, 1>>
Fd2(t) == <<t, 2>>

\* The types of the variables, without what relates them.
Typing ==
    /\ pc \in [Procs -> PCs]
    /\ x \in Trials
    /\ i \in [Procs -> 0..NIterations]
    /\ fds \in [Procs -> SUBSET Ends]
    /\ put \in [Pipes -> 0..NIterations]
    /\ got \in [Pipes -> 0..NIterations]
    /\ recorded \subseteq Trials
    /\ failures \in 0..MaxFailures

\* A process that is to read holds the write end of the pipe it reads from, so
\* that its read never returns 0; the parent has it from pipe() on.
HoldsEnds ==
    /\ pc[parent] = "fork" => End(x, 1, "write") \in fds[parent]
    /\ pc[parent] \in {"fork", "write", "read"} => End(x, 2, "write") \in fds[parent]
    /\ pc[parent] = "pipe2" => End(x, 1, "write") \in fds[parent]
    /\ \A t \in Trials : pc[t] \in {"write", "read"} => End(t, 1, "write") \in fds[t]

\* Nothing of a trial exists before main() comes to it.
Untouched(t) ==
    /\ pc[t] = "unborn" /\ i[t] = 0
    /\ put[Fd(t)] = 0 /\ put[Fd2(t)] = 0
    /\ got[Fd(t)] = 0 /\ got[Fd2(t)] = 0

NotYet ==
    \A t \in Trials :
        (t > x \/ (t = x /\ pc[parent] \in {"pipe", "pipe2", "fork"})) => Untouched(t)

\* The bytes of the current trial that main() has put and got follow from its
\* place in the loop.
ParentCounts ==
    /\ pc[parent] \in {"pipe", "pipe2", "fork"} => i[parent] = 0
    /\ pc[parent] = "write" =>
          /\ i[parent] < NIterations
          /\ put[Fd(x)] = i[parent] /\ got[Fd2(x)] = i[parent]
          /\ put[Fd2(x)] = i[parent]
    /\ pc[parent] = "read" =>
          /\ i[parent] < NIterations
          /\ put[Fd(x)] = i[parent] + 1 /\ got[Fd2(x)] = i[parent]
          /\ (put[Fd2(x)] = i[parent] \/ put[Fd2(x)] = i[parent] + 1)
    /\ pc[parent] = "end" =>
          /\ i[parent] = NIterations /\ got[Fd2(x)] = NIterations
          /\ put[Fd2(x)] = NIterations

\* The same for the children.
ChildCount(t) ==
    /\ pc[t] \in {"unborn", "read"} =>
          /\ got[Fd(t)] = i[t] /\ put[Fd2(t)] = i[t]
          /\ (put[Fd(t)] = i[t] \/ put[Fd(t)] = i[t] + 1)
    /\ pc[t] = "unborn" => i[t] = 0
    /\ pc[t] = "read" => i[t] < NIterations
    /\ pc[t] = "write" =>
          /\ i[t] < NIterations
          /\ got[Fd(t)] = i[t] + 1 /\ put[Fd2(t)] = i[t]
          /\ put[Fd(t)] = i[t] + 1
    /\ put[Fd2(t)] <= put[Fd(t)]
    /\ got[Fd2(t)] <= put[Fd2(t)]

ChildCounts == \A t \in Trials : ChildCount(t)

\* What is stored is complete, and belongs to a trial that main() has left.
Stored ==
    \A t \in recorded :
        /\ t < x \/ (t = x /\ pc[parent] = "done")
        /\ got[Fd2(t)] = NIterations

PipesInv == Typing /\ HoldsEnds /\ NotYet /\ ParentCounts /\ ChildCounts /\ Stored

-----------------------------------------------------------------------------
LEMMA Numbering ==
    /\ parent \in Procs /\ parent \notin Trials
    /\ NIterations \in Nat /\ NIterations > 0
    /\ NTrials \in Trials /\ 1 \in Trials
    /\ \A t \in Trials : t \in Procs /\ t # parent
    /\ \A p \in Procs : p = parent \/ p \in Trials
BY NTrialsAssumption, NIterationsAssumption DEF parent, Procs, Trials

LEMMA TrialNumber ==
    ASSUME NEW t \in Trials
    PROVE  t \in Nat /\ t >= 1 /\ t <= NTrials
BY NTrialsAssumption DEF Trials

LEMMA PipeNames ==
    ASSUME NEW t \in Trials
    PROVE  /\ Fd(t) \in Pipes /\ Fd2(t) \in Pipes
           /\ \A u \in Trials : /\ Fd(t) # Fd2(u)
                                /\ u # t => Fd(u) # Fd(t) /\ Fd2(u) # Fd2(t)
BY DEF Fd, Fd2, Pipes

\* The descriptors stay pipe ends.
LEMMA EndsAreEnds ==
    ASSUME NEW t \in Trials, NEW k \in {1, 2}, NEW side \in {"read", "write"}
    PROVE  End(t, k, side) \in Ends
BY DEF End, Ends, Pipes

LEMMA InitInv == Init => PipesInv
<1> SUFFICES ASSUME Init PROVE PipesInv
  OBVIOUS
<1>1. Typing
  BY Numbering, MaxFailuresAssumption DEF Init, Typing, PCs
<1>2. ASSUME NEW t \in Trials PROVE Untouched(t)
  BY Numbering, PipeNames DEF Init, Untouched
<1>3. pc[parent] = "pipe" /\ i[parent] = 0 /\ recorded = {}
  BY Numbering DEF Init
<1>4. HoldsEnds /\ Stored
  BY <1>2, <1>3 DEF HoldsEnds, Stored, Untouched
<1>5. NotYet
  BY <1>2 DEF NotYet
<1>6. ParentCounts
  BY <1>3 DEF ParentCounts
<1>7. ChildCounts
  <2> SUFFICES ASSUME NEW t \in Trials PROVE ChildCount(t)
    BY DEF ChildCounts
  <2> QED
    BY <1>2 DEF Untouched, ChildCount
<1> QED
  BY <1>1, <1>4, <1>5, <1>6, <1>7 DEF PipesInv

\* A process that leaves takes nothing with it that somebody needs.
LEMMA LeaveInv ==
    ASSUME PipesInv, NEW p \in Procs, NEW label \in {"exited", "killed", "done"},
           Leave(p, label), pc[p] \notin Gone,
           UNCHANGED <<x, i, put, got>>,
           failures' \in 0..MaxFailures,
           recorded' \subseteq Trials,
           \A t \in recorded' : t \in recorded \/
               (t = x /\ p = parent /\ label = "done" /\ got[Fd2(t)] = NIterations)
    PROVE  PipesInv'
<1>1. \A q \in Procs : pc'[q] = IF q = p THEN label ELSE pc[q]
  BY DEF Leave, Goto, PipesInv, Typing
<1>2. \A q \in Procs : q # p => fds'[q] = fds[q]
  BY DEF Leave, PipesInv, Typing
<1>3. Typing'
  <2>1. pc' \in [Procs -> PCs]
    BY DEF Leave, Goto, PipesInv, Typing, PCs
  <2>2. fds' \in [Procs -> SUBSET Ends]
    BY DEF Leave, PipesInv, Typing
  <2> QED
    BY <2>1, <2>2 DEF PipesInv, Typing
<1>4. HoldsEnds'
  <2>1. x' = x /\ \A q \in Procs : pc'[q] \in {"pipe2", "fork", "write", "read"} =>
                   pc'[q] = pc[q] /\ fds'[q] = fds[q]
    BY <1>1, <1>2
  <2> QED
    BY <2>1, Numbering DEF PipesInv, HoldsEnds, End
<1>5. NotYet'
  BY <1>1, Numbering DEF PipesInv, NotYet, Untouched, Gone
<1>6. ParentCounts'
  BY <1>1, Numbering DEF PipesInv, ParentCounts
<1>7. ChildCounts'
  BY <1>1, Numbering DEF PipesInv, ChildCounts, ChildCount
<1>8. Stored'
  <2> SUFFICES ASSUME NEW t \in recorded'
               PROVE  (t < x \/ (t = x /\ pc'[parent] = "done")) /\ got[Fd2(t)] = NIterations
    BY DEF Stored
  <2>1. pc[parent] = "done" => pc'[parent] = "done" \/ p = parent
    BY <1>1, Numbering
  <2>2. CASE t \notin recorded
    BY <2>2, <1>1, Numbering
  <2>3. CASE t \in recorded
    BY <2>3, <2>1, <1>1, Numbering DEF PipesInv, Stored, Gone
  <2> QED
    BY <2>2, <2>3
<1> QED
  BY <1>3, <1>4, <1>5, <1>6, <1>7, <1>8 DEF PipesInv

\* What one pipe() does, be it the first or the second of the trial.
LEMMA OpenPipeInv ==
    ASSUME PipesInv, NEW k \in {1, 2}, NEW here, NEW next,
           \/ here = "pipe" /\ next = "pipe2" /\ k = 1
           \/ here = "pipe2" /\ next = "fork" /\ k = 2,
           OpenPipe(k, here, next)
    PROVE  PipesInv'
<1>1. UNCHANGED <<x, i, put, got, recorded, failures>> /\ pc[parent] = here
  BY DEF OpenPipe
<1>2. CASE Leave(parent, "exited")
  <2>1. pc[parent] \notin Gone
    BY <1>1 DEF Gone
  <2> QED
    BY <1>1, <1>2, <2>1, LeaveInv, Numbering DEF PipesInv, Typing
<1>3. CASE /\ fds' = [fds EXCEPT ![parent] = @ \union {End(x, k, "read"), End(x, k, "write")}]
           /\ Goto(parent, next)
  <2>1. \A q \in Procs : pc'[q] = IF q = parent THEN next ELSE pc[q]
    BY <1>3 DEF Goto, PipesInv, Typing
  <2>2. /\ \A q \in Trials : fds'[q] = fds[q]
        /\ fds'[parent] = fds[parent] \union {End(x, k, "read"), End(x, k, "write")}
    BY <1>3, Numbering DEF PipesInv, Typing
  <2>3. Typing'
    <3>1. pc' \in [Procs -> PCs]
      BY <1>3 DEF Goto, PipesInv, Typing, PCs
    <3>2. End(x, k, "read") \in Ends /\ End(x, k, "write") \in Ends
      BY EndsAreEnds DEF PipesInv, Typing
    <3>3. fds' \in [Procs -> SUBSET Ends]
      BY <1>3, <3>2 DEF PipesInv, Typing
    <3> QED
      BY <1>1, <3>1, <3>3 DEF PipesInv, Typing
  <2>4. HoldsEnds'
    <3>1. \A t \in Trials : pc'[t] = pc[t]
      BY <2>1, Numbering
    <3>2. pc'[parent] = next
      BY <2>1, Numbering
    <3>3. \A t \in Trials : pc'[t] \in {"write", "read"} => End(t, 1, "write") \in fds'[t]
      BY <2>2, <3>1 DEF PipesInv, HoldsEnds
    <3>4. here = "pipe2" => /\ End(x, 1, "write") \in fds'[parent]
                            /\ End(x, 2, "write") \in fds'[parent]
      BY <1>1, <2>2 DEF PipesInv, HoldsEnds
    <3>5. here = "pipe" => End(x, 1, "write") \in fds'[parent]
      BY <2>2
    <3> QED
      BY <1>1, <3>2, <3>3, <3>4, <3>5 DEF HoldsEnds, End
  <2>5. NotYet'
    BY <1>1, <2>1, Numbering DEF PipesInv, NotYet, Untouched
  <2>6. ParentCounts'
    BY <1>1, <2>1, Numbering DEF PipesInv, ParentCounts
  <2>7. ChildCounts'
    BY <1>1, <2>1, Numbering DEF PipesInv, ChildCounts, ChildCount
  <2>8. Stored'
    BY <1>1, <2>1, Numbering DEF PipesInv, Stored
  <2> QED
    BY <2>3, <2>4, <2>5, <2>6, <2>7, <2>8 DEF PipesInv
<1> QED
  BY <1>2, <1>3 DEF OpenPipe

LEMMA ForkInv ==
    ASSUME PipesInv, Fork
    PROVE  PipesInv'
<1>1. UNCHANGED <<x, i, put, got, recorded, failures>> /\ pc[parent] = "fork"
  BY DEF Fork
<1>2. x \in Trials /\ x \in Procs /\ x # parent
  BY Numbering DEF PipesInv, Typing
<1>3. /\ pc'[parent] = "write" /\ pc'[x] = "read"
      /\ \A t \in Trials : t # x => pc'[t] = pc[t]
  BY <1>2, Numbering DEF Fork, PipesInv, Typing
<1>4. /\ fds'[x] = fds[parent] /\ fds'[parent] = fds[parent]
      /\ \A t \in Trials : t # x => fds'[t] = fds[t]
  BY <1>2, Numbering DEF Fork, PipesInv, Typing
<1>5. /\ pc[x] = "unborn" /\ i[x] = 0 /\ i[parent] = 0
      /\ put[Fd(x)] = 0 /\ put[Fd2(x)] = 0 /\ got[Fd(x)] = 0 /\ got[Fd2(x)] = 0
  BY <1>1, <1>2 DEF PipesInv, NotYet, Untouched, ParentCounts
<1>6. Typing'
  <2>1. pc' \in [Procs -> PCs]
    BY DEF Fork, PipesInv, Typing, PCs
  <2>2. fds' \in [Procs -> SUBSET Ends]
    BY <1>2, Numbering DEF Fork, PipesInv, Typing
  <2> QED
    BY <1>1, <2>1, <2>2 DEF PipesInv, Typing
<1>7. HoldsEnds'
  <2>1. End(x, 1, "write") \in fds[parent] /\ End(x, 2, "write") \in fds[parent]
    BY <1>1 DEF PipesInv, HoldsEnds
  <2>2. \A t \in Trials : pc'[t] \in {"write", "read"} => End(t, 1, "write") \in fds'[t]
    BY <1>3, <1>4, <2>1 DEF PipesInv, HoldsEnds
  <2> QED
    BY <1>1, <1>3, <1>4, <2>1, <2>2 DEF HoldsEnds, End
<1>8. NotYet'
  BY <1>1, <1>2, <1>3, TrialNumber DEF PipesInv, NotYet, Untouched
<1>9. ParentCounts'
  BY <1>1, <1>3, <1>5, Numbering DEF ParentCounts
<1>10. ChildCounts'
  <2> SUFFICES ASSUME NEW t \in Trials PROVE ChildCount(t)'
    BY DEF ChildCounts
  <2>1. CASE t = x
    BY <1>1, <1>3, <1>5, <2>1, Numbering DEF ChildCount
  <2>2. CASE t # x
    BY <1>1, <1>3, <2>2 DEF PipesInv, ChildCounts, ChildCount
  <2> QED
    BY <2>1, <2>2
<1>11. Stored'
  BY <1>1, <1>2, <1>3, Numbering DEF PipesInv, Stored
<1> QED
  BY <1>6, <1>7, <1>8, <1>9, <1>10, <1>11 DEF PipesInv

\* A byte from main() to the child of its trial.
LEMMA ParentWriteInv ==
    ASSUME PipesInv, Write(parent)
    PROVE  /\ PipesInv'
           /\ put' = put \/ (put[Fd(x)] < NIterations /\ put[Fd(x)] = put[Fd2(x)]
                              /\ put' = [put EXCEPT ![Fd(x)] = @ + 1])
<1>1. UNCHANGED <<x, got, recorded, failures>> /\ pc[parent] = "write"
  BY DEF Write
<1>2. CASE /\ ~Open(<<OutPipe(parent), "read">>)
           /\ Leave(parent, "killed")
           /\ UNCHANGED <<put, i>>
  <2>1. pc[parent] \notin Gone
    BY <1>1 DEF Gone
  <2> QED
    BY <1>1, <1>2, <2>1, LeaveInv, Numbering DEF PipesInv, Typing
<1>3. CASE /\ put' = [put EXCEPT ![OutPipe(parent)] = @ + 1]
           /\ i' = IF parent = parent THEN i ELSE [i EXCEPT ![parent] = @ + 1]
           /\ Goto(parent, AfterWrite(parent))
           /\ UNCHANGED fds
  <2>1. OutPipe(parent) = Fd(x) /\ AfterWrite(parent) = "read" /\ i' = i
    BY <1>3 DEF OutPipe, AfterWrite, Fd
  <2>2. \A q \in Procs : pc'[q] = IF q = parent THEN "read" ELSE pc[q]
    BY <1>3, <2>1 DEF Goto, PipesInv, Typing
  <2>3. /\ x \in Trials /\ x \in Nat /\ Fd(x) \in Pipes /\ x \in Procs /\ x # parent
        /\ put[Fd(x)] \in Nat /\ i[parent] \in Nat /\ i[x] \in Nat
    <3>1. x \in Trials
      BY DEF PipesInv, Typing
    <3>2. x \in Nat /\ Fd(x) \in Pipes /\ x \in Procs /\ x # parent
      BY <3>1, TrialNumber, PipeNames, Numbering
    <3> QED
      BY <3>1, <3>2, Numbering DEF PipesInv, Typing
  <2>4. /\ put'[Fd(x)] = put[Fd(x)] + 1
        /\ \A t \in Trials : /\ put'[Fd2(t)] = put[Fd2(t)]
                             /\ t # x => put'[Fd(t)] = put[Fd(t)]
    BY <1>3, <2>1, <2>3, PipeNames, Numbering DEF PipesInv, Typing
  <2>5. /\ i[parent] < NIterations /\ put[Fd(x)] = i[parent]
        /\ put[Fd2(x)] = i[parent] /\ got[Fd2(x)] = i[parent]
    BY <1>1 DEF PipesInv, ParentCounts
  <2>6. Typing'
    <3>1. pc' \in [Procs -> PCs]
      BY <1>3, <2>1 DEF Goto, PipesInv, Typing, PCs
    <3>2. put[Fd(x)] + 1 \in 0..NIterations
      BY <2>3, <2>5, Numbering
    <3>3. put' \in [Pipes -> 0..NIterations]
      BY <1>3, <2>1, <3>2 DEF PipesInv, Typing
    <3> QED
      BY <1>1, <1>3, <2>1, <3>1, <3>3 DEF PipesInv, Typing
  <2>7. HoldsEnds'
    <3>1. x' = x /\ fds' = fds
      BY <1>1, <1>3
    <3> QED
      BY <1>1, <2>2, <3>1, Numbering DEF PipesInv, HoldsEnds, End
  <2>8. NotYet'
    <3>1. \A t \in Trials : t > x => t # x
      BY <2>3
    <3> QED
      BY <1>1, <2>1, <2>2, <2>4, <3>1, Numbering DEF PipesInv, NotYet, Untouched
  <2>9. ParentCounts'
    BY <1>1, <2>1, <2>2, <2>3, <2>4, <2>5, Numbering DEF ParentCounts
  <2>10. ChildCounts'
    <3> SUFFICES ASSUME NEW t \in Trials PROVE ChildCount(t)'
      BY DEF ChildCounts
    <3>1. pc'[t] = pc[t] /\ i'[t] = i[t]
      BY <2>1, <2>2, Numbering
    <3>2. CASE t = x
      <4>1. ChildCount(x)
        BY <2>3 DEF PipesInv, ChildCounts
      <4>2. got[Fd2(x)] \in Nat
        BY <2>3, PipeNames DEF PipesInv, Typing
      <4> QED
        BY <1>1, <2>3, <2>4, <2>5, <3>1, <3>2, <4>1, <4>2 DEF ChildCount
    <3>3. CASE t # x
      BY <1>1, <2>4, <3>1, <3>3 DEF PipesInv, ChildCounts, ChildCount
    <3> QED
      BY <3>2, <3>3
  <2>11. Stored'
    BY <1>1, <2>2, Numbering DEF PipesInv, Stored
  <2> QED
    BY <1>3, <2>1, <2>5, <2>6, <2>7, <2>8, <2>9, <2>10, <2>11 DEF PipesInv
<1> QED
  BY <1>2, <1>3 DEF Write

\* The answer.  Only the child of the current trial can still give one.
LEMMA ChildWriteInv ==
    ASSUME PipesInv, NEW t \in Trials, Write(t)
    PROVE  /\ PipesInv'
           /\ \/ put' = put
              \/ t # x /\ put' = [put EXCEPT ![Fd2(t)] = @ + 1]
              \/ /\ t = x /\ put[Fd2(x)] < put[Fd(x)]
                 /\ put' = [put EXCEPT ![Fd2(x)] = @ + 1]
<1>1. UNCHANGED <<x, got, recorded, failures>> /\ pc[t] = "write"
  BY DEF Write
<1>2. CASE /\ ~Open(<<OutPipe(t), "read">>)
           /\ Leave(t, "killed")
           /\ UNCHANGED <<put, i>>
  <2>1. pc[t] \notin Gone
    BY <1>1 DEF Gone
  <2> QED
    BY <1>1, <1>2, <2>1, LeaveInv, Numbering DEF PipesInv, Typing
<1>3. CASE /\ put' = [put EXCEPT ![OutPipe(t)] = @ + 1]
           /\ i' = IF t = parent THEN i ELSE [i EXCEPT ![t] = @ + 1]
           /\ Goto(t, AfterWrite(t))
           /\ UNCHANGED fds
  <2>1. /\ OutPipe(t) = Fd2(t) /\ i' = [i EXCEPT ![t] = @ + 1]
        /\ AfterWrite(t) = IF i[t] + 1 = NIterations THEN "end" ELSE "read"
    BY <1>3, Numbering DEF OutPipe, AfterWrite, Fd2
  <2>2. \A q \in Procs : pc'[q] = IF q = t THEN AfterWrite(t) ELSE pc[q]
    BY <1>3 DEF Goto, PipesInv, Typing
  <2>3. /\ x \in Trials /\ x \in Nat /\ t \in Nat
        /\ Fd2(t) \in Pipes /\ i[t] \in Nat /\ t \in Procs /\ t # parent
    <3>1. x \in Trials
      BY DEF PipesInv, Typing
    <3>2. x \in Nat /\ t \in Nat /\ Fd2(t) \in Pipes /\ t \in Procs /\ t # parent
      BY <3>1, TrialNumber, PipeNames, Numbering
    <3> QED
      BY <3>1, <3>2 DEF PipesInv, Typing
  <2>4. /\ put'[Fd2(t)] = put[Fd2(t)] + 1 /\ i'[t] = i[t] + 1 /\ i'[parent] = i[parent]
        /\ \A u \in Trials : /\ put'[Fd(u)] = put[Fd(u)]
                             /\ u # t => put'[Fd2(u)] = put[Fd2(u)] /\ i'[u] = i[u]
    BY <1>3, <2>1, <2>3, PipeNames, Numbering DEF PipesInv, Typing
  <2>5. /\ i[t] < NIterations /\ got[Fd(t)] = i[t] + 1 /\ put[Fd2(t)] = i[t]
        /\ put[Fd(t)] = i[t] + 1 /\ got[Fd2(t)] <= put[Fd2(t)]
    BY <1>1 DEF PipesInv, ChildCounts, ChildCount
  <2>6. Typing'
    <3>1. pc' \in [Procs -> PCs]
      BY <1>3, <2>1 DEF Goto, PipesInv, Typing, PCs
    <3>2. put[Fd2(t)] + 1 \in 0..NIterations /\ i[t] + 1 \in 0..NIterations
      BY <2>3, <2>5, Numbering
    <3>3. put' \in [Pipes -> 0..NIterations] /\ i' \in [Procs -> 0..NIterations]
      BY <1>3, <2>1, <3>2 DEF PipesInv, Typing
    <3> QED
      BY <1>1, <1>3, <3>1, <3>3 DEF PipesInv, Typing
  <2>7. HoldsEnds'
    <3>1. x' = x /\ fds' = fds /\ pc'[parent] = pc[parent]
      BY <1>1, <1>3, <2>2, <2>3, Numbering
    <3> QED
      BY <1>1, <2>2, <3>1, Numbering DEF PipesInv, HoldsEnds, End
  <2>8. t <= x /\ (t = x => pc[parent] \notin {"pipe", "pipe2", "fork"})
    <3>1. pc[t] # "unborn"
      BY <1>1
    <3>2. ~(t > x)
      BY <3>1 DEF PipesInv, NotYet, Untouched
    <3>3. t = x => pc[parent] \notin {"pipe", "pipe2", "fork"}
      BY <3>1 DEF PipesInv, NotYet, Untouched
    <3> QED
      BY <2>3, <3>2, <3>3
  <2>9. NotYet'
    <3>1. \A u \in Trials : u > x => u # t
      BY <2>3, <2>8
    <3>2. \A u \in Trials : u # t => pc'[u] = pc[u]
      BY <2>2, Numbering
    <3>3. pc'[parent] = pc[parent]
      BY <2>2, <2>3, Numbering
    <3> QED
      BY <1>1, <2>4, <2>8, <3>1, <3>2, <3>3 DEF PipesInv, NotYet, Untouched
  <2>10. ParentCounts'
    <3>1. pc'[parent] = pc[parent] /\ x' = x /\ got' = got
      BY <1>1, <2>2, <2>3, Numbering
    <3>2. CASE t = x
      <4>1. pc[parent] # "write" /\ pc[parent] # "end"
        BY <2>3, <2>5, <3>2, Numbering DEF PipesInv, ParentCounts
      <4>2. pc[parent] = "read" => i[parent] = i[t]
        <5>1. i[parent] \in Nat
          BY Numbering DEF PipesInv, Typing
        <5> QED
          BY <2>3, <2>5, <3>2, <5>1 DEF PipesInv, ParentCounts
      <4> QED
        BY <2>3, <2>4, <2>5, <3>1, <3>2, <4>1, <4>2 DEF PipesInv, ParentCounts
    <3>3. CASE t # x
      BY <2>3, <2>4, <3>1, <3>3 DEF PipesInv, ParentCounts
    <3> QED
      BY <3>2, <3>3
  <2>11. ChildCounts'
    <3> SUFFICES ASSUME NEW u \in Trials PROVE ChildCount(u)'
      BY DEF ChildCounts
    <3>1. CASE u = t
      <4>1. got[Fd2(t)] \in Nat
        BY PipeNames DEF PipesInv, Typing
      <4>2. pc'[t] = "end" \/ (pc'[t] = "read" /\ i[t] + 1 # NIterations)
        BY <2>1, <2>2, <2>3
      <4> QED
        BY <1>1, <2>3, <2>4, <2>5, <3>1, <4>1, <4>2, Numbering DEF ChildCount
    <3>2. CASE u # t
      <4>1. pc'[u] = pc[u]
        BY <2>2, <3>2, Numbering
      <4> QED
        BY <1>1, <2>4, <3>2, <4>1 DEF PipesInv, ChildCounts, ChildCount
    <3> QED
      BY <3>1, <3>2
  <2>12. Stored'
    BY <1>1, <2>2, <2>3, Numbering DEF PipesInv, Stored
  <2>13. put[Fd2(t)] < put[Fd(t)]
    BY <2>3, <2>5
  <2> QED
    BY <1>3, <2>1, <2>13, <2>6, <2>7, <2>9, <2>10, <2>11, <2>12 DEF PipesInv
<1> QED
  BY <1>2, <1>3 DEF Write

\* A read takes one of the bytes that are there.  It cannot return 0: whoever is
\* to read holds a write end.
LEMMA ParentReadInv ==
    ASSUME PipesInv, Read(parent)
    PROVE  PipesInv' /\ UNCHANGED <<x, put>>
<1>1. UNCHANGED <<x, fds, put, recorded, failures>> /\ pc[parent] = "read"
  BY DEF Read
<1>2. /\ x \in Trials /\ x \in Nat /\ Fd2(x) \in Pipes /\ x \in Procs /\ x # parent
      /\ InPipe(parent) = Fd2(x)
  <2>1. x \in Trials
    BY DEF PipesInv, Typing
  <2> QED
    BY <2>1, TrialNumber, PipeNames, Numbering DEF InPipe, Fd2
<1>3. put[Fd2(x)] # got[Fd2(x)] /\ got' = [got EXCEPT ![Fd2(x)] = @ + 1]
  <2>1. End(x, 2, "write") \in fds[parent]
    BY <1>1 DEF PipesInv, HoldsEnds
  <2>2. Open(<<Fd2(x), "write">>)
    BY <2>1, Numbering DEF Open, End, Fd2
  <2> QED
    BY <1>2, <2>2 DEF Read, Empty
<1>4. /\ i[parent] < NIterations /\ put[Fd(x)] = i[parent] + 1 /\ got[Fd2(x)] = i[parent]
      /\ put[Fd2(x)] = i[parent] + 1 /\ i[parent] \in Nat
  BY <1>1, <1>3, Numbering DEF PipesInv, ParentCounts, Typing
<1>5. /\ i' = [i EXCEPT ![parent] = @ + 1] /\ Goto(parent, AfterRead(parent))
      /\ AfterRead(parent) = IF i[parent] + 1 = NIterations THEN "end" ELSE "write"
  BY DEF Read, AfterRead
<1>6. \A q \in Procs : pc'[q] = IF q = parent THEN AfterRead(parent) ELSE pc[q]
  BY <1>5 DEF Goto, PipesInv, Typing
<1>7. /\ got'[Fd2(x)] = got[Fd2(x)] + 1 /\ i'[parent] = i[parent] + 1
      /\ \A t \in Trials : got'[Fd(t)] = got[Fd(t)] /\ i'[t] = i[t]
      /\ \A t \in Trials : t # x => got'[Fd2(t)] = got[Fd2(t)]
  BY <1>2, <1>3, <1>5, PipeNames, Numbering DEF PipesInv, Typing
<1>8. Typing'
  <2>1. pc' \in [Procs -> PCs]
    BY <1>5 DEF Goto, PipesInv, Typing, PCs
  <2>2. got[Fd2(x)] + 1 \in 0..NIterations /\ i[parent] + 1 \in 0..NIterations
    BY <1>4, Numbering
  <2>3. got' \in [Pipes -> 0..NIterations] /\ i' \in [Procs -> 0..NIterations]
    BY <1>3, <1>5, <2>2 DEF PipesInv, Typing
  <2> QED
    BY <1>1, <2>1, <2>3 DEF PipesInv, Typing
<1>9. HoldsEnds'
  <2>1. x' = x /\ fds' = fds
    BY <1>1
  <2> QED
    BY <1>1, <1>5, <1>6, <2>1, Numbering DEF PipesInv, HoldsEnds, End
<1>10. NotYet'
  <2>1. \A t \in Trials : t > x => t # x
    BY <1>2
  <2>2. pc'[parent] \notin {"pipe", "pipe2", "fork"}
    BY <1>5, <1>6, Numbering
  <2> QED
    BY <1>1, <1>6, <1>7, <2>1, <2>2, Numbering DEF PipesInv, NotYet, Untouched
<1>11. ParentCounts'
  <2>1. pc'[parent] = IF i[parent] + 1 = NIterations THEN "end" ELSE "write"
    BY <1>5, <1>6, Numbering
  <2> QED
    BY <1>1, <1>4, <1>7, <2>1, Numbering DEF ParentCounts
<1>12. ChildCounts'
  <2> SUFFICES ASSUME NEW t \in Trials PROVE ChildCount(t)'
    BY DEF ChildCounts
  <2>1. pc'[t] = pc[t]
    BY <1>6, Numbering
  <2>2. CASE t = x
    BY <1>1, <1>2, <1>4, <1>7, <2>1, <2>2 DEF PipesInv, ChildCounts, ChildCount
  <2>3. CASE t # x
    BY <1>1, <1>7, <2>1, <2>3 DEF PipesInv, ChildCounts, ChildCount
  <2> QED
    BY <2>2, <2>3
<1>13. Stored'
  <2>1. \A t \in recorded : t < x /\ t # x /\ got[Fd2(t)] = NIterations /\ t \in Trials
    BY <1>1, <1>2, TrialNumber DEF PipesInv, Stored, Typing
  <2> QED
    BY <1>1, <1>7, <2>1 DEF Stored
<1> QED
  BY <1>1, <1>8, <1>9, <1>10, <1>11, <1>12, <1>13 DEF PipesInv

LEMMA ChildReadInv ==
    ASSUME PipesInv, NEW t \in Trials, Read(t)
    PROVE  PipesInv' /\ UNCHANGED <<x, put>>
<1>1. UNCHANGED <<x, fds, put, recorded, failures>> /\ pc[t] = "read"
  BY DEF Read
<1>2. /\ x \in Trials /\ x \in Nat /\ t \in Nat /\ Fd(t) \in Pipes /\ t \in Procs
      /\ t # parent /\ InPipe(t) = Fd(t)
  BY TrialNumber, PipeNames, Numbering DEF InPipe, Fd, PipesInv, Typing
<1>3. put[Fd(t)] # got[Fd(t)] /\ got' = [got EXCEPT ![Fd(t)] = @ + 1]
  <2>1. End(t, 1, "write") \in fds[t]
    BY <1>1 DEF PipesInv, HoldsEnds
  <2>2. Open(<<Fd(t), "write">>)
    BY <1>2, <2>1 DEF Open, End, Fd
  <2> QED
    BY <1>2, <2>2 DEF Read, Empty
<1>4. /\ i[t] < NIterations /\ got[Fd(t)] = i[t] /\ put[Fd2(t)] = i[t]
      /\ put[Fd(t)] = i[t] + 1 /\ got[Fd2(t)] <= put[Fd2(t)] /\ i[t] \in Nat
      /\ got[Fd2(t)] \in Nat
  BY <1>1, <1>2, <1>3, PipeNames DEF PipesInv, ChildCounts, ChildCount, Typing
<1>5. i' = i /\ Goto(t, "write")
  BY <1>2 DEF Read, AfterRead
<1>6. \A q \in Procs : pc'[q] = IF q = t THEN "write" ELSE pc[q]
  BY <1>5 DEF Goto, PipesInv, Typing
<1>7. /\ got'[Fd(t)] = got[Fd(t)] + 1
      /\ \A u \in Trials : got'[Fd2(u)] = got[Fd2(u)]
      /\ \A u \in Trials : u # t => got'[Fd(u)] = got[Fd(u)]
  BY <1>2, <1>3, PipeNames DEF PipesInv, Typing
<1>8. Typing'
  <2>1. pc' \in [Procs -> PCs]
    BY <1>5 DEF Goto, PipesInv, Typing, PCs
  <2>2. got[Fd(t)] + 1 \in 0..NIterations
    BY <1>4, Numbering
  <2>3. got' \in [Pipes -> 0..NIterations]
    BY <1>3, <2>2 DEF PipesInv, Typing
  <2> QED
    BY <1>1, <1>5, <2>1, <2>3 DEF PipesInv, Typing
<1>9. pc'[parent] = pc[parent] /\ x' = x
  BY <1>1, <1>2, <1>6, Numbering
<1>10. HoldsEnds'
  BY <1>1, <1>6, <1>9, Numbering DEF PipesInv, HoldsEnds, End
<1>11. NotYet'
  <2>1. \A u \in Trials : (u > x \/ (u = x /\ pc[parent] \in {"pipe", "pipe2", "fork"})) => u # t
    BY <1>1 DEF PipesInv, NotYet, Untouched
  <2> QED
    BY <1>1, <1>5, <1>6, <1>7, <1>9, <2>1, Numbering DEF PipesInv, NotYet, Untouched
<1>12. ParentCounts'
  BY <1>1, <1>2, <1>5, <1>7, <1>9 DEF PipesInv, ParentCounts
<1>13. ChildCounts'
  <2> SUFFICES ASSUME NEW u \in Trials PROVE ChildCount(u)'
    BY DEF ChildCounts
  <2>1. CASE u = t
    BY <1>1, <1>2, <1>4, <1>5, <1>6, <1>7, <2>1 DEF ChildCount
  <2>2. CASE u # t
    BY <1>1, <1>5, <1>6, <1>7, <2>2, Numbering DEF PipesInv, ChildCounts, ChildCount
  <2> QED
    BY <2>1, <2>2
<1>14. Stored'
  BY <1>1, <1>7, <1>9 DEF PipesInv, Stored, Typing
<1> QED
  BY <1>1, <1>8, <1>10, <1>11, <1>12, <1>13, <1>14 DEF PipesInv

\* The end of a trial, or of the run.
LEMMA TrialEndInv ==
    ASSUME PipesInv, TrialEnd
    PROVE  /\ PipesInv' /\ put' = put
           /\ \/ x' = x
              \/ /\ x < NTrials /\ x' = x + 1
                 /\ put[Fd2(x)] = NIterations /\ put[Fd(x')] = 0 /\ put[Fd2(x')] = 0
<1>1. UNCHANGED <<put, got, failures>> /\ pc[parent] = "end" /\ recorded' = recorded \union {x}
  BY DEF TrialEnd
<1>2. x \in Trials /\ x \in Nat /\ x <= NTrials /\ NTrials \in Nat
  <2>1. x \in Trials
    BY DEF PipesInv, Typing
  <2> QED
    BY <2>1, TrialNumber, NTrialsAssumption
<1>3. /\ got[Fd2(x)] = NIterations /\ put[Fd2(x)] = NIterations
      /\ \A t \in recorded : t < x /\ got[Fd2(t)] = NIterations
  <2>1. got[Fd2(x)] = NIterations /\ put[Fd2(x)] = NIterations
    BY <1>1 DEF PipesInv, ParentCounts
  <2>2. \A t \in recorded : t < x /\ got[Fd2(t)] = NIterations
    BY <1>1 DEF PipesInv, Stored
  <2> QED
    BY <2>1, <2>2
<1>4. CASE x < NTrials
  <2>1. /\ x' = x + 1 /\ i' = [i EXCEPT ![parent] = 0] /\ Goto(parent, "pipe")
        /\ fds' = [fds EXCEPT ![parent] = @ \ {End(x, 1, "write"), End(x, 2, "read")}]
    BY <1>4 DEF TrialEnd
  <2>2. /\ \A q \in Procs : pc'[q] = IF q = parent THEN "pipe" ELSE pc[q]
        /\ \A t \in Trials : i'[t] = i[t] /\ fds'[t] = fds[t]
        /\ i'[parent] = 0
    BY <2>1, Numbering DEF Goto, PipesInv, Typing
  <2>3. x' \in Trials /\ x < x'
    BY <1>2, <1>4, <2>1 DEF Trials
  <2>4. Typing'
    <3>1. pc' \in [Procs -> PCs]
      BY <2>1 DEF Goto, PipesInv, Typing, PCs
    <3>2. i' \in [Procs -> 0..NIterations]
      <4>1. 0 \in 0..NIterations
        BY Numbering
      <4> QED
        BY <2>1, <4>1 DEF PipesInv, Typing
    <3>3. fds' \in [Procs -> SUBSET Ends]
      BY <2>1 DEF PipesInv, Typing
    <3>4. recorded' \subseteq Trials
      BY <1>1, <1>2 DEF PipesInv, Typing
    <3> QED
      BY <1>1, <2>3, <3>1, <3>2, <3>3, <3>4 DEF PipesInv, Typing
  <2>5. HoldsEnds'
    BY <2>2, Numbering DEF PipesInv, HoldsEnds, End
  <2>6. \A t \in Trials : (t > x' \/ t = x') => t > x
    BY <1>2, <2>1, TrialNumber
  <2>7. NotYet'
    BY <1>1, <2>2, <2>6, Numbering DEF PipesInv, NotYet, Untouched
  <2>8. ParentCounts'
    BY <2>2, Numbering DEF ParentCounts
  <2>9. ChildCounts'
    BY <1>1, <2>2, Numbering DEF PipesInv, ChildCounts, ChildCount
  <2>10. Stored'
    <3>1. \A t \in recorded' : t < x'
      BY <1>1, <1>2, <1>3, <2>1, TrialNumber DEF PipesInv, Typing
    <3> QED
      BY <1>1, <1>3, <3>1 DEF Stored
  <2>11. put[Fd(x')] = 0 /\ put[Fd2(x')] = 0
    BY <2>3, <2>6 DEF PipesInv, NotYet, Untouched
  <2> QED
    BY <1>1, <1>3, <1>4, <2>1, <2>4, <2>5, <2>7, <2>8, <2>9, <2>10, <2>11 DEF PipesInv
<1>5. CASE ~(x < NTrials)
  <2>1. Leave(parent, "done") /\ UNCHANGED <<x, i>>
    BY <1>5 DEF TrialEnd
  <2>2. pc[parent] \notin Gone /\ parent \in Procs
    BY <1>1, Numbering DEF Gone
  <2>3. recorded' \subseteq Trials /\ failures' \in 0..MaxFailures
    BY <1>1, <1>2 DEF PipesInv, Typing
  <2>4. \A t \in recorded' : t \in recorded \/ (t = x /\ got[Fd2(t)] = NIterations)
    BY <1>1, <1>3
  <2>5. PipesInv'
    BY <1>1, <2>1, <2>2, <2>3, <2>4, LeaveInv
  <2> QED
    BY <1>1, <2>1, <2>5
<1> QED
  BY <1>4, <1>5

LEMMA StutterInv ==
    ASSUME PipesInv, UNCHANGED vars
    PROVE  PipesInv'
<1>1. UNCHANGED <<pc, x, i, fds, put, got, recorded, failures>>
  BY DEF vars
<1>2. Typing' /\ HoldsEnds' /\ Stored'
  BY <1>1 DEF PipesInv, Typing, HoldsEnds, End, Stored
<1>3. NotYet' /\ ParentCounts'
  BY <1>1 DEF PipesInv, NotYet, Untouched, ParentCounts
<1>4. ChildCounts'
  BY <1>1 DEF PipesInv, ChildCounts, ChildCount
<1> QED
  BY <1>2, <1>3, <1>4 DEF PipesInv

\* A step of PingPong with the values that PipesCon gives to its variables.
Turn == [Exchange!Next]_(Exchange!vars)

\* The invariant holds after every step, and the step is one of PingPong's or
\* none that PingPong sees.
LEMMA NextInv ==
    ASSUME PipesInv, [Next]_vars
    PROVE  PipesInv' /\ Turn
<1> DEFINE Same == x' = x /\ put'[Fd(x)] = put[Fd(x)] /\ put'[Fd2(x)] = put[Fd2(x)]
<1>1. x \in Trials
  BY DEF PipesInv, Typing
<1>2. Same => Turn
  BY DEF Turn, Exchange!vars, Fd, Fd2
<1>3. CASE Pipe \/ Pipe2
  BY <1>2, <1>3, OpenPipeInv DEF Pipe, Pipe2, OpenPipe
<1>4. CASE Fork
  BY <1>2, <1>4, ForkInv DEF Fork
<1>5. CASE Write(parent)
  <2>1. PipesInv' /\ x' = x
    BY <1>5, ParentWriteInv DEF Write
  <2>2. CASE put' = put
    BY <1>2, <2>1, <2>2
  <2>3. CASE /\ put[Fd(x)] < NIterations /\ put[Fd(x)] = put[Fd2(x)]
             /\ put' = [put EXCEPT ![Fd(x)] = @ + 1]
    <3>1. put'[Fd(x)] = put[Fd(x)] + 1 /\ put'[Fd2(x)] = put[Fd2(x)]
      BY <1>1, <2>3, PipeNames DEF PipesInv, Typing
    <3>2. Exchange!Ping
      BY <2>1, <2>3, <3>1 DEF Exchange!Ping, Fd, Fd2
    <3> QED
      BY <2>1, <3>2 DEF Turn, Exchange!Next
  <2> QED
    BY <1>5, <2>2, <2>3, ParentWriteInv
<1>6. CASE Read(parent)
  BY <1>2, <1>6, ParentReadInv
<1>7. CASE TrialEnd
  <2>1. PipesInv' /\ put' = put
    BY <1>7, TrialEndInv
  <2>2. CASE x' = x
    BY <1>2, <2>1, <2>2
  <2>3. CASE /\ x < NTrials /\ x' = x + 1
             /\ put[Fd2(x)] = NIterations /\ put[Fd(x')] = 0 /\ put[Fd2(x')] = 0
    <3>1. Exchange!NextRound
      BY <2>1, <2>3 DEF Exchange!NextRound, Fd, Fd2
    <3> QED
      BY <2>1, <3>1 DEF Turn, Exchange!Next
  <2> QED
    BY <1>7, <2>2, <2>3, TrialEndInv
<1>8. ASSUME NEW t \in Trials, Read(t)
      PROVE  PipesInv' /\ Turn
  BY <1>2, <1>8, ChildReadInv
<1>9. ASSUME NEW t \in Trials, Write(t)
      PROVE  PipesInv' /\ Turn
  <2>1. PipesInv' /\ x' = x
    BY <1>9, ChildWriteInv DEF Write
  <2>2. CASE put' = put
    BY <1>2, <2>1, <2>2
  <2>3. CASE t # x /\ put' = [put EXCEPT ![Fd2(t)] = @ + 1]
    <3>1. put'[Fd(x)] = put[Fd(x)] /\ put'[Fd2(x)] = put[Fd2(x)]
      BY <1>1, <2>3, PipeNames DEF PipesInv, Typing
    <3> QED
      BY <1>2, <2>1, <3>1
  <2>4. CASE /\ t = x /\ put[Fd2(x)] < put[Fd(x)]
             /\ put' = [put EXCEPT ![Fd2(x)] = @ + 1]
    <3>1. put'[Fd(x)] = put[Fd(x)] /\ put'[Fd2(x)] = put[Fd2(x)] + 1
      BY <1>1, <2>4, PipeNames DEF PipesInv, Typing
    <3>2. Exchange!Pong
      BY <2>1, <2>4, <3>1 DEF Exchange!Pong, Fd, Fd2
    <3> QED
      BY <2>1, <3>2 DEF Turn, Exchange!Next
  <2> QED
    BY <1>9, <2>2, <2>3, <2>4, ChildWriteInv
<1>10. ASSUME NEW t \in Trials, ChildEnd(t)
       PROVE  PipesInv' /\ Turn
  <2>1. Leave(t, "exited") /\ UNCHANGED <<x, i, put, got, recorded, failures>> /\ pc[t] \notin Gone
    BY <1>10 DEF ChildEnd, Gone
  <2> QED
    BY <1>2, <2>1, LeaveInv, Numbering DEF PipesInv, Typing
<1>11. ASSUME NEW p \in Procs, Fail(p)
       PROVE  PipesInv' /\ Turn
  <2>1. Leave(p, "exited") /\ UNCHANGED <<x, i, put, got, recorded>> /\ pc[p] \notin Gone
    BY <1>11 DEF Fail, Gone
  <2>2. failures' \in 0..MaxFailures
    BY <1>11, MaxFailuresAssumption DEF Fail, PipesInv, Typing
  <2> QED
    BY <1>2, <2>1, <2>2, LeaveInv DEF PipesInv, Typing
<1>12. CASE UNCHANGED vars
  BY <1>2, <1>12, StutterInv DEF vars
<1> QED
  BY <1>3, <1>4, <1>5, <1>6, <1>7, <1>8, <1>9, <1>10, <1>11, <1>12
  DEF Next, ParentStep, ChildStep, Terminated

-----------------------------------------------------------------------------
\* No byte is read that nobody wrote.
Drawn == \A k \in Pipes : got[k] <= put[k]

LEMMA DrawnInv == PipesInv /\ Drawn /\ [Next]_vars => Drawn'
<1> SUFFICES ASSUME PipesInv, Drawn, [Next]_vars, NEW k \in Pipes PROVE got'[k] <= put'[k]
  BY DEF Drawn
<1>1. /\ got[k] \in Nat /\ put[k] \in Nat /\ got[k] <= put[k]
      /\ \A q \in Procs : InPipe(q) \in Pipes /\ OutPipe(q) \in Pipes
  BY Numbering DEF PipesInv, Typing, Drawn, InPipe, OutPipe, Pipes
<1>2. ASSUME NEW p \in Procs, Write(p) PROVE got'[k] <= put'[k]
  <2>1. got' = got
    BY <1>2 DEF Write
  <2>2. put' = put \/ put' = [put EXCEPT ![OutPipe(p)] = @ + 1]
    BY <1>2 DEF Write
  <2>3. put'[k] = put[k] \/ put'[k] = put[k] + 1
    BY <2>2, <1>1 DEF PipesInv, Typing
  <2> QED
    BY <1>1, <2>1, <2>3
<1>3. ASSUME NEW p \in Procs, Read(p) PROVE got'[k] <= put'[k]
  <2>1. put' = put
    BY <1>3 DEF Read
  <2>2. CASE got' = got
    BY <1>1, <2>1, <2>2
  <2>3. CASE ~Empty(InPipe(p)) /\ got' = [got EXCEPT ![InPipe(p)] = @ + 1]
    <3>1. got'[k] = IF k = InPipe(p) THEN got[k] + 1 ELSE got[k]
      BY <2>3, <1>1 DEF PipesInv, Typing
    <3>2. k = InPipe(p) => put[k] # got[k]
      BY <2>3 DEF Empty
    <3> QED
      BY <1>1, <2>1, <3>1, <3>2
  <2> QED
    BY <1>3, <2>2, <2>3 DEF Read
<1>4. CASE put' = put /\ got' = got
  BY <1>1, <1>4
<1>5. CASE Pipe \/ Pipe2 \/ Fork \/ TrialEnd \/ UNCHANGED vars
  BY <1>4, <1>5 DEF Pipe, Pipe2, OpenPipe, Fork, TrialEnd, vars
<1>6. ASSUME NEW t \in Trials, ChildEnd(t) PROVE got'[k] <= put'[k]
  BY <1>4, <1>6 DEF ChildEnd
<1>7. ASSUME NEW p \in Procs, Fail(p) PROVE got'[k] <= put'[k]
  BY <1>4, <1>7 DEF Fail
<1> QED
  BY <1>2, <1>3, <1>5, <1>6, <1>7, Numbering DEF Next, ParentStep, ChildStep, Terminated

\* The table of descriptors.
Fits(ends) == IsFiniteSet(ends) /\ Cardinality(ends) <= MaxFds

Table == \A p \in Procs : Fits(fds[p])

LEMMA NoEnds == Fits({})
BY FS_EmptySet, MaxFdsAssumption DEF Fits

LEMMA FewerEnds ==
    ASSUME NEW ends, Fits(ends), NEW closed
    PROVE  Fits(ends \ closed)
<1>1. /\ IsFiniteSet(ends \ closed)
      /\ Cardinality(ends \ closed) <= Cardinality(ends)
  BY FS_Subset DEF Fits
<1> QED
  BY <1>1, FS_CardinalityType, MaxFdsAssumption DEF Fits

LEMMA TwoMoreEnds ==
    ASSUME NEW ends, Fits(ends), Cardinality(ends) + 2 <= MaxFds, NEW e, NEW f
    PROVE  Fits(ends \union {e, f})
<1>1. IsFiniteSet(ends) /\ Cardinality(ends) \in Nat
  BY FS_CardinalityType DEF Fits
<1>2. IsFiniteSet(ends \union {e}) /\ Cardinality(ends \union {e}) <= Cardinality(ends) + 1
  BY <1>1, FS_AddElement
<1>3. Cardinality(ends \union {e}) \in Nat
  BY <1>2, FS_CardinalityType
<1>4. /\ IsFiniteSet((ends \union {e}) \union {f})
      /\ Cardinality((ends \union {e}) \union {f}) <= Cardinality(ends \union {e}) + 1
  BY <1>2, <1>3, FS_AddElement
<1>5. Cardinality((ends \union {e}) \union {f}) \in Nat
  BY <1>4, FS_CardinalityType
<1>6. (ends \union {e}) \union {f} = ends \union {e, f}
  OBVIOUS
<1>7. Cardinality((ends \union {e}) \union {f}) <= MaxFds
  BY <1>1, <1>2, <1>3, <1>4, <1>5, MaxFdsAssumption
<1> QED
  BY <1>4, <1>6, <1>7 DEF Fits

LEMMA TableInv == PipesInv /\ Table /\ [Next]_vars => Table'
<1> SUFFICES ASSUME PipesInv, Table, [Next]_vars, NEW q \in Procs PROVE Fits(fds'[q])
  BY DEF Table
<1>1. \A p \in Procs : Fits(fds[p])
  BY DEF Table
<1>2. ASSUME NEW p \in Procs, NEW label, Leave(p, label) PROVE Fits(fds'[q])
  <2>1. fds'[q] = IF q = p THEN {} ELSE fds[q]
    BY <1>2 DEF Leave, PipesInv, Typing
  <2> QED
    BY <1>1, <2>1, NoEnds
<1>3. CASE fds' = fds
  BY <1>1, <1>3
<1>4. ASSUME NEW k, NEW here, NEW next, OpenPipe(k, here, next) PROVE Fits(fds'[q])
  <2>1. CASE Leave(parent, "exited")
    BY <1>2, <2>1, Numbering
  <2>2. CASE /\ Cardinality(fds[parent]) + 2 <= MaxFds
             /\ fds' = [fds EXCEPT ![parent] = @ \union {End(x, k, "read"), End(x, k, "write")}]
    <3>1. fds'[q] = IF q = parent
                    THEN fds[parent] \union {End(x, k, "read"), End(x, k, "write")} ELSE fds[q]
      BY <2>2 DEF PipesInv, Typing
    <3> DEFINE e == End(x, k, "read")
               f == End(x, k, "write")
    <3>2. Fits(fds[parent]) /\ Cardinality(fds[parent]) + 2 <= MaxFds
      BY <1>1, <2>2, Numbering
    <3> HIDE DEF e, f
    <3>3. Fits(fds[parent] \union {e, f})
      BY <3>2, TwoMoreEnds
    <3> QED
      BY <1>1, <3>1, <3>3 DEF e, f
  <2> QED
    BY <1>4, <2>1, <2>2 DEF OpenPipe
<1>5. CASE Fork
  <2>1. fds'[q] = IF q = x THEN fds[parent] ELSE fds[q]
    BY <1>5 DEF Fork, PipesInv, Typing
  <2> QED
    BY <1>1, <2>1, Numbering
<1>6. CASE TrialEnd
  <2>1. CASE Leave(parent, "done")
    BY <1>2, <2>1, Numbering
  <2>2. CASE fds' = [fds EXCEPT ![parent] = @ \ {End(x, 1, "write"), End(x, 2, "read")}]
    <3>1. fds'[q] = IF q = parent
                    THEN fds[parent] \ {End(x, 1, "write"), End(x, 2, "read")} ELSE fds[q]
      BY <2>2 DEF PipesInv, Typing
    <3> QED
      BY <1>1, <3>1, FewerEnds, Numbering
  <2> QED
    BY <1>6, <2>1, <2>2 DEF TrialEnd
<1>7. ASSUME NEW p \in Procs, Read(p) \/ Write(p) PROVE Fits(fds'[q])
  <2>1. fds' = fds \/ Leave(p, "killed")
    BY <1>7 DEF Read, Write
  <2> QED
    BY <1>2, <1>3, <2>1
<1>8. ASSUME NEW t \in Trials, ChildEnd(t) PROVE Fits(fds'[q])
  BY <1>2, <1>8, Numbering DEF ChildEnd
<1>9. ASSUME NEW p \in Procs, Fail(p) PROVE Fits(fds'[q])
  BY <1>2, <1>9 DEF Fail
<1>10. CASE UNCHANGED vars
  BY <1>3, <1>10 DEF vars
<1> QED
  BY <1>4, <1>5, <1>6, <1>7, <1>8, <1>9, <1>10, Numbering
  DEF Next, ParentStep, ChildStep, Pipe, Pipe2, Terminated

\* The state keeps its types: nobody puts or gets more bytes than the loops of
\* pipes_con.c have iterations, no byte is read that nobody wrote, and no process
\* has more pipe ends open than its table holds, whichever calls fail.
THEOREM TypeCorrect == Spec => []TypeOK
<1>1. PipesInv /\ [Next]_vars => PipesInv'
  BY NextInv
<1>2. Init => Drawn /\ Table
  BY NoEnds DEF Init, Drawn, Table
<1>3. PipesInv /\ Drawn /\ Table => TypeOK
  BY DEF PipesInv, Typing, Drawn, Table, Fits, TypeOK
<1> QED
  BY InitInv, <1>1, <1>2, DrawnInv, TableInv, <1>3, PTL DEF Spec

\* A stored duration stands for NIterations round trips that took place, even if
\* calls failed: read() never returns 0, because whoever is to read holds a write
\* end of the pipe itself.
THEOREM CompleteSamples == Spec => []SampleComplete
<1>1. PipesInv /\ [Next]_vars => PipesInv'
  BY NextInv
<1>2. PipesInv => SampleComplete
  BY DEF PipesInv, Stored, SampleComplete, Fd2
<1> QED
  BY InitInv, <1>1, <1>2, PTL DEF Spec

\* PipesCon implements PingPong: main() and the child of its trial take turns
\* strictly, even if calls fail.
THEOREM TurnTaking == Spec => TakeTurns
<1>1. Init => Exchange!Init
  BY InitInv, Numbering DEF Init, Exchange!Init, Pipes
<1>2. PipesInv /\ [Next]_vars => PipesInv'
  BY NextInv
<1>3. PipesInv /\ [Next]_vars => [Exchange!Next]_(Exchange!vars)
  BY NextInv DEF Turn
<1> QED
  BY InitInv, <1>1, <1>2, <1>3, PTL DEF Spec, TakeTurns, Exchange!Spec

-----------------------------------------------------------------------------
(* Progress: every step brings a process nearer to its end, even if calls   *)
(* fail, and unless a call fails somebody can always go on.                 *)

\* The steps of a trial, and how far a process is from the end of its own.
TrialSteps == 2 * NIterations + 4

TripsLeft(p) == 2 * (NIterations - i[p])

Way(p) ==
    CASE pc[p] = "pipe" -> TrialSteps
      [] pc[p] \in {"unborn", "pipe2"} -> TrialSteps - 1
      [] pc[p] = "fork" -> TrialSteps - 2
      [] pc[p] = "write" -> IF p = parent THEN TripsLeft(p) + 1 ELSE TripsLeft(p)
      [] pc[p] = "read" -> IF p = parent THEN TripsLeft(p) ELSE TripsLeft(p) + 1
      [] pc[p] = "end" -> 1
      [] OTHER -> 0

Rank(p) ==
    IF p = parent /\ pc[p] \notin Gone THEN (NTrials - x) * TrialSteps + Way(p) ELSE Way(p)

\* A step brings one process nearer to its end, and none further away.
Forward ==
    /\ \E p \in Procs : Rank(p)' < Rank(p)
    /\ \A p \in Procs : Rank(p)' <= Rank(p)

\* Only a read blocks: on an empty pipe that somebody could still write to.
CanStep(p) ==
    \/ pc[p] \in PCs \ (Gone \union {"read"})
    \/ pc[p] = "read" /\ (~Empty(InPipe(p)) \/ ~Open(<<InPipe(p), "write">>))

NoDeadlock ==
    failures = 0 => (\A p \in Procs : pc[p] \in Gone) \/ \E p \in Procs : CanStep(p)

\* Who can be where.
Places ==
    /\ pc[parent] # "unborn"
    /\ \A t \in Trials : pc[t] \in {"unborn", "read", "write", "end", "exited", "killed"}
    /\ pc[parent] \in {"write", "read", "end"} => pc[x] # "unborn"

\* A process that is to write holds the read end of its pipe itself, so that
\* its write never fails for want of a reader.
HoldsReads ==
    /\ pc[parent] \in {"pipe2", "fork", "write", "read"} => End(x, 1, "read") \in fds[parent]
    /\ pc[parent] = "fork" => End(x, 2, "read") \in fds[parent]
    /\ \A t \in Trials : pc[t] \in {"write", "read"} => End(t, 2, "read") \in fds[t]
    /\ \A p \in Procs : pc[p] # "killed"

\* Unless a call failed, a child leaves after its last answer, main() leaves a
\* trial after that answer, and gives up only for want of descriptors.
Unfailed ==
    failures = 0 =>
        /\ \A t \in Trials :
              pc[t] \in {"end", "exited"} \/ t < x \/ (t = x /\ pc[parent] = "done") =>
                  put[Fd2(t)] = NIterations
        /\ pc[parent] = "exited" => pc[x] = "unborn"

OrderInv == PipesInv /\ Places /\ HoldsReads /\ Unfailed

LEMMA Sizes ==
    /\ TrialSteps \in Nat /\ TrialSteps > 5
    /\ Typing => /\ (NTrials - x) * TrialSteps \in Nat
                 /\ x < NTrials =>
                      (NTrials - (x + 1)) * TrialSteps + TrialSteps = (NTrials - x) * TrialSteps
                 /\ \A p \in Procs : /\ i[p] \in Nat /\ i[p] <= NIterations
                                     /\ TripsLeft(p) \in Nat /\ Way(p) \in Nat /\ Rank(p) \in Nat
<1>1. TrialSteps \in Nat /\ TrialSteps > 5
  BY Numbering DEF TrialSteps
<1> SUFFICES ASSUME Typing
             PROVE  /\ (NTrials - x) * TrialSteps \in Nat
                    /\ x < NTrials =>
                         (NTrials - (x + 1)) * TrialSteps + TrialSteps = (NTrials - x) * TrialSteps
                    /\ \A p \in Procs : /\ i[p] \in Nat /\ i[p] <= NIterations
                                        /\ TripsLeft(p) \in Nat /\ Way(p) \in Nat /\ Rank(p) \in Nat
  BY <1>1
<1>2. (NTrials - x) * TrialSteps \in Nat
  BY <1>1, NTrialsAssumption, NTrials - x \in Nat DEF Typing, Trials
<1>3. (NTrials - (x + 1)) * TrialSteps + TrialSteps = (NTrials - x) * TrialSteps
  <2>1. \A a, b \in Int : (a - 1) * b + b = a * b
    OBVIOUS
  <2>2. NTrials - x \in Int /\ NTrials - (x + 1) = (NTrials - x) - 1
    BY NTrialsAssumption DEF Typing, Trials
  <2> QED
    BY <1>1, <2>1, <2>2
<1>4. ASSUME NEW p \in Procs
      PROVE  i[p] \in Nat /\ i[p] <= NIterations /\ TripsLeft(p) \in Nat
  BY <1>4, Numbering DEF Typing, TripsLeft
<1>5. ASSUME NEW p \in Procs
      PROVE  Way(p) \in Nat
  BY <1>1, <1>4 DEF Way
<1> QED
  BY <1>2, <1>3, <1>4, <1>5 DEF Rank

LEMMA SizesNext == Typing' => \A p \in Procs : Way(p)' \in Nat /\ Rank(p)' \in Nat
<1>1. Typing => \A p \in Procs : Way(p) \in Nat /\ Rank(p) \in Nat
  BY Sizes
<1>2. Typing' => (\A p \in Procs : Way(p) \in Nat /\ Rank(p) \in Nat)'
  BY <1>1, PTL
<1> QED
  BY <1>2

\* Only p moves.
LEMMA MoveIsForward ==
    ASSUME Typing, Typing', NEW p \in Procs, Rank(p)' < Rank(p),
           p = parent \/ x' = x,
           \A q \in Procs : q # p => pc'[q] = pc[q] /\ i'[q] = i[q]
    PROVE  Forward
<1>1. ASSUME NEW q \in Procs, q # p PROVE Rank(q)' = Rank(q)
  BY <1>1 DEF Rank, Way, TripsLeft
<1>2. \A q \in Procs : Rank(q) \in Nat /\ Rank(q)' \in Nat
  BY Sizes, SizesNext
<1>3. ASSUME NEW q \in Procs PROVE Rank(q)' <= Rank(q)
  BY <1>1, <1>2
<1> QED
  BY <1>3 DEF Forward

\* The steps of a trial come one after the other.
LEMMA LessWayLess ==
    ASSUME Typing, Typing', NEW p \in Procs, Way(p)' < Way(p), x' = x,
           pc[p] \notin Gone \/ p # parent,
           \A q \in Procs : q # p => pc'[q] = pc[q] /\ i'[q] = i[q]
    PROVE  Forward
<1>1. /\ (NTrials - x) * TrialSteps \in Nat /\ Way(p) \in Nat /\ Way(p)' \in Nat
  BY Sizes, SizesNext
<1>2. Rank(p) = IF p = parent THEN (NTrials - x) * TrialSteps + Way(p) ELSE Way(p)
  BY DEF Rank
<1>3. Rank(p)' = IF p = parent /\ pc'[p] \notin Gone
                 THEN (NTrials - x) * TrialSteps + Way(p)' ELSE Way(p)'
  BY DEF Rank, TrialSteps
<1> DEFINE before == (NTrials - x) * TrialSteps
<1> HIDE DEF before
<1>4. before \in Nat
  BY <1>1 DEF before
<1>5. Rank(p)' < Rank(p)
  <2>1. Rank(p) = IF p = parent THEN before + Way(p) ELSE Way(p)
    BY <1>2 DEF before
  <2>2. Rank(p)' = IF p = parent /\ pc'[p] \notin Gone THEN before + Way(p)' ELSE Way(p)'
    BY <1>3 DEF before
  <2> QED
    BY <1>1, <1>4, <2>1, <2>2
<1> QED
  BY <1>5, MoveIsForward

\* Leaving is the last step.
LEMMA LeaveIsForward ==
    ASSUME PipesInv, Typing, Typing', NEW p \in Procs, NEW label \in {"exited", "killed", "done"},
           Leave(p, label), UNCHANGED <<x, i>>,
           pc[p] \notin Gone
    PROVE  Forward
<1>1. pc'[p] = label /\ \A q \in Procs : q # p => pc'[q] = pc[q]
  BY DEF Leave, Goto, Typing
<1>2. Way(p)' = 0
  BY <1>1 DEF Way
<1>3. Way(p) > 0 /\ Way(p) \in Nat
  <2>1. TrialSteps \in Nat /\ TrialSteps > 5 /\ pc[p] \in PCs
    BY Sizes DEF Typing
  <2>2. pc[p] \in {"write", "read"} => i[p] < NIterations
    BY Numbering DEF PipesInv, ParentCounts, ChildCounts, ChildCount
  <2>3. pc[p] \in {"write", "read"} => TripsLeft(p) \in Nat /\ TripsLeft(p) > 0
    BY <2>2, Sizes, Numbering DEF TripsLeft
  <2> QED
    BY <2>1, <2>3 DEF Way, Gone, PCs
<1> QED
  BY <1>1, <1>2, <1>3, LessWayLess

\* Every step of pipes_con.c and every failure is one step nearer to the end.
LEMMA StepIsForward ==
    ASSUME PipesInv, Typing', [Next]_vars
    PROVE  [Forward]_vars
<1>0. /\ Typing /\ x \in Trials /\ x \in Procs /\ x # parent /\ parent \in Procs
      /\ NIterations \in Nat /\ NIterations > 0
      /\ TrialSteps \in Nat /\ TrialSteps > 5
  BY Numbering, Sizes DEF PipesInv, Typing
<1>1. ASSUME NEW k, NEW here, NEW next, OpenPipe(k, here, next),
             \/ here = "pipe" /\ next = "pipe2"
             \/ here = "pipe2" /\ next = "fork"
      PROVE  Forward
  <2>1. UNCHANGED <<x, i>> /\ pc[parent] = here /\ pc[parent] \notin Gone
    BY <1>1 DEF OpenPipe, Gone
  <2>2. CASE Goto(parent, next)
    <3>1. pc'[parent] = next /\ \A q \in Procs : q # parent => pc'[q] = pc[q]
      BY <1>0, <2>2 DEF Goto, Typing
    <3>2. Way(parent)' < Way(parent)
      BY <1>0, <1>1, <2>1, <3>1 DEF Way, TrialSteps
    <3> QED
      BY <1>0, <2>1, <3>1, <3>2, LessWayLess
  <2>3. CASE Leave(parent, "exited")
    BY <1>0, <2>1, <2>3, LeaveIsForward
  <2> QED
    BY <1>1, <2>2, <2>3 DEF OpenPipe
<1>2. CASE Fork
  <2>1. /\ UNCHANGED <<x, i>> /\ pc[parent] = "fork" /\ pc[x] = "unborn" /\ i[x] = 0 /\ i[parent] = 0
    BY <1>0, <1>2 DEF Fork, PipesInv, NotYet, Untouched, ParentCounts
  <2>2. /\ pc'[parent] = "write" /\ pc'[x] = "read"
        /\ \A q \in Procs : q # parent /\ q # x => pc'[q] = pc[q]
    BY <1>0, <1>2 DEF Fork, Typing
  <2>3. /\ Way(parent) = TrialSteps - 2 /\ Way(parent)' = 2 * NIterations + 1
        /\ Way(x) = TrialSteps - 1
    BY <1>0, <2>1, <2>2 DEF Way, TripsLeft
  <2>4. ASSUME NEW c \in Trials, c = x PROVE Way(c)' = 2 * NIterations + 1 /\ Rank(c)' < Rank(c)
    <3>1. Way(c)' = 2 * NIterations + 1
      BY <1>0, <2>1, <2>2, <2>4 DEF Way, TripsLeft
    <3>2. Rank(c) = Way(c) /\ Rank(c)' = Way(c)'
      BY <1>0, <2>4 DEF Rank
    <3> QED
      BY <1>0, <2>3, <2>4, <3>1, <3>2 DEF TrialSteps
  <2>5. Rank(parent)' < Rank(parent)
    <3>1. /\ Rank(parent) = (NTrials - x) * TrialSteps + Way(parent)
          /\ Rank(parent)' = (NTrials - x) * TrialSteps + Way(parent)'
      BY <2>1, <2>2 DEF Rank, Gone, TrialSteps
    <3>2. (NTrials - x) * TrialSteps \in Nat
      BY <1>0, Sizes
    <3>3. Way(parent) = 2 * NIterations + 2
      BY <1>0, <2>3 DEF TrialSteps
    <3> QED
      BY <1>0, <2>3, <3>1, <3>2, <3>3
  <2>6. ASSUME NEW q \in Procs, q # parent, q # x PROVE Rank(q)' = Rank(q)
    BY <2>1, <2>2, <2>6 DEF Rank, Way, TripsLeft
  <2>7. \A q \in Procs : Rank(q) \in Nat /\ Rank(q)' \in Nat
    BY <1>0, Sizes, SizesNext
  <2>8. ASSUME NEW q \in Procs PROVE Rank(q)' <= Rank(q)
    <3>1. CASE q = x
      BY <1>0, <2>4, <2>7, <3>1
    <3>2. CASE q # x
      BY <2>5, <2>6, <2>7, <3>2
    <3> QED
      BY <3>1, <3>2
  <2> QED
    BY <1>0, <2>5, <2>8 DEF Forward
<1>3. ASSUME NEW p \in Procs, Write(p) PROVE Forward
  <2>1. x' = x /\ pc[p] = "write" /\ pc[p] \notin Gone
    BY <1>3 DEF Write, Gone
  <2>2. i[p] \in Nat /\ i[p] < NIterations
    BY <1>0, <2>1, Numbering, Sizes DEF PipesInv, ParentCounts, ChildCounts, ChildCount
  <2>3. CASE /\ i' = IF p = parent THEN i ELSE [i EXCEPT ![p] = @ + 1]
             /\ Goto(p, AfterWrite(p))
    <3>1. /\ pc'[p] = AfterWrite(p)
          /\ \A q \in Procs : q # p => pc'[q] = pc[q] /\ i'[q] = i[q]
          /\ i'[p] = IF p = parent THEN i[p] ELSE i[p] + 1
      BY <1>0, <2>3 DEF Goto, Typing
    <3>2. /\ AfterWrite(p) = "end" => i[p] + 1 = NIterations /\ p # parent
          /\ AfterWrite(p) \in {"end", "read"}
      BY DEF AfterWrite
    <3>3. Way(p)' < Way(p)
      BY <1>0, <2>1, <2>2, <3>1, <3>2 DEF Way, TripsLeft
    <3> QED
      BY <1>0, <2>1, <3>1, <3>3, LessWayLess
  <2>4. CASE Leave(p, "killed") /\ UNCHANGED i
    BY <1>0, <2>1, <2>4, LeaveIsForward
  <2> QED
    BY <1>3, <2>3, <2>4 DEF Write
<1>4. ASSUME NEW p \in Procs, Read(p) PROVE Forward
  <2>1. /\ x' = x /\ pc[p] = "read" /\ pc[p] \notin Gone
        /\ i' = IF p = parent THEN [i EXCEPT ![p] = @ + 1] ELSE i
        /\ Goto(p, AfterRead(p))
    BY <1>4 DEF Read, Gone
  <2>2. i[p] \in Nat /\ i[p] < NIterations
    BY <1>0, <2>1, Numbering, Sizes DEF PipesInv, ParentCounts, ChildCounts, ChildCount
  <2>3. /\ pc'[p] = AfterRead(p)
        /\ \A q \in Procs : q # p => pc'[q] = pc[q] /\ i'[q] = i[q]
        /\ i'[p] = IF p = parent THEN i[p] + 1 ELSE i[p]
    BY <1>0, <2>1 DEF Goto, Typing
  <2>4. /\ AfterRead(p) = "end" => i[p] + 1 = NIterations /\ p = parent
        /\ AfterRead(p) \in {"end", "write"}
    BY DEF AfterRead
  <2>5. Way(p)' < Way(p)
    BY <1>0, <2>1, <2>2, <2>3, <2>4 DEF Way, TripsLeft
  <2> QED
    BY <1>0, <2>1, <2>3, <2>5, LessWayLess
<1>5. CASE TrialEnd
  <2>1. pc[parent] = "end" /\ pc[parent] \notin Gone
    BY <1>5 DEF TrialEnd, Gone
  <2>2. CASE x < NTrials
    <3>1. x' = x + 1 /\ i' = [i EXCEPT ![parent] = 0] /\ Goto(parent, "pipe")
      BY <1>5, <2>2 DEF TrialEnd
    <3>2. /\ pc'[parent] = "pipe"
          /\ \A q \in Procs : q # parent => pc'[q] = pc[q] /\ i'[q] = i[q]
      BY <1>0, <3>1 DEF Goto, Typing
    <3>3. /\ Rank(parent) = (NTrials - x) * TrialSteps + 1
          /\ Rank(parent)' = (NTrials - (x + 1)) * TrialSteps + TrialSteps
      BY <2>1, <3>1, <3>2 DEF Rank, Way, Gone, TrialSteps
    <3>4. Rank(parent)' < Rank(parent)
      BY <1>0, <2>2, <3>3, Sizes
    <3> QED
      BY <1>0, <3>2, <3>4, MoveIsForward
  <2>3. CASE ~(x < NTrials)
    BY <1>0, <1>5, <2>1, <2>3, LeaveIsForward DEF TrialEnd
  <2> QED
    BY <2>2, <2>3
<1>6. ASSUME NEW t \in Trials, ChildEnd(t) PROVE Forward
  BY <1>0, <1>6, Numbering, LeaveIsForward DEF ChildEnd, Gone
<1>7. ASSUME NEW p \in Procs, Fail(p) PROVE Forward
  BY <1>0, <1>7, LeaveIsForward DEF Fail, Gone
<1>8. CASE Pipe \/ Pipe2
  BY <1>1, <1>8 DEF Pipe, Pipe2
<1> QED
  BY <1>0, <1>2, <1>3, <1>4, <1>5, <1>6, <1>7, <1>8, Numbering
  DEF Next, ParentStep, ChildStep, Terminated

\* Every step brings main() or a child nearer to its end by the number Rank
\* counts down, and no step sends one back, whichever calls fail: nobody can go
\* round for ever, whatever the numbers of trials and iterations.
THEOREM NoStepBack == Spec => [](\A p \in Procs : Rank(p) \in Nat) /\ [][Forward]_vars
<1>1. PipesInv /\ [Next]_vars => PipesInv' /\ [Forward]_vars
  BY NextInv, StepIsForward DEF PipesInv
<1>2. PipesInv => \A p \in Procs : Rank(p) \in Nat
  BY Sizes DEF PipesInv
<1> QED
  BY InitInv, <1>1, <1>2, PTL DEF Spec

LEMMA OrderInit == Init => OrderInv
<1> SUFFICES ASSUME Init PROVE OrderInv
  OBVIOUS
<1>1. PipesInv
  BY InitInv
<1>2. /\ pc[parent] = "pipe" /\ \A t \in Trials : pc[t] = "unborn"
      /\ x = 1 /\ \A t \in Trials : ~(t < x)
  <2>1. \A t \in Trials : t >= 1 /\ t \in Nat
    BY TrialNumber
  <2> QED
    BY <2>1, Numbering DEF Init
<1>3. Places /\ HoldsReads /\ Unfailed
  BY <1>2, Numbering DEF Places, HoldsReads, Unfailed
<1> QED
  BY <1>1, <1>3 DEF OrderInv

\* Leaving keeps the rest in order: a child leaves after its last answer or by
\* a failure, main() by a failure, too, or with no child of its trial, or last.
LEMMA LeaveOrder ==
    ASSUME OrderInv, PipesInv', NEW p \in Procs, NEW label \in {"exited", "done"},
           Leave(p, label), UNCHANGED <<x, put>>, pc[p] \notin Gone,
           p # parent => label = "exited",
           failures' = 0 =>
               /\ failures = 0
               /\ p # parent => pc[p] = "end"
               /\ p = parent /\ label = "exited" => pc[x] = "unborn"
               /\ p = parent /\ label = "done" => put[Fd2(x)] = NIterations
    PROVE  OrderInv'
<1>1. /\ pc'[p] = label
      /\ \A q \in Procs : q # p => pc'[q] = pc[q] /\ fds'[q] = fds[q]
      /\ x' = x /\ put' = put
  BY DEF Leave, Goto, OrderInv, PipesInv, Typing
<1>2. x \in Trials /\ x \in Procs
  BY Numbering DEF OrderInv, PipesInv, Typing
<1>3. Places'
  BY <1>1, <1>2, Numbering DEF OrderInv, Places, Gone
<1>4. HoldsReads'
  <2>1. \A q \in Procs : pc'[q] \in {"pipe2", "fork", "write", "read"} =>
            pc'[q] = pc[q] /\ fds'[q] = fds[q]
    BY <1>1
  <2>2. \A q \in Procs : pc'[q] # "killed"
    BY <1>1 DEF OrderInv, HoldsReads
  <2> QED
    BY <1>1, <2>1, <2>2, Numbering DEF OrderInv, HoldsReads, End
<1>5. Unfailed'
  <2> SUFFICES ASSUME failures' = 0
               PROVE  /\ \A t \in Trials :
                            \/ pc'[t] \in {"end", "exited"}
                            \/ t < x
                            \/ t = x /\ pc'[parent] = "done"
                            => put[Fd2(t)] = NIterations
                      /\ pc'[parent] = "exited" => pc'[x] = "unborn"
    BY <1>1 DEF Unfailed, Fd2
  <2>1. /\ \A t \in Trials :
              \/ pc[t] \in {"end", "exited"}
              \/ t < x
              \/ t = x /\ pc[parent] = "done"
              => put[Fd2(t)] = NIterations
        /\ pc[parent] = "exited" => pc[x] = "unborn"
    BY DEF OrderInv, Unfailed
  <2>2. CASE p = parent
    BY <1>1, <1>2, <2>1, <2>2, Numbering
  <2>3. CASE p # parent
    <3>1. p \in Trials /\ pc[p] = "end"
      BY <2>3, Numbering
    <3> QED
      BY <1>1, <1>2, <2>1, <2>3, <3>1, Numbering
  <2> QED
    BY <2>2, <2>3
<1> QED
  BY <1>3, <1>4, <1>5 DEF OrderInv

LEMMA OrderStep == OrderInv /\ [Next]_vars => OrderInv'
<1> SUFFICES ASSUME OrderInv, [Next]_vars PROVE OrderInv'
  OBVIOUS
<1>0. /\ PipesInv /\ PipesInv' /\ Typing /\ x \in Trials /\ x \in Procs /\ x # parent
      /\ parent \in Procs /\ Places /\ HoldsReads /\ Unfailed
  BY NextInv, Numbering DEF OrderInv, PipesInv, Typing
<1>1. ASSUME NEW k, NEW here, NEW next, OpenPipe(k, here, next),
             \/ here = "pipe" /\ next = "pipe2" /\ k = 1
             \/ here = "pipe2" /\ next = "fork" /\ k = 2
      PROVE  OrderInv'
  <2>1. /\ UNCHANGED <<x, i, put, failures>> /\ pc[parent] = here /\ pc[parent] \notin Gone
        /\ pc[parent] \in {"pipe", "pipe2"}
    BY <1>1 DEF OpenPipe, Gone
  <2>2. pc[x] = "unborn"
    BY <1>0, <2>1 DEF PipesInv, NotYet, Untouched
  <2>3. CASE /\ fds' = [fds EXCEPT ![parent] = @ \union {End(x, k, "read"), End(x, k, "write")}]
             /\ Goto(parent, next)
    <3>1. /\ pc'[parent] = next /\ \A q \in Procs : q # parent => pc'[q] = pc[q] /\ fds'[q] = fds[q]
          /\ fds'[parent] = fds[parent] \union {End(x, k, "read"), End(x, k, "write")}
          /\ x' = x /\ put' = put /\ failures' = failures
      BY <1>0, <2>1, <2>3 DEF Goto, Typing
    <3>2. next \in {"pipe2", "fork"}
      BY <1>1
    <3>3. Places'
      BY <1>0, <3>1, <3>2, Numbering DEF Places
    <3>4. HoldsReads'
      <4>1. \A t \in Trials : pc'[t] = pc[t] /\ fds'[t] = fds[t]
        BY <3>1, Numbering
      <4>2. /\ End(x, 1, "read") \in fds'[parent]
            /\ next = "fork" => End(x, 2, "read") \in fds'[parent]
        BY <1>0, <1>1, <2>1, <3>1 DEF HoldsReads
      <4>3. \A q \in Procs : pc'[q] # "killed"
        BY <1>0, <3>1, <3>2 DEF HoldsReads
      <4> QED
        BY <1>0, <3>1, <3>2, <4>1, <4>2, <4>3 DEF HoldsReads, End
    <3>5. Unfailed'
      BY <1>0, <2>2, <3>1, <3>2, Numbering DEF Unfailed, Fd2
    <3> QED
      BY <1>0, <3>3, <3>4, <3>5 DEF OrderInv
  <2>4. CASE Leave(parent, "exited")
    BY <1>0, <2>1, <2>2, <2>4, LeaveOrder
  <2> QED
    BY <1>1, <2>3, <2>4 DEF OpenPipe
<1>2. CASE Fork
  <2>1. /\ x' = x /\ put' = put /\ failures' = failures /\ pc[parent] = "fork" /\ pc[x] = "unborn"
    BY <1>0, <1>2 DEF Fork, PipesInv, NotYet, Untouched
  <2>2. /\ pc'[parent] = "write" /\ pc'[x] = "read"
        /\ \A q \in Procs : q # parent /\ q # x => pc'[q] = pc[q]
        /\ fds'[x] = fds[parent] /\ \A q \in Procs : q # x => fds'[q] = fds[q]
    BY <1>0, <1>2 DEF Fork, Typing
  <2>3. Places'
    BY <1>0, <2>1, <2>2, Numbering DEF Places
  <2>4. HoldsReads'
    <3>1. End(x, 1, "read") \in fds[parent] /\ End(x, 2, "read") \in fds[parent]
      BY <1>0, <2>1 DEF HoldsReads
    <3>2. \A t \in Trials : pc'[t] \in {"write", "read"} => End(t, 2, "read") \in fds'[t]
      BY <1>0, <2>2, <3>1, Numbering DEF HoldsReads
    <3>3. \A q \in Procs : pc'[q] # "killed"
      BY <1>0, <2>2 DEF HoldsReads
    <3> QED
      BY <1>0, <2>1, <2>2, <3>1, <3>2, <3>3 DEF HoldsReads, End
  <2>5. Unfailed'
    BY <1>0, <2>1, <2>2, Numbering DEF Unfailed, Fd2
  <2> QED
    BY <1>0, <2>3, <2>4, <2>5 DEF OrderInv
<1>3. ASSUME NEW p \in Procs, pc[p] \in {"write", "read"}, NEW label \in {"write", "read", "end"},
             Goto(p, label), UNCHANGED <<x, fds, failures>>,
             \A t \in Trials : put[Fd2(t)] = NIterations => put'[Fd2(t)] = NIterations,
             p # parent /\ label = "end" => put'[Fd2(p)] = NIterations,
             p = parent \/ label = "end" \/
                 (p # parent /\ End(p, 2, "read") \in fds[p]),
             p = parent => End(x, 1, "read") \in fds[p]
      PROVE  OrderInv'
  <2>1. /\ pc'[p] = label /\ \A q \in Procs : q # p => pc'[q] = pc[q]
        /\ x' = x /\ fds' = fds /\ failures' = failures
    BY <1>0, <1>3 DEF Goto, Typing
  <2>2. Places'
    <3>1. pc'[parent] \in {"write", "read", "end"} => pc[parent] \in {"write", "read", "end"}
      BY <1>0, <1>3, <2>1
    <3>2. pc'[x] # "unborn" \/ pc[x] = "unborn"
      BY <1>0, <1>3, <2>1
    <3> QED
      BY <1>0, <1>3, <2>1, <3>1, <3>2, Numbering DEF Places
  <2>3. HoldsReads'
    <3>1. \A t \in Trials : pc'[t] \in {"write", "read"} => End(t, 2, "read") \in fds[t]
      BY <1>0, <1>3, <2>1, Numbering DEF HoldsReads
    <3>2. /\ pc'[parent] \in {"pipe2", "fork", "write", "read"} => End(x, 1, "read") \in fds[parent]
          /\ pc'[parent] = "fork" => End(x, 2, "read") \in fds[parent]
      BY <1>0, <1>3, <2>1 DEF HoldsReads
    <3>3. \A q \in Procs : pc'[q] # "killed"
      BY <1>0, <1>3, <2>1 DEF HoldsReads
    <3> QED
      BY <2>1, <3>1, <3>2, <3>3 DEF HoldsReads, End
  <2>4. Unfailed'
    <3>1. pc'[parent] # "exited" \/ pc'[parent] = pc[parent]
      BY <1>0, <1>3, <2>1
    <3>2. pc'[parent] # "done" \/ pc'[parent] = pc[parent]
      BY <1>0, <1>3, <2>1
    <3>3. pc[x] = "unborn" => pc'[x] = "unborn"
      BY <1>0, <1>3, <2>1
    <3>4. \A t \in Trials : pc'[t] \in {"end", "exited"} =>
              pc[t] \in {"end", "exited"} \/ put'[Fd2(t)] = NIterations
      BY <1>3, <2>1, Numbering
    <3> QED
      BY <1>0, <1>3, <2>1, <3>1, <3>2, <3>3, <3>4 DEF Unfailed, Fd2
  <2> QED
    BY <1>0, <2>2, <2>3, <2>4 DEF OrderInv
<1>4. CASE Write(parent)
  <2>1. /\ UNCHANGED <<x, failures>> /\ pc[parent] = "write" /\ AfterWrite(parent) = "read"
        /\ OutPipe(parent) = Fd(x)
    BY <1>4 DEF Write, AfterWrite, OutPipe, Fd
  <2>2. End(x, 1, "read") \in fds[parent]
    BY <1>0, <2>1 DEF HoldsReads
  <2>3. Open(<<OutPipe(parent), "read">>)
    BY <1>0, <2>1, <2>2 DEF Open, End, Fd
  <2>4. /\ put' = [put EXCEPT ![Fd(x)] = @ + 1] /\ Goto(parent, "read") /\ UNCHANGED fds
    BY <1>4, <2>1, <2>3 DEF Write
  <2>5. \A t \in Trials : put'[Fd2(t)] = put[Fd2(t)]
    BY <1>0, <2>4, PipeNames DEF Typing
  <2> QED
    BY <1>0, <1>3, <2>1, <2>2, <2>4, <2>5
<1>5. ASSUME NEW t \in Trials, Write(t) PROVE OrderInv'
  <2>1. /\ UNCHANGED <<x, failures>> /\ pc[t] = "write" /\ t \in Procs /\ t # parent
        /\ OutPipe(t) = Fd2(t)
    BY <1>5, Numbering DEF Write, OutPipe, Fd2
  <2>2. End(t, 2, "read") \in fds[t]
    BY <1>0, <2>1 DEF HoldsReads
  <2>3. Open(<<OutPipe(t), "read">>)
    BY <1>0, <2>1, <2>2 DEF Open, End, Fd2
  <2>4. /\ put' = [put EXCEPT ![Fd2(t)] = @ + 1] /\ Goto(t, AfterWrite(t)) /\ UNCHANGED fds
    BY <1>5, <2>1, <2>3 DEF Write
  <2>5. /\ put[Fd2(t)] = i[t] /\ i[t] < NIterations
    BY <1>0, <2>1 DEF PipesInv, ChildCounts, ChildCount
  <2>6. /\ AfterWrite(t) = "end" => i[t] + 1 = NIterations
        /\ AfterWrite(t) \in {"end", "read"}
    BY DEF AfterWrite
  <2>7. /\ put'[Fd2(t)] = put[Fd2(t)] + 1
        /\ \A u \in Trials : u # t => put'[Fd2(u)] = put[Fd2(u)]
    BY <1>0, <2>4, PipeNames DEF Typing
  <2>8. \A u \in Trials : put[Fd2(u)] = NIterations => put'[Fd2(u)] = NIterations
    BY <2>5, <2>7, Numbering
  <2>9. AfterWrite(t) = "end" => put'[Fd2(t)] = NIterations
    BY <2>5, <2>6, <2>7
  <2> QED
    BY <1>0, <1>3, <2>1, <2>2, <2>4, <2>6, <2>8, <2>9
<1>6. ASSUME NEW p \in Procs, Read(p) PROVE OrderInv'
  <2>1. /\ UNCHANGED <<x, fds, put, failures>> /\ pc[p] = "read" /\ Goto(p, AfterRead(p))
    BY <1>6 DEF Read
  <2>2. /\ AfterRead(p) = "end" => p = parent
        /\ AfterRead(p) \in {"end", "write"}
    BY DEF AfterRead
  <2>3. /\ p = parent => End(x, 1, "read") \in fds[p]
        /\ p # parent => p \in Trials /\ End(p, 2, "read") \in fds[p]
    BY <1>0, <2>1, Numbering DEF HoldsReads
  <2> QED
    BY <1>0, <1>3, <2>1, <2>2, <2>3
<1>7. CASE TrialEnd
  <2>1. /\ pc[parent] = "end" /\ pc[parent] \notin Gone /\ UNCHANGED <<put, failures>>
        /\ put[Fd2(x)] = NIterations
    BY <1>0, <1>7 DEF TrialEnd, Gone, PipesInv, ParentCounts
  <2>2. CASE x < NTrials
    <3>1. /\ x' = x + 1 /\ Goto(parent, "pipe")
          /\ fds' = [fds EXCEPT ![parent] = @ \ {End(x, 1, "write"), End(x, 2, "read")}]
      BY <1>7, <2>2 DEF TrialEnd
    <3>2. /\ pc'[parent] = "pipe" /\ put' = put /\ failures' = failures
          /\ \A q \in Procs : q # parent => pc'[q] = pc[q] /\ fds'[q] = fds[q]
      BY <1>0, <2>1, <3>1 DEF Goto, Typing
    <3>3. Places'
      BY <1>0, <3>2, Numbering DEF Places
    <3>4. HoldsReads'
      BY <1>0, <3>2, Numbering DEF HoldsReads, End
    <3>5. \A t \in Trials : t < x' => t < x \/ t = x
      BY <1>0, <3>1, TrialNumber
    <3>6. Unfailed'
      BY <1>0, <2>1, <3>2, <3>5, Numbering DEF Unfailed, Fd2
    <3> QED
      BY <1>0, <3>3, <3>4, <3>6 DEF OrderInv
  <2>3. CASE ~(x < NTrials)
    BY <1>0, <1>7, <2>1, <2>3, LeaveOrder DEF TrialEnd
  <2> QED
    BY <2>2, <2>3
<1>8. ASSUME NEW t \in Trials, ChildEnd(t) PROVE OrderInv'
  BY <1>0, <1>8, Numbering, LeaveOrder DEF ChildEnd, Gone
<1>9. ASSUME NEW p \in Procs, Fail(p) PROVE OrderInv'
  <2>1. failures' # 0 /\ pc[p] \notin Gone /\ UNCHANGED <<x, put>> /\ Leave(p, "exited")
    BY <1>0, <1>9, MaxFailuresAssumption DEF Fail, Gone, Typing
  <2> QED
    BY <1>0, <2>1, LeaveOrder
<1>10. CASE UNCHANGED vars
  BY <1>0, <1>10 DEF vars, OrderInv, Places, HoldsReads, Unfailed, End, Fd2
<1>11. CASE Pipe \/ Pipe2
  BY <1>1, <1>11 DEF Pipe, Pipe2
<1> QED
  BY <1>2, <1>4, <1>5, <1>6, <1>7, <1>8, <1>9, <1>10, <1>11, Numbering
  DEF Next, ParentStep, ChildStep, Terminated

LEMMA OrderInvariant == Spec => []OrderInv
  BY OrderInit, OrderStep, PTL DEF Spec

\* No write of pipes_con.c ever finds its pipe without a reader, so that SIGPIPE
\* kills nobody, even if calls fail and the other side is gone.
THEOREM NobodyKilled == Spec => [](\A p \in Procs : pc[p] # "killed")
<1>1. OrderInv => \A p \in Procs : pc[p] # "killed"
  BY DEF OrderInv, HoldsReads
<1> QED
  BY <1>1, OrderInvariant, PTL

\* Unless a call fails, somebody can always take a step until all are gone: main()
\* and its child never both wait for a byte.
THEOREM SomebodyGoesOn == Spec => []NoDeadlock
<1>1. OrderInv => NoDeadlock
  <2> SUFFICES ASSUME OrderInv, failures = 0, \A p \in Procs : ~CanStep(p)
               PROVE  \A p \in Procs : pc[p] \in Gone
    BY DEF NoDeadlock
  <2>0. /\ Typing /\ x \in Trials /\ x \in Procs /\ parent \in Procs /\ Places
        /\ NIterations \in Nat
        /\ \A p \in Procs : pc[p] \in PCs
    BY Numbering DEF OrderInv, PipesInv, Typing
  <2>1. \A p \in Procs : pc[p] \in Gone \/ (pc[p] = "read" /\ Empty(InPipe(p)))
    BY <2>0 DEF CanStep
  <2>2. \A t \in Trials : InPipe(t) = Fd(t) /\ t \in Procs
    BY Numbering DEF InPipe, Fd
  <2>3. \A t \in Trials : put[Fd2(t)] = NIterations => pc[t] # "read"
    BY <2>0, <2>2, Sizes DEF OrderInv, PipesInv, ChildCounts, ChildCount
  <2>4. ASSUME pc[parent] = "read" PROVE FALSE
    <3>1. InPipe(parent) = Fd2(x)
      BY DEF InPipe, Fd2
    <3>2. /\ put[Fd2(x)] = got[Fd2(x)] /\ got[Fd2(x)] = i[parent] /\ i[parent] < NIterations
          /\ put[Fd(x)] = i[parent] + 1 /\ i[parent] \in Nat
      BY <2>0, <2>1, <2>4, <3>1 DEF Empty, Gone, OrderInv, PipesInv, ParentCounts, Typing
    <3>3. pc[x] \in {"read", "exited"}
      BY <2>0, <2>1, <2>4 DEF Places, Gone, OrderInv, HoldsReads
    <3>4. pc[x] # "exited"
      BY <2>0, <3>2 DEF OrderInv, Unfailed
    <3>5. pc[x] = "read"
      BY <3>3, <3>4
    <3>6. got[Fd(x)] = i[x] /\ put[Fd2(x)] = i[x]
      BY <2>0, <3>5 DEF OrderInv, PipesInv, ChildCounts, ChildCount
    <3>7. put[Fd(x)] = got[Fd(x)]
      BY <2>0, <2>1, <2>2, <3>5 DEF Empty, Gone
    <3> QED
      BY <3>2, <3>6, <3>7
  <2>5. pc[parent] \in {"exited", "done"}
    BY <2>0, <2>1, <2>4 DEF Gone, Places, OrderInv, HoldsReads
  <2>6. ASSUME NEW t \in Trials PROVE pc[t] # "read"
    <3>1. x \in Nat /\ t \in Nat
      BY <2>0, TrialNumber
    <3>2. CASE t > x
      BY <2>0, <3>2 DEF OrderInv, PipesInv, NotYet, Untouched
    <3>3. CASE t < x
      BY <2>3, <3>3 DEF OrderInv, Unfailed
    <3>4. CASE t = x
      BY <2>3, <2>5, <3>4 DEF OrderInv, Unfailed
    <3> QED
      BY <3>1, <3>2, <3>3, <3>4
  <2> QED
    BY <2>1, <2>4, <2>6, Numbering
<1> QED
  BY <1>1, OrderInvariant, PTL
=============================================================================
