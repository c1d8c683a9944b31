-------------------------- MODULE ContentionProofs --------------------------
(***************************************************************************)
(* Proofs about Contention, for every number of trials, every K of the     *)
(* code, every bound on the failures of fork() and every interleaving.     *)
(***************************************************************************)
EXTENDS Contention, TLAPS, WellFoundedInduction, FiniteSetTheorems

-----------------------------------------------------------------------------
(* The if / else if chains. *)

\* The conditions of the eight-process section, as a set, are all subsets.
LEMMA SubsetsOfThree ==
    ASSUME NEW S \in SUBSET (1..3)
    PROVE  S \in {{}, {1}, {2}, {3}, {2, 3}, {1, 2}, {1, 3}, {1, 2, 3}}
<1>1. 1..3 = {1, 2, 3}
  OBVIOUS
<1> QED
  BY <1>1

\* The same for the sixteen-process section.
LEMMA SubsetsOfFour ==
    ASSUME NEW S \in SUBSET (1..4)
    PROVE  S \in { {}, {1}, {2}, {1, 2}, {3, 4}, {4}, {2, 3, 4}, {2, 3}, {2, 4}, {3},
                   {1, 4}, {1, 3}, {1, 3, 4}, {1, 2, 4}, {1, 2, 3}, {1, 2, 3, 4} }
<1> DEFINE T == S \ {4}
<1>1. T \in SUBSET (1..3)
  OBVIOUS
<1>2. T \in {{}, {1}, {2}, {3}, {2, 3}, {1, 2}, {1, 3}, {1, 2, 3}}
  BY <1>1, SubsetsOfThree
<1>3. S = T \/ S = T \union {4}
  OBVIOUS
<1> HIDE DEF T
<1>4. T \union {4} \in { {4}, {1, 4}, {2, 4}, {3, 4}, {2, 3, 4}, {1, 2, 4},
                         {1, 3, 4}, {1, 2, 3, 4} }
  BY <1>2
<1> QED
  BY <1>2, <1>3, <1>4

\* Whatever its fork() calls returned, as long as none returned -1, a process
\* finds a branch: the chains leave no combination out.
THEOREM BranchesTotal ==
    ASSUME NEW S \in SUBSET Forks
    PROVE  \E f \in Files : BranchTable[K][f] = S
<1>1. BranchTable[1] = Two /\ BranchTable[2] = Four /\ BranchTable[3] = Eight
      /\ BranchTable[4] = Sixteen
  BY DEF BranchTable
<1>2. CASE K = 1
  <2>1. DOMAIN Two = {1, 2} /\ Two[1] = {} /\ Two[2] = {1}
    BY DEF Two
  <2>2. 1..1 = {1}
    OBVIOUS
  <2>3. S \in {{}, {1}}
    BY <1>2, <2>2 DEF Forks
  <2> QED
    BY <1>1, <1>2, <2>1, <2>3, Zenon DEF Files
<1>3. CASE K = 2
  <2>1. DOMAIN Four = {1, 2, 3, 4} /\ Four[1] = {} /\ Four[2] = {1} /\ Four[3] = {2}
        /\ Four[4] = {1, 2}
    BY DEF Four
  <2>2. 1..2 = {1, 2}
    OBVIOUS
  <2>3. S \in {{}, {1}, {2}, {1, 2}}
    BY <1>3, <2>2 DEF Forks
  <2> QED
    BY <1>1, <1>3, <2>1, <2>3, Zenon DEF Files
<1>4. CASE K = 3
  <2>1. DOMAIN Eight = 1..8
    BY DEF Eight
  <2>2. 1..8 = {1, 2, 3, 4, 5, 6, 7, 8}
    OBVIOUS
  <2>3. Eight[1] = {} /\ Eight[2] = {1} /\ Eight[3] = {2} /\ Eight[4] = {3}
        /\ Eight[5] = {2, 3} /\ Eight[6] = {1, 2} /\ Eight[7] = {1, 3} /\ Eight[8] = {1, 2, 3}
    BY DEF Eight
  <2>4. S \in {{}, {1}, {2}, {3}, {2, 3}, {1, 2}, {1, 3}, {1, 2, 3}}
    BY <1>4, SubsetsOfThree DEF Forks
  <2> QED
    BY <1>1, <1>4, <2>1, <2>2, <2>3, <2>4, Zenon DEF Files
<1>5. CASE K = 4
  <2>1. DOMAIN Sixteen = 1..16
    BY DEF Sixteen
  <2>2. 1..16 = {1, 2, 3, 4, 5, 6, 7, 8, 9, 10, 11, 12, 13, 14, 15, 16}
    OBVIOUS
  <2>3. /\ Sixteen[1] = {} /\ Sixteen[2] = {1} /\ Sixteen[3] = {2} /\ Sixteen[4] = {1, 2}
        /\ Sixteen[5] = {3, 4} /\ Sixteen[6] = {4} /\ Sixteen[7] = {2, 3, 4}
        /\ Sixteen[8] = {2, 3} /\ Sixteen[9] = {2, 4} /\ Sixteen[10] = {3}
        /\ Sixteen[11] = {1, 4} /\ Sixteen[12] = {1, 3} /\ Sixteen[13] = {1, 3, 4}
        /\ Sixteen[14] = {1, 2, 4} /\ Sixteen[15] = {1, 2, 3} /\ Sixteen[16] = {1, 2, 3, 4}
    BY DEF Sixteen
  <2>4. S \in { {}, {1}, {2}, {1, 2}, {3, 4}, {4}, {2, 3, 4}, {2, 3}, {2, 4}, {3},
                {1, 4}, {1, 3}, {1, 3, 4}, {1, 2, 4}, {1, 2, 3}, {1, 2, 3, 4} }
    BY <1>5, SubsetsOfFour DEF Forks
  <2>5. \E f \in {1, 2, 3, 4, 5, 6, 7, 8, 9, 10, 11, 12, 13, 14, 15, 16} : Sixteen[f] = S
    BY <2>3, <2>4, ZenonT(60)
  <2> QED
    BY <1>1, <1>5, <2>1, <2>2, <2>5, Zenon DEF Files
<1> QED
  BY <1>2, <1>3, <1>4, <1>5, KAssumption

\* The history of a process picks a file for it.
LEMMA FileType ==
    ASSUME NEW p \in Proc
    PROVE  /\ File(p) \in Files
           /\ ~failed[p] => Matching(p) # {}
<1>1. Mine(p) \in SUBSET Forks
  BY DEF Mine
<1>2. PICK f \in Files : BranchTable[K][f] = Mine(p)
  BY <1>1, BranchesTotal
<1> QED
  BY <1>2, Zenon DEF File, Matching

-----------------------------------------------------------------------------
(* The order of fork() calls and the tree of processes. *)

LEMMA NatMinimum ==
    ASSUME NEW T \in SUBSET Nat, T # {}
    PROVE  \E x \in T : \A y \in T : x <= y
<1>1. IsWellFoundedOn(OpToRel(<, Nat), Nat)
  BY NatLessThanWellFounded
<1>2. PICK x \in T : \A y \in T : ~(<<y, x>> \in OpToRel(<, Nat))
  BY <1>1, WFMin, Zenon
<1>3. \A y \in T : ~(y < x)
  BY <1>2 DEF OpToRel
<1> QED
  BY <1>3

\* A non-empty set of calls has a first one.
LEMMA FirstCall ==
    ASSUME NEW T \in SUBSET Calls, T # {}
    PROVE  \E n \in T : \A m \in T : m = n \/ Earlier(n, m)
<1> DEFINE Ts == { m[1] : m \in T }
<1>1. Ts \in SUBSET Nat /\ Ts # {}
  BY NTrialsAssumption DEF Calls, Trials
<1>2. PICK t \in Ts : \A u \in Ts : t <= u
  BY <1>1, NatMinimum
<1> DEFINE Is == { m[2] : m \in { n \in T : n[1] = t } }
<1>3. Is \in SUBSET Nat /\ Is # {}
  BY <1>2, KAssumption DEF Calls, Forks
<1>4. PICK i \in Is : \A j \in Is : i <= j
  BY <1>3, NatMinimum
<1>5. PICK n \in T : n[1] = t /\ n[2] = i
  BY <1>4
<1>6. ASSUME NEW m \in T, m # n
      PROVE  Earlier(n, m)
  <2>1. m \in Calls /\ n \in Calls
    OBVIOUS
  <2>2. m = <<m[1], m[2]>> /\ n = <<n[1], n[2]>> /\ m[1] \in Nat /\ m[2] \in Nat
        /\ n[1] \in Nat /\ n[2] \in Nat
    BY <2>1, NTrialsAssumption, KAssumption DEF Calls, Trials, Forks
  <2>3. t <= m[1]
    BY <1>2
  <2>4. m[1] = t => i <= m[2]
    BY <1>4
  <2> QED
    BY <1>5, <1>6, <2>2, <2>3, <2>4 DEF Earlier
<1> QED
  BY <1>6

\* Every descendant of p is a child of p or a descendant of one.
LEMMA ThroughAChild ==
    ASSUME NEW p \in Proc, NEW q \in Proc, Descendant(p, q)
    PROVE  \E c \in Children[p] : c \in Proc /\ (c = q \/ Descendant(c, q))
<1>1. PICK n \in q \ p : \A m \in q \ p : m = n \/ Earlier(n, m)
  BY FirstCall DEF Descendant, Proc
<1> DEFINE c == p \union {n}
<1>2. c \in Children[p] /\ c \in Proc
  BY <1>1 DEF Children, Descendant, Proc
<1>3. c # q => Descendant(c, q)
  BY <1>1 DEF Descendant
<1> QED
  BY <1>2, <1>3

\* The ancestors of a child of p are p and the ancestors of p.
LEMMA AncestorOfChild ==
    ASSUME NEW p \in Proc, NEW r \in Proc, NEW n \in Calls,
           \A m \in p : Earlier(m, n),
           Descendant(r, p \union {n})
    PROVE  r = p \/ Descendant(r, p)
<1>1. \A m \in r : m \in p \/ m = n
  BY DEF Descendant
<1>2. n \notin r
  <2>1. SUFFICES ASSUME n \in r PROVE FALSE
    OBVIOUS
  <2>2. PICK m \in (p \union {n}) \ r : TRUE
    BY DEF Descendant
  <2>3. m \in p /\ Earlier(m, n) /\ Earlier(n, m)
    BY <2>1, <2>2 DEF Descendant
  <2>4. m \in Calls
    BY <2>3 DEF Proc
  <2> QED
    BY <2>3, <2>4, NTrialsAssumption, KAssumption DEF Earlier, Calls, Trials, Forks
<1>3. r \subseteq p
  BY <1>1, <1>2
<1> QED
  BY <1>3 DEF Descendant

\* Children are descendants.
LEMMA ChildIsDescendant ==
    ASSUME NEW p \in Proc, NEW n \in Calls, \A m \in p : Earlier(m, n)
    PROVE  Descendant(p, p \union {n}) /\ p \union {n} \in Proc /\ p \union {n} \in Children[p]
<1>1. n \notin p
  BY NTrialsAssumption, KAssumption DEF Earlier, Calls, Trials, Forks
<1> QED
  BY <1>1 DEF Descendant, Proc, Children

-----------------------------------------------------------------------------
(* Type correctness. *)

LEMMA TypeInit == Init => TypeOK
  BY NTrialsAssumption, KAssumption, MaxForkFailuresAssumption
  DEF Init, TypeOK, PCs, Trials, Proc, main

LEMMA TypeStep == TypeOK /\ [Next]_vars => TypeOK'
<1> SUFFICES ASSUME TypeOK, [Next]_vars
             PROVE  TypeOK'
  OBVIOUS
<1> USE DEF TypeOK
<1>1. ASSUME NEW p \in Proc, Reset(p) PROVE TypeOK'
  BY <1>1, KAssumption DEF Reset, Goto, PCs
<1>2. ASSUME NEW p \in Proc, Fork(p) PROVE TypeOK'
  <2> DEFINE child == p \union {<<trial[p], forks[p] + 1>>}
  <2>1. child \in Proc
    BY <1>2, KAssumption DEF Fork, Proc, Calls, Trials, Forks
  <2>2. forks[p] + 1 \in 0..K
    BY <1>2, KAssumption DEF Fork
  <2> HIDE DEF child
  <2>3. /\ pc' = [pc EXCEPT ![child] = "fork"]
        /\ trial' = [trial EXCEPT ![child] = trial[p]]
        /\ forks' = [forks EXCEPT ![p] = @ + 1, ![child] = forks[p] + 1]
        /\ failed' = [failed EXCEPT ![child] = failed[p]]
        /\ times' = [times EXCEPT ![child] = times[p]]
        /\ UNCHANGED <<reg, agg, cache, failures>>
    BY <1>2 DEF Fork, child
  <2> QED
    BY <2>1, <2>2, <2>3 DEF PCs
<1>3. ASSUME NEW p \in Proc, ForkFails(p) PROVE TypeOK'
  BY <1>3, KAssumption, MaxForkFailuresAssumption DEF ForkFails
<1>4. ASSUME NEW p \in Proc, TakeBranch(p) PROVE TypeOK'
  BY <1>4 DEF TakeBranch, Goto, PCs
<1>5. ASSUME NEW p \in Proc, FallThrough(p) PROVE TypeOK'
  BY <1>5 DEF FallThrough, Goto, PCs
<1>6. ASSUME NEW p \in Proc, Reap(p) PROVE TypeOK'
  BY <1>6 DEF Reap, Goto, PCs
<1>7. ASSUME NEW p \in Proc, EndWait(p) PROVE TypeOK'
  BY <1>7 DEF EndWait, Goto, PCs
<1>8. ASSUME NEW p \in Proc, ReadBlock(p) PROVE TypeOK'
  BY <1>8, FileType DEF ReadBlock, Goto, PCs
<1>9. ASSUME NEW p \in Proc, Load(p) PROVE TypeOK'
  BY <1>9 DEF Load, Goto, PCs
<1>10. ASSUME NEW p \in Proc, Store(p) PROVE TypeOK'
  BY <1>10 DEF Store, Goto, PCs, Samples
<1>11. ASSUME NEW p \in Proc, Record(p) PROVE TypeOK'
  <2>1. trial[p] < NTrials => trial[p] + 1 \in Trials
    BY NTrialsAssumption DEF Trials
  <2>2. times' \in [Proc -> [Trials -> SUBSET Samples]]
    BY <1>11 DEF Record
  <2> QED
    BY <1>11, <2>1, <2>2 DEF Record, Goto, PCs
<1>12. ASSUME NEW p \in Proc, Leave(p) PROVE TypeOK'
  BY <1>12 DEF Leave, Goto, PCs
<1>13. CASE Terminated
  BY <1>13 DEF Terminated, vars
<1>14. CASE UNCHANGED vars
  BY <1>14 DEF vars
<1> QED
  BY <1>1, <1>2, <1>3, <1>4, <1>5, <1>6, <1>7, <1>8, <1>9, <1>10, <1>11, <1>12, <1>13, <1>14
  DEF Next, Step

\* Every variable keeps its type: in particular the loop counter never leaves
\* the bounds of the arrays of results it indexes.
THEOREM TypeCorrect == Spec => []TypeOK
  BY TypeInit, TypeStep, PTL DEF Spec

-----------------------------------------------------------------------------
(* Exclusion.  ReadExclusion speaks of a process past its wait loop and of  *)
(* all its descendants, while the wait loop looks at children only.  What   *)
(* makes it inductive is that "unborn" counts as quiet too, so that         *)
(* ThroughAChild carries the fact from the children to all descendants, and *)
(* that a process only forks calls that are later than its history.         *)

HistoryBehind ==
    \A p \in Proc : pc[p] # "unborn" =>
        \A m \in p :
            \/ m[1] < trial[p]
            \/ m[1] = trial[p] /\ m[2] <= forks[p] /\ pc[p] # "reset"

FailuresCounted == \A p \in Proc : failed[p] => failures > 0

Quiet == PastWait \union {"unborn"}

QuietBelow ==
    failures = 0 =>
        \A p, q \in Proc :
            pc[p] \in Quiet /\ Descendant(p, q) => pc[q] \in {"unborn", "reaped"}

ExclusionInv == TypeOK /\ HistoryBehind /\ FailuresCounted /\ QuietBelow

\* A running process moves on, and becomes quiet only if it was.
LEMMA MoveKeepsQuiet ==
    ASSUME TypeOK, QuietBelow, NEW p \in Proc, NEW label,
           pc[p] \notin {"unborn", "reaped"}, Goto(p, label), failures' = failures,
           label \in Quiet => pc[p] \in Quiet
    PROVE  QuietBelow'
<1> SUFFICES ASSUME failures = 0, NEW r \in Proc, NEW q \in Proc,
                    pc'[r] \in Quiet, Descendant(r, q)
             PROVE  pc'[q] \in {"unborn", "reaped"}
  BY DEF QuietBelow
<1>1. pc[r] \in Quiet
  BY DEF Goto, TypeOK
<1>2. pc[q] \in {"unborn", "reaped"}
  BY <1>1 DEF QuietBelow
<1> QED
  BY <1>2 DEF Goto, TypeOK

LEMMA ExclusionInit == Init => ExclusionInv
<1> SUFFICES ASSUME Init PROVE ExclusionInv
  OBVIOUS
<1>1. TypeOK
  BY TypeInit
<1>2. HistoryBehind /\ FailuresCounted
  BY DEF Init, HistoryBehind, FailuresCounted, main
<1>3. QuietBelow
  <2>1. \A p, q \in Proc : Descendant(p, q) => q # main
    BY DEF Descendant, main
  <2> QED
    BY <2>1 DEF Init, QuietBelow
<1> QED
  BY <1>1, <1>2, <1>3 DEF ExclusionInv

LEMMA ExclusionStep == ExclusionInv /\ [Next]_vars => ExclusionInv'
<1> SUFFICES ASSUME ExclusionInv, [Next]_vars
             PROVE  ExclusionInv'
  OBVIOUS
<1>0. TypeOK /\ HistoryBehind /\ FailuresCounted /\ QuietBelow /\ TypeOK'
  BY TypeStep DEF ExclusionInv
<1> DEFINE Rest == HistoryBehind /\ FailuresCounted /\ QuietBelow
<1>1. ASSUME NEW p \in Proc, Reset(p) PROVE Rest'
  <2>1. HistoryBehind'
    BY <1>0, <1>1 DEF Reset, Goto, HistoryBehind, TypeOK
  <2>2. FailuresCounted'
    BY <1>0, <1>1 DEF Reset, FailuresCounted, TypeOK
  <2>3. QuietBelow'
    BY <1>0, <1>1, MoveKeepsQuiet DEF Reset, Quiet, PastWait
  <2> QED
    BY <2>1, <2>2, <2>3
<1>2. ASSUME NEW p \in Proc, Fork(p) PROVE Rest'
  <2> DEFINE call == <<trial[p], forks[p] + 1>>
             child == p \union {call}
  <2>1. call \in Calls
    BY <1>0, <1>2, KAssumption DEF Fork, TypeOK, Calls, Forks
  <2>2. \A m \in p : Earlier(m, call)
    <3> SUFFICES ASSUME NEW m \in p PROVE Earlier(m, call)
      OBVIOUS
    <3>1. m[1] < trial[p] \/ (m[1] = trial[p] /\ m[2] <= forks[p])
      BY <1>0, <1>2 DEF Fork, HistoryBehind
    <3>2. m[1] \in Nat /\ m[2] \in Nat /\ forks[p] \in Nat
      BY <1>0, KAssumption, NTrialsAssumption DEF Proc, Calls, Trials, Forks, TypeOK
    <3> QED
      BY <3>1, <3>2 DEF Earlier
  <2>3. child \in Proc /\ Descendant(p, child)
    BY <2>1, <2>2, ChildIsDescendant
  <2>4. \A r \in Proc : Descendant(r, child) => r = p \/ Descendant(r, p)
    BY <2>1, <2>2, AncestorOfChild
  <2>5. /\ pc[p] = "fork"
        /\ pc' = [pc EXCEPT ![child] = "fork"]
        /\ trial' = [trial EXCEPT ![child] = trial[p]]
        /\ forks' = [forks EXCEPT ![p] = @ + 1, ![child] = forks[p] + 1]
        /\ failed' = [failed EXCEPT ![child] = failed[p]]
        /\ UNCHANGED failures
    BY <1>2 DEF Fork
  <2>6. \A m \in child : m \in p \/ (m[1] = trial[p] /\ m[2] = forks[p] + 1)
    OBVIOUS
  <2>7. child # p
    BY <2>3 DEF Descendant
  <2> HIDE DEF child, call
  <2>8. HistoryBehind'
    <3> SUFFICES ASSUME NEW q \in Proc, pc'[q] # "unborn", NEW m \in q
                 PROVE  \/ m[1] < trial'[q]
                        \/ m[1] = trial'[q] /\ m[2] <= forks'[q] /\ pc'[q] # "reset"
      BY DEF HistoryBehind
    <3>1. m[1] \in Nat /\ m[2] \in Nat /\ forks[p] \in Nat
      BY <1>0, KAssumption, NTrialsAssumption DEF Proc, Calls, Trials, Forks, TypeOK
    <3>2. CASE q = child
      <4>1. trial'[q] = trial[p] /\ forks'[q] = forks[p] + 1 /\ pc'[q] = "fork"
        BY <1>0, <2>3, <2>5, <3>2 DEF TypeOK
      <4>2. m \in p => m[1] < trial[p] \/ (m[1] = trial[p] /\ m[2] <= forks[p])
        BY <1>0, <2>5 DEF HistoryBehind
      <4> QED
        BY <2>6, <3>1, <3>2, <4>1, <4>2
    <3>3. CASE q = p
      <4>1. trial'[q] = trial[p] /\ forks'[q] = forks[p] + 1 /\ pc'[q] = "fork"
        BY <1>0, <2>3, <2>5, <2>7, <3>3 DEF TypeOK
      <4>2. m[1] < trial[p] \/ (m[1] = trial[p] /\ m[2] <= forks[p])
        BY <1>0, <2>5, <3>3 DEF HistoryBehind
      <4> QED
        BY <3>1, <4>1, <4>2
    <3>4. CASE q # child /\ q # p
      <4>1. trial'[q] = trial[q] /\ forks'[q] = forks[q] /\ pc'[q] = pc[q]
        BY <1>0, <2>3, <2>5, <3>4 DEF TypeOK
      <4> QED
        BY <1>0, <4>1 DEF HistoryBehind
    <3> QED
      BY <3>2, <3>3, <3>4
  <2>9. FailuresCounted'
    BY <1>0, <2>3, <2>5 DEF FailuresCounted, TypeOK
  <2>10. QuietBelow'
    <3> SUFFICES ASSUME failures = 0, NEW r \in Proc, NEW q \in Proc,
                        pc'[r] \in Quiet, Descendant(r, q)
                 PROVE  pc'[q] \in {"unborn", "reaped"}
      BY <2>5 DEF QuietBelow
    <3>1. pc[r] \in Quiet /\ r # child
      BY <1>0, <2>3, <2>5 DEF TypeOK, Quiet, PastWait
    <3>2. q # child
      BY <1>0, <2>4, <2>5, <3>1 DEF QuietBelow, Quiet, PastWait
    <3> QED
      BY <1>0, <2>3, <2>5, <3>1, <3>2 DEF QuietBelow, TypeOK
  <2> QED
    BY <2>8, <2>9, <2>10
<1>3. ASSUME NEW p \in Proc, ForkFails(p) PROVE Rest'
  <2>1. HistoryBehind'
    <3> SUFFICES ASSUME NEW q \in Proc, pc[q] # "unborn", NEW m \in q
                 PROVE  \/ m[1] < trial[q]
                        \/ m[1] = trial[q] /\ m[2] <= forks'[q] /\ pc[q] # "reset"
      BY <1>3 DEF HistoryBehind, ForkFails
    <3>1. m[2] \in Nat
      BY KAssumption, NTrialsAssumption DEF Proc, Calls, Trials, Forks
    <3>2. forks[q] \in Nat /\ forks'[q] \in {forks[q], forks[q] + 1}
      BY <1>0, <1>3, KAssumption DEF ForkFails, TypeOK
    <3>3. forks'[q] \in Nat /\ forks[q] <= forks'[q]
      BY <3>2
    <3> QED
      BY <1>0, <3>1, <3>2, <3>3 DEF HistoryBehind
  <2>2. FailuresCounted' /\ QuietBelow'
    BY <1>0, <1>3 DEF ForkFails, FailuresCounted, QuietBelow, TypeOK
  <2> QED
    BY <2>1, <2>2
<1>4. ASSUME NEW p \in Proc, TakeBranch(p) PROVE Rest'
  <2>1. HistoryBehind' /\ FailuresCounted'
    BY <1>0, <1>4 DEF TakeBranch, Goto, HistoryBehind, FailuresCounted, TypeOK
  <2>2. QuietBelow'
    BY <1>0, <1>4, MoveKeepsQuiet DEF TakeBranch, Quiet, PastWait
  <2> QED
    BY <2>1, <2>2
<1>5. ASSUME NEW p \in Proc, FallThrough(p) PROVE Rest'
  <2>1. HistoryBehind' /\ FailuresCounted'
    BY <1>0, <1>5 DEF FallThrough, Goto, HistoryBehind, FailuresCounted, TypeOK
  <2>2. failures > 0
    BY <1>0, <1>5, FileType DEF FallThrough, FailuresCounted
  <2>3. QuietBelow'
    BY <1>5, <2>2 DEF FallThrough, QuietBelow
  <2> QED
    BY <2>1, <2>3
<1>6. ASSUME NEW p \in Proc, Reap(p) PROVE Rest'
  <2>1. PICK c \in Children[p] : pc[c] = "zombie" /\ Goto(c, "reaped")
    BY <1>6 DEF Reap
  <2>2. c \in Proc
    BY <2>1 DEF Children, Proc
  <2>3. HistoryBehind' /\ FailuresCounted'
    BY <1>0, <1>6, <2>1, <2>2 DEF Reap, Goto, HistoryBehind, FailuresCounted, TypeOK
  <2>4. QuietBelow'
    BY <1>0, <1>6, <2>1, <2>2, MoveKeepsQuiet DEF Reap, Quiet, PastWait
  <2> QED
    BY <2>3, <2>4
<1>7. ASSUME NEW p \in Proc, EndWait(p) PROVE Rest'
  <2>1. HistoryBehind' /\ FailuresCounted'
    BY <1>0, <1>7 DEF EndWait, Goto, HistoryBehind, FailuresCounted, TypeOK
  <2>2. QuietBelow'
    <3> SUFFICES ASSUME failures = 0, NEW r \in Proc, NEW q \in Proc,
                        pc'[r] \in Quiet, Descendant(r, q)
                 PROVE  pc'[q] \in {"unborn", "reaped"}
      BY <1>7 DEF EndWait, QuietBelow
    <3>1. CASE r = p
      <4>1. PICK c \in Children[p] : c \in Proc /\ (c = q \/ Descendant(c, q))
        BY <3>1, ThroughAChild
      <4>2. pc[c] \in {"unborn", "reaped"}
        BY <1>7, <4>1 DEF EndWait
      <4>3. pc[q] \in {"unborn", "reaped"}
        BY <1>0, <4>1, <4>2 DEF QuietBelow, Quiet, PastWait
      <4> QED
        BY <1>0, <1>7, <4>3 DEF EndWait, Goto, TypeOK
    <3>2. CASE r # p
      <4>1. pc[r] \in Quiet
        BY <1>0, <1>7, <3>2 DEF EndWait, Goto, TypeOK
      <4>2. pc[q] \in {"unborn", "reaped"}
        BY <1>0, <4>1 DEF QuietBelow
      <4> QED
        BY <1>0, <1>7, <4>2 DEF EndWait, Goto, TypeOK
    <3> QED
      BY <3>1, <3>2
  <2> QED
    BY <2>1, <2>2
<1>8. ASSUME NEW p \in Proc, ReadBlock(p) PROVE Rest'
  <2>1. HistoryBehind' /\ FailuresCounted'
    BY <1>0, <1>8 DEF ReadBlock, Goto, HistoryBehind, FailuresCounted, TypeOK
  <2>2. QuietBelow'
    BY <1>0, <1>8, MoveKeepsQuiet DEF ReadBlock, Quiet, PastWait
  <2> QED
    BY <2>1, <2>2
<1>9. ASSUME NEW p \in Proc, Load(p) PROVE Rest'
  <2>1. HistoryBehind' /\ FailuresCounted'
    BY <1>0, <1>9 DEF Load, Goto, HistoryBehind, FailuresCounted, TypeOK
  <2>2. QuietBelow'
    BY <1>0, <1>9, MoveKeepsQuiet DEF Load, Quiet, PastWait
  <2> QED
    BY <2>1, <2>2
<1>10. ASSUME NEW p \in Proc, Store(p) PROVE Rest'
  <2>1. HistoryBehind' /\ FailuresCounted'
    BY <1>0, <1>10 DEF Store, Goto, HistoryBehind, FailuresCounted, TypeOK
  <2>2. QuietBelow'
    BY <1>0, <1>10, MoveKeepsQuiet DEF Store, Quiet, PastWait
  <2> QED
    BY <2>1, <2>2
<1>11. ASSUME NEW p \in Proc, Record(p) PROVE Rest'
  <2>1. HistoryBehind'
    <3> SUFFICES ASSUME NEW q \in Proc, pc'[q] # "unborn", NEW m \in q
                 PROVE  \/ m[1] < trial'[q]
                        \/ m[1] = trial'[q] /\ m[2] <= forks'[q] /\ pc'[q] # "reset"
      BY DEF HistoryBehind
    <3>1. m[1] \in Nat /\ trial[q] \in Nat
      BY <1>0, NTrialsAssumption DEF Proc, Calls, Trials, TypeOK
    <3>2. CASE q = p /\ trial[p] < NTrials
      <4>1. trial'[q] = trial[q] + 1
        BY <1>0, <1>11, <3>2 DEF Record, TypeOK
      <4>2. pc[q] = "record"
        BY <1>11, <3>2 DEF Record
      <4>3. m[1] <= trial[q]
        BY <1>0, <3>1, <4>2 DEF HistoryBehind
      <4> QED
        BY <3>1, <4>1, <4>3
    <3>3. CASE ~(q = p /\ trial[p] < NTrials)
      <4>1. trial'[q] = trial[q] /\ forks'[q] = forks[q] /\ pc[q] # "unborn"
            /\ (pc'[q] = "reset" => pc[q] = "reset")
        BY <1>0, <1>11, <3>3 DEF Record, Goto, TypeOK
      <4> QED
        BY <1>0, <4>1 DEF HistoryBehind
    <3> QED
      BY <3>2, <3>3
  <2>2. FailuresCounted'
    BY <1>0, <1>11 DEF Record, FailuresCounted
  <2>3. QuietBelow'
    BY <1>0, <1>11, MoveKeepsQuiet DEF Record, Quiet, PastWait
  <2> QED
    BY <2>1, <2>2, <2>3
<1>12. ASSUME NEW p \in Proc, Leave(p) PROVE Rest'
  <2>1. HistoryBehind' /\ FailuresCounted'
    BY <1>0, <1>12 DEF Leave, Goto, HistoryBehind, FailuresCounted, TypeOK
  <2>2. QuietBelow'
    BY <1>0, <1>12, MoveKeepsQuiet DEF Leave, Quiet, PastWait
  <2> QED
    BY <2>1, <2>2
<1>13. ASSUME NEW p \in Proc, Step(p) PROVE Rest'
  BY <1>1, <1>2, <1>3, <1>4, <1>5, <1>6, <1>7, <1>8, <1>9, <1>10, <1>11, <1>12, <1>13, Zenon
  DEF Step
<1>14. ASSUME UNCHANGED vars PROVE Rest'
  BY <1>0, <1>14 DEF vars, HistoryBehind, FailuresCounted, QuietBelow
<1>15. Rest'
  BY <1>13, <1>14 DEF Next, Terminated
<1> QED
  BY <1>0, <1>15 DEF ExclusionInv

LEMMA ExclusionInvariant == Spec => []ExclusionInv
  BY ExclusionInit, ExclusionStep, PTL DEF Spec

\* A process past its wait loop has outlived all its descendants, for every
\* number of trials and every interleaving, as long as no fork() failed.
THEOREM Exclusion == Spec => []ReadExclusion
<1>1. ExclusionInv => ReadExclusion
  BY DEF ExclusionInv, QuietBelow, Quiet, ReadExclusion
<1> QED
  BY <1>1, ExclusionInvariant, PTL

-----------------------------------------------------------------------------
(***************************************************************************)
(* What the recorded sums of Contention can hold, and who measures at the  *)
(* same time.  All processes that exist at a time are in the same trial,   *)
(* main's: main starts the next one past its wait loop, when the exclusion *)
(* invariant says that no process of the trial is left.                    *)
(***************************************************************************)

\* Whoever exists is in main's trial, and was born in it.
SameTrial ==
    \A p \in Proc : pc[p] \notin {"unborn", "reaped"} =>
        trial[p] = trial[main] /\ (p # main => Mine(p) # {})

\* Only main gets past the chain of branches, so no child runs the rest of main().
OnlyMain ==
    \A p \in Proc : pc[p] # "later" /\ (pc[p] \in {"record", "reset", "done"} => p = main)

MainLives == pc[main] \notin {"unborn", "reaped"}

Current == Proc \X {trial[main]}

\* A register waiting to be stored holds samples of this trial, and so does the
\* sum, from its reset on.
CurrentRegisters == \A p \in Proc : pc[p] = "store" => reg[p] \subseteq Current
CurrentSum == pc[main] # "reset" => agg \subseteq Current

OwnSums ==
    SameTrial /\ OnlyMain /\ MainLives /\ CurrentRegisters /\ CurrentSum /\ OwnTrialOnly

OwnInv == failures = 0 => OwnSums

LEMMA MainIsProc == main \in Proc /\ Mine(main) = {}
  BY DEF main, Proc, Mine

\* While main is past its wait loop, it is alone.
LEMMA MainAlone ==
    ASSUME ExclusionInv, failures = 0, pc[main] \in Quiet, NEW q \in Proc, q # main
    PROVE  pc[q] \in {"unborn", "reaped"}
<1>1. Descendant(main, q)
  BY DEF Descendant, main
<1> QED
  BY <1>1, MainIsProc DEF ExclusionInv, QuietBelow

\* A step of p that changes neither counters nor results, nor lets p be waited
\* for, nor leads it past the chain unless it is main.
LEMMA PlainMove ==
    ASSUME TypeOK, OwnSums, NEW p \in Proc, NEW label,
           pc[p] \notin {"unborn", "reaped"}, Goto(p, label),
           label \notin {"unborn", "reaped", "reset", "later"},
           label \in {"record", "done"} => p = main,
           UNCHANGED <<trial, times>>
    PROVE  SameTrial' /\ OnlyMain' /\ MainLives' /\ OwnTrialOnly'
<1>1. \A q \in Proc : pc'[q] = IF q = p THEN label ELSE pc[q]
  BY DEF Goto, TypeOK
<1>2. \A q \in Proc : Mine(q)' = Mine(q)
  BY DEF Mine
<1> QED
  BY <1>1, <1>2, MainIsProc
  DEF OwnSums, SameTrial, OnlyMain, MainLives, OwnTrialOnly

\* A step to a state without failures is one from such a state, and no failure.
LEMMA NoFailure ==
    ASSUME TypeOK, [Next]_vars, failures' = 0
    PROVE  failures = 0 /\ \A p \in Proc : ~ForkFails(p)
<1>1. ASSUME NEW p \in Proc, ForkFails(p) PROVE FALSE
  BY <1>1 DEF ForkFails, TypeOK
<1> QED
  BY <1>1
  DEF Next, Step, Terminated, vars, Reset, Fork, TakeBranch, FallThrough, Reap,
      EndWait, ReadBlock, Load, Store, Record, Leave

\* Without failures the chain has a branch for everybody.
LEMMA NoFallThrough ==
    ASSUME ExclusionInv, failures = 0, NEW p \in Proc
    PROVE  ~FallThrough(p)
<1>1. ~failed[p]
  BY DEF ExclusionInv, FailuresCounted, TypeOK
<1> QED
  BY <1>1, FileType DEF FallThrough

LEMMA OwnInit == Init => OwnInv
<1> SUFFICES ASSUME Init PROVE OwnSums
  BY DEF OwnInv
<1> QED
  BY MainIsProc
  DEF Init, OwnSums, SameTrial, OnlyMain, MainLives, CurrentRegisters, CurrentSum,
      OwnTrialOnly

LEMMA OwnStep == ExclusionInv /\ OwnInv /\ [Next]_vars => OwnInv'
<1> SUFFICES ASSUME ExclusionInv, OwnInv, [Next]_vars, failures' = 0
             PROVE  OwnSums'
  BY DEF OwnInv
<1>0. TypeOK /\ TypeOK'
  BY TypeStep DEF ExclusionInv
<1>b. failures = 0 /\ \A p \in Proc : ~ForkFails(p)
  BY <1>0, NoFailure
<1>c. OwnSums
  BY <1>b DEF OwnInv
<1>d. main \in Proc /\ trial[main] \in Trials
  BY <1>0, MainIsProc DEF TypeOK
<1>1. ASSUME NEW p \in Proc, Reset(p) PROVE OwnSums'
  <2>1. p = main
    BY <1>1, <1>c DEF Reset, OwnSums, OnlyMain
  <2>2. agg' = {} /\ UNCHANGED <<trial, reg, times>> /\ Goto(p, "fork") /\ pc[p] = "reset"
    BY <1>1 DEF Reset
  <2>3. SameTrial' /\ OnlyMain' /\ MainLives' /\ OwnTrialOnly'
    BY <1>0, <1>c, <2>2, PlainMove
  <2>4. CurrentRegisters' /\ CurrentSum'
    BY <1>0, <1>c, <2>2 DEF OwnSums, CurrentRegisters, CurrentSum, Current, Goto, TypeOK
  <2> QED
    BY <2>3, <2>4 DEF OwnSums
<1>2. ASSUME NEW p \in Proc, Fork(p) PROVE OwnSums'
  <2> DEFINE call == <<trial[p], forks[p] + 1>>
             child == p \union {call}
  <2>1. call \in Calls /\ forks[p] + 1 \in Forks
    BY <1>0, <1>2, KAssumption DEF Fork, TypeOK, Calls, Forks
  <2>2. child \in Proc /\ child # main /\ call \in child
    BY <2>1 DEF Proc, main
  <2>3. /\ pc[p] = "fork"
        /\ pc' = [pc EXCEPT ![child] = "fork"]
        /\ trial' = [trial EXCEPT ![child] = trial[p]]
        /\ times' = [times EXCEPT ![child] = times[p]]
        /\ UNCHANGED <<reg, agg>>
    BY <1>2 DEF Fork
  <2>4. trial[p] = trial[main]
    BY <1>c, <2>3 DEF OwnSums, SameTrial
  <2>5. \A q \in Proc : trial'[q] = IF q = child THEN trial[main] ELSE trial[q]
    BY <1>0, <2>2, <2>3, <2>4 DEF TypeOK
  <2>6. \A q \in Proc : pc'[q] = IF q = child THEN "fork" ELSE pc[q]
    BY <1>0, <2>2, <2>3 DEF TypeOK
  <2>7. times'[main] = times[main]
    BY <1>0, <2>2, <2>3, <1>d DEF TypeOK
  <2>8. \A q \in Proc : q = child => Mine(q)' # {}
    <3> SUFFICES ASSUME NEW q \in Proc, q = child PROVE Mine(q)' # {}
      OBVIOUS
    <3>1. <<trial'[q], forks[p] + 1>> \in q
      BY <2>2, <2>4, <2>5
    <3> HIDE DEF child, call
    <3>2. \E f \in Forks : <<trial'[q], f>> \in q
      BY <2>1, <3>1
    <3> QED
      BY <3>2 DEF Mine
  <2> HIDE DEF child, call
  <2>9. \A q \in Proc : q # child => Mine(q)' = Mine(q)
    BY <2>5 DEF Mine
  <2>10. trial'[main] = trial[main] /\ pc'[main] = pc[main]
    BY <2>2, <2>5, <2>6, <1>d
  <2>11. SameTrial'
    BY <1>c, <2>5, <2>6, <2>8, <2>9, <2>10 DEF OwnSums, SameTrial
  <2>12. OnlyMain' /\ MainLives'
    BY <1>c, <2>6, <2>10 DEF OwnSums, OnlyMain, MainLives
  <2>13. CurrentRegisters' /\ CurrentSum'
    BY <1>c, <2>3, <2>6, <2>10 DEF OwnSums, CurrentRegisters, CurrentSum, Current
  <2>14. OwnTrialOnly'
    BY <1>c, <2>7 DEF OwnSums, OwnTrialOnly
  <2> QED
    BY <2>11, <2>12, <2>13, <2>14 DEF OwnSums
<1>4. ASSUME NEW p \in Proc, TakeBranch(p) PROVE OwnSums'
  <2>1. SameTrial' /\ OnlyMain' /\ MainLives' /\ OwnTrialOnly'
    BY <1>0, <1>c, <1>4, PlainMove DEF TakeBranch
  <2>2. CurrentRegisters' /\ CurrentSum'
    BY <1>0, <1>c, <1>4
    DEF TakeBranch, Goto, TypeOK, OwnSums, CurrentRegisters, CurrentSum, Current
  <2> QED
    BY <2>1, <2>2 DEF OwnSums
<1>5. \A p \in Proc : ~FallThrough(p)
  BY <1>b, NoFallThrough
<1>6. ASSUME NEW p \in Proc, Reap(p) PROVE OwnSums'
  <2>1. PICK c \in Children[p] : pc[c] = "zombie" /\ Goto(c, "reaped")
    BY <1>6 DEF Reap
  <2>2. c \in Proc /\ c # main
    BY <2>1 DEF Children, Proc, main
  <2>3. \A q \in Proc : pc'[q] = IF q = c THEN "reaped" ELSE pc[q]
    BY <1>0, <2>1, <2>2 DEF Goto, TypeOK
  <2>4. UNCHANGED <<trial, reg, times, agg>>
    BY <1>6 DEF Reap
  <2>5. \A q \in Proc : Mine(q)' = Mine(q)
    BY <2>4 DEF Mine
  <2>6. SameTrial' /\ OnlyMain' /\ MainLives' /\ OwnTrialOnly'
    BY <1>c, <1>d, <2>2, <2>3, <2>4, <2>5
    DEF OwnSums, SameTrial, OnlyMain, MainLives, OwnTrialOnly
  <2>7. CurrentRegisters' /\ CurrentSum'
    BY <1>c, <1>d, <2>2, <2>3, <2>4
    DEF OwnSums, CurrentRegisters, CurrentSum, Current
  <2> QED
    BY <2>6, <2>7 DEF OwnSums
<1>7. ASSUME NEW p \in Proc, EndWait(p) PROVE OwnSums'
  <2>1. SameTrial' /\ OnlyMain' /\ MainLives' /\ OwnTrialOnly'
    BY <1>0, <1>c, <1>7, PlainMove DEF EndWait
  <2>2. CurrentRegisters' /\ CurrentSum'
    BY <1>0, <1>c, <1>7
    DEF EndWait, Goto, TypeOK, OwnSums, CurrentRegisters, CurrentSum, Current
  <2> QED
    BY <2>1, <2>2 DEF OwnSums
<1>8. ASSUME NEW p \in Proc, ReadBlock(p) PROVE OwnSums'
  <2>1. SameTrial' /\ OnlyMain' /\ MainLives' /\ OwnTrialOnly'
    BY <1>0, <1>c, <1>8, PlainMove DEF ReadBlock
  <2>2. CurrentRegisters' /\ CurrentSum'
    BY <1>0, <1>c, <1>8
    DEF ReadBlock, Goto, TypeOK, OwnSums, CurrentRegisters, CurrentSum, Current
  <2> QED
    BY <2>1, <2>2 DEF OwnSums
<1>9. ASSUME NEW p \in Proc, Load(p) PROVE OwnSums'
  <2>1. SameTrial' /\ OnlyMain' /\ MainLives' /\ OwnTrialOnly'
    BY <1>0, <1>c, <1>9, PlainMove DEF Load
  <2>2. pc[main] # "reset"
    <3>1. p # main => pc[main] \notin Quiet
      BY <1>9, <1>b, MainAlone DEF Load
    <3> QED
      BY <1>9, <3>1 DEF Load, Quiet, PastWait
  <2>3. agg \subseteq Current /\ Current' = Current
    BY <1>c, <1>9, <2>2 DEF OwnSums, CurrentSum, Current, Load
  <2>4. CurrentRegisters' /\ CurrentSum'
    BY <1>0, <1>c, <1>9, <2>3
    DEF Load, Goto, TypeOK, OwnSums, CurrentRegisters, CurrentSum
  <2> QED
    BY <2>1, <2>4 DEF OwnSums
<1>10. ASSUME NEW p \in Proc, Store(p) PROVE OwnSums'
  <2>1. Mine(p) = {} => p = main
    BY <1>c, <1>10 DEF Store, OwnSums, SameTrial
  <2>2. SameTrial' /\ OnlyMain' /\ MainLives' /\ OwnTrialOnly'
    BY <1>0, <1>c, <1>10, <2>1, PlainMove DEF Store
  <2>3. trial[p] = trial[main]
    BY <1>c, <1>10 DEF Store, OwnSums, SameTrial
  <2>4. reg[p] \subseteq Current /\ <<p, trial[p]>> \in Current /\ Current' = Current
    BY <1>c, <1>10, <2>3 DEF Store, OwnSums, CurrentRegisters, Current
  <2>5. CurrentSum'
    BY <1>10, <2>4 DEF Store, CurrentSum
  <2>6. CurrentRegisters'
    BY <1>0, <1>c, <1>10, <2>4 DEF Store, Goto, TypeOK, OwnSums, CurrentRegisters
  <2> QED
    BY <2>2, <2>5, <2>6 DEF OwnSums
<1>11. ASSUME NEW p \in Proc, Record(p) PROVE OwnSums'
  <2>1. p = main
    BY <1>c, <1>11 DEF Record, OwnSums, OnlyMain
  <2>2. pc[main] = "record" /\ agg \subseteq Current
    BY <1>c, <1>11, <2>1 DEF Record, OwnSums, CurrentSum
  <2>3. \A q \in Proc : q # main => pc[q] \in {"unborn", "reaped"}
    BY <1>b, <2>2, MainAlone DEF Quiet, PastWait
  <2>4. \A q \in Proc : q # main => pc'[q] = pc[q]
    BY <1>0, <1>11, <2>1 DEF Record, Goto, TypeOK
  <2>5. \/ pc'[main] = "reset"
        \/ pc'[main] = "done" /\ trial' = trial
    BY <1>0, <1>11, <1>d, <2>1 DEF Record, Goto, TypeOK
  <2>6. SameTrial' /\ OnlyMain' /\ MainLives' /\ CurrentRegisters'
    BY <2>3, <2>4, <2>5 DEF SameTrial, OnlyMain, MainLives, CurrentRegisters
  <2>7. CurrentSum'
    BY <1>11, <2>2, <2>5 DEF CurrentSum, Current, Record
  <2>8. OwnTrialOnly'
    <3>1. \A t \in Trials : times'[main][t] = IF t = trial[main] THEN agg ELSE times[main][t]
      BY <1>0, <1>11, <1>d, <2>1 DEF Record, TypeOK
    <3> QED
      BY <1>c, <2>2, <3>1 DEF OwnSums, OwnTrialOnly, Current
  <2> QED
    BY <2>6, <2>7, <2>8 DEF OwnSums
<1>12. ASSUME UNCHANGED vars PROVE OwnSums'
  BY <1>c, <1>12
  DEF vars, OwnSums, SameTrial, Mine, OnlyMain, MainLives, CurrentRegisters, CurrentSum,
      Current, OwnTrialOnly
<1>13. ASSUME NEW p \in Proc, Leave(p) PROVE FALSE
  BY <1>c, <1>13 DEF Leave, OwnSums, OnlyMain
<1>14. ASSUME NEW p \in Proc, Step(p) PROVE OwnSums'
  BY <1>b, <1>1, <1>2, <1>4, <1>5, <1>6, <1>7, <1>8, <1>9, <1>10, <1>11, <1>13, <1>14, Zenon
  DEF Step
<1> QED
  BY <1>12, <1>14 DEF Next, Terminated

LEMMA OwnInvariant == Spec => []OwnInv
  BY OwnInit, OwnStep, ExclusionInvariant, PTL DEF Spec

\* For every number of processes and trials: as long as no fork() failed, the
\* sum main records for a trial holds times of that trial only, although it is
\* shared memory that every process of every trial adds to.
THEOREM OwnTrials == Spec => []OwnTrialOnlyUnlessForkFails
<1>1. OwnInv => OwnTrialOnlyUnlessForkFails
  BY DEF OwnInv, OwnSums, OwnTrialOnlyUnlessForkFails
<1> QED
  BY <1>1, OwnInvariant, PTL

-----------------------------------------------------------------------------
(* Counting.  The last addition before main's own is that of a child of    *)
(* main, since whoever is not a child of main is below one that has not    *)
(* left its wait loop and adds later.                                      *)

First(t, i) == {<<t, i>>}
HasFirst(S) == \E i \in Forks : <<First(trial[main], i), trial[main]>> \in S

\* The children of main exist from their fork() call on.
Called(t, i) ==
    t < trial[main] \/ (t = trial[main] /\ pc[main] # "reset" /\ i <= forks[main])
BornWhenCalled ==
    \A t \in Trials, i \in Forks : pc[First(t, i)] # "unborn" <=> Called(t, i)
AllCalled == pc[main] \notin {"reset", "fork"} => forks[main] = K

\* A child of main has added its time last, or one is still to do so.
FirstCounts ==
    pc[main] # "reset" =>
        \/ HasFirst(agg)
        \/ \E i \in Forks : pc[First(trial[main], i)] \notin {"zombie", "reaped"}

MainLoaded == pc[main] = "store" => HasFirst(reg[main])
MainStored == pc[main] = "record" => HasFirst(agg) /\ <<main, trial[main]>> \in agg

Counted ==
    \A t \in Trials : Recorded(t) =>
        /\ <<main, t>> \in times[main][t]
        /\ \E i \in Forks : <<First(t, i), t>> \in times[main][t]

CountSums ==
    BornWhenCalled /\ AllCalled /\ FirstCounts /\ MainLoaded /\ MainStored /\ Counted

CountInv == failures = 0 => CountSums

LEMMA FirstType ==
    ASSUME NEW t \in Trials, NEW i \in Forks
    PROVE  First(t, i) \in Proc /\ First(t, i) # main
  BY DEF First, Proc, Calls, main

\* A process that main did not create itself is below one that main created in
\* this trial and that is still to leave its wait loop.
LEMMA BelowAFirst ==
    ASSUME ExclusionInv, OwnSums, failures = 0, NEW q \in Proc, q # main,
           pc[q] \notin {"unborn", "reaped"},
           \A i \in Forks : q # First(trial[main], i)
    PROVE  \E i \in Forks : pc[First(trial[main], i)] \notin Quiet
<1>1. Descendant(main, q)
  BY DEF Descendant, main
<1>2. PICK c \in Children[main] : c \in Proc /\ (c = q \/ Descendant(c, q))
  BY <1>1, MainIsProc, ThroughAChild
<1>3. PICK n \in Calls : c = {n}
  BY <1>2, MainIsProc DEF Children, main
<1>4. ASSUME pc[c] \notin {"unborn", "reaped"}
      PROVE  \E i \in Forks : c = First(trial[main], i)
  <2>1. c # main /\ trial[c] = trial[main] /\ Mine(c) # {}
    BY <1>2, <1>3, <1>4 DEF OwnSums, SameTrial, main
  <2>2. PICK i \in Forks : <<trial[main], i>> \in c
    BY <2>1 DEF Mine
  <2> QED
    BY <1>3, <2>2 DEF First
<1>5. c # q
  BY <1>4
<1>6. pc[c] \notin Quiet
  BY <1>2, <1>5 DEF ExclusionInv, QuietBelow
<1>7. \E i \in Forks : c = First(trial[main], i)
  BY <1>4, <1>6 DEF Quiet, PastWait
<1> QED
  BY <1>6, <1>7

\* A step of p within its trial that leaves the sum alone, and in which p
\* does not exit.
LEMMA PlainCount ==
    ASSUME TypeOK, CountSums, NEW p \in Proc, NEW label,
           pc[p] \notin {"unborn", "reset", "record", "done"}, Goto(p, label),
           label \notin {"unborn", "reset", "fork", "store", "record", "done"},
           label \in {"zombie", "reaped"} => pc[p] = "zombie",
           p = main => forks[p] = K,
           UNCHANGED <<trial, forks, reg, times, agg>>
    PROVE  CountSums'
<1>1. \A q \in Proc : pc'[q] = IF q = p THEN label ELSE pc[q]
  BY DEF Goto, TypeOK
<1>2. trial[main] \in Trials /\ main \in Proc
  BY MainIsProc DEF TypeOK
<1>3. BornWhenCalled'
  BY <1>1, <1>2, FirstType DEF CountSums, BornWhenCalled, Called
<1>4. AllCalled' /\ MainLoaded' /\ MainStored' /\ Counted'
  BY <1>1, <1>2 DEF CountSums, AllCalled, MainLoaded, MainStored, Counted, HasFirst, Recorded
<1>5. FirstCounts'
  BY <1>1, <1>2, FirstType DEF CountSums, FirstCounts, HasFirst
<1> QED
  BY <1>3, <1>4, <1>5 DEF CountSums

LEMMA CountInit == Init => CountInv
<1> SUFFICES ASSUME Init PROVE CountSums
  BY DEF CountInv
<1>1. pc[main] = "reset" /\ trial[main] = 1
  BY MainIsProc DEF Init
<1>2. \A t \in Trials, i \in Forks : pc[First(t, i)] = "unborn" /\ ~Called(t, i)
  BY <1>1, FirstType, NTrialsAssumption DEF Init, Called, Trials
<1>3. \A t \in Trials : ~Recorded(t)
  BY <1>1, NTrialsAssumption DEF Recorded, Trials
<1> QED
  BY <1>1, <1>2, <1>3
  DEF CountSums, BornWhenCalled, AllCalled, FirstCounts, MainLoaded, MainStored, Counted

LEMMA CountStep == ExclusionInv /\ OwnInv /\ CountInv /\ [Next]_vars => CountInv'
<1> SUFFICES ASSUME ExclusionInv, OwnInv, CountInv, [Next]_vars, failures' = 0
             PROVE  CountSums'
  BY DEF CountInv
<1>0. TypeOK /\ TypeOK'
  BY TypeStep DEF ExclusionInv
<1>b. failures = 0 /\ \A p \in Proc : ~ForkFails(p)
  BY <1>0, NoFailure
<1>c. OwnSums /\ CountSums
  BY <1>b DEF OwnInv, CountInv
<1>d. main \in Proc /\ trial[main] \in Trials /\ forks[main] \in 0..K
  BY <1>0, MainIsProc DEF TypeOK
<1>1. ASSUME NEW p \in Proc, Reset(p) PROVE CountSums'
  <2>1. p = main
    BY <1>1, <1>c DEF Reset, OwnSums, OnlyMain
  <2>2. /\ pc[main] = "reset" /\ pc'[main] = "fork"
        /\ \A q \in Proc : q # main => pc'[q] = pc[q]
        /\ forks'[main] = 0 /\ UNCHANGED <<trial, times>>
    BY <1>0, <1>1, <2>1 DEF Reset, Goto, TypeOK
  <2>3. BornWhenCalled'
    <3> SUFFICES ASSUME NEW t \in Trials, NEW i \in Forks
                 PROVE  pc'[First(t, i)] # "unborn" <=> Called(t, i)'
      BY DEF BornWhenCalled
    <3>1. pc'[First(t, i)] = pc[First(t, i)]
      BY <2>2, FirstType
    <3>2. Called(t, i)' <=> t < trial[main]
      BY <2>2, KAssumption DEF Called, Forks
    <3> QED
      BY <1>c, <2>2, <3>1, <3>2 DEF CountSums, BornWhenCalled, Called
  <2>4. FirstCounts'
    <3>1. 1 \in Forks
      BY KAssumption DEF Forks
    <3>2. pc[First(trial[main], 1)] = "unborn"
      BY <1>c, <1>d, <2>2, <3>1 DEF CountSums, BornWhenCalled, Called, Trials
    <3>3. pc'[First(trial'[main], 1)] = "unborn"
      BY <1>d, <2>2, <3>1, <3>2, FirstType
    <3> QED
      BY <3>1, <3>3 DEF FirstCounts
  <2>5. AllCalled' /\ MainLoaded' /\ MainStored'
    BY <2>2 DEF AllCalled, MainLoaded, MainStored
  <2>6. Counted'
    BY <1>c, <2>2 DEF CountSums, Counted, Recorded
  <2> QED
    BY <2>3, <2>4, <2>5, <2>6 DEF CountSums
<1>2. ASSUME NEW p \in Proc, Fork(p) PROVE CountSums'
  <2> DEFINE child == p \union {<<trial[p], forks[p] + 1>>}
  <2>1. child \in Proc /\ child # main /\ forks[p] + 1 \in Forks
    <3>1. forks[p] + 1 \in Forks /\ <<trial[p], forks[p] + 1>> \in Calls
      BY <1>0, <1>2, KAssumption DEF Fork, TypeOK, Calls, Forks
    <3> QED
      BY <3>1 DEF Proc, main
  <2>2. /\ pc[p] = "fork" /\ forks[p] < K
        /\ pc' = [pc EXCEPT ![child] = "fork"]
        /\ trial' = [trial EXCEPT ![child] = trial[p]]
        /\ forks' = [forks EXCEPT ![p] = @ + 1, ![child] = forks[p] + 1]
        /\ times' = [times EXCEPT ![child] = times[p]]
        /\ UNCHANGED <<reg, agg>>
    BY <1>2 DEF Fork
  <2>3. p = main => child = First(trial[main], forks[main] + 1)
    BY DEF First, main
  <2>4. ASSUME p # main, NEW t \in Trials, NEW i \in Forks PROVE child # First(t, i)
    <3>1. <<trial[p], forks[p] + 1>> \notin p
      <4>1. p \in Proc /\ pc[p] # "unborn"
        BY <2>2
      <4>2. \A m \in p : m[1] < trial[p] \/ (m[1] = trial[p] /\ m[2] <= forks[p])
        BY <4>1 DEF ExclusionInv, HistoryBehind
      <4>3. trial[p] \in Nat /\ forks[p] \in Nat
        BY <1>0, KAssumption, NTrialsAssumption DEF TypeOK, Trials
      <4> DEFINE call == <<trial[p], forks[p] + 1>>
      <4>4. call[1] = trial[p] /\ call[2] = forks[p] + 1
        OBVIOUS
      <4>5. ~(call[1] < trial[p]) /\ ~(call[2] <= forks[p])
        BY <4>3, <4>4
      <4> HIDE DEF call
      <4>6. call \notin p
        BY <4>2, <4>5
      <4> QED
        BY <4>6 DEF call
    <3>2. PICK m \in p : TRUE
      BY <2>4 DEF main
    <3>3. child = First(t, i) => m = <<t, i>> /\ <<trial[p], forks[p] + 1>> = <<t, i>>
      BY <3>2 DEF First
    <3> QED
      BY <3>1, <3>2, <3>3
  <2> HIDE DEF child
  <2>5. /\ pc'[main] = pc[main] /\ trial'[main] = trial[main] /\ times'[main] = times[main]
        /\ forks'[main] = IF p = main THEN forks[main] + 1 ELSE forks[main]
    BY <1>0, <1>d, <2>1, <2>2 DEF TypeOK
  <2>6. \A q \in Proc : pc'[q] = IF q = child THEN "fork" ELSE pc[q]
    BY <1>0, <2>1, <2>2 DEF TypeOK
  <2>7. BornWhenCalled'
    <3> SUFFICES ASSUME NEW t \in Trials, NEW i \in Forks
                 PROVE  pc'[First(t, i)] # "unborn" <=> Called(t, i)'
      BY DEF BornWhenCalled
    <3>1. pc[First(t, i)] # "unborn" <=> Called(t, i)
      BY <1>c DEF CountSums, BornWhenCalled
    <3>2. CASE p # main
      BY <2>4, <2>5, <2>6, <3>1, <3>2, FirstType DEF Called
    <3>3. CASE p = main
      <4>1. First(t, i) = child <=> t = trial[main] /\ i = forks[main] + 1
        <5>1. First(t, i) = First(trial[main], forks[main] + 1)
                 <=> <<t, i>> = <<trial[main], forks[main] + 1>>
          BY Zenon DEF First
        <5> QED
          BY <2>3, <3>3, <5>1
      <4>2. Called(t, i)' <=> Called(t, i) \/ (t = trial[main] /\ i = forks[main] + 1)
        BY <1>d, <2>2, <2>5, <3>3, KAssumption DEF Called, Forks
      <4> QED
        BY <2>6, <3>1, <4>1, <4>2, FirstType
    <3> QED
      BY <3>2, <3>3
  <2>8. FirstCounts'
    <3>1. HasFirst(agg)' <=> HasFirst(agg)
      BY <2>2, <2>5 DEF HasFirst
    <3>2. \A i \in Forks : pc'[First(trial[main], i)] \in {"zombie", "reaped"}
                              => pc[First(trial[main], i)] \in {"zombie", "reaped"}
      BY <1>d, <2>6, FirstType
    <3> QED
      BY <1>c, <2>5, <3>1, <3>2 DEF CountSums, FirstCounts
  <2>9. AllCalled' /\ MainLoaded' /\ MainStored'
    BY <1>c, <2>2, <2>5 DEF CountSums, AllCalled, MainLoaded, MainStored, HasFirst
  <2>10. Counted'
    BY <1>c, <2>5 DEF CountSums, Counted, Recorded
  <2> QED
    BY <2>7, <2>8, <2>9, <2>10 DEF CountSums
<1>4. ASSUME NEW p \in Proc, TakeBranch(p) PROVE CountSums'
  BY <1>0, <1>c, <1>4, PlainCount DEF TakeBranch
<1>5. \A p \in Proc : ~FallThrough(p)
  BY <1>b, NoFallThrough
<1>6. ASSUME NEW p \in Proc, Reap(p) PROVE CountSums'
  <2>1. PICK c \in Children[p] : pc[c] = "zombie" /\ Goto(c, "reaped")
    BY <1>6 DEF Reap
  <2>2. c \in Proc /\ c # main
    BY <2>1 DEF Children, Proc, main
  <2> QED
    BY <1>0, <1>c, <1>6, <2>1, <2>2, PlainCount DEF Reap
<1>7. ASSUME NEW p \in Proc, EndWait(p) PROVE CountSums'
  <2>1. p = main => forks[p] = K
    BY <1>7, <1>c DEF EndWait, CountSums, AllCalled
  <2> QED
    BY <1>0, <1>c, <1>7, <2>1, PlainCount DEF EndWait
<1>8. ASSUME NEW p \in Proc, ReadBlock(p) PROVE CountSums'
  <2>1. p = main => forks[p] = K
    BY <1>8, <1>c DEF ReadBlock, CountSums, AllCalled
  <2> QED
    BY <1>0, <1>c, <1>8, <2>1, PlainCount DEF ReadBlock
<1>9. ASSUME NEW p \in Proc, Load(p) PROVE CountSums'
  <2>1. /\ pc[p] = "load" /\ UNCHANGED <<trial, forks, times, agg>>
        /\ \A q \in Proc : pc'[q] = IF q = p THEN "store" ELSE pc[q]
        /\ \A q \in Proc : reg'[q] = IF q = p THEN agg ELSE reg[q]
    BY <1>0, <1>9 DEF Load, Goto, TypeOK
  <2>2. p = main => HasFirst(agg)
    <3> SUFFICES ASSUME p = main PROVE HasFirst(agg)
      OBVIOUS
    <3>1. \A q \in Proc : q # main => pc[q] \in {"unborn", "reaped"}
      BY <1>b, <2>1, MainAlone DEF Quiet, PastWait
    <3>2. forks[main] = K
      BY <1>c, <2>1 DEF CountSums, AllCalled
    <3>3. \A i \in Forks : pc[First(trial[main], i)] = "reaped"
      BY <1>c, <1>d, <2>1, <3>1, <3>2, FirstType
      DEF CountSums, BornWhenCalled, Called, Forks
    <3> QED
      BY <1>c, <2>1, <3>3 DEF CountSums, FirstCounts
  <2>3. BornWhenCalled'
    BY <1>c, <1>d, <2>1, FirstType DEF CountSums, BornWhenCalled, Called
  <2>4. FirstCounts'
    BY <1>c, <1>d, <2>1, FirstType DEF CountSums, FirstCounts, HasFirst
  <2>5. MainLoaded'
    BY <1>c, <1>d, <2>1, <2>2 DEF CountSums, MainLoaded, HasFirst
  <2>6. AllCalled' /\ MainStored' /\ Counted'
    BY <1>c, <1>d, <2>1 DEF CountSums, AllCalled, MainStored, Counted, HasFirst, Recorded
  <2> QED
    BY <2>3, <2>4, <2>5, <2>6 DEF CountSums
<1>10. ASSUME NEW p \in Proc, Store(p) PROVE CountSums'
  <2>1. /\ pc[p] = "store" /\ UNCHANGED <<trial, forks, times>>
        /\ \A q \in Proc : pc'[q] = IF q = p
                                    THEN IF Mine(p) = {} THEN "record" ELSE "zombie"
                                    ELSE pc[q]
        /\ \A q \in Proc : q # p => reg'[q] = reg[q]
        /\ agg' = reg[p] \union {<<p, trial[p]>>}
    BY <1>0, <1>10 DEF Store, Goto, TypeOK
  <2>2. trial[p] = trial[main] /\ (Mine(p) = {} <=> p = main)
    BY <1>c, <2>1, MainIsProc DEF OwnSums, SameTrial
  <2>3. p # main => pc[main] \notin {"record", "store", "reset", "done"}
    <3>1. p # main => pc[main] \notin Quiet
      BY <1>b, <2>1, MainAlone
    <3> QED
      BY <3>1 DEF Quiet, PastWait
  <2>4. BornWhenCalled'
    BY <1>c, <1>d, <2>1, <2>2, FirstType DEF CountSums, BornWhenCalled, Called
  <2>5. p = main => HasFirst(agg)'
    BY <1>c, <2>1 DEF CountSums, MainLoaded, HasFirst
  <2>6. FirstCounts'
    <3>1. CASE p = main
      BY <2>5, <3>1 DEF FirstCounts
    <3>2. CASE \E i \in Forks : p = First(trial[main], i)
      BY <2>1, <2>2, <3>2 DEF FirstCounts, HasFirst
    <3>3. CASE p # main /\ \A i \in Forks : p # First(trial[main], i)
      <4>1. PICK i \in Forks : pc[First(trial[main], i)] \notin Quiet
        BY <1>b, <1>c, <2>1, <3>3, BelowAFirst
      <4>2. pc'[First(trial'[main], i)] \notin {"zombie", "reaped"}
        BY <1>d, <2>1, <3>3, <4>1, FirstType DEF Quiet, PastWait
      <4> QED
        BY <4>2 DEF FirstCounts
    <3> QED
      BY <3>1, <3>2, <3>3
  <2>7. AllCalled' /\ MainLoaded'
    BY <1>c, <1>d, <2>1, <2>2, <2>3 DEF CountSums, AllCalled, MainLoaded
  <2>8. MainStored'
    BY <1>c, <1>d, <2>1, <2>2, <2>3, <2>5 DEF MainStored
  <2>9. Counted'
    <3>1. pc[main] # "done" /\ pc'[main] # "done"
      BY <1>d, <2>1, <2>3
    <3> QED
      BY <1>c, <2>1, <3>1 DEF CountSums, Counted, Recorded
  <2> QED
    BY <2>4, <2>6, <2>7, <2>8, <2>9 DEF CountSums
<1>11. ASSUME NEW p \in Proc, Record(p) PROVE CountSums'
  <2>1. p = main
    BY <1>c, <1>11 DEF Record, OwnSums, OnlyMain
  <2>2. /\ pc[main] = "record"
        /\ HasFirst(agg) /\ <<main, trial[main]>> \in agg
        /\ forks[main] = K
    BY <1>c, <1>11, <2>1 DEF Record, CountSums, MainStored, AllCalled
  <2>3. /\ UNCHANGED <<forks, agg>>
        /\ \A q \in Proc : q # main => pc'[q] = pc[q]
        /\ \A t \in Trials : times'[main][t] = IF t = trial[main] THEN agg ELSE times[main][t]
    BY <1>0, <1>11, <1>d, <2>1 DEF Record, Goto, TypeOK
  <2>4. \/ trial[main] < NTrials /\ trial'[main] = trial[main] + 1 /\ pc'[main] = "reset"
        \/ trial[main] = NTrials /\ trial'[main] = trial[main] /\ pc'[main] = "done"
    BY <1>0, <1>11, <1>d, <2>1, NTrialsAssumption DEF Record, Goto, TypeOK, Trials
  <2>5. \A t \in Trials, i \in Forks : Called(t, i)' <=> Called(t, i)
    BY <1>d, <2>2, <2>3, <2>4, NTrialsAssumption, KAssumption DEF Called, Trials, Forks
  <2>6. BornWhenCalled'
    BY <1>c, <2>3, <2>5, FirstType DEF CountSums, BornWhenCalled
  <2>7. AllCalled' /\ MainLoaded' /\ MainStored'
    BY <2>2, <2>3, <2>4 DEF AllCalled, MainLoaded, MainStored
  <2>8. FirstCounts'
    BY <2>2, <2>3, <2>4 DEF FirstCounts, HasFirst
  <2>9. Counted'
    <3> SUFFICES ASSUME NEW t \in Trials, Recorded(t)'
                 PROVE  /\ <<main, t>> \in times'[main][t]
                        /\ \E i \in Forks : <<First(t, i), t>> \in times'[main][t]
      BY DEF Counted
    <3>1. CASE t = trial[main]
      BY <2>2, <2>3, <3>1 DEF HasFirst
    <3>2. CASE t # trial[main]
      <4>1. Recorded(t)
        BY <1>d, <2>4, <3>2, NTrialsAssumption DEF Recorded, Trials
      <4> QED
        BY <1>c, <2>3, <3>2, <4>1 DEF CountSums, Counted
    <3> QED
      BY <3>1, <3>2
  <2> QED
    BY <2>6, <2>7, <2>8, <2>9 DEF CountSums
<1>12. ASSUME UNCHANGED vars PROVE CountSums'
  BY <1>c, <1>12
  DEF vars, CountSums, BornWhenCalled, Called, AllCalled, FirstCounts, HasFirst, MainLoaded,
      MainStored, Counted, Recorded
<1>13. ASSUME NEW p \in Proc, Leave(p) PROVE FALSE
  BY <1>c, <1>13 DEF Leave, OwnSums, OnlyMain
<1>14. ASSUME NEW p \in Proc, Step(p) PROVE CountSums'
  BY <1>b, <1>1, <1>2, <1>4, <1>5, <1>6, <1>7, <1>8, <1>9, <1>10, <1>11, <1>13, <1>14, Zenon
  DEF Step
<1> QED
  BY <1>12, <1>14 DEF Next, Terminated

\* For every number of processes and trials: as long as no fork() failed, a
\* recorded sum counts main and at least one of its children, however the
\* unsynchronised additions overwrite each other.
THEOREM LeastCount == Spec => []CountsMainAndAChild
<1>1. CountInv => CountsMainAndAChild
  BY DEF CountInv, CountSums, Counted, CountsMainAndAChild, First
<1>2. Spec => []CountInv
  BY CountInit, CountStep, OwnInvariant, ExclusionInvariant, PTL DEF Spec
<1> QED
  BY <1>1, <1>2, PTL

-----------------------------------------------------------------------------
(* Who measures at the same time, and from what file.  A process that       *)
(* exists was born by calls of the current trial only, so that its place in *)
(* the chain of branches is its name.                                       *)

ThisTrial ==
    \A p \in Proc : pc[p] \notin {"unborn", "reaped"} => \A m \in p : m[1] = trial[p]

Cold == \A p \in Proc : pc[p] = "read" => File(p) \notin cache

ReadInv == failures = 0 => ThisTrial /\ Cold

\* The calls a process was born by, from those that returned 0 in it.
LEMMA Birth ==
    ASSUME OwnSums, ThisTrial, NEW p \in Proc, pc[p] \notin {"unborn", "reaped"}
    PROVE  /\ Mine(p) \subseteq Forks
           /\ \A i \in Forks : <<trial[main], i>> \in p <=> i \in Mine(p)
           /\ \A m \in p : m = <<trial[main], m[2]>> /\ m[2] \in Mine(p)
<1>1. trial[p] = trial[main]
  BY DEF OwnSums, SameTrial
<1>2. ASSUME NEW m \in p PROVE m = <<trial[main], m[2]>> /\ m[2] \in Mine(p)
  <2>1. m \in Calls /\ m[1] = trial[main]
    BY <1>1 DEF ThisTrial, Proc
  <2>2. m = <<trial[main], m[2]>> /\ m[2] \in Forks
    BY <2>1 DEF Calls
  <2> QED
    BY <1>1, <2>2 DEF Mine
<1> QED
  BY <1>1, <1>2 DEF Mine

LEMMA SameBirth ==
    ASSUME OwnSums, ThisTrial, NEW p \in Proc, NEW q \in Proc, Mine(p) = Mine(q),
           pc[p] \notin {"unborn", "reaped"}, pc[q] \notin {"unborn", "reaped"}
    PROVE  p = q
<1>1. ASSUME NEW m \in p PROVE m \in q
  <2>1. m = <<trial[main], m[2]>> /\ m[2] \in Mine(q) /\ m[2] \in Forks
    BY Birth
  <2> QED
    BY <2>1, Birth
<1>2. ASSUME NEW m \in q PROVE m \in p
  <2>1. m = <<trial[main], m[2]>> /\ m[2] \in Mine(p) /\ m[2] \in Forks
    BY Birth
  <2> QED
    BY <2>1, Birth
<1> QED
  BY <1>1, <1>2

\* No two processes that exist read the same file.
LEMMA OwnFile ==
    ASSUME OwnSums, ThisTrial, NEW p \in Proc, NEW q \in Proc, File(p) = File(q),
           pc[p] \notin {"unborn", "reaped"}, pc[q] \notin {"unborn", "reaped"}
    PROVE  p = q
<1>1. ASSUME NEW r \in Proc PROVE BranchTable[K][File(r)] = Mine(r)
  <2>1. Mine(r) \in SUBSET Forks
    BY DEF Mine
  <2>2. PICK f \in Files : BranchTable[K][f] = Mine(r)
    BY <2>1, BranchesTotal
  <2> QED
    BY <2>2, Zenon DEF File
<1> QED
  BY <1>1, SameBirth

LEMMA ReadInit == Init => ReadInv
  BY DEF Init, ReadInv, ThisTrial, Cold, main

\* A step of p that leaves the trials alone, and the cache too or empties it.
LEMMA ColdMove ==
    ASSUME TypeOK, ThisTrial, Cold, NEW p \in Proc, NEW label,
           pc[p] \notin {"unborn", "reaped"}, Goto(p, label), UNCHANGED trial,
           cache' = {} \/ (cache' = cache /\ label # "read")
    PROVE  ThisTrial' /\ Cold'
<1>1. \A q \in Proc : pc'[q] = IF q = p THEN label ELSE pc[q]
  BY DEF Goto, TypeOK
<1>2. \A q \in Proc : File(q)' = File(q)
  BY DEF File, Mine
<1> QED
  BY <1>1, <1>2 DEF ThisTrial, Cold

LEMMA ReadStep == ExclusionInv /\ OwnInv /\ ReadInv /\ [Next]_vars => ReadInv'
<1> SUFFICES ASSUME ExclusionInv, OwnInv, ReadInv, [Next]_vars, failures' = 0
             PROVE  ThisTrial' /\ Cold'
  BY DEF ReadInv
<1>0. TypeOK
  BY DEF ExclusionInv
<1>b. failures = 0 /\ \A p \in Proc : ~ForkFails(p)
  BY <1>0, NoFailure
<1>c. OwnSums /\ ThisTrial /\ Cold
  BY <1>b DEF OwnInv, ReadInv
<1>1. ASSUME NEW p \in Proc, Reset(p) PROVE ThisTrial' /\ Cold'
  BY <1>0, <1>c, <1>1, ColdMove DEF Reset
<1>2. ASSUME NEW p \in Proc, Fork(p) PROVE ThisTrial' /\ Cold'
  <2> DEFINE call == <<trial[p], forks[p] + 1>>
             child == p \union {call}
  <2>1. child \in Proc
    BY <1>0, <1>2, KAssumption DEF Fork, TypeOK, Proc, Calls, Forks
  <2>2. /\ pc[p] = "fork" /\ cache' = cache
        /\ pc' = [pc EXCEPT ![child] = "fork"]
        /\ trial' = [trial EXCEPT ![child] = trial[p]]
    BY <1>2 DEF Fork
  <2>3. \A m \in child : m[1] = trial[p]
    BY <1>c, <2>2 DEF ThisTrial
  <2> HIDE DEF child, call
  <2>4. \A q \in Proc : /\ pc'[q] = IF q = child THEN "fork" ELSE pc[q]
                        /\ trial'[q] = IF q = child THEN trial[p] ELSE trial[q]
    BY <1>0, <2>1, <2>2 DEF TypeOK
  <2>5. ThisTrial'
    BY <1>c, <2>3, <2>4 DEF ThisTrial
  <2>6. \A q \in Proc : q # child => File(q)' = File(q)
    BY <2>4 DEF File, Mine
  <2>7. Cold'
    BY <1>c, <2>2, <2>4, <2>6 DEF Cold
  <2> QED
    BY <2>5, <2>7
<1>4. ASSUME NEW p \in Proc, TakeBranch(p) PROVE ThisTrial' /\ Cold'
  BY <1>0, <1>c, <1>4, ColdMove DEF TakeBranch
<1>5. \A p \in Proc : ~FallThrough(p)
  BY <1>b, NoFallThrough
<1>6. ASSUME NEW p \in Proc, Reap(p) PROVE ThisTrial' /\ Cold'
  <2>1. PICK c \in Children[p] : pc[c] = "zombie" /\ Goto(c, "reaped")
    BY <1>6 DEF Reap
  <2>2. c \in Proc
    BY <2>1 DEF Children, Proc
  <2> QED
    BY <1>0, <1>c, <1>6, <2>1, <2>2, ColdMove DEF Reap
<1>7. ASSUME NEW p \in Proc, EndWait(p) PROVE ThisTrial' /\ Cold'
  BY <1>0, <1>c, <1>7, ColdMove DEF EndWait
<1>8. ASSUME NEW p \in Proc, ReadBlock(p) PROVE ThisTrial' /\ Cold'
  <2>1. /\ pc[p] = "read" /\ cache' \in {cache, cache \union {File(p)}} /\ UNCHANGED trial
        /\ \A q \in Proc : pc'[q] = IF q = p THEN "load" ELSE pc[q]
    BY <1>0, <1>8 DEF ReadBlock, Goto, TypeOK
  <2>2. \A q \in Proc : File(q)' = File(q)
    BY <2>1 DEF File, Mine
  <2>3. \A q \in Proc : q # p /\ pc[q] = "read" => File(q) # File(p)
    BY <1>c, <2>1, OwnFile
  <2> QED
    BY <1>c, <2>1, <2>2, <2>3 DEF ThisTrial, Cold
<1>9. ASSUME NEW p \in Proc, Load(p) PROVE ThisTrial' /\ Cold'
  BY <1>0, <1>c, <1>9, ColdMove DEF Load
<1>10. ASSUME NEW p \in Proc, Store(p) PROVE ThisTrial' /\ Cold'
  BY <1>0, <1>c, <1>10, ColdMove DEF Store
<1>11. ASSUME NEW p \in Proc, Record(p) PROVE ThisTrial' /\ Cold'
  <2>1. p = main /\ pc[main] = "record"
    BY <1>c, <1>11 DEF Record, OwnSums, OnlyMain
  <2>2. \A q \in Proc : q # main => pc[q] \in {"unborn", "reaped"}
    BY <1>b, <2>1, MainAlone DEF Quiet, PastWait
  <2>3. \A q \in Proc : q # main => pc'[q] = pc[q]
    BY <1>0, <1>11, <2>1 DEF Record, Goto, TypeOK
  <2>4. pc'[main] # "read"
    BY <1>0, <1>11, <2>1, MainIsProc DEF Record, Goto, TypeOK
  <2>5. \A m \in main : FALSE
    BY DEF main
  <2> QED
    BY <2>2, <2>3, <2>4, <2>5 DEF ThisTrial, Cold
<1>12. ASSUME UNCHANGED vars PROVE ThisTrial' /\ Cold'
  BY <1>c, <1>12 DEF vars, ThisTrial, Cold, File, Mine
<1>13. ASSUME NEW p \in Proc, Leave(p) PROVE FALSE
  BY <1>c, <1>13 DEF Leave, OwnSums, OnlyMain
<1>14. ASSUME NEW p \in Proc, Step(p) PROVE ThisTrial' /\ Cold'
  BY <1>b, <1>1, <1>2, <1>4, <1>5, <1>6, <1>7, <1>8, <1>9, <1>10, <1>11, <1>13, <1>14, Zenon
  DEF Step
<1> QED
  BY <1>12, <1>14 DEF Next, Terminated

LEMMA ReadInvariant == Spec => []ReadInv
  BY ReadInit, ReadStep, OwnInvariant, ExclusionInvariant, PTL DEF Spec

\* For every number of processes and trials: as long as no fork() failed, the
\* block a process is about to time is not in the page cache, although others
\* read between its dropping the cache and its read: they read other files.
THEOREM ColdReads == Spec => []ColdRead
<1>1. ReadInv => ColdRead
  BY DEF ReadInv, Cold, ColdRead
<1> QED
  BY <1>1, ReadInvariant, PTL

\* A process and the one that differs from it by the last fork() only never
\* measure together: one is the child of the other.
LEMMA LastForkApart ==
    ASSUME ExclusionInv, OwnSums, ThisTrial, failures = 0, NEW p \in Proc, NEW q \in Proc,
           pc[p] = "read", pc[q] = "read", K \notin Mine(p), Mine(q) = Mine(p) \union {K}
    PROVE  FALSE
<1>1. ASSUME NEW m \in p PROVE m \in q
  <2>1. m = <<trial[main], m[2]>> /\ m[2] \in Mine(q) /\ m[2] \in Forks
    BY Birth
  <2> QED
    BY <2>1, Birth
<1>2. ASSUME NEW m \in p, NEW n \in q \ p PROVE Earlier(m, n)
  <2>1. m[1] = trial[main] /\ m[2] \in Forks /\ m[2] # K
    <3>1. m = <<trial[main], m[2]>> /\ m[2] \in Mine(p) /\ Mine(p) \subseteq Forks
      BY Birth
    <3> QED
      BY <3>1
  <2>2. n = <<trial[main], n[2]>> /\ n[2] \in Mine(q) /\ n[2] \in Forks
    BY Birth
  <2>3. n[2] \notin Mine(p)
    BY <2>2, Birth
  <2>4. n[1] = trial[main] /\ n[2] = K
    BY <2>2, <2>3
  <2>5. m[2] < n[2]
    BY <2>1, <2>4, KAssumption DEF Forks
  <2> QED
    BY <2>1, <2>4, <2>5 DEF Earlier
<1>3. Descendant(p, q)
  BY <1>1, <1>2 DEF Descendant
<1> QED
  BY <1>3 DEF ExclusionInv, QuietBelow, Quiet, PastWait

\* For every number of processes and trials: as long as no fork() failed, at
\* most half of the processes the experiment is named for measure together.
THEOREM HalfContends == Spec => []HalfAtOnce
<1>1. ExclusionInv /\ OwnInv /\ ReadInv => HalfAtOnce
  <2> DEFINE Reading == { p \in Proc : pc[p] = "read" }
             Last == 1..(K - 1)
             f == [p \in Reading |-> Mine(p) \ {K}]
  <2> SUFFICES ASSUME ExclusionInv, OwnInv, ReadInv, failures = 0
               PROVE  Cardinality(Reading) <= 2 ^ (K - 1)
    BY DEF HalfAtOnce
  <2>1. OwnSums /\ ThisTrial
    BY DEF OwnInv, ReadInv
  <2>2. IsFiniteSet(SUBSET Last) /\ Cardinality(SUBSET Last) = 2 ^ (K - 1)
    <3>1. IsFiniteSet(Last) /\ Cardinality(Last) = K - 1
      BY KAssumption, FS_Interval
    <3> QED
      BY <3>1, FS_SUBSET
  <2>3. f \in [Reading -> SUBSET Last]
    <3>1. \A p \in Reading : Mine(p) \ {K} \subseteq Last
      BY KAssumption DEF Mine, Forks
    <3> QED
      BY <3>1
  <2>4. ASSUME NEW p \in Reading, NEW q \in Reading, f[p] = f[q] PROVE p = q
    <3>1. Mine(p) \ {K} = Mine(q) \ {K}
      BY <2>4
    <3>2. \/ Mine(p) = Mine(q)
          \/ K \notin Mine(p) /\ Mine(q) = Mine(p) \union {K}
          \/ K \notin Mine(q) /\ Mine(p) = Mine(q) \union {K}
      BY <3>1
    <3>3. Mine(p) = Mine(q)
      BY <2>1, <3>2, LastForkApart
    <3> QED
      BY <2>1, <3>3, SameBirth
  <2>5. f \in Injection(Reading, SUBSET Last)
    BY <2>3, <2>4 DEF Injection, IsInjective
  <2> QED
    BY <2>2, <2>5, FS_Injection
<1> QED
  BY <1>1, ExclusionInvariant, OwnInvariant, ReadInvariant, PTL

-----------------------------------------------------------------------------
(* The section for two processes, in which there is nobody to race with:    *)
(* main waits for the only other process before it adds its own time.       *)

\* The process of a sample was born in the trial of the sample.
Named(S) == \A s \in S : \A m \in s[1] : m[1] = s[2]

AllNamed ==
    /\ Named(agg)
    /\ \A p \in Proc : Named(reg[p])
    /\ \A t \in Trials : Named(times[main][t])

NameInv == failures = 0 => AllNamed

LEMMA NameInit == Init => NameInv
  BY MainIsProc DEF Init, NameInv, AllNamed, Named

LEMMA NameStep == ExclusionInv /\ OwnInv /\ ReadInv /\ NameInv /\ [Next]_vars => NameInv'
<1> SUFFICES ASSUME ExclusionInv, OwnInv, ReadInv, NameInv, [Next]_vars, failures' = 0
             PROVE  AllNamed'
  BY DEF NameInv
<1>0. TypeOK
  BY DEF ExclusionInv
<1>b. failures = 0
  BY <1>0, NoFailure
<1>c. OwnSums /\ ThisTrial /\ AllNamed
  BY <1>b DEF OwnInv, ReadInv, NameInv
<1>d. main \in Proc
  BY MainIsProc
<1>1. ASSUME NEW p \in Proc, Reset(p) PROVE AllNamed'
  BY <1>c, <1>1 DEF Reset, AllNamed, Named
<1>2. ASSUME NEW p \in Proc, Fork(p) PROVE AllNamed'
  <2> DEFINE child == p \union {<<trial[p], forks[p] + 1>>}
  <2>1. child # main
    BY DEF main
  <2>2. times' = [times EXCEPT ![child] = times[p]] /\ UNCHANGED <<reg, agg>>
    BY <1>2 DEF Fork
  <2> HIDE DEF child
  <2>3. times'[main] = times[main]
    BY <1>0, <1>d, <2>1, <2>2 DEF TypeOK
  <2> QED
    BY <1>c, <2>2, <2>3 DEF AllNamed, Named
<1>3. ASSUME NEW p \in Proc,
             \/ ForkFails(p) \/ TakeBranch(p) \/ FallThrough(p) \/ Reap(p) \/ EndWait(p)
             \/ ReadBlock(p) \/ Leave(p)
      PROVE  AllNamed'
  <2>1. UNCHANGED <<reg, agg, times>>
    BY <1>3 DEF ForkFails, TakeBranch, FallThrough, Reap, EndWait, ReadBlock, Leave
  <2> QED
    BY <1>c, <2>1 DEF AllNamed, Named
<1>4. ASSUME NEW p \in Proc, Load(p) PROVE AllNamed'
  <2>1. agg' = agg /\ times' = times /\ \A q \in Proc : reg'[q] = IF q = p THEN agg ELSE reg[q]
    BY <1>0, <1>4 DEF Load, TypeOK
  <2> QED
    BY <1>c, <2>1 DEF AllNamed, Named
<1>5. ASSUME NEW p \in Proc, Store(p) PROVE AllNamed'
  <2>1. /\ times' = times /\ \A q \in Proc : reg'[q] = IF q = p THEN {} ELSE reg[q]
        /\ agg' = reg[p] \union {<<p, trial[p]>>} /\ pc[p] = "store"
    BY <1>0, <1>5 DEF Store, TypeOK
  <2>2. \A m \in p : m[1] = trial[p]
    BY <1>c, <2>1 DEF ThisTrial
  <2> QED
    BY <1>c, <2>1, <2>2 DEF AllNamed, Named
<1>6. ASSUME NEW p \in Proc, Record(p) PROVE AllNamed'
  <2>1. reg' = reg /\ agg' = agg /\ \A t \in Trials : times'[main][t] \in {agg, times[main][t]}
    BY <1>0, <1>6, <1>d DEF Record, TypeOK
  <2> QED
    BY <1>c, <2>1 DEF AllNamed, Named
<1>7. ASSUME UNCHANGED vars PROVE AllNamed'
  BY <1>c, <1>7 DEF vars, AllNamed, Named
<1>8. ASSUME NEW p \in Proc, Step(p) PROVE AllNamed'
  BY <1>1, <1>2, <1>3, <1>4, <1>5, <1>6, <1>8, Zenon DEF Step
<1> QED
  BY <1>7, <1>8 DEF Next, Terminated

\* In the section for two processes, unlike the others, what the comment at
\* *two_agg_time promises is true for every number of trials: as long as no
\* fork() failed, a recorded sum is the time of both processes.
THEOREM TwoComplete == Spec => [](K = 1 /\ failures = 0 => SumComplete)
<1>1. OwnInv /\ CountInv /\ NameInv => (K = 1 /\ failures = 0 => SumComplete)
  <2> SUFFICES ASSUME OwnInv, CountInv, NameInv, K = 1, failures = 0 PROVE SumComplete
    OBVIOUS
  <2>0. OwnTrialOnly /\ CountsMainAndAChild /\ AllNamed
    BY DEF OwnInv, OwnSums, CountInv, CountSums, Counted, CountsMainAndAChild, First, NameInv
  <2> SUFFICES ASSUME NEW t \in Trials, Recorded(t)
               PROVE  times[main][t] = { <<{ <<t, i>> : i \in S }, t>> : S \in SUBSET Forks }
    BY DEF SumComplete
  <2>1. Forks = {1} /\ SUBSET Forks = {{}, {1}}
    <3>1. Forks = {1}
      BY DEF Forks
    <3> QED
      BY <3>1
  <2>2. { <<t, i>> : i \in {} } = {} /\ { <<t, i>> : i \in {1} } = {<<t, 1>>}
    OBVIOUS
  <2>3. { <<{ <<t, i>> : i \in S }, t>> : S \in SUBSET Forks } = { <<{}, t>>, <<{<<t, 1>>}, t>> }
    BY <2>1, <2>2
  <2>4. <<{}, t>> \in times[main][t] /\ <<{<<t, 1>>}, t>> \in times[main][t]
    BY <2>0, <2>1 DEF CountsMainAndAChild, main
  <2>5. ASSUME NEW s \in times[main][t] PROVE s \in { <<{}, t>>, <<{<<t, 1>>}, t>> }
    <3>1. PICK p \in Proc : s = <<p, t>>
      BY <2>0 DEF OwnTrialOnly
    <3>2. \A m \in p : m = <<t, 1>>
      <4> SUFFICES ASSUME NEW m \in p PROVE m = <<t, 1>>
        OBVIOUS
      <4>1. m[1] = t
        BY <2>0, <3>1 DEF AllNamed, Named
      <4>2. m \in Trials \X {1}
        BY <2>1 DEF Proc, Calls
      <4> QED
        BY <4>1, <4>2
    <3>3. p = {} \/ p = {<<t, 1>>}
      BY <3>2
    <3> QED
      BY <3>1, <3>3
  <2> QED
    BY <2>3, <2>4, <2>5
<1>2. Spec => []NameInv
  BY NameInit, NameStep, OwnInvariant, ExclusionInvariant, ReadInvariant, PTL DEF Spec
<1>3. Spec => []CountInv
  BY CountInit, CountStep, OwnInvariant, ExclusionInvariant, PTL DEF Spec
<1> QED
  BY <1>1, <1>2, <1>3, OwnInvariant, PTL

-----------------------------------------------------------------------------
(***************************************************************************)
(* Progress, whichever fork() calls fail: no process ever comes back to    *)
(* where it was, and somebody can always go on until all have ended.       *)
(***************************************************************************)

\* The steps of a trial, and how far a process is from its end.
TrialSteps == K + 7

Place(p) ==
    CASE pc[p] = "reset" -> K + 9
      [] pc[p] = "fork" -> K + 8 - forks[p]
      [] pc[p] = "wait" -> 7
      [] pc[p] = "read" -> 6
      [] pc[p] = "load" -> 5
      [] pc[p] = "store" -> 4
      [] pc[p] = "record" -> 3
      [] OTHER -> 2

TrialsLeft(p) == (NTrials - trial[p]) * TrialSteps

Rank(p) ==
    CASE pc[p] = "unborn" -> NTrials * TrialSteps + K + 9
      [] pc[p] = "zombie" -> 1
      [] pc[p] \in {"reaped", "done"} -> 0
      [] OTHER -> TrialsLeft(p) + Place(p)

\* A step brings one process nearer to its end, and none further away.
Forward ==
    /\ \E p \in Proc : Rank(p)' < Rank(p)
    /\ \A p \in Proc : Rank(p)' <= Rank(p)

\* The call n is behind p.
Behind(p, n) ==
    \/ n[1] < trial[p]
    \/ n[1] = trial[p] /\ n[2] <= forks[p] /\ pc[p] # "reset"

\* A process is born after its parent, by a call that is then behind the parent.
BornInOrder ==
    \A p \in Proc, n \in Calls :
        (\A m \in p : Earlier(m, n)) /\ pc[p \union {n}] # "unborn" =>
            pc[p] # "unborn" /\ Behind(p, n)

\* wait() returns once a child has exited, or no child is left; nothing else
\* blocks.
CanStep(p) ==
    \/ pc[p] \in PCs \ (Gone \union {"wait"})
    \/ /\ pc[p] = "wait"
       /\ \/ \E c \in Children[p] : pc[c] = "zombie"
          \/ \A c \in Children[p] : pc[c] \in {"unborn", "reaped"}

Ended == pc[main] = "done" /\ \A p \in Proc : pc[p] \in Gone

NoDeadlock == Ended \/ \E p \in Proc : CanStep(p)

\* Main never becomes somebody's child, and only main reports.
MainEnds ==
    /\ pc[main] \notin {"unborn", "later", "zombie", "reaped"}
    /\ \A p \in Proc : pc[p] = "done" => p = main

OrderInv == TypeOK /\ BornInOrder /\ MainEnds

LEMMA Numbers ==
    ASSUME TypeOK, NEW p \in Proc
    PROVE  /\ K \in Nat /\ K >= 1 /\ NTrials \in Nat /\ NTrials >= 1 /\ TrialSteps \in Nat
           /\ trial[p] \in Nat /\ trial[p] >= 1 /\ trial[p] <= NTrials
           /\ forks[p] \in Nat /\ forks[p] <= K
           /\ pc[p] \in PCs
BY KAssumption, NTrialsAssumption DEF TypeOK, Trials, TrialSteps

LEMMA Multiples ==
    ASSUME NEW b \in Nat, NEW n \in Nat, NEW t \in 1..n
    PROVE  /\ (n - t) * b \in Nat
           /\ (n - t) * b + b <= n * b
           /\ t < n => (n - (t + 1)) * b + b = (n - t) * b
<1> DEFINE k == n - t
<1>1. k \in Nat /\ n = k + t
  OBVIOUS
<1> HIDE DEF k
<1>2. k * b \in Nat /\ t * b \in Nat
  BY <1>1
<1>3. n * b = k * b + t * b
  BY <1>1
<1>4. t * b >= b
  <2>1. t * b = (t - 1) * b + b
    OBVIOUS
  <2>2. (t - 1) * b \in Nat
    BY t - 1 \in Nat
  <2> QED
    BY <2>1, <2>2
<1>5. (k - 1) * b + b = k * b
  BY <1>1
<1>6. n - (t + 1) = k - 1 /\ n - t = k
  BY <1>1
<1> QED
  BY <1>2, <1>3, <1>4, <1>5, <1>6

\* What is left of a run, and that a child not yet born has most of it.
LEMMA Ranks ==
    ASSUME TypeOK, NEW p \in Proc
    PROVE  /\ TrialsLeft(p) \in Nat /\ Place(p) \in 2..K + 9 /\ Rank(p) \in Nat
           /\ TrialsLeft(p) + Place(p) < NTrials * TrialSteps + K + 9
<1>1. TrialsLeft(p) \in Nat /\ TrialsLeft(p) + TrialSteps <= NTrials * TrialSteps
  BY Numbers, Multiples DEF TrialsLeft
<1>2. Place(p) \in 2..K + 9
  BY Numbers DEF Place
<1>3. NTrials * TrialSteps \in Nat
  BY Numbers
<1>4. TrialsLeft(p) + Place(p) < NTrials * TrialSteps + K + 9
  BY <1>1, <1>2, <1>3, Numbers DEF TrialSteps
<1> QED
  BY <1>1, <1>2, <1>3, <1>4, Numbers DEF Rank

LEMMA RanksNext ==
    ASSUME TypeOK', NEW p \in Proc
    PROVE  /\ Place(p)' \in 2..K + 9 /\ Rank(p)' \in Nat
           /\ (TrialsLeft(p) + Place(p))' < NTrials * TrialSteps + K + 9
<1>1. TypeOK' /\ p \in Proc =>
          (/\ Place(p) \in 2..K + 9 /\ Rank(p) \in Nat
           /\ TrialsLeft(p) + Place(p) < NTrials * TrialSteps + K + 9)'
  BY Ranks, PTL
<1> QED
  BY <1>1

\* One process that exists moves, and nothing that was behind it gets before it.
OnlyMoves(p) ==
    /\ pc[p] # "unborn" /\ pc'[p] # "unborn"
    /\ \A q \in Proc : q # p =>
          pc'[q] = pc[q] /\ trial'[q] = trial[q] /\ forks'[q] = forks[q]
    /\ \A n \in Calls : Behind(p, n) => Behind(p, n)'

LEMMA MoveKeepsOrder ==
    ASSUME BornInOrder, NEW p \in Proc, OnlyMoves(p)
    PROVE  BornInOrder'
<1> SUFFICES ASSUME NEW r \in Proc, NEW n \in Calls, \A m \in r : Earlier(m, n),
                    pc'[r \union {n}] # "unborn"
             PROVE  pc'[r] # "unborn" /\ Behind(r, n)'
  BY DEF BornInOrder, Earlier
<1>1. r \union {n} \in Proc
  BY DEF Proc
<1>2. pc[r \union {n}] # "unborn"
  BY <1>1 DEF OnlyMoves
<1>3. pc[r] # "unborn" /\ Behind(r, n)
  BY <1>2 DEF BornInOrder
<1>4. CASE r = p
  BY <1>3, <1>4 DEF OnlyMoves
<1>5. CASE r # p
  BY <1>3, <1>5 DEF OnlyMoves, Behind
<1> QED
  BY <1>4, <1>5

LEMMA MoveIsForward ==
    ASSUME TypeOK, TypeOK', NEW p \in Proc, OnlyMoves(p), Rank(p)' < Rank(p)
    PROVE  Forward
<1>1. ASSUME NEW q \in Proc, q # p PROVE Rank(q)' = Rank(q)
  BY <1>1 DEF OnlyMoves, Rank, TrialsLeft, Place
<1>2. \A q \in Proc : Rank(q) \in Nat /\ (q = p => Rank(q)' \in Nat)
  BY Ranks, RanksNext
<1> QED
  BY <1>1, <1>2 DEF Forward

\* The label a process goes to is nearer to the end than its own.
LEMMA NextLabel ==
    ASSUME OrderInv, TypeOK', NEW p \in Proc, NEW label \in PCs,
           pc[p] \notin {"unborn", "reaped", "done"}, Goto(p, label),
           trial' = trial,
           \A q \in Proc : q # p => forks'[q] = forks[q],
           \/ pc[p] = "zombie" /\ label = "reaped"
           \/ pc[p] # "zombie" /\ label \in {"done", "zombie"}
           \/ /\ pc[p] # "zombie"
              /\ label \in {"fork", "wait", "read", "load", "store", "record", "later"}
              /\ Place(p)' < Place(p)
              /\ label # "fork" => forks'[p] = forks[p]
              /\ label = "fork" => pc[p] = "reset",
           label = "done" => p = main,
           label \in {"later", "zombie", "reaped"} => p # main,
           forks'[p] = forks[p] \/ pc[p] = "reset"
    PROVE  Forward /\ BornInOrder' /\ MainEnds'
<1>1. pc'[p] = label /\ \A q \in Proc : q # p => pc'[q] = pc[q]
  BY DEF Goto, OrderInv, TypeOK
<1>2. \A n \in Calls : Behind(p, n) => Behind(p, n)'
  <2>1. pc[p] = "reset" => \A n \in Calls : Behind(p, n) => n[1] < trial[p]
    BY DEF Behind
  <2>2. label # "reset"
    OBVIOUS
  <2> QED
    BY <1>1, <2>1, <2>2 DEF Behind
<1>3. OnlyMoves(p)
  BY <1>1, <1>2 DEF OnlyMoves
<1>4. TypeOK /\ TrialsLeft(p) \in Nat /\ TrialsLeft(p)' = TrialsLeft(p) /\ Place(p) \in 2..K + 9
  BY Ranks DEF OrderInv, TrialsLeft
<1>5. Place(p)' \in 2..K + 9
  BY RanksNext
<1>6. Rank(p)' < Rank(p)
  <2>1. K \in Nat
    BY KAssumption
  <2>2. pc[p] = "zombie" => Rank(p) = 1
    BY DEF Rank
  <2>3. pc[p] # "zombie" => Rank(p) = TrialsLeft(p) + Place(p)
    BY DEF Rank
  <2>4. /\ label = "zombie" => Rank(p)' = 1
        /\ label \in {"reaped", "done"} => Rank(p)' = 0
        /\ label \notin {"unborn", "zombie", "reaped", "done"} =>
              Rank(p)' = TrialsLeft(p)' + Place(p)'
    BY <1>1 DEF Rank
  <2> QED
    BY <1>4, <1>5, <2>1, <2>2, <2>3, <2>4
<1>7. MainEnds'
  <2>1. label # "unborn" /\ main \in Proc /\ MainEnds
    BY DEF OrderInv, main, Proc
  <2>2. pc'[main] \notin {"unborn", "later", "zombie", "reaped"}
    BY <1>1, <2>1 DEF MainEnds
  <2>3. ASSUME NEW q \in Proc, pc'[q] = "done" PROVE q = main
    BY <1>1, <2>1, <2>3 DEF MainEnds
  <2> QED
    BY <2>2, <2>3 DEF MainEnds
<1> QED
  BY <1>3, <1>4, <1>6, <1>7, MoveKeepsOrder, MoveIsForward DEF OrderInv

LEMMA OrderInit == Init => OrderInv
<1> SUFFICES ASSUME Init PROVE OrderInv
  OBVIOUS
<1>1. TypeOK
  BY TypeInit
<1>2. BornInOrder
  BY DEF Init, BornInOrder, Proc, main
<1>3. MainEnds
  BY MainIsProc DEF Init, MainEnds
<1> QED
  BY <1>1, <1>2, <1>3 DEF OrderInv

\* A fork() call that p makes is new, and later than all p was born by.
LEMMA NewCall ==
    ASSUME ExclusionInv, OrderInv, NEW p \in Proc, Fork(p),
           NEW call, call = <<trial[p], forks[p] + 1>>
    PROVE  /\ call \in Calls /\ \A m \in p : Earlier(m, call)
           /\ pc[p \union {call}] = "unborn" /\ ~Behind(p, call)
<1>1. call \in Calls
  BY KAssumption DEF Fork, OrderInv, TypeOK, Calls, Forks
<1>2. \A m \in p : Earlier(m, call)
  <2> SUFFICES ASSUME NEW m \in p PROVE Earlier(m, call)
    OBVIOUS
  <2>1. m[1] < trial[p] \/ (m[1] = trial[p] /\ m[2] <= forks[p])
    BY DEF ExclusionInv, HistoryBehind, Fork
  <2>2. m[2] \in Nat /\ forks[p] \in Nat
    BY KAssumption DEF Proc, Calls, Forks, OrderInv, TypeOK
  <2> QED
    BY <2>1, <2>2 DEF Earlier
<1>3. ~Behind(p, call)
  <2>1. trial[p] \in Nat /\ forks[p] \in Nat
    BY Numbers DEF OrderInv
  <2> QED
    BY <2>1 DEF Behind
<1> QED
  BY <1>1, <1>2, <1>3 DEF OrderInv, BornInOrder

\* A process has one parent.
LEMMA OneParent ==
    ASSUME NEW p \in Proc, NEW r \in Proc, NEW n \in Calls, NEW m \in Calls,
           \A x \in p : Earlier(x, n), \A x \in r : Earlier(x, m),
           p \union {n} = r \union {m}
    PROVE  p = r /\ n = m
<1>1. \A x, y \in Calls : ~(Earlier(x, y) /\ Earlier(y, x)) /\ ~Earlier(x, x)
  BY NTrialsAssumption, KAssumption DEF Earlier, Calls, Trials, Forks
<1>2. n = m
  BY <1>1
<1>3. n \notin p /\ m \notin r
  BY <1>1
<1> QED
  BY <1>2, <1>3

\* fork() uses up one step of the parent, and the start of the child.
LEMMA ForkOrder ==
    ASSUME ExclusionInv, OrderInv, TypeOK', NEW p \in Proc, Fork(p),
           NEW call \in Calls, call = <<trial[p], forks[p] + 1>>,
           NEW child \in Proc, child = p \union {call}
    PROVE  Forward /\ BornInOrder' /\ MainEnds'
<1>1. \A m \in p : Earlier(m, call)
  BY NewCall
<1>2. child # main
  BY DEF main
<1>3. pc[p] = "fork" /\ forks[p] < K /\ pc[child] = "unborn"
  BY NewCall DEF Fork
<1>4. call[1] = trial[p] /\ call[2] = forks[p] + 1
  OBVIOUS
<1>5. /\ pc' = [pc EXCEPT ![child] = "fork"]
      /\ trial' = [trial EXCEPT ![child] = trial[p]]
      /\ forks' = [forks EXCEPT ![p] = @ + 1, ![child] = forks[p] + 1]
  BY DEF Fork
<1>6. child # p
  BY <1>3
<1>7. /\ \A q \in Proc : q # child => pc'[q] = pc[q] /\ trial'[q] = trial[q]
      /\ \A q \in Proc : q \notin {p, child} => forks'[q] = forks[q]
      /\ pc'[child] = "fork" /\ trial'[child] = trial[p] /\ forks'[p] = forks[p] + 1
  BY <1>2, <1>5, <1>6 DEF OrderInv, TypeOK
<1>8. TypeOK /\ TypeOK' /\ forks[p] \in Nat /\ K \in Nat
  BY Numbers DEF OrderInv
<1>9. Forward
  <2>1. ASSUME NEW q \in Proc, q \notin {p, child} PROVE Rank(q)' = Rank(q)
    BY <1>7, <2>1 DEF Rank, TrialsLeft, Place
  <2>2. Rank(child)' < Rank(child)
    <3>2. (TrialsLeft(child) + Place(child))' < NTrials * TrialSteps + K + 9
      BY RanksNext
    <3>3. Rank(child)' = (TrialsLeft(child) + Place(child))'
      BY <1>7 DEF Rank
    <3>4. Rank(child) = NTrials * TrialSteps + K + 9
      BY <1>3 DEF Rank
    <3> QED
      BY <3>2, <3>3, <3>4
  <2>3. Rank(p)' < Rank(p)
    <3>1. TrialsLeft(p) \in Nat /\ TrialsLeft(p)' = TrialsLeft(p)
      BY <1>6, <1>7, <1>8, Ranks DEF TrialsLeft
    <3>2. Place(p) = K + 8 - forks[p] /\ Place(p)' = K + 8 - (forks[p] + 1)
      BY <1>3, <1>6, <1>7 DEF Place
    <3>3. Rank(p) = TrialsLeft(p) + Place(p) /\ Rank(p)' = TrialsLeft(p)' + Place(p)'
      BY <1>3, <1>6, <1>7 DEF Rank
    <3> QED
      BY <1>8, <3>1, <3>2, <3>3
  <2>4. \A q \in Proc : Rank(q) \in Nat /\ Rank(q)' \in Nat
    BY <1>8, Ranks, RanksNext
  <2>5. ASSUME NEW q \in Proc PROVE Rank(q)' <= Rank(q)
    <3>1. CASE q = p
      BY <2>3, <2>4, <3>1
    <3>2. CASE q = child
      BY <2>2, <2>4, <3>2
    <3>3. CASE q \notin {p, child}
      BY <2>1, <2>4, <3>3
    <3> QED
      BY <3>1, <3>2, <3>3
  <2> QED
    BY <2>3, <2>5 DEF Forward
<1>10. BornInOrder'
  <2> SUFFICES ASSUME NEW r \in Proc, NEW n \in Calls, \A m \in r : Earlier(m, n),
                      pc'[r \union {n}] # "unborn"
               PROVE  pc'[r] # "unborn" /\ Behind(r, n)'
    BY DEF BornInOrder, Earlier
  <2>1. r \union {n} \in Proc
    BY DEF Proc
  <2>2. CASE r \union {n} = child
    <3>1. r = p /\ n = call
      BY <1>1, <1>2, <2>2, OneParent
    <3> QED
      BY <1>3, <1>4, <1>6, <1>7, <1>8, <3>1 DEF Behind
  <2>3. CASE r \union {n} # child
    <3>1. pc[r] # "unborn" /\ Behind(r, n)
      BY <1>7, <2>1, <2>3 DEF OrderInv, BornInOrder
    <3>2. r # child
      BY <1>3, <3>1
    <3>3. pc'[r] = pc[r] /\ trial'[r] = trial[r]
      BY <1>7, <3>2
    <3>4. n[2] \in Nat /\ (n[2] <= forks[r] => n[2] <= forks'[r])
      <4>1. n[2] \in Nat
        BY KAssumption DEF Calls, Forks
      <4> QED
        BY <1>7, <1>8, <3>2, <4>1
    <3> QED
      BY <3>1, <3>3, <3>4 DEF Behind
  <2> QED
    BY <2>2, <2>3
<1>11. MainEnds'
  <2>1. pc'[main] = pc[main]
    BY <1>2, <1>7, MainIsProc
  <2> QED
    BY <1>7, <2>1 DEF OrderInv, MainEnds
<1> QED
  BY <1>9, <1>10, <1>11

LEMMA OrderStep == ExclusionInv /\ OrderInv /\ [Next]_vars => OrderInv' /\ [Forward]_vars
<1> SUFFICES ASSUME ExclusionInv, OrderInv, [Next]_vars
             PROVE  OrderInv' /\ [Forward]_vars
  OBVIOUS
<1>0. TypeOK /\ TypeOK' /\ K \in Nat
  BY TypeStep, KAssumption DEF OrderInv
<1> DEFINE Rest == Forward /\ BornInOrder' /\ MainEnds'
<1>1. ASSUME NEW p \in Proc, Reset(p) PROVE Rest
  <2>1. /\ Goto(p, "fork") /\ trial' = trial /\ pc[p] = "reset"
        /\ forks' = [forks EXCEPT ![p] = 0]
    BY <1>1 DEF Reset
  <2>2. Place(p)' = K + 8 /\ Place(p) = K + 9
    BY <1>0, <2>1 DEF Place, Goto, TypeOK
  <2>3. \A q \in Proc : q # p => forks'[q] = forks[q]
    BY <1>0, <2>1 DEF TypeOK
  <2> QED
    BY <1>0, <2>1, <2>2, <2>3, NextLabel DEF PCs
<1>2. ASSUME NEW p \in Proc, Fork(p) PROVE Rest
  <2>1. PICK call \in Calls : call = <<trial[p], forks[p] + 1>>
    BY <1>2, NewCall
  <2>2. p \union {call} \in Proc
    BY DEF Proc
  <2> QED
    BY <1>0, <1>2, <2>1, <2>2, ForkOrder
<1>3. ASSUME NEW p \in Proc, ForkFails(p) PROVE Rest
  <2>1. /\ pc[p] = "fork" /\ UNCHANGED <<pc, trial>> /\ forks[p] < K
        /\ forks' = [forks EXCEPT ![p] = @ + 1]
    BY <1>3 DEF ForkFails
  <2>2. /\ forks[p] \in Nat /\ forks'[p] = forks[p] + 1
        /\ \A q \in Proc : q # p => forks'[q] = forks[q]
    BY <1>0, <2>1, Numbers DEF TypeOK
  <2>3. \A n \in Calls : n[2] \in Nat
    BY KAssumption DEF Calls, Forks
  <2>4. OnlyMoves(p)
    BY <2>1, <2>2, <2>3 DEF OnlyMoves, Behind
  <2>5. TrialsLeft(p) \in Nat /\ TrialsLeft(p)' = TrialsLeft(p)
    BY <1>0, <2>1, Ranks DEF TrialsLeft
  <2>6. Place(p) = K + 8 - forks[p] /\ Place(p)' = K + 8 - (forks[p] + 1)
    BY <2>1, <2>2 DEF Place
  <2>7. Rank(p) = TrialsLeft(p) + Place(p) /\ Rank(p)' = TrialsLeft(p)' + Place(p)'
    BY <2>1 DEF Rank
  <2>8. Rank(p)' < Rank(p)
    BY <1>0, <2>2, <2>5, <2>6, <2>7
  <2>9. MainEnds'
    BY <2>1 DEF OrderInv, MainEnds
  <2> QED
    BY <1>0, <2>4, <2>8, <2>9, MoveKeepsOrder, MoveIsForward DEF OrderInv
<1>4. ASSUME NEW p \in Proc, TakeBranch(p) PROVE Rest
  <2>1. /\ Goto(p, "wait") /\ UNCHANGED <<trial, forks>> /\ pc[p] = "fork" /\ forks[p] = K
    BY <1>4 DEF TakeBranch
  <2>2. Place(p)' = 7 /\ Place(p) = 8
    BY <1>0, <2>1 DEF Place, Goto, TypeOK
  <2> QED
    BY <1>0, <2>1, <2>2, NextLabel DEF PCs
<1>5. ASSUME NEW p \in Proc, FallThrough(p) PROVE Rest
  <2>1. /\ Goto(p, "record") /\ UNCHANGED <<trial, forks>> /\ pc[p] = "fork" /\ forks[p] = K
    BY <1>5 DEF FallThrough
  <2>2. Place(p)' = 3 /\ Place(p) = 8
    BY <1>0, <2>1 DEF Place, Goto, TypeOK
  <2> QED
    BY <1>0, <2>1, <2>2, NextLabel DEF PCs
<1>6. ASSUME NEW p \in Proc, Reap(p) PROVE Rest
  <2>1. PICK c \in Children[p] : pc[c] = "zombie" /\ Goto(c, "reaped")
    BY <1>6 DEF Reap
  <2>2. c \in Proc
    BY DEF Children, Proc
  <2>3. c # main
    BY <2>1 DEF OrderInv, MainEnds
  <2>4. UNCHANGED <<trial, forks>>
    BY <1>6 DEF Reap
  <2> QED
    BY <1>0, <2>1, <2>2, <2>3, <2>4, NextLabel DEF PCs
<1>7. ASSUME NEW p \in Proc, EndWait(p) PROVE Rest
  <2>1. Goto(p, "read") /\ UNCHANGED <<trial, forks>> /\ pc[p] = "wait"
    BY <1>7 DEF EndWait
  <2>2. Place(p)' = 6 /\ Place(p) = 7
    BY <1>0, <2>1 DEF Place, Goto, TypeOK
  <2> QED
    BY <1>0, <2>1, <2>2, NextLabel DEF PCs
<1>8. ASSUME NEW p \in Proc, ReadBlock(p) PROVE Rest
  <2>1. Goto(p, "load") /\ UNCHANGED <<trial, forks>> /\ pc[p] = "read"
    BY <1>8 DEF ReadBlock
  <2>2. Place(p)' = 5 /\ Place(p) = 6
    BY <1>0, <2>1 DEF Place, Goto, TypeOK
  <2> QED
    BY <1>0, <2>1, <2>2, NextLabel DEF PCs
<1>9. ASSUME NEW p \in Proc, Load(p) PROVE Rest
  <2>1. Goto(p, "store") /\ UNCHANGED <<trial, forks>> /\ pc[p] = "load"
    BY <1>9 DEF Load
  <2>2. Place(p)' = 4 /\ Place(p) = 5
    BY <1>0, <2>1 DEF Place, Goto, TypeOK
  <2> QED
    BY <1>0, <2>1, <2>2, NextLabel DEF PCs
<1>10. ASSUME NEW p \in Proc, Store(p) PROVE Rest
  <2>1. PICK label \in {"record", "zombie"} :
            /\ Goto(p, label) /\ UNCHANGED <<trial, forks>> /\ pc[p] = "store"
            /\ label = "zombie" => Mine(p) # {}
    BY <1>10 DEF Store
  <2>2. label = "record" => Place(p)' = 3 /\ Place(p) = 4
    BY <1>0, <2>1 DEF Place, Goto, TypeOK
  <2>3. label = "zombie" => p # main
    BY <2>1, MainIsProc
  <2> QED
    BY <1>0, <2>1, <2>2, <2>3, NextLabel DEF PCs
<1>11. ASSUME NEW p \in Proc, Record(p) PROVE Rest
  <2>1. pc[p] = "record" /\ UNCHANGED forks
    BY <1>11 DEF Record
  <2>2. CASE trial[p] < NTrials
    <3>1. trial' = [trial EXCEPT ![p] = @ + 1] /\ Goto(p, "reset")
      BY <1>11, <2>2 DEF Record
    <3>2. /\ pc'[p] = "reset" /\ trial'[p] = trial[p] + 1
          /\ \A q \in Proc : q # p => pc'[q] = pc[q] /\ trial'[q] = trial[q]
      BY <1>0, <3>1 DEF Goto, TypeOK
    <3>3. \A n \in Calls : Behind(p, n) => n[1] < trial'[p]
      <4>1. trial[p] \in Nat /\ \A n \in Calls : n[1] \in Nat
        BY <1>0, Numbers, NTrialsAssumption DEF Calls, Trials
      <4> QED
        BY <3>2, <4>1 DEF Behind
    <3>4. OnlyMoves(p)
      BY <2>1, <3>2, <3>3 DEF OnlyMoves, Behind
    <3>5. TrialsLeft(p)' + TrialSteps = TrialsLeft(p) /\ TrialsLeft(p)' \in Nat
      <4>1. TrialsLeft(p)' = (NTrials - (trial[p] + 1)) * TrialSteps
        BY <3>2 DEF TrialsLeft, TrialSteps
      <4>2. trial[p] + 1 \in 1..NTrials /\ trial[p] \in 1..NTrials
        BY <1>0, <2>2, Numbers
      <4>3. TrialSteps \in Nat /\ NTrials \in Nat
        BY <1>0, Numbers
      <4>4. (NTrials - (trial[p] + 1)) * TrialSteps + TrialSteps = (NTrials - trial[p]) * TrialSteps
        BY <2>2, <4>2, <4>3, Multiples
      <4>5. (NTrials - (trial[p] + 1)) * TrialSteps \in Nat
        BY <4>2, <4>3, Multiples
      <4> QED
        BY <4>1, <4>4, <4>5 DEF TrialsLeft
    <3>6. Rank(p) = TrialsLeft(p) + 3 /\ Rank(p)' = TrialsLeft(p)' + (K + 9)
      BY <2>1, <3>2 DEF Rank, Place
    <3>7. Rank(p)' < Rank(p)
      BY <1>0, <3>5, <3>6 DEF TrialSteps
    <3>8. MainEnds'
      BY <3>2, MainIsProc DEF OrderInv, MainEnds
    <3> QED
      BY <1>0, <3>4, <3>7, <3>8, MoveKeepsOrder, MoveIsForward DEF OrderInv
  <2>3. CASE ~(trial[p] < NTrials)
    <3>1. PICK label \in {"done", "later"} :
              /\ Goto(p, label) /\ UNCHANGED trial
              /\ label = "done" => p = main
              /\ label = "later" => p # main
      BY <1>11, <2>3 DEF Record
    <3>2. label = "later" => Place(p)' = 2 /\ Place(p) = 3
      BY <1>0, <2>1, <3>1 DEF Place, Goto, TypeOK
    <3> QED
      BY <1>0, <2>1, <3>1, <3>2, NextLabel DEF PCs
  <2> QED
    BY <2>2, <2>3
<1>12. ASSUME NEW p \in Proc, Leave(p) PROVE Rest
  <2>1. Goto(p, "zombie") /\ UNCHANGED <<trial, forks>> /\ pc[p] = "later"
    BY <1>12 DEF Leave
  <2>2. p # main
    BY <2>1 DEF OrderInv, MainEnds
  <2> QED
    BY <1>0, <2>1, <2>2, NextLabel DEF PCs
<1>13. ASSUME NEW p \in Proc, Step(p) PROVE Rest
  BY <1>1, <1>2, <1>3, <1>4, <1>5, <1>6, <1>7, <1>8, <1>9, <1>10, <1>11, <1>12, <1>13, Zenon
  DEF Step
<1>14. ASSUME UNCHANGED vars PROVE BornInOrder' /\ MainEnds'
  BY <1>14 DEF vars, OrderInv, BornInOrder, MainEnds, Behind
<1>15. BornInOrder' /\ MainEnds' /\ (Forward \/ UNCHANGED vars)
  BY <1>13, <1>14 DEF Next, Terminated
<1> QED
  BY <1>0, <1>15 DEF OrderInv

LEMMA OrderInvariant == Spec => []OrderInv
  BY OrderInit, OrderStep, ExclusionInvariant, PTL DEF Spec

\* Whichever fork() calls fail, every step brings a process nearer to its end
\* by the number Rank counts down, and no step sends one back: the processes
\* can only take so many steps, whatever the number of trials.
THEOREM NoStepBack == Spec => [](\A p \in Proc : Rank(p) \in Nat) /\ [][Forward]_vars
<1>1. OrderInv => \A p \in Proc : Rank(p) \in Nat
  BY Ranks DEF OrderInv
<1> QED
  BY <1>1, OrderInvariant, ExclusionInvariant, OrderStep, PTL DEF Spec

\* Of several processes, one has no other that was born by more calls.
LEMMA Youngest ==
    ASSUME NEW S \in SUBSET Proc, S # {}
    PROVE  \E p \in S : \A q \in S : Cardinality(q) <= Cardinality(p)
<1>1. IsFiniteSet(Calls)
  <2>1. IsFiniteSet(Trials) /\ IsFiniteSet(Forks)
    BY FS_Interval, NTrialsAssumption, KAssumption DEF Trials, Forks
  <2> QED
    BY <2>1, FS_Product DEF Calls
<1>2. \A p \in Proc : IsFiniteSet(p) /\ Cardinality(p) \in Nat /\ Cardinality(p) <= Cardinality(Calls)
  BY <1>1, FS_Subset, FS_CardinalityType DEF Proc
<1>3. Cardinality(Calls) \in Nat
  BY <1>1, FS_CardinalityType
<1> DEFINE Less == { Cardinality(Calls) - Cardinality(p) : p \in S }
<1>4. Less \in SUBSET Nat /\ Less # {}
  BY <1>2, <1>3
<1>5. PICK x \in Less : \A y \in Less : x <= y
  BY <1>4, NatMinimum
<1>6. PICK p \in S : x = Cardinality(Calls) - Cardinality(p)
  BY <1>5
<1>7. ASSUME NEW q \in S PROVE Cardinality(q) <= Cardinality(p)
  <2>1. x <= Cardinality(Calls) - Cardinality(q)
    BY <1>5
  <2>2. Cardinality(q) \in Nat /\ Cardinality(p) \in Nat
    BY <1>2
  <2> QED
    BY <1>3, <1>6, <2>1, <2>2
<1> QED
  BY <1>7

\* A process only waits in vain for a child that waits itself.
LEMMA WaitsForAWaiting ==
    ASSUME OrderInv, \A p \in Proc : ~CanStep(p), NEW p \in Proc, pc[p] = "wait"
    PROVE  \E c \in Children[p] : c \in Proc /\ pc[c] = "wait"
<1>1. PICK c \in Children[p] : pc[c] # "zombie" /\ pc[c] \notin {"unborn", "reaped"}
  BY DEF CanStep
<1>2. c \in Proc /\ c # main
  BY DEF Children, Proc, main
<1>3. pc[c] \in PCs /\ pc[c] # "done"
  BY <1>2 DEF OrderInv, TypeOK, MainEnds
<1>4. pc[c] = "wait"
  BY <1>1, <1>2, <1>3 DEF CanStep, Gone
<1> QED
  BY <1>2, <1>4

\* No wait() blocks for ever, even if some fork() fails: as long as main has
\* not ended, or a process is left, some process can take its next step.  A
\* process waits for its children only, so a circle of waits is impossible.
THEOREM SomebodyGoesOn == Spec => []NoDeadlock
<1>1. OrderInv => NoDeadlock
  <2> SUFFICES ASSUME OrderInv, \A p \in Proc : ~CanStep(p) PROVE Ended
    BY DEF NoDeadlock
  <2>1. \A p \in Proc : pc[p] # "wait"
    <3> DEFINE Waiting == { p \in Proc : pc[p] = "wait" }
    <3> SUFFICES ASSUME Waiting # {} PROVE FALSE
      OBVIOUS
    <3>1. PICK p \in Waiting : \A q \in Waiting : Cardinality(q) <= Cardinality(p)
      BY Youngest
    <3>2. PICK c \in Children[p] : c \in Waiting
      BY <3>1, WaitsForAWaiting
    <3>3. PICK n \in Calls : c = p \union {n} /\ \A m \in p : Earlier(m, n)
      BY <3>1 DEF Children
    <3>4. n \notin p
      BY <3>3, NTrialsAssumption, KAssumption DEF Earlier, Calls, Trials, Forks
    <3>5. IsFiniteSet(p)
      <4>1. IsFiniteSet(Trials) /\ IsFiniteSet(Forks)
        BY FS_Interval, NTrialsAssumption, KAssumption DEF Trials, Forks
      <4>2. IsFiniteSet(Calls)
        BY <4>1, FS_Product DEF Calls
      <4> QED
        BY <4>2, <3>1, FS_Subset DEF Proc
    <3>6. Cardinality(p) \in Nat /\ Cardinality(c) = Cardinality(p) + 1
      BY <3>3, <3>4, <3>5, FS_AddElement, FS_CardinalityType
    <3> QED
      BY <3>1, <3>2, <3>6
  <2>2. \A p \in Proc : pc[p] \in Gone
    BY <2>1 DEF OrderInv, TypeOK, CanStep
  <2>3. pc[main] = "done"
    BY <2>2, MainIsProc DEF OrderInv, MainEnds, Gone
  <2> QED
    BY <2>2, <2>3 DEF Ended
<1> QED
  BY <1>1, OrderInvariant, PTL
=============================================================================
