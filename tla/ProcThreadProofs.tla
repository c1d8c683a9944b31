--------------------------- MODULE ProcThreadProofs ---------------------------
(***************************************************************************)
(* Proofs about ProcThread, for every number of trials and iterations,     *)
(* every size of the buffer of stdout and every bound on failures: which   *)
(* process or thread is alive at which place of main(), and what becomes   *)
(* of the lines they print.                                                *)
(***************************************************************************)
EXTENDS ProcThread, FiniteSetTheorems, WellFoundedInduction, TLAPS

-----------------------------------------------------------------------------
(* Sums over finite sets. *)

\* A non-empty set of natural numbers has a least one.
LEMMA NatMinimum ==
    ASSUME NEW T \in SUBSET Nat, T # {}
    PROVE  \E x \in T : \A y \in T : x <= y
<1>1. IsWellFoundedOn(OpToRel(<, Nat), Nat)
  BY NatLessThanWellFounded
<1>2. PICK x \in T : \A y \in T : ~(<<y, x>> \in OpToRel(<, Nat))
  BY <1>1, WFMin, Zenon
<1>3. \A y \in T : ~(y < x)
  BY <1>2 DEF OpToRel
<1> QED
  BY <1>3

\* Where some subset of a finite set has a property, there is one none of whose
\* own subsets has it.
LEMMA LeastSubset ==
    ASSUME NEW S, IsFiniteSet(S), NEW B \in SUBSET SUBSET S, B # {}
    PROVE  \E s \in B : \A t \in B : t \subseteq s => t = s
<1>1. \A s \in SUBSET S : IsFiniteSet(s) /\ Cardinality(s) \in Nat
  BY FS_Subset, FS_CardinalityType
<1> DEFINE Counts == {Cardinality(s) : s \in B}
<1>2. Counts \in SUBSET Nat /\ Counts # {}
  BY <1>1
<1>3. PICK n \in Counts : \A m \in Counts : n <= m
  BY <1>2, NatMinimum
<1>4. PICK s \in B : n = Cardinality(s)
  BY <1>3
<1>5. ASSUME NEW t \in B, t \subseteq s PROVE t = s
  <2>1. Cardinality(t) <= Cardinality(s) /\ (Cardinality(s) = Cardinality(t) => s = t)
    BY <1>1, <1>5, FS_Subset
  <2>2. Cardinality(s) <= Cardinality(t) /\ Cardinality(s) \in Nat /\ Cardinality(t) \in Nat
    BY <1>1, <1>3, <1>4
  <2> QED
    BY <2>1, <2>2
<1> QED
  BY <1>5

Pick(s) == CHOOSE x \in s : TRUE

LEMMA Picked == ASSUME NEW s, s # {} PROVE Pick(s) \in s
BY DEF Pick

\* g[s] is the sum of f over s, for the subsets s of S: what MapThenSumSet defines.
SumsUp(g, f, S) ==
    g = [s \in SUBSET S |-> IF s = {} THEN 0 ELSE f[Pick(s)] + g[s \ {Pick(s)}]]

\* There is such a g: subsets of n elements are reached from those of n - 1.
LEMMA SumExists ==
    ASSUME NEW S, IsFiniteSet(S), NEW f
    PROVE  \E g : SumsUp(g, f, S)
<1>1. \A s \in SUBSET S : IsFiniteSet(s) /\ Cardinality(s) \in Nat
  BY FS_Subset, FS_CardinalityType
<1> DEFINE Small(n) == {s \in SUBSET S : Cardinality(s) <= n}
           Upto(g, n) == g = [s \in Small(n) |->
                                IF s = {} THEN 0 ELSE f[Pick(s)] + g[s \ {Pick(s)}]]
           Missing == {n \in Nat : ~ \E g : Upto(g, n)}
<1>2. Missing = {}
  <2> SUFFICES ASSUME Missing # {} PROVE FALSE
    OBVIOUS
  <2>1. PICK n \in Missing : \A m \in Missing : n <= m
    BY NatMinimum
  <2>2. CASE n = 0
    <3>1. Small(0) = {{}}
      BY <1>1, FS_EmptySet
    <3>2. Upto([s \in {{}} |-> 0], 0)
      BY <3>1
    <3> QED
      BY <2>2, <3>2
  <2>3. CASE n # 0
    <3>1. n - 1 \in Nat /\ n - 1 \notin Missing
      <4>1. n \in Nat /\ \A m \in Missing : n <= m
        BY <2>1
      <4> HIDE DEF Missing
      <4> QED
        BY <4>1, <2>3
    <3>2. PICK g : Upto(g, n - 1)
      BY <3>1
    <3> DEFINE h == [s \in Small(n) |-> IF s = {} THEN 0 ELSE f[Pick(s)] + g[s \ {Pick(s)}]]
    <3>3. ASSUME NEW s \in Small(n), s # {}
          PROVE  s \ {Pick(s)} \in Small(n - 1)
      <4>1. Cardinality(s \ {Pick(s)}) = Cardinality(s) - 1
        BY <1>1, <3>3, Picked, FS_RemoveElement
      <4> QED
        BY <1>1, <4>1
    <3>4. ASSUME NEW s \in Small(n - 1) PROVE s \in Small(n) /\ h[s] = g[s]
      <4>1. s \in Small(n)
        BY <1>1
      <4>2. h[s] = IF s = {} THEN 0 ELSE f[Pick(s)] + g[s \ {Pick(s)}]
        BY <4>1
      <4>3. g[s] = IF s = {} THEN 0 ELSE f[Pick(s)] + g[s \ {Pick(s)}]
        BY <3>2
      <4> QED
        BY <4>1, <4>2, <4>3
    <3>5. ASSUME NEW s \in Small(n), s # {}
          PROVE  h[s \ {Pick(s)}] = g[s \ {Pick(s)}]
      BY <3>3, <3>4, <3>5
    <3>6. Upto(h, n)
      <4> HIDE DEF Small
      <4> QED
        BY <3>5
    <3> QED
      BY <3>6
  <2> QED
    BY <2>2, <2>3
<1>3. Small(Cardinality(S)) = SUBSET S /\ Cardinality(S) \in Nat
  BY FS_Subset, FS_CardinalityType
<1>4. \E g : Upto(g, Cardinality(S))
  BY <1>2, <1>3
<1> QED
  BY <1>3, <1>4 DEF SumsUp

\* One step of the sum.
LEMMA SumStep ==
    ASSUME NEW S, NEW f, NEW g, SumsUp(g, f, S)
    PROVE  /\ g[{}] = 0
           /\ \A s \in SUBSET S : s # {} => g[s] = f[Pick(s)] + g[s \ {Pick(s)}]
BY DEF SumsUp

LEMMA SumType ==
    ASSUME NEW S, IsFiniteSet(S), NEW f, \A x \in S : f[x] \in Int, NEW g, SumsUp(g, f, S)
    PROVE  \A s \in SUBSET S : g[s] \in Int
<1> DEFINE Wrong == {s \in SUBSET S : g[s] \notin Int}
<1> SUFFICES ASSUME Wrong # {} PROVE FALSE
  OBVIOUS
<1>0. Wrong \in SUBSET SUBSET S
  OBVIOUS
<1>s. /\ g[{}] = 0
      /\ \A s \in SUBSET S : s # {} => g[s] = f[Pick(s)] + g[s \ {Pick(s)}]
  <2> HIDE DEF Wrong
  <2>1. SumsUp(g, f, S)
    OBVIOUS
  <2> QED
    BY ONLY <2>1, SumStep
<1>1. PICK s \in Wrong : \A t \in Wrong : t \subseteq s => t = s
  <2> HIDE DEF Wrong
  <2> QED
    BY <1>0, LeastSubset
<1>z. 0 \in Int
  OBVIOUS
<1>2. s # {}
  BY <1>s, <1>z, Zenon
<1>3. Pick(s) \in s
  BY <1>2, Picked
<1>4. s \ {Pick(s)} \in SUBSET S /\ s \ {Pick(s)} \notin Wrong
  BY <1>1, <1>3
<1>5. g[s] = f[Pick(s)] + g[s \ {Pick(s)}]
  BY <1>2, <1>s
<1> QED
  BY <1>3, <1>4, <1>5

\* Any element can be taken out first.
LEMMA SumTakeOut ==
    ASSUME NEW S, IsFiniteSet(S), NEW f, \A x \in S : f[x] \in Int, NEW g, SumsUp(g, f, S)
    PROVE  \A s \in SUBSET S : \A x \in s : g[s] = f[x] + g[s \ {x}]
<1> DEFINE Wrong == {s \in SUBSET S : \E x \in s : g[s] # f[x] + g[s \ {x}]}
<1> SUFFICES ASSUME Wrong # {} PROVE FALSE
  OBVIOUS
<1>0. Wrong \in SUBSET SUBSET S
  OBVIOUS
<1>1. PICK s \in Wrong : \A t \in Wrong : t \subseteq s => t = s
  <2> HIDE DEF Wrong
  <2> QED
    BY <1>0, LeastSubset
<1>2. PICK x \in s : g[s] # f[x] + g[s \ {x}]
  OBVIOUS
<1> DEFINE y == Pick(s)
<1>3. y \in s
  BY <1>2, Picked
<1>4. g[s] = f[y] + g[s \ {y}]
  BY <1>3, SumStep
<1>5. x # y
  BY <1>2, <1>4
<1> HIDE DEF y
<1>6. s \ {x} \notin Wrong /\ s \ {y} \notin Wrong
  BY <1>1, <1>2, <1>3
<1>7. g[s \ {x}] = f[y] + g[(s \ {x}) \ {y}]
  BY <1>3, <1>5, <1>6
<1>8. g[s \ {y}] = f[x] + g[(s \ {y}) \ {x}]
  BY <1>2, <1>5, <1>6
<1>9. (s \ {x}) \ {y} = (s \ {y}) \ {x}
  OBVIOUS
<1>10. f[x] \in Int /\ f[y] \in Int /\ g[(s \ {x}) \ {y}] \in Int
  BY <1>2, <1>3, SumType
<1> DEFINE a == f[x]  b == f[y]  rest == g[(s \ {x}) \ {y}]
<1>11. a \in Int /\ b \in Int /\ rest \in Int /\ g[s] # a + g[s \ {x}] /\ g[s] = b + g[s \ {y}]
       /\ g[s \ {x}] = b + rest /\ g[s \ {y}] = a + rest
  BY <1>2, <1>4, <1>7, <1>8, <1>9, <1>10
<1> HIDE DEF a, b, rest
<1> QED
  BY <1>11

\* The sum over a set depends on what is added over it alone.
LEMMA SumLocal ==
    ASSUME NEW S, NEW T, IsFiniteSet(T), S \subseteq T,
           NEW f, NEW k, \A x \in S : f[x] = k[x],
           NEW g, SumsUp(g, f, S), NEW h, SumsUp(h, k, T)
    PROVE  \A s \in SUBSET S : g[s] = h[s]
<1> DEFINE Wrong == {s \in SUBSET S : g[s] # h[s]}
<1>f. IsFiniteSet(S)
  BY FS_Subset
<1> SUFFICES ASSUME Wrong # {} PROVE FALSE
  OBVIOUS
<1>0. Wrong \in SUBSET SUBSET S
  OBVIOUS
<1>1. PICK s \in Wrong : \A t \in Wrong : t \subseteq s => t = s
  <2> HIDE DEF Wrong
  <2> QED
    BY <1>0, <1>f, LeastSubset
<1>2. s # {}
  BY SumStep
<1>3. Pick(s) \in s
  BY <1>2, Picked
<1>4. s \ {Pick(s)} \in SUBSET S /\ s \ {Pick(s)} \notin Wrong
  BY <1>1, <1>3
<1>5. g[s] = f[Pick(s)] + g[s \ {Pick(s)}] /\ h[s] = k[Pick(s)] + h[s \ {Pick(s)}]
  BY <1>2, SumStep
<1> QED
  BY <1>3, <1>4, <1>5

-----------------------------------------------------------------------------
LEMMA Sizes ==
    /\ NTrials \in Nat /\ NTrials >= 1 /\ Iterations \in Nat /\ Iterations >= 1
    /\ MaxBufLines \in Nat /\ MaxFailures \in Nat
BY NTrialsAssumption, IterationsAssumption, MaxBufLinesAssumption, MaxFailuresAssumption

(* What the trials that have ended lack of Iterations runs each. *)

Lacking(ts) == MapThenSumSet(LAMBDA t : Iterations - ts[t], DOMAIN ts)

LacksBy(ts) == [t \in DOMAIN ts |-> Iterations - ts[t]]

LEMMA LackingIsSum ==
    ASSUME NEW ts, IsFiniteSet(DOMAIN ts)
    PROVE  \E g : SumsUp(g, LacksBy(ts), DOMAIN ts) /\ Lacking(ts) = g[DOMAIN ts]
<1> DEFINE S == DOMAIN ts
           Def(g) == g = [s \in SUBSET S |->
                            IF s = {} THEN 0 ELSE (Iterations - ts[Pick(s)]) + g[s \ {Pick(s)}]]
<1>1. Lacking(ts) = (CHOOSE g : Def(g))[S]
  BY DEF Lacking, MapThenSumSet, MapThenFoldSet, Pick
<1>2. ASSUME NEW s \in SUBSET S, s # {}
      PROVE  LacksBy(ts)[Pick(s)] = Iterations - ts[Pick(s)]
  BY <1>2, Picked DEF LacksBy
<1>3. ASSUME NEW g PROVE SumsUp(g, LacksBy(ts), S) <=> Def(g)
  BY <1>2 DEF SumsUp
<1>4. PICK g : Def(g)
  BY <1>3, SumExists
<1> HIDE DEF Def
<1>5. Def(CHOOSE h : Def(h))
  BY <1>4
<1> QED
  BY <1>1, <1>3, <1>5

LEMMA LackingNothing == Lacking(<<>>) = 0
<1>1. DOMAIN <<>> = {}
  OBVIOUS
<1>2. IsFiniteSet({})
  BY FS_EmptySet
<1>3. PICK g : SumsUp(g, LacksBy(<<>>), {}) /\ Lacking(<<>>) = g[{}]
  BY <1>1, <1>2, LackingIsSum
<1> QED
  BY <1>3, SumStep

LEMMA LackingMore ==
    ASSUME NEW ts \in Seq(0..Iterations), NEW r \in 0..Iterations
    PROVE  /\ Lacking(ts) \in Int
           /\ Lacking(Append(ts, r)) = Lacking(ts) + (Iterations - r)
<1> DEFINE us == Append(ts, r)
           n == Len(ts)
           S == 1..n
           T == 1..n + 1
<1>1. n \in Nat /\ DOMAIN ts = S /\ DOMAIN us = T /\ us[n + 1] = r
      /\ \A t \in S : us[t] = ts[t]
  OBVIOUS
<1>2. IsFiniteSet(S) /\ IsFiniteSet(T)
  BY <1>1, FS_Interval
<1>3. n + 1 \in T /\ T \ {n + 1} = S /\ S \subseteq T
  BY <1>1
<1>4. PICK g : SumsUp(g, LacksBy(ts), S) /\ Lacking(ts) = g[S]
  BY <1>1, <1>2, LackingIsSum
<1>5. PICK h : SumsUp(h, LacksBy(us), T) /\ Lacking(us) = h[T]
  <2>1. IsFiniteSet(DOMAIN us)
    BY <1>1, <1>2
  <2> QED
    BY <2>1, <1>1, LackingIsSum
<1>6. \A t \in S : LacksBy(ts)[t] \in Int
  <2> SUFFICES ASSUME NEW t \in S PROVE LacksBy(ts)[t] \in Int
    OBVIOUS
  <2>1. ts[t] \in Int
    <3> DEFINE R == 0..Iterations
    <3>1. ts \in Seq(R) /\ R \subseteq Int /\ t \in 1..Len(ts)
      BY Sizes
    <3> HIDE DEF R
    <3>2. ts[t] \in R
      BY <3>1
    <3> QED
      BY <3>1, <3>2
  <2> QED
    BY <1>1, <2>1, Sizes DEF LacksBy
<1>7. LacksBy(us)[n + 1] = Iterations - r /\ \A t \in S : LacksBy(us)[t] = LacksBy(ts)[t]
  BY <1>1, <1>3 DEF LacksBy
<1>8. \A t \in T : LacksBy(us)[t] \in Int
  <2>1. Iterations - r \in Int
    BY Sizes
  <2> QED
    BY <1>3, <1>6, <1>7, <2>1
<1> HIDE DEF us, n, S, T
<1>9. g[S] \in Int
  BY <1>2, <1>4, <1>6, SumType
<1>10. h[T] = LacksBy(us)[n + 1] + h[S]
  BY <1>2, <1>3, <1>5, <1>8, SumTakeOut
<1>11. h[S] = g[S]
  <2>1. \A t \in S : LacksBy(ts)[t] = LacksBy(us)[t]
    BY <1>7
  <2>2. SumsUp(g, LacksBy(ts), S) /\ SumsUp(h, LacksBy(us), T)
    BY <1>4, <1>5
  <2>3. \A s \in SUBSET S : g[s] = h[s]
    BY ONLY <1>2, <1>3, <2>1, <2>2, SumLocal
  <2> QED
    BY <2>3
<1>12. Lacking(us) = (Iterations - r) + Lacking(ts)
  BY <1>4, <1>5, <1>7, <1>10, <1>11
<1>13. Lacking(us) = Lacking(ts) + (Iterations - r)
  BY <1>4, <1>9, <1>12, Sizes
<1> QED
  BY <1>4, <1>9, <1>13 DEF us

-----------------------------------------------------------------------------
(* The invariant. *)

\* Who is alive where: a child in process_func() only, and a thread exactly
\* while main() holds the handle of one.
Alive ==
    /\ child # "none" <=> pc = "wait"
    /\ thread # "none" <=> handle = "live"
    /\ handle = "live" => pc = "join"

\* What has run since the trial began, counting the one under way.
RunSoFar ==
    /\ pc \in {"wait", "join"} => i < Iterations
    /\ ran <= i + (IF pc = "wait" \/ handle = "live" THEN 1 ELSE 0)
    /\ trial > 2 * NTrials => i = 0
    /\ pc = "wait" => trial \in ProcTrials
    /\ pc = "join" => trial \in ThreadTrials

Stored == times \in Seq(0..Iterations) /\ Len(times) = trial - 1

Scalars ==
    /\ pc \in {"loop", "wait", "join", "done", "crashed"}
    /\ trial \in 1..2 * NTrials + 1 /\ i \in 0..Iterations
    /\ child \in {"none", "running", "exited"} /\ thread \in {"none", "running", "ended"}
    /\ handle \in {"garbage", "live", "joined"}
    /\ ran \in 0..Iterations

Lines ==
    /\ bufLines \in 0..MaxBufLines /\ out \in Seq(Nat)
    /\ buf \subseteq DOMAIN out /\ Cardinality(buf) <= bufLines
    /\ childBuf \subseteq DOMAIN out /\ Cardinality(childBuf) <= bufLines

\* NoLineLost, without counting while nothing is lost.
Kept ==
    /\ pc # "crashed" => \A l \in DOMAIN out : out[l] = 0 => l \in buf
    /\ pc = "crashed" => Cardinality(Lost) <= bufLines
    /\ bufLines = 0 => \A l \in DOMAIN out : out[l] = 1

ProcInv == Scalars /\ Lines /\ Alive /\ RunSoFar /\ Stored /\ Kept

-----------------------------------------------------------------------------
LEMMA InitInv == Init => ProcInv
<1> SUFFICES ASSUME Init PROVE ProcInv
  OBVIOUS
<1>1. /\ bufLines \in 0..MaxBufLines /\ pc = "loop" /\ trial = 1 /\ i = 0 /\ child = "none"
      /\ childBuf = {} /\ thread = "none" /\ handle = "garbage" /\ buf = {} /\ out = <<>>
      /\ ran = 0 /\ times = <<>>
  BY DEF Init
<1>2. Scalars /\ Lines
  <2>1. Cardinality({}) = 0 /\ out \in Seq(Nat)
    BY <1>1, FS_EmptySet
  <2> QED
    BY <1>1, <2>1, Sizes DEF Scalars, Lines
<1>3. Alive /\ RunSoFar /\ Kept
  <2>1. DOMAIN out = {}
    BY <1>1
  <2> QED
    BY <1>1, <2>1, Sizes DEF Alive, RunSoFar, Kept
<1>4. Stored
  BY <1>1 DEF Stored
<1> QED
  BY <1>2, <1>3, <1>4 DEF ProcInv

\* The numbers in a state of the invariant.
LEMMA Numbers ==
    ASSUME ProcInv
    PROVE  /\ trial \in Nat /\ 1 <= trial /\ trial <= 2 * NTrials + 1
           /\ i \in Nat /\ i <= Iterations /\ ran \in Nat /\ ran <= Iterations
           /\ bufLines \in Nat
BY Sizes DEF ProcInv, Scalars, Lines

\* The lines printed, and the lines in the copies of the buffer.
LEMMA Buffers ==
    ASSUME ProcInv
    PROVE  /\ Len(out) \in Nat /\ DOMAIN out = 1..Len(out) /\ \A l \in DOMAIN out : out[l] \in Nat
           /\ IsFiniteSet(DOMAIN out)
           /\ IsFiniteSet(buf) /\ Cardinality(buf) \in Nat /\ (bufLines = 0 => buf = {})
           /\ IsFiniteSet(childBuf) /\ Cardinality(childBuf) \in Nat
           /\ (bufLines = 0 => childBuf = {})
<1>1. out \in Seq(Nat) /\ Len(out) \in Nat /\ DOMAIN out = 1..Len(out)
  BY DEF ProcInv, Lines
<1>2. \A l \in DOMAIN out : out[l] \in Nat
  BY <1>1
<1>3. IsFiniteSet(DOMAIN out)
  BY <1>1, FS_Interval
<1>4. ASSUME NEW b, b \subseteq DOMAIN out, Cardinality(b) <= bufLines
      PROVE  IsFiniteSet(b) /\ Cardinality(b) \in Nat /\ (bufLines = 0 => b = {})
  <2>1. IsFiniteSet(b) /\ Cardinality(b) \in Nat
    BY <1>3, <1>4, FS_Subset, FS_CardinalityType
  <2>2. bufLines = 0 => Cardinality(b) = 0
    BY <1>4, <2>1
  <2> QED
    BY <2>1, <2>2, FS_EmptySet
<1> QED
  BY <1>1, <1>2, <1>3, <1>4 DEF ProcInv, Lines

\* A new line that is not written, and stdout once some lines are.
LEMMA NewLine ==
    ASSUME ProcInv
    PROVE  /\ Unwritten \in Seq(Nat) /\ DOMAIN Unwritten = DOMAIN out \union {Line}
           /\ Line \notin DOMAIN out /\ Unwritten[Line] = 0
           /\ \A l \in DOMAIN out : Unwritten[l] = out[l]
BY Buffers DEF Unwritten, Line, ProcInv, Lines

LEMMA WrittenIs ==
    ASSUME NEW copies \in Seq(Nat), NEW lines
    PROVE  /\ Written(lines, copies) \in Seq(Nat)
           /\ DOMAIN Written(lines, copies) = DOMAIN copies
           /\ \A l \in DOMAIN copies :
                 /\ copies[l] \in Nat
                 /\ Written(lines, copies)[l] = IF l \in lines THEN copies[l] + 1 ELSE copies[l]
<1> DEFINE n == Len(copies)
           w == Written(lines, copies)
<1>1. n \in Nat /\ DOMAIN copies = 1..n /\ \A l \in 1..n : copies[l] \in Nat
  OBVIOUS
<1>2. w = [l \in 1..n |-> IF l \in lines THEN copies[l] + 1 ELSE copies[l]]
  BY <1>1 DEF Written
<1>3. w \in [1..n -> Nat]
  BY <1>1, <1>2
<1>4. w \in Seq(Nat)
  BY <1>1, <1>3
<1> QED
  BY <1>1, <1>2, <1>4

\* printf() adds one line to those on stdout and in the buffer.
LEMMA PrintfLines ==
    ASSUME ProcInv, Printf, bufLines' = bufLines, childBuf' = childBuf,
           pc # "crashed", pc' # "crashed"
    PROVE  Lines' /\ Kept'
<1>1. /\ Unwritten \in Seq(Nat) /\ DOMAIN Unwritten = DOMAIN out \union {Line}
      /\ Line \notin DOMAIN out /\ Unwritten[Line] = 0
      /\ \A l \in DOMAIN out : Unwritten[l] = out[l]
  BY NewLine
<1>2. /\ buf \subseteq DOMAIN out /\ childBuf \subseteq DOMAIN out /\ bufLines \in 0..MaxBufLines
      /\ Cardinality(childBuf) <= bufLines
      /\ \A l \in DOMAIN out : out[l] = 0 => l \in buf
      /\ bufLines = 0 => \A l \in DOMAIN out : out[l] = 1
  BY DEF ProcInv, Lines, Kept
<1>3. CASE Cardinality(buf) < bufLines
  <2>1. buf' = buf \union {Line} /\ out' = Unwritten
    BY <1>3 DEF Printf
  <2>2. Cardinality(buf') = Cardinality(buf) + 1 /\ Cardinality(buf) \in Nat
    BY <1>1, <1>2, <2>1, Buffers, FS_AddElement
  <2>3. Cardinality(buf') <= bufLines /\ bufLines # 0
    BY <1>3, <2>2, Numbers
  <2>4. buf' \subseteq DOMAIN out' /\ childBuf' \subseteq DOMAIN out'
    BY <1>1, <1>2, <2>1
  <2>5. Lines'
    BY <1>1, <1>2, <2>1, <2>3, <2>4 DEF Lines
  <2>6. \A l \in DOMAIN out' : out'[l] = 0 => l \in buf'
    BY <1>1, <1>2, <2>1
  <2> QED
    BY <2>3, <2>5, <2>6 DEF Kept
<1>4. CASE ~(Cardinality(buf) < bufLines)
  <2> DEFINE all == buf \union {Line}
  <2>1. buf' = {} /\ out' = Written(all, Unwritten)
    BY <1>4 DEF Printf
  <2>2. /\ out' \in Seq(Nat) /\ DOMAIN out' = DOMAIN Unwritten
        /\ \A l \in DOMAIN Unwritten :
              /\ Unwritten[l] \in Nat
              /\ out'[l] = IF l \in all THEN Unwritten[l] + 1 ELSE Unwritten[l]
    BY <1>1, <2>1, WrittenIs
  <2>3. Cardinality({}) = 0 /\ 0 <= bufLines
    BY Numbers, FS_EmptySet
  <2>4. Lines'
    BY <1>1, <1>2, <2>1, <2>2, <2>3 DEF Lines
  <2>5. \A l \in DOMAIN out' : out'[l] # 0
    BY <1>1, <1>2, <2>2
  <2>6. bufLines = 0 => \A l \in DOMAIN out' : out'[l] = 1
    <3>1. bufLines = 0 => buf = {}
      BY Buffers
    <3> QED
      BY <1>1, <1>2, <2>2, <3>1
  <2> QED
    BY <2>4, <2>5, <2>6 DEF Kept
<1> QED
  BY <1>3, <1>4

\* A step that prints nothing.
LEMMA SameLines ==
    ASSUME ProcInv, bufLines' = bufLines, childBuf' \in {childBuf, buf}, buf' = buf, out' = out,
           pc # "crashed", pc' # "crashed"
    PROVE  Lines' /\ Kept'
BY DEF ProcInv, Lines, Kept

LEMMA SameStored ==
    ASSUME ProcInv, times' = times, trial' = trial
    PROVE  Stored'
BY DEF ProcInv, Stored

-----------------------------------------------------------------------------
(* Processes. *)

LEMMA ForkInv == ProcInv /\ Fork => ProcInv'
<1> SUFFICES ASSUME ProcInv, Fork PROVE ProcInv'
  OBVIOUS
<1>1. /\ pc = "loop" /\ trial \in ProcTrials /\ i < Iterations /\ child = "none"
      /\ child' = "running" /\ childBuf' = buf /\ ran' = ran + 1 /\ pc' = "wait"
      /\ bufLines' = bufLines /\ trial' = trial /\ i' = i /\ thread' = thread /\ handle' = handle
      /\ buf' = buf /\ out' = out /\ times' = times
  BY DEF Fork
<1>2. handle # "live" /\ ran <= i /\ thread = "none"
  BY <1>1 DEF ProcInv, Alive, RunSoFar, Scalars
<1>3. ran' \in 0..Iterations /\ ran' <= i' + 1 /\ ~(trial > 2 * NTrials)
  BY <1>1, <1>2, Numbers, Sizes DEF ProcTrials
<1>4. Scalars' /\ Alive'
  BY <1>1, <1>2, <1>3 DEF ProcInv, Scalars, Alive
<1>5. RunSoFar'
  BY <1>1, <1>3 DEF RunSoFar, ProcTrials
<1> QED
  BY <1>1, <1>4, <1>5, SameLines, SameStored DEF ProcInv

LEMMA ForkFailsInv == ProcInv /\ ForkFails => ProcInv'
<1> SUFFICES ASSUME ProcInv, ForkFails PROVE ProcInv'
  OBVIOUS
<1>1. /\ pc = "loop" /\ trial \in ProcTrials /\ i < Iterations /\ i' = i + 1
      /\ child' = child /\ childBuf' = childBuf /\ ran' = ran /\ pc' = pc
      /\ bufLines' = bufLines /\ trial' = trial /\ thread' = thread /\ handle' = handle
      /\ buf' = buf /\ out' = out /\ times' = times
  BY DEF ForkFails
<1>2. handle # "live" /\ ran <= i
  BY <1>1, Numbers DEF ProcInv, Alive, RunSoFar
<1>3. ran' <= i' /\ i' \in 0..Iterations /\ ~(trial > 2 * NTrials)
  BY <1>1, <1>2, Numbers, Sizes DEF ProcTrials
<1>4. Scalars' /\ Alive'
  BY <1>1, <1>3 DEF ProcInv, Scalars, Alive
<1>5. RunSoFar'
  BY <1>1, <1>2, <1>3, Numbers DEF RunSoFar
<1> QED
  BY <1>1, <1>4, <1>5, SameLines, SameStored DEF ProcInv

LEMMA ChildRunsInv == ProcInv /\ ChildRuns => ProcInv'
<1> SUFFICES ASSUME ProcInv, ChildRuns PROVE ProcInv'
  OBVIOUS
<1>1. /\ child = "running" /\ child' = "exited"
      /\ out' = Written(childBuf \union {Line}, Unwritten)
      /\ childBuf' = childBuf /\ ran' = ran /\ pc' = pc /\ i' = i
      /\ bufLines' = bufLines /\ trial' = trial /\ thread' = thread /\ handle' = handle
      /\ buf' = buf /\ times' = times
  BY DEF ChildRuns
<1>2. Scalars' /\ Alive' /\ RunSoFar'
  BY <1>1 DEF ProcInv, Scalars, Alive, RunSoFar, ProcTrials, ThreadTrials
<1>3. /\ Unwritten \in Seq(Nat) /\ DOMAIN Unwritten = DOMAIN out \union {Line}
      /\ Line \notin DOMAIN out /\ Unwritten[Line] = 0
      /\ \A l \in DOMAIN out : Unwritten[l] = out[l]
  BY NewLine
<1> DEFINE all == childBuf \union {Line}
<1>6. /\ out' \in Seq(Nat) /\ DOMAIN out' = DOMAIN Unwritten
      /\ \A l \in DOMAIN Unwritten :
            /\ Unwritten[l] \in Nat
            /\ out'[l] = IF l \in all THEN Unwritten[l] + 1 ELSE Unwritten[l]
  BY <1>1, <1>3, WrittenIs
<1>4. Lines'
  BY <1>1, <1>3, <1>6 DEF ProcInv, Lines
<1>5. Kept'
  <2>1. pc # "crashed"
    BY <1>1 DEF ProcInv, Alive
  <2>2. /\ \A l \in DOMAIN out : out[l] = 0 => l \in buf
        /\ bufLines = 0 => \A l \in DOMAIN out : out[l] = 1
    BY <2>1 DEF ProcInv, Kept
  <2>3. ASSUME NEW l \in DOMAIN out', out'[l] = 0 PROVE l \in buf'
    <3>1. l \in DOMAIN Unwritten
      BY <1>6
    <3>2. l \notin all /\ Unwritten[l] = 0
      BY <1>6, <2>3, <3>1
    <3>3. l \in DOMAIN out
      BY <1>3, <3>1, <3>2
    <3> QED
      BY <1>1, <1>3, <2>2, <3>2, <3>3
  <2>4. bufLines = 0 => \A l \in DOMAIN out' : out'[l] = 1
    <3>1. bufLines = 0 => childBuf = {}
      BY Buffers
    <3> QED
      BY <1>3, <1>6, <2>2, <3>1
  <2> QED
    BY <1>1, <2>1, <2>3, <2>4 DEF Kept
<1> QED
  BY <1>1, <1>2, <1>4, <1>5, SameStored DEF ProcInv

LEMMA WaitInv == ProcInv /\ Wait => ProcInv'
<1> SUFFICES ASSUME ProcInv, Wait PROVE ProcInv'
  OBVIOUS
<1>1. /\ pc = "wait" /\ child' = "none" /\ i' = i + 1 /\ pc' = "loop" /\ Printf
      /\ childBuf' = childBuf /\ ran' = ran /\ bufLines' = bufLines /\ trial' = trial
      /\ thread' = thread /\ handle' = handle /\ times' = times
  BY DEF Wait
<1>2. handle # "live" /\ ran <= i + 1 /\ i < Iterations /\ trial \in ProcTrials
  BY <1>1 DEF ProcInv, Alive, RunSoFar
<1>3. ran' <= i' /\ i' \in 0..Iterations /\ ~(trial > 2 * NTrials)
  BY <1>1, <1>2, Numbers, Sizes DEF ProcTrials
<1>4. Scalars' /\ Alive'
  BY <1>1, <1>2, <1>3 DEF ProcInv, Scalars, Alive
<1>5. RunSoFar'
  BY <1>1, <1>2, <1>3, Numbers DEF RunSoFar
<1> QED
  BY <1>1, <1>4, <1>5, PrintfLines, SameStored DEF ProcInv

-----------------------------------------------------------------------------
(* Threads. *)

LEMMA CreateInv == ProcInv /\ (Create \/ CreateFails) => ProcInv'
<1> SUFFICES ASSUME ProcInv, Create \/ CreateFails PROVE ProcInv'
  OBVIOUS
<1>1. /\ pc = "loop" /\ trial \in ThreadTrials /\ i < Iterations /\ pc' = "join"
      /\ \/ thread' = "running" /\ handle' = "live" /\ ran' = ran + 1
         \/ thread' = thread /\ handle' = handle /\ ran' = ran
      /\ child' = child /\ childBuf' = childBuf /\ i' = i
      /\ bufLines' = bufLines /\ trial' = trial
      /\ buf' = buf /\ out' = out /\ times' = times
  BY DEF Create, CreateFails
<1>2. handle # "live" /\ ran <= i /\ child = "none"
  BY <1>1 DEF ProcInv, Alive, RunSoFar, Scalars
<1>3. ran' \in 0..Iterations /\ ~(trial > 2 * NTrials)
  BY <1>1, <1>2, Numbers, Sizes DEF ThreadTrials
<1>4. Scalars' /\ Alive'
  BY <1>1, <1>2, <1>3 DEF ProcInv, Scalars, Alive
<1>5. ran' <= i' + (IF pc' = "wait" \/ handle' = "live" THEN 1 ELSE 0)
  BY <1>1, <1>2, Numbers
<1>6. RunSoFar'
  BY <1>1, <1>3, <1>5 DEF RunSoFar, ThreadTrials
<1> QED
  BY <1>1, <1>4, <1>6, SameLines, SameStored DEF ProcInv

LEMMA ThreadRunsInv == ProcInv /\ ThreadRuns => ProcInv'
<1> SUFFICES ASSUME ProcInv, ThreadRuns PROVE ProcInv'
  OBVIOUS
<1>1. /\ thread = "running" /\ thread' = "ended" /\ Printf
      /\ child' = child /\ childBuf' = childBuf /\ ran' = ran /\ pc' = pc /\ i' = i
      /\ bufLines' = bufLines /\ trial' = trial /\ handle' = handle /\ times' = times
  BY DEF ThreadRuns
<1>2. Scalars' /\ Alive' /\ RunSoFar'
  BY <1>1 DEF ProcInv, Scalars, Alive, RunSoFar, ProcTrials, ThreadTrials
<1>3. pc # "crashed"
  BY <1>1 DEF ProcInv, Alive
<1> QED
  BY <1>1, <1>2, <1>3, PrintfLines, SameStored DEF ProcInv

LEMMA JoinInv == ProcInv /\ (Join \/ JoinNoThread) => ProcInv'
<1> SUFFICES ASSUME ProcInv, Join \/ JoinNoThread PROVE ProcInv'
  OBVIOUS
<1>1. /\ pc = "join"
      /\ \/ handle = "live" /\ thread' = "none" /\ handle' = "joined"
         \/ handle # "live" /\ thread' = thread /\ handle' = handle
      /\ \/ pc' = "loop" /\ i' = i + 1 /\ buf' = buf
         \/ pc' = "crashed" /\ i' = i /\ buf' = {} /\ handle # "live"
      /\ child' = child /\ childBuf' = childBuf /\ ran' = ran
      /\ bufLines' = bufLines /\ trial' = trial
      /\ out' = out /\ times' = times
  BY DEF Join, JoinNoThread
<1>2. /\ child = "none" /\ i < Iterations /\ trial \in ThreadTrials
      /\ ran <= i + (IF handle = "live" THEN 1 ELSE 0)
  BY <1>1 DEF ProcInv, Alive, RunSoFar, Scalars
<1>3. i' \in 0..Iterations /\ ran' <= i' /\ ~(trial > 2 * NTrials)
  BY <1>1, <1>2, Numbers, Sizes DEF ThreadTrials
<1>4. Scalars' /\ Alive'
  BY <1>1, <1>2, <1>3 DEF ProcInv, Scalars, Alive
<1>5. handle' # "live" /\ pc' # "wait" /\ pc' # "join"
  BY <1>1
<1>6. RunSoFar'
  BY <1>1, <1>3, <1>5, Numbers DEF RunSoFar
<1>7. Lines' /\ Kept'
  <2>1. CASE pc' = "loop" /\ buf' = buf
    BY <1>1, <2>1, SameLines
  <2>2. CASE pc' = "crashed" /\ buf' = {}
    <3>1. /\ \A l \in DOMAIN out : out[l] = 0 => l \in buf
          /\ bufLines = 0 => \A l \in DOMAIN out : out[l] = 1
          /\ Cardinality(buf) <= bufLines
      BY <1>1 DEF ProcInv, Kept, Lines
    <3>2. Lines'
      <4>1. Cardinality({}) = 0 /\ 0 <= bufLines
        BY Numbers, FS_EmptySet
      <4> QED
        BY <1>1, <2>2, <4>1 DEF ProcInv, Lines
    <3>3. Cardinality(Lost') <= bufLines
      <4>1. Lost' \subseteq buf
        BY <1>1, <3>1 DEF Lost
      <4>2. IsFiniteSet(buf) /\ Cardinality(buf) \in Nat
        BY Buffers
      <4>3. Cardinality(Lost') <= Cardinality(buf) /\ IsFiniteSet(Lost')
        BY <4>1, <4>2, FS_Subset
      <4>4. Cardinality(Lost') \in Nat
        BY <4>3, FS_CardinalityType
      <4> QED
        BY <3>1, <4>2, <4>3, <4>4, Numbers
    <3> QED
      BY <1>1, <2>2, <3>1, <3>2, <3>3 DEF Kept
  <2> QED
    BY <1>1, <2>1, <2>2
<1> QED
  BY <1>1, <1>4, <1>6, <1>7, SameStored DEF ProcInv

-----------------------------------------------------------------------------
LEMMA EndTrialInv == ProcInv /\ EndTrial => ProcInv'
<1> SUFFICES ASSUME ProcInv, EndTrial PROVE ProcInv'
  OBVIOUS
<1>1. /\ pc = "loop" /\ trial <= 2 * NTrials /\ times' = Append(times, ran)
      /\ trial' = trial + 1 /\ i' = 0 /\ ran' = 0 /\ pc' = pc
      /\ child' = child /\ childBuf' = childBuf /\ thread' = thread /\ handle' = handle
      /\ bufLines' = bufLines /\ buf' = buf /\ out' = out
  BY DEF EndTrial
<1>2. trial' \in 1..2 * NTrials + 1 /\ i' \in 0..Iterations /\ ran' \in 0..Iterations
  BY <1>1, Numbers, Sizes
<1>3. Scalars' /\ Alive'
  BY <1>1, <1>2 DEF ProcInv, Scalars, Alive
<1>4. RunSoFar'
  BY <1>1 DEF RunSoFar
<1>5. ran \in 0..Iterations /\ times \in Seq(0..Iterations) /\ Len(times) = trial - 1
  BY DEF ProcInv, Scalars, Stored
<1>6. times' \in Seq(0..Iterations) /\ Len(times') = trial' - 1
  BY <1>1, <1>5, Numbers
<1> QED
  BY <1>1, <1>3, <1>4, <1>6, SameLines DEF ProcInv, Stored

LEMMA ReportInv == ProcInv /\ Report => ProcInv'
<1> SUFFICES ASSUME ProcInv, Report PROVE ProcInv'
  OBVIOUS
<1>1. /\ pc = "loop" /\ out' = Written(buf, out) /\ buf' = {} /\ pc' = "done"
      /\ trial' = trial /\ i' = i /\ ran' = ran /\ times' = times
      /\ child' = child /\ childBuf' = childBuf /\ thread' = thread /\ handle' = handle
      /\ bufLines' = bufLines
  BY DEF Report
<1>2. Scalars' /\ Alive'
  BY <1>1 DEF ProcInv, Scalars, Alive
<1>3. RunSoFar'
  BY <1>1 DEF ProcInv, RunSoFar
<1>6. /\ out' \in Seq(Nat) /\ DOMAIN out' = DOMAIN out
      /\ \A l \in DOMAIN out :
            out[l] \in Nat /\ out'[l] = IF l \in buf THEN out[l] + 1 ELSE out[l]
  <2>1. out \in Seq(Nat)
    BY DEF ProcInv, Lines
  <2> QED
    BY <1>1, <2>1, WrittenIs
<1>4. Lines'
  <2>1. Cardinality({}) = 0 /\ 0 <= bufLines
    BY Numbers, FS_EmptySet
  <2> QED
    BY <1>1, <1>6, <2>1 DEF ProcInv, Lines
<1>5. Kept'
  <2>1. /\ \A l \in DOMAIN out : out[l] = 0 => l \in buf
        /\ bufLines = 0 => \A l \in DOMAIN out : out[l] = 1
    BY <1>1 DEF ProcInv, Kept
  <2>2. bufLines = 0 => buf = {}
    BY Buffers
  <2> QED
    BY <1>1, <1>6, <2>1, <2>2 DEF Kept
<1> QED
  BY <1>1, <1>2, <1>3, <1>4, <1>5, SameStored DEF ProcInv

LEMMA NextInv == ProcInv /\ [Next]_vars => ProcInv'
<1>1. ProcInv /\ UNCHANGED vars => ProcInv'
  BY DEF vars, ProcInv, Scalars, Lines, Alive, RunSoFar, Stored, Kept, Lost, ProcTrials,
         ThreadTrials
<1> QED
  BY <1>1, ForkInv, ForkFailsInv, ChildRunsInv, WaitInv, CreateInv, ThreadRunsInv, JoinInv,
     EndTrialInv, ReportInv
  DEF Next, MainStep, Terminated

\* Who is alive, what has run and what was printed follow from the place of main().
THEOREM Invariance == Spec => []ProcInv
BY InitInv, NextInv, PTL DEF Spec

\* The state keeps its types: in a trial no more processes or threads run than
\* Iterations, and every trial that has ended has its time.
THEOREM TypeCorrect == Spec => []TypeOK
<1>1. ProcInv => TypeOK
  <2> SUFFICES ASSUME ProcInv PROVE TypeOK
    OBVIOUS
  <2>1. times \in Seq(0..Iterations) /\ Len(times) = trial - 1 /\ trial \in Nat
    BY Numbers DEF ProcInv, Stored
  <2>2. DOMAIN times = 1..Len(times) /\ Len(times) = trial - 1
    BY <2>1
  <2>3. ASSUME NEW t \in 1..Len(times) PROVE times[t] \in 0..Iterations
    <3> DEFINE S == 0..Iterations
    <3>1. times \in Seq(S)
      BY <2>1
    <3> HIDE DEF S
    <3>2. times[t] \in S
      BY <3>1
    <3> QED
      BY <3>2 DEF S
  <2> QED
    BY <2>2, <2>3 DEF ProcInv, Scalars, Lines, TypeOK
<1> QED
  BY <1>1, Invariance, PTL

\* Outside process_func() and the create-and-join of a thread nobody runs and
\* nobody is left, whichever calls fail.
THEOREM NobodyLeftBehind == Spec => []NobodyLeft
<1>1. ProcInv => NobodyLeft
  BY DEF ProcInv, Alive, NobodyLeft
<1> QED
  BY <1>1, Invariance, PTL

\* No line is lost, whoever printed it and in whichever copy of a buffer of any size it
\* was, but for those in the buffer at a crash; on a terminal every line appears exactly
\* once.
THEOREM LinesKept == Spec => []NoLineLost
<1>1. ProcInv => NoLineLost
  <2> SUFFICES ASSUME ProcInv PROVE NoLineLost
    OBVIOUS
  <2>1. Kept
    BY DEF ProcInv
  <2>2. ASSUME pc # "crashed" PROVE Cardinality(Lost) <= 0
    <3>1. Lost = {}
      BY <2>1, <2>2 DEF Kept, Lost
    <3> QED
      BY <3>1, FS_EmptySet
  <2> QED
    BY <2>1, <2>2 DEF Kept, NoLineLost
<1> QED
  BY <1>1, Invariance, PTL

-----------------------------------------------------------------------------
(* What the failures account for.  While a call is under way its failure or its *)
(* run is counted, but not yet the iteration; of the crash as well.             *)

MissedSoFar ==
    failures = (IF pc \in {"wait", "join", "crashed"} THEN i + 1 ELSE i) - ran + Lacking(times)

LEMMA InitMissed == Init => MissedSoFar
BY LackingNothing DEF Init, MissedSoFar

LEMMA LackingInt == ProcInv => Lacking(times) \in Int
<1> SUFFICES ASSUME ProcInv PROVE Lacking(times) \in Int
  OBVIOUS
<1>1. times \in Seq(0..Iterations) /\ ran \in 0..Iterations
  BY DEF ProcInv, Stored, Scalars
<1> QED
  BY <1>1, LackingMore

LEMMA NextMissed == ProcInv /\ MissedSoFar /\ [Next]_vars => MissedSoFar'
<1> SUFFICES ASSUME ProcInv, MissedSoFar, [Next]_vars PROVE MissedSoFar'
  OBVIOUS
<1> DEFINE L == Lacking(times)
<1>n. /\ i \in Nat /\ ran \in Nat /\ L \in Int
      /\ failures = (IF pc \in {"wait", "join", "crashed"} THEN i + 1 ELSE i) - ran + L
      /\ times' = times => Lacking(times)' = L
  BY Numbers, LackingInt DEF MissedSoFar
<1> SUFFICES failures' = (IF pc' \in {"wait", "join", "crashed"} THEN i' + 1 ELSE i') - ran'
                            + Lacking(times)'
  BY DEF MissedSoFar
<1>1. CASE Fork \/ Create
  <2>1. pc = "loop" /\ pc' \in {"wait", "join"} /\ ran' = ran + 1 /\ i' = i /\ times' = times
        /\ failures' = failures
    BY <1>1 DEF Fork, Create
  <2> HIDE DEF L
  <2> QED
    BY <2>1, <1>n
<1>2. CASE ForkFails
  <2>1. pc = "loop" /\ pc' = pc /\ i' = i + 1 /\ ran' = ran /\ times' = times
        /\ failures' = failures + 1
    BY <1>2 DEF ForkFails
  <2> HIDE DEF L
  <2> QED
    BY <2>1, <1>n
<1>3. CASE CreateFails
  <2>1. pc = "loop" /\ pc' = "join" /\ i' = i /\ ran' = ran /\ times' = times
        /\ failures' = failures + 1
    BY <1>3 DEF CreateFails
  <2> HIDE DEF L
  <2> QED
    BY <2>1, <1>n
<1>4. CASE Wait \/ Join \/ JoinNoThread
  <2>1. /\ pc \in {"wait", "join"} /\ ran' = ran /\ times' = times /\ failures' = failures
        /\ \/ pc' = "loop" /\ i' = i + 1
           \/ pc' = "crashed" /\ i' = i
    BY <1>4 DEF Wait, Join, JoinNoThread
  <2> HIDE DEF L
  <2> QED
    BY <2>1, <1>n
<1>5. CASE EndTrial
  <2>1. /\ pc = "loop" /\ i = Iterations /\ times' = Append(times, ran) /\ i' = 0 /\ ran' = 0
        /\ pc' = pc /\ failures' = failures
    BY <1>5 DEF EndTrial
  <2>2. times \in Seq(0..Iterations) /\ ran \in 0..Iterations
    BY DEF ProcInv, Stored, Scalars
  <2>3. Lacking(times)' = L + (Iterations - ran)
    BY <2>1, <2>2, LackingMore
  <2> HIDE DEF L
  <2> QED
    BY <2>1, <2>3, <1>n
<1>6. CASE ChildRuns \/ ThreadRuns \/ Report \/ Terminated \/ UNCHANGED vars
  <2>1. /\ pc' = pc \/ (pc = "loop" /\ pc' = "done")
        /\ i' = i /\ ran' = ran /\ times' = times /\ failures' = failures
    BY <1>6 DEF ChildRuns, ThreadRuns, Report, Terminated, vars
  <2> HIDE DEF L
  <2> QED
    BY <2>1, <1>n
<1> QED
  BY <1>1, <1>2, <1>3, <1>4, <1>5, <1>6 DEF Next, MainStep

\* At any time, what the times of the trials that have ended lack of Iterations
\* runs each is the number of calls that have failed, for every number of trials
\* and iterations: nothing that ran is counted twice or left out, and nothing is
\* missing that did not fail.
THEOREM MissingAreFailures == Spec => []MissingRunsFailed
<1>1. ProcInv /\ MissedSoFar => MissingRunsFailed
  BY Numbers, LackingInt DEF MissedSoFar, MissingRunsFailed, Lacking
<1> QED
  BY InitInv, NextInv, InitMissed, NextMissed, <1>1, PTL DEF Spec

-----------------------------------------------------------------------------
(* Progress: every step of main(), a child or a thread brings the program   *)
(* nearer to its end, and until then one of them can always go on.          *)

\* The steps of an iteration.
Place == CASE pc = "loop" -> 3
           [] pc \in {"wait", "join"} -> 1
           [] OTHER -> 0

\* What a child or a thread has still to do.
Running == (IF child = "running" THEN 1 ELSE 0) + (IF thread = "running" THEN 1 ELSE 0)

TrialsLeft == (2 * NTrials + 1 - trial) * (4 * Iterations + 1)

Rank == TrialsLeft + 4 * (Iterations - i) + Place + Running

Forward == Rank' < Rank

\* main() blocks in wait() and pthread_join() only.
CanStep ==
    \/ pc = "loop"
    \/ pc = "wait" /\ child = "exited"
    \/ pc = "join" /\ (handle = "live" => thread = "ended")
    \/ child = "running" \/ thread = "running"

NoDeadlock == CanStep \/ pc \in {"done", "crashed"}

\* The trials to come, as a product.
LEMMA TrialsToCome ==
    ASSUME NEW t \in Nat, t <= 2 * NTrials + 1
    PROVE  /\ (2 * NTrials + 1 - t) * (4 * Iterations + 1) \in Nat
           /\ t <= 2 * NTrials =>
                 (2 * NTrials + 1 - t) * (4 * Iterations + 1) =
                     (2 * NTrials + 1 - (t + 1)) * (4 * Iterations + 1) + (4 * Iterations + 1)
<1>1. \A a, d \in Nat : a * d \in Nat /\ (a + 1) * d = a * d + d
  <2> SUFFICES ASSUME NEW a \in Nat, NEW d \in Nat
               PROVE  a * d \in Nat /\ (a + 1) * d = a * d + d
    OBVIOUS
  <2>1. a * d \in Nat
    OBVIOUS
  <2>2. (a + 1) * d = a * d + d
    OBVIOUS
  <2> QED
    BY <2>1, <2>2
<1>2. /\ 2 * NTrials + 1 - t \in Nat /\ 4 * Iterations + 1 \in Nat
      /\ t <= 2 * NTrials =>
            /\ 2 * NTrials + 1 - (t + 1) \in Nat
            /\ 2 * NTrials + 1 - t = (2 * NTrials + 1 - (t + 1)) + 1
  BY Sizes
<1> QED
  BY ONLY <1>1, <1>2

LEMMA RankParts ==
    ASSUME ProcInv
    PROVE  /\ TrialsLeft \in Nat /\ Iterations - i \in Nat /\ i \in Nat /\ Iterations \in Nat
           /\ Place \in 0..3 /\ Running \in 0..2 /\ Rank \in Nat
<1>1. TrialsLeft \in Nat
  BY Numbers, TrialsToCome DEF TrialsLeft
<1>2. Place \in 0..3
  BY DEF Place
<1>3. Running \in 0..2
  BY DEF Running
<1>4. Iterations - i \in Nat /\ i \in Nat /\ Iterations \in Nat
  BY Numbers, Sizes
<1> QED
  BY <1>1, <1>2, <1>3, <1>4 DEF Rank

\* A step within a trial, by what it does to the three parts of the rank.
LEMMA WithinTrial ==
    ASSUME ProcInv, trial' = trial,
           \/ i' = i /\ Place' + Running' < Place + Running
           \/ i' = i + 1 /\ Place' + Running' < Place + Running + 4,
           Place' \in 0..3, Running' \in 0..2
    PROVE  Forward
<1>1. TrialsLeft' = TrialsLeft
  BY DEF TrialsLeft
<1>2. CASE i' = i /\ Place' + Running' < Place + Running
  BY <1>1, <1>2, RankParts DEF Forward, Rank
<1>3. CASE i' = i + 1 /\ Place' + Running' < Place + Running + 4
  BY <1>1, <1>3, RankParts DEF Forward, Rank
<1> QED
  BY <1>2, <1>3

LEMMA StepIsForward ==
    ASSUME ProcInv, [Next]_vars
    PROVE  [Forward]_vars
<1>0. /\ child \in {"none", "running", "exited"} /\ thread \in {"none", "running", "ended"}
      /\ child # "none" <=> pc = "wait"
      /\ thread # "none" <=> handle = "live"
      /\ handle = "live" => pc = "join"
  BY DEF ProcInv, Scalars, Alive
<1>1. CASE Fork
  <2>1. /\ pc = "loop" /\ pc' = "wait" /\ child = "none" /\ child' = "running"
        /\ trial' = trial /\ i' = i /\ thread' = thread
    BY <1>1 DEF Fork
  <2>2. Place = 3 /\ Place' = 1
    BY <2>1 DEF Place
  <2>3. thread = "none"
    BY <1>0, <2>1
  <2>4. Running = 0 /\ Running' = 1
    BY <2>1, <2>3 DEF Running
  <2> QED
    BY <2>1, <2>2, <2>4, WithinTrial
<1>2. CASE ForkFails
  <2>1. pc = "loop" /\ UNCHANGED <<trial, pc, child, thread>> /\ i' = i + 1
    BY <1>2 DEF ForkFails
  <2>2. Place' = Place /\ Running' = Running
    BY <2>1 DEF Place, Running
  <2> QED
    BY <2>1, <2>2, RankParts, WithinTrial
<1>3. CASE Wait
  <2>1. /\ pc = "wait" /\ pc' = "loop" /\ child = "exited" /\ child' = "none"
        /\ trial' = trial /\ i' = i + 1 /\ thread' = thread
    BY <1>3 DEF Wait
  <2>2. Place = 1 /\ Place' = 3
    BY <2>1 DEF Place
  <2>3. Running' = Running
    BY <2>1 DEF Running
  <2> QED
    BY <2>1, <2>2, <2>3, RankParts, WithinTrial
<1>4. CASE Create
  <2>1. /\ pc = "loop" /\ pc' = "join" /\ thread = "none" /\ thread' = "running"
        /\ trial' = trial /\ i' = i /\ child' = child
    BY <1>4 DEF Create
  <2>2. Place = 3 /\ Place' = 1
    BY <2>1 DEF Place
  <2>3. child = "none"
    BY <1>0, <2>1
  <2>4. Running = 0 /\ Running' = 1
    BY <2>1, <2>3 DEF Running
  <2> QED
    BY <2>1, <2>2, <2>4, WithinTrial
<1>5. CASE CreateFails
  <2>1. pc = "loop" /\ pc' = "join" /\ UNCHANGED <<trial, i, child, thread>>
    BY <1>5 DEF CreateFails
  <2>2. Place = 3 /\ Place' = 1 /\ Running' = Running
    BY <2>1 DEF Place, Running
  <2> QED
    BY <2>1, <2>2, RankParts, WithinTrial
<1>6. CASE Join
  <2>1. /\ pc = "join" /\ pc' = "loop" /\ thread = "ended" /\ thread' = "none"
        /\ trial' = trial /\ i' = i + 1 /\ child' = child
    BY <1>6 DEF Join
  <2>2. Place = 1 /\ Place' = 3
    BY <2>1 DEF Place
  <2>3. Running' = Running
    BY <2>1 DEF Running
  <2> QED
    BY <2>1, <2>2, <2>3, RankParts, WithinTrial
<1>7. CASE JoinNoThread
  <2>1. /\ pc = "join" /\ UNCHANGED <<trial, child, thread>>
        /\ (pc' = "loop" /\ i' = i + 1) \/ (pc' = "crashed" /\ i' = i)
    BY <1>7 DEF JoinNoThread
  <2>2. Running' = Running
    BY <2>1 DEF Running
  <2>3. Place = 1
    BY <2>1 DEF Place
  <2>4. CASE pc' = "loop" /\ i' = i + 1
    <3>1. Place' = 3
      BY <2>4 DEF Place
    <3> QED
      BY <2>1, <2>2, <2>3, <2>4, <3>1, RankParts, WithinTrial
  <2>5. CASE pc' = "crashed" /\ i' = i
    <3>1. Place' = 0
      BY <2>5 DEF Place
    <3> QED
      BY <2>1, <2>2, <2>3, <2>5, <3>1, RankParts, WithinTrial
  <2> QED
    BY <2>1, <2>4, <2>5
<1>8. CASE EndTrial
  <2>1. /\ trial <= 2 * NTrials /\ i = Iterations /\ i' = 0 /\ trial' = trial + 1
        /\ UNCHANGED <<pc, child, thread>>
    BY <1>8 DEF EndTrial
  <2>2. Place' = Place /\ Running' = Running
    BY <2>1 DEF Place, Running
  <2>3. /\ TrialsLeft = (2 * NTrials + 1 - (trial + 1)) * (4 * Iterations + 1)
                             + (4 * Iterations + 1)
        /\ TrialsLeft' = (2 * NTrials + 1 - (trial + 1)) * (4 * Iterations + 1)
    BY <2>1, Numbers, TrialsToCome DEF TrialsLeft
  <2>4. TrialsLeft' \in Int /\ TrialsLeft = TrialsLeft' + (4 * Iterations + 1)
    <3>1. trial + 1 \in Nat /\ trial + 1 <= 2 * NTrials + 1
      BY <2>1, Numbers, Sizes
    <3>2. (2 * NTrials + 1 - (trial + 1)) * (4 * Iterations + 1) \in Nat
      BY <3>1, TrialsToCome
    <3> QED
      BY ONLY <2>3, <3>2
  <2>5. /\ Rank = TrialsLeft + 4 * (Iterations - Iterations) + Place + Running
        /\ Rank' = TrialsLeft' + 4 * (Iterations - 0) + Place + Running
    BY <2>1, <2>2 DEF Rank
  <2>6. \A a, n, p, r \in Int :
            a + 4 * (n - 0) + p + r < (a + (4 * n + 1)) + 4 * (n - n) + p + r
    OBVIOUS
  <2>7. Iterations \in Int /\ Place \in Int /\ Running \in Int
    BY RankParts
  <2>8. Rank' < Rank
    BY ONLY <2>4, <2>5, <2>6, <2>7
  <2> QED
    BY <2>8 DEF Forward
<1>9. CASE Report
  <2>1. pc = "loop" /\ pc' = "done" /\ UNCHANGED <<trial, i, child, thread>>
    BY <1>9 DEF Report
  <2>2. Place = 3 /\ Place' = 0 /\ Running' = Running
    BY <2>1 DEF Place, Running
  <2> QED
    BY <2>1, <2>2, RankParts, WithinTrial
<1>10. CASE ChildRuns
  <2>1. child = "running" /\ child' = "exited" /\ UNCHANGED <<trial, i, pc, thread>>
    BY <1>10 DEF ChildRuns
  <2>2. thread = "none"
    BY <1>0, <2>1
  <2>3. Running = 1 /\ Running' = 0 /\ Place' = Place
    BY <2>1, <2>2 DEF Running, Place
  <2> QED
    BY <2>1, <2>3, RankParts, WithinTrial
<1>11. CASE ThreadRuns
  <2>1. thread = "running" /\ thread' = "ended" /\ UNCHANGED <<trial, i, pc, child>>
    BY <1>11 DEF ThreadRuns
  <2>2. child = "none"
    BY <1>0, <2>1
  <2>3. Running = 1 /\ Running' = 0 /\ Place' = Place
    BY <2>1, <2>2 DEF Running, Place
  <2> QED
    BY <2>1, <2>3, RankParts, WithinTrial
<1> QED
  BY <1>1, <1>2, <1>3, <1>4, <1>5, <1>6, <1>7, <1>8, <1>9, <1>10, <1>11
  DEF Next, MainStep, Terminated

\* Every step of main(), a child or a thread brings the program nearer to its end,
\* whichever calls fail: a call that failed is not tried again, and takes its
\* iteration with it.
THEOREM NoStepBack == Spec => [](Rank \in Nat) /\ [][Forward]_vars
<1>1. ProcInv /\ [Next]_vars => ProcInv' /\ [Forward]_vars
  BY NextInv, StepIsForward
<1>2. ProcInv => Rank \in Nat
  BY RankParts
<1> QED
  BY InitInv, <1>1, <1>2, PTL DEF Spec

\* Until main() has ended or a join of no thread has crashed it, somebody can go
\* on, whichever calls fail: wait() has a child and a join a thread that ends.
THEOREM SomebodyGoesOn == Spec => []NoDeadlock
<1>1. ProcInv => NoDeadlock
  BY DEF ProcInv, Scalars, Alive, NoDeadlock, CanStep
<1> QED
  BY <1>1, Invariance, PTL
=============================================================================
