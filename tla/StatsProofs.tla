----------------------------- MODULE StatsProofs -----------------------------
(***************************************************************************)
(* Proofs about Stats, for every width of the words and the int, every     *)
(* length of the arrays, stride, region and set of durations: that the     *)
(* average and the variance are those of what was measured, for the kinds  *)
(* of code that know how much that is, as long as the sums fit.            *)
(***************************************************************************)
EXTENDS Stats, FiniteSetTheorems, WellFoundedInduction, TLAPS

-----------------------------------------------------------------------------
(* Sums over finite sets. *)

\* A non-empty set of natural numbers has a least one.
LEMMA NatMinimum ==
    ASSUME NEW T \in SUBSET Nat, T # {}
    PROVE  \E x \in T : \A y \in T : x <= y
<1>1. IsWellFoundedOn(OpToRel(<, Nat), Nat)
  BY NatLessThanWellFounded
<1>2. PICK x \in T : \A y \in T : ~(<<y, x>> \in OpToRel(<, Nat))
  BY <1>1, WFMin, Zenon
<1>3. \A y \in T : ~(y < x)
  BY <1>2 DEF OpToRel
<1> QED
  BY <1>3

\* Where some subset of a finite set has a property, there is one none of whose
\* own subsets has it.
LEMMA LeastSubset ==
    ASSUME NEW S, IsFiniteSet(S), NEW B \in SUBSET SUBSET S, B # {}
    PROVE  \E s \in B : \A t \in B : t \subseteq s => t = s
<1>1. \A s \in SUBSET S : IsFiniteSet(s) /\ Cardinality(s) \in Nat
  BY FS_Subset, FS_CardinalityType
<1> DEFINE Counts == {Cardinality(s) : s \in B}
<1>2. Counts \in SUBSET Nat /\ Counts # {}
  BY <1>1
<1>3. PICK n \in Counts : \A m \in Counts : n <= m
  BY <1>2, NatMinimum
<1>4. PICK s \in B : n = Cardinality(s)
  BY <1>3
<1>5. ASSUME NEW t \in B, t \subseteq s PROVE t = s
  <2>1. Cardinality(t) <= Cardinality(s) /\ (Cardinality(s) = Cardinality(t) => s = t)
    BY <1>1, <1>5, FS_Subset
  <2>2. Cardinality(s) <= Cardinality(t) /\ Cardinality(s) \in Nat /\ Cardinality(t) \in Nat
    BY <1>1, <1>3, <1>4
  <2> QED
    BY <2>1, <2>2
<1> QED
  BY <1>5

Pick(s) == CHOOSE x \in s : TRUE

LEMMA Picked == ASSUME NEW s, s # {} PROVE Pick(s) \in s
BY DEF Pick

\* g[s] is the sum of f over s, for the subsets s of S: what MapThenSumSet defines.
SumsUp(g, f, S) ==
    g = [s \in SUBSET S |-> IF s = {} THEN 0 ELSE f[Pick(s)] + g[s \ {Pick(s)}]]

\* There is such a g: subsets of n elements are reached from those of n - 1.
LEMMA SumExists ==
    ASSUME NEW S, IsFiniteSet(S), NEW f
    PROVE  \E g : SumsUp(g, f, S)
<1>1. \A s \in SUBSET S : IsFiniteSet(s) /\ Cardinality(s) \in Nat
  BY FS_Subset, FS_CardinalityType
<1> DEFINE Small(n) == {s \in SUBSET S : Cardinality(s) <= n}
           Upto(g, n) == g = [s \in Small(n) |->
                                IF s = {} THEN 0 ELSE f[Pick(s)] + g[s \ {Pick(s)}]]
           Missing == {n \in Nat : ~ \E g : Upto(g, n)}
<1>2. Missing = {}
  <2> SUFFICES ASSUME Missing # {} PROVE FALSE
    OBVIOUS
  <2>1. PICK n \in Missing : \A m \in Missing : n <= m
    BY NatMinimum
  <2>2. CASE n = 0
    <3>1. Small(0) = {{}}
      BY <1>1, FS_EmptySet
    <3>2. Upto([s \in {{}} |-> 0], 0)
      BY <3>1
    <3> QED
      BY <2>2, <3>2
  <2>3. CASE n # 0
    <3>1. n - 1 \in Nat /\ n - 1 \notin Missing
      <4>1. n \in Nat /\ \A m \in Missing : n <= m
        BY <2>1
      <4> HIDE DEF Missing
      <4> QED
        BY <4>1, <2>3
    <3>2. PICK g : Upto(g, n - 1)
      BY <3>1
    <3> DEFINE h == [s \in Small(n) |-> IF s = {} THEN 0 ELSE f[Pick(s)] + g[s \ {Pick(s)}]]
    <3>3. ASSUME NEW s \in Small(n), s # {}
          PROVE  s \ {Pick(s)} \in Small(n - 1)
      <4>1. Cardinality(s \ {Pick(s)}) = Cardinality(s) - 1
        BY <1>1, <3>3, Picked, FS_RemoveElement
      <4> QED
        BY <1>1, <4>1
    <3>4. ASSUME NEW s \in Small(n - 1) PROVE s \in Small(n) /\ h[s] = g[s]
      <4>1. s \in Small(n)
        BY <1>1
      <4>2. h[s] = IF s = {} THEN 0 ELSE f[Pick(s)] + g[s \ {Pick(s)}]
        BY <4>1
      <4>3. g[s] = IF s = {} THEN 0 ELSE f[Pick(s)] + g[s \ {Pick(s)}]
        BY <3>2
      <4> QED
        BY <4>1, <4>2, <4>3
    <3>5. ASSUME NEW s \in Small(n), s # {}
          PROVE  h[s \ {Pick(s)}] = g[s \ {Pick(s)}]
      BY <3>3, <3>4, <3>5
    <3>6. Upto(h, n)
      <4> HIDE DEF Small
      <4> QED
        BY <3>5
    <3> QED
      BY <3>6
  <2> QED
    BY <2>2, <2>3
<1>3. Small(Cardinality(S)) = SUBSET S /\ Cardinality(S) \in Nat
  BY FS_Subset, FS_CardinalityType
<1>4. \E g : Upto(g, Cardinality(S))
  BY <1>2, <1>3
<1> QED
  BY <1>3, <1>4 DEF SumsUp

\* One step of the sum.
LEMMA SumStep ==
    ASSUME NEW S, NEW f, NEW g, SumsUp(g, f, S)
    PROVE  /\ g[{}] = 0
           /\ \A s \in SUBSET S : s # {} => g[s] = f[Pick(s)] + g[s \ {Pick(s)}]
BY DEF SumsUp

LEMMA SumType ==
    ASSUME NEW S, IsFiniteSet(S), NEW f, \A x \in S : f[x] \in Int, NEW g, SumsUp(g, f, S)
    PROVE  \A s \in SUBSET S : g[s] \in Int
<1> DEFINE Wrong == {s \in SUBSET S : g[s] \notin Int}
<1> SUFFICES ASSUME Wrong # {} PROVE FALSE
  OBVIOUS
<1>0. Wrong \in SUBSET SUBSET S
  OBVIOUS
<1>s. /\ g[{}] = 0
      /\ \A s \in SUBSET S : s # {} => g[s] = f[Pick(s)] + g[s \ {Pick(s)}]
  <2> HIDE DEF Wrong
  <2>1. SumsUp(g, f, S)
    OBVIOUS
  <2> QED
    BY ONLY <2>1, SumStep
<1>1. PICK s \in Wrong : \A t \in Wrong : t \subseteq s => t = s
  <2> HIDE DEF Wrong
  <2> QED
    BY <1>0, LeastSubset
<1>z. 0 \in Int
  OBVIOUS
<1>2. s # {}
  BY <1>s, <1>z, Zenon
<1>3. Pick(s) \in s
  BY <1>2, Picked
<1>4. s \ {Pick(s)} \in SUBSET S /\ s \ {Pick(s)} \notin Wrong
  BY <1>1, <1>3
<1>5. g[s] = f[Pick(s)] + g[s \ {Pick(s)}]
  BY <1>2, <1>s
<1> QED
  BY <1>3, <1>4, <1>5

\* Any element can be taken out first.
LEMMA SumTakeOut ==
    ASSUME NEW S, IsFiniteSet(S), NEW f, \A x \in S : f[x] \in Int, NEW g, SumsUp(g, f, S)
    PROVE  \A s \in SUBSET S : \A x \in s : g[s] = f[x] + g[s \ {x}]
<1> DEFINE Wrong == {s \in SUBSET S : \E x \in s : g[s] # f[x] + g[s \ {x}]}
<1> SUFFICES ASSUME Wrong # {} PROVE FALSE
  OBVIOUS
<1>0. Wrong \in SUBSET SUBSET S
  OBVIOUS
<1>1. PICK s \in Wrong : \A t \in Wrong : t \subseteq s => t = s
  <2> HIDE DEF Wrong
  <2> QED
    BY <1>0, LeastSubset
<1>2. PICK x \in s : g[s] # f[x] + g[s \ {x}]
  OBVIOUS
<1> DEFINE y == Pick(s)
<1>3. y \in s
  BY <1>2, Picked
<1>4. g[s] = f[y] + g[s \ {y}]
  BY <1>3, SumStep
<1>5. x # y
  BY <1>2, <1>4
<1> HIDE DEF y
<1>6. s \ {x} \notin Wrong /\ s \ {y} \notin Wrong
  BY <1>1, <1>2, <1>3
<1>7. g[s \ {x}] = f[y] + g[(s \ {x}) \ {y}]
  BY <1>3, <1>5, <1>6
<1>8. g[s \ {y}] = f[x] + g[(s \ {y}) \ {x}]
  BY <1>2, <1>5, <1>6
<1>9. (s \ {x}) \ {y} = (s \ {y}) \ {x}
  OBVIOUS
<1>10. f[x] \in Int /\ f[y] \in Int /\ g[(s \ {x}) \ {y}] \in Int
  BY <1>2, <1>3, SumType
<1> DEFINE a == f[x]  b == f[y]  rest == g[(s \ {x}) \ {y}]
<1>11. a \in Int /\ b \in Int /\ rest \in Int /\ g[s] # a + g[s \ {x}] /\ g[s] = b + g[s \ {y}]
       /\ g[s \ {x}] = b + rest /\ g[s \ {y}] = a + rest
  BY <1>2, <1>4, <1>7, <1>8, <1>9, <1>10
<1> HIDE DEF a, b, rest
<1> QED
  BY <1>11

\* The sum over a set does not depend on the set it is part of.
LEMMA SumPart ==
    ASSUME NEW T, IsFiniteSet(T), NEW S \in SUBSET T,
           NEW f, NEW g, SumsUp(g, f, S), NEW h, SumsUp(h, f, T)
    PROVE  g[S] = h[S]
<1> DEFINE Wrong == {s \in SUBSET S : g[s] # h[s]}
<1>f. IsFiniteSet(S)
  BY FS_Subset
<1> SUFFICES ASSUME Wrong # {} PROVE FALSE
  OBVIOUS
<1>0. Wrong \in SUBSET SUBSET S
  OBVIOUS
<1>1. PICK s \in Wrong : \A t \in Wrong : t \subseteq s => t = s
  <2> HIDE DEF Wrong
  <2> QED
    BY <1>0, <1>f, LeastSubset
<1>2. s # {}
  BY SumStep
<1>3. Pick(s) \in s
  BY <1>2, Picked
<1>4. s \ {Pick(s)} \in SUBSET S /\ s \ {Pick(s)} \notin Wrong
  BY <1>1, <1>3
<1>5. g[s] = f[Pick(s)] + g[s \ {Pick(s)}] /\ h[s] = f[Pick(s)] + h[s \ {Pick(s)}]
  BY <1>2, SumStep
<1> QED
  BY <1>3, <1>4, <1>5

\* The sum of f over S, and the rules for it.
SumOver(f, S) == (CHOOSE g : SumsUp(g, f, S))[S]

LEMMA SumOverIs ==
    ASSUME NEW f, NEW S, IsFiniteSet(S)
    PROVE  \E g : SumsUp(g, f, S) /\ SumOver(f, S) = g[S]
<1>1. PICK g : SumsUp(g, f, S)
  BY SumExists
<1>2. SumsUp(CHOOSE h : SumsUp(h, f, S), f, S)
  BY <1>1
<1> QED
  BY <1>2 DEF SumOver

LEMMA SumOfNone == ASSUME NEW f PROVE SumOver(f, {}) = 0
<1>1. IsFiniteSet({})
  BY FS_EmptySet
<1>2. PICK g : SumsUp(g, f, {}) /\ SumOver(f, {}) = g[{}]
  BY <1>1, SumOverIs
<1> QED
  BY <1>2, SumStep

LEMMA SumAdd ==
    ASSUME NEW S, IsFiniteSet(S), NEW f, \A y \in S : f[y] \in Int, NEW x \in S
    PROVE  /\ SumOver(f, S) = SumOver(f, S \ {x}) + f[x]
           /\ SumOver(f, S \ {x}) \in Int /\ SumOver(f, S) \in Int
<1> DEFINE T == S \ {x}
<1>1. IsFiniteSet(T) /\ T \subseteq S /\ T \in SUBSET S
  BY FS_Subset
<1>2. PICK g : SumsUp(g, f, S) /\ SumOver(f, S) = g[S]
  BY SumOverIs
<1>3. PICK h : SumsUp(h, f, T) /\ SumOver(f, T) = h[T]
  BY <1>1, SumOverIs
<1>4. g[S] = f[x] + g[T]
  BY <1>2, SumTakeOut
<1>5. h[T] = g[T]
  BY <1>1, <1>2, <1>3, SumPart
<1>6. g[T] \in Int /\ g[S] \in Int /\ f[x] \in Int
  BY <1>1, <1>2, SumType
<1> QED
  BY <1>2, <1>3, <1>4, <1>5, <1>6

LEMMA SumNat ==
    ASSUME NEW S, IsFiniteSet(S), NEW f, \A y \in S : f[y] \in Nat
    PROVE  SumOver(f, S) \in Nat
<1>1. PICK g : SumsUp(g, f, S) /\ SumOver(f, S) = g[S]
  BY SumOverIs
<1> DEFINE Wrong == {s \in SUBSET S : g[s] \notin Nat}
<1> SUFFICES ASSUME Wrong # {} PROVE FALSE
  BY <1>1
<1>0. Wrong \in SUBSET SUBSET S
  OBVIOUS
<1>s. /\ g[{}] = 0
      /\ \A s \in SUBSET S : s # {} => g[s] = f[Pick(s)] + g[s \ {Pick(s)}]
  <2> HIDE DEF Wrong
  <2>1. SumsUp(g, f, S)
    BY <1>1
  <2> QED
    BY ONLY <2>1, SumStep
<1>2. PICK s \in Wrong : \A t \in Wrong : t \subseteq s => t = s
  <2> HIDE DEF Wrong
  <2> QED
    BY <1>0, LeastSubset
<1>z. 0 \in Nat
  OBVIOUS
<1>3. s # {}
  BY <1>s, <1>z, Zenon
<1>4. Pick(s) \in s
  BY <1>3, Picked
<1>5. s \ {Pick(s)} \in SUBSET S /\ s \ {Pick(s)} \notin Wrong
  BY <1>2, <1>4
<1>6. g[s] = f[Pick(s)] + g[s \ {Pick(s)}]
  BY <1>3, <1>s
<1> QED
  BY <1>4, <1>5, <1>6

\* The cells up to n.
LEMMA Before ==
    ASSUME NEW n \in Nat
    PROVE  IsFiniteSet(0..n - 1) /\ Cardinality(0..n - 1) = n /\ (n = 0 => 0..n - 1 = {})
<1>1. 0 \in Int /\ n - 1 \in Int
  OBVIOUS
<1>2. IsFiniteSet(0..n - 1) /\ Cardinality(0..n - 1) = IF 0 > n - 1 THEN 0 ELSE (n - 1) - 0 + 1
  BY <1>1, FS_Interval
<1> QED
  BY <1>2

LEMMA SumNext ==
    ASSUME NEW n \in Nat, NEW f, \A y \in 0..n : f[y] \in Int
    PROVE  /\ SumOver(f, 0..n) = SumOver(f, 0..n - 1) + f[n]
           /\ SumOver(f, 0..n - 1) \in Int
<1>1. 0..n \ {n} = 0..n - 1 /\ n \in 0..n
  OBVIOUS
<1>2. IsFiniteSet(0..n)
  BY FS_Interval
<1>3. /\ SumOver(f, 0..n) = SumOver(f, 0..n \ {n}) + f[n]
      /\ SumOver(f, 0..n \ {n}) \in Int
  <2> DEFINE S == 0..n
  <2>1. IsFiniteSet(S) /\ n \in S /\ \A y \in S : f[y] \in Int
    BY <1>1, <1>2
  <2> HIDE DEF S
  <2>2. SumOver(f, S) = SumOver(f, S \ {n}) + f[n] /\ SumOver(f, S \ {n}) \in Int
    BY ONLY <2>1, SumAdd
  <2> QED
    BY <2>2 DEF S
<1> QED
  BY <1>1, <1>3

\* Sums of natural numbers grow.
LEMMA SumGrows ==
    ASSUME NEW n \in Nat, NEW f, \A y \in 0..n - 1 : f[y] \in Nat, NEW m \in 0..n
    PROVE  SumOver(f, 0..m - 1) <= SumOver(f, 0..n - 1)
<1>1. ASSUME NEW k \in 0..n PROVE SumOver(f, 0..k - 1) \in Nat
  <2> DEFINE S == 0..k - 1
  <2>1. k \in Nat /\ S \subseteq 0..n - 1
    BY <1>1
  <2>2. IsFiniteSet(S)
    BY <2>1, Before
  <2>3. \A y \in S : f[y] \in Nat
    BY <2>1
  <2> HIDE DEF S
  <2>4. SumOver(f, S) \in Nat
    BY ONLY <2>2, <2>3, SumNat
  <2> QED
    BY <2>4 DEF S
<1> DEFINE P(k) == SumOver(f, 0..k - 1)
           Wrong == {k \in m..n : ~(P(m) <= P(k))}
<1> SUFFICES ASSUME Wrong # {} PROVE FALSE
  <2>1. n \in m..n
    OBVIOUS
  <2>2. P(m) <= P(n) <=> SumOver(f, 0..m - 1) <= SumOver(f, 0..n - 1)
    OBVIOUS
  <2> HIDE DEF P
  <2> QED
    BY <2>1, <2>2
<1>2. PICK k \in Wrong : \A l \in Wrong : k <= l
  <2>1. Wrong \in SUBSET Nat
    OBVIOUS
  <2> HIDE DEF Wrong
  <2> QED
    BY <2>1, NatMinimum
<1>3. k \in m..n /\ ~(P(m) <= P(k)) /\ P(m) \in Nat /\ P(k) \in Nat
  BY <1>1
<1>4. k # m
  BY <1>3
<1>5. k - 1 \in m..n /\ k - 1 \in Nat /\ k - 1 \notin Wrong
  <2>1. k - 1 \in m..n /\ k - 1 \in Nat /\ ~(k <= k - 1)
    BY <1>3, <1>4
  <2> HIDE DEF Wrong
  <2> QED
    BY <1>2, <2>1
<1>6. P(m) <= P(k - 1)
  BY <1>5
<1>7. P(k) = P(k - 1) + f[k - 1] /\ f[k - 1] \in Nat
  <2> DEFINE l == k - 1
  <2>1. l \in Nat /\ l + 1 = k /\ (\A y \in 0..l : f[y] \in Int) /\ f[l] \in Nat
    BY <1>3, <1>5
  <2> HIDE DEF l
  <2>2. SumOver(f, 0..l) = SumOver(f, 0..l - 1) + f[l]
    BY ONLY <2>1, SumNext
  <2> QED
    BY <2>1, <2>2 DEF l
<1>8. P(k - 1) \in Nat
  BY <1>1, <1>5
<1> HIDE DEF P
<1> QED
  BY <1>3, <1>6, <1>7, <1>8

-----------------------------------------------------------------------------
(* Division, and powers of two. *)

LEMMA Division ==
    ASSUME NEW n \in Nat, NEW b \in Nat, b >= 1
    PROVE  /\ n \div b \in Nat /\ n % b \in Nat /\ n % b < b /\ n \div b <= n
           /\ n = b * (n \div b) + (n % b)
OBVIOUS

\* A product determines its factor.
LEMMA Factor ==
    ASSUME NEW b \in Nat, b >= 1, NEW k \in Nat, NEW m \in Nat
    PROVE  /\ b * k < b * m <=> k < m
           /\ b * (k + 1) = b * k + b
           /\ k <= b * k
OBVIOUS

LEMMA Remainders ==
    ASSUME NEW b \in Nat, b >= 1, NEW k \in Nat, NEW r \in Nat, r < b
    PROVE  (b * k + r) \div b = k /\ (b * k + r) % b = r
<1> DEFINE n == b * k + r
           q == n \div b
<1>1. n \in Nat /\ q \in Nat /\ n % b \in Nat /\ n % b < b /\ n = b * q + (n % b)
  BY Division
<1>2. ~(q < k)
  <2> SUFFICES ASSUME q + 1 <= k PROVE FALSE
    BY <1>1
  <2>1. b * (q + 1) <= b * k
    BY <1>1, Factor
  <2> QED
    BY <1>1, <2>1, Factor
<1>3. ~(k < q)
  <2> SUFFICES ASSUME k + 1 <= q PROVE FALSE
    BY <1>1
  <2>1. b * (k + 1) <= b * q
    BY <1>1, Factor
  <2> QED
    BY <1>1, <2>1, Factor
<1> QED
  BY <1>1, <1>2, <1>3

LEMMA PowerType == ASSUME NEW w \in Nat PROVE 2^w \in Nat /\ 2^w >= 1
<1>1. IsFiniteSet(1..w) /\ Cardinality(1..w) = w
  BY FS_Interval
<1>2. 2^w \in Nat /\ 2^w = Cardinality(SUBSET (1..w)) /\ IsFiniteSet(SUBSET (1..w))
  BY <1>1, FS_SUBSET, FS_CardinalityType
<1>3. Cardinality(SUBSET (1..w)) # 0
  BY <1>2, FS_EmptySet
<1> QED
  BY <1>2, <1>3

LEMMA PowerGrows == ASSUME NEW v \in Nat, NEW w \in Nat, v <= w PROVE 2^v <= 2^w
<1>1. /\ IsFiniteSet(1..v) /\ Cardinality(1..v) = v
      /\ IsFiniteSet(1..w) /\ Cardinality(1..w) = w
  BY FS_Interval
<1>2. 1..v \subseteq 1..w
  OBVIOUS
<1>3. SUBSET (1..v) \in SUBSET SUBSET (1..w)
  BY <1>2
<1>4. IsFiniteSet(SUBSET (1..w))
  BY <1>1, FS_SUBSET
<1>5. Cardinality(SUBSET (1..v)) <= Cardinality(SUBSET (1..w))
  BY <1>3, <1>4, FS_Subset
<1> QED
  BY <1>1, <1>5, FS_SUBSET

\* A subset of 1..w + 1 is one of 1..w, with w + 1 or without.
LEMMA PowerTwice == ASSUME NEW w \in Nat PROVE 2^(w + 1) = 2 * 2^w
<1> DEFINE S == 1..w
           T == 1..w + 1
           A == SUBSET S
           B == {s \in SUBSET T : w + 1 \in s}
           f == [s \in A |-> s \union {w + 1}]
<1>1. /\ IsFiniteSet(S) /\ Cardinality(S) = w
      /\ IsFiniteSet(T) /\ Cardinality(T) = w + 1
  BY FS_Interval
<1>2. S = T \ {w + 1} /\ w + 1 \in T
  OBVIOUS
<1>3. IsFiniteSet(A) /\ Cardinality(A) = 2^w
  BY <1>1, FS_SUBSET
<1> HIDE DEF S, T
<1>4. f \in Bijection(A, B)
  <2>1. f \in [A -> B]
    BY <1>2
  <2>2. f \in Injection(A, B)
    <3>1. \A s \in A : f[s] \ {w + 1} = s
      BY <1>2
    <3> QED
      BY <2>1, <3>1 DEF Injection, IsInjective
  <2>3. \A s \in B : s \ {w + 1} \in A /\ f[s \ {w + 1}] = s
    BY <1>2
  <2>4. f \in Surjection(A, B)
    BY <2>1, <2>3 DEF Surjection
  <2> QED
    BY <2>2, <2>4 DEF Bijection
<1>5. IsFiniteSet(B) /\ Cardinality(B) = 2^w
  <2>1. ExistsBijection(A, B)
    BY <1>4 DEF ExistsBijection
  <2> QED
    BY <1>3, <2>1, FS_Bijection
<1>6. SUBSET T = A \union B /\ A \intersect B = {}
  BY <1>2
<1> HIDE DEF A, B
<1>7. Cardinality(SUBSET T) = 2^w + 2^w - 0
  BY <1>3, <1>5, <1>6, FS_Union, FS_EmptySet
<1>8. Cardinality(SUBSET T) = 2^(w + 1)
  BY <1>1, FS_SUBSET
<1> QED
  BY <1>7, <1>8, PowerType

-----------------------------------------------------------------------------
(* The constants. *)

N == 2^Width
D == 2^IntWidth
H == 2^(IntWidth - 1)
M == 2^Mantissa

LEMMA Sizes ==
    /\ N \in Nat /\ N >= 1 /\ D \in Nat /\ D >= 1 /\ H \in Nat /\ H >= 1
    /\ D = 2 * H /\ D <= N /\ H <= N /\ M \in Nat /\ M >= 1 /\ M <= N
    /\ Len \in Nat /\ Len >= 1 /\ Pointer \in Nat /\ Pointer >= 1 /\ Pointer <= Len
    /\ Stride \in Nat /\ Stride >= 1 /\ Skipped \in Nat
    /\ Words = 0..N - 1 /\ 0 \in Words /\ Times \subseteq Words
    /\ Ints = -H..H - 1
    /\ \A r \in Regions : r \in Nat /\ r \div Stride > 0
<1>1. Width \in Nat /\ IntWidth \in Nat /\ IntWidth - 1 \in Nat /\ IntWidth <= Width
      /\ IntWidth - 1 <= IntWidth /\ (IntWidth - 1) + 1 = IntWidth
  BY WidthsAssumption
<1>2. N \in Nat /\ N >= 1 /\ D \in Nat /\ D >= 1 /\ H \in Nat /\ H >= 1
  BY <1>1, PowerType DEF N, D, H
<1>6. M \in Nat /\ M >= 1 /\ M <= N
  BY <1>1, PowerType, PowerGrows, MantissaAssumption DEF N, M
<1>3. D <= N
  BY <1>1, PowerGrows DEF N, D
<1>4. D = 2 * H
  <2> DEFINE w == IntWidth - 1
  <2>1. w \in Nat /\ w + 1 = IntWidth
    BY <1>1
  <2> HIDE DEF w
  <2>2. 2^(w + 1) = 2 * 2^w
    BY <2>1, PowerTwice
  <2> QED
    BY <2>1, <2>2 DEF D, H, w
<1>5. Words = 0..N - 1 /\ Times \subseteq Words /\ Ints = -H..H - 1
  BY TimesAssumption DEF Words, Ints, N, H
<1> QED
  BY <1>2, <1>3, <1>4, <1>5, <1>6, LenAssumption, PointerAssumption, StrideAssumption,
     SkippedAssumption, RegionsAssumption

\* Conversions to u_int64_t and to int.
LEMMA Conversions ==
    /\ \A x \in Int : Wrap(x) \in Words /\ ToInt(x) \in Ints
    /\ \A x \in 0..N - 1 : Wrap(x) = x
    /\ \A x \in 0..H - 1 : ToInt(x) = x
    /\ \A x \in 0 - N..0 - 1 : Wrap(x) = x + N
<1>1. N \in Nat /\ N >= 1 /\ D \in Nat /\ D >= 1 /\ H \in Nat /\ D = 2 * H
  BY Sizes
<1>2. /\ \A x : Wrap(x) = x % N
      /\ \A x : ToInt(x) = IF x % D >= H THEN (x % D) - D ELSE x % D
  BY DEF Wrap, ToInt, N, D, H
<1>3. ASSUME NEW x \in Int PROVE x % N \in 0..N - 1 /\ x % D \in 0..D - 1
  BY <1>1
<1>4. \A x \in 0..N - 1 : x % N = x
  BY <1>1
<1>5. \A x \in 0..H - 1 : x % D = x
  BY <1>1
<1>6. ASSUME NEW x \in 0 - N..0 - 1 PROVE x % N = x + N
  BY <1>1
<1>7. ASSUME NEW x \in Int PROVE ToInt(x) \in -H..H - 1
  <2>1. PICK r \in 0..D - 1 : r = x % D
    BY <1>3
  <2>2. ToInt(x) = IF r >= H THEN r - D ELSE r
    BY <1>2, <2>1
  <2> QED
    BY <1>1, <2>1, <2>2
<1>8. ASSUME NEW x \in 0..H - 1 PROVE ToInt(x) = x
  <2>1. x % D = x /\ ~(x >= H)
    BY <1>1, <1>5
  <2> QED
    BY <1>2, <2>1
<1> QED
  BY <1>2, <1>3, <1>4, <1>6, <1>7, <1>8, Sizes

\* Arithmetic in double gives a word, and the exact quotient while a mantissa holds the
\* numerator.
LEMMA DoubleIs ==
    ASSUME NEW x \in Nat, NEW n \in Nat, n >= 1, NEW units, NEW y \in InDouble(x, n, units)
    PROVE  y \in Words /\ (x < M => y = x \div n)
<1>1. CASE x < 2^Mantissa
  <2>1. y = x \div n
    BY <1>1 DEF InDouble
  <2>2. x \div n \in Nat /\ x \div n <= x
    BY Division
  <2>3. x \div n \in 0..N - 1
    BY <1>1, <2>2, Sizes DEF M
  <2> QED
    BY <2>1, <2>3, Sizes
<1>2. CASE ~(x < 2^Mantissa)
  <2>1. ~(x < M)
    BY <1>2 DEF M
  <2> QED
    BY <1>2, <2>1 DEF InDouble
<1> QED
  BY <1>1, <1>2

\* So does a division of whichever program.
LEMMA DividedIs ==
    ASSUME sum \in Ints \/ sum \in Words, program = "pow" => sum \in Words,
           NEW n \in Nat, n >= 1, NEW y \in Divided(n)
    PROVE  /\ y \in Words
           /\ sum \in Words /\ (program = "pow" => sum < M) => y = sum \div n
<1>1. Ints \subseteq Int /\ Words \subseteq Nat /\ Words \subseteq Int /\ Words = 0..N - 1 /\ N \in Nat
  BY Sizes
<1>2. sum \in Int
  BY <1>1
<1>3. CASE program = "pow"
  <2>1. y \in InDouble(sum, n, 1) /\ sum \in Nat
    BY <1>1, <1>3 DEF Divided
  <2>2. y \in Words /\ (sum < M => y = sum \div n)
    BY <2>1, DoubleIs
  <2> QED
    BY <1>3, <2>2
<1>4. CASE program # "pow"
  <2>1. y = Wrap(Quotient(sum, n))
    BY <1>4 DEF Divided
  <2>2. Quotient(sum, n) \in Int
    <3>1. CASE sum >= 0
      BY <1>2, <3>1, Division DEF Quotient
    <3>2. CASE ~(sum >= 0)
      <4>1. -sum \in Nat
        BY <1>2, <3>2
      <4>2. (-sum) \div n \in Nat
        BY <4>1, Division
      <4> QED
        BY <3>2, <4>2 DEF Quotient
    <3> QED
      BY <3>1, <3>2
  <2>3. y \in Words
    BY <2>1, <2>2, Conversions
  <2>4. ASSUME sum \in Words PROVE y = sum \div n
    <3>1. sum \in Nat /\ sum <= N - 1
      BY <1>1, <2>4
    <3>2. sum \div n \in Nat /\ sum \div n <= sum
      BY <3>1, Division
    <3>3. Quotient(sum, n) = sum \div n /\ sum \div n \in 0..N - 1
      BY <1>1, <3>1, <3>2 DEF Quotient
    <3> QED
      BY <2>1, <3>3, Conversions
  <2> QED
    BY <2>3, <2>4
<1> QED
  BY <1>3, <1>4

\* What is added to a number of 64 bits modulo 2^64 may be replaced by anything as
\* far from it as a multiple of 2^64.
LEMMA WrapMultiple ==
    ASSUME NEW x \in 0..N - 1, NEW k \in Int, NEW y \in Nat, y = x + N * k
    PROVE  Wrap(y) = x
<1>1. N \in Nat /\ N >= 1
  BY Sizes
<1>2. k \in Nat
  <2> SUFFICES ASSUME k <= -1 PROVE FALSE
    OBVIOUS
  <2>1. N * k <= -N
    BY <1>1
  <2> QED
    BY <1>1, <2>1
<1>3. (N * k + x) % N = x
  BY <1>1, <1>2, Remainders
<1>4. y = N * k + x
  BY <1>1, <1>2
<1> QED
  BY <1>3, <1>4 DEF Wrap, N

\* The square of a difference is the same modulo 2^64 whether it wrapped around or not.
LEMMA SquareOfWrapped ==
    ASSUME NEW d \in Int, -N < d, d < N
    PROVE  \E k \in Int : Wrap(d) * Wrap(d) = d * d + N * k
<1>1. N \in Nat /\ N >= 1
  BY Sizes
<1>2. CASE d >= 0
  <2>1. Wrap(d) = d
    BY <1>1, <1>2, Conversions
  <2>2. Wrap(d) * Wrap(d) = d * d + N * 0
    BY <1>1, <2>1
  <2> QED
    BY <2>2
<1>3. CASE d < 0
  <2>1. Wrap(d) = d + N
    BY <1>1, <1>3, Conversions
  <2>2. (d + N) * (d + N) = d * d + N * (2 * d + N)
    BY <1>1
  <2>3. 2 * d + N \in Int
    BY <1>1
  <2> QED
    BY <2>1, <2>2, <2>3
<1> QED
  BY <1>2, <1>3

-----------------------------------------------------------------------------
(* What was measured, as sums. *)

\* Programs with an array whose length they know.
Known == program \in {"length", "pow", "shared"}
VarianceLimit == 2^(IF Pow THEN Mantissa ELSE Width)

Deviations == [c \in measured |-> (array[c] - TrueAvg) * (array[c] - TrueAvg)]

LEMMA TrueSumIs == TrueSum = SumOver(array, measured)
BY DEF TrueSum, Total, MapThenSumSet, MapThenFoldSet, SumOver, SumsUp, Pick

LEMMA TrueSquaresIs == IsFiniteSet(measured) => TrueSquares = SumOver(Deviations, measured)
<1> SUFFICES ASSUME IsFiniteSet(measured)
             PROVE  TrueSquares = SumOver(Deviations, measured)
  OBVIOUS
<1> DEFINE S == measured
           Def(g) == g = [s \in SUBSET S |->
                            IF s = {} THEN 0
                            ELSE (array[Pick(s)] - TrueAvg) * (array[Pick(s)] - TrueAvg)
                                 + g[s \ {Pick(s)}]]
<1>1. TrueSquares = (CHOOSE g : Def(g))[S]
  BY DEF TrueSquares, Total, MapThenSumSet, MapThenFoldSet, Pick
<1>2. ASSUME NEW s \in SUBSET S, s # {}
      PROVE  Deviations[Pick(s)] = (array[Pick(s)] - TrueAvg) * (array[Pick(s)] - TrueAvg)
  BY <1>2, Picked DEF Deviations
<1>3. ASSUME NEW g PROVE SumsUp(g, Deviations, S) <=> Def(g)
  BY <1>2 DEF SumsUp
<1>4. PICK g : SumsUp(g, Deviations, S) /\ SumOver(Deviations, S) = g[S]
  BY SumOverIs
<1>5. Def(g)
  BY <1>3, <1>4
<1> HIDE DEF Def
<1>6. Def(CHOOSE h : Def(h))
  BY <1>5
<1>7. SumsUp(CHOOSE h : Def(h), Deviations, S)
  BY <1>3, <1>6
<1> QED
  BY <1>1, <1>4, <1>7, SumPart

\* The claims are about what a measurement left behind: the statistics change none of it.
LEMMA Frame ==
    ASSUME program' = program, len' = len, array' = array, measured' = measured
    PROVE  /\ Cells' = Cells /\ Counted' = Counted /\ Step' = Step /\ Pow' = Pow
           /\ KnowsLength' = KnowsLength /\ TrueSum' = TrueSum /\ TrueAvg' = TrueAvg
           /\ TrueSquares' = TrueSquares /\ Deviations' = Deviations /\ Fits' = Fits
           /\ Known' = Known /\ VarianceLimit' = VarianceLimit
<1>1. /\ Cells' = Cells /\ Counted' = Counted /\ Step' = Step /\ Pow' = Pow
      /\ KnowsLength' = KnowsLength /\ Known' = Known /\ VarianceLimit' = VarianceLimit
  BY DEF Cells, Counted, Step, Pow, KnowsLength, Known, VarianceLimit
<1>2. TrueSum' = TrueSum
  <2>1. (TrueSum = SumOver(array, measured))'
    BY TrueSumIs, PTL
  <2> QED
    BY <1>1, <2>1, TrueSumIs
<1>3. TrueAvg' = TrueAvg
  BY <1>1, <1>2 DEF TrueAvg
<1>4. TrueSquares' = TrueSquares
  BY <1>1, <1>3 DEF TrueSquares, Total, MapThenSumSet, MapThenFoldSet
<1>5. Deviations' = Deviations
  BY <1>1, <1>3 DEF Deviations
<1>6. Fits' = Fits
  BY <1>2 DEF Fits
<1> QED
  BY <1>1, <1>2, <1>3, <1>4, <1>5, <1>6

-----------------------------------------------------------------------------
(* The invariant. *)

\* Which lengths a program has, and where it can be.
Lengths ==
    /\ program = "loop" =>
          len \in Regions /\ pc \in {"measure", "done"} /\ len \div Stride > skip
    /\ program # "loop" => len = Len /\ skip = 0
    /\ pc = "var" => program # "shared"
    /\ pc \in {"avg", "var"} => i \in 0..Counted

\* After k steps of the measurement, the first of them before the clock runs.
Timed ==
    pc = "measure" =>
        /\ measured \subseteq 0..i - 1
        /\ program \notin {"loop", "stride"} => measured = 0..i - 1
        /\ \E k \in Nat :
              /\ i = Step * k
              /\ k > 0 => Step * (k - 1) < len
              /\ Cardinality(measured) = IF k > skip THEN k - skip ELSE 0

\* A program that knows the length averages what it has measured.
FirstCells ==
    pc \in {"avg", "var", "done"} /\ Known => measured = 0..Counted - 1

\* The sums so far.  Those of the squares stand for what is to be shown of them at
\* the end.
TimesSoFar == pc = "avg" /\ Known /\ Fits => sum = SumOver(array, 0..i - 1)

VarianceFits ==
    /\ Known /\ Fits /\ TrueSquares < VarianceLimit
    /\ Pow => \A c \in measured : array[c] >= avg

SquaresSoFar == pc = "var" /\ VarianceFits => sum = SumOver(Deviations, 0..i - 1)

StatsInv ==
    /\ TypeOK /\ Lengths /\ Timed /\ FirstCells /\ TimesSoFar /\ SquaresSoFar
    /\ AverageIfItFits /\ VarianceIfItFits

LEMMA Numbers ==
    ASSUME StatsInv
    PROVE  /\ len \in Nat /\ len >= 1 /\ i \in Nat /\ skip \in Nat
           /\ Step \in Nat /\ Step >= 1 /\ Step <= Stride
           /\ Counted \in Nat /\ Counted >= 1 /\ (program # "loop" => Counted <= len)
           /\ IsFiniteSet(measured) /\ Cardinality(measured) \in Nat /\ measured \subseteq Nat
           /\ \A c \in Cells : c \in Nat /\ array[c] \in Words /\ array[c] \in Nat
<1>1. len \in Nat /\ len >= 1
  <2>1. CASE program # "loop"
    BY <2>1, Sizes DEF StatsInv, Lengths
  <2>2. CASE program = "loop"
    <3>1. len \in Nat /\ len \div Stride > 0
      BY <2>2, Sizes DEF StatsInv, Lengths
    <3>2. len \div Stride <= len
      BY <3>1, Sizes, Division
    <3>3. len \div Stride \in Nat
      BY <3>1, Sizes, Division
    <3> QED
      BY <3>1, <3>2, <3>3
  <2> QED
    BY <2>1, <2>2
<1>2. i \in Nat /\ skip \in Nat
  BY <1>1, Sizes DEF StatsInv, TypeOK
<1>3. Step \in Nat /\ Step >= 1 /\ Step <= Stride
  BY Sizes DEF Step
<1>4. Counted \in Nat /\ Counted >= 1 /\ (program # "loop" => Counted <= len)
  BY <1>1, Sizes DEF Counted, StatsInv, Lengths
<1>5. IsFiniteSet(measured) /\ Cardinality(measured) \in Nat /\ measured \subseteq Nat
  <2>1. IsFiniteSet(Cells) /\ measured \subseteq Cells /\ Cells \subseteq Nat
    BY <1>1, Before DEF Cells, StatsInv, TypeOK
  <2>2. IsFiniteSet(measured)
    BY <2>1, FS_Subset
  <2> QED
    BY <2>1, <2>2, FS_CardinalityType
<1>6. \A c \in Cells : c \in Nat /\ array[c] \in Words /\ array[c] \in Nat
  BY <1>1, Sizes DEF Cells, StatsInv, TypeOK
<1> QED
  BY <1>1, <1>2, <1>3, <1>4, <1>5, <1>6

\* The sums over the first n of the cells that are averaged.
LEMMA TimesUpTo ==
    ASSUME StatsInv, pc \in {"avg", "var", "done"}, Known
    PROVE  /\ measured = 0..Counted - 1 /\ IsFiniteSet(measured)
           /\ Cardinality(measured) = Counted
           /\ TrueSum \in Nat /\ TrueSum = SumOver(array, 0..Counted - 1)
           /\ \A c \in measured : c \in Cells
           /\ \A n \in 0..Counted : /\ SumOver(array, 0..n - 1) \in Nat
                                    /\ SumOver(array, 0..n - 1) <= TrueSum
           /\ \A n \in 0..Counted - 1 :
                 SumOver(array, 0..n) = SumOver(array, 0..n - 1) + array[n]
<1>1. measured = 0..Counted - 1 /\ Counted \in Nat /\ Counted <= len /\ len \in Nat
  BY Numbers DEF StatsInv, FirstCells, Known
<1>2. IsFiniteSet(measured) /\ Cardinality(measured) = Counted
  BY <1>1, Before
<1>3. \A c \in 0..Counted - 1 : c \in Cells /\ array[c] \in Nat
  BY <1>1, Numbers DEF Cells
<1>4. TrueSum = SumOver(array, 0..Counted - 1)
  BY <1>1, TrueSumIs
<1>5. ASSUME NEW n \in 0..Counted
      PROVE  SumOver(array, 0..n - 1) \in Nat /\ SumOver(array, 0..n - 1) <= TrueSum
  <2> DEFINE S == 0..n - 1
  <2>1. n \in Nat /\ \A y \in S : array[y] \in Nat
    BY <1>1, <1>3
  <2>2. IsFiniteSet(S)
    BY <2>1, Before
  <2>3. SumOver(array, S) \in Nat
    <3> HIDE DEF S
    <3> QED
      BY <2>1, <2>2, SumNat
  <2>4. SumOver(array, 0..n - 1) <= SumOver(array, 0..Counted - 1)
    BY <1>1, <1>3, SumGrows
  <2> QED
    BY <1>4, <2>3, <2>4
<1>6. ASSUME NEW n \in 0..Counted - 1
      PROVE  SumOver(array, 0..n) = SumOver(array, 0..n - 1) + array[n]
  <2>1. n \in Nat /\ \A y \in 0..n : array[y] \in Int
    BY <1>1, <1>3
  <2> QED
    BY <2>1, SumNext
<1>7. TrueSum \in Nat
  <2>1. Counted \in 0..Counted
    BY <1>1
  <2> QED
    BY <1>4, <1>5, <2>1
<1> QED
  BY <1>1, <1>2, <1>3, <1>4, <1>5, <1>6, <1>7

LEMMA SquaresUpTo ==
    ASSUME StatsInv, pc \in {"avg", "var", "done"}, Known
    PROVE  /\ TrueAvg \in Nat /\ TrueAvg <= TrueSum
           /\ TrueSquares \in Nat /\ TrueSquares = SumOver(Deviations, 0..Counted - 1)
           /\ \A n \in 0..Counted : /\ SumOver(Deviations, 0..n - 1) \in Nat
                                    /\ SumOver(Deviations, 0..n - 1) <= TrueSquares
           /\ \A n \in 0..Counted - 1 :
                 SumOver(Deviations, 0..n) =
                     SumOver(Deviations, 0..n - 1) + (array[n] - TrueAvg) * (array[n] - TrueAvg)
<1>1. measured = 0..Counted - 1 /\ Counted \in Nat /\ Counted >= 1 /\ IsFiniteSet(measured)
      /\ TrueSum \in Nat /\ Cardinality(measured) = Counted
  BY Numbers, TimesUpTo
<1>2. TrueAvg \in Nat /\ TrueAvg <= TrueSum
  BY <1>1, Division DEF TrueAvg
<1>3. TrueSquares = SumOver(Deviations, 0..Counted - 1)
  BY <1>1, TrueSquaresIs
<1>4. ASSUME NEW c \in 0..Counted - 1
      PROVE  /\ Deviations[c] = (array[c] - TrueAvg) * (array[c] - TrueAvg)
             /\ Deviations[c] \in Nat
  <2>1. Deviations[c] = (array[c] - TrueAvg) * (array[c] - TrueAvg)
    BY <1>1 DEF Deviations
  <2>2. array[c] \in Nat
    BY <1>1, TimesUpTo, Numbers
  <2>3. PICK d \in Int : d = array[c] - TrueAvg
    BY <1>2, <2>2
  <2>4. d * d \in Nat
    OBVIOUS
  <2> QED
    BY <2>1, <2>3, <2>4
<1>5. ASSUME NEW n \in 0..Counted
      PROVE  /\ SumOver(Deviations, 0..n - 1) \in Nat
             /\ SumOver(Deviations, 0..n - 1) <= TrueSquares
  <2> DEFINE S == 0..n - 1
  <2>1. n \in Nat /\ \A y \in S : Deviations[y] \in Nat
    BY <1>1, <1>4
  <2>2. IsFiniteSet(S)
    BY <2>1, Before
  <2>3. SumOver(Deviations, S) \in Nat
    <3> HIDE DEF S
    <3> QED
      BY <2>1, <2>2, SumNat
  <2>4. SumOver(Deviations, 0..n - 1) <= SumOver(Deviations, 0..Counted - 1)
    BY <1>1, <1>4, SumGrows
  <2> QED
    BY <1>3, <2>3, <2>4
<1>6. ASSUME NEW n \in 0..Counted - 1
      PROVE  SumOver(Deviations, 0..n) =
                 SumOver(Deviations, 0..n - 1) + (array[n] - TrueAvg) * (array[n] - TrueAvg)
  <2>1. n \in Nat /\ \A y \in 0..n : Deviations[y] \in Int
    BY <1>1, <1>4
  <2>2. SumOver(Deviations, 0..n) = SumOver(Deviations, 0..n - 1) + Deviations[n]
    BY <2>1, SumNext
  <2> QED
    BY <1>4, <2>2
<1>7. TrueSquares \in Nat
  <2>1. Counted \in 0..Counted
    BY <1>1
  <2> QED
    BY <1>3, <1>5, <2>1
<1> QED
  BY <1>2, <1>3, <1>5, <1>6, <1>7

-----------------------------------------------------------------------------
(* The steps preserve it. *)

LEMMA InitInv == Init => StatsInv
<1> SUFFICES ASSUME Init PROVE StatsInv
  OBVIOUS
<1>1. /\ program \in Programs /\ pc = "measure" /\ i = 0 /\ measured = {}
      /\ sum = 0 /\ avg = 0 /\ var = 0
      /\ array \in [Cells -> Times \union {0}]
  BY DEF Init
<1>2. Lengths
  <2>1. /\ program = "loop" => len \in Regions /\ len \div Stride > skip
        /\ program # "loop" => len = Len /\ skip = 0
    BY DEF Init
  <2> QED
    BY <1>1, <2>1 DEF Lengths
<1>3. len \in {Len} \union Regions /\ skip \in {0, Skipped} /\ len \in Nat
  BY <1>2, Sizes DEF Init, Lengths
<1>4. TypeOK
  <2>1. array \in [Cells -> Words]
    BY <1>1, Sizes
  <2>2. 0 \in Ints /\ 0 \in Words /\ 0 \in 0..len + Stride
    BY <1>3, Sizes
  <2> QED
    BY <1>1, <1>3, <2>1, <2>2 DEF TypeOK
<1>5. Timed
  <2>1. 0 = Step * 0 /\ Cardinality({}) = 0 /\ 0..0 - 1 = {}
    <3>1. Step \in Nat
      BY Sizes DEF Step
    <3> QED
      BY <3>1, FS_EmptySet
  <2>2. ~(0 > skip) /\ 0 \in Nat /\ ~(0 > 0)
    BY <1>3, Sizes
  <2> QED
    BY <1>1, <2>1, <2>2 DEF Timed
<1> QED
  BY <1>1, <1>2, <1>4, <1>5
     DEF StatsInv, FirstCells, TimesSoFar, SquaresSoFar, AverageIfItFits, VarianceIfItFits

LEMMA MeasureInv == StatsInv /\ Measure => StatsInv'
<1> SUFFICES ASSUME StatsInv, Measure PROVE StatsInv'
  OBVIOUS
<1>1. /\ pc = "measure" /\ pc' = pc /\ i < len /\ i' = i + Step
      /\ measured' = (IF i >= skip * Step THEN measured \union {i} ELSE measured)
      /\ program' = program /\ len' = len /\ skip' = skip /\ sum' = sum /\ avg' = avg
      /\ var' = var
  BY DEF Measure
<1>2. /\ len \in Nat /\ i \in Nat /\ skip \in Nat /\ Step \in Nat /\ Step >= 1 /\ Step <= Stride
      /\ IsFiniteSet(measured) /\ Cardinality(measured) \in Nat
  BY Numbers
<1>3. Cells' = Cells /\ Step' = Step /\ i \in Cells
  BY <1>1, <1>2 DEF Cells, Step
<1>4. array' \in [Cells -> Words]
  <2>1. PICK t \in Times : array' = [array EXCEPT ![i] = t]
    BY DEF Measure
  <2>2. t \in Words /\ array \in [Cells -> Words]
    BY Sizes DEF StatsInv, TypeOK
  <2> QED
    BY <2>1, <2>2
<1>5. TypeOK'
  <2>1. i' \in 0..len + Stride
    BY <1>1, <1>2, Sizes
  <2>2. measured' \subseteq Cells
    BY <1>1, <1>3 DEF StatsInv, TypeOK
  <2> QED
    BY <1>1, <1>3, <1>4, <2>1, <2>2 DEF StatsInv, TypeOK
<1>6. Lengths'
  BY <1>1 DEF StatsInv, Lengths
<1>7. Timed'
  <2>1. PICK k \in Nat :
           /\ i = Step * k
           /\ Cardinality(measured) = IF k > skip THEN k - skip ELSE 0
    BY <1>1 DEF StatsInv, Timed
  <2>2. Step * (k + 1) = Step * k + Step
    BY <1>2, <2>1, Factor
  <2>3. i >= skip * Step <=> k >= skip
    <3>1. skip * Step = Step * skip /\ Step * skip \in Nat /\ Step * k \in Nat
      BY <1>2
    <3>2. Step * k < Step * skip <=> k < skip
      BY <1>2, Factor
    <3> QED
      BY <1>2, <2>1, <3>1, <3>2
  <2>4. measured \subseteq 0..i - 1 /\ i \notin measured
    BY <1>1, <1>2 DEF StatsInv, Timed
  <2>5. Cardinality(measured') = IF k + 1 > skip THEN (k + 1) - skip ELSE 0
    <3>1. CASE k >= skip
      <4>1. measured' = measured \union {i}
        BY <1>1, <2>3, <3>1
      <4>2. Cardinality(measured') = Cardinality(measured) + 1
        BY <1>2, <2>4, <4>1, FS_AddElement
      <4> QED
        BY <1>2, <2>1, <3>1, <4>2
    <3>2. CASE ~(k >= skip)
      <4>1. measured' = measured
        BY <1>1, <2>3, <3>2
      <4> QED
        BY <1>2, <2>1, <3>2, <4>1
    <3> QED
      BY <3>1, <3>2
  <2>6. measured' \subseteq 0..i' - 1
    <3>1. 0..i - 1 \subseteq 0..i' - 1 /\ i \in 0..i' - 1
      BY <1>1, <1>2
    <3> QED
      BY <1>1, <2>4, <3>1
  <2>7. ASSUME program \notin {"loop", "stride"} PROVE measured' = 0..i' - 1
    <3>1. skip = 0 /\ Step = 1 /\ measured = 0..i - 1
      BY <1>1, <2>7 DEF StatsInv, Lengths, Timed, Step
    <3>2. measured' = measured \union {i}
      BY <1>1, <1>2, <3>1
    <3> QED
      BY <1>1, <1>2, <3>1, <3>2
  <2>8. /\ k + 1 \in Nat /\ i' = Step * (k + 1)
        /\ Step * ((k + 1) - 1) < len
    <3>1. (k + 1) - 1 = k
      OBVIOUS
    <3> QED
      BY <1>1, <2>1, <2>2, <3>1
  <2> DEFINE l == k + 1
  <2>9. /\ l \in Nat /\ i' = Step * l /\ Step * (l - 1) < len
        /\ Cardinality(measured') = IF l > skip THEN l - skip ELSE 0
    BY <2>5, <2>8
  <2> HIDE DEF l
  <2> QED
    BY <1>1, <1>3, <2>6, <2>7, <2>9 DEF Timed
<1> QED
  BY <1>1, <1>5, <1>6, <1>7
     DEF StatsInv, FirstCells, TimesSoFar, SquaresSoFar, AverageIfItFits, VarianceIfItFits

\* Every cell has been measured, or the first cells are averaged anyway.
LEMMA CallGetAvgInv == StatsInv /\ CallGetAvg => StatsInv'
<1> SUFFICES ASSUME StatsInv, CallGetAvg PROVE StatsInv'
  OBVIOUS
<1>1. /\ pc = "measure" /\ pc' = "avg" /\ program # "loop" /\ i >= len /\ i' = 0 /\ sum' = 0
      /\ program' = program /\ len' = len /\ skip' = skip /\ array' = array
      /\ measured' = measured /\ avg' = avg /\ var' = var
  BY DEF CallGetAvg
<1>2. /\ Cells' = Cells /\ Counted' = Counted /\ Known' = Known
      /\ 0 \in 0..Counted /\ 0 \in 0..len + Stride /\ 0 \in Words /\ 0 \in Ints
      /\ len \in Nat /\ i \in Nat
  BY <1>1, Frame, Numbers, Sizes
<1>3. TypeOK'
  BY <1>1, <1>2 DEF StatsInv, TypeOK
<1>4. Lengths'
  BY <1>1, <1>2 DEF StatsInv, Lengths
<1>5. FirstCells'
  <2>1. SUFFICES ASSUME Known PROVE measured = 0..len - 1 /\ Counted = len
    BY <1>1, <1>2 DEF FirstCells
  <2>2. measured = 0..i - 1 /\ measured \subseteq 0..len - 1
    BY <1>1, <2>1 DEF StatsInv, Timed, TypeOK, Cells, Known
  <2>3. i = len
    BY <1>1, <1>2, <2>2
  <2> QED
    BY <2>1, <2>2, <2>3 DEF Known, Counted
<1>6. TimesSoFar'
  <2>1. SumOver(array', 0..i' - 1) = 0
    <3>1. 0..i' - 1 = {}
      BY <1>1
    <3> QED
      BY <3>1, SumOfNone
  <2> QED
    BY <1>1, <2>1 DEF TimesSoFar
<1> QED
  BY <1>1, <1>3, <1>4, <1>5, <1>6
     DEF StatsInv, Timed, SquaresSoFar, AverageIfItFits, VarianceIfItFits

\* The number of accesses that were timed, and the number they are divided by.
LEMMA AccessesAre ==
    ASSUME StatsInv, pc = "measure", program = "loop", i >= len
    PROVE  /\ Accesses \in Nat /\ Accesses >= 1
           /\ Accesses = IF len % Stride # 0 THEN Cardinality(measured) - 1
                                             ELSE Cardinality(measured)
<1>1. /\ len \in Nat /\ skip \in Nat /\ Stride \in Nat /\ Stride >= 1 /\ Step = Stride
      /\ len \div Stride > skip
  BY Numbers, Sizes DEF Step, StatsInv, Lengths
<1>2. PICK k \in Nat : /\ i = Stride * k /\ (k > 0 => Stride * (k - 1) < len)
                       /\ Cardinality(measured) = IF k > skip THEN k - skip ELSE 0
  BY <1>1 DEF StatsInv, Timed
<1> DEFINE q == len \div Stride
           r == len % Stride
<1>3. q \in Nat /\ r \in Nat /\ r < Stride /\ len = Stride * q + r /\ Accesses = q - skip
      /\ q > skip
  BY <1>1, Division DEF Accesses
<1> HIDE DEF q, r
<1>4. q <= k
  <2>1. ~(Stride * k < Stride * q)
    BY <1>1, <1>2, <1>3
  <2> QED
    BY <1>1, <1>2, <1>3, <2>1, Factor
<1>5. k > 0 /\ k - 1 \in Nat
  BY <1>1, <1>3, <1>4
<1>6. CASE r = 0
  <2>1. Stride * (k - 1) < Stride * q
    BY <1>1, <1>2, <1>3, <1>5, <1>6
  <2>2. k - 1 < q
    BY <1>1, <1>3, <1>5, <2>1, Factor
  <2>3. k = q
    BY <1>3, <1>4, <2>2
  <2> QED
    BY <1>1, <1>2, <1>3, <1>6, <2>3 DEF r
<1>7. CASE r # 0
  <2>1. Stride * (q + 1) = Stride * q + Stride
    BY <1>1, <1>3, Factor
  <2>2. Stride * (k - 1) < Stride * (q + 1)
    BY <1>1, <1>2, <1>3, <1>5, <2>1
  <2>3. k - 1 < q + 1
    BY <1>1, <1>3, <1>5, <2>2, Factor
  <2>4. k # q
    BY <1>1, <1>2, <1>3, <1>7
  <2>5. k = q + 1
    BY <1>3, <1>4, <2>3, <2>4
  <2> QED
    BY <1>1, <1>2, <1>3, <1>7, <2>5 DEF r
<1> QED
  BY <1>6, <1>7

LEMMA ReportLoopInv == StatsInv /\ ReportLoop => StatsInv'
<1> SUFFICES ASSUME StatsInv, ReportLoop PROVE StatsInv'
  OBVIOUS
<1>1. /\ pc = "measure" /\ pc' = "done" /\ program = "loop" /\ i >= len
      /\ avg' = sum' \div Accesses
      /\ program' = program /\ len' = len /\ skip' = skip /\ i' = i /\ array' = array
      /\ measured' = measured /\ var' = var
  BY DEF ReportLoop
<1>3. TrueSum \in Nat /\ IsFiniteSet(measured) /\ Cardinality(measured) \in Nat
  <2>1. \A c \in measured : array[c] \in Nat
    BY Numbers DEF StatsInv, TypeOK
  <2>2. IsFiniteSet(measured) /\ Cardinality(measured) \in Nat
    BY Numbers
  <2>3. SumOver(array, measured) \in Nat
    BY <2>1, <2>2, SumNat
  <2> QED
    BY <2>2, <2>3, TrueSumIs
<1>4. sum' = Wrap(TrueSum)
  BY DEF ReportLoop, TrueSum, Total
<1>5. sum' \in Words /\ (Fits => sum' = TrueSum)
  <2>1. Fits => TrueSum < N
    BY <1>1 DEF Fits, N
  <2>2. Fits => TrueSum \in 0..N - 1
    BY <1>3, <2>1, Sizes
  <2> QED
    BY <1>3, <1>4, <2>2, Conversions
<1>6. /\ Accesses \in Nat /\ Accesses >= 1
      /\ Accesses = IF len % Stride # 0 THEN Cardinality(measured) - 1
                                        ELSE Cardinality(measured)
  BY <1>1, AccessesAre
<1>7. avg' \in Words
  <2>1. sum' \in Nat /\ sum' <= N - 1
    BY <1>5, Sizes
  <2>2. sum' \div Accesses \in Nat /\ sum' \div Accesses <= sum'
    BY <1>6, <2>1, Division
  <2> QED
    BY <1>1, <2>1, <2>2, Sizes
<1>8. TypeOK'
  BY <1>1, <1>5, <1>7 DEF StatsInv, TypeOK, Cells
<1>9. AverageIfItFits'
  <2>1. SUFFICES ASSUME KnowsLength, Fits PROVE avg' = TrueAvg
    BY <1>1, Frame DEF AverageIfItFits
  <2>2. ~(len % Stride # 0)
    BY <1>1, <2>1 DEF KnowsLength
  <2> QED
    BY <1>1, <1>5, <1>6, <2>1, <2>2 DEF TrueAvg
<1> QED
  BY <1>1, <1>8, <1>9
     DEF StatsInv, Lengths, Timed, FirstCells, Known, TimesSoFar, SquaresSoFar, VarianceIfItFits

\* As long as the sum of all fits, so does the sum of the first.
LEMMA AddTimeInv == StatsInv /\ AddTime => StatsInv'
<1> SUFFICES ASSUME StatsInv, AddTime PROVE StatsInv'
  OBVIOUS
<1>1. /\ pc = "avg" /\ pc' = pc /\ i < Counted /\ i' = i + 1
      /\ sum' = IF program = "shared" THEN ToInt(Wrap(sum) + array[i]) ELSE Wrap(sum + array[i])
      /\ program' = program /\ len' = len /\ skip' = skip /\ array' = array
      /\ measured' = measured /\ avg' = avg /\ var' = var
  BY DEF AddTime
<1>2. program # "loop"
  BY <1>1 DEF StatsInv, Lengths
<1>3. /\ len \in Nat /\ Counted \in Nat /\ Counted <= len /\ i \in Nat /\ i \in 0..Counted
      /\ i \in 0..Counted - 1 /\ i' \in 0..Counted /\ i' \in 0..len + Stride
      /\ i \in Cells /\ array[i] \in Nat
  BY <1>1, <1>2, Numbers, Sizes DEF Cells
<1>4. sum \in Int /\ Wrap(sum) \in Nat
  <2>1. Ints \subseteq Int /\ Words \subseteq Int /\ Words \subseteq Nat
    BY Sizes
  <2>2. sum \in Ints \/ sum \in Words
    BY DEF StatsInv, TypeOK
  <2>3. sum \in Int
    BY <2>1, <2>2
  <2>4. Wrap(sum) \in Words
    BY <2>3, Conversions
  <2> QED
    BY <2>1, <2>3, <2>4
<1>5. sum' \in (IF program = "shared" THEN Ints ELSE Words)
  BY <1>1, <1>3, <1>4, Conversions
<1>6. TypeOK'
  BY <1>1, <1>3, <1>5 DEF StatsInv, TypeOK, Cells
<1>7. TimesSoFar'
  <2>1. SUFFICES ASSUME Known, Fits PROVE sum' = SumOver(array, 0..i)
    <3>1. i' = i + 1 /\ array' = array
      BY <1>1
    <3>2. (Fits' => Fits) /\ Known' = Known
      BY <1>1, Frame
    <3>3. 0..i' - 1 = 0..i
      BY <1>3, <3>1
    <3> QED
      BY <3>1, <3>2, <3>3 DEF TimesSoFar
  <2>2. sum = SumOver(array, 0..i - 1)
    BY <1>1, <2>1 DEF StatsInv, TimesSoFar
  <2> DEFINE t == SumOver(array, 0..i)
  <2>3. /\ t = sum + array[i] /\ sum \in Nat /\ sum <= t
        /\ t <= TrueSum /\ TrueSum \in Nat /\ t \in Nat
    <3>1. t = SumOver(array, 0..i - 1) + array[i]
      BY <1>1, <1>3, <2>1, TimesUpTo
    <3>2. SumOver(array, 0..i - 1) \in Nat /\ TrueSum \in Nat
      BY <1>1, <1>3, <2>1, TimesUpTo
    <3>3. t <= TrueSum
      <4>1. PICK n \in 0..Counted : n = i + 1
        BY <1>1, <1>3
      <4>2. SumOver(array, 0..n - 1) <= TrueSum
        BY <1>1, <2>1, TimesUpTo
      <4>3. 0..n - 1 = 0..i
        BY <1>3, <4>1
      <4> QED
        BY <4>2, <4>3
    <3> HIDE DEF t
    <3> QED
      BY <1>3, <2>2, <3>1, <3>2, <3>3
  <2> HIDE DEF t
  <2>4. CASE program = "shared"
    <3>1. TrueSum < H
      BY <2>1, <2>4 DEF Fits, H
    <3>2. sum \in 0..N - 1 /\ t \in 0..H - 1
      BY <2>3, <3>1, Sizes
    <3>3. ToInt(t) = t /\ Wrap(sum) = sum
      BY <3>2, Conversions
    <3> QED
      BY <1>1, <2>3, <2>4, <3>3 DEF t
  <2>5. CASE program # "shared"
    <3>1. TrueSum < N
      <4>1. TrueSum < M \/ TrueSum < N
        BY <2>1, <2>5 DEF Fits, M, N
      <4> QED
        BY <2>3, <4>1, Sizes
    <3>2. t \in 0..N - 1
      BY <2>3, <3>1, Sizes
    <3>3. Wrap(t) = t
      BY <3>2, Conversions
    <3> QED
      BY <1>1, <2>3, <2>5, <3>3 DEF t
  <2> QED
    BY <2>4, <2>5
<1>8. Lengths' /\ FirstCells'
  BY <1>1, <1>3, Frame DEF StatsInv, Lengths, FirstCells
<1> QED
  BY <1>1, <1>6, <1>7, <1>8
     DEF StatsInv, Timed, SquaresSoFar, AverageIfItFits, VarianceIfItFits

LEMMA ReturnAvgInv == StatsInv /\ ReturnAvg => StatsInv'
<1> SUFFICES ASSUME StatsInv, ReturnAvg PROVE StatsInv'
  OBVIOUS
<1>1. /\ pc = "avg" /\ i = Counted /\ avg' \in Divided(Counted)
      /\ pc' = (IF program = "shared" THEN "done" ELSE "var") /\ i' = 0 /\ sum' = 0
      /\ program' = program /\ len' = len /\ skip' = skip /\ array' = array
      /\ measured' = measured /\ var' = var
  BY DEF ReturnAvg
<1>2. program # "loop" /\ Counted \in Nat /\ Counted >= 1
  BY <1>1, Numbers DEF StatsInv, Lengths
<1>3. /\ Counted' = Counted /\ Known' = Known /\ 0 \in 0..Counted
      /\ 0 \in 0..len + Stride /\ 0 \in Words /\ 0 \in Ints
  BY <1>1, <1>2, Frame, Numbers, Sizes
<1>4. /\ avg' \in Words
      /\ sum \in Words /\ (program = "pow" => sum < M) => avg' = sum \div Counted
  <2>1. (sum \in Ints \/ sum \in Words) /\ (program = "pow" => sum \in Words)
    BY DEF StatsInv, TypeOK
  <2> QED
    BY <1>1, <1>2, <2>1, DividedIs
<1>5. TypeOK'
  BY <1>1, <1>3, <1>4 DEF StatsInv, TypeOK, Cells
<1>6. Lengths' /\ FirstCells'
  BY <1>1, <1>2, <1>3 DEF StatsInv, Lengths, FirstCells
<1>7. AverageIfItFits'
  <2>1. SUFFICES ASSUME Known, Fits PROVE avg' = TrueAvg
    <3>1. (Fits' => Fits) /\ TrueAvg' = TrueAvg /\ (KnowsLength' => Known)
      BY <1>1, <1>2, Frame DEF KnowsLength, Known
    <3> QED
      BY <3>1 DEF AverageIfItFits
  <2>2. sum = TrueSum /\ TrueSum \in Nat /\ Cardinality(measured) = Counted
    <3>1. sum = SumOver(array, 0..Counted - 1)
      BY <1>1, <2>1 DEF StatsInv, TimesSoFar
    <3> QED
      BY <1>1, <2>1, <3>1, TimesUpTo
  <2>3. sum \in Words /\ (program = "pow" => sum < M)
    <3>1. TrueSum < H \/ TrueSum < N \/ TrueSum < M
      BY <2>1 DEF Fits, H, N, M
    <3>2. program = "pow" => TrueSum < M
      BY <2>1 DEF Fits, M
    <3>3. sum \in 0..N - 1
      BY <2>2, <3>1, Sizes
    <3> QED
      BY <2>2, <3>2, <3>3, Sizes
  <2> QED
    BY <1>4, <2>2, <2>3 DEF TrueAvg
<1>8. SquaresSoFar'
  <2>1. SumOver(Deviations', 0..i' - 1) = 0
    <3>1. 0..i' - 1 = {}
      BY <1>1
    <3> QED
      BY <3>1, SumOfNone
  <2> QED
    BY <1>1, <2>1 DEF SquaresSoFar
<1>9. VarianceIfItFits'
  BY <1>1 DEF VarianceIfItFits
<1> QED
  BY <1>1, <1>5, <1>6, <1>7, <1>8, <1>9 DEF StatsInv, Timed, TimesSoFar

\* With integers the square is right modulo 2^64; with pow() no difference wraps around
\* unless a duration is below the average.
LEMMA AddSquareInv == StatsInv /\ AddSquare => StatsInv'
<1> SUFFICES ASSUME StatsInv, AddSquare PROVE StatsInv'
  OBVIOUS
<1>1. /\ pc = "var" /\ pc' = pc /\ i < Counted /\ i' = i + 1
      /\ sum' \in Squared(Wrap(array[i] - avg))
      /\ program' = program /\ len' = len /\ skip' = skip /\ array' = array
      /\ measured' = measured /\ avg' = avg /\ var' = var
  BY DEF AddSquare
<1>2. program # "loop" /\ program # "shared"
  BY <1>1 DEF StatsInv, Lengths
<1>3. /\ len \in Nat /\ Counted \in Nat /\ Counted <= len /\ i \in Nat /\ i \in 0..Counted
      /\ i \in 0..Counted - 1 /\ i' \in 0..Counted /\ i' \in 0..len + Stride
      /\ i \in Cells /\ array[i] \in Nat /\ array[i] \in Words
  BY <1>1, <1>2, Numbers, Sizes DEF Cells
<1> DEFINE d == array[i] - avg
           w == Wrap(d)
<1>4. /\ d \in Int /\ -N < d /\ d < N /\ w \in Words /\ w \in Nat /\ sum \in Nat /\ avg \in Nat
  <2>1. avg \in 0..N - 1 /\ sum \in 0..N - 1 /\ array[i] \in 0..N - 1 /\ N \in Nat
    BY <1>2, <1>3, Sizes DEF StatsInv, TypeOK
  <2>2. d \in Int /\ -N < d /\ d < N /\ sum \in Nat /\ avg \in Nat
    BY <2>1
  <2>3. w \in Words
    BY <2>2, Conversions
  <2> QED
    BY <2>1, <2>2, <2>3, Sizes
<1>5. sum' \in IF Pow THEN InDouble(sum + w * w, 1, 8) ELSE {Wrap(sum + w * w)}
  BY <1>1 DEF Squared
<1> HIDE DEF w, d
<1>6. w * w \in Nat /\ sum + w * w \in Nat
  BY <1>4
<1>7. sum' \in Words /\ (Pow /\ sum + w * w < M => sum' = sum + w * w)
  <2>1. CASE Pow
    <3> DEFINE x == sum + w * w
    <3>1. x \in Nat /\ sum' \in InDouble(x, 1, 8)
      BY <1>5, <1>6, <2>1
    <3> HIDE DEF x
    <3>2. sum' \in Words /\ (x < M => sum' = x \div 1)
      BY <3>1, DoubleIs
    <3>3. x \div 1 = x
      BY <3>1
    <3> QED
      BY <3>2, <3>3 DEF x
  <2>2. CASE ~Pow
    BY <1>5, <1>6, <2>2, Conversions
  <2> QED
    BY <2>1, <2>2
<1>8. TypeOK'
  BY <1>1, <1>2, <1>3, <1>7 DEF StatsInv, TypeOK, Cells
<1>9. Lengths' /\ FirstCells'
  BY <1>1, <1>3, Frame DEF StatsInv, Lengths, FirstCells
<1>10. SquaresSoFar'
  <2>1. SUFFICES ASSUME VarianceFits PROVE sum' = SumOver(Deviations, 0..i)
    <3>1. i' = i + 1 /\ Deviations' = Deviations /\ avg' = avg /\ array' = array
          /\ measured' = measured /\ Pow' = Pow /\ TrueSquares' = TrueSquares
          /\ (Fits' => Fits) /\ Known' = Known /\ VarianceLimit' = VarianceLimit
      BY <1>1, Frame
    <3>2. VarianceFits' => VarianceFits
      BY <3>1 DEF VarianceFits
    <3>3. 0..i' - 1 = 0..i
      BY <1>3, <3>1
    <3> QED
      BY <3>1, <3>2, <3>3 DEF SquaresSoFar
  <2> DEFINE t == SumOver(Deviations, 0..i)
  <2>0. Known
    BY <2>1 DEF VarianceFits
  <2>2. sum = SumOver(Deviations, 0..i - 1)
    BY <1>1, <2>1 DEF StatsInv, SquaresSoFar
  <2>3. avg = TrueAvg
    BY <1>1, <2>1 DEF StatsInv, AverageIfItFits, VarianceFits, KnowsLength, Known
  <2>4. t = sum + d * d
    <3>1. t = SumOver(Deviations, 0..i - 1) + (array[i] - TrueAvg) * (array[i] - TrueAvg)
      BY <1>1, <1>3, <2>0, SquaresUpTo
    <3> QED
      BY <2>2, <2>3, <3>1 DEF d
  <2>5. t \in 0..N - 1 /\ (Pow => t < M)
    <3>1. PICK n \in 0..Counted : n = i + 1
      BY <1>1, <1>3
    <3>2. SumOver(Deviations, 0..n - 1) \in Nat /\ SumOver(Deviations, 0..n - 1) <= TrueSquares
      BY <1>1, <2>0, SquaresUpTo
    <3>3. TrueSquares \in Nat /\ TrueSquares < N /\ (Pow => TrueSquares < M)
      <4>1. TrueSquares \in Nat
        BY <1>1, <2>0, SquaresUpTo
      <4>2. IF Pow THEN TrueSquares < M ELSE TrueSquares < N
        BY <2>1 DEF VarianceFits, VarianceLimit, M, N
      <4> QED
        BY <4>1, <4>2, Sizes
    <3>4. 0..n - 1 = 0..i
      BY <1>3, <3>1
    <3>5. t \in Nat /\ t <= TrueSquares
      BY <3>2, <3>4
    <3> HIDE DEF t
    <3> QED
      BY <3>3, <3>5, Sizes
  <2> HIDE DEF t
  <2>6. CASE Pow
    <3>1. i \in measured
      BY <1>1, <1>3, <2>0, TimesUpTo
    <3>2. array[i] >= avg
      BY <2>1, <2>6, <3>1 DEF VarianceFits
    <3>3. d \in 0..N - 1
      BY <1>3, <1>4, <3>2, Sizes DEF d
    <3>4. w = d
      BY <3>3, Conversions DEF w
    <3>5. sum + w * w = t /\ t < M
      BY <2>4, <2>5, <2>6, <3>4
    <3> QED
      BY <1>7, <2>6, <3>5 DEF t
  <2>7. CASE ~Pow
    <3>1. PICK k \in Int : w * w = d * d + N * k
      BY <1>4, SquareOfWrapped DEF w
    <3> DEFINE y == sum + w * w
    <3>2. y \in Nat /\ y = t + N * k
      <4>1. d * d \in Int /\ N * k \in Int
        BY <1>4, <3>1, Sizes
      <4> QED
        BY <1>4, <1>6, <2>4, <3>1, <4>1
    <3>3. Wrap(y) = t
      <4> HIDE DEF y
      <4> QED
        BY <2>5, <3>1, <3>2, WrapMultiple
    <3> QED
      BY <1>5, <2>7, <3>3 DEF t
  <2> QED
    BY <2>6, <2>7
<1>11. AverageIfItFits'
  <2>1. (Fits' => Fits) /\ TrueAvg' = TrueAvg /\ KnowsLength' = KnowsLength
    BY <1>1, Frame
  <2> QED
    BY <1>1, <1>2, <2>1 DEF StatsInv, AverageIfItFits
<1>12. VarianceIfItFits'
  BY <1>1 DEF VarianceIfItFits
<1> QED
  BY <1>1, <1>8, <1>9, <1>10, <1>11, <1>12 DEF StatsInv, Timed, TimesSoFar

LEMMA ReturnVarInv == StatsInv /\ ReturnVar => StatsInv'
<1> SUFFICES ASSUME StatsInv, ReturnVar PROVE StatsInv'
  OBVIOUS
<1>1. /\ pc = "var" /\ pc' = "done" /\ i = Counted /\ i' = i /\ var' \in Divided(Counted)
      /\ program' = program /\ len' = len /\ skip' = skip /\ array' = array
      /\ measured' = measured /\ sum' = sum /\ avg' = avg
  BY DEF ReturnVar
<1>2. program # "loop" /\ program # "shared" /\ Counted \in Nat /\ Counted >= 1
  BY <1>1, Numbers DEF StatsInv, Lengths
<1>3. /\ sum \in Words /\ var' \in Words
      /\ (program = "pow" => sum < M) => var' = sum \div Counted
  <2>1. sum \in Words
    BY <1>2 DEF StatsInv, TypeOK
  <2> QED
    BY <1>1, <1>2, <2>1, DividedIs
<1>4. TypeOK'
  BY <1>1, <1>3 DEF StatsInv, TypeOK, Cells
<1>5. Lengths' /\ FirstCells'
  BY <1>1, <1>2, Frame DEF StatsInv, Lengths, FirstCells
<1>6. AverageIfItFits'
  <2>1. (Fits' => Fits) /\ TrueAvg' = TrueAvg /\ KnowsLength' = KnowsLength
    BY <1>1, Frame
  <2> QED
    BY <1>1, <1>2, <2>1 DEF StatsInv, AverageIfItFits
<1>7. VarianceIfItFits'
  <2>1. /\ Pow' = Pow /\ TrueSquares' = TrueSquares /\ (Fits' => Fits)
        /\ avg' = avg /\ array' = array /\ measured' = measured /\ program' = program
    BY <1>1, Frame
  <2>2. SUFFICES ASSUME VarianceFits
                 PROVE  var' = TrueSquares \div Cardinality(measured)
    <3>1. /\ program' \in {"length", "pow"} /\ Fits'
          /\ TrueSquares' < 2^(IF Pow' THEN Mantissa ELSE Width)
          /\ (Pow' => \A c \in measured' : array'[c] >= avg')
          => VarianceFits
      BY <2>1 DEF VarianceFits, VarianceLimit, Known
    <3> QED
      BY <2>1, <3>1 DEF VarianceIfItFits
  <2>3. sum = SumOver(Deviations, 0..Counted - 1) /\ Known
    BY <1>1, <2>2 DEF StatsInv, SquaresSoFar, VarianceFits
  <2>4. sum = TrueSquares /\ Cardinality(measured) = Counted
    BY <1>1, <2>3, SquaresUpTo, TimesUpTo
  <2>5. program = "pow" => sum < M
    BY <2>2, <2>4 DEF VarianceFits, VarianceLimit, Pow, M
  <2> QED
    BY <1>3, <2>4, <2>5
<1> QED
  BY <1>1, <1>4, <1>5, <1>6, <1>7 DEF StatsInv, Timed, TimesSoFar, SquaresSoFar

LEMMA StutterInv == StatsInv /\ UNCHANGED vars => StatsInv'
<1> SUFFICES ASSUME StatsInv, UNCHANGED vars PROVE StatsInv'
  OBVIOUS
<1>1. /\ pc' = pc /\ i' = i /\ sum' = sum /\ avg' = avg /\ var' = var
      /\ program' = program /\ len' = len /\ skip' = skip /\ array' = array
      /\ measured' = measured
  BY DEF vars
<1>2. /\ Cells' = Cells /\ Counted' = Counted /\ Step' = Step /\ Pow' = Pow
      /\ KnowsLength' = KnowsLength /\ TrueAvg' = TrueAvg /\ TrueSum' = TrueSum
      /\ TrueSquares' = TrueSquares /\ Deviations' = Deviations /\ Fits' = Fits
      /\ Known' = Known /\ VarianceLimit' = VarianceLimit
  BY <1>1, Frame
<1>3. TypeOK' /\ Lengths' /\ Timed' /\ FirstCells'
  BY <1>1, <1>2 DEF StatsInv, TypeOK, Lengths, Timed, FirstCells
<1>4. TimesSoFar' /\ SquaresSoFar'
  <2>1. VarianceFits' => VarianceFits
    BY <1>1, <1>2 DEF VarianceFits
  <2> QED
    BY <1>1, <1>2, <2>1 DEF StatsInv, TimesSoFar, SquaresSoFar
<1>5. AverageIfItFits' /\ VarianceIfItFits'
  BY <1>1, <1>2 DEF StatsInv, AverageIfItFits, VarianceIfItFits
<1> QED
  BY <1>3, <1>4, <1>5 DEF StatsInv

-----------------------------------------------------------------------------
(* The theorems. *)

\* Every state of the statistics code satisfies the invariant, whatever the widths, the
\* lengths and the durations.
THEOREM Invariance == Spec => []StatsInv
<1>1. Init => StatsInv
  BY InitInv
<1>2. StatsInv /\ [Next]_vars => StatsInv'
  BY MeasureInv, CallGetAvgInv, ReportLoopInv, AddTimeInv, ReturnAvgInv, AddSquareInv,
     ReturnVarInv, StutterInv DEF Next, Terminated
<1> QED
  BY <1>1, <1>2, PTL DEF Spec

\* Type correctness: among others, no cell outside the array is written or averaged.
THEOREM TypeCorrect == Spec => []TypeOK
<1>1. StatsInv => TypeOK
  BY DEF StatsInv
<1> QED
  BY <1>1, Invariance, PTL

\* A program that knows how much it measured reports the average of all that and of
\* nothing else, whether it adds up in 64 bits or in an int and divides integers or
\* doubles, or takes the time of a whole loop, as long as the sum fits; for every width,
\* length, region, stride and set of durations.
THEOREM AverageIsRight == Spec => []AverageIfItFits
<1>1. StatsInv => AverageIfItFits
  BY DEF StatsInv
<1> QED
  BY <1>1, Invariance, PTL

\* The variance of a program that knows its length is right if it fits: with integer
\* squares although the differences wrap around, with pow() as long as the mantissa
\* holds it and no duration is below the average.
THEOREM VarianceIsRight == Spec => []VarianceIfItFits
<1>1. StatsInv => VarianceIfItFits
  BY DEF StatsInv
<1> QED
  BY <1>1, Invariance, PTL

=============================================================================
