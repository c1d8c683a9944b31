--------------------------- MODULE PageFaultProofs ---------------------------
(***************************************************************************)
(* Proofs about PageFault, for every size of chunk, page and file, every   *)
(* range of rand() and every bound on failures: what the file holds, which *)
(* pages a sample touches, and where the first of them comes from.         *)
(***************************************************************************)
EXTENDS PageFault, FiniteSetTheorems, SequenceTheorems, TLAPS

-----------------------------------------------------------------------------
(* Division. *)

LEMMA Division ==
    ASSUME NEW n \in Nat, NEW b \in Nat, b >= 1
    PROVE  /\ n \div b \in Nat /\ n % b \in Nat /\ n % b < b
           /\ n = b * (n \div b) + (n % b)
OBVIOUS

\* A product determines its factor.
LEMMA Factor ==
    ASSUME NEW b \in Nat, b >= 1, NEW k \in Nat, NEW m \in Nat
    PROVE  /\ b * k < b * m <=> k < m
           /\ b * (k + 1) = b * k + b
           /\ k <= b * k
OBVIOUS

LEMMA Quotients ==
    ASSUME NEW b \in Nat, b >= 1, NEW k \in Nat, NEW r \in Nat, r < b
    PROVE  (b * k + r) \div b = k
<1> DEFINE n == b * k + r
           q == n \div b
<1>1. n \in Nat /\ q \in Nat /\ n % b \in Nat /\ n % b < b /\ n = b * q + (n % b)
  BY Division
<1>2. ~(q < k)
  <2> SUFFICES ASSUME q + 1 <= k PROVE FALSE
    BY <1>1
  <2>1. b * (q + 1) <= b * k
    BY <1>1, Factor
  <2> QED
    BY <1>1, <2>1, Factor
<1>3. ~(k < q)
  <2> SUFFICES ASSUME k + 1 <= q PROVE FALSE
    BY <1>1
  <2>1. b * (k + 1) <= b * q
    BY <1>1, Factor
  <2> QED
    BY <1>1, <2>1, Factor
<1> QED
  BY <1>1, <1>2, <1>3

-----------------------------------------------------------------------------
(* The constants, and the pages of a number of bytes. *)

LEMMA Sizes ==
    /\ NChunks \in Nat /\ NChunks >= 1 /\ Chunk \in Nat /\ Chunk >= 1
    /\ PageSize \in Nat /\ PageSize >= 1 /\ RandMax \in Nat
    /\ NIterations \in Nat /\ NIterations >= 1 /\ MaxExtra \in Nat /\ MaxFailures \in Nat
BY NChunksAssumption, ChunkAssumption, PageSizeAssumption, RandMaxAssumption,
   NIterationsAssumption, MaxExtraAssumption, MaxFailuresAssumption

\* A page belongs to the n bytes if its first byte does.
LEMMA PageOf ==
    ASSUME NEW n \in Nat, NEW p \in Nat, PageSize * p < n
    PROVE  p \in PagesOf(n)
<1> DEFINE m == n + PageSize - 1
           q == m \div PageSize
           r == m % PageSize
<1>1. m \in Nat /\ q \in Nat /\ r \in Nat /\ r < PageSize /\ m = PageSize * q + r
  BY Sizes, Division
<1>2. PageSize * (p + 1) = PageSize * p + PageSize
  BY Sizes, Factor
<1>3. PageSize * (q + 1) = PageSize * q + PageSize
  BY <1>1, Sizes, Factor
<1>4. PageSize * (p + 1) < PageSize * (q + 1)
  BY <1>1, <1>2, <1>3, Sizes
<1>5. p + 1 < q + 1
  BY <1>1, <1>4, Sizes, Factor
<1> QED
  BY <1>1, <1>5 DEF PagesOf

\* And only then.
LEMMA PageFrom ==
    ASSUME NEW n \in Nat, NEW p \in PagesOf(n)
    PROVE  p \in Nat /\ PageSize * p < n
<1> DEFINE m == n + PageSize - 1
           q == m \div PageSize
           r == m % PageSize
<1>1. m \in Nat /\ q \in Nat /\ r \in Nat /\ m = PageSize * q + r
  BY Sizes, Division
<1>2. p \in 0..q - 1
  BY DEF PagesOf
<1>3. p \in Nat /\ p + 1 <= q
  BY <1>1, <1>2
<1> HIDE DEF q, r
<1>4. PageSize * (p + 1) <= PageSize * q
  <2>1. p + 1 < q \/ p + 1 = q
    BY <1>1, <1>3
  <2>2. PageSize * (p + 1) \in Nat /\ PageSize * q \in Nat
    BY <1>1, <1>3, Sizes
  <2> QED
    BY <1>1, <1>3, <2>1, <2>2, Sizes, Factor
<1>5. PageSize * (p + 1) = PageSize * p + PageSize /\ PageSize * p \in Nat
  BY <1>3, Sizes, Factor
<1> QED
  BY <1>1, <1>3, <1>4, <1>5, Sizes

\* A file that grows keeps its pages and gets those of the bytes written.
LEMMA PagesGrow ==
    ASSUME NEW n \in Nat, NEW m \in Nat, n <= m, NEW from \in Nat, NEW k \in Nat,
           k = 0 \/ from + k <= m
    PROVE  PagesOf(n) \subseteq PagesOf(m) /\ WrittenPages(from, k) \subseteq PagesOf(m)
<1>1. ASSUME NEW p \in PagesOf(n) PROVE p \in PagesOf(m)
  <2>1. p \in Nat /\ PageSize * p < n
    BY PageFrom
  <2>2. PageSize * p \in Nat
    BY <2>1, Sizes
  <2> QED
    BY <2>1, <2>2, PageOf
<1>2. ASSUME NEW b \in from..from + k - 1 PROVE b \div PageSize \in PagesOf(m)
  <2>1. b \in Nat /\ b < m
    OBVIOUS
  <2> DEFINE q == b \div PageSize
  <2>2. q \in Nat /\ b % PageSize \in Nat /\ b = PageSize * q + (b % PageSize)
    BY <2>1, Division, Sizes
  <2>3. PageSize * q \in Nat /\ PageSize * q < m
    BY <2>1, <2>2, Sizes
  <2> QED
    BY <2>2, <2>3, PageOf
<1> QED
  BY <1>1, <1>2 DEF WrittenPages

LEMMA PagesFinite ==
    ASSUME NEW n \in Nat
    PROVE  IsFiniteSet(PagesOf(n)) /\ PagesOf(n) \subseteq Nat
<1>1. PICK t \in Nat : t = (n + PageSize - 1) \div PageSize
  BY Sizes, Division
<1>2. PagesOf(n) = 0..t - 1
  BY <1>1 DEF PagesOf
<1>3. IsFiniteSet(0..t - 1) /\ 0..t - 1 \subseteq Nat
  <2>1. 0 \in Int /\ t - 1 \in Int
    BY <1>1
  <2>2. IsFiniteSet(0..t - 1)
    BY <2>1, FS_Interval
  <2> QED
    BY <2>1, <2>2
<1> QED
  BY <1>2, <1>3

\* A sample reads bytes of two pages, one after the other.
LEMMA TwoPages ==
    ASSUME num \in Nat
    PROVE  \E q \in Nat : /\ q = num \div PageSize
                         /\ SamplePages = {q, q + 1} /\ PageSize * (q + 1) <= num + PageSize
<1> DEFINE q == num \div PageSize
           r == num % PageSize
<1>1. q \in Nat /\ r \in Nat /\ r < PageSize /\ num = PageSize * q + r
  BY Sizes, Division
<1>2. PageSize * (q + 1) = PageSize * q + PageSize
  BY <1>1, Sizes, Factor
<1>3. (num + PageSize) \div PageSize = q + 1
  <2>1. num + PageSize = PageSize * (q + 1) + r
    BY <1>1, <1>2, Sizes
  <2> QED
    BY <1>1, <2>1, Quotients, Sizes
<1>4. ASSUME NEW k \in num..num + PageSize
      PROVE  k \div PageSize \in {q, q + 1}
  <2>1. CASE k < PageSize * (q + 1)
    <3> DEFINE s == k - PageSize * q
    <3>1. s \in Nat /\ s < PageSize /\ k = PageSize * q + s
      BY <1>1, <1>2, <2>1, Sizes
    <3> HIDE DEF s
    <3> QED
      BY <1>1, <3>1, Quotients, Sizes
  <2>2. CASE ~(k < PageSize * (q + 1))
    <3> DEFINE s == k - PageSize * (q + 1)
    <3>1. s \in Nat /\ s < PageSize /\ k = PageSize * (q + 1) + s
      BY <1>1, <1>2, <2>2, Sizes
    <3> HIDE DEF s
    <3> QED
      BY <1>1, <3>1, Quotients, Sizes
  <2> QED
    BY <2>1, <2>2
<1>5. num \in num..num + PageSize /\ num + PageSize \in num..num + PageSize
  BY Sizes
<1>6. SamplePages = {k \div PageSize : k \in num..num + PageSize}
  BY DEF SamplePages
<1>7. q \in SamplePages /\ q + 1 \in SamplePages
  BY <1>3, <1>5, <1>6
<1>10. q = num \div PageSize
  OBVIOUS
<1> HIDE DEF q
<1>8. SamplePages = {q, q + 1}
  BY <1>4, <1>6, <1>7
<1>9. PageSize * (q + 1) <= num + PageSize
  BY <1>1, <1>2, Sizes
<1> QED
  BY <1>1, <1>8, <1>9, <1>10

-----------------------------------------------------------------------------
(* What a write leaves in the file. *)

Bytes == {"A", "other", "hole"}

LEMMA OverwrittenIs ==
    ASSUME file \in Seq(Bytes), NEW from \in Nat, NEW n \in Nat
    PROVE  /\ Overwritten(from, n) \in Seq(Bytes)
           /\ Len(Overwritten(from, n)) = IF from + n > size THEN from + n ELSE size
           /\ \A k \in 1..Len(Overwritten(from, n)) :
                 /\ k <= size /\ k <= from => Overwritten(from, n)[k] = file[k]
                 /\ k > from /\ k <= from + n /\ k <= from + Chunk
                       => Overwritten(from, n)[k] = "A"
<1> DEFINE m == IF from + n > size THEN from + n ELSE size
           w == Overwritten(from, n)
<1>1. size \in Nat /\ file \in [1..size -> Bytes]
  BY LenProperties DEF size
<1>2. m \in Nat
  BY <1>1
<1>3. w = [k \in 1..m |->
              CASE k \in from + 1..from + n -> IF k <= from + Chunk THEN "A" ELSE "other"
                [] k <= size /\ k \notin from + 1..from + n -> file[k]
                [] OTHER -> "hole"]
  BY DEF Overwritten
<1>4. ASSUME NEW k \in 1..m
      PROVE  /\ w[k] \in Bytes
             /\ k <= size /\ k <= from => w[k] = file[k]
             /\ k > from /\ k <= from + n /\ k <= from + Chunk => w[k] = "A"
  <2>1. k \in Nat /\ k >= 1
    BY <1>2
  <2> HIDE DEF m, w
  <2>2. CASE k \in from + 1..from + n
    <3>1. w[k] = IF k <= from + Chunk THEN "A" ELSE "other"
      BY <1>3, <2>2
    <3> QED
      BY <2>1, <2>2, <3>1 DEF Bytes
  <2>3. CASE k \notin from + 1..from + n /\ k <= size
    <3>1. w[k] = file[k]
      BY <1>3, <2>3
    <3>2. file[k] \in Bytes
      BY <1>1, <2>1, <2>3
    <3> QED
      BY <2>1, <2>3, <3>1, <3>2
  <2>4. CASE k \notin from + 1..from + n /\ ~(k <= size)
    <3>1. w[k] = "hole"
      BY <1>3, <2>4
    <3> QED
      BY <2>1, <2>4, <3>1 DEF Bytes
  <2> QED
    BY <2>2, <2>3, <2>4
<1> HIDE DEF m
<1>5. w \in [1..m -> Bytes]
  BY <1>3, <1>4
<1>6. w \in Seq(Bytes) /\ Len(w) = m
  <2>1. w \in Seq(Bytes)
    BY <1>2, <1>5, SeqDef
  <2> QED
    BY <1>2, <1>5
<1> QED
  BY <1>4, <1>6 DEF m

-----------------------------------------------------------------------------
(* The invariant. *)

\* i counts chunks up to the end of the writing and samples from the mapping on.
Counter ==
    /\ pc = "create" => i = 0
    /\ pc = "write" => i \in 0..NChunks
    /\ pc = "map" => i = NChunks
    /\ pc = "sample" => i \in 0..NIterations
    /\ pc = "touch" => i \in 0..NIterations - 1

\* The file grows with the loop, by a chunk at least as long as no call fails.
Written ==
    /\ pc = "create" => size = 0
    /\ pc = "write" => size <= i * Chunk + MaxExtra
    /\ pc = "write" /\ failures = 0 =>
          size >= i * Chunk /\ \A k \in 1..i * Chunk : file[k] = "A"

\* Nothing is mapped, and no page touched, before its time.
Untimely ==
    /\ pc = "create" => cached = {} /\ dirty = {}
    /\ pc \in {"create", "write", "map"} =>
          mapped = {} /\ pages = {} /\ faults = 0 /\ disk = 0

\* A sample touches its own pages only, the first of them first, and none if the
\* end of its loop wrapped.
OwnPages ==
    pc = "touch" =>
        /\ pages \subseteq SamplePages /\ (wraps => pages = {})
        /\ pages # {} => num \div PageSize \in pages

\* Until the first page is touched, the cache holds only what could not be dropped.
ColdAtFirst ==
    \/ pc = "map"
    \/ pc = "sample" /\ i = 0
    \/ pc = "touch" /\ i = 0 /\ pages = {}
    => cached \subseteq dirty

Inv ==
    /\ TypeOK /\ Counter /\ Written /\ Untimely /\ OwnPages /\ ColdAtFirst
    /\ FileFilled /\ TwoPagesOrNone /\ StaysInFile /\ FirstFromDisk
-----------------------------------------------------------------------------
(* The steps preserve it. *)

\* A number of chunks, in bytes.
LEMMA Chunks ==
    ASSUME NEW k \in Nat, NEW m \in Nat
    PROVE  /\ k * Chunk \in Nat /\ (k + 1) * Chunk = k * Chunk + Chunk
           /\ k <= m => k * Chunk <= m * Chunk
BY Sizes

LEMMA Numbers ==
    ASSUME Inv
    PROVE  /\ i \in Nat /\ num \in Nat /\ failures \in Nat /\ faults \in Nat /\ disk \in Nat
           /\ file \in Seq(Bytes) /\ size \in Nat
           /\ IsFiniteSet(pages) /\ Cardinality(pages) \in Nat /\ pages \subseteq Nat
           /\ FilePages \subseteq Nat
<1>1. TypeOK
  BY DEF Inv
<1>2. file \in Seq(Bytes) /\ size \in Nat
  <2>1. file \in Seq(Bytes)
    BY <1>1 DEF TypeOK, Bytes
  <2> QED
    BY <2>1, LenProperties DEF size
<1>3. IsFiniteSet(pages) /\ Cardinality(pages) \in Nat /\ pages \subseteq Nat
  <2>1. RandMax + PageSize + 1 \in Nat
    BY Sizes
  <2>2. pages \subseteq PagesOf(RandMax + PageSize + 1)
    BY <1>1 DEF TypeOK
  <2>3. /\ IsFiniteSet(PagesOf(RandMax + PageSize + 1))
        /\ PagesOf(RandMax + PageSize + 1) \subseteq Nat
    BY <2>1, PagesFinite
  <2>4. IsFiniteSet(pages)
    BY <2>2, <2>3, FS_Subset
  <2> QED
    BY <2>2, <2>3, <2>4, FS_CardinalityType
<1>4. FilePages \subseteq Nat
  BY <1>2, PagesFinite DEF FilePages
<1>5. i \in Nat /\ num \in Nat /\ failures \in Nat
  <2>1. i \in 0..NChunks \union 0..NIterations /\ num \in 0..RandMax /\ failures \in 0..MaxFailures
    BY <1>1 DEF TypeOK
  <2> QED
    BY <2>1, Sizes
<1>6. faults \in Nat /\ disk \in Nat
  <2>1. disk \in 0..faults /\ faults \in 0..Cardinality(pages)
    BY <1>1 DEF TypeOK
  <2> QED
    BY <1>3, <2>1
<1> QED
  BY <1>2, <1>3, <1>4, <1>5, <1>6

LEMMA InitInv == Init => Inv
<1> SUFFICES ASSUME Init PROVE Inv
  OBVIOUS
<1>1. file = <<>> /\ size = 0
  BY DEF Init, size
<1>2. 0 <= NChunks * Chunk /\ 0 \in 0..MaxFailures /\ 0 \in 0..RandMax /\ 0 \in 0..NChunks
  BY Sizes, Chunks
<1>3. file \in Seq({"A", "other", "hole"}) /\ size <= NChunks * Chunk + MaxExtra
  <2>1. NChunks * Chunk \in Nat
    BY Sizes, Chunks
  <2> QED
    BY <1>1, <2>1, Sizes
<1>4. pages = {} /\ disk = 0 /\ faults = 0 /\ 0 \in 0..Cardinality(pages)
  <2>1. Cardinality({}) = 0
    BY FS_EmptySet
  <2> QED
    BY <2>1 DEF Init
<1>5. TypeOK
  <2>1. pc = "create" /\ i \in 0..NChunks \union 0..NIterations
    BY <1>2 DEF Init
  <2>2. dirty \subseteq FilePages /\ cached \subseteq FilePages /\ mapped \subseteq cached
    BY DEF Init
  <2>3. num \in 0..RandMax /\ wraps \in BOOLEAN /\ failures \in 0..MaxFailures
    BY <1>2 DEF Init
  <2>4. disk \in 0..faults /\ pages \subseteq PagesOf(RandMax + PageSize + 1)
    BY <1>4
  <2> QED
    BY <1>3, <1>4, <2>1, <2>2, <2>3, <2>4 DEF TypeOK
<1> QED
  BY <1>1, <1>4, <1>5
     DEF Init, Inv, Counter, Written, Untimely, OwnPages, ColdAtFirst, FileFilled,
         TwoPagesOrNone, StaysInFile, FirstFromDisk

\* fopen() changes nothing but the place in main().
LEMMA CreateInv == Inv /\ Create => Inv'
<1> SUFFICES ASSUME Inv, Create PROVE Inv'
  OBVIOUS
<1>1. /\ pc = "create" /\ pc' \in {"write", "crashed"} /\ i = 0 /\ i' = i /\ size = 0
      /\ file' = file /\ cached' = cached /\ dirty' = dirty /\ mapped' = mapped
      /\ num' = num /\ wraps' = wraps /\ pages' = pages /\ faults' = faults /\ disk' = disk
      /\ pages = {} /\ cached = {} /\ dirty = {} /\ mapped = {} /\ faults = 0 /\ disk = 0
  BY DEF Create, fileVars, sampleVars, Inv, Counter, Written, Untimely
<1>2. failures' \in 0..MaxFailures /\ size' = size /\ FilePages' = FilePages
  BY <1>1, Numbers, Sizes DEF Create, Fails, Inv, TypeOK, size, FilePages
<1>3. 0 * Chunk = 0 /\ 0 \in 0..NChunks
  BY Sizes
<1>4. TypeOK'
  BY <1>1, <1>2 DEF Inv, TypeOK
<1>5. Written' /\ Counter'
  BY <1>1, <1>2, <1>3, Sizes DEF Written, Counter
<1> QED
  BY <1>1, <1>2, <1>4, <1>5
     DEF Inv, Untimely, OwnPages, ColdAtFirst, FileFilled, TwoPagesOrNone, StaysInFile,
         FirstFromDisk

\* A write that succeeds leaves the whole chunk, one that fails leaves less, and
\* neither disturbs what is before it.
LEMMA WriteChunkInv == Inv /\ WriteChunk => Inv'
<1> SUFFICES ASSUME Inv, WriteChunk PROVE Inv'
  OBVIOUS
<1>1. /\ pc = "write" /\ pc' = pc /\ i' = i + 1 /\ i < NChunks /\ mapped' = mapped
      /\ num' = num /\ wraps' = wraps /\ pages' = pages /\ faults' = faults /\ disk' = disk
      /\ pages = {} /\ mapped = {} /\ faults = 0 /\ disk = 0
  BY DEF WriteChunk, sampleVars, Inv, Untimely
<1>2. i \in Nat /\ failures \in 0..MaxFailures /\ file \in Seq(Bytes) /\ size \in Nat
  BY Numbers DEF Inv, TypeOK
<1>3. /\ size <= i * Chunk + MaxExtra
      /\ failures = 0 => size >= i * Chunk /\ \A k \in 1..i * Chunk : file[k] = "A"
  BY <1>1 DEF Inv, Written
<1> DEFINE c == i * Chunk
<1>4. /\ c \in Nat /\ i' * Chunk = c + Chunk /\ i' \in 0..NChunks
      /\ c + Chunk <= NChunks * Chunk /\ NChunks * Chunk \in Nat
  BY <1>1, <1>2, Chunks, Sizes
<1>5. PICK n \in 0..Chunk + MaxExtra :
         /\ \/ n >= Chunk /\ UNCHANGED failures
            \/ n < Chunk + MaxExtra /\ Fails
         /\ file' = IF n = 0 THEN file ELSE Overwritten(c, n)
         /\ cached' = cached \union WrittenPages(c, n)
         /\ dirty' = dirty \union WrittenPages(c, n)
  BY DEF WriteChunk, Position
<1>6. n \in Nat /\ n <= Chunk + MaxExtra
  BY Sizes
<1>7. failures' \in 0..MaxFailures /\ (failures' = 0 => failures = 0 /\ n >= Chunk)
  BY <1>2, <1>5, Sizes DEF Fails
<1> HIDE DEF c
<1>8. /\ file' \in Seq(Bytes) /\ size' \in Nat /\ size <= size' /\ size' <= c + Chunk + MaxExtra
      /\ n = 0 \/ c + n <= size'
      /\ failures' = 0 => size' >= c + Chunk /\ \A k \in 1..c + Chunk : file'[k] = "A"
  <2>1. CASE n = 0
    <3>1. file' = file /\ size' = size
      BY <1>5, <2>1 DEF size
    <3> QED
      BY <1>2, <1>3, <1>4, <1>7, <2>1, <3>1, Sizes DEF c
  <2>2. CASE n # 0
    <3>1. /\ file' \in Seq(Bytes)
          /\ Len(file') = IF c + n > size THEN c + n ELSE size
          /\ \A k \in 1..Len(file') :
                /\ k <= size /\ k <= c => file'[k] = file[k]
                /\ k > c /\ k <= c + n /\ k <= c + Chunk => file'[k] = "A"
      BY <1>2, <1>4, <1>5, <1>6, <2>2, OverwrittenIs
    <3>2. size' = IF c + n > size THEN c + n ELSE size
      BY <3>1 DEF size
    <3>3. size' \in Nat /\ size <= size' /\ size' <= c + Chunk + MaxExtra /\ c + n <= size'
      BY <1>2, <1>3, <1>4, <1>6, <3>2, Sizes DEF c
    <3>4. ASSUME failures' = 0
          PROVE  size' >= c + Chunk /\ \A k \in 1..c + Chunk : file'[k] = "A"
      <4>1. n >= Chunk /\ failures = 0 /\ size' >= c + Chunk
        BY <1>4, <1>6, <1>7, <3>3, <3>4, Sizes
      <4>2. ASSUME NEW k \in 1..c + Chunk PROVE file'[k] = "A"
        <5>1. k \in 1..Len(file') /\ k \in Nat
          BY <1>4, <3>3, <4>1, Sizes DEF size
        <5>2. CASE k <= c
          <6>1. file[k] = "A" /\ k <= size
            BY <1>2, <1>3, <1>4, <4>1, <5>1, <5>2 DEF c
          <6> QED
            BY <3>1, <5>1, <5>2, <6>1
        <5>3. CASE k > c
          BY <1>4, <1>6, <3>1, <4>1, <5>1, <5>3, Sizes
        <5> QED
          BY <1>4, <5>1, <5>2, <5>3
      <4> QED
        BY <4>1, <4>2
    <3> QED
      BY <3>1, <3>3, <3>4
  <2> QED
    BY <2>1, <2>2
<1>9. cached' \subseteq FilePages' /\ dirty' \subseteq FilePages'
  <2>1. /\ PagesOf(size) \subseteq PagesOf(size')
        /\ WrittenPages(c, n) \subseteq PagesOf(size')
    BY <1>2, <1>4, <1>6, <1>8, PagesGrow
  <2>2. FilePages' = PagesOf(size')
    BY DEF FilePages
  <2>3. cached \subseteq PagesOf(size) /\ dirty \subseteq PagesOf(size)
    BY DEF Inv, TypeOK, FilePages
  <2> QED
    BY <1>5, <2>1, <2>2, <2>3
<1>10. TypeOK'
  <2>1. size' <= NChunks * Chunk + MaxExtra
    BY <1>4, <1>8, Sizes
  <2> QED
    BY <1>1, <1>4, <1>7, <1>8, <1>9, <2>1 DEF Inv, TypeOK, Bytes
<1>11. Written' /\ Counter'
  BY <1>1, <1>4, <1>8 DEF Written, Counter
<1> QED
  BY <1>1, <1>10, <1>11
     DEF Inv, Untimely, OwnPages, ColdAtFirst, FileFilled, TwoPagesOrNone, StaysInFile,
         FirstFromDisk

\* The kernel writes pages back while the program writes.
LEMMA WriteBackInv == Inv /\ WriteBack => Inv'
<1> SUFFICES ASSUME Inv, WriteBack PROVE Inv'
  OBVIOUS
<1>1. /\ pc = "write" /\ pc' = pc /\ i' = i /\ file' = file /\ mapped' = mapped
      /\ dirty' \subseteq dirty /\ cached' \subseteq cached
      /\ num' = num /\ wraps' = wraps /\ pages' = pages /\ faults' = faults /\ disk' = disk
      /\ failures' = failures /\ mapped = {}
  BY DEF WriteBack, sampleVars, Inv, Untimely
<1>2. size' = size /\ FilePages' = FilePages
  BY <1>1 DEF size, FilePages
<1>3. TypeOK'
  BY <1>1, <1>2 DEF Inv, TypeOK
<1> QED
  BY <1>1, <1>2, <1>3
     DEF Inv, Counter, Written, Untimely, OwnPages, ColdAtFirst, FileFilled, TwoPagesOrNone,
         StaysInFile, FirstFromDisk

\* The loop over the chunks is over: the file is filled.
LEMMA DropCacheInv == Inv /\ DropCache => Inv'
<1> SUFFICES ASSUME Inv, DropCache PROVE Inv'
  OBVIOUS
<1>1. /\ pc = "write" /\ pc' = "map" /\ i' = i /\ i = NChunks /\ file' = file
      /\ cached' = cached \intersect dirty /\ dirty' = dirty /\ mapped' = mapped
      /\ num' = num /\ wraps' = wraps /\ pages' = pages /\ faults' = faults /\ disk' = disk
      /\ failures' = failures /\ pages = {} /\ mapped = {} /\ faults = 0 /\ disk = 0
  BY DEF DropCache, sampleVars, Inv, Untimely
<1>2. size' = size /\ FilePages' = FilePages
  BY <1>1 DEF size, FilePages
<1>3. TypeOK'
  BY <1>1, <1>2 DEF Inv, TypeOK
<1>4. FileFilled'
  <2>1. /\ size <= NChunks * Chunk + MaxExtra
        /\ failures = 0 => size >= NChunks * Chunk /\ \A k \in 1..NChunks * Chunk : file[k] = "A"
    BY <1>1 DEF Inv, Written
  <2>2. NChunks * Chunk \in Nat /\ size \in Nat
    BY Sizes, Chunks, Numbers
  <2> QED
    BY <1>1, <1>2, <2>1, <2>2, Sizes DEF FileFilled
<1> QED
  BY <1>1, <1>2, <1>3, <1>4
     DEF Inv, Counter, Written, Untimely, OwnPages, ColdAtFirst, TwoPagesOrNone, StaysInFile,
         FirstFromDisk

LEMMA MapInv == Inv /\ Map => Inv'
<1> SUFFICES ASSUME Inv, Map PROVE Inv'
  OBVIOUS
<1>1. /\ pc = "map" /\ pc' \in {"sample", "exited"} /\ i' = 0 /\ file' = file
      /\ cached' = cached /\ dirty' = dirty /\ mapped' = mapped
      /\ num' = num /\ wraps' = wraps /\ pages' = pages /\ faults' = faults /\ disk' = disk
      /\ pages = {} /\ mapped = {} /\ cached \subseteq dirty /\ faults = 0 /\ disk = 0
  BY DEF Map, fileVars, sampleVars, Inv, Untimely, ColdAtFirst
<1>2. /\ size' = size /\ FilePages' = FilePages
      /\ failures' \in 0..MaxFailures /\ (failures' = 0 => failures = 0)
  BY <1>1, Numbers, Sizes DEF Map, Fails, Inv, TypeOK, size, FilePages
<1>3. 0 \in 0..NChunks /\ 0 \in 0..NIterations
  BY Sizes
<1>4. TypeOK'
  BY <1>1, <1>2, <1>3 DEF Inv, TypeOK
<1>5. FileFilled'
  BY <1>1, <1>2 DEF Inv, FileFilled
<1> QED
  BY <1>1, <1>2, <1>3, <1>4, <1>5
     DEF Inv, Counter, Written, Untimely, OwnPages, ColdAtFirst, TwoPagesOrNone, StaysInFile,
         FirstFromDisk

\* A sample starts, or ends, with the pages of a complete file; its pages are those
\* of the positions from num to num + PageSize.
LEMMA StartSampleInv == Inv /\ StartSample => Inv'
<1> SUFFICES ASSUME Inv, StartSample PROVE Inv'
  OBVIOUS
<1>1. /\ pc = "sample" /\ pc' = "touch" /\ i' = i /\ i < NIterations /\ file' = file
      /\ cached' = cached /\ dirty' = dirty /\ mapped' = mapped /\ failures' = failures
      /\ pages' = {} /\ faults' = 0 /\ disk' = 0 /\ wraps' \in BOOLEAN
  BY DEF StartSample, fileVars
<1>2. size' = size /\ FilePages' = FilePages
  BY <1>1 DEF size, FilePages
<1>3. num' \in 0..RandMax
  <2>1. num' \in Draws /\ size \in Nat
    BY Numbers DEF StartSample
  <2> QED
    BY <2>1, Sizes DEF Draws
<1>4. 0 \in 0..Cardinality(pages') /\ i \in 0..NIterations - 1
  <2>1. Cardinality(pages') = 0
    BY <1>1, FS_EmptySet
  <2> QED
    BY <1>1, <2>1, Sizes DEF Inv, Counter
<1>5. TypeOK'
  BY <1>1, <1>2, <1>3, <1>4 DEF Inv, TypeOK
<1>6. FileFilled'
  BY <1>1, <1>2 DEF Inv, FileFilled
<1>7. ColdAtFirst'
  BY <1>1, <1>2 DEF Inv, ColdAtFirst
<1> QED
  BY <1>1, <1>2, <1>4, <1>5, <1>6, <1>7
     DEF Inv, Counter, Written, Untimely, OwnPages, TwoPagesOrNone, StaysInFile, FirstFromDisk

\* What Touch and TouchBeyond have in common: a page of the sample, not touched before.
LEMMA PageTouched ==
    ASSUME Inv, pc = "touch", NEW p \in Untouched, pages' = pages \union {p}
    PROVE  /\ p \in SamplePages /\ p \in Nat /\ PageSize * p <= num + PageSize
           /\ Cardinality(pages') = Cardinality(pages) + 1
           /\ pages' \subseteq PagesOf(RandMax + PageSize + 1)
<1>1. p \in SamplePages /\ p \notin pages
  BY DEF Untouched
<1>2. num \in Nat /\ num <= RandMax
  BY Sizes DEF Inv, TypeOK
<1>3. PICK q \in Nat : SamplePages = {q, q + 1} /\ PageSize * (q + 1) <= num + PageSize
  BY <1>2, TwoPages
<1>4. p \in Nat /\ PageSize * p <= num + PageSize
  <2>1. PageSize * (q + 1) = PageSize * q + PageSize /\ PageSize * q \in Nat
    BY Sizes, Factor
  <2>2. p = q \/ p = q + 1
    BY <1>1, <1>3
  <2>3. PageSize * q <= num + PageSize
    BY <1>2, <1>3, <2>1, Sizes
  <2> QED
    BY <1>3, <2>2, <2>3
<1>5. Cardinality(pages') = Cardinality(pages) + 1
  BY <1>1, Numbers, FS_AddElement
<1>6. p \in PagesOf(RandMax + PageSize + 1)
  <2>1. PageSize * p \in Nat
    BY <1>4, Sizes
  <2>2. RandMax + PageSize + 1 \in Nat /\ PageSize * p < RandMax + PageSize + 1
    BY <1>2, <1>4, <2>1, Sizes
  <2> QED
    BY <1>4, <2>2, PageOf
<1> QED
  BY <1>1, <1>4, <1>5, <1>6 DEF Inv, TypeOK

\* A page of the file: where it comes from decides what is counted.
LEMMA TouchInv == Inv /\ Touch => Inv'
<1> SUFFICES ASSUME Inv, Touch PROVE Inv'
  OBVIOUS
<1>1. /\ pc = "touch" /\ wraps = FALSE /\ pc' = pc /\ i' = i /\ file' = file /\ dirty' = dirty
      /\ num' = num /\ wraps' = wraps /\ failures' = failures
  BY DEF Touch, Inv, TypeOK
<1>2. /\ size' = size /\ FilePages' = FilePages /\ SamplePages' = SamplePages
  BY <1>1 DEF size, FilePages, SamplePages
<1>3. PICK p \in Untouched \intersect FilePages :
         /\ pages' = pages \union {p}
         /\ IF p \in mapped
            THEN UNCHANGED <<faults, disk, cached, mapped>>
            ELSE /\ faults' = faults + 1
                 /\ disk' = disk + IF p \in cached THEN 0 ELSE 1
                 /\ cached' \in {c \in SUBSET FilePages : p \in c}
                 /\ mapped' \in {m \in SUBSET cached' : p \in m}
  BY DEF Touch
<1>4. /\ p \in SamplePages /\ p \in FilePages
      /\ Cardinality(pages') = Cardinality(pages) + 1 /\ Cardinality(pages) \in Nat
      /\ pages' \subseteq PagesOf(RandMax + PageSize + 1)
  BY <1>1, <1>3, PageTouched, Numbers
<1>5. cached' \subseteq FilePages /\ mapped' \subseteq cached'
  BY <1>3 DEF Inv, TypeOK
<1>6. disk' \in 0..faults' /\ faults' \in 0..Cardinality(pages') /\ disk' >= disk
  <2>1. disk \in 0..faults /\ faults \in 0..Cardinality(pages)
    BY DEF Inv, TypeOK
  <2> QED
    BY <1>3, <1>4, <2>1
<1>7. TypeOK'
  BY <1>1, <1>2, <1>4, <1>5, <1>6 DEF Inv, TypeOK
<1>8. FileFilled'
  BY <1>1, <1>2 DEF Inv, FileFilled
<1>9. StaysInFile'
  BY <1>1, <1>2, <1>3, <1>4 DEF Inv, StaysInFile
<1>10. PICK q \in Nat : q = num \div PageSize /\ SamplePages = {q, q + 1}
  BY Numbers, TwoPages
<1>11. IF pages = {} THEN p = q ELSE q \in pages /\ p # q
  <2>1. CASE pages = {}
    <3>1. p <= q
      BY <1>3, <1>10, <2>1 DEF Untouched
    <3> QED
      BY <1>4, <1>10, <2>1, <3>1
  <2>2. CASE pages # {}
    BY <1>1, <1>3, <1>10, <2>2 DEF Inv, OwnPages, Untouched
  <2> QED
    BY <2>1, <2>2
<1>13. OwnPages'
  BY <1>1, <1>2, <1>3, <1>4, <1>10, <1>11 DEF Inv, OwnPages
<1>14. FirstFromDisk'
  <2>1. SUFFICES ASSUME i = 0, q \in pages' \intersect FilePages, q \notin dirty
                 PROVE  disk' > 0
    BY <1>1, <1>2, <1>10 DEF FirstFromDisk
  <2>2. disk \in Nat /\ disk' \in Int
    BY <1>3, Numbers
  <2>3. CASE pages = {}
    <3>1. p = q /\ p \notin cached /\ p \notin mapped
      BY <1>1, <1>11, <2>1, <2>3 DEF Inv, ColdAtFirst, TypeOK
    <3>2. disk' = disk + 1
      BY <1>3, <3>1
    <3> QED
      BY <2>2, <3>2
  <2>4. CASE pages # {}
    <3>1. disk > 0
      BY <1>1, <1>10, <1>11, <2>1, <2>4 DEF Inv, FirstFromDisk
    <3> QED
      BY <1>6, <2>2, <3>1
  <2> QED
    BY <2>3, <2>4
<1>12. Counter'
  BY <1>1 DEF Inv, Counter
<1> QED
  BY <1>1, <1>3, <1>7, <1>8, <1>9, <1>12, <1>13, <1>14
     DEF Inv, Written, Untimely, TwoPagesOrNone, ColdAtFirst

\* A page behind the file: there is none if the file is complete and larger than
\* the largest number and a page.
LEMMA TouchBeyondInv == Inv /\ TouchBeyond => Inv'
<1> SUFFICES ASSUME Inv, TouchBeyond PROVE Inv'
  OBVIOUS
<1>1. /\ pc = "touch" /\ wraps = FALSE /\ pc' \in {"touch", "crashed"} /\ i' = i /\ file' = file
      /\ cached' = cached /\ dirty' = dirty /\ mapped' = mapped
      /\ num' = num /\ wraps' = wraps /\ faults' = faults /\ disk' = disk
      /\ failures' = failures
  BY DEF TouchBeyond, fileVars, Inv, TypeOK
<1>2. /\ size' = size /\ FilePages' = FilePages /\ SamplePages' = SamplePages
  BY <1>1 DEF size, FilePages, SamplePages
<1>3. PICK p \in Untouched \ FilePages : pages' = pages \union {p}
  BY DEF TouchBeyond
<1>4. /\ p \in SamplePages /\ p \notin FilePages /\ p \in Nat /\ PageSize * p <= num + PageSize
      /\ Cardinality(pages') = Cardinality(pages) + 1 /\ Cardinality(pages) \in Nat
      /\ pages' \subseteq PagesOf(RandMax + PageSize + 1)
  BY <1>1, <1>3, PageTouched, Numbers
<1>5. disk' \in 0..faults' /\ faults' \in 0..Cardinality(pages')
  <2>1. disk \in 0..faults /\ faults \in 0..Cardinality(pages)
    BY DEF Inv, TypeOK
  <2> QED
    BY <1>1, <1>4, <2>1
<1>6. TypeOK'
  BY <1>1, <1>2, <1>4, <1>5 DEF Inv, TypeOK
<1>7. FileFilled'
  BY <1>1, <1>2 DEF Inv, FileFilled
<1>8. StaysInFile'
  <2>1. SUFFICES ASSUME failures = 0, NChunks * Chunk > RandMax + PageSize PROVE FALSE
    BY <1>1, <1>2 DEF StaysInFile
  <2>2. size >= NChunks * Chunk /\ size \in Nat /\ NChunks * Chunk \in Nat
    <3>1. NChunks * Chunk \in Nat /\ size \in Nat
      BY Sizes, Chunks, Numbers
    <3>2. size \in NChunks * Chunk..NChunks * Chunk + MaxExtra
      BY <1>1, <2>1 DEF Inv, FileFilled
    <3> QED
      BY <3>1, <3>2, Sizes
  <2>3. num \in 0..RandMax /\ PageSize * p \in Nat
    BY <1>4, Sizes DEF Inv, TypeOK
  <2>4. PageSize * p < size
    BY <1>4, <2>1, <2>2, <2>3, Sizes
  <2> QED
    BY <1>4, <2>2, <2>4, PageOf DEF FilePages
<1>9. PICK q \in Nat : q = num \div PageSize /\ SamplePages = {q, q + 1}
  BY Numbers, TwoPages
<1>10. OwnPages'
  <2>1. q \in pages'
    <3>1. CASE pages = {}
      <4>1. p <= q
        BY <1>3, <1>9, <3>1 DEF Untouched
      <4> QED
        BY <1>3, <1>4, <1>9, <4>1
    <3>2. CASE pages # {}
      BY <1>1, <1>3, <1>9, <3>2 DEF Inv, OwnPages
    <3> QED
      BY <3>1, <3>2
  <2> QED
    BY <1>1, <1>2, <1>3, <1>4, <1>9, <2>1 DEF Inv, OwnPages
<1>12. FirstFromDisk'
  BY <1>1, <1>2, <1>3, <1>4 DEF Inv, FirstFromDisk
<1>11. Counter'
  BY <1>1 DEF Inv, Counter
<1> QED
  BY <1>1, <1>3, <1>6, <1>7, <1>8, <1>10, <1>11, <1>12
     DEF Inv, Written, Untimely, TwoPagesOrNone, ColdAtFirst

\* The loop of a sample ends after its two pages, or before the first.
LEMMA EndSampleInv == Inv /\ EndSample => Inv'
<1> SUFFICES ASSUME Inv, EndSample PROVE Inv'
  OBVIOUS
<1>1. /\ pc = "touch" /\ pc' = "sample" /\ i' = i + 1 /\ i \in 0..NIterations - 1 /\ file' = file
      /\ cached' = cached /\ dirty' = dirty /\ mapped' = mapped
      /\ num' = num /\ wraps' = wraps /\ pages' = pages /\ faults' = faults /\ disk' = disk
      /\ failures' = failures
  BY DEF EndSample, fileVars, sampleVars, Inv, Counter
<1>2. /\ size' = size /\ FilePages' = FilePages
      /\ i' \in 0..NIterations /\ i' # 0
  BY <1>1, Sizes DEF size, FilePages
<1>3. Cardinality(pages) = IF wraps THEN 0 ELSE 2
  <2>1. CASE wraps
    <3>1. pages = {}
      BY <1>1, <2>1 DEF Inv, OwnPages
    <3> QED
      BY <2>1, <3>1, FS_EmptySet
  <2>2. CASE ~wraps /\ Untouched = {}
    <3>1. PICK q \in Nat : SamplePages = {q, q + 1}
      BY Numbers, TwoPages
    <3>2. pages \subseteq SamplePages
      BY <1>1 DEF Inv, OwnPages
    <3>3. q \in pages
      <4>1. SUFFICES ASSUME q \notin pages PROVE q \in Untouched
        BY <2>2
      <4>2. \A x \in SamplePages \ pages : q <= x
        BY <3>1
      <4> QED
        BY <3>1, <4>1, <4>2 DEF Untouched
    <3>4. q + 1 \in pages
      <4>1. SUFFICES ASSUME q + 1 \notin pages PROVE q + 1 \in Untouched
        BY <2>2
      <4>2. \A x \in SamplePages \ pages : q + 1 <= x
        BY <3>1, <3>3
      <4> QED
        BY <3>1, <4>1, <4>2 DEF Untouched
    <3>5. pages = q..q + 1
      <4>1. pages = {q, q + 1}
        BY <3>1, <3>2, <3>3, <3>4
      <4>2. \A x : x \in q..q + 1 <=> x = q \/ x = q + 1
        BY <3>1
      <4> QED
        BY <4>1, <4>2
    <3>6. Cardinality(q..q + 1) = 2
      BY <3>1, FS_Interval
    <3> QED
      BY <2>2, <3>5, <3>6
  <2> QED
    BY <2>1, <2>2 DEF EndSample
<1>4. TypeOK'
  BY <1>1, <1>2 DEF Inv, TypeOK
<1>5. FileFilled'
  BY <1>1, <1>2 DEF Inv, FileFilled
<1>6. StaysInFile'
  BY <1>1, <1>2 DEF Inv, StaysInFile
<1>7. TwoPagesOrNone'
  BY <1>1, <1>3 DEF TwoPagesOrNone
<1> QED
  BY <1>1, <1>2, <1>4, <1>5, <1>6, <1>7
     DEF Inv, Counter, Written, Untimely, OwnPages, ColdAtFirst,
         FirstFromDisk

LEMMA ReportInv == Inv /\ Report => Inv'
<1> SUFFICES ASSUME Inv, Report PROVE Inv'
  OBVIOUS
<1>1. /\ pc = "sample" /\ pc' \in {"done", "exited"} /\ i' = i /\ file' = file
      /\ cached' = cached /\ dirty' = dirty /\ mapped' = mapped
      /\ num' = num /\ wraps' = wraps /\ pages' = pages /\ faults' = faults /\ disk' = disk
  BY DEF Report, fileVars, sampleVars
<1>2. /\ size' = size /\ FilePages' = FilePages
      /\ failures' \in 0..MaxFailures /\ (failures' = 0 => failures = 0)
  BY <1>1, Numbers, Sizes DEF Report, Fails, Inv, TypeOK, size, FilePages
<1>3. TypeOK'
  BY <1>1, <1>2 DEF Inv, TypeOK
<1>4. FileFilled'
  BY <1>1, <1>2 DEF Inv, FileFilled
<1>5. StaysInFile'
  BY <1>1, <1>2 DEF Inv, StaysInFile
<1> QED
  BY <1>1, <1>3, <1>4, <1>5
     DEF Inv, Counter, Written, Untimely, OwnPages, ColdAtFirst, TwoPagesOrNone,
         FirstFromDisk

LEMMA StutterInv == Inv /\ UNCHANGED vars => Inv'
<1> SUFFICES ASSUME Inv, UNCHANGED vars PROVE Inv'
  OBVIOUS
<1>1. /\ pc' = pc /\ i' = i /\ file' = file
      /\ cached' = cached /\ dirty' = dirty /\ mapped' = mapped
      /\ num' = num /\ wraps' = wraps /\ pages' = pages /\ faults' = faults /\ disk' = disk
      /\ failures' = failures
  BY DEF vars
<1>2. /\ size' = size /\ FilePages' = FilePages /\ SamplePages' = SamplePages
  BY <1>1 DEF size, FilePages, SamplePages
<1> QED
  BY <1>1, <1>2
     DEF Inv, TypeOK, Counter, Written, Untimely, OwnPages, ColdAtFirst, FileFilled,
         TwoPagesOrNone, StaysInFile, FirstFromDisk

-----------------------------------------------------------------------------
(* The theorems. *)

\* Every state of the program satisfies the invariant, whatever the sizes of the
\* chunk, of the page and of the file.
THEOREM Invariance == Spec => []Inv
<1>1. Init => Inv
  BY InitInv
<1>2. Inv /\ [Next]_vars => Inv'
  BY CreateInv, WriteChunkInv, WriteBackInv, DropCacheInv, MapInv, StartSampleInv, TouchInv,
     TouchBeyondInv, EndSampleInv, ReportInv, StutterInv DEF Next, Terminated
<1> QED
  BY <1>1, <1>2, PTL DEF Spec

\* Type correctness: among others, never more faults than pages touched, nor
\* more reads from the disk than faults, and nothing is mapped that is not in the
\* page cache.
THEOREM TypeCorrect == Spec => []TypeOK
<1>1. Inv => TypeOK
  BY DEF Inv
<1> QED
  BY <1>1, Invariance, PTL

\* If no call failed, the file that is mapped holds the buffer from its first byte
\* to NChunks * Chunk, however much fprintf() wrote behind each chunk.
THEOREM FileComplete == Spec => []FileFilled
<1>1. Inv => FileFilled
  BY DEF Inv
<1> QED
  BY <1>1, Invariance, PTL

\* For every position and every size of page, a sample has touched exactly two pages
\* or, if the bound of its loop wrapped around, none.
THEOREM SamplesTwoPages == Spec => []TwoPagesOrNone
<1>1. Inv => TwoPagesOrNone
  BY DEF Inv
<1> QED
  BY <1>1, Invariance, PTL

\* No sample of a complete file larger than RAND_MAX and a page leaves the file.
THEOREM InsideTheFile == Spec => []StaysInFile
<1>1. Inv => StaysInFile
  BY DEF Inv
<1> QED
  BY <1>1, Invariance, PTL

\* The first page of the file that the program touches is read from the disk if it
\* was on the disk when the cache was dropped, whatever the kernel wrote back and took
\* away while the file was written, and whichever pages it read around a fault.
THEOREM FirstIsCold == Spec => []FirstFromDisk
<1>1. Inv => FirstFromDisk
  BY DEF Inv
<1> QED
  BY <1>1, Invariance, PTL

-----------------------------------------------------------------------------
(* Progress: every step of main() brings it nearer to its end. *)

SamplesLeft == 4 * (NIterations - i) + 1

Rank ==
    CASE pc = "create" -> NChunks + 4 * NIterations + 4
      [] pc = "write" -> (NChunks - i) + 4 * NIterations + 3
      [] pc = "map" -> 4 * NIterations + 2
      [] pc = "sample" -> SamplesLeft
      [] pc = "touch" -> SamplesLeft - 1 - Cardinality(pages)
      [] OTHER -> 0

Forward ==
    \/ Rank' < Rank
    \/ WriteBack /\ Rank' = Rank

\* A sample has two pages to touch.
LEMMA PagesLeft ==
    ASSUME Inv
    PROVE  /\ Cardinality(pages) \in Nat
           /\ pc = "touch" => Cardinality(pages) <= 2
<1>1. Cardinality(pages) \in Nat /\ num \in Nat
  BY Numbers
<1>2. ASSUME pc = "touch" PROVE Cardinality(pages) <= 2
  <2>1. PICK q \in Nat : SamplePages = {q, q + 1}
    BY <1>1, TwoPages
  <2>2. pages \subseteq {q, q + 1}
    BY <1>2, <2>1 DEF Inv, OwnPages
  <2>3. IsFiniteSet({q, q + 1}) /\ Cardinality({q, q + 1}) = 2
    <3>1. IsFiniteSet({q}) /\ Cardinality({q}) = 1
      BY FS_Singleton
    <3>2. {q, q + 1} = {q} \union {q + 1} /\ q + 1 \notin {q}
      BY <2>1
    <3> QED
      BY <3>1, <3>2, FS_AddElement
  <2> QED
    BY <2>2, <2>3, FS_Subset
<1> QED
  BY <1>1, <1>2

LEMMA RankType ==
    ASSUME Inv
    PROVE  /\ Rank \in Nat
           /\ pc \in {"create", "write", "map", "sample", "touch"} => Rank > 0
<1>1. /\ NChunks \in Nat /\ NIterations \in Nat /\ Cardinality(pages) \in Nat /\ i \in Nat
      /\ pc = "write" => i <= NChunks
      /\ pc = "sample" => i <= NIterations
      /\ pc = "touch" => i <= NIterations - 1 /\ Cardinality(pages) <= 2
  BY Sizes, Numbers, PagesLeft DEF Inv, Counter
<1>2. pc \in {"create", "write", "map", "sample", "touch", "done", "exited", "crashed"}
  BY DEF Inv, TypeOK
<1> QED
  BY <1>1, <1>2 DEF Rank, SamplesLeft

LEMMA StepIsForward ==
    ASSUME Inv, Inv', [Next]_vars
    PROVE  [Forward]_vars
<1>1. /\ NChunks \in Nat /\ NIterations \in Nat /\ Cardinality(pages) \in Nat /\ i \in Nat
  BY Sizes, PagesLeft, Numbers
<1>2. CASE pc \in {"create", "write", "map", "sample", "touch"}
           /\ pc' \in {"done", "exited", "crashed"}
  <2>1. Rank' = 0 /\ Rank > 0
    BY <1>2, RankType DEF Rank
  <2> QED
    BY <2>1 DEF Forward
<1>3. CASE Create
  <2>1. pc = "create" /\ pc' \in {"write", "crashed"} /\ i' = i /\ i = 0
    BY <1>3 DEF Create, Inv, Counter
  <2>2. CASE pc' = "write"
    <3>1. /\ Rank = NChunks + 4 * NIterations + 4
          /\ Rank' = (NChunks - 0) + 4 * NIterations + 3
      BY <2>1, <2>2 DEF Rank
    <3> QED
      BY <1>1, <3>1 DEF Forward
  <2> QED
    BY <1>2, <2>1, <2>2
<1>4. CASE WriteChunk
  <2>1. pc = "write" /\ pc' = "write" /\ i' = i + 1
    BY <1>4 DEF WriteChunk
  <2>2. /\ Rank = (NChunks - i) + 4 * NIterations + 3
        /\ Rank' = (NChunks - (i + 1)) + 4 * NIterations + 3
    BY <2>1 DEF Rank
  <2> QED
    BY <1>1, <2>2 DEF Forward
<1>5. CASE DropCache
  <2>1. pc = "write" /\ pc' = "map" /\ i = NChunks
    BY <1>5 DEF DropCache
  <2>2. /\ Rank = (NChunks - NChunks) + 4 * NIterations + 3
        /\ Rank' = 4 * NIterations + 2
    BY <2>1 DEF Rank
  <2> QED
    BY <1>1, <2>2 DEF Forward
<1>6. CASE Map
  <2>1. pc = "map" /\ pc' \in {"sample", "exited"} /\ i' = 0
    BY <1>6 DEF Map
  <2>2. CASE pc' = "sample"
    <3>1. Rank = 4 * NIterations + 2 /\ Rank' = 4 * (NIterations - 0) + 1
      BY <2>1, <2>2 DEF Rank, SamplesLeft
    <3> QED
      BY <1>1, <3>1 DEF Forward
  <2> QED
    BY <1>2, <2>1, <2>2
<1>7. CASE StartSample
  <2>1. pc = "sample" /\ pc' = "touch" /\ i' = i /\ pages' = {}
    BY <1>7 DEF StartSample
  <2>2. Cardinality(pages') = 0
    BY <2>1, FS_EmptySet
  <2>3. SamplesLeft' = SamplesLeft /\ SamplesLeft \in Int
    BY <1>1, <2>1 DEF SamplesLeft
  <2>4. Rank = SamplesLeft /\ Rank' = SamplesLeft - 1 - 0
    BY <2>1, <2>2, <2>3 DEF Rank
  <2> QED
    BY <2>3, <2>4 DEF Forward
<1>8. CASE Touch \/ TouchBeyond
  <2>1. /\ pc = "touch" /\ pc' \in {"touch", "crashed"} /\ i' = i
        /\ \E p \in Untouched : pages' = pages \union {p}
    BY <1>8 DEF Touch, TouchBeyond
  <2>2. Cardinality(pages') = Cardinality(pages) + 1
    BY <2>1, PageTouched
  <2>3. SamplesLeft' = SamplesLeft /\ SamplesLeft \in Int
    BY <1>1, <2>1 DEF SamplesLeft
  <2>4. CASE pc' = "touch"
    <3>1. /\ Rank = SamplesLeft - 1 - Cardinality(pages)
          /\ Rank' = SamplesLeft - 1 - (Cardinality(pages) + 1)
      BY <2>1, <2>2, <2>3, <2>4 DEF Rank
    <3> QED
      BY <1>1, <2>3, <3>1 DEF Forward
  <2> QED
    BY <1>2, <2>1, <2>4
<1>9. CASE EndSample
  <2>1. pc = "touch" /\ pc' = "sample" /\ i' = i + 1
    BY <1>9 DEF EndSample
  <2>2. Cardinality(pages) <= 2
    BY <2>1, PagesLeft
  <2>3. Rank = SamplesLeft - 1 - Cardinality(pages) /\ Rank' = SamplesLeft'
    BY <2>1 DEF Rank
  <2>4. /\ SamplesLeft = 4 * (NIterations - i) + 1
        /\ SamplesLeft' = 4 * (NIterations - (i + 1)) + 1
    BY <2>1 DEF SamplesLeft
  <2> QED
    BY <1>1, <2>2, <2>3, <2>4 DEF Forward
<1>10. CASE Report
  BY <1>2, <1>10 DEF Report
<1>11. CASE WriteBack
  <2>1. pc = "write" /\ pc' = "write" /\ i' = i
    BY <1>11 DEF WriteBack
  <2> QED
    BY <1>11, <2>1 DEF Forward, Rank
<1> QED
  BY <1>3, <1>4, <1>5, <1>6, <1>7, <1>8, <1>9, <1>10, <1>11 DEF Next, Terminated

\* Every step of main() brings it nearer to its end, whichever calls fail and wherever
\* a sample falls, and what the kernel writes back sets it nowhere back: main() takes at
\* most NChunks + 4 * NIterations + 4 steps.
THEOREM NoStepBack == Spec => [](Rank \in Nat) /\ [][Forward]_vars
<1>1. Inv /\ [Next]_vars => [Forward]_vars \/ ~Inv'
  BY StepIsForward
<1>2. Inv => Rank \in Nat
  BY RankType
<1> QED
  BY Invariance, <1>1, <1>2, PTL DEF Spec
=============================================================================
