--------------------------- MODULE ReadBlocksProofs ---------------------------
(***************************************************************************)
(* Proofs about ReadBlocks, for every size of file, block and page cache,  *)
(* every number of trials and every bound on failures: what a pass over    *)
(* the file has read, by what the sum of its times is divided, and which   *)
(* reads the page cache answers.                                           *)
(***************************************************************************)
EXTENDS ReadBlocks, FiniteSetTheorems, TLAPS

-----------------------------------------------------------------------------
(* Division. *)

LEMMA Division ==
    ASSUME NEW n \in Nat, NEW b \in Nat, b >= 1
    PROVE  /\ n \div b \in Nat /\ n % b \in Nat /\ n % b < b
           /\ n = b * (n \div b) + (n % b)
OBVIOUS

\* A product determines its factor.
LEMMA Factor ==
    ASSUME NEW b \in Nat, b >= 1, NEW k \in Nat, NEW m \in Nat
    PROVE  /\ b * k < b * m <=> k < m
           /\ b * (k + 1) = b * k + b
           /\ k <= b * k
OBVIOUS

LEMMA Quotients ==
    ASSUME NEW b \in Nat, b >= 1, NEW k \in Nat, NEW r \in Nat, r < b
    PROVE  (b * k + r) \div b = k
<1> DEFINE n == b * k + r
           q == n \div b
<1>1. n \in Nat /\ q \in Nat /\ n % b \in Nat /\ n % b < b /\ n = b * q + (n % b)
  BY Division
<1>2. ~(q < k)
  <2> SUFFICES ASSUME q + 1 <= k PROVE FALSE
    BY <1>1
  <2>1. b * (q + 1) <= b * k
    BY <1>1, Factor
  <2> QED
    BY <1>1, <2>1, Factor
<1>3. ~(k < q)
  <2> SUFFICES ASSUME k + 1 <= q PROVE FALSE
    BY <1>1
  <2>1. b * (k + 1) <= b * q
    BY <1>1, Factor
  <2> QED
    BY <1>1, <2>1, Factor
<1> QED
  BY <1>1, <1>2, <1>3

-----------------------------------------------------------------------------
(* The constants, and the blocks of a file. *)

M == 2^Width

LEMMA Sizes ==
    /\ M \in Nat /\ M >= 1 /\ MaxSize \in Nat /\ MaxSize <= M - 1
    /\ Block \in Nat /\ Block >= 1 /\ Capacity \in Nat /\ Capacity >= 1
    /\ Iterations \in Nat /\ Iterations >= 1 /\ MaxFailures \in Nat
<1>1. IsFiniteSet(1..Width) /\ Cardinality(1..Width) = Width
  BY WidthAssumption, FS_Interval
<1>2. M \in Nat
  BY <1>1, FS_SUBSET, FS_CardinalityType DEF M
<1>3. MaxSize \in 0..M - 1
  BY MaxSizeAssumption DEF M
<1> QED
  BY <1>2, <1>3, BlockAssumption, CapacityAssumption, IterationsAssumption, MaxFailuresAssumption

LEMMA WrapSmall ==
    /\ \A x \in 0..M - 1 : Wrap(x) = x
    /\ Wrap(0 - 1) = M - 1
    /\ Wrap(M) = 0
    /\ \A x \in Int : Wrap(x) \in 0..M - 1
<1>1. M \in Nat /\ M >= 1
  BY Sizes
<1>2. \A x : Wrap(x) = x % M
  BY DEF Wrap, M
<1>3. /\ \A x \in 0..M - 1 : x % M = x
      /\ (0 - 1) % M = M - 1
      /\ M % M = 0
      /\ \A x \in Int : x % M \in 0..M - 1
  BY <1>1
<1> QED
  BY <1>2, <1>3

\* The number of blocks of n bytes.
Blocks(n) == (n + Block - 1) \div Block

LEMMA BlocksOf ==
    ASSUME NEW n \in Nat, n >= 1
    PROVE  \E k \in Nat :
              /\ Blocks(n) = k + 1 /\ Block * k < n /\ n <= Block * k + Block
              /\ n \div Block - (IF n % Block = 0 THEN 1 ELSE 0) = k
<1> DEFINE q == n \div Block
           r == n % Block
<1>1. q \in Nat /\ r \in Nat /\ r < Block /\ n = Block * q + r
  BY Sizes, Division
<1>2. CASE r = 0
  <2>1. q >= 1
    BY <1>1, <1>2, Sizes
  <2>2. Block * q = Block * (q - 1) + Block
    <3>1. q - 1 \in Nat /\ (q - 1) + 1 = q
      BY <1>1, <2>1
    <3> QED
      BY <3>1, Sizes, Factor
  <2>3. n + Block - 1 = Block * q + (Block - 1)
    BY <1>1, <1>2, Sizes
  <2>4. Blocks(n) = q
    BY <1>1, <2>3, Quotients, Sizes DEF Blocks
  <2> QED
    BY <1>1, <1>2, <2>1, <2>2, <2>4, Sizes
<1>3. CASE r # 0
  <2>1. Block * (q + 1) = Block * q + Block
    BY <1>1, Sizes, Factor
  <2>2. n + Block - 1 = Block * (q + 1) + (r - 1) /\ r - 1 \in Nat /\ r - 1 < Block
    BY <1>1, <1>3, <2>1, Sizes
  <2>3. Blocks(n) = q + 1
    BY <1>1, <2>2, Quotients, Sizes DEF Blocks
  <2> QED
    BY <1>1, <1>3, <2>3, Sizes
<1> QED
  BY <1>2, <1>3

\* LastBlock() is the index of the last block, and all ones for an empty file.
LEMMA LastBlockIs ==
    ASSUME NEW n \in 0..MaxSize
    PROVE  /\ LastBlock(n) \in 0..M - 1
           /\ n = 0 => LastBlock(n) = M - 1
           /\ n > 0 => /\ LastBlock(n) + 1 = Blocks(n) /\ LastBlock(n) + 1 <= n
                       /\ Block * LastBlock(n) < n /\ n <= Block * LastBlock(n) + Block
<1>1. CASE n = 0
  <2>1. 0 \div Block = 0 /\ 0 % Block = 0
    BY Sizes
  <2>2. LastBlock(0) = Wrap(0 - 1)
    BY <2>1 DEF LastBlock
  <2> QED
    BY <1>1, <2>2, WrapSmall, Sizes
<1>2. CASE n > 0
  <2>1. n \in Nat /\ n >= 1 /\ n <= M - 1
    BY <1>2, Sizes
  <2>2. PICK k \in Nat : /\ Blocks(n) = k + 1 /\ Block * k < n /\ n <= Block * k + Block
                         /\ n \div Block - (IF n % Block = 0 THEN 1 ELSE 0) = k
    BY <2>1, BlocksOf
  <2>3. k <= Block * k /\ Block * k \in Nat
    BY Sizes, Factor
  <2>4. k \in 0..M - 1 /\ k + 1 <= n
    BY <2>1, <2>2, <2>3, Sizes
  <2>5. LastBlock(n) = Wrap(k)
    BY <2>2 DEF LastBlock
  <2> QED
    BY <1>2, <2>2, <2>4, <2>5, WrapSmall, Sizes
<1> QED
  BY <1>1, <1>2

LEMMA NoBlocks == Blocks(0) = 0
<1>1. (Block - 1) \div Block = 0
  BY Sizes
<1> QED
  BY <1>1, Sizes DEF Blocks

-----------------------------------------------------------------------------
(* The invariant. *)

Bounds ==
    /\ program \in Programs
    /\ pc \in {"open", "start", "read", "broken", "done", "crashed"}
    /\ size \in 0..MaxSize
    /\ trial \in 1..Iterations + 1 /\ (pc # "done" => trial <= Iterations)
    /\ pass \in {"seq", "rand"} /\ (~Random => pass = "seq")
    /\ opened \in BOOLEAN /\ pos \in Nat
    /\ buffer \in 0..MaxSize /\ nBlocks \in 0..M - 1 /\ i \in 0..MaxSize
    /\ got \in 0..Block /\ (pc = "read" /\ timed > 0 => got <= buffer)
    /\ result \in [timed : Nat, divisor : Nat]
    /\ failures \in 0..MaxFailures

InFile == seen \subseteq FileBlocks /\ cache \subseteq FileBlocks /\ Cardinality(cache) <= Capacity

Counts ==
    /\ timed \in Nat /\ warm \in 0..timed
    /\ IF program = "huge" THEN timed <= 1 /\ i = 0 ELSE timed = i

\* A pass knows how many blocks there are, if there is a file.
PassKnows == pc \in {"read", "broken"} =>
    /\ program # "huge"
    /\ opened => nBlocks = LastBlock(size) /\ buffer = size
    /\ ~opened => i = 0
    /\ i <= nBlocks + 1
    /\ i > 0 => size > 0

\* The sequential pass is at the start of a block, or at the end of the file.
InSequence == pass = "seq" =>
    /\ pc = "start" => pos = 0
    /\ pc = "read" => seen = 0..i - 1
    /\ pc = "read" /\ opened => pos = IF size > 0 /\ i <= nBlocks THEN Block * i ELSE size

\* Without a failure there is a file, and only an empty one ends a pass early.
Unfailed == failures = 0 =>
    /\ pc # "open" => opened
    /\ pc = "broken" => size = 0

FlushedFirst == Flushes =>
    /\ pc = "read" /\ timed = 0 => cache = {}
    /\ timed > 0 => warm < timed

Fit == failures = 0 /\ Cardinality(FileBlocks) <= Capacity

\* The cache drops nothing as long as the file fits.
Kept == program = "file_cache_size" /\ Fit =>
    /\ seen \subseteq cache
    /\ trial > 1 => cache = FileBlocks
    /\ trial > 1 /\ pc = "read" => warm = timed

\* Every trial with a huge file leaves the first block in the cache.
FirstKept == program = "huge" /\ failures = 0 =>
    /\ size = 0 => timed = 0
    /\ size > 0 /\ trial > 1 => 0 \in cache
    /\ trial > 2 => warm = timed

ReadInv ==
    /\ Bounds /\ InFile /\ Counts /\ PassKnows /\ InSequence /\ Unfailed
    /\ FlushedFirst /\ Kept /\ FirstKept
    /\ CrashesWithoutData /\ AveragePerBlockUnlessFailed

-----------------------------------------------------------------------------
LEMMA FileBlocksAre ==
    ASSUME size \in 0..MaxSize
    PROVE  /\ IsFiniteSet(FileBlocks)
           /\ size = 0 => FileBlocks = {}
           /\ size > 0 => /\ FileBlocks = 0..LastBlock(size)
                          /\ Cardinality(FileBlocks) = LastBlock(size) + 1
<1>1. FileBlocks = 0..Blocks(size) - 1
  BY DEF FileBlocks, Blocks
<1>2. CASE size = 0
  <2>1. FileBlocks = {}
    BY <1>1, <1>2, NoBlocks
  <2> QED
    BY <1>2, <2>1, FS_EmptySet
<1>3. CASE size > 0
  <2>1. LastBlock(size) \in Nat /\ LastBlock(size) + 1 = Blocks(size)
    BY <1>3, LastBlockIs, Sizes
  <2>2. FileBlocks = 0..LastBlock(size)
    BY <1>1, <2>1
  <2> QED
    BY <1>3, <2>1, <2>2, FS_Interval
<1> QED
  BY <1>2, <1>3, Sizes

LEMMA SameBlocks == size' = size => FileBlocks' = FileBlocks
BY DEF FileBlocks

LEMMA CacheHolds ==
    ASSUME ReadInv, NEW b, NEW c \in CacheWith(b), b \in FileBlocks
    PROVE  /\ c \subseteq FileBlocks /\ Cardinality(c) <= Capacity /\ b \in c
           /\ Cardinality(FileBlocks) <= Capacity => cache \subseteq c
<1>1. /\ c \subseteq FileBlocks /\ Cardinality(c) <= Capacity /\ b \in c
      /\ Cardinality(cache \union {b}) <= Capacity => cache \subseteq c
  BY DEF CacheWith
<1>2. cache \union {b} \in SUBSET FileBlocks /\ IsFiniteSet(FileBlocks)
  BY FileBlocksAre DEF ReadInv, Bounds, InFile
<1>3. /\ Cardinality(cache \union {b}) <= Cardinality(FileBlocks)
      /\ Cardinality(cache \union {b}) \in Nat /\ Cardinality(FileBlocks) \in Nat
  BY <1>2, FS_Subset, FS_CardinalityType
<1> QED
  BY <1>1, <1>3, Sizes

LEMMA Numbers ==
    ASSUME ReadInv
    PROVE  /\ size \in Nat /\ size <= MaxSize /\ trial \in Nat /\ trial >= 1
           /\ trial <= Iterations + 1 /\ (pc # "done" => trial <= Iterations)
           /\ pos \in Nat /\ buffer \in Nat /\ nBlocks \in Nat /\ nBlocks <= M - 1
           /\ i \in Nat /\ i <= MaxSize /\ timed \in Nat /\ warm \in Nat /\ warm <= timed
           /\ failures \in Nat /\ failures <= MaxFailures /\ got \in Nat /\ got <= Block
BY Sizes DEF ReadInv, Bounds, Counts

LEMMA InitInv == Init => ReadInv
<1> SUFFICES ASSUME Init PROVE ReadInv
  OBVIOUS
<1>1. /\ program \in Programs /\ pc = "open" /\ size \in 0..MaxSize /\ trial = 1 /\ pass = "seq"
      /\ opened = FALSE /\ pos = 0 /\ buffer = 0 /\ nBlocks = 0 /\ i = 0 /\ seen = {}
      /\ timed = 0 /\ warm = 0 /\ got = 0 /\ cache \subseteq FileBlocks
      /\ Cardinality(cache) <= Capacity /\ result = NoResult /\ failures = 0
  BY DEF Init
<1>2. NoResult \in [timed : Nat, divisor : Nat] /\ NoResult.divisor = NoResult.timed
  BY DEF NoResult
<1>3. Bounds /\ Counts
  <2>1. /\ 1 \in 1..Iterations + 1 /\ 1 <= Iterations /\ 0 \in 0..MaxSize /\ 0 \in 0..M - 1
        /\ 0 \in 0..Block /\ 0 \in 0..MaxFailures /\ 0 \in 0..0 /\ 0 \in Nat
    BY Sizes
  <2>2. Counts
    BY <1>1 DEF Counts
  <2>3. Bounds
    BY <1>1, <1>2, <2>1 DEF Bounds
  <2> QED
    BY <2>2, <2>3
<1>4. InFile /\ PassKnows /\ InSequence /\ Unfailed /\ FlushedFirst /\ Kept /\ FirstKept
  BY <1>1 DEF InFile, PassKnows, InSequence, Unfailed, FlushedFirst, Kept, FirstKept
<1>5. CrashesWithoutData /\ AveragePerBlockUnlessFailed
  BY <1>1, <1>2 DEF CrashesWithoutData, AveragePerBlockUnlessFailed
<1> QED
  BY <1>3, <1>4, <1>5 DEF ReadInv

-----------------------------------------------------------------------------
(* The steps. *)

LEMMA OpenInv == ReadInv /\ Open => ReadInv'
<1> SUFFICES ASSUME ReadInv, Open PROVE ReadInv'
  OBVIOUS
<1>1. /\ pc = "open" /\ pos' = 0 /\ pass' = "seq" /\ pc' = "start"
      /\ \/ opened' = TRUE /\ failures' = failures
         \/ opened' = FALSE /\ failures < MaxFailures /\ failures' = failures + 1
      /\ program' = program /\ size' = size /\ trial' = trial /\ buffer' = buffer
      /\ nBlocks' = nBlocks /\ i' = i /\ seen' = seen /\ timed' = timed /\ warm' = warm
      /\ got' = got /\ cache' = cache /\ result' = result
  BY DEF Open, passVars
<1>2. FileBlocks' = FileBlocks
  BY <1>1, SameBlocks
<1>3. failures' \in 0..MaxFailures /\ (failures' = 0 => failures = 0 /\ opened' = TRUE)
  BY <1>1, Numbers, Sizes
<1>4. Bounds'
  BY <1>1, <1>3 DEF ReadInv, Bounds, Random
<1>5. InFile' /\ Counts' /\ PassKnows' /\ InSequence' /\ CrashesWithoutData'
  BY <1>1, <1>2 DEF ReadInv, InFile, Counts, PassKnows, InSequence, CrashesWithoutData
<1>6. Unfailed' /\ FlushedFirst' /\ FirstKept'
  BY <1>1, <1>3 DEF ReadInv, Unfailed, FlushedFirst, Flushes, FirstKept
<1>7. Kept'
  BY <1>1, <1>2, <1>3 DEF ReadInv, Kept, Fit
<1>8. AveragePerBlockUnlessFailed'
  BY <1>1, <1>3 DEF ReadInv, AveragePerBlockUnlessFailed
<1> QED
  BY <1>4, <1>5, <1>6, <1>7, <1>8 DEF ReadInv

LEMMA StartInv == ReadInv /\ Start => ReadInv'
<1> SUFFICES ASSUME ReadInv, Start PROVE ReadInv'
  OBVIOUS
<1>1. /\ pc = "start" /\ program # "huge" /\ program' = program /\ size' = size
      /\ trial' = trial /\ pass' = pass /\ opened' = opened /\ pos' = pos /\ got' = got
      /\ result' = result /\ failures' = failures
  BY DEF Start
<1>2. FileBlocks' = FileBlocks
  BY <1>1, SameBlocks
<1>3. CASE /\ \E bytes \in IF opened THEN {size} ELSE 0..MaxSize :
                 nBlocks' = LastBlock(bytes) /\ buffer' = bytes
           /\ i' = 0 /\ seen' = {} /\ timed' = 0 /\ warm' = 0
           /\ cache' = CacheAtStart /\ pc' = "read"
  <2>1. PICK bytes \in 0..MaxSize : /\ nBlocks' = LastBlock(bytes) /\ buffer' = bytes
                                    /\ opened => bytes = size
    BY <1>3 DEF ReadInv, Bounds
  <2>2. nBlocks' \in 0..M - 1 /\ nBlocks' \in Nat
    BY <2>1, LastBlockIs, Sizes
  <2>3. /\ cache' \subseteq FileBlocks /\ Cardinality(cache') <= Capacity
        /\ (Flushes => cache' = {}) /\ (~Flushes => cache' = cache)
    BY <1>3, FS_EmptySet, Sizes DEF CacheAtStart, ReadInv, InFile
  <2>4. Bounds'
    BY <1>1, <1>3, <2>1, <2>2, Sizes DEF ReadInv, Bounds, Random
  <2>5. InFile' /\ Counts'
    BY <1>1, <1>2, <1>3, <2>3 DEF InFile, Counts
  <2>6. PassKnows'
    BY <1>1, <1>3, <2>1, <2>2 DEF PassKnows, LastBlock, Wrap
  <2>7. InSequence'
    <3>1. pass = "seq" => pos = 0
      BY <1>1 DEF ReadInv, InSequence
    <3>2. Block * 0 = 0 /\ 0..0 - 1 = {} /\ (~(size > 0) => size = 0)
      BY Sizes, Numbers
    <3>3. pos' = 0 => pos' = IF size' > 0 /\ i' <= nBlocks' THEN Block * i' ELSE size'
      BY <1>1, <1>3, <2>2, <3>2
    <3> QED
      BY <1>1, <1>3, <3>1, <3>2, <3>3 DEF InSequence
  <2>8. Unfailed' /\ FlushedFirst'
    BY <1>1, <1>3, <2>3 DEF ReadInv, Unfailed, FlushedFirst, Flushes
  <2>9. Kept'
    BY <1>1, <1>2, <1>3, <2>3 DEF ReadInv, Kept, Fit, Flushes
  <2>10. FirstKept' /\ CrashesWithoutData' /\ AveragePerBlockUnlessFailed'
    BY <1>1, <1>3 DEF ReadInv, FirstKept, CrashesWithoutData, AveragePerBlockUnlessFailed
  <2> QED
    BY <2>4, <2>5, <2>6, <2>7, <2>8, <2>9, <2>10 DEF ReadInv
<1>4. CASE ~opened /\ pc' = "crashed" /\ UNCHANGED <<passVars, cache>>
  <2>1. /\ buffer' = buffer /\ nBlocks' = nBlocks /\ i' = i /\ seen' = seen /\ timed' = timed
        /\ warm' = warm /\ cache' = cache /\ pc' = "crashed" /\ ~opened
    BY <1>4 DEF passVars
  <2>2. Bounds' /\ InFile' /\ Counts'
    BY <1>1, <1>2, <2>1 DEF ReadInv, Bounds, InFile, Counts, Random
  <2>3. PassKnows' /\ InSequence' /\ Unfailed' /\ FlushedFirst'
    BY <1>1, <2>1 DEF ReadInv, PassKnows, InSequence, Unfailed, FlushedFirst, Flushes
  <2>4. Kept' /\ FirstKept'
    BY <1>1, <1>2, <2>1 DEF ReadInv, Kept, Fit, FirstKept
  <2>5. CrashesWithoutData' /\ AveragePerBlockUnlessFailed'
    BY <1>1, <2>1 DEF ReadInv, CrashesWithoutData, AveragePerBlockUnlessFailed
  <2> QED
    BY <2>2, <2>3, <2>4, <2>5 DEF ReadInv
<1> QED
  BY <1>3, <1>4 DEF Start

\* A read() starts at a block of the file, in the sequential pass at the next one.
LEMMA OffsetsAre ==
    ASSUME ReadInv
    PROVE  /\ Offsets \subseteq Nat
           /\ pc = "read" /\ i <= nBlocks /\ opened /\ size > 0 =>
                 \A from \in Offsets : \E k \in Nat :
                     from = Block * k /\ k <= nBlocks /\ (pass = "seq" => k = i)
<1>1. CASE pass = "seq"
  <2>1. Offsets = {pos}
    BY <1>1 DEF Offsets
  <2>2. pc = "read" /\ i <= nBlocks /\ opened /\ size > 0 => pos = Block * i
    BY <1>1 DEF ReadInv, InSequence
  <2> QED
    BY <2>1, <2>2, Numbers
<1>2. CASE pass = "rand" /\ nBlocks = 0
  <2>1. Offsets = {0}
    BY <1>2 DEF Offsets
  <2>2. 0 = Block * 0
    BY Sizes
  <2> QED
    BY <1>2, <2>1, <2>2
<1>3. CASE pass = "rand" /\ nBlocks # 0
  <2> DEFINE top == IF nBlocks <= MaxSize THEN nBlocks ELSE MaxSize
  <2>1. Offsets = {k * Block : k \in 0..top - 1}
    BY <1>3 DEF Offsets
  <2>2. top \in Nat /\ top <= nBlocks
    BY Numbers, Sizes
  <2> HIDE DEF top
  <2>3. ASSUME NEW from \in Offsets
        PROVE  from \in Nat /\ \E k \in Nat : from = Block * k /\ k <= nBlocks
    <3>1. PICK k \in 0..top - 1 : from = k * Block
      BY <2>1
    <3>2. k \in Nat /\ k <= nBlocks
      BY <2>2, Numbers
    <3>3. from = Block * k /\ from \in Nat
      BY <3>1, <3>2, Sizes
    <3> QED
      BY <3>2, <3>3
  <2> QED
    BY <1>3, <2>3
<1> QED
  BY <1>1, <1>2, <1>3 DEF ReadInv, Bounds

\* What a read() that returns data does: it reads one block of the file, and in
\* the sequential pass the one that comes next.
LEMMA ReadsABlock ==
    ASSUME ReadInv, ReadBlock
    PROVE  \E b \in FileBlocks :
              /\ seen' = seen \union {b}
              /\ warm' = (IF b \in cache THEN warm + 1 ELSE warm)
              /\ cache' \in CacheWith(b)
              /\ size > 0 /\ got' \in 0..Block /\ got' <= size /\ pos' \in Nat
              /\ pass = "seq" =>
                    /\ b = i
                    /\ pos' = IF i + 1 <= nBlocks THEN Block * (i + 1) ELSE size
<1>1. PICK from \in Offsets :
         /\ from < size
         /\ got' = (IF size - from < Block THEN size - from ELSE Block)
         /\ pos' = from + got'
         /\ seen' = seen \union {from \div Block}
         /\ warm' = (IF from \div Block \in cache THEN warm + 1 ELSE warm)
         /\ cache' \in CacheWith(from \div Block)
  BY DEF ReadBlock
<1>2. pc = "read" /\ i <= nBlocks /\ opened
  BY DEF ReadBlock
<1>3. nBlocks = LastBlock(size)
  BY <1>2 DEF ReadInv, PassKnows
<1>4. from \in Nat /\ size \in Nat /\ size > 0
  BY <1>1, OffsetsAre, Numbers
<1>5. PICK k \in Nat : from = Block * k /\ k <= nBlocks /\ (pass = "seq" => k = i)
  BY <1>2, <1>4, OffsetsAre
<1>6. from \div Block = k
  <2>1. (Block * k + 0) \div Block = k /\ Block * k + 0 = Block * k
    BY Sizes, Quotients, <1>4, <1>5
  <2> QED
    BY <1>5, <2>1
<1>7. /\ size \in 0..MaxSize
      /\ Block * nBlocks < size /\ size <= Block * nBlocks + Block
  BY <1>3, <1>4, LastBlockIs DEF ReadInv, Bounds
<1>8. k \in FileBlocks
  BY <1>3, <1>5, <1>4, <1>7, FileBlocksAre, Numbers
<1>9. got' \in 0..Block /\ got' <= size /\ pos' \in Nat
  BY <1>1, <1>4, Sizes
<1>10. ASSUME pass = "seq"
       PROVE  pos' = IF i + 1 <= nBlocks THEN Block * (i + 1) ELSE size
  <2>1. k = i /\ i \in Nat /\ nBlocks \in Nat /\ Block * (i + 1) = Block * i + Block
    BY <1>5, <1>10, Numbers, Sizes, Factor
  <2>2. CASE i + 1 <= nBlocks
    <3>1. Block * (i + 1) <= Block * nBlocks
      BY <2>1, <2>2, Factor, Sizes
    <3> QED
      BY <1>1, <1>5, <1>4, <1>7, <2>1, <2>2, <3>1, Sizes
  <2>3. CASE ~(i + 1 <= nBlocks)
    <3>1. i = nBlocks
      BY <1>2, <2>1, <2>3
    <3> QED
      BY <1>1, <1>5, <1>4, <1>7, <2>1, <2>3, <3>1, Sizes
  <2> QED
    BY <2>2, <2>3
<1> QED
  BY <1>1, <1>5, <1>4, <1>6, <1>8, <1>9, <1>10

LEMMA ReadBlockInv == ReadInv /\ ReadBlock => ReadInv'
<1> SUFFICES ASSUME ReadInv, ReadBlock PROVE ReadInv'
  OBVIOUS
<1>1. /\ pc = "read" /\ i <= nBlocks /\ opened /\ timed' = timed + 1 /\ i' = i + 1
      /\ program' = program /\ pc' = pc /\ size' = size /\ trial' = trial /\ pass' = pass
      /\ opened' = opened /\ buffer' = buffer /\ nBlocks' = nBlocks /\ result' = result
      /\ failures' = failures
  BY DEF ReadBlock
<1>2. PICK b \in FileBlocks :
         /\ seen' = seen \union {b}
         /\ warm' = (IF b \in cache THEN warm + 1 ELSE warm)
         /\ cache' \in CacheWith(b)
         /\ size > 0 /\ got' \in 0..Block /\ got' <= size /\ pos' \in Nat
         /\ pass = "seq" =>
               /\ b = i
               /\ pos' = IF i + 1 <= nBlocks THEN Block * (i + 1) ELSE size
  BY ReadsABlock
<1>3. FileBlocks' = FileBlocks
  BY <1>1, SameBlocks
<1>4. /\ cache' \subseteq FileBlocks /\ Cardinality(cache') <= Capacity /\ b \in cache'
      /\ Cardinality(FileBlocks) <= Capacity => cache \subseteq cache'
  BY <1>2, CacheHolds
<1>5. program # "huge" /\ nBlocks = LastBlock(size) /\ buffer = size /\ timed = i
  BY <1>1 DEF ReadInv, PassKnows, Counts
<1>6. nBlocks + 1 <= size /\ i + 1 <= MaxSize /\ i + 1 <= nBlocks + 1
  <2>1. size \in 0..MaxSize
    BY DEF ReadInv, Bounds
  <2> QED
    BY <1>1, <1>2, <1>5, <2>1, LastBlockIs, Numbers, Sizes
<1>7. warm' \in 0..timed'
  BY <1>1, <1>2, Numbers
<1>8. Bounds'
  <2>1. i' \in 0..MaxSize
    BY <1>1, <1>6, Numbers, Sizes
  <2> QED
    BY <1>1, <1>2, <1>5, <2>1 DEF ReadInv, Bounds, Random
<1>9. InFile' /\ Counts'
  BY <1>1, <1>2, <1>3, <1>4, <1>5, <1>7, Numbers DEF ReadInv, InFile, Counts
<1>10. PassKnows' /\ Unfailed'
  BY <1>1, <1>2, <1>5, <1>6 DEF ReadInv, PassKnows, Unfailed, LastBlock, Wrap
<1>11. InSequence'
  <2>1. ASSUME pass = "seq"
        PROVE  /\ seen' = 0..i' - 1
               /\ pos' = IF size' > 0 /\ i' <= nBlocks' THEN Block * i' ELSE size'
    <3>1. seen = 0..i - 1 /\ b = i
      BY <1>1, <1>2, <2>1 DEF ReadInv, InSequence
    <3>2. seen' = 0..i
      BY <1>2, <3>1, Numbers
    <3>3. i' - 1 = i
      BY <1>1, Numbers
    <3> QED
      BY <1>1, <1>2, <2>1, <3>2, <3>3
  <2> QED
    BY <1>1, <2>1 DEF InSequence
<1>12. FlushedFirst'
  <2>1. ASSUME Flushes PROVE warm' < timed'
    <3>1. CASE timed = 0
      <4>1. b \notin cache /\ warm = 0
        BY <1>1, <2>1, <3>1, Numbers DEF ReadInv, FlushedFirst
      <4> QED
        BY <1>1, <1>2, <3>1, <4>1
    <3>2. CASE timed > 0
      <4>1. warm < timed
        BY <2>1, <3>2 DEF ReadInv, FlushedFirst
      <4> QED
        BY <1>1, <1>2, <4>1, Numbers
    <3> QED
      BY <3>1, <3>2, Numbers
  <2>2. timed' > 0
    BY <1>1, Numbers
  <2> QED
    BY <1>1, <2>1, <2>2 DEF FlushedFirst, Flushes
<1>13. Kept'
  <2> SUFFICES ASSUME program = "file_cache_size", Fit
               PROVE  /\ seen' \subseteq cache'
                      /\ trial > 1 => cache' = FileBlocks /\ warm' = timed'
    BY <1>1, <1>3 DEF Kept, Fit
  <2>1. /\ seen \subseteq cache /\ cache \subseteq cache'
        /\ trial > 1 => cache = FileBlocks /\ warm = timed
    BY <1>1, <1>4 DEF ReadInv, Kept, Fit
  <2> QED
    BY <1>1, <1>2, <1>4, <2>1
<1>14. FirstKept' /\ CrashesWithoutData' /\ AveragePerBlockUnlessFailed'
  BY <1>1, <1>5 DEF ReadInv, FirstKept, CrashesWithoutData, AveragePerBlockUnlessFailed
<1> QED
  BY <1>8, <1>9, <1>10, <1>11, <1>12, <1>13, <1>14 DEF ReadInv

LEMMA ReadNothingInv == ReadInv /\ ReadNothing => ReadInv'
<1> SUFFICES ASSUME ReadInv, ReadNothing PROVE ReadInv'
  OBVIOUS
<1>1. /\ pc = "read" /\ i <= nBlocks /\ got' = 0 /\ pc' = "broken"
      /\ \/ ~opened /\ pos' = pos /\ failures' = failures
         \/ opened /\ failures' = failures /\ (\E from \in Offsets : from >= size /\ pos' = from)
         \/ opened /\ failures < MaxFailures /\ failures' = failures + 1 /\ pos' \in Offsets
      /\ program' = program /\ size' = size /\ trial' = trial /\ pass' = pass
      /\ opened' = opened /\ buffer' = buffer /\ nBlocks' = nBlocks /\ i' = i /\ seen' = seen
      /\ timed' = timed /\ warm' = warm /\ cache' = cache /\ result' = result
  BY DEF ReadNothing, passVars
<1>2. FileBlocks' = FileBlocks
  BY <1>1, SameBlocks
<1>3. failures' \in 0..MaxFailures /\ (failures' = 0 => failures = 0)
  BY <1>1, Numbers, Sizes
<1>4. pos' \in Nat /\ 0 \in 0..Block
  BY <1>1, OffsetsAre, Numbers, Sizes
<1>5. Bounds'
  BY <1>1, <1>3, <1>4 DEF ReadInv, Bounds, Random
<1>6. InFile' /\ Counts' /\ PassKnows' /\ InSequence' /\ FlushedFirst'
  BY <1>1, <1>2 DEF ReadInv, InFile, Counts, PassKnows, InSequence, FlushedFirst, Flushes
<1>7. ASSUME failures' = 0 PROVE size = 0
  <2>1. opened /\ nBlocks = LastBlock(size)
    BY <1>1, <1>3, <1>7 DEF ReadInv, Unfailed, PassKnows
  <2>2. PICK from \in Offsets : from >= size
    BY <1>1, <1>7, <2>1, Numbers
  <2> SUFFICES ASSUME size > 0 PROVE FALSE
    BY Numbers
  <2>3. Block * nBlocks < size /\ nBlocks \in Nat
    <3>1. size \in 0..MaxSize
      BY DEF ReadInv, Bounds
    <3> QED
      BY <2>1, <3>1, LastBlockIs, Numbers
  <2>4. PICK k \in Nat : from = Block * k /\ k <= nBlocks
    BY <1>1, <2>1, <2>2, OffsetsAre
  <2>5. Block * k <= Block * nBlocks
    BY <2>3, <2>4, Factor, Sizes
  <2> QED
    BY <2>2, <2>3, <2>4, <2>5, Numbers, Sizes
<1>8. Unfailed'
  BY <1>1, <1>3, <1>7 DEF ReadInv, Unfailed
<1>9. Kept'
  BY <1>1, <1>2, <1>3 DEF ReadInv, Kept, Fit
<1>10. FirstKept' /\ CrashesWithoutData' /\ AveragePerBlockUnlessFailed'
  BY <1>1, <1>3 DEF ReadInv, FirstKept, CrashesWithoutData, AveragePerBlockUnlessFailed
<1> QED
  BY <1>5, <1>6, <1>8, <1>9, <1>10 DEF ReadInv

\* The divisor is 0 for an empty file only, if there is one; otherwise it is the
\* number of blocks.
LEMMA DivisorIs ==
    ASSUME ReadInv, pc \in {"read", "broken"}
    PROVE  /\ Divisor \in Nat
           /\ Divisor # 0 => Divisor = nBlocks + 1
           /\ opened => (Divisor = 0 <=> size = 0)
<1>1. Divisor = Wrap(nBlocks + 1)
  BY DEF Divisor
<1>2. CASE nBlocks = M - 1
  <2>1. Divisor = 0
    BY <1>1, <1>2, WrapSmall, Sizes
  <2>2. opened => size = 0
    <3>1. opened => nBlocks = LastBlock(size)
      BY DEF ReadInv, PassKnows
    <3>2. size \in 0..MaxSize
      BY DEF ReadInv, Bounds
    <3> QED
      BY <1>2, <3>1, <3>2, LastBlockIs, Numbers, Sizes
  <2> QED
    BY <2>1, <2>2
<1>3. CASE nBlocks # M - 1
  <2>1. nBlocks + 1 \in 0..M - 1
    BY <1>3, Numbers, Sizes
  <2>2. Divisor = nBlocks + 1
    BY <1>1, <2>1, WrapSmall
  <2>3. opened => size # 0
    <3>1. opened => nBlocks = LastBlock(size)
      BY DEF ReadInv, PassKnows
    <3>2. size \in 0..MaxSize
      BY DEF ReadInv, Bounds
    <3> QED
      BY <1>3, <3>1, <3>2, LastBlockIs
  <2> QED
    BY <2>2, <2>3, Numbers
<1> QED
  BY <1>2, <1>3

\* "Reads the entire file".
LEMMA EntireFile == ReadInv => EntireFileInSequence
<1> SUFFICES ASSUME ReadInv, pc = "read", pass = "seq", i > nBlocks
             PROVE  seen = FileBlocks /\ timed = Cardinality(FileBlocks)
  BY DEF EntireFileInSequence
<1>1. i = nBlocks + 1 /\ i > 0 /\ size > 0 /\ opened /\ timed = i /\ seen = 0..i - 1
  BY Numbers DEF ReadInv, PassKnows, Counts, InSequence
<1>2. nBlocks = LastBlock(size) /\ size \in 0..MaxSize
  BY <1>1 DEF ReadInv, PassKnows, Bounds
<1>3. FileBlocks = 0..nBlocks /\ Cardinality(FileBlocks) = nBlocks + 1
  BY <1>1, <1>2, FileBlocksAre
<1> QED
  BY <1>1, <1>3, Numbers

LEMMA ReturnInv == ReadInv /\ Return => ReadInv'
<1> SUFFICES ASSUME ReadInv, Return PROVE ReadInv'
  OBVIOUS
<1>1. /\ pc \in {"read", "broken"} /\ (pc = "broken" \/ i > nBlocks)
      /\ program' = program /\ size' = size /\ opened' = opened /\ pos' = pos
      /\ buffer' = buffer /\ nBlocks' = nBlocks /\ i' = i /\ seen' = seen /\ timed' = timed
      /\ warm' = warm /\ got' = got /\ cache' = cache /\ failures' = failures
  BY DEF Return, passVars
<1>2. FileBlocks' = FileBlocks
  BY <1>1, SameBlocks
<1>3. program # "huge" /\ timed = i
  BY <1>1 DEF ReadInv, PassKnows, Counts
<1>4. InFile' /\ Counts'
  BY <1>1, <1>2 DEF ReadInv, InFile, Counts
<1>5. FirstKept'
  BY <1>1, <1>3 DEF FirstKept
<1>6. CASE Divisor = 0
  <2>1. pc' = "crashed" /\ trial' = trial /\ pass' = pass /\ result' = result
    BY <1>6 DEF Return
  <2>2. Bounds'
    BY <1>1, <2>1 DEF ReadInv, Bounds, Random
  <2>3. PassKnows' /\ InSequence' /\ Unfailed' /\ FlushedFirst'
    BY <1>1, <2>1 DEF ReadInv, PassKnows, InSequence, Unfailed, FlushedFirst, Flushes
  <2>4. Kept'
    BY <1>1, <1>2, <2>1 DEF ReadInv, Kept, Fit
  <2>5. CrashesWithoutData'
    BY <1>1, <1>6, <2>1, DivisorIs DEF CrashesWithoutData
  <2>6. AveragePerBlockUnlessFailed'
    BY <1>1, <2>1 DEF ReadInv, AveragePerBlockUnlessFailed
  <2> QED
    BY <1>4, <1>5, <2>2, <2>3, <2>4, <2>5, <2>6 DEF ReadInv
<1>7. CASE Divisor # 0
  <2>1. /\ result' = [timed |-> timed, divisor |-> Divisor]
        /\ \/ /\ Random /\ pass = "seq" /\ pass' = "rand" /\ pc' = "start" /\ trial' = trial
           \/ /\ ~(Random /\ pass = "seq") /\ pass' = pass /\ trial' = trial + 1
              /\ pc' = (IF trial < Iterations THEN "open" ELSE "done")
    BY <1>7 DEF Return, NextTrial
  <2>2. Divisor \in Nat /\ Divisor = nBlocks + 1 /\ (opened => size # 0)
    BY <1>1, <1>7, DivisorIs
  <2>3. ASSUME failures = 0
        PROVE  pc = "read" /\ i = nBlocks + 1 /\ size # 0
    <3>1. pc = "read"
      BY <1>1, <2>2, <2>3 DEF ReadInv, Unfailed
    <3>2. i <= nBlocks + 1
      BY <3>1 DEF ReadInv, PassKnows
    <3>3. opened
      BY <2>3, <3>1 DEF ReadInv, Unfailed
    <3> QED
      BY <1>1, <2>2, <3>1, <3>2, <3>3, Numbers
  <2>4. pc' \in {"start", "open", "done"} /\ (pc' = "start" => pass' = "rand")
    BY <2>1
  <2>5. trial' \in 1..Iterations + 1 /\ (pc' # "done" => trial' <= Iterations)
    BY <1>1, <2>1, Numbers, Sizes
  <2>6. result' \in [timed : Nat, divisor : Nat] /\ result'.timed = timed
        /\ result'.divisor = nBlocks + 1
    BY <2>1, <2>2, Numbers
  <2>7. Bounds'
    BY <1>1, <2>1, <2>4, <2>5, <2>6 DEF ReadInv, Bounds, Random
  <2>8. PassKnows' /\ InSequence' /\ CrashesWithoutData'
    BY <2>4 DEF PassKnows, InSequence, CrashesWithoutData
  <2>9. Unfailed' /\ FlushedFirst'
    BY <1>1, <2>3, <2>4 DEF ReadInv, Unfailed, FlushedFirst, Flushes
  <2>10. Kept'
    <3> SUFFICES ASSUME program = "file_cache_size", Fit
                 PROVE  seen \subseteq cache /\ cache = FileBlocks
      BY <1>1, <1>2, <2>4 DEF Kept, Fit
    <3>1. seen \subseteq cache /\ cache \subseteq FileBlocks
      BY DEF ReadInv, Kept, InFile
    <3>2. pass = "seq" /\ pc = "read" /\ i > nBlocks
      BY <2>3, Numbers DEF Fit, ReadInv, Bounds, Random
    <3>3. seen = FileBlocks
      BY <3>2, EntireFile DEF EntireFileInSequence
    <3> QED
      BY <3>1, <3>3
  <2>11. AveragePerBlockUnlessFailed'
    BY <1>1, <1>3, <2>3, <2>6 DEF AveragePerBlockUnlessFailed
  <2> QED
    BY <1>4, <1>5, <2>7, <2>8, <2>9, <2>10, <2>11 DEF ReadInv
<1> QED
  BY <1>6, <1>7

\* A fread() of a huge file, whatever it returns.
LEMMA HugeInv == ReadInv /\ (HugeRead \/ HugeNothing \/ HugeCrashes) => ReadInv'
<1> SUFFICES ASSUME ReadInv, HugeRead \/ HugeNothing \/ HugeCrashes PROVE ReadInv'
  OBVIOUS
<1>1. /\ pc = "start" /\ program = "huge" /\ program' = program /\ size' = size /\ pass' = pass
      /\ opened' = opened /\ buffer' = buffer /\ nBlocks' = nBlocks /\ i' = i
  BY DEF HugeRead, HugeNothing, HugeCrashes, Huge, HugeUnchanged
<1>2. FileBlocks' = FileBlocks
  BY <1>1, SameBlocks
<1>3. pass = "seq" /\ size \in 0..MaxSize /\ trial \in 1..Iterations
  BY <1>1, Numbers DEF ReadInv, Bounds, Random
<1>4. FlushedFirst' /\ Kept'
  BY <1>1 DEF FlushedFirst, Flushes, Kept
<1>5. CASE HugeCrashes
  <2>1. /\ ~opened /\ pc' = "crashed" /\ trial' = trial /\ pos' = pos /\ seen' = seen
        /\ timed' = timed /\ warm' = warm /\ got' = got /\ cache' = cache /\ result' = result
        /\ failures' = failures
    BY <1>5 DEF HugeCrashes
  <2>2. Bounds' /\ InFile' /\ Counts' /\ PassKnows' /\ InSequence' /\ Unfailed'
    BY <1>1, <1>2, <2>1
    DEF ReadInv, Bounds, InFile, Counts, PassKnows, InSequence, Unfailed, Random
  <2>3. FirstKept' /\ CrashesWithoutData' /\ AveragePerBlockUnlessFailed'
    BY <1>1, <2>1 DEF ReadInv, FirstKept, CrashesWithoutData, AveragePerBlockUnlessFailed
  <2> QED
    BY <1>4, <2>2, <2>3 DEF ReadInv
<1>6. CASE HugeRead \/ HugeNothing
  <2>1. opened /\ trial' = trial + 1 /\ pc' = (IF trial < Iterations THEN "open" ELSE "done")
    BY <1>6 DEF HugeRead, HugeNothing, NextTrial
  <2>2. /\ trial' \in 1..Iterations + 1 /\ (pc' # "done" => trial' <= Iterations)
        /\ pc' \in {"open", "done"}
    BY <1>3, <2>1, Sizes
  <2>3. PassKnows' /\ InSequence' /\ CrashesWithoutData'
    BY <2>2 DEF PassKnows, InSequence, CrashesWithoutData
  <2>4. Unfailed'
    BY <1>1, <2>1, <2>2 DEF Unfailed
  <2>5. CASE HugeRead
    <3>1. /\ size > 0 /\ seen' = {0} /\ timed' = 1 /\ warm' = (IF 0 \in cache THEN 1 ELSE 0)
          /\ cache' \in CacheWith(0) /\ got' = (IF size < Block THEN size ELSE Block)
          /\ pos' = got' /\ result' = [timed |-> 1, divisor |-> 1] /\ failures' = failures
      BY <2>5 DEF HugeRead
    <3>2. 0 \in FileBlocks
      BY <1>3, <3>1, FileBlocksAre, LastBlockIs, Sizes
    <3>3. cache' \subseteq FileBlocks /\ Cardinality(cache') <= Capacity /\ 0 \in cache'
      BY <3>1, <3>2, CacheHolds
    <3>4. got' \in 0..Block /\ pos' \in Nat
      BY <3>1, Numbers, Sizes
    <3>5. result' \in [timed : Nat, divisor : Nat] /\ result'.timed = 1 /\ result'.divisor = 1
      BY <3>1
    <3>6. Bounds'
      BY <1>1, <2>1, <2>2, <3>1, <3>4, <3>5 DEF ReadInv, Bounds, Random
    <3>7. InFile'
      BY <1>2, <3>1, <3>2, <3>3 DEF InFile
    <3>8. Counts'
      <4>1. i = 0
        BY <1>1 DEF ReadInv, Counts
      <4> QED
        BY <1>1, <3>1, <4>1 DEF Counts
    <3>9. FirstKept'
      <4>1. failures = 0 /\ trial > 1 => 0 \in cache
        BY <1>1, <3>1 DEF ReadInv, FirstKept
      <4>2. trial' > 2 => trial > 1
        BY <1>3, <2>1
      <4>3. size # 0
        BY <3>1
      <4> QED
        BY <1>1, <3>1, <3>3, <4>1, <4>2, <4>3 DEF FirstKept
    <3>10. AveragePerBlockUnlessFailed'
      BY <3>5 DEF AveragePerBlockUnlessFailed
    <3> QED
      BY <1>4, <2>3, <2>4, <3>6, <3>7, <3>8, <3>9, <3>10 DEF ReadInv
  <2>6. CASE HugeNothing
    <3>1. /\ \/ size = 0 /\ failures' = failures
             \/ failures < MaxFailures /\ failures' = failures + 1
          /\ seen' = {} /\ timed' = 0 /\ warm' = 0 /\ got' = 0
          /\ result' = [timed |-> 0, divisor |-> 1] /\ pos' = pos /\ cache' = cache
      BY <2>6 DEF HugeNothing
    <3>2. failures' \in 0..MaxFailures /\ (failures' = 0 => size = 0)
      BY <3>1, Numbers, Sizes
    <3>3. 0 \in 0..Block /\ result' \in [timed : Nat, divisor : Nat]
      BY <3>1, Sizes
    <3>4. Bounds'
      BY <1>1, <2>1, <2>2, <3>1, <3>2, <3>3 DEF ReadInv, Bounds, Random
    <3>5. InFile' /\ FirstKept'
      BY <1>1, <1>2, <3>1, <3>2 DEF ReadInv, InFile, FirstKept
    <3>6. Counts'
      <4>1. i = 0
        BY <1>1 DEF ReadInv, Counts
      <4> QED
        BY <1>1, <3>1, <4>1 DEF Counts
    <3>7. AveragePerBlockUnlessFailed'
      BY <1>1, <3>2 DEF AveragePerBlockUnlessFailed
    <3> QED
      BY <1>4, <2>3, <2>4, <3>4, <3>5, <3>6, <3>7 DEF ReadInv
  <2> QED
    BY <1>6, <2>5, <2>6
<1> QED
  BY <1>5, <1>6

LEMMA NextInv == ReadInv /\ [Next]_vars => ReadInv'
<1>1. ReadInv /\ UNCHANGED vars => ReadInv'
  <2> SUFFICES ASSUME ReadInv, UNCHANGED vars PROVE ReadInv'
    OBVIOUS
  <2>1. /\ program' = program /\ pc' = pc /\ size' = size /\ trial' = trial /\ pass' = pass
        /\ opened' = opened /\ pos' = pos /\ buffer' = buffer /\ nBlocks' = nBlocks /\ i' = i
        /\ seen' = seen /\ timed' = timed /\ warm' = warm /\ got' = got /\ cache' = cache
        /\ result' = result /\ failures' = failures
    BY DEF vars
  <2>2. FileBlocks' = FileBlocks
    BY <2>1, SameBlocks
  <2>3. Bounds' /\ InFile' /\ Counts' /\ PassKnows' /\ InSequence' /\ Unfailed'
    BY <2>1, <2>2
    DEF ReadInv, Bounds, InFile, Counts, PassKnows, InSequence, Unfailed, Random
  <2>4. FlushedFirst' /\ Kept' /\ FirstKept' /\ CrashesWithoutData'
        /\ AveragePerBlockUnlessFailed'
    BY <2>1, <2>2 DEF ReadInv, FlushedFirst, Flushes, Kept, Fit, FirstKept, CrashesWithoutData,
                      AveragePerBlockUnlessFailed
  <2> QED
    BY <2>3, <2>4 DEF ReadInv
<1> QED
  BY <1>1, OpenInv, StartInv, ReadBlockInv, ReadNothingInv, ReturnInv, HugeInv
  DEF Next, Terminated

-----------------------------------------------------------------------------
\* Where a pass is in the file, what it has counted and what the cache holds.
THEOREM Invariance == Spec => []ReadInv
BY InitInv, NextInv, PTL DEF Spec

\* No offset is beyond the end of a file that has data.
Placed == size > 0 => pos <= size

LEMMA PlacedInv == ReadInv /\ Placed /\ [Next]_vars => Placed'
<1> SUFFICES ASSUME ReadInv, Placed, [Next]_vars, size' > 0 PROVE pos' <= size'
  BY DEF Placed
<1>1. size' = size /\ size \in Nat /\ size > 0 /\ pos \in Nat /\ pos <= size
  <2>1. size' = size
    BY DEF Next, Open, Start, ReadBlock, ReadNothing, Return, HugeRead, HugeNothing,
           HugeCrashes, HugeUnchanged, Terminated, vars
  <2> QED
    BY <2>1, Numbers DEF Placed
<1>2. CASE Open
  BY <1>1, <1>2 DEF Open
<1>3. CASE ReadBlock
  <2>1. PICK from \in Offsets :
           /\ from < size
           /\ got' = (IF size - from < Block THEN size - from ELSE Block)
           /\ pos' = from + got'
    BY <1>3 DEF ReadBlock
  <2>2. from \in Nat
    BY OffsetsAre
  <2> QED
    BY <1>1, <2>1, <2>2, Sizes
<1>4. CASE ReadNothing
  <2>1. CASE pos' = pos
    BY <1>1, <2>1
  <2>2. CASE pc = "read" /\ i <= nBlocks /\ opened /\ pos' \in Offsets
    <3>1. nBlocks = LastBlock(size) /\ size \in 0..MaxSize
      BY <2>2 DEF ReadInv, PassKnows, Bounds
    <3>2. Block * nBlocks < size /\ nBlocks \in Nat
      BY <1>1, <3>1, LastBlockIs, Numbers
    <3>3. PICK k \in Nat : pos' = Block * k /\ k <= nBlocks
      BY <1>1, <2>2, OffsetsAre
    <3>4. Block * k <= Block * nBlocks
      BY <3>2, <3>3, Factor, Sizes
    <3> QED
      BY <1>1, <3>2, <3>3, <3>4, Sizes
  <2> QED
    BY <1>4, <2>1, <2>2 DEF ReadNothing
<1>5. CASE HugeRead
  BY <1>1, <1>5, Sizes DEF HugeRead
<1>6. CASE Start \/ Return \/ HugeNothing \/ HugeCrashes \/ UNCHANGED vars
  BY <1>1, <1>6 DEF Start, Return, HugeNothing, HugeCrashes, vars
<1> QED
  BY <1>2, <1>3, <1>4, <1>5, <1>6 DEF Next, Terminated

\* The state keeps its types: the loop counter is bounded by the file, the buffer
\* holds what a read() returns, no offset is beyond the end of a file that has
\* data, and the page cache is never larger than it is.
THEOREM TypeCorrect == Spec => []TypeOK
<1>1. Init => Placed
  BY MaxSizeAssumption DEF Init, Placed
<1>2. Spec => []Placed
  BY Invariance, PlacedInv, <1>1, PTL DEF Spec
<1>3. ReadInv /\ Placed => TypeOK
  <2> SUFFICES ASSUME ReadInv, Placed PROVE TypeOK
    OBVIOUS
  <2>1. timed \in 0..(IF program = "huge" THEN 1 ELSE i)
    BY Numbers DEF ReadInv, Counts
  <2> QED
    BY <2>1 DEF ReadInv, Placed, Bounds, InFile, Counts, TypeOK, M
<1> QED
  BY <1>2, <1>3, Invariance, PTL

\* A sequential pass that no failure cuts short has read every block once,
\* whatever the sizes of file and block.
THEOREM ReadsEntireFile == Spec => []EntireFileInSequence
BY EntireFile, Invariance, PTL

\* Only an empty file or one that could not be opened ends the program.
THEOREM CrashesOnlyWithoutData == Spec => []CrashesWithoutData
<1>1. ReadInv => CrashesWithoutData
  BY DEF ReadInv
<1> QED
  BY <1>1, Invariance, PTL

\* Which reads come from the disk and which from the page cache: with the cache
\* dropped the first of a pass does not come from it; without, from the second
\* trial on every read does if the file fits, and of huge files always.
THEOREM ColdOrWarmReads == Spec => []ColdOrWarm
<1>1. ReadInv => ColdOrWarm
  <2> SUFFICES ASSUME ReadInv PROVE ColdOrWarm
    OBVIOUS
  <2>1. Flushes => (timed > 0 => warm < timed)
    BY DEF ReadInv, FlushedFirst
  <2>2. program = "file_cache_size" =>
          (pc = "read" /\ failures = 0 /\ trial > 1 /\ Cardinality(FileBlocks) <= Capacity =>
             warm = timed)
    BY DEF ReadInv, Kept, Fit
  <2>3. program = "huge" => (failures = 0 /\ trial > 2 => warm = timed)
    BY DEF ReadInv, FirstKept
  <2>4. program \in Programs
    BY DEF ReadInv, Bounds
  <2> QED
    BY <2>1, <2>2, <2>3, <2>4 DEF ColdOrWarm, Programs, Flushes
<1> QED
  BY <1>1, Invariance, PTL

\* As long as no call fails the sum of a pass is divided by the number of reads
\* in it: no size of file makes a pass meet the end before its last block.
THEOREM AverageIsPerBlock == Spec => []AveragePerBlockUnlessFailed
<1>1. ReadInv => AveragePerBlockUnlessFailed
  BY DEF ReadInv
<1> QED
  BY <1>1, Invariance, PTL

-----------------------------------------------------------------------------
(* Progress: every step brings main() nearer to its end, also through the   *)
(* pass over an empty file, whose number of blocks is 2^Width - 1.          *)

\* How far a pass, its trial's passes, and the program are from their end.
PassLeft ==
    CASE pc = "start" -> MaxSize + 3
      [] pc = "read" -> (MaxSize - i) + 2
      [] pc = "broken" -> 1
      [] OTHER -> 0

PassesLeft ==
    CASE pc = "open" -> 2 * MaxSize + 8
      [] pc \in {"start", "read", "broken"} /\ pass = "seq" -> PassLeft + (MaxSize + 4)
      [] OTHER -> PassLeft

TrialsLeft == (Iterations + 1 - trial) * (2 * MaxSize + 9)

Rank == TrialsLeft + PassesLeft

Forward == Rank' < Rank

LEMMA TrialsToCome ==
    ASSUME ReadInv
    PROVE  /\ TrialsLeft \in Nat
           /\ trial <= Iterations =>
                 TrialsLeft = (Iterations + 1 - (trial + 1)) * (2 * MaxSize + 9)
                                  + (2 * MaxSize + 9)
<1>1. \A a, d \in Nat : a * d \in Nat /\ (a + 1) * d = a * d + d
  <2> SUFFICES ASSUME NEW a \in Nat, NEW d \in Nat
               PROVE  a * d \in Nat /\ (a + 1) * d = a * d + d
    OBVIOUS
  <2>1. a * d \in Nat
    OBVIOUS
  <2>2. (a + 1) * d = a * d + d
    OBVIOUS
  <2> QED
    BY <2>1, <2>2
<1>2. trial \in Nat /\ trial <= Iterations + 1
  BY Sizes DEF ReadInv, Bounds
<1>3. /\ Iterations + 1 - trial \in Nat /\ 2 * MaxSize + 9 \in Nat
      /\ trial <= Iterations =>
            /\ Iterations + 1 - (trial + 1) \in Nat
            /\ Iterations + 1 - trial = (Iterations + 1 - (trial + 1)) + 1
  BY <1>2, Sizes
<1> QED
  BY ONLY <1>1, <1>3 DEF TrialsLeft

LEMMA RankParts ==
    ASSUME ReadInv
    PROVE  /\ MaxSize \in Nat /\ i \in Nat /\ i <= MaxSize
           /\ PassLeft \in Nat /\ PassLeft <= MaxSize + 3 /\ PassesLeft \in Nat
           /\ pc \in {"open", "start", "read", "broken"} => PassesLeft > 0
           /\ pc \in {"start", "read", "broken"} => PassLeft > 0
           /\ Rank \in Nat
<1>1. MaxSize \in Nat /\ i \in Nat /\ i <= MaxSize
  BY Sizes DEF ReadInv, Bounds
<1>2. /\ PassLeft \in Nat /\ PassLeft <= MaxSize + 3
      /\ pc \in {"start", "read", "broken"} => PassLeft > 0
  BY <1>1 DEF PassLeft
<1>3. PassesLeft \in Nat /\ (pc \in {"open", "start", "read", "broken"} => PassesLeft > 0)
  BY <1>1, <1>2 DEF PassesLeft
<1> QED
  BY <1>1, <1>2, <1>3, TrialsToCome DEF Rank

\* Within a trial what is left of its passes tells, and the trial after this one
\* has less left than this one has with nothing left of its passes.
LEMMA WithinTrial ==
    ASSUME ReadInv, trial' = trial, PassesLeft' \in Nat, PassesLeft' < PassesLeft
    PROVE  Forward
<1>1. TrialsLeft' = TrialsLeft
  BY DEF TrialsLeft
<1> QED
  BY <1>1, RankParts, TrialsToCome DEF Forward, Rank

LEMMA WithinPass ==
    ASSUME ReadInv, trial' = trial, pass' = pass, PassLeft' \in Nat, PassLeft' < PassLeft,
           pc \in {"start", "read", "broken"}, pc' \in {"start", "read", "broken", "crashed"}
    PROVE  Forward
<1>1. pass = "seq" \/ pass # "seq"
  OBVIOUS
<1>2. /\ pass = "seq" => PassesLeft = PassLeft + (MaxSize + 4)
      /\ pass # "seq" => PassesLeft = PassLeft
  BY DEF PassesLeft
<1>3. \/ PassesLeft' = PassLeft' + (MaxSize + 4) /\ pass = "seq"
      \/ PassesLeft' = PassLeft'
  BY DEF PassesLeft
<1>4. CASE pass = "seq"
  <2>1. PassesLeft' \in Nat /\ PassesLeft' < PassesLeft
    BY <1>2, <1>3, <1>4, RankParts
  <2> QED
    BY <2>1, WithinTrial
<1>5. CASE pass # "seq"
  <2>1. PassesLeft' \in Nat /\ PassesLeft' < PassesLeft
    BY <1>2, <1>3, <1>5, RankParts
  <2> QED
    BY <2>1, WithinTrial
<1> QED
  BY <1>4, <1>5

LEMMA NextTrialIsForward ==
    ASSUME ReadInv, NextTrial, pc \in {"start", "read", "broken"}
    PROVE  Forward
<1>1. trial <= Iterations
  BY DEF ReadInv, Bounds
<1>2. trial' = trial + 1 /\ (pc' = "open" \/ pc' = "done")
  BY DEF NextTrial
<1>3. PassesLeft' \in Nat /\ PassesLeft' <= 2 * MaxSize + 8
  <2>1. CASE pc' = "open"
    BY <2>1, RankParts DEF PassesLeft
  <2>2. CASE pc' = "done"
    <3>1. PassesLeft' = 0
      BY <2>2 DEF PassesLeft, PassLeft
    <3> QED
      BY <3>1, RankParts
  <2> QED
    BY <1>2, <2>1, <2>2
<1>4. TrialsLeft' = (Iterations + 1 - (trial + 1)) * (2 * MaxSize + 9)
  BY <1>2 DEF TrialsLeft
<1>5. TrialsLeft = TrialsLeft' + (2 * MaxSize + 9)
  BY <1>1, <1>4, TrialsToCome
<1>6. TrialsLeft' \in Int
  <2>1. Iterations + 1 - (trial + 1) \in Int /\ 2 * MaxSize + 9 \in Int
    BY Sizes DEF ReadInv, Bounds
  <2> QED
    BY ONLY <1>4, <2>1
<1> QED
  BY <1>3, <1>5, <1>6, RankParts DEF Forward, Rank

LEMMA StepIsForward ==
    ASSUME ReadInv, ReadInv', [Next]_vars
    PROVE  [Forward]_vars
<1>1. MaxSize \in Nat /\ i \in Nat /\ i <= MaxSize
  BY RankParts
<1>2. CASE Open
  <2>1. pc = "open" /\ pc' = "start" /\ pass' = "seq" /\ trial' = trial
    BY <1>2 DEF Open
  <2>2. PassesLeft = 2 * MaxSize + 8
    BY <2>1 DEF PassesLeft
  <2>3. PassesLeft' = (MaxSize + 3) + (MaxSize + 4)
    BY <2>1 DEF PassesLeft, PassLeft
  <2> QED
    BY <1>1, <2>1, <2>2, <2>3, WithinTrial
<1>3. CASE Start
  <2>1. /\ pc = "start" /\ trial' = trial /\ pass' = pass
        /\ (pc' = "read" /\ i' = 0) \/ pc' = "crashed"
    BY <1>3 DEF Start
  <2>2. PassLeft = MaxSize + 3
    BY <2>1 DEF PassLeft
  <2>3. PassLeft' = (MaxSize - 0) + 2 \/ PassLeft' = 0
    BY <2>1 DEF PassLeft
  <2> QED
    BY <1>1, <2>1, <2>2, <2>3, WithinPass
<1>4. CASE ReadBlock
  <2>1. pc = "read" /\ pc' = "read" /\ i' = i + 1 /\ trial' = trial /\ pass' = pass
    BY <1>4 DEF ReadBlock
  <2>2. i + 1 <= MaxSize
    <3>1. i' \in 0..MaxSize
      BY DEF ReadInv, Bounds
    <3> QED
      BY <1>1, <2>1, <3>1
  <2>3. PassLeft = (MaxSize - i) + 2 /\ PassLeft' = (MaxSize - (i + 1)) + 2
    BY <2>1 DEF PassLeft
  <2> QED
    BY <1>1, <2>1, <2>2, <2>3, WithinPass
<1>5. CASE ReadNothing
  <2>1. pc = "read" /\ pc' = "broken" /\ trial' = trial /\ pass' = pass
    BY <1>5 DEF ReadNothing
  <2>2. PassLeft = (MaxSize - i) + 2 /\ PassLeft' = 1
    BY <2>1 DEF PassLeft
  <2> QED
    BY <1>1, <2>1, <2>2, WithinPass
<1>6. CASE Return
  <2>1. pc \in {"read", "broken"}
    BY <1>6 DEF Return
  <2>2. CASE pc' = "crashed" /\ trial' = trial /\ pass' = pass
    <3>1. PassLeft' = 0 /\ PassLeft > 0
      BY <2>1, <2>2, RankParts DEF PassLeft
    <3> QED
      BY <2>1, <2>2, <3>1, RankParts, WithinPass
  <2>3. CASE pass = "seq" /\ pass' = "rand" /\ pc' = "start" /\ trial' = trial
    <3>1. PassesLeft' = MaxSize + 3
      BY <2>3 DEF PassesLeft, PassLeft
    <3>2. PassesLeft = PassLeft + (MaxSize + 4) /\ PassLeft > 0 /\ PassLeft \in Nat
      BY <2>1, <2>3, RankParts DEF PassesLeft
    <3> QED
      BY <1>1, <2>3, <3>1, <3>2, WithinTrial
  <2>4. CASE NextTrial
    BY <2>1, <2>4, NextTrialIsForward
  <2> QED
    BY <1>6, <2>2, <2>3, <2>4 DEF Return
<1>7. CASE HugeRead \/ HugeNothing
  BY <1>7, NextTrialIsForward DEF HugeRead, HugeNothing, Huge
<1>8. CASE HugeCrashes
  <2>1. pc = "start" /\ pc' = "crashed" /\ trial' = trial /\ pass' = pass
    BY <1>8 DEF HugeCrashes, HugeUnchanged, Huge
  <2>2. PassLeft' = 0 /\ PassLeft > 0
    BY <2>1, RankParts DEF PassLeft
  <2> QED
    BY <2>1, <2>2, RankParts, WithinPass
<1> QED
  BY <1>2, <1>3, <1>4, <1>5, <1>6, <1>7, <1>8 DEF Next, Terminated

\* Every step brings main() nearer to its end, whichever calls fail: a pass ends
\* with the file although its loop may be meant to run 2^Width times.
THEOREM NoStepBack == Spec => [](Rank \in Nat) /\ [][Forward]_vars
<1>1. ReadInv /\ [Next]_vars => ReadInv' /\ [Forward]_vars
  BY NextInv, StepIsForward
<1>2. ReadInv => Rank \in Nat
  BY RankParts
<1> QED
  BY InitInv, <1>1, <1>2, PTL DEF Spec
=============================================================================
