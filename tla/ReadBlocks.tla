------------------------------ MODULE ReadBlocks ------------------------------
(***************************************************************************)
(* The timed reads of filesysoperations/read_file.c (and its copy          *)
(* read_file_remote.c) and of file_cache_size.c.  A trial opens a file and *)
(* times one read() per block, in sequence; read_file.c drops the page     *)
(* cache before and does the same once more with blocks drawn at random.   *)
(* Each pass returns the time per block, for the number of blocks it       *)
(* computed from the size of the file.  The last sections of               *)
(* file_cache_size.c, for files of 8 GB and more, time one fread() of a    *)
(* stream they have just opened and never close.                           *)
(*                                                                         *)
(* A time is a unit here: what matters is how many reads were timed, by    *)
(* which number their sum is divided, and which of them the page cache     *)
(* answered.  The kernel may read ahead.                                   *)
(***************************************************************************)
EXTENDS Integers, FiniteSets

CONSTANTS
    Width,      \* bits of uint64_t
    Block,      \* st_blksize
    MaxSize,    \* bound: the largest st_size
    Capacity,   \* blocks of this file that the page cache holds
    Iterations, \* iterations, Ntrials
    MaxFailures \* bound: how many open() and read() calls may fail

ASSUME WidthAssumption == Width \in Nat \ {0}
ASSUME BlockAssumption == Block \in Nat \ {0}
ASSUME MaxSizeAssumption == MaxSize \in 0..2^Width - 1
ASSUME CapacityAssumption == Capacity \in Nat \ {0}
ASSUME IterationsAssumption == Iterations \in Nat \ {0}
ASSUME MaxFailuresAssumption == MaxFailures \in Nat

VARIABLES
    program,    \* "read_file", or "file_cache_size" or its "huge" files
    pc,         \* where main() or the pass it called is
    size,       \* the size of the file
    trial,      \* the trial, counted from 1
    pass,       \* "seq" or "rand": seq_time() or rand_time()
    opened,     \* whether open() returned a descriptor
    pos,        \* the offset of the open file
    buffer,     \* bytes malloc() was asked for
    nBlocks,    \* nBlocks, the index of the last block
    i,          \* the loop counter
    seen,       \* blocks the pass has read
    timed,      \* reads the pass has timed
    warm,       \* how many of them the page cache answered
    got,        \* what the last read() returned
    cache,      \* blocks in the page cache
    result,     \* what the last pass returned: timed reads and divisor
    failures

vars == <<program, pc, size, trial, pass, opened, pos, buffer, nBlocks, i, seen, timed, warm,
          got, cache, result, failures>>
passVars == <<buffer, nBlocks, i, seen, timed, warm>>

Programs == {"read_file", "file_cache_size", "huge"}

\* system() drops the page cache of the machine the program runs on.  For
\* read_file_remote.c that is the client's: the reads that miss it here may
\* still be answered by the cache of the server, which is not modelled.
Flushes == program = "read_file"
Random == program = "read_file"

Wrap(x) == x % 2^Width

\* The blocks of the file, counted from 0.
FileBlocks == 0..(size + Block - 1) \div Block - 1

NoResult == [timed |-> 0, divisor |-> 0]

\* An earlier run may have left any part of the file in the cache.
Init ==
    /\ program \in Programs
    /\ pc = "open"
    /\ size \in 0..MaxSize
    /\ trial = 1
    /\ pass = "seq"
    /\ opened = FALSE
    /\ pos = 0
    /\ buffer = 0 /\ nBlocks = 0 /\ i = 0
    /\ seen = {} /\ timed = 0 /\ warm = 0
    /\ got = 0
    /\ cache \in {c \in SUBSET FileBlocks : Cardinality(c) <= Capacity}
    /\ result = NoResult
    /\ failures = 0

\* open() or fopen(), whose result is not looked at.
Open ==
    /\ pc = "open"
    /\ \/ opened' = TRUE /\ UNCHANGED failures
       \/ opened' = FALSE /\ failures < MaxFailures /\ failures' = failures + 1
    /\ pos' = 0
    /\ pass' = "seq"
    /\ pc' = "start"
    /\ UNCHANGED <<program, size, trial, passVars, got, cache, result>>

\* A defect: the page cache is left as it is.
CacheAtStart_NoFlush == cache
CacheAtStart == IF Flushes THEN {} ELSE cache

\* A defect: the last block is left out although it is not full.
LastBlock_LeavesOutPart(bytes) == Wrap(bytes \div Block - 1)
LastBlock(bytes) == Wrap(bytes \div Block - IF bytes % Block = 0 THEN 1 ELSE 0)

\* A defect: room for the blocks before the last only.
Start_BufferForBlocks ==
    /\ pc = "start"
    /\ opened
    /\ nBlocks' = LastBlock(size)
    /\ buffer' = nBlocks' * Block
    /\ i' = 0 /\ seen' = {} /\ timed' = 0 /\ warm' = 0
    /\ cache' = CacheAtStart
    /\ pc' = "read"
    /\ UNCHANGED <<program, size, trial, pass, opened, pos, got, result, failures>>

\* fstat(), the number of blocks, dropping the cache, and malloc().  Without a
\* file fstat() fails and leaves its result uninitialised: the size may be
\* anything, and a block size of 0 ends the program.
Start ==
    /\ pc = "start"
    /\ program # "huge"
    /\ \/ /\ \E bytes \in IF opened THEN {size} ELSE 0..MaxSize :
                /\ nBlocks' = LastBlock(bytes)
                /\ buffer' = bytes
          /\ i' = 0 /\ seen' = {} /\ timed' = 0 /\ warm' = 0
          /\ cache' = CacheAtStart
          /\ pc' = "read"
       \/ /\ ~opened
          /\ pc' = "crashed"
          /\ UNCHANGED <<passVars, cache>>
    /\ UNCHANGED <<program, size, trial, pass, opened, pos, got, result, failures>>

\* A defect: the block after the last is drawn too.
Offsets_OneMore ==
    IF pass = "seq" THEN {pos} ELSE {k * Block : k \in 0..nBlocks + 1}

\* Where a read starts: where the last one ended, or at a block drawn with
\* rand() % nBlocks.  (Of an empty file's nBlocks, all ones, a bound of MaxSize
\* is kept: reads there are beyond the end.)
Offsets ==
    CASE pass = "seq" -> {pos}
      [] pass = "rand" /\ nBlocks = 0 -> {0}
      [] OTHER -> {k * Block : k \in 0..(IF nBlocks <= MaxSize THEN nBlocks ELSE MaxSize) - 1}

\* The page cache after a block was read: it drops nothing while there is room.
CacheWith(b) ==
    {c \in SUBSET FileBlocks :
        /\ b \in c
        /\ Cardinality(c) <= Capacity
        /\ Cardinality(cache \union {b}) <= Capacity => cache \subseteq c}

\* lseek() and a read() that returns data.
ReadBlock ==
    /\ pc = "read"
    /\ i <= nBlocks
    /\ opened
    /\ \E from \in Offsets :
          /\ from < size
          /\ got' = IF size - from < Block THEN size - from ELSE Block
          /\ pos' = from + got'
          /\ LET b == from \div Block IN
                /\ seen' = seen \union {b}
                /\ warm' = IF b \in cache THEN warm + 1 ELSE warm
                /\ cache' \in CacheWith(b)
    /\ timed' = timed + 1
    /\ i' = i + 1
    /\ UNCHANGED <<program, pc, size, trial, pass, opened, buffer, nBlocks, result, failures>>

\* A read() that returns nothing, at the end of the file, or -1: break.
ReadNothing ==
    /\ pc = "read"
    /\ i <= nBlocks
    /\ \/ ~opened /\ UNCHANGED <<pos, failures>>
       \/ opened /\ (\E from \in Offsets : from >= size /\ pos' = from) /\ UNCHANGED failures
       \/ opened /\ failures < MaxFailures /\ failures' = failures + 1 /\ pos' \in Offsets
    /\ got' = 0
    /\ pc' = "broken"
    /\ UNCHANGED <<program, size, trial, pass, opened, passVars, cache, result>>

\* A defect: the sum is divided by the index of the last block.
Divisor_OneLess == nBlocks
Divisor == Wrap(nBlocks + 1)

NextTrial ==
    /\ trial' = trial + 1
    /\ pc' = IF trial < Iterations THEN "open" ELSE "done"

\* free() and the division, of which a divisor of 0 is the end; then the next
\* pass, or close() and the next trial.
Return ==
    /\ pc = "broken" \/ (pc = "read" /\ i > nBlocks)
    /\ IF Divisor = 0
       THEN /\ pc' = "crashed"
            /\ UNCHANGED <<trial, pass, result>>
       ELSE /\ result' = [timed |-> timed, divisor |-> Divisor]
            /\ IF Random /\ pass = "seq"
               THEN /\ pass' = "rand"
                    /\ pc' = "start"
                    /\ UNCHANGED trial
               ELSE NextTrial /\ UNCHANGED pass
    /\ UNCHANGED <<program, size, opened, pos, passVars, got, cache, failures>>

-----------------------------------------------------------------------------
(* Huge files: the duration of fread() is stored whatever it returned. *)

HugeUnchanged == UNCHANGED <<program, size, pass, opened, buffer, nBlocks, i>>
Huge == pc = "start" /\ program = "huge"

\* fread() of the first bytes of the stream.
HugeRead ==
    /\ Huge
    /\ opened /\ size > 0
    /\ seen' = {0} /\ timed' = 1
    /\ warm' = IF 0 \in cache THEN 1 ELSE 0
    /\ cache' \in CacheWith(0)
    /\ got' = IF size < Block THEN size ELSE Block
    /\ pos' = got'
    /\ result' = [timed |-> 1, divisor |-> 1]
    /\ NextTrial
    /\ UNCHANGED failures
    /\ HugeUnchanged

\* fread() returns 0: an empty file, or an error.
HugeNothing ==
    /\ Huge
    /\ opened
    /\ \/ size = 0 /\ UNCHANGED failures
       \/ failures < MaxFailures /\ failures' = failures + 1
    /\ seen' = {} /\ timed' = 0 /\ warm' = 0
    /\ got' = 0
    /\ result' = [timed |-> 0, divisor |-> 1]
    /\ NextTrial
    /\ UNCHANGED <<pos, cache>>
    /\ HugeUnchanged

\* fread() of a stream that fopen() did not return.
HugeCrashes ==
    /\ Huge
    /\ ~opened
    /\ pc' = "crashed"
    /\ UNCHANGED <<trial, pos, seen, timed, warm, got, cache, result, failures>>
    /\ HugeUnchanged

-----------------------------------------------------------------------------
Terminated == pc \in {"done", "crashed"} /\ UNCHANGED vars

Next ==
    \/ Open \/ Start \/ ReadBlock \/ ReadNothing \/ Return
    \/ HugeRead \/ HugeNothing \/ HugeCrashes
    \/ Terminated

Spec == Init /\ [][Next]_vars

-----------------------------------------------------------------------------
\* In particular the buffer, as large as the file and not as a block, holds what
\* a read() of a block returns, and no offset, also none drawn at random, is
\* beyond the end of a file that has data.
TypeOK ==
    /\ program \in Programs
    /\ pc \in {"open", "start", "read", "broken", "done", "crashed"}
    /\ size \in 0..MaxSize /\ trial \in 1..Iterations + 1
    /\ pass \in {"seq", "rand"} /\ opened \in BOOLEAN
    /\ buffer \in 0..MaxSize /\ nBlocks \in 0..2^Width - 1 /\ i \in 0..MaxSize
    /\ seen \subseteq FileBlocks /\ timed \in 0..(IF program = "huge" THEN 1 ELSE i) /\ warm \in 0..timed
    /\ got \in 0..Block /\ (pc = "read" /\ timed > 0 => got <= buffer)
    /\ pos \in Nat /\ (size > 0 => pos <= size)
    /\ cache \subseteq FileBlocks /\ Cardinality(cache) <= Capacity
    /\ result \in [timed : Nat, divisor : Nat]
    /\ failures \in 0..MaxFailures

\* "Reads the entire file": a sequential pass that no failure cuts short has
\* read every block exactly once.
EntireFileInSequence ==
    pc = "read" /\ pass = "seq" /\ i > nBlocks =>
        seen = FileBlocks /\ timed = Cardinality(FileBlocks)

\* Only an empty file, or one that could not be opened, ends the program: with a
\* division by zero, or in fread().
CrashesWithoutData == pc = "crashed" => size = 0 \/ ~opened

\* Where the cache is dropped, a pass starts with a read from the disk; the
\* reads after it may be answered by what the kernel read ahead.  Where it is
\* not, and the file fits in the cache, all trials but the first measure the
\* cache alone.  For huge files they do so whether the file fits or not, since
\* every trial reads the same first block: "read 4KB from file" is a copy of memory.
ColdOrWarm ==
    CASE Flushes -> timed > 0 => warm < timed
      [] program = "file_cache_size" ->
            pc = "read" /\ failures = 0 /\ trial > 1 /\ Cardinality(FileBlocks) <= Capacity =>
                warm = timed
      [] program = "huge" -> failures = 0 /\ trial > 2 => warm = timed

\* "calculate avg read I/O for each block": as long as no call fails, the sum is
\* divided by the number of the reads in it; no pass meets the end of the file,
\* where its comment says it "should not reach".  (The time of a huge file that
\* is empty is the time of no read.)
AveragePerBlockUnlessFailed ==
    failures = 0 /\ (program = "huge" => size > 0) => result.divisor = result.timed
===============================================================================
