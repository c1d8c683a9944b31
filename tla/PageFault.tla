------------------------------ MODULE PageFault ------------------------------
(***************************************************************************)
(* memoryoperations/page_fault.c: the time of a page fault.  The program   *)
(* writes a file of NChunks chunks, drops the page cache, maps the file,   *)
(* and in each of NIterations samples reads the bytes from a random        *)
(* position to PageSize bytes behind it.                                   *)
(*                                                                         *)
(* The chunk is an array of characters without a NUL that fprintf() takes  *)
(* as its format, so that more than the chunk is written; the position is  *)
(* an int.  The kernel decides when it writes a page to the disk, which    *)
(* pages it reads ahead, maps around a fault, and takes away again.        *)
(***************************************************************************)
EXTENDS Integers, FiniteSets, Sequences

CONSTANTS
    NChunks,      \* 2500000 in the code
    Chunk,        \* BUFFER_SIZE, 1000
    PageSize,     \* PAGESIZE, 4096
    RandMax,      \* RAND_MAX, which is INT_MAX as well
    NIterations,  \* N_iterations, 1000
    MaxExtra,     \* bound: how many bytes follow the chunk up to a NUL
    MaxFailures   \* bound: how many calls may fail

ASSUME NChunksAssumption == NChunks \in Nat \ {0}
ASSUME ChunkAssumption == Chunk \in Nat \ {0}
ASSUME PageSizeAssumption == PageSize \in Nat \ {0}
ASSUME RandMaxAssumption == RandMax \in Nat
ASSUME NIterationsAssumption == NIterations \in Nat \ {0}
ASSUME MaxExtraAssumption == MaxExtra \in Nat
ASSUME MaxFailuresAssumption == MaxFailures \in Nat

VARIABLES
    pc,        \* where main() is
    i,         \* the counter of its loops
    file,      \* the file, byte by byte: "A", "other", or "hole"
    cached,    \* its pages in the page cache
    dirty,     \* those not yet on the disk; once the cache is dropped, those
               \* that were not on the disk then
    mapped,    \* those in the page table of the program
    num,       \* where the sample starts
    wraps,     \* whether num + PAGESIZE exceeded an int and wrapped around
    pages,     \* pages the sample has touched, beyond the file included
    faults,    \* how many of them were not mapped
    disk,      \* how many of them were not even in the cache
    failures

vars == <<pc, i, file, cached, dirty, mapped, num, wraps, pages, faults, disk, failures>>
fileVars == <<file, cached, dirty, mapped>>
sampleVars == <<num, wraps, pages, faults, disk>>

size == Len(file)

\* The pages of n bytes, counted from 0.
PagesOf(n) == 0..(n + PageSize - 1) \div PageSize - 1
FilePages == PagesOf(size)

Init ==
    /\ pc = "create"
    /\ i = 0
    /\ file = <<>>
    /\ cached = {} /\ dirty = {} /\ mapped = {}
    /\ num = 0 /\ wraps = FALSE /\ pages = {} /\ faults = 0 /\ disk = 0
    /\ failures = 0

Fails == failures < MaxFailures /\ failures' = failures + 1

\* fopen(FILENAME, "w").  Its result is not looked at, and fseek() needs one.
Create ==
    /\ pc = "create"
    /\ \/ pc' = "write" /\ UNCHANGED failures
       \/ pc' = "crashed" /\ Fails
    /\ UNCHANGED <<i, fileVars, sampleVars>>

\* The file after n bytes were written from a position on: the chunk, and what
\* follows it in memory.
Overwritten(from, n) ==
    [k \in 1..(IF from + n > size THEN from + n ELSE size) |->
        CASE k \in from + 1..from + n -> IF k <= from + Chunk THEN "A" ELSE "other"
          [] k <= size /\ k \notin from + 1..from + n -> file[k]
          [] OTHER -> "hole"]

\* A defect: no fseek().
Position_Appends == size
Position == i * Chunk

\* The pages of those n bytes.
WrittenPages(from, n) == {k \div PageSize : k \in from..from + n - 1}

\* A defect: "<=" for "<" in the loop's test.
WriteChunk_OneMore ==
    /\ pc = "write"
    /\ i <= NChunks
    /\ \E n \in Chunk..Chunk + MaxExtra :
          /\ file' = Overwritten(Position, n)
          /\ cached' = cached \union WrittenPages(Position, n)
          /\ dirty' = dirty \union WrittenPages(Position, n)
    /\ i' = i + 1
    /\ UNCHANGED <<pc, mapped, sampleVars, failures>>

\* fseek() and fprintf(), which may fail having written a part.  What they write
\* goes to the page cache.  The bytes that follow the chunk are any but '%'.
WriteChunk ==
    /\ pc = "write"
    /\ i < NChunks
    /\ \E n \in 0..Chunk + MaxExtra :
          /\ \/ n >= Chunk /\ UNCHANGED failures
             \/ n < Chunk + MaxExtra /\ Fails
          /\ file' = IF n = 0 THEN file ELSE Overwritten(Position, n)
          /\ cached' = cached \union WrittenPages(Position, n)
          /\ dirty' = dirty \union WrittenPages(Position, n)
    /\ i' = i + 1
    /\ UNCHANGED <<pc, mapped, sampleVars>>

\* The kernel writes pages to the disk, and may take pages that are there out of
\* the cache.
WriteBack ==
    /\ pc = "write"
    /\ dirty' \in SUBSET dirty
    /\ cached' \in {c \in SUBSET cached : dirty' \subseteq c}
    /\ UNCHANGED <<pc, i, file, mapped, sampleVars, failures>>

\* A defect: the cache is not dropped.
DropCache_Missing ==
    /\ pc = "write"
    /\ i = NChunks
    /\ pc' = "map"
    /\ UNCHANGED <<i, fileVars, sampleVars, failures>>

\* fclose() and system(SHELLSCRIPT): drop_caches takes every page out of the cache
\* but those that are not yet on the disk, and there is no sync before it.
DropCache ==
    /\ pc = "write"
    /\ i = NChunks
    /\ cached' = cached \intersect dirty
    /\ pc' = "map"
    /\ UNCHANGED <<i, file, dirty, mapped, sampleVars, failures>>

\* open(), fstat() and mmap(); exit(1) or exit(2).
Map ==
    /\ pc = "map"
    /\ \/ size > 0 /\ pc' = "sample" /\ UNCHANGED failures
       \/ size = 0 /\ pc' = "exited" /\ UNCHANGED failures
       \/ pc' = "exited" /\ Fails
    /\ i' = 0
    /\ UNCHANGED <<fileVars, sampleVars>>

\* A defect: a generator of numbers as large as the file.
Draws_Wide == 0..size
\* rand() % (size + 1).
Draws == 0..(IF size < RandMax THEN size ELSE RandMax)

\* The start of a sample.  Where num + PAGESIZE exceeds an int the behaviour is
\* undefined: it wraps around, and j <= num + PAGESIZE is false at once, or the
\* compiler has widened j and its bound.
StartSample ==
    /\ pc = "sample"
    /\ i < NIterations
    /\ num' \in Draws
    /\ wraps' \in (IF num' + PageSize > RandMax THEN BOOLEAN ELSE {FALSE})
    /\ pages' = {} /\ faults' = 0 /\ disk' = 0
    /\ pc' = "touch"
    /\ UNCHANGED <<i, fileVars, failures>>

\* A defect: j < num + PAGESIZE.
SamplePages_Less == {k \div PageSize : k \in num..num + PageSize - 1}
SamplePages == {k \div PageSize : k \in num..num + PageSize}

\* The next page of the sample.
Untouched == {p \in SamplePages \ pages : \A q \in SamplePages \ pages : p <= q}

\* c = mapped[j], for the first byte of a page.  A page that is not mapped
\* is a fault, one that is not in the cache either a read from the disk.
Touch ==
    /\ pc = "touch" /\ ~wraps
    /\ \E p \in Untouched \intersect FilePages :
          /\ pages' = pages \union {p}
          /\ IF p \in mapped
             THEN UNCHANGED <<faults, disk, cached, mapped>>
             ELSE /\ faults' = faults + 1
                  /\ disk' = disk + IF p \in cached THEN 0 ELSE 1
                  /\ cached' \in {c \in SUBSET FilePages : p \in c}
                  /\ mapped' \in {m \in SUBSET cached' : p \in m}
    /\ UNCHANGED <<pc, i, file, dirty, num, wraps, failures>>

\* Behind the last page of the file: SIGBUS, SIGSEGV, or whatever else is mapped
\* there.
TouchBeyond ==
    /\ pc = "touch" /\ ~wraps
    /\ \E p \in Untouched \ FilePages : pages' = pages \union {p}
    /\ pc' \in {"touch", "crashed"}
    /\ UNCHANGED <<i, fileVars, num, wraps, faults, disk, failures>>

\* The end of the loop: duration_per_iteration[i] = end_time - start_time.
EndSample ==
    /\ pc = "touch"
    /\ wraps \/ Untouched = {}
    /\ i' = i + 1
    /\ pc' = "sample"
    /\ UNCHANGED <<fileVars, sampleVars, failures>>

\* The durations go to output.txt, or exit(1).
Report ==
    /\ pc = "sample"
    /\ i = NIterations
    /\ \/ pc' = "done" /\ UNCHANGED failures
       \/ pc' = "exited" /\ Fails
    /\ UNCHANGED <<i, fileVars, sampleVars>>

Terminated == pc \in {"done", "exited", "crashed"} /\ UNCHANGED vars

Next ==
    \/ Create \/ WriteChunk \/ WriteBack \/ DropCache \/ Map
    \/ StartSample \/ Touch \/ TouchBeyond \/ EndSample
    \/ Report \/ Terminated

Spec == Init /\ [][Next]_vars

-----------------------------------------------------------------------------
TypeOK ==
    /\ pc \in {"create", "write", "map", "sample", "touch", "done", "exited", "crashed"}
    /\ i \in 0..NChunks \union 0..NIterations
    /\ file \in Seq({"A", "other", "hole"}) /\ size <= NChunks * Chunk + MaxExtra
    /\ dirty \subseteq FilePages /\ cached \subseteq FilePages /\ mapped \subseteq cached
    /\ num \in 0..RandMax /\ wraps \in BOOLEAN
    /\ pages \subseteq PagesOf(RandMax + PageSize + 1)
    /\ disk \in 0..faults /\ faults \in 0..Cardinality(pages)
    /\ failures \in 0..MaxFailures

\* "creating a large file": however much fprintf() writes behind each chunk, if no
\* call fails the file is complete, every byte up to NChunks * Chunk from the
\* buffer, and only what follows the last chunk comes from elsewhere.
FileFilled ==
    pc \notin {"create", "write", "crashed"} /\ failures = 0 =>
        /\ size \in NChunks * Chunk..NChunks * Chunk + MaxExtra
        /\ \A k \in 1..NChunks * Chunk : file[k] = "A"

\* A sample takes the time of two pages and never of one, which "size of pages
\* in linux" suggests: it reads a byte more than a page.  If the end of the loop
\* wrapped around it takes the time of none.
TwoPagesOrNone ==
    pc = "sample" /\ i > 0 => Cardinality(pages) = IF wraps THEN 0 ELSE 2

\* No sample leaves the file, as long as it is complete and larger than
\* RAND_MAX and a page.  Only the range of rand() sees to that, since size itself
\* is among the numbers that may be drawn.
StaysInFile ==
    failures = 0 /\ NChunks * Chunk > RandMax + PageSize => pages \subseteq FilePages

\* The first page that the program touches comes from the disk, whatever the
\* kernel wrote back and took away before, unless the page was not yet on the disk
\* when the cache was dropped: the program does not wait for its own writes.
FirstFromDisk ==
    pc = "touch" /\ i = 0 /\ num \div PageSize \in (pages \intersect FilePages) \ dirty =>
        disk > 0
=============================================================================
