# Verification of OS-sys-measurement

The repository measures an operating system: small C programs that time
procedure calls, context switches, memory, networking and file reads with the
processor's time stamp counter. Their correctness question is always the same:
*is the number a program prints the time of what the program says it measured?*
That depends on who runs while the clock runs (processes, threads, client and
server), on what is left over from an earlier sample (children, descriptors,
the page cache, buffers), on failing calls, and on the arithmetic at the end.

This directory holds TLA+ models of these programs, TLC configurations that
check them, and TLAPS proofs of what the modules claim for every size and number.
`PROJECT.json` lists the runs, which definition models which lines, and for every
property a mutant: a defect of the code that makes the property fail.

    tlc -config Contention4.cfg Contention.tla     # one of the runs
    tlapm ContentionProofs.tla                     # one of the modules of proofs

## 1. The system

There is no common library: each program carries its own copy of `rdtsc()` and
of the statistics. Programs share no state with each other, apart from client
and server pairs (TCP) and the page cache.

| program (under `src/`) | state | operations and interactions | hard behaviour | correct if |
|---|---|---|---|---|
| `filesysoperations/contention.c` | process tree, per-process loop counter, shared `int` sums in `mmap()`ed memory, page cache | fork K times, branch, wait for children, drop cache, timed read, `sum +=`, exit; main stores the sum | 2^K processes interleave; unsynchronised `+=`; failing `fork()` has no branch | a process measures after its subtree, its read is cold, a trial's sum holds this trial's times |
| `cpuoperations/pipes_con.c` | descriptors of each process, pipes, duration array | two processes bounce a byte over two pipes | blocking both ways, ends never closed, descriptors leak, exits in mid-exchange | strict turn taking, no stored duration without a full exchange |
| `cpuoperations/thread_context_switch.c` | global `fd`, `fd2`, `x`, thread handles | two threads bounce a byte; main joins and closes | globals changed between trials, unchecked `pthread_create()` | a thread uses only its trial's pipes and slot |
| `networkoperations/rtt.c`, `rtt-server.c` | slot counter, connections, the server's buffer | connect, send, recv, close; retry on a short answer | short `recv()`, unlimited retries, stale buffer | slots in order, same connection on both sides, the client ends |
| `networkoperations/connOverhead.c`, `-server.c` | listen queue, slots | connect and close, accept and close | the kernel accepts before the server does | nothing measured is lost |
| `networkoperations/bw_writer.c`, `bw_reader.c` | bytes under way, loop counter | one large send, reads to the end of file | partial reads, blocking send, early end | the time covers the whole message, both end |
| `filesysoperations/read_file.c`, `read_file_remote.c` | file offset, cache, block count | sequential pass and pass at random | unsigned arithmetic for block counts, cache left by the pass before | every block once, sum divided by the number of reads, cold start |
| `filesysoperations/file_cache_size.c` | the same without dropping the cache | sequential passes; for huge files one `fread()` of a new stream | trials depend on what the trial before left cached | warm from the second trial on if it fits |
| `cpuoperations/test_process_thread.c` | child, thread handle, buffer of stdout | fork, wait; create, join; printf | buffer inherited by `fork()`, failed calls not looked at | nobody left over, no line lost but by a crash |
| `cpuoperations/call_tests.c`, `memoryoperations/mem_bandwidth.c` | arrays of durations | timed loops, `getAvg()`, `getVar()` | `sizeof` of a parameter, stride, wrap-around | average and variance of what was measured |
| `memoryoperations/page_fault.c` | a file, its pages in the cache and in the program's map | write a file, drop the cache, map it, touch a page's worth of bytes at random places | `fprintf()` of a buffer without a NUL, a sample longer than a page, `int` overflow of its end, dirty pages that stay in the cache | the file is complete, a sample stays in it, the first fault reads the disk unless the page had not got there |
| `memoryoperations/access_latency_test.c` | one array | timed loops over the array with a stride | the accesses timed and the number they are divided by are two computations | the average is over what was timed |
| `filesysoperations/testread.c` | a pipe to `ssh` | reads a stream it has closed | - | not modelled |

Notebooks, reports, result files and the data files under `fileread/`,
`filecaches/` and `contention/` hold no program logic.

## 2. The modules

Order is by importance: the contention experiment first, since it has by far
the most interleavings and its results are the hardest to trust.

### Contention (contention.c, the core)

A process is named by its history, the set of `fork()` calls that returned 0 in
it or an ancestor; the call `<<t, i>>` is the i-th of trial t. So `Proc` is
`SUBSET Calls`, main is `{}`, `Children` and `Descendant` are set expressions,
and the branch a process takes follows from its name (`Mine`, `BranchTable`,
which lists the four `if / else if` chains of lines 142-588 in their order).
`K` selects the section (2, 4, 8 or 16 processes).

| action | code (four-process section) |
|---|---|
| `Reset` | `*four_agg_time = 0` (197) |
| `Fork`, `ForkFails` | the K calls (199-200), each a step of its own |
| `TakeBranch`, `FallThrough` | the chain (203-235); no branch accepts -1 |
| `Reap`, `EndWait` | `while (wait(NULL) > 0)`; when it returns -1 the process goes on to `open()` and `seq_time()` up to `system(SHELLSCRIPT)` |
| `ReadBlock` | the timed `read()` of `seq_time()` |
| `Load`, `Store` | the two halves of `*four_agg_time +=`, then `exit(0)` except in main's branch |
| `Record` | `four_proc_times[c] = ...`, the loop's end; also by a child that no branch accepted |
| `Leave` | what such a child runs after the section, as one step |

The sum is symbolic: the set of samples `<<process, trial>>` in it. A lost or a
foreign addition is then visible without any arithmetic (which `Stats` models).
`EndWait` joins three calls that change nothing another process can see except
the page cache, at the moment they drop it. A `read()` that fails leaves its loop with
the time 0 and nothing in the cache: the sample then stands for that 0.

A child that no branch accepts, since one of its `fork()` calls returned -1, goes on
with the loop, as main does, and forks a tree of its own in every later trial, which
adds to a sum in the same shared memory. After the last trial it also runs the rest
of `main()`: the statistics and the later sections, with trees and sums of their own
that no process of this section meets. They are abstracted to one step (`Leave`) after
which the process has returned and is a zombie.

`FailingTrials` and `FailingForks` bound in which trials, and which of the K calls, a
`fork()` may fail, so that one run can combine two trials with failures; every choice
is a possible behaviour of the kernel, and the theorems hold for every one.

### PipesCon, ThreadSwitch and their abstract specification PingPong

`PipesCon` keeps the descriptors each process has open, since `read()` and
`write()` behave by who holds the other end; `pipe()` fails when the table is
full (`MaxFds`). Bytes are counted per pipe (`put`, `got`). `Fail` is any error
path (`fork`, `read`, `write` returning -1). `ThreadSwitch` has one table for
all threads, the globals `fd`, `fd2` and `x` as `main()` changes them, and an
uninitialised handle for a thread that was not created. `PingPong` says what a
switch measurement needs: a side moves only after the other has answered.
`TakeTurns` in `PipesCon` is `Exchange!Spec`, the instance of `PingPong` under the
refinement mapping round = `x`, sent and returned = `put` of the two pipes;
`TakeTurnsUnlessFailed` in `ThreadSwitch` is the same for steps before the first
failure (after one, main goes on to a next trial that lacks a round trip).

### Rtt, ConnOverhead, Bandwidth

Two programs each and what TCP does between them, seen from the calls: a
connection is answered once the server listens, a message arrives in pieces of
any size, an end of file follows the data, and a close with unread bytes may
reset. `Rtt` keeps of the server's buffer how long its prefix without a NUL is
and how many bytes of it are from this connection. Failing calls on either side are
actions (`SocketFails`, `ServerFail`, `ReaderFails`, `ReadFails`).
`ConnOverhead` and `Bandwidth` have N_iterations as a constant, but in both programs
the code has 1 (`connOverhead.c:11`, `bw_writer.c:14`). The run of `ConnOverhead` is of
the same loops with nine connections, a generalisation: with one connection the
listen queue is never full, and a server that accepts once and ends would do. With 2
connections and a reader that gives up early the two programs of `Bandwidth` would
wait for each other, and its run uses the code's value. A server of `Rtt` that fails
resets the connection, which may discard an answer that is already on its way.

### ReadBlocks, PageFault, Stats, ProcThread

`ReadBlocks` covers `read_file.c` with its copy `read_file_remote.c`, and
`file_cache_size.c`, with its sections up to 2 GB as one program and the three
for 8, 16 and 32 GB, which time a single `fread()` of 4 kB, as another; the
variable `program`, chosen in `Init`, says which. A
time is a unit; the model counts the timed reads, those the cache answered, and
the number the sum is divided by. Words have `Width` bits, so that the block
count of an empty file wraps around as in the code. The cache is that of the machine
the program runs on, the only one the script drops: behind `read_file_remote.c` there
is also the file server's, which may answer what is "cold" here.

`Stats` covers the six kinds of statistics code, again with `program`, in words of
`Width` and an `int` of `IntWidth` bits. Where the code goes through `double` (the
squares of `pow()`, `(double) sum / (double) n`), `InDouble` gives the exact result
while it has at most `Mantissa` bits, a number some units of the last place from it
beyond that, and any where it may not fit back into 64 bits. Its sixth kind is
`access_latency_test.c`, which has no array of durations: `measured` is then the set
of accesses between the two clocks, and `Accesses` the number the code divides by.

`PageFault` keeps the file byte by byte, since what `fprintf()` writes behind a
chunk is put right by the chunk after it; `Overwritten` is `fseek()` and the write.
What is written goes to the page cache and is `dirty` until the kernel writes it back,
whenever it does (`WriteBack`, which may also take pages away). `DropCache` takes out
of the cache what is on the disk and leaves the rest: there is no `sync` before it.
The kernel's part in the samples is left open too: what it reads ahead, maps
around a fault or takes away again (`Touch`). A step of the sample is a page, not a
byte. Beyond the last page a touch may crash or not. The bytes that follow a chunk up
to a NUL are any but `%`, which `fprintf()` would take for a conversion.

`ProcThread` numbers the lines as they are printed: `buf` are those in main's buffer of
stdout, `childBuf` those in the copy a child inherits, and `out` counts how often each
line is on stdout. A crash loses what is in the buffer.

## 3. The runs

| run | module, bounds | what it shows |
|---|---|---|
| `contention_four` | Contention, K=2, 2 trials, the second call failing in one of them, fairness | `ReadExclusion`: past its wait loop a process is alone with its subtree gone, grandchildren included. `HalfAtOnce`: at most half the processes measure together, so the "4 process" contention is between 2. `ColdRead`: the block about to be timed is not in the cache. `OwnTrialOnlyUnlessForkFails`, `CountsMainAndAChild`: what a result can contain although additions race. `Termination` of every process, including a child that no branch accepts in the first trial and the tree it forks in the second. |
| `contention_race` | K=2, 1 trial; violation | `SumComplete`, what the comment at line 36 promises, fails: two processes load the same sum |
| `contention_foreign` | K=2, 2 trials, 1 failure; violation | `OwnTrialOnly`, what line 198 promises, fails: main does not wait after a failed `fork()`, a child adds to the next trial's sum |
| `pipes` | PipesCon, 3 trials of 3, 8 descriptors, 2 failures | `TakeTurns` (implements PingPong), `SampleComplete`, `Completion`; no byte is read before it is written and no more descriptors held than fit (in `TypeOK`) |
| `threads` | ThreadSwitch, 3 trials of 3, 3 failures | `OwnSlot`, `OwnPipes`, `TakeTurnsUnlessFailed`, `Completion` |
| `rtt` | 3 slots, 3 bytes, 2 short recv, 1 failure | `SameConnection`, `OwnBytesUnlessShort`, `ClientEnds`; slots in order (in `TypeOK`) |
| `connections` | 9 connections (the code: 1), queue of 2, 1 failure | `EveryConnectionAccepted`: the server accepts, though after the fact, all that was measured |
| `bandwidth` | 1 connection, 6 pieces, room for 4, 1 failure | `ReadsEverything`, `BothEnd` |
| `read_blocks` | files of 0 to 7 bytes, blocks of 2, cache of 3, 3 trials, 1 failure | `EntireFileInSequence`, `CrashesWithoutData`, `ColdOrWarm`, `AveragePerBlockUnlessFailed` |
| `page_fault` | 4 chunks of 2 bytes with up to 3 behind each, pages of 3, numbers up to 4, 2 samples, 1 failure | `FileFilled`, `TwoPagesOrNone`, `StaysInFile`; `FirstFromDisk`: dropping the cache makes the first touch a read from the disk, except of a page not yet written back |
| `stats` | 3 cells, regions of 2 to 5, 5-bit words, 4-bit int and mantissa, 5 durations | `AverageIfItFits`, `VarianceIfItFits`, of the programs that know how much they measured |
| `processes_threads` | 2 + 2 trials of 3, buffers of 0 to 2 lines, 2 failures | `NobodyLeft`, `NoLineLost`, `MissingRunsFailed` |

Why the bounds are enough. Contention: two trials are needed for anything to
leak from one to the next, and K=2 is the first section with a grandchild, with
siblings, and with two processes that share no wait; K=3 and 4 interleave too
much for TLC, and are covered by the theorems, which hold for every K, number
of trials and number of failures. One failure in the first trial is enough for a stray child
that goes into the second beside main, and for main to go there without having
waited; the call that fails is the second one of main or of its first child. Pipes: with 8 descriptors the third trial is
the last that fits (two leak per trial, four are needed at a time). Threads:
three trials and three failures let either thread, or both, be missing in any trial.
Rtt: two short calls let one connection's bytes surface in a later answer.
Connections: nine are many more than the queue, so that the client blocks on it.
Bandwidth: the message exceeds what the connection holds, so the writer
blocks. ReadBlocks: sizes cover the empty file, a part of a block, a multiple
of the block and one more, files that fit the cache and one that does not; three
trials give a huge file two that come after the first has read it.
PageFault: what follows a chunk may be longer than the next chunk; the file is
larger than `RandMax` plus a page, as the code's 2.5 GB are, or shorter after a
failed write, so that samples leave it; and `num + PageSize` can exceed `RandMax`.
Stats: `Times` contains values whose sums fit exactly, overflow an int, and
overflow a mantissa or a word; of the regions two are multiples of the stride and two
are not.
ProcThread: buffers of 0 (a terminal) up to 2 lines (full within a trial).

Deadlock is checked except in `pipes` and `threads`: there a failed call really
does leave the other side blocked for good; `Completion` says it takes one.
Every other module has a `Terminated` step for its legal ends.

Fairness is weak fairness of each process's, thread's or program's own step: the
kernel runs whoever is runnable, `wait()`, `read()` and `pthread_join()` return
once they can, and TCP delivers what it accepted. Nothing is assumed of
failures: no action that fails a call is fair (in `contention_four` `ForkFails` is
one of the ways a fair step of a process can go, next to `Fork`).

## 4. Where code and comment disagree

Two disagreements have runs of their own (above). Others were found while
translating and are visible in the models without one:

- `rtt-server.c:65` answers with a buffer cleared once, so a short message is
  answered with bytes of an earlier one, against "receives data and returns the
  same" (line 2). `OwnBytesUnlessShort` says when it cannot happen.
- `bw_reader.c:98` stores the duration one past the array, and the average
  (line 100) is over cells nobody wrote.
- `pow()` of an unsigned difference below zero (`contention.c:123`,
  `call_tests.c:98`, `mem_bandwidth.c:41`, `test_process_thread.c:116`,
  `read_file.c:184`, `file_cache_size.c:105`): the variance is wrong as soon as one
  duration is below the average. `pipes_con.c:40-49` multiplies integers, where
  the wrap-around cancels. `VarianceIfItFits` states the second, and of `pow()` only
  what is left, that it is right where no duration is below the average.
- `sizeof(array)` of a parameter (`call_tests.c:85`, `mem_bandwidth.c:28`) is 8, against
  "Returns the average of the array" (lines 82 and 25). The first leaves out two of ten
  durations; the second averages cells 0 to 7, of which only cell 0 was written. They
  are wrong in every run. `AverageIfItFits` is about the programs that know the length
  of their array (`KnowsLength`) and claims nothing of these two.
- `access_latency_test.c:74`, "divide by number of accesses": 303 timed accesses of L1
  are divided by 302, as in every region that the stride does not divide. The
  property claims the average only of the other regions.
- `(double) sum / (double) n` (`contention.c:120`, `read_file.c:180`,
  `file_cache_size.c:102`, `test_process_thread.c:113`) rounds a sum of more than 53
  bits; the property has that limit for these programs and 64 bits for the others.
- `page_fault.c:91` reads a byte more than "size of pages in linux" (line 90):
  every sample touches two pages, or, where `num + PAGESIZE` wraps around, none
  (`TwoPagesOrNone`). `rand() % (size + 1)` (line 87) may be the size itself;
  only since the file is larger than `RAND_MAX` does no sample leave it
  (`StaysInFile`).
- `file_cache_size.c:233`: every trial with a huge file reads the same first 4 kB,
  which are in the cache from the second trial on (`ColdOrWarm`).
- `int` sums of 64-bit times (`contention.c:35-38`): `AverageIfItFits` needs the
  sum to fit.
- `file_cache_size.c:68` divides by the computed number of blocks also when a
  `read()` failed or `open()` returned -1.
- `read_file.c:113` never draws the last block, against "Reads the entire file"
  (line 108).
- `test_process_thread.c:101` counts a failed `fork()` as a run
  (`MissingRunsFailed` says what a trial's time lacks, and that a failure is charged to its
  own trial only).

## 5. The proofs

All theorems hold for every value of the constants. What they assume of them are the
named assumptions of each module (numbers are natural numbers, sizes are not 0, `K` is
in 1..4, `FailingTrials` is a set of trials and `FailingForks` one of calls), which TLC
evaluates in the runs. The `...Proofs` modules hold nothing else; each states an
inductive invariant, and is laid out as: facts about the constants and names, the
initial state, a lemma per action (or per group of actions that change the same), the
next-state relation, and the theorems.

Each of these modules stands alone, so a few lemmas about division (`Division`,
`Factor`, `Quotients`) and about sums over finite sets occur in more than one.
Facts that are usually shown by induction over data are shown through minimal
counterexamples: `NatMinimum` gives a least number with a property and
`LeastSubset` a least subset, from the well-founded order of the library, since
an induction theorem with an operator parameter cannot be used.

Two theorems come back for most components, with names of their own in each module:

- `NoStepBack`: a `Rank` of each process, or of the whole program, is a natural number,
  every step of the program lowers one and no step raises another (`Forward`). It says
  that the loops of the code end: no run of the program is infinite, whatever the
  scheduler does.
- `SomebodyGoesOn`: until the program has ended, somebody can take a step
  (`NoDeadlock`). `CanStep` says when a process is not blocked: what `wait()`, a join,
  `read()`, `recv()`, `send()` or `connect()` waits for is there. It stands for ENABLED,
  of which the prover knows nothing; a reader compares it with the guards.

Together they are the core of the liveness properties: a program whose processes
can only take so many steps, and of which some process can always take one, ends if
the scheduler lets it. The last half of that sentence is fairness, and TLC's.

| program | whose rank counts down | somebody can go on |
|---|---|---|
| contention | each process's | whichever `fork()` fails |
| pipes_con | each process's | unless a call fails |
| thread_context_switch | main's and each thread's | unless a call fails |
| rtt | client's and server's in one | whichever calls fail, however short `recv()` |
| connOverhead | the client's, the server's | whichever calls fail |
| bw_writer, bw_reader | the writer's, the reader's | unless a call fails, or if there is one connection, as in the code |
| test_process_thread | one for all | whichever calls fail, unless a join crashes it |
| read_file, file_cache_size | the one process's | sequential: nothing blocks |
| page_fault_test | the one process's | sequential: nothing blocks |

That every step goes forward holds whichever calls fail, in all of them. Where
"unless a call fails" stands, the claim is false without it, and the code is what it
is: nobody tells the other side that a process or a thread has given up.

### Contention

`ContentionProofs`, for every `K`, `NTrials`, `MaxForkFailures`, `FailingTrials` and
`FailingForks`:

- `TypeCorrect`: `Spec => []TypeOK`. The loop counter stays inside the result
  arrays, and `File(p)` exists whenever it is used (`FileType`).
- `BranchesTotal`: the chains for K = 1..4 have a branch for every combination of
  return values other than -1. Nothing but the source's own table supports
  this: 16 conditions written by hand.
- `Exclusion`: `Spec => []ReadExclusion`.

Its second part goes on from there, as long as no `fork()` failed:

- `OwnTrials`: `Spec => []OwnTrialOnlyUnlessForkFails`.
- `LeastCount`: `Spec => []CountsMainAndAChild`;
- `ColdReads`: `Spec => []ColdRead`;
- `HalfContends`: `Spec => []HalfAtOnce`;
- `TwoComplete`: `SumComplete`, which `contention_race` refutes for K = 2, holds for
  K = 1, where main waits for the only other process before it adds.

`ReadExclusion` is not inductive. The invariant is `ExclusionInv`:

- `HistoryBehind`: a born process's own calls lie behind its current position, so
  that a new child's name is new;
- `FailuresCounted`: a failed `fork()` shows in `failures`, so that while it is 0
  every process takes a branch and none falls through before waiting;
- `QuietBelow`: the descendants of a process past its wait loop are unborn or
  reaped, and so are those of an unborn process. The code waits only for
  children. That the whole subtree is gone follows since a child becomes a
  zombie past its own wait; the set lemmas `ThroughAChild`, `AncestorOfChild` and
  `ChildIsDescendant` relate children to descendants.

`OwnInv` adds to it what main being alone means for the shared sum: every process
that exists is in main's trial and was born in it (`SameTrial`), only main gets
past the chain (`OnlyMain`), and the registers and the sum hold samples of this
trial (`CurrentRegisters`, `CurrentSum`). `CountInv` adds that some child of main
has added its time last or is still to do so (`FirstCounts`): a store by a process
further down can overwrite a child's sample, but then the child of main above it
(`BelowAFirst`) has not left its wait loop, by `QuietBelow`, and adds later.

`ReadInv` adds that a process that exists was born by calls of the current trial only
(`ThisTrial`). The calls that returned 0 in it in this trial, by which the chain picks
the file, are then its whole name (`SameBirth`), and no two processes have the
same file (`OwnFile`): that makes `ColdRead` inductive. For `HalfAtOnce`, dropping
the last `fork()` from its name maps the processes that measure into the subsets of
1..K-1; it is an injection, as a process and its child by that last `fork()` never
measure together (`LastForkApart`, from the exclusion). `NameInv`, for
`TwoComplete`, says that samples in the sum are by processes born in their trial.

`NoStepBack` and `SomebodyGoesOn` hold whichever `fork()` fails, so that they cannot use
the exclusion. `OrderInv` says instead that a process is born after its parent, by a
call that is then behind the parent (`BornInOrder`): the rank of an unborn process is
more than that of any other, so that a birth lowers it. If nobody could take a step,
everybody left would be in `wait()` for a child that is left and waits as well; a
process with the most calls in its name has no such child.

### PipesCon and ThreadSwitch

`PipesConProofs`: `TypeCorrect`, `CompleteSamples` (`Spec => []SampleComplete`) and
`TurnTaking` (`Spec => TakeTurns`, the refinement of PingPong). `PipesInv` ties the
bytes put into and got from each pipe to the places of main and of the trial's
child (`ParentCounts`, `ChildCounts`), and says that a process about to read holds
the write end of the pipe it reads from (`HoldsEnds`): the code never closes it,
and so `read()` never returns 0 and no exchange is cut short without being
noticed. `NotYet` and `Stored` are about the trials to come and those stored.
Under these counts a `write()` is a step of PingPong, since the writer has got
the answer to its last byte, and every other step leaves the mapped state alone
(a new trial starts a new round).

`TypeOK` says more than types: `got[k] <= put[k]`, and that a table of descriptors holds
at most `MaxFds`. `PipesInv` rests on the types alone (`Typing`), and `Drawn` and `Table`
are invariants on top of it: a `read()` takes a byte only from a pipe that has one, and
a process that opens a pipe (`TwoMoreEnds`) had room for both ends, while `fork()` copies a
table and every other step only closes.

`NobodyKilled`, also when calls fail: whoever is to write holds the read end of the
same pipe itself (`HoldsReads`), since neither side closes the ends it does not use. The
same habit makes the program hang rather than notice when one side has given up,
which is why `SomebodyGoesOn` is about runs in which no call failed.

`ThreadSwitchProofs`: `TypeCorrect`, `PipesOfTheTrial` (`OwnPipes`), `SlotOfTheTrial`
(`OwnSlot`) and `TurnTaking` (`TakeTurnsUnlessFailed`). In `SwitchInv`, `OneTrial`
says that only threads of trial `x` are live, since main joins both before it
increments `x`; `Place` which threads exist at each place of main, the cases of a
`pthread_create()` that failed included; `ReaderCount`, `WriterCount` and `Sent` relate
bytes to places as above; `Stored` is what a finished writer leaves in its slot.
For `SomebodyGoesOn`, `Unfailed` says that main leaves its loop by the report only.

### The network programs

`NetworkProofs` is about all three pairs. It EXTENDS `Rtt`; `ConnOverhead` and
`Bandwidth` are the instances `CO` and `BW` on the same variables where the names
agree. The assumptions on their own constants, `QueueLimit` and `Buffer`, stand in
the statements.

About `Rtt`: `TypeCorrect` (slots in order, without gaps, within the array),
`OneConnection` (`SameConnection`) and `FullRoundTrips` (`OwnBytesUnlessShort`). The
key of `RttInv` is `Lockstep`: the client leaves `recv()` only with an answer, and
there is one only after the server has accepted its connection. `Unless` carries
the length of the message from the server's hand to the answer to the slot.

About `ConnOverhead`: `ConnTypeCorrect`, the listen queue within its length included.
`Queued` in `ConnInv`: what the client has opened has been accepted or is queued, exactly so
while nothing failed.

About `Bandwidth`: `BwTypeCorrect` and `Everything` (`ReadsEverything`), for any number
of connections, which the run has 1 of. In `BandInv`, `Flow` is the conservation of
data (read and under way is what was sent; less or equal once a call failed),
`Closed` says that exactly the connections the writer has left are closed, and
`LeftBehind` that the reader leaves only closed and empty ones. The last two meet
in `BwSendFailsInv`: without a failure the reader cannot have ended while the writer
sends.

`ConnTypeCorrect` and `Everything` are about definitions of the instances, `CO!TypeOK`
and `BW!ReadsEverything`: the same formulas that the runs of those modules check.

The progress of the three (`NoStepBack`, `ConnNoStepBack`, `BwNoStepBack`, and the
`SomebodyGoesOn` of each). In `Rtt` the client goes back to `connect` for the same slot
when an answer is not whole, without a limit in the code. The rank has to pay for
it: a retry follows a short `recv()`, of which there are at most `MaxShort`, or the
end of the server, of which there is one (`Spoilt`, `Credit`, `Up`; `Taken` says that
nothing else spoils a round trip). Without a bound on short `recv()` calls the client
might retry for ever; that bound is the environment's part. `Answered` is what keeps
the client in `recv()` from waiting in vain. In `Bandwidth` a failed `read()` makes the
reader leave its only connection; were there a second one the writer might fill
its line and nobody would empty it, which is why the theorem names
`NIterations = 1`.

### ProcThread

`ProcThreadProofs`: `TypeCorrect`, `NobodyLeftBehind` (`NobodyLeft`), `LinesKept`
(`NoLineLost`) and `MissingAreFailures` (`MissingRunsFailed`). `Alive` in `ProcInv`
relates child, thread and handle to main's place; `RunSoFar` bounds what ran by the
iterations begun. `Kept` is about single lines: each that was printed is on stdout, or
in main's buffer, which will yet be written; a child writes its own copy and with it
lines main still has, which is why they multiply, but none that main no longer has can
be missing. On a terminal each is there once. Only a crash empties the buffer without
writing it, and it holds at most `bufLines`. For the last theorem `MissedSoFar` splits
the failures into those of the trial under way (iterations less runs, where a call under
way counts as an iteration) and what the stored times lack. The latter is a sum over a
sequence; `LackingMore` says what one more element adds to it, from `SumTakeOut` (an
element can be taken out of a sum first, whichever the sum's own choice is).

`NoStepBack`: a call that failed is not tried again and takes its iteration with it, so
that every iteration costs at most four steps. `SomebodyGoesOn` is `Alive` read the
other way round: `wait()` has a child that ends, a join a thread that ends or none at
all, which is the crash.

### ReadBlocks

`ReadBlocksProofs`: `TypeCorrect`, `ReadsEntireFile` (`EntireFileInSequence`),
`CrashesOnlyWithoutData` (`CrashesWithoutData`), `ColdOrWarmReads` (`ColdOrWarm`) and
`AverageIsPerBlock` (`AveragePerBlockUnlessFailed`), for every size of file, block,
cache and word. The parts of `ReadInv`:

- `Bounds`, `InFile`, `Counts`: what a number can be, and that the timed reads and
  those the cache answered are counted as they are made;
- `PassKnows`: what a pass has computed is the number of the last block of its file,
  in words that wrap around where there is none;
- `InSequence`: a sequential pass has seen the blocks below its offset, and these
  only; with the divisions of `BlocksOf` and `LastBlockIs` the loop ends exactly when
  that is every block, whether the last is full or not;
- `Unfailed`: unless a call failed there is a file, and only an empty one ends a pass
  early; every round of the loop was then one timed read, and the divisor
  (`DivisorIs`) is their number;
- `FlushedFirst`, `Kept`, `FirstKept`: a pass after a flush starts with an empty cache,
  so not all its reads are answered by it; a file that fits is in the cache from the
  first trial on, and then all are; and so is the first block of a huge one;
- `Placed`, on top of these, for `TypeOK`: the offset of a file that has data is never
  beyond its end, neither after the last, partial block nor after `lseek()` to a
  block drawn at random.

`NoStepBack` is worth a proof here for one pass: that over an empty file, whose loop
counts to `2^Width - 1`. It ends since a read that returns nothing leaves the loop.

### PageFault

`PageFaultProofs`: `TypeCorrect`, `FileComplete` (`FileFilled`), `SamplesTwoPages`
(`TwoPagesOrNone`), `InsideTheFile` (`StaysInFile`) and `FirstIsCold`
(`FirstFromDisk`). `Written` in `Inv` is the invariant behind the file: before chunk
`i` its first `i * Chunk` bytes are the buffer's, whatever `fprintf()` wrote behind
them, as the next chunk begins where this one should have ended
(`OverwrittenIs`). `TwoPages` is the arithmetic of `j <= num + PAGESIZE`: a closed
interval of `PageSize + 1` bytes meets exactly two pages. `ColdAtFirst`: once the
cache was dropped, and until the first sample has touched a page, only dirty pages are
cached, so that the first touch of any other one has to read.
`Untimely` and `OwnPages` say what the cache, the map and the sample hold.

`NoStepBack` counts the pages a sample has left, at most two. While the file is written the
kernel may write pages back at any time: such a step (`WriteBack`) leaves the rank as it
is, every other lowers it.

### Stats

`StatsProofs`: `TypeCorrect`, `AverageIsRight` (`AverageIfItFits`) and `VarianceIsRight`
(`VarianceIfItFits`), for arrays and regions of every length, every width of word and
int and every set of durations. `StatsInv` says what the sum is in mid-loop of a program
that knows its length: `TimesSoFar`, the sum of the cells read, and `SquaresSoFar`, that
of the squared deviations, each only where the whole will fit. That the part fits if the
whole does is `SumGrows`. The steps of the argument:

- `DividedIs`, from `DoubleIs`: the division is that of natural numbers while the sum
  fits, also in `double`;
- `AccessesAre`: the number of accesses that `access_latency_test.c` divides by is that
  of the accesses it timed if the stride divides the region (`Timed` counts them);
- `FirstCells`: in a program that knows its length, what was measured is exactly the
  cells that `getAvg()` reads;
- `SquareOfWrapped`: the square of a difference that wrapped around is, in the
  word, that of the difference, which is why integer squares survive durations
  below the average and `pow()` needs that there are none;
- powers of two are natural numbers that grow with the exponent (`PowerType`,
  `PowerGrows`, `PowerTwice`), shown through the number of subsets of an interval.

### Only checked by TLC

All liveness (`Termination`, `Completion`, `ClientEnds`, `EveryConnectionAccepted`,
`BothEnd`): it rests on fairness and ENABLED, which the prover does not reach. What is
proved of it is the part that does not: the ranks and the absence of deadlocks above.
What TLC adds is that the fairness stated is enough to make the processes take the steps
they can take, and, for `EveryConnectionAccepted`, that the server goes on after the
client has ended. The two violations are TLC's as well. Every invariant and every action
property that a passing run checks is a theorem.

## 6. What is not modelled

- Times: a duration is a value from a small set or a unit. The models say which
  operation lies between the two counter reads and whether it could be answered
  without the device, not how long it takes. The programs do not pin themselves
  to a processor and take its counters as one clock; so do the models.
- The single-process section of contention.c, which is `seq_time()` without
  `fork()`, and a failing `open()` of the contention files: `fstat()` then leaves the
  block size uninitialised.
- A `%` among the bytes that `page_fault.c:52` happens to pass to `fprintf()` after the
  chunk: a conversion without an argument may print anything or crash.
- The page cache of the file server of `read_file_remote.c`.
- `getAvg()` of other copies than the ones mapped; they are textually the same.
- That the streams of the huge files stay open, thirty in all, far from the limit of
  descriptors.
- In `access_latency_test.c` which cache answers an access: a matter of the
  hardware; the loops are modelled as numbers of timed accesses. The same holds
  for the empty loops and calls of `call_tests.c` and the copies of
  `mem_bandwidth.c`, of which only the statistics have a state.
- The calibration in `test_process_thread.c` (72-95): one sum that is never
  initialised (line 92), printed and used for nothing else.
- `bw_reader.c:98`, the index one past the array, in every run the same; the
  model stores it in a slot of its own and makes no claim about the average.
- Counters of two processors (`pipes_con.c:126`): no program pins itself.
- `testread.c`, an experiment that reads a stream after closing it; `rdtsc()`
  itself; and the notebooks.
- Scheduling priorities, signals, and limits other than those named by a constant.

## 7. The plan

Done: the models and runs of all programs with state of their own; proofs of all the
safety properties the passing runs check; and for every program but the statistics,
which are loops over arrays, the proof that every step goes forward and, where
something blocks, that not everybody can be blocked.

Left, in this order:

1. Abstract specifications for the programs that have none yet, with the proof that
   the model implements them: a pass over a file (`ReadBlocks`) as one step that
   reads a set of blocks, and the pair of `Bandwidth` as a transfer of a message.
2. A composition of two of the programs over one page cache: `read_file.c`'s first
   pass after a run of another program, which `Init` of ReadBlocks now stands for
   by leaving any blocks in the cache.
