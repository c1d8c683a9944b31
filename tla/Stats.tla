-------------------------------- MODULE Stats --------------------------------
(***************************************************************************)
(* The statistics every program ends with: an array of cycle counts, its   *)
(* average and its variance, in unsigned 64-bit integers.  The copies of   *)
(* this code differ, so that there are six kinds of programs:              *)
(*   "length"   pipes_con.c, thread_context_switch.c, rtt.c and            *)
(*              connOverhead.c pass the length and multiply integers;      *)
(*   "pow"      contention.c, test_process_thread.c, read_file.c and       *)
(*              file_cache_size.c know the length, square with pow() and   *)
(*              divide in double;                                          *)
(*   "pointer"  call_tests.c takes sizeof(array), the size of a pointer,   *)
(*              for the length, and squares with pow();                    *)
(*   "stride"   mem_bandwidth.c does, and fills every 20th cell only;      *)
(*   "shared"   contention.c adds up the times of the processes of a       *)
(*              trial in an int, and divides that; there is no variance;   *)
(*   "loop"     access_latency_test.c times whole loops over a region of   *)
(*              memory, the first accesses left out, and divides by a      *)
(*              number of accesses computed from the region's size.        *)
(***************************************************************************)
EXTENDS Integers, FiniteSetsExt

CONSTANTS
    Width,      \* bits of u_int64_t
    IntWidth,   \* bits of int
    Mantissa,   \* bits of the mantissa of a double, 53
    Len,        \* length of the arrays
    Pointer,    \* sizeof(array), 8 in the code
    Stride,     \* distance of the cells mem_bandwidth.c fills, 20 in the code,
                \* and of those access_latency_test.c goes to, 16
    Regions,    \* memorysize, L1cachesize and L2cachesize
    Skipped,    \* accesses before the clock of the loop over L1 starts, 10
    Times       \* the durations a measurement can give

ASSUME WidthsAssumption ==
    Width \in Nat /\ IntWidth \in Nat /\ 2 <= IntWidth /\ IntWidth <= Width
ASSUME MantissaAssumption == Mantissa \in 1..Width
ASSUME LenAssumption == Len \in Nat \ {0}
ASSUME PointerAssumption == Pointer \in 1..Len
ASSUME StrideAssumption == Stride \in 1..Len
ASSUME SkippedAssumption == Skipped \in Nat
ASSUME RegionsAssumption == \A r \in Regions : r \in Nat /\ r \div Stride > 0
ASSUME TimesAssumption == Times \subseteq 0..2^Width - 1

VARIABLES
    program,    \* the kind of program
    pc,         \* "measure", "avg", "var" or "done"
    len,        \* the length of the array or the region
    skip,       \* accesses before the clock starts
    i,          \* the loop counter
    array,      \* the durations
    measured,   \* history: the cells that were filled, the accesses timed
    sum, avg, var

vars == <<program, len, skip, pc, i, array, measured, sum, avg, var>>

Programs == {"length", "pow", "pointer", "stride", "shared", "loop"}
Cells == 0..len - 1
Words == 0..2^Width - 1
Ints == -(2^(IntWidth - 1))..2^(IntWidth - 1) - 1

\* A defect: sizeof(array) for the length everywhere.
Counted_OfPointer == Pointer
Counted == IF program \in {"pointer", "stride"} THEN Pointer ELSE len
Step == IF program \in {"stride", "loop"} THEN Stride ELSE 1
Pow == program # "length"

\* Conversions to u_int64_t and to int keep the low bits.
Wrap(x) == x % 2^Width
ToInt(x) ==
    LET low == x % 2^IntWidth
    IN  IF low >= 2^(IntWidth - 1) THEN low - 2^IntWidth ELSE low

\* Division of integers in C rounds towards zero.
Quotient(x, n) == IF x >= 0 THEN x \div n ELSE -((-x) \div n)

\* How far numbers of the size of x are from each other in double.
Unit(x) == LET e == CHOOSE e \in 0..x : 2^Mantissa * 2^e > x /\ (e > 0 => 2^Mantissa * 2^(e - 1) <= x)
           IN  2^e

\* What becomes of x / n in double: x \div n while x has at most Mantissa bits, then
\* a number some units from it, and any if that may not fit into 64 bits.
InDouble(x, n, units) ==
    LET error == units * n * Unit(x)
    IN  IF x < 2^Mantissa THEN {x \div n}
        ELSE {y \in Words : x + error >= n * 2^Width \/ n * y \in x - error..x + error}

\* Cells that the program never fills keep what malloc() or the stack held;
\* what the others held is never read.
Init ==
    /\ program \in Programs
    /\ IF program = "loop" THEN len \in Regions /\ skip \in {0, Skipped} /\ len \div Stride > skip
                           ELSE len = Len /\ skip = 0
    /\ pc = "measure"
    /\ i = 0
    /\ array \in {a \in [Cells -> Times \union {0}] : \A c \in Cells : c % Step = 0 \/ program = "loop" => a[c] = 0}
    /\ measured = {}
    /\ sum = 0
    /\ avg = 0
    /\ var = 0

\* A defect: "<=" for "<" in the loop's test.
Measure_OneMore ==
    /\ pc = "measure"
    /\ i <= len
    /\ \E t \in Times : array' = [array EXCEPT ![i] = t]
    /\ measured' = measured \union {i}
    /\ i' = i + Step
    /\ UNCHANGED <<program, len, skip, pc, sum, avg, var>>

\* array[i] = end - start; or an access of the loop, which is timed once the
\* clock runs.
Measure ==
    /\ pc = "measure"
    /\ i < len
    /\ \E t \in Times : array' = [array EXCEPT ![i] = t]
    /\ measured' = IF i >= skip * Step THEN measured \union {i} ELSE measured
    /\ i' = i + Step
    /\ UNCHANGED <<program, len, skip, pc, sum, avg, var>>

\* The call of getAvg().
CallGetAvg ==
    /\ pc = "measure" /\ program # "loop"
    /\ i >= len
    /\ pc' = "avg"
    /\ i' = 0
    /\ sum' = 0
    /\ UNCHANGED <<program, len, skip, array, measured, avg, var>>

Accesses == len \div Step - skip

\* The end of the loop: the difference of the clocks is the time of the accesses
\* between them.
ReportLoop ==
    /\ pc = "measure" /\ program = "loop"
    /\ i >= len
    /\ sum' = Wrap(MapThenSumSet(LAMBDA c : array[c], measured))
    /\ avg' = sum' \div Accesses
    /\ pc' = "done"
    /\ UNCHANGED <<program, len, skip, i, array, measured, var>>

\* sum += array[i].  An int is converted to 64 bits, added to, and converted back.
AddTime ==
    /\ pc = "avg"
    /\ i < Counted
    /\ sum' = IF program = "shared" THEN ToInt(Wrap(sum) + array[i]) ELSE Wrap(sum + array[i])
    /\ i' = i + 1
    /\ UNCHANGED <<program, len, skip, pc, array, measured, avg, var>>

\* sum / n, or (double) sum / (double) n, which rounds sum and the quotient.
Divided(n) == IF program = "pow" THEN InDouble(sum, n, 1) ELSE {Wrap(Quotient(sum, n))}

\* A defect: getVar() goes on with the sum of getAvg().
ReturnAvg_KeepsSum ==
    /\ pc = "avg"
    /\ i = Counted
    /\ avg' \in Divided(Counted)
    /\ pc' = IF program = "shared" THEN "done" ELSE "var"
    /\ i' = 0
    /\ UNCHANGED <<program, len, skip, array, measured, sum, var>>

\* The end of getAvg(), and the call of getVar(); or the division of the shared
\* sum, and the assignment to the array of 64-bit numbers.
ReturnAvg ==
    /\ pc = "avg"
    /\ i = Counted
    /\ avg' \in Divided(Counted)
    /\ pc' = IF program = "shared" THEN "done" ELSE "var"
    /\ i' = 0
    /\ sum' = 0
    /\ UNCHANGED <<program, len, skip, array, measured, var>>

\* The difference is unsigned: below the average it wraps around.  As an
\* integer its square wraps back; pow() squares the wrapped number in double, and
\* the conversions, pow() and the sum round five times.
Squared(diff) ==
    IF Pow THEN InDouble(sum + diff * diff, 1, 8) ELSE {Wrap(sum + diff * diff)}

AddSquare ==
    /\ pc = "var"
    /\ i < Counted
    /\ sum' \in Squared(Wrap(array[i] - avg))
    /\ i' = i + 1
    /\ UNCHANGED <<program, len, skip, pc, array, measured, avg, var>>

ReturnVar ==
    /\ pc = "var"
    /\ i = Counted
    /\ var' \in Divided(Counted)
    /\ pc' = "done"
    /\ UNCHANGED <<program, len, skip, i, array, measured, sum, avg>>

Terminated == pc = "done" /\ UNCHANGED vars

Next ==
    \/ Measure \/ CallGetAvg
    \/ ReportLoop
    \/ AddTime \/ ReturnAvg
    \/ AddSquare \/ ReturnVar
    \/ Terminated

Spec == Init /\ [][Next]_vars

-----------------------------------------------------------------------------
TypeOK ==
    /\ program \in Programs
    /\ len \in {Len} \union Regions /\ skip \in {0, Skipped}
    /\ pc \in {"measure", "avg", "var", "done"}
    /\ i \in 0..len + Stride
    /\ array \in [Cells -> Words]
    /\ measured \subseteq Cells
    /\ sum \in (IF program = "shared" THEN Ints ELSE Words) /\ avg \in Words /\ var \in Words

\* Programs that know how much they have measured.  sizeof(array) is not the length
\* of an array, and the loop has an access more than its time is divided by if the
\* stride does not divide the region.
KnowsLength ==
    \/ program \in {"length", "pow", "shared"}
    \/ program = "loop" /\ len % Stride = 0

Total(f(_)) == MapThenSumSet(f, measured)
TrueSum == Total(LAMBDA c : array[c])
TrueAvg == TrueSum \div Cardinality(measured)
TrueSquares == Total(LAMBDA c : (array[c] - TrueAvg) * (array[c] - TrueAvg))

Fits ==
    TrueSum < 2^(CASE program = "shared" -> IntWidth - 1
                   [] program = "pow" -> Mantissa
                   [] OTHER -> Width)

\* "Returns the average of the array", "divide by number of accesses": every program
\* that knows its length reports the average of all that was measured and of nothing
\* else, as long as the sum fits into the int, the double or the 64 bits it goes through.
AverageIfItFits ==
    pc \in {"var", "done"} /\ KnowsLength /\ Fits => avg = TrueAvg

\* "Returns the variance of the array": it does if the length is known and the sums
\* fit.  With integer squares that is so although durations below the average make the
\* unsigned difference wrap around; with pow() it takes that none is below it.
VarianceIfItFits ==
    /\ pc = "done" /\ program \in {"length", "pow"} /\ Fits
    /\ TrueSquares < 2^(IF Pow THEN Mantissa ELSE Width)
    /\ Pow => \A c \in measured : array[c] >= avg
    => var = TrueSquares \div Cardinality(measured)
=============================================================================
