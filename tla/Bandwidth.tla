------------------------------ MODULE Bandwidth ------------------------------
(***************************************************************************)
(* networkoperations/bw_writer.c and bw_reader.c: the time to read 1 MB    *)
(* from the network.  The writer connects, sends DataSize bytes with one   *)
(* send() and closes, NIterations times; the reader accepts, reads until   *)
(* read() returns 0 or -1, and computes one duration after all of it.      *)
(***************************************************************************)
EXTENDS Integers, Sequences

CONSTANTS
    NIterations,   \* N_iterations, 1 in both programs
    DataSize,      \* DATA_SIZE in pieces
    Buffer,        \* pieces a connection holds between the two programs
    MaxFailures    \* bound: how many calls of the two programs may fail

ASSUME NIterationsAssumption == NIterations \in Nat \ {0}
ASSUME DataSizeAssumption == DataSize \in Nat \ {0}
ASSUME BufferAssumption == Buffer \in Nat \ {0}
ASSUME MaxFailuresAssumption == MaxFailures \in Nat

VARIABLES
    writer,     \* where the writer is
    conn,       \* how many connections it has opened
    sent,       \* pieces of its current message that send() has passed on
    reader,     \* where the reader is
    i,          \* the reader's loop counter, from 0
    line,       \* the connections: pieces under way, and whether closed
    total,      \* pieces read on each connection
    clock,      \* the connections between rdtsc() and rdtsc1()
    slots,      \* duration_per_iteration: index |-> connections timed
    failures

vars == <<writer, conn, sent, reader, i, line, total, clock, slots, failures>>

Conns == 1..NIterations

Init ==
    /\ writer = "connect"
    /\ conn = 0
    /\ sent = 0
    /\ reader = "start"
    /\ i = 0
    /\ line = [c \in Conns |-> [pieces |-> 0, closed |-> FALSE]]
    /\ total = [c \in Conns |-> 0]
    /\ clock = {}
    /\ slots = [s \in 0..NIterations |-> {}]
    /\ failures = 0

-----------------------------------------------------------------------------
(* The writer. *)

\* connect() is refused unless the reader listens.
Connect ==
    /\ writer = "connect"
    /\ IF reader \in {"start", "report", "done", "failed"}
       THEN writer' = "failed" /\ UNCHANGED <<conn, sent>>
       ELSE writer' = "send" /\ conn' = conn + 1 /\ sent' = 0
    /\ UNCHANGED <<reader, i, line, total, clock, slots, failures>>

\* socket() returns -1: return 1.
SocketFails ==
    /\ writer = "connect"
    /\ failures < MaxFailures
    /\ failures' = failures + 1
    /\ writer' = "failed"
    /\ UNCHANGED <<conn, sent, reader, i, line, total, clock, slots>>

\* send() passes on what the connection has room for, until all is passed on.
Send ==
    /\ writer = "send"
    /\ sent < DataSize
    /\ \E k \in 1..(DataSize - sent) :
          /\ line[conn].pieces + k <= Buffer
          /\ line' = [line EXCEPT ![conn].pieces = @ + k]
          /\ sent' = sent + k
    /\ UNCHANGED <<writer, conn, reader, i, total, clock, slots, failures>>

\* The reader has ended, its sockets closed: send() returns -1, which the
\* writer does not look at.
SendFails ==
    /\ writer = "send"
    /\ sent < DataSize
    /\ reader \in {"done", "failed"}
    /\ sent' = DataSize
    /\ UNCHANGED <<writer, conn, reader, i, line, total, clock, slots, failures>>

\* close(): the end of the file follows the data.
Close ==
    /\ writer = "send"
    /\ sent = DataSize
    /\ line' = [line EXCEPT ![conn].closed = TRUE]
    /\ writer' = IF conn < NIterations THEN "connect" ELSE "done"
    /\ UNCHANGED <<conn, sent, reader, i, total, clock, slots, failures>>

-----------------------------------------------------------------------------
(* The reader. *)

\* socket(), bind() and listen().
Listen ==
    /\ reader = "start"
    /\ reader' = "accept"
    /\ UNCHANGED <<writer, conn, sent, i, line, total, clock, slots, failures>>

\* accept() and rdtsc(): the start of the previous connection is overwritten.
Accept ==
    /\ reader = "accept"
    /\ conn > i
    /\ reader' = "read"
    /\ clock' = {i + 1}
    /\ UNCHANGED <<writer, conn, sent, i, line, total, slots, failures>>

Read ==
    /\ reader = "read"
    /\ \E k \in 1..line[i + 1].pieces :
          /\ line' = [line EXCEPT ![i + 1].pieces = @ - k]
          /\ total' = [total EXCEPT ![i + 1] = @ + k]
    /\ UNCHANGED <<writer, conn, sent, reader, i, clock, slots, failures>>

EndLoop ==
    /\ i' = i + 1
    /\ reader' = IF i' = NIterations THEN "report" ELSE "accept"

\* A defect: the loop stops when there is nothing to read just now.
EndOfData_Early ==
    /\ reader = "read"
    /\ line[i + 1].pieces = 0
    /\ EndLoop
    /\ UNCHANGED <<writer, conn, sent, line, total, clock, slots, failures>>

\* A defect: the loop goes on after read() returned 0.
EndOfData_Never ==
    /\ reader = "read"
    /\ line[i + 1].pieces = 0 /\ line[i + 1].closed
    /\ UNCHANGED vars

\* read() returns 0: break, rdtsc1() and the next connection.
EndOfData ==
    /\ reader = "read"
    /\ line[i + 1].pieces = 0 /\ line[i + 1].closed
    /\ EndLoop
    /\ UNCHANGED <<writer, conn, sent, line, total, clock, slots, failures>>

\* socket(), bind(), listen() or accept() returns -1: return 1.
ReaderFails ==
    /\ reader \in {"start", "accept"}
    /\ failures < MaxFailures
    /\ failures' = failures + 1
    /\ reader' = "failed"
    /\ UNCHANGED <<writer, conn, sent, i, line, total, clock, slots>>

\* read() returns -1, which the code treats like 0.
ReadFails ==
    /\ reader = "read"
    /\ failures < MaxFailures
    /\ failures' = failures + 1
    /\ EndLoop
    /\ UNCHANGED <<writer, conn, sent, line, total, clock, slots>>

\* After the loop: the duration goes to index i = N_iterations, one past the
\* end of the array, and getAvg() takes the average of the N_iterations before.
Report ==
    /\ reader = "report"
    /\ slots' = [slots EXCEPT ![i] = clock]
    /\ reader' = "done"
    /\ UNCHANGED <<writer, conn, sent, i, line, total, clock, failures>>

WriterStep == Connect \/ Send \/ SendFails \/ Close
ReaderStep == Listen \/ Accept \/ Read \/ EndOfData \/ Report

\* Both programs have ended, or the reader waits in accept() for ever.
Terminated ==
    /\ writer \in {"done", "failed"}
    /\ reader \in {"done", "failed"} \/ (reader = "accept" /\ conn = i)
    /\ UNCHANGED vars

Next == WriterStep \/ SocketFails \/ ReaderStep \/ ReadFails \/ ReaderFails \/ Terminated

Spec == Init /\ [][Next]_vars

\* Both programs run; the network delivers.
FairSpec == Spec /\ WF_vars(WriterStep) /\ WF_vars(ReaderStep)

-----------------------------------------------------------------------------
TypeOK ==
    /\ writer \in {"connect", "send", "done", "failed"}
    /\ reader \in {"start", "accept", "read", "report", "done", "failed"}
    /\ conn \in 0..NIterations /\ sent \in 0..DataSize /\ i \in 0..NIterations
    /\ line \in [Conns -> [pieces : 0..Buffer, closed : BOOLEAN]]
    /\ total \in [Conns -> 0..DataSize]
    /\ clock \subseteq Conns
    /\ slots \in [0..NIterations -> SUBSET Conns]
    /\ failures \in 0..MaxFailures

\* If no call fails, the time of a connection covers the whole message,
\* however the network splits it and although the reader does not count: it
\* stops at the end of the file only, which follows the data.
ReadsEverything == failures = 0 => \A c \in Conns : c <= i => total[c] = DataSize

\* Both programs end, or the writer found nobody listening: a reader
\* that gives up does not leave the writer blocked in send().
BothEnd == <>(writer = "failed" \/ (writer = "done" /\ reader \in {"done", "failed"}))
=============================================================================
