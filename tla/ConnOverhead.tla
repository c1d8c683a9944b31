---------------------------- MODULE ConnOverhead ----------------------------
(***************************************************************************)
(* networkoperations/connOverhead.c and connOverhead-server.c: the times   *)
(* of connection setup and teardown.  The client connects and closes       *)
(* NIterations times; the server accepts and closes.  connect() is         *)
(* answered by the kernel of the server's side, which queues the           *)
(* connection for accept(): client and server are not in step.             *)
(*                                                                         *)
(* connOverhead.c:11 defines N_iterations as 1.  The loop is written for   *)
(* any number, and so is the model; with 1 the queue never fills and       *)
(* connect() never waits for room in it.                                   *)
(***************************************************************************)
EXTENDS Integers

CONSTANTS
    NIterations,   \* N_iterations of the client
    QueueLimit,    \* connections the kernel queues for listen(socket_desc, 1)
    MaxFailures    \* bound: how many calls of the two programs may fail

ASSUME NIterationsAssumption == NIterations \in Nat \ {0}
ASSUME QueueLimitAssumption == QueueLimit \in Nat \ {0}
ASSUME MaxFailuresAssumption == MaxFailures \in Nat

VARIABLES
    client,     \* where the client is
    i,          \* its slot, counted from 1
    slots,      \* the slots with a stored connect and close time
    server,     \* where the server is
    queue,      \* how many connections wait for accept()
    accepted,   \* how many were accepted
    failures

vars == <<client, i, slots, server, queue, accepted, failures>>

Init ==
    /\ client = "connect"
    /\ i = 1
    /\ slots = {}
    /\ server = "start"
    /\ queue = 0
    /\ accepted = 0
    /\ failures = 0

Listening == server \in {"accept", "close"}

\* connect() is refused when nobody listens, and waits while the queue is full.
Connect ==
    /\ client = "connect"
    /\ IF Listening
       THEN /\ queue < QueueLimit
            /\ client' = "close"
            /\ queue' = queue + 1
       ELSE /\ client' = "failed"
            /\ UNCHANGED queue
    /\ UNCHANGED <<i, slots, server, accepted, failures>>

\* socket() returns -1: return 1.
SocketFails ==
    /\ client = "connect"
    /\ failures < MaxFailures
    /\ failures' = failures + 1
    /\ client' = "failed"
    /\ UNCHANGED <<i, slots, server, queue, accepted>>

\* A defect: "<=" for "<" in the loop's test.
Close_OneMore ==
    /\ client = "close"
    /\ slots' = slots \union {i}
    /\ i' = i + 1
    /\ client' = IF i' > NIterations + 1 THEN "done" ELSE "connect"
    /\ UNCHANGED <<server, queue, accepted, failures>>

\* close() and the two durations.
Close ==
    /\ client = "close"
    /\ slots' = slots \union {i}
    /\ i' = i + 1
    /\ client' = IF i' > NIterations THEN "done" ELSE "connect"
    /\ UNCHANGED <<server, queue, accepted, failures>>

\* socket(), bind() and listen().
Listen ==
    /\ server = "start"
    /\ server' = "accept"
    /\ UNCHANGED <<client, i, slots, queue, accepted, failures>>

\* A connection that its client has closed can still be accepted.
Accept ==
    /\ server = "accept"
    /\ queue > 0
    /\ server' = "close"
    /\ queue' = queue - 1
    /\ accepted' = accepted + 1
    /\ UNCHANGED <<client, i, slots, failures>>

\* A defect: the server handles one connection only.
ServerClose_Once ==
    /\ server = "close"
    /\ server' = "exited"
    /\ UNCHANGED <<client, i, slots, queue, accepted, failures>>

ServerClose ==
    /\ server = "close"
    /\ server' = "accept"
    /\ UNCHANGED <<client, i, slots, queue, accepted, failures>>

\* socket(), bind() or listen() returns -1: return -1.  accept() does, which ends
\* the loop: close(socket_desc), return 0, and what is queued is reset.
ServerFail ==
    /\ server \in {"start", "accept"}
    /\ failures < MaxFailures
    /\ failures' = failures + 1
    /\ server' = "exited"
    /\ queue' = 0
    /\ UNCHANGED <<client, i, slots, accepted>>

ClientStep == Connect \/ Close
ServerStep == Listen \/ Accept \/ ServerClose

\* The client has ended; the server sits in accept() for ever, or has ended.
Terminated ==
    /\ client \in {"done", "failed"}
    /\ server = "exited" \/ (server = "accept" /\ queue = 0)
    /\ UNCHANGED vars

Next == ClientStep \/ SocketFails \/ ServerStep \/ ServerFail \/ Terminated

Spec == Init /\ [][Next]_vars

\* Both programs run.
FairSpec == Spec /\ WF_vars(ClientStep) /\ WF_vars(ServerStep)

-----------------------------------------------------------------------------
TypeOK ==
    /\ client \in {"connect", "close", "done", "failed"}
    /\ server \in {"start", "accept", "close", "exited"}
    /\ i \in 1..NIterations + 1
    /\ slots \subseteq 1..NIterations
    /\ queue \in 0..QueueLimit
    /\ accepted \in 0..NIterations
    /\ failures \in 0..MaxFailures

\* The client ends.  If no call fails, it was refused at its first connection,
\* before the server listened, or has measured all connections; and the server
\* gets to see every one of them, the ones closed long before included.
EveryConnectionAccepted ==
    <>[](/\ client \in {"done", "failed"}
         /\ failures = 0 =>
               /\ client = "failed" => i = 1
               /\ client = "done" => slots = 1..NIterations
               /\ accepted = i - 1)
=============================================================================
