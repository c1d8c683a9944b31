--------------------------------- MODULE Rtt ---------------------------------
(***************************************************************************)
(* networkoperations/rtt.c and rtt-server.c: the round trip time.  For     *)
(* every sample the client opens a connection, sends DataSize bytes, reads *)
(* the answer with one recv() and closes; if the answer is not DataSize    *)
(* bytes long it tries again for the same slot.  The server reads with one *)
(* recv() into a buffer it cleared once, copies the buffer as a C string   *)
(* and sends the copy.                                                     *)
(*                                                                         *)
(* TCP delivers a message in pieces of its choice, so a recv() may be      *)
(* short.  All messages consist of the same letter, so of the server's     *)
(* buffer it matters how long its prefix without a NUL is; how many bytes  *)
(* of an answer belong to this very connection is kept beside it.          *)
(***************************************************************************)
EXTENDS Integers

CONSTANTS
    NIterations,   \* N_iterations: the slots to fill
    DataSize,      \* DATA_SIZE, 56 in the code
    MaxShort,      \* bound: how many recv() calls may be short
    MaxFailures    \* bound: how many calls of the two programs may fail

ASSUME NIterationsAssumption == NIterations \in Nat \ {0}
ASSUME DataSizeAssumption == DataSize \in Nat \ {0}
ASSUME MaxShortAssumption == MaxShort \in Nat
ASSUME MaxFailuresAssumption == MaxFailures \in Nat

VARIABLES
    client,     \* where the client is
    i,          \* its slot, counted from 1
    conn,       \* how many connections it has opened
    slots,      \* slots it has stored: slot |-> bytes of the answer that were its own
    server,     \* where the server is
    serving,    \* the connection the server accepted last
    unread,     \* bytes of the served connection that its recv() left behind
    prefix,     \* length of the prefix of client_message without a NUL
    fresh,      \* bytes of client_message from the served connection
    answer,     \* what travels back: length and own bytes, or a reset or an end
    short, failures

clientVars == <<client, i, conn, slots>>
serverVars == <<server, serving, unread, prefix, fresh>>
vars == <<clientVars, serverVars, answer, short, failures>>

ClientPCs == {"connect", "recv", "done", "failed"}
ServerPCs == {"start", "accept", "recv", "send", "close", "exited"}

\* An answer of len bytes, own of them received on this connection.  After
\* the bytes, or instead of them, the client finds the connection closed.
NoAnswer == [len |-> 0, own |-> 0, closed |-> FALSE]

Init ==
    /\ client = "connect"
    /\ i = 1
    /\ conn = 0
    /\ slots = [s \in {} |-> 0]
    /\ server = "start"
    /\ serving = 0
    /\ unread = 0
    /\ prefix = 0
    /\ fresh = 0
    /\ answer = NoAnswer
    /\ short = 0
    /\ failures = 0

-----------------------------------------------------------------------------
(* The client. *)

\* connect() succeeds once the server listens, be it busy or not, and is
\* refused before that or after the server's end.
Connect ==
    /\ client = "connect"
    /\ IF server \in {"start", "exited"}
       THEN /\ client' = "failed"
            /\ UNCHANGED <<conn, answer>>
       ELSE /\ client' = "recv"
            /\ conn' = conn + 1
            /\ answer' = NoAnswer
    /\ UNCHANGED <<i, slots, serverVars, short, failures>>

\* socket() returns -1: return 1.
SocketFails ==
    /\ client = "connect"
    /\ failures < MaxFailures
    /\ failures' = failures + 1
    /\ client' = "failed"
    /\ UNCHANGED <<i, conn, slots, serverVars, answer, short>>

\* How many bytes one recv() of up to n bytes returns.
Received(n, k) ==
    /\ k \in 1..n
    /\ IF k = n THEN UNCHANGED short ELSE short < MaxShort /\ short' = short + 1

\* A defect: the slot of a failed round trip is not tried again.
Retry_NextSlot == i + 1
Retry == i

\* The head of the loop.
NextSlot(j) == IF j > NIterations THEN "done" ELSE "connect"

\* A defect: recv() is called again until it returns something.
Recv_Insists ==
    /\ client = "recv"
    /\ \E k \in 1..DataSize :
          /\ answer.len > 0
          /\ Received(IF answer.len < DataSize THEN answer.len ELSE DataSize, k)
          /\ IF k = DataSize
             THEN /\ slots' = [s \in DOMAIN slots \union {i} |->
                                  IF s = i THEN answer.own ELSE slots[s]]
                  /\ i' = i + 1
             ELSE /\ i' = Retry
                  /\ UNCHANGED slots
    /\ client' = NextSlot(i')
    /\ UNCHANGED <<conn, serverVars, answer, failures>>

\* A defect: recv() does not wait, and what it returns is not looked at.
Recv_NoWait ==
    /\ client = "recv"
    /\ slots' = [s \in DOMAIN slots \union {i} |-> IF s = i THEN answer.own ELSE slots[s]]
    /\ i' = i + 1
    /\ client' = NextSlot(i')
    /\ UNCHANGED <<conn, serverVars, answer, short, failures>>

\* recv() returns the answer, part of it, or nothing; then close().  Any
\* length but DataSize is a dropped packet: i -= 1; continue.
Recv ==
    /\ client = "recv"
    /\ \/ \E k \in 1..DataSize :
             /\ answer.len > 0
             /\ Received(IF answer.len < DataSize THEN answer.len ELSE DataSize, k)
             /\ IF k = DataSize
                THEN /\ slots' = [s \in DOMAIN slots \union {i} |->
                                     IF s = i THEN answer.own ELSE slots[s]]
                     /\ i' = i + 1
                ELSE /\ i' = Retry
                     /\ UNCHANGED slots
       \/ /\ answer.closed
          /\ i' = Retry
          /\ UNCHANGED <<slots, short>>
    /\ client' = NextSlot(i')
    /\ UNCHANGED <<conn, serverVars, answer, failures>>

-----------------------------------------------------------------------------
(* The server. *)

\* socket(), bind() and listen().
Listen ==
    /\ server = "start"
    /\ server' = "accept"
    /\ UNCHANGED <<clientVars, serving, unread, prefix, fresh, answer, short, failures>>

\* accept() takes the client's next connection.
Accept ==
    /\ server = "accept"
    /\ serving < conn
    /\ server' = "recv"
    /\ serving' = serving + 1
    /\ UNCHANGED <<clientVars, unread, prefix, fresh, answer, short, failures>>

\* A defect: the server answers without having read.
ServerRecv_TakesNothing ==
    /\ server = "recv"
    /\ server' = "send"
    /\ prefix' = DataSize
    /\ fresh' = 0
    /\ unread' = DataSize
    /\ UNCHANGED <<clientVars, serving, answer, short, failures>>

\* recv() overwrites the head of client_message and leaves the rest of it as
\* the connections before have written it.
ServerRecv ==
    /\ server = "recv"
    /\ server' = "send"
    /\ \E k \in 1..DataSize :
          /\ Received(DataSize, k)
          /\ fresh' = k
          /\ unread' = DataSize - k
          /\ prefix' = IF prefix < k THEN k ELSE prefix
    /\ UNCHANGED <<clientVars, serving, answer, failures>>

\* strcpy(), strlen() and send().  A full buffer has no NUL: strcpy() reads
\* on and writes past server_message.  Either a NUL follows, or more bytes are
\* sent, or the server crashes.
ServerSend ==
    /\ server = "send"
    /\ \/ /\ server' = "close"
          /\ \E len \in (IF prefix < DataSize THEN {prefix} ELSE {DataSize, DataSize + 1}) :
                answer' = [len |-> len, own |-> fresh, closed |-> FALSE]
       \/ /\ prefix = DataSize
          /\ server' = "exited"
          /\ answer' = [NoAnswer EXCEPT !.closed = TRUE]
    /\ UNCHANGED <<clientVars, serving, unread, prefix, fresh, short, failures>>

\* close().  With unread bytes it resets the connection, and the answer may
\* be lost on the client's side.
ServerClose ==
    /\ server = "close"
    /\ server' = "accept"
    /\ answer' = IF serving = conn /\ client = "recv"
                 THEN [answer EXCEPT !.closed = @ \/ unread > 0] ELSE answer
    /\ UNCHANGED <<clientVars, serving, unread, prefix, fresh, short, failures>>

\* socket(), bind(), listen(), recv() or send() returns -1: return -1; accept()
\* does: the loop ends, return 0.  A connection that has no answer yet never gets
\* one; an answer that was sent still arrives.
ServerFail ==
    /\ server \in {"start", "accept", "recv", "send"}
    /\ failures < MaxFailures
    /\ failures' = failures + 1
    /\ server' = "exited"
    /\ answer' = IF server = "accept" /\ serving = conn
                 THEN answer ELSE [NoAnswer EXCEPT !.closed = TRUE]
    /\ UNCHANGED <<clientVars, serving, unread, prefix, fresh, short>>

-----------------------------------------------------------------------------
ClientStep == Connect \/ Recv
ServerStep == Listen \/ Accept \/ ServerRecv \/ ServerSend \/ ServerClose

\* The client has ended; the server sits in accept() for ever, or has ended.
Terminated ==
    /\ client \in {"done", "failed"}
    /\ server \in {"accept", "exited"}
    /\ serving = conn \/ server = "exited"
    /\ UNCHANGED vars

Next == ClientStep \/ SocketFails \/ ServerStep \/ ServerFail \/ Terminated

Spec == Init /\ [][Next]_vars

\* Both programs run; what TCP has accepted it delivers.
FairSpec == Spec /\ WF_vars(ClientStep) /\ WF_vars(ServerStep)

-----------------------------------------------------------------------------
\* In particular the slots stored are the ones before the current one, however
\* often it is tried again, so that the average is over measured values only.
TypeOK ==
    /\ client \in ClientPCs /\ server \in ServerPCs
    /\ i \in 1..NIterations + 1
    /\ conn \in Nat /\ serving \in 0..conn
    /\ DOMAIN slots = 1..i - 1
    /\ \A s \in DOMAIN slots : slots[s] \in 0..DataSize
    /\ unread \in 0..DataSize /\ prefix \in 0..DataSize /\ fresh \in 0..DataSize
    /\ answer \in [len : 0..DataSize + 1, own : 0..DataSize, closed : BOOLEAN]
    /\ short \in 0..MaxShort /\ failures \in 0..MaxFailures

\* Client and server work on the same connection: while the server reads or
\* answers one, the client waits for its answer, and the client is never more
\* than one connection ahead of the listen queue of length 1.
SameConnection ==
    /\ server \in {"recv", "send"} => serving = conn /\ client = "recv"
    /\ conn <= serving + 1

\* As long as no recv() is short, every stored slot is a full round trip: the
\* answer consists of the bytes the server received on that connection.
OwnBytesUnlessShort ==
    short = 0 => \A s \in DOMAIN slots : slots[s] = DataSize

\* The client comes to an end, however calls fail and the messages split up: its
\* retries do not go on for ever, and it is not left in recv().
ClientEnds == <>(client \in {"done", "failed"})
=============================================================================
