----------------------------- MODULE NetworkProofs -----------------------------
(***************************************************************************)
(* Proofs about the three pairs of network programs.                       *)
(*                                                                         *)
(* Rtt, for every number of slots, every message size and every bound on   *)
(* short recv() calls and failures: client and server work on the same     *)
(* connection, and a stored slot is a full round trip unless a recv() was  *)
(* short.                                                                  *)
(*                                                                         *)
(* ConnOverhead, for every number of connections, every length of the      *)
(* listen queue and every bound on failures: the client's slots and the    *)
(* listen queue stay within their bounds.                                  *)
(*                                                                         *)
(* Bandwidth, for every number of connections, every size of the message   *)
(* and of what a connection holds, and every bound on failures: the reader *)
(* gets the whole message of every connection.                             *)
(*                                                                         *)
(* At the end of the module, for all three: every step goes forward, and   *)
(* the two programs of a pair never wait for each other.                   *)
(*                                                                         *)
(* The second and the third are instances on the same variables where the  *)
(* names agree; what is assumed of the constants Rtt does not have,        *)
(* QueueLimit and Buffer, stands in the statements.                        *)
(***************************************************************************)
EXTENDS Rtt, TLAPS

\* The client leaves recv() only with an answer, and gets an answer only after
\* the server has accepted its connection and read from it.
Lockstep ==
    /\ server \in {"recv", "send"} => serving = conn /\ client = "recv" /\ answer = NoAnswer
    /\ server = "start" => conn = 0 /\ serving = 0 /\ client # "recv"
    /\ server # "exited" /\ (client # "recv" \/ answer # NoAnswer) => serving = conn
    /\ conn <= serving + 1

\* A client that goes on has a slot left.
SlotLeft == client \in {"connect", "recv"} => i <= NIterations

\* What the server has in hand and what it has sent.
InHand == server = "send" => prefix >= 1

Unless == short = 0 =>
    /\ server = "send" => fresh = DataSize
    /\ answer.len > 0 => answer.own = DataSize
    /\ \A s \in DOMAIN slots : slots[s] = DataSize

RttInv == TypeOK /\ Lockstep /\ SlotLeft /\ InHand /\ Unless

-----------------------------------------------------------------------------
LEMMA Sizes ==
    /\ NIterations \in Nat /\ NIterations >= 1 /\ DataSize \in Nat /\ DataSize >= 1
    /\ MaxShort \in Nat /\ MaxFailures \in Nat
BY NIterationsAssumption, DataSizeAssumption, MaxShortAssumption, MaxFailuresAssumption

Answers == [len : 0..DataSize + 1, own : 0..DataSize, closed : BOOLEAN]

LEMMA NoAnswerType ==
    /\ NoAnswer \in Answers /\ NoAnswer.len = 0 /\ ~NoAnswer.closed
    /\ [NoAnswer EXCEPT !.closed = TRUE] \in Answers
    /\ [NoAnswer EXCEPT !.closed = TRUE].len = 0
<1>1. 0 \in 0..DataSize /\ 0 \in 0..DataSize + 1
  BY Sizes
<1> QED
  BY <1>1 DEF NoAnswer, Answers

LEMMA InitInv == Init => RttInv
<1> SUFFICES ASSUME Init PROVE RttInv
  OBVIOUS
<1>1. DOMAIN slots = {} /\ 1..0 = {} /\ i - 1 = 0
  BY DEF Init
<1>2. TypeOK
  <2>1. 1 \in 1..NIterations + 1 /\ 0 \in 0..DataSize /\ 0 \in 0..MaxShort /\ 0 \in 0..MaxFailures
        /\ 0 \in 0..0
    BY Sizes
  <2> QED
    BY <1>1, <2>1, NoAnswerType DEF Init, TypeOK, ClientPCs, ServerPCs, Answers
<1>3. Lockstep /\ SlotLeft /\ InHand
  BY Sizes DEF Init, Lockstep, SlotLeft, InHand
<1>4. Unless
  BY <1>1, NoAnswerType DEF Init, Unless
<1> QED
  BY <1>2, <1>3, <1>4 DEF RttInv

\* connect() and socket().
LEMMA ConnectInv ==
    ASSUME RttInv, Connect \/ SocketFails
    PROVE  RttInv'
<1>1. /\ client = "connect" /\ i' = i /\ slots' = slots /\ server' = server
      /\ serving' = serving /\ unread' = unread /\ prefix' = prefix /\ fresh' = fresh
      /\ short' = short
  BY DEF Connect, SocketFails, serverVars
<1>2. failures' \in 0..MaxFailures
  BY MaxFailuresAssumption DEF Connect, SocketFails, RttInv, TypeOK
<1>3. conn \in Nat /\ serving \in 0..conn
  BY DEF RttInv, TypeOK
<1>4. CASE client' = "failed" /\ conn' = conn /\ answer' = answer
  <2>1. TypeOK'
    BY <1>1, <1>2, <1>4 DEF RttInv, TypeOK, ClientPCs
  <2>2. Lockstep'
    BY <1>1, <1>4 DEF RttInv, Lockstep
  <2>3. SlotLeft' /\ InHand' /\ Unless'
    BY <1>1, <1>4 DEF RttInv, SlotLeft, InHand, Unless
  <2> QED
    BY <2>1, <2>2, <2>3 DEF RttInv
<1>5. CASE /\ server \notin {"start", "exited"} /\ client' = "recv" /\ conn' = conn + 1
           /\ answer' = NoAnswer
  <2>1. serving = conn
    BY <1>1, <1>5 DEF RttInv, Lockstep
  <2>2. conn' \in Nat /\ serving' \in 0..conn' /\ conn' <= serving' + 1
    BY <1>1, <1>3, <1>5, <2>1
  <2>3. TypeOK'
    BY <1>1, <1>2, <1>5, <2>2, NoAnswerType DEF RttInv, TypeOK, ClientPCs, Answers
  <2>4. Lockstep'
    BY <1>1, <1>5, <2>2 DEF RttInv, Lockstep
  <2>5. SlotLeft' /\ InHand'
    BY <1>1, <1>5 DEF RttInv, SlotLeft, InHand
  <2>6. Unless'
    BY <1>1, <1>5, NoAnswerType DEF RttInv, Unless
  <2> QED
    BY <2>3, <2>4, <2>5, <2>6 DEF RttInv
<1> QED
  BY <1>1, <1>4, <1>5 DEF Connect, SocketFails

LEMMA NextSlotType ==
    ASSUME NEW j \in Nat
    PROVE  /\ NextSlot(j) \in {"done", "connect"}
           /\ NextSlot(j) = "connect" => j <= NIterations
BY Sizes DEF NextSlot

LEMMA RecvInv ==
    ASSUME RttInv, Recv
    PROVE  RttInv'
<1>1. /\ client = "recv" /\ conn' = conn /\ server' = server /\ serving' = serving
      /\ unread' = unread /\ prefix' = prefix /\ fresh' = fresh /\ answer' = answer
      /\ failures' = failures /\ client' = NextSlot(i')
  BY DEF Recv, serverVars
<1>2. i \in Nat /\ i >= 1 /\ i <= NIterations /\ short \in 0..MaxShort
  BY <1>1, Sizes DEF RttInv, TypeOK, SlotLeft
<1> DEFINE Outcome ==
        /\ answer # NoAnswer
        /\ short' \in 0..MaxShort /\ (short' = 0 => short = 0)
        /\ \/ i' = i /\ slots' = slots
           \/ /\ answer.len > 0 /\ i' = i + 1
              /\ slots' = [s \in DOMAIN slots \union {i} |->
                               IF s = i THEN answer.own ELSE slots[s]]
<1>3. Outcome
  <2>1. CASE answer.closed /\ i' = Retry /\ UNCHANGED <<slots, short>>
    BY <1>2, <2>1, NoAnswerType DEF Retry
  <2>2. ASSUME NEW k \in 1..DataSize, answer.len > 0,
               Received(IF answer.len < DataSize THEN answer.len ELSE DataSize, k),
               IF k = DataSize
               THEN /\ slots' = [s \in DOMAIN slots \union {i} |->
                                    IF s = i THEN answer.own ELSE slots[s]]
                    /\ i' = i + 1
               ELSE /\ i' = Retry
                    /\ UNCHANGED slots
        PROVE  Outcome
    <3>1. short' = short \/ (short < MaxShort /\ short' = short + 1)
      BY <2>2 DEF Received
    <3>2. short' \in 0..MaxShort /\ (short' = 0 => short = 0)
      BY <1>2, <3>1, Sizes
    <3>3. answer # NoAnswer
      BY <2>2, NoAnswerType
    <3> QED
      BY <2>2, <3>2, <3>3 DEF Retry
  <2> QED
    BY <2>1, <2>2 DEF Recv
<1>4. server # "exited" => serving = conn
  BY <1>3 DEF RttInv, Lockstep
<1>5. server \notin {"start", "recv", "send"}
  BY <1>1, <1>3 DEF RttInv, Lockstep
<1>6. i' \in 1..NIterations + 1 /\ i' \in Nat
  BY <1>2, <1>3, Sizes
<1>7. client' \in {"done", "connect"} /\ (client' = "connect" => i' <= NIterations)
  BY <1>1, <1>6, NextSlotType
<1>8. /\ DOMAIN slots' = 1..i' - 1
      /\ \A s \in DOMAIN slots' : slots'[s] \in 0..DataSize
  <2>1. DOMAIN slots = 1..i - 1 /\ \A s \in DOMAIN slots : slots[s] \in 0..DataSize
    BY DEF RttInv, TypeOK
  <2>2. CASE i' = i /\ slots' = slots
    BY <2>1, <2>2
  <2>3. CASE /\ i' = i + 1
             /\ slots' = [s \in DOMAIN slots \union {i} |-> IF s = i THEN answer.own ELSE slots[s]]
    <3>1. DOMAIN slots' = DOMAIN slots \union {i}
      BY <2>3
    <3>2. (1..i - 1) \union {i} = 1..i /\ i' - 1 = i
      BY <1>2, <2>3
    <3>3. answer.own \in 0..DataSize
      BY DEF RttInv, TypeOK
    <3> QED
      BY <2>1, <2>3, <3>1, <3>2, <3>3
  <2> QED
    BY <1>3, <2>2, <2>3
<1>9. TypeOK'
  BY <1>1, <1>3, <1>6, <1>7, <1>8 DEF RttInv, TypeOK, ClientPCs
<1>10. Lockstep'
  BY <1>1, <1>4, <1>5 DEF RttInv, Lockstep
<1>11. SlotLeft' /\ InHand'
  BY <1>1, <1>5, <1>7 DEF SlotLeft, InHand
<1>12. Unless'
  <2> SUFFICES ASSUME short' = 0
               PROVE  /\ server' = "send" => fresh' = DataSize
                      /\ answer'.len > 0 => answer'.own = DataSize
                      /\ \A s \in DOMAIN slots' : slots'[s] = DataSize
    BY DEF Unless
  <2>1. /\ answer.len > 0 => answer.own = DataSize
        /\ \A s \in DOMAIN slots : slots[s] = DataSize
    BY <1>3 DEF RttInv, Unless
  <2>2. \A s \in DOMAIN slots' : slots'[s] = DataSize
    BY <1>3, <2>1
  <2> QED
    BY <1>1, <1>5, <2>1, <2>2
<1> QED
  BY <1>9, <1>10, <1>11, <1>12 DEF RttInv

\* socket(), bind(), listen() and accept() of the server.
LEMMA AcceptInv ==
    ASSUME RttInv, Listen \/ Accept
    PROVE  RttInv'
<1>1. /\ client' = client /\ i' = i /\ conn' = conn /\ slots' = slots /\ unread' = unread
      /\ prefix' = prefix /\ fresh' = fresh /\ answer' = answer /\ short' = short
      /\ failures' = failures
  BY DEF Listen, Accept, clientVars
<1>2. conn \in Nat /\ serving \in 0..conn /\ conn <= serving + 1
  BY DEF RttInv, TypeOK, Lockstep
<1>3. CASE server = "start" /\ server' = "accept" /\ serving' = serving
  <2>1. TypeOK'
    BY <1>1, <1>3 DEF RttInv, TypeOK, ServerPCs
  <2>2. Lockstep'
    BY <1>1, <1>3 DEF RttInv, Lockstep
  <2>3. SlotLeft' /\ InHand' /\ Unless'
    BY <1>1, <1>3 DEF RttInv, SlotLeft, InHand, Unless
  <2> QED
    BY <2>1, <2>2, <2>3 DEF RttInv
<1>4. CASE server = "accept" /\ serving < conn /\ server' = "recv" /\ serving' = serving + 1
  <2>1. serving' = conn /\ serving' \in 0..conn'
    BY <1>1, <1>2, <1>4
  <2>2. client = "recv" /\ answer = NoAnswer
    BY <1>2, <1>4 DEF RttInv, Lockstep
  <2>3. TypeOK'
    BY <1>1, <1>4, <2>1 DEF RttInv, TypeOK, ServerPCs
  <2>4. Lockstep'
    BY <1>1, <1>2, <1>4, <2>1, <2>2 DEF Lockstep
  <2>5. SlotLeft' /\ InHand' /\ Unless'
    BY <1>1, <1>4 DEF RttInv, SlotLeft, InHand, Unless
  <2> QED
    BY <2>3, <2>4, <2>5 DEF RttInv
<1> QED
  BY <1>3, <1>4 DEF Listen, Accept

LEMMA ServerRecvInv ==
    ASSUME RttInv, ServerRecv
    PROVE  RttInv'
<1>1. /\ server = "recv" /\ server' = "send"
      /\ client' = client /\ i' = i /\ conn' = conn /\ slots' = slots
      /\ serving' = serving /\ answer' = answer /\ failures' = failures
  BY DEF ServerRecv, clientVars
<1>2. PICK k \in 1..DataSize :
          /\ Received(DataSize, k) /\ fresh' = k /\ unread' = DataSize - k
          /\ prefix' = IF prefix < k THEN k ELSE prefix
  BY DEF ServerRecv
<1>3. prefix \in 0..DataSize /\ short \in 0..MaxShort
  BY DEF RttInv, TypeOK
<1>4. /\ fresh' \in 0..DataSize /\ unread' \in 0..DataSize
      /\ prefix' \in 0..DataSize /\ prefix' >= 1
  BY <1>2, <1>3, Sizes
<1>5. short' \in 0..MaxShort /\ (short' = 0 => short = 0 /\ k = DataSize)
  <2>1. (k = DataSize /\ short' = short) \/ (short < MaxShort /\ short' = short + 1)
    BY <1>2 DEF Received
  <2> QED
    BY <1>3, <2>1, Sizes
<1>6. TypeOK'
  BY <1>1, <1>4, <1>5 DEF RttInv, TypeOK, ServerPCs
<1>7. Lockstep'
  BY <1>1 DEF RttInv, Lockstep
<1>8. SlotLeft' /\ InHand'
  BY <1>1, <1>4 DEF RttInv, SlotLeft, InHand
<1>9. Unless'
  BY <1>1, <1>2, <1>5 DEF RttInv, Unless
<1> QED
  BY <1>6, <1>7, <1>8, <1>9 DEF RttInv

LEMMA ServerSendInv ==
    ASSUME RttInv, ServerSend
    PROVE  RttInv'
<1>1. /\ server = "send" /\ client' = client /\ i' = i /\ conn' = conn /\ slots' = slots
      /\ serving' = serving /\ unread' = unread /\ prefix' = prefix /\ fresh' = fresh
      /\ short' = short /\ failures' = failures
  BY DEF ServerSend, clientVars
<1>2. /\ serving = conn /\ client = "recv"
      /\ prefix >= 1 /\ prefix \in 0..DataSize /\ fresh \in 0..DataSize
  BY <1>1 DEF RttInv, TypeOK, Lockstep, InHand
<1> DEFINE Outcome ==
        /\ server' \in {"close", "exited"} /\ answer' \in Answers
        /\ short = 0 /\ answer'.len > 0 => answer'.own = DataSize
<1>3. Outcome
  <2>1. CASE server' = "exited" /\ answer' = [NoAnswer EXCEPT !.closed = TRUE]
    BY <2>1, NoAnswerType
  <2>2. ASSUME server' = "close",
               NEW len \in (IF prefix < DataSize THEN {prefix} ELSE {DataSize, DataSize + 1}),
               answer' = [len |-> len, own |-> fresh, closed |-> FALSE]
        PROVE  Outcome
    <3>1. len \in 0..DataSize + 1
      BY <1>2, Sizes
    <3>2. answer' \in Answers
      BY <1>2, <2>2, <3>1 DEF Answers
    <3>3. short = 0 => fresh = DataSize
      BY <1>1 DEF RttInv, Unless
    <3> QED
      BY <2>2, <3>2, <3>3
  <2> QED
    BY <2>1, <2>2 DEF ServerSend
<1>4. TypeOK'
  BY <1>1, <1>3 DEF RttInv, TypeOK, ServerPCs, Answers
<1>5. Lockstep'
  <2>1. conn' <= serving' + 1
    BY <1>1, <1>2 DEF RttInv, TypeOK
  <2> QED
    BY <1>1, <1>2, <1>3, <2>1 DEF Lockstep
<1>6. SlotLeft' /\ InHand'
  BY <1>1, <1>3 DEF RttInv, SlotLeft, InHand
<1>7. Unless'
  BY <1>1, <1>3 DEF RttInv, Unless
<1> QED
  BY <1>4, <1>5, <1>6, <1>7 DEF RttInv

LEMMA ServerCloseInv ==
    ASSUME RttInv, ServerClose
    PROVE  RttInv'
<1>1. /\ server = "close" /\ server' = "accept"
      /\ client' = client /\ i' = i /\ conn' = conn /\ slots' = slots
      /\ serving' = serving /\ unread' = unread /\ prefix' = prefix /\ fresh' = fresh
      /\ short' = short /\ failures' = failures
  BY DEF ServerClose, clientVars
<1>2. answer \in Answers
  BY DEF RttInv, TypeOK, Answers
<1>3. /\ answer' \in Answers /\ answer'.len = answer.len /\ answer'.own = answer.own
      /\ answer' # NoAnswer => answer # NoAnswer \/ serving = conn
  BY <1>2 DEF ServerClose, Answers
<1>4. TypeOK'
  BY <1>1, <1>3 DEF RttInv, TypeOK, ServerPCs, Answers
<1>5. Lockstep'
  BY <1>1, <1>3 DEF RttInv, Lockstep
<1>6. SlotLeft' /\ InHand' /\ Unless'
  BY <1>1, <1>3 DEF RttInv, SlotLeft, InHand, Unless
<1> QED
  BY <1>4, <1>5, <1>6 DEF RttInv

LEMMA ServerFailInv ==
    ASSUME RttInv, ServerFail
    PROVE  RttInv'
<1>1. /\ server' = "exited"
      /\ answer' \in {answer, [NoAnswer EXCEPT !.closed = TRUE]}
      /\ client' = client /\ i' = i /\ conn' = conn /\ slots' = slots
      /\ serving' = serving /\ unread' = unread /\ prefix' = prefix /\ fresh' = fresh
      /\ short' = short
  BY DEF ServerFail, clientVars
<1>2. failures' \in 0..MaxFailures
  BY MaxFailuresAssumption DEF ServerFail, RttInv, TypeOK
<1>3. TypeOK'
  BY <1>1, <1>2, NoAnswerType DEF RttInv, TypeOK, ServerPCs, Answers
<1>4. Lockstep' /\ SlotLeft' /\ InHand'
  BY <1>1 DEF RttInv, Lockstep, SlotLeft, InHand
<1>5. Unless'
  <2>1. CASE answer' = answer
    BY <1>1, <2>1 DEF RttInv, Unless
  <2>2. CASE answer' = [NoAnswer EXCEPT !.closed = TRUE]
    <3>1. ~(answer'.len > 0)
      BY <2>2, NoAnswerType
    <3>2. server' # "send"
      BY <1>1
    <3> QED
      BY <1>1, <3>1, <3>2 DEF RttInv, Unless
  <2> QED
    BY <1>1, <2>1, <2>2
<1> QED
  BY <1>3, <1>4, <1>5 DEF RttInv

LEMMA NextInv == RttInv /\ [Next]_vars => RttInv'
<1> SUFFICES ASSUME RttInv, [Next]_vars PROVE RttInv'
  OBVIOUS
<1>1. CASE UNCHANGED vars
  <2>1. TypeOK' /\ Lockstep'
    BY <1>1 DEF vars, clientVars, serverVars, RttInv, TypeOK, Lockstep
  <2>2. SlotLeft' /\ InHand' /\ Unless'
    BY <1>1 DEF vars, clientVars, serverVars, RttInv, SlotLeft, InHand, Unless
  <2> QED
    BY <2>1, <2>2 DEF RttInv
<1> QED
  BY <1>1, ConnectInv, RecvInv, AcceptInv, ServerRecvInv, ServerSendInv, ServerCloseInv,
     ServerFailInv
  DEF Next, ClientStep, ServerStep, Terminated

-----------------------------------------------------------------------------
\* The state keeps its types: the slots stored are exactly the ones before the
\* current one, however often a slot is tried again, so that main() averages over
\* measured values only.
THEOREM TypeCorrect == Spec => []TypeOK
<1>1. RttInv => TypeOK
  BY DEF RttInv
<1> QED
  BY InitInv, NextInv, <1>1, PTL DEF Spec

\* While the server reads from a connection or answers on it, the client of
\* rtt.c waits on the same connection, for all its retries.
THEOREM OneConnection == Spec => []SameConnection
<1>1. RttInv => SameConnection
  BY DEF RttInv, Lockstep, SameConnection
<1> QED
  BY InitInv, NextInv, <1>1, PTL DEF Spec

\* As long as no recv() is short, a stored slot is a full round trip, although
\* the server answers from a buffer that it cleared once.
THEOREM FullRoundTrips == Spec => []OwnBytesUnlessShort
<1>1. RttInv => OwnBytesUnlessShort
  BY DEF RttInv, Unless, OwnBytesUnlessShort
<1> QED
  BY InitInv, NextInv, <1>1, PTL DEF Spec

-----------------------------------------------------------------------------
(* Connection overhead. *)

CONSTANT QueueLimit
VARIABLES queue, accepted

CO == INSTANCE ConnOverhead

\* How many connections the client has opened.
Connected == IF client = "close" THEN i ELSE i - 1

ConnSlotLeft == client # "done" => i <= NIterations

\* What the client has opened waits in the queue or has been accepted; what was
\* queued when the server ended is gone.
Queued ==
    /\ queue <= QueueLimit
    /\ accepted + queue <= Connected
    /\ failures = 0 => accepted + queue = Connected

ConnInv == CO!TypeOK /\ ConnSlotLeft /\ Queued

-----------------------------------------------------------------------------
LEMMA ConnSizes ==
    ASSUME QueueLimit \in Nat \ {0}
    PROVE  /\ NIterations \in Nat /\ NIterations >= 1 /\ QueueLimit \in Nat /\ QueueLimit >= 1
           /\ MaxFailures \in Nat
BY NIterationsAssumption, MaxFailuresAssumption

LEMMA ConnInitInv ==
    ASSUME QueueLimit \in Nat \ {0}
    PROVE  CO!Init => ConnInv
<1> SUFFICES ASSUME CO!Init PROVE ConnInv
  OBVIOUS
<1>1. client = "connect" /\ i = 1 /\ slots = {} /\ server = "start" /\ queue = 0 /\ accepted = 0
      /\ failures = 0
  BY DEF CO!Init
<1>2. CO!TypeOK
  BY <1>1, ConnSizes DEF CO!TypeOK
<1>3. ConnSlotLeft /\ Queued
  BY <1>1, ConnSizes DEF ConnSlotLeft, Queued, Connected
<1> QED
  BY <1>2, <1>3 DEF ConnInv

\* The numbers in a state of the invariant.
LEMMA ConnNumbers ==
    ASSUME QueueLimit \in Nat \ {0}, ConnInv
    PROVE  /\ i \in 1..NIterations + 1 /\ i \in Nat /\ queue \in Nat /\ accepted \in Nat
           /\ queue \in 0..QueueLimit
           /\ failures \in 0..MaxFailures /\ failures \in Nat
           /\ client # "done" => i <= NIterations
BY ConnSizes DEF ConnInv, CO!TypeOK, ConnSlotLeft

LEMMA ConnNextInv ==
    ASSUME QueueLimit \in Nat \ {0}
    PROVE  ConnInv /\ [CO!Next]_(CO!vars) => ConnInv'
<1> SUFFICES ASSUME ConnInv, [CO!Next]_(CO!vars) PROVE ConnInv'
  OBVIOUS
<1>1. CASE CO!Connect
  <2>1. /\ client = "connect" /\ i' = i /\ slots' = slots /\ server' = server
        /\ accepted' = accepted /\ failures' = failures
        /\ \/ queue < QueueLimit /\ client' = "close" /\ queue' = queue + 1
           \/ client' = "failed" /\ queue' = queue
    BY <1>1 DEF CO!Connect
  <2>2. queue' \in 0..QueueLimit
    BY <2>1, ConnNumbers, ConnSizes
  <2>3. CO!TypeOK' /\ ConnSlotLeft'
    BY <2>1, <2>2 DEF ConnInv, CO!TypeOK, ConnSlotLeft
  <2>4. Queued'
    BY <2>1, ConnNumbers, ConnSizes DEF ConnInv, Queued, Connected
  <2> QED
    BY <2>3, <2>4 DEF ConnInv
<1>2. CASE CO!SocketFails
  <2>1. /\ client = "connect" /\ client' = "failed" /\ i' = i /\ slots' = slots
        /\ server' = server /\ queue' = queue /\ accepted' = accepted
        /\ failures < MaxFailures /\ failures' = failures + 1
    BY <1>2 DEF CO!SocketFails
  <2>2. failures' \in 0..MaxFailures /\ failures' # 0
    BY <2>1, ConnNumbers, ConnSizes
  <2>3. CO!TypeOK' /\ ConnSlotLeft'
    BY <2>1, <2>2 DEF ConnInv, CO!TypeOK, ConnSlotLeft
  <2>4. Queued'
    BY <2>1, <2>2 DEF ConnInv, Queued, Connected
  <2> QED
    BY <2>3, <2>4 DEF ConnInv
<1>3. CASE CO!Close
  <2>1. /\ client = "close" /\ slots' = slots \union {i} /\ i' = i + 1
        /\ client' = (IF i' > NIterations THEN "done" ELSE "connect")
        /\ server' = server /\ queue' = queue /\ accepted' = accepted /\ failures' = failures
    BY <1>3 DEF CO!Close
  <2>2. /\ i' \in 1..NIterations + 1 /\ i \in 1..NIterations
        /\ client' \in {"done", "connect"} /\ (client' # "done" => i' <= NIterations)
    BY <2>1, ConnNumbers, ConnSizes
  <2>3. CO!TypeOK'
    BY <2>1, <2>2 DEF ConnInv, CO!TypeOK
  <2>4. ConnSlotLeft'
    BY <2>2 DEF ConnSlotLeft
  <2>5. Connected' = Connected
    BY <2>1, <2>2 DEF Connected
  <2>6. Queued'
    BY <2>1, <2>5 DEF ConnInv, Queued
  <2> QED
    BY <2>3, <2>4, <2>6 DEF ConnInv
<1>4. CASE CO!Listen \/ CO!ServerClose
  <2>1. /\ client' = client /\ i' = i /\ slots' = slots /\ queue' = queue
        /\ accepted' = accepted /\ failures' = failures /\ server' = "accept"
    BY <1>4 DEF CO!Listen, CO!ServerClose
  <2>2. CO!TypeOK' /\ ConnSlotLeft' /\ Queued'
    BY <2>1 DEF ConnInv, CO!TypeOK, ConnSlotLeft, Queued, Connected
  <2> QED
    BY <2>2 DEF ConnInv
<1>5. CASE CO!Accept
  <2>1. /\ queue > 0 /\ queue' = queue - 1 /\ accepted' = accepted + 1 /\ server' = "close"
        /\ client' = client /\ i' = i /\ slots' = slots /\ failures' = failures
    BY <1>5 DEF CO!Accept
  <2>2. Connected \in Nat /\ Connected <= NIterations /\ accepted + queue <= Connected
    BY ConnNumbers, ConnSizes DEF ConnInv, Queued, Connected
  <2>3. /\ queue' \in 0..QueueLimit /\ queue' <= queue
        /\ accepted' \in 0..NIterations /\ accepted' + queue' = accepted + queue
    BY <2>1, <2>2, ConnNumbers, ConnSizes
  <2>4. CO!TypeOK' /\ ConnSlotLeft'
    BY <2>1, <2>3 DEF ConnInv, CO!TypeOK, ConnSlotLeft
  <2>5. Connected' = Connected
    BY <2>1 DEF Connected
  <2>6. queue' <= QueueLimit
    BY <2>3, ConnNumbers, ConnSizes DEF ConnInv, Queued
  <2>7. Queued'
    BY <2>1, <2>3, <2>5, <2>6 DEF ConnInv, Queued
  <2> QED
    BY <2>4, <2>7 DEF ConnInv
<1>6. CASE CO!ServerFail
  <2>1. /\ failures < MaxFailures /\ failures' = failures + 1 /\ server' = "exited" /\ queue' = 0
        /\ client' = client /\ i' = i /\ slots' = slots /\ accepted' = accepted
    BY <1>6 DEF CO!ServerFail
  <2>2. failures' \in 0..MaxFailures /\ failures' # 0
    BY <2>1, ConnNumbers, ConnSizes
  <2>3. CO!TypeOK' /\ ConnSlotLeft'
    BY <2>1, <2>2, ConnSizes DEF ConnInv, CO!TypeOK, ConnSlotLeft
  <2>4. Connected' = Connected /\ accepted' + queue' <= Connected /\ queue' <= QueueLimit
    BY <2>1, ConnNumbers, ConnSizes DEF ConnInv, Queued, Connected
  <2>5. Queued'
    BY <2>2, <2>4 DEF Queued
  <2> QED
    BY <2>3, <2>5 DEF ConnInv
<1>7. CASE UNCHANGED CO!vars
  <2>1. CO!TypeOK' /\ ConnSlotLeft' /\ Queued'
    BY <1>7 DEF CO!vars, ConnInv, CO!TypeOK, ConnSlotLeft, Queued, Connected
  <2> QED
    BY <2>1 DEF ConnInv
<1> QED
  BY <1>1, <1>2, <1>3, <1>4, <1>5, <1>6, <1>7
  DEF CO!Next, CO!ClientStep, CO!ServerStep, CO!Terminated

-----------------------------------------------------------------------------
\* The state keeps its types: the client's slots stay within its arrays, the
\* listen queue within its length, and the server never accepts more connections
\* than the client has to open.
THEOREM ConnTypeCorrect ==
    ASSUME QueueLimit \in Nat \ {0}
    PROVE  CO!Spec => []CO!TypeOK
<1>1. ConnInv => CO!TypeOK
  BY DEF ConnInv
<1> QED
  BY ConnInitInv, ConnNextInv, <1>1, PTL DEF CO!Spec

-----------------------------------------------------------------------------
(* Bandwidth. *)

CONSTANT Buffer
VARIABLES writer, sent, reader, line, total, clock

BW == INSTANCE Bandwidth

\* What the writer has sent on connection c.
SentOn(c) == IF c < conn THEN DataSize ELSE IF c = conn THEN sent ELSE 0

Arrived(c) == total[c] + line[c].pieces

\* What has arrived or is under way was sent; unless a call failed it is all
\* that was sent.
Flow(c) == /\ Arrived(c) <= SentOn(c)
           /\ failures = 0 => Arrived(c) = SentOn(c)

\* The writer closes a connection before it opens the next, with all data sent.
Closed(c) == line[c].closed <=> (c < conn \/ (c = conn /\ writer # "send"))

\* The connections the reader has left behind are closed and empty.
LeftBehind(c) == failures = 0 /\ c <= i => line[c].closed /\ line[c].pieces = 0

Lines == \A c \in BW!Conns : Flow(c) /\ Closed(c) /\ LeftBehind(c)

WriterPlace ==
    /\ writer = "send" => conn >= 1
    /\ writer = "connect" => conn < NIterations
    /\ writer # "send" /\ conn >= 1 => sent = DataSize

ReaderPlace ==
    /\ reader \in {"start", "accept", "read"} => i < NIterations
    /\ reader = "report" => i = NIterations
    /\ failures = 0 => (reader = "done" => i = NIterations) /\ reader # "failed"

BandInv == BW!TypeOK /\ Lines /\ WriterPlace /\ ReaderPlace

-----------------------------------------------------------------------------
LEMMA BwSizes ==
    ASSUME Buffer \in Nat \ {0}
    PROVE  /\ NIterations \in Nat /\ NIterations >= 1 /\ DataSize \in Nat /\ DataSize >= 1
           /\ Buffer \in Nat /\ Buffer >= 1 /\ MaxFailures \in Nat
BY NIterationsAssumption, DataSizeAssumption, MaxFailuresAssumption

LEMMA BwInitInv ==
    ASSUME Buffer \in Nat \ {0}
    PROVE  BW!Init => BandInv
<1> SUFFICES ASSUME BW!Init PROVE BandInv
  OBVIOUS
<1>1. /\ writer = "connect" /\ conn = 0 /\ sent = 0 /\ reader = "start" /\ i = 0
      /\ line = [c \in BW!Conns |-> [pieces |-> 0, closed |-> FALSE]]
      /\ total = [c \in BW!Conns |-> 0] /\ clock = {}
      /\ slots = [s \in 0..NIterations |-> {}] /\ failures = 0
  BY DEF BW!Init
<1>2. BW!TypeOK
  BY <1>1, BwSizes DEF BW!TypeOK
<1>3. Lines
  BY <1>1, BwSizes DEF Lines, Flow, Arrived, SentOn, Closed, LeftBehind, BW!Conns
<1>4. WriterPlace /\ ReaderPlace
  BY <1>1, BwSizes DEF WriterPlace, ReaderPlace
<1> QED
  BY <1>2, <1>3, <1>4 DEF BandInv

\* The numbers in a state of the invariant.
LEMMA BwNumbers ==
    ASSUME Buffer \in Nat \ {0}, BandInv
    PROVE  /\ conn \in 0..NIterations /\ conn \in Nat /\ sent \in 0..DataSize /\ sent \in Nat
           /\ i \in 0..NIterations /\ i \in Nat
           /\ failures \in 0..MaxFailures /\ failures \in Nat
BY BwSizes DEF BandInv, BW!TypeOK

\* What is known of one connection.
LEMMA BwOneLine ==
    ASSUME Buffer \in Nat \ {0}, BandInv, NEW c \in BW!Conns
    PROVE  /\ c \in Nat /\ 1 <= c /\ c <= NIterations
           /\ line[c].pieces \in 0..Buffer /\ line[c].pieces \in Nat /\ line[c].closed \in BOOLEAN
           /\ total[c] \in 0..DataSize /\ total[c] \in Nat
           /\ SentOn(c) \in 0..DataSize
           /\ Flow(c) /\ Closed(c) /\ LeftBehind(c)
<1>1. c \in Nat /\ 1 <= c /\ c <= NIterations
  BY BwSizes DEF BW!Conns
<1>2. line[c] \in [pieces : 0..Buffer, closed : BOOLEAN] /\ total[c] \in 0..DataSize
  BY DEF BandInv, BW!TypeOK
<1>3. SentOn(c) \in 0..DataSize
  BY BwNumbers, BwSizes DEF SentOn
<1> QED
  BY <1>1, <1>2, <1>3, BwSizes DEF BandInv, Lines

-----------------------------------------------------------------------------
(* The steps that leave the connections and what was sent alone. *)

LEMMA BwSameLines ==
    ASSUME Buffer \in Nat \ {0}, BandInv,
           conn' = conn, sent' = sent, line' = line, total' = total, i' = i,
           writer' = writer \/ (writer # "send" /\ writer' # "send"),
           failures' = failures \/ failures' # 0
    PROVE  Lines'
<1> SUFFICES ASSUME NEW c \in BW!Conns PROVE Flow(c)' /\ Closed(c)' /\ LeftBehind(c)'
  BY DEF Lines, BW!Conns
<1>1. Flow(c) /\ Closed(c) /\ LeftBehind(c)
  BY BwOneLine
<1> QED
  BY <1>1 DEF Flow, Arrived, SentOn, Closed, LeftBehind

LEMMA BwConnectInv ==
    ASSUME Buffer \in Nat \ {0}
    PROVE  BandInv /\ BW!Connect => BandInv'
<1> SUFFICES ASSUME BandInv, BW!Connect PROVE BandInv'
  OBVIOUS
<1>1. /\ writer = "connect" /\ reader' = reader /\ i' = i /\ line' = line /\ total' = total
      /\ clock' = clock /\ slots' = slots /\ failures' = failures
  BY DEF BW!Connect
<1>2. CASE writer' = "failed" /\ conn' = conn /\ sent' = sent
  <2>1. Lines'
    BY <1>1, <1>2, BwSameLines
  <2>2. BW!TypeOK' /\ WriterPlace' /\ ReaderPlace'
    BY <1>1, <1>2 DEF BandInv, BW!TypeOK, WriterPlace, ReaderPlace
  <2> QED
    BY <2>1, <2>2 DEF BandInv
<1>3. CASE writer' = "send" /\ conn' = conn + 1 /\ sent' = 0
  <2>1. conn < NIterations /\ conn' \in 0..NIterations /\ conn' >= 1
    BY <1>1, <1>3, BwNumbers, BwSizes DEF BandInv, WriterPlace
  <2>2. sent' \in 0..DataSize
    BY <1>3, BwSizes
  <2>3. BW!TypeOK' /\ WriterPlace' /\ ReaderPlace'
    BY <1>1, <1>3, <2>1, <2>2 DEF BandInv, BW!TypeOK, WriterPlace, ReaderPlace
  <2>4. ASSUME NEW c \in BW!Conns PROVE Flow(c)' /\ Closed(c)' /\ LeftBehind(c)'
    <3>1. /\ c \in Nat /\ conn \in Nat /\ c >= 1
          /\ Flow(c) /\ Closed(c) /\ LeftBehind(c)
      BY BwOneLine, BwNumbers
    <3>2. conn >= 1 => sent = DataSize
      BY <1>1 DEF BandInv, WriterPlace
    <3>3. SentOn(c)' = SentOn(c)
      BY <1>3, <3>1, <3>2 DEF SentOn
    <3>4. Flow(c)'
      BY <1>1, <3>1, <3>3 DEF Flow, Arrived
    <3>5. Closed(c)' /\ LeftBehind(c)'
      BY <1>1, <1>3, <3>1 DEF Closed, LeftBehind
    <3> QED
      BY <3>4, <3>5
  <2> QED
    BY <2>3, <2>4 DEF BandInv, Lines, BW!Conns
<1> QED
  BY <1>2, <1>3 DEF BW!Connect

LEMMA BwSendInv ==
    ASSUME Buffer \in Nat \ {0}
    PROVE  BandInv /\ BW!Send => BandInv'
<1> SUFFICES ASSUME BandInv, BW!Send PROVE BandInv'
  OBVIOUS
<1>1. PICK k \in 1..(DataSize - sent) :
         /\ line[conn].pieces + k <= Buffer
         /\ line' = [line EXCEPT ![conn].pieces = @ + k]
         /\ sent' = sent + k
  BY DEF BW!Send
<1>2. /\ writer = "send" /\ writer' = writer /\ conn' = conn /\ reader' = reader /\ i' = i
      /\ total' = total /\ clock' = clock /\ slots' = slots /\ failures' = failures
  BY DEF BW!Send
<1>3. conn \in BW!Conns /\ conn \in Nat
  BY <1>2, BwNumbers, BwSizes DEF BandInv, WriterPlace, BW!Conns
<1>4. /\ k \in Nat /\ sent' \in 0..DataSize /\ line[conn].pieces + k \in 0..Buffer
      /\ sent \in Nat /\ sent' = sent + k
  BY <1>1, <1>3, BwOneLine, BwNumbers, BwSizes
<1>5. /\ line \in [BW!Conns -> [pieces : 0..Buffer, closed : BOOLEAN]]
      /\ line' = [line EXCEPT ![conn] = [line[conn] EXCEPT !.pieces = line[conn].pieces + k]]
  BY <1>1 DEF BandInv, BW!TypeOK
<1>6. line' \in [BW!Conns -> [pieces : 0..Buffer, closed : BOOLEAN]]
  BY <1>3, <1>4, <1>5
<1>7. BW!TypeOK' /\ WriterPlace' /\ ReaderPlace'
  BY <1>2, <1>4, <1>6 DEF BandInv, BW!TypeOK, WriterPlace, ReaderPlace, BW!Conns
<1>8. ASSUME NEW c \in BW!Conns PROVE Flow(c)' /\ Closed(c)' /\ LeftBehind(c)'
  <2>1. /\ c \in Nat /\ line[c].pieces \in Nat /\ total[c] \in Nat
        /\ Flow(c) /\ Closed(c) /\ LeftBehind(c)
    BY BwOneLine
  <2>2. line'[c].closed = line[c].closed
    BY <1>3, <1>5
  <2>3. Closed(c)'
    BY <1>2, <2>1, <2>2 DEF Closed
  <2>4. CASE c = conn
    <3>1. line'[c].pieces = line[c].pieces + k
      BY <1>3, <1>5, <2>4
    <3>2. SentOn(c)' = SentOn(c) + k /\ SentOn(c) \in Nat
      BY <1>2, <1>4, <2>4, <1>3 DEF SentOn
    <3>3. Flow(c)'
      BY <1>2, <1>4, <2>1, <3>1, <3>2 DEF Flow, Arrived
    <3>4. ~line[c].closed
      BY <1>2, <2>1, <2>4 DEF Closed
    <3>5. LeftBehind(c)'
      BY <1>2, <2>1, <3>4 DEF LeftBehind
    <3> QED
      BY <2>3, <3>3, <3>5
  <2>5. CASE c # conn
    <3>1. line'[c] = line[c] /\ SentOn(c)' = SentOn(c)
      BY <1>2, <1>3, <1>5, <2>5 DEF SentOn
    <3> QED
      BY <1>2, <2>1, <2>3, <3>1 DEF Flow, Arrived, LeftBehind
  <2> QED
    BY <2>4, <2>5
<1> QED
  BY <1>7, <1>8 DEF BandInv, Lines, BW!Conns

\* Only after a failure has the reader ended while the writer still sends.
LEMMA BwSendFailsInv ==
    ASSUME Buffer \in Nat \ {0}
    PROVE  BandInv /\ BW!SendFails => BandInv'
<1> SUFFICES ASSUME BandInv, BW!SendFails PROVE BandInv'
  OBVIOUS
<1>1. /\ writer = "send" /\ reader \in {"done", "failed"} /\ sent' = DataSize
      /\ writer' = writer /\ conn' = conn /\ reader' = reader /\ i' = i /\ line' = line
      /\ total' = total /\ clock' = clock /\ slots' = slots /\ failures' = failures
  BY DEF BW!SendFails
<1>2. conn \in BW!Conns /\ conn \in Nat /\ i \in Nat /\ conn <= NIterations
  BY <1>1, BwNumbers, BwSizes DEF BandInv, WriterPlace, BW!Conns
<1>3. failures # 0
  <2> SUFFICES ASSUME failures = 0 PROVE FALSE
    OBVIOUS
  <2>1. conn <= i
    BY <1>1, <1>2 DEF BandInv, ReaderPlace
  <2>2. Closed(conn) /\ LeftBehind(conn)
    BY <1>2, BwOneLine
  <2> QED
    BY <1>1, <1>2, <2>1, <2>2 DEF Closed, LeftBehind
<1>4. BW!TypeOK' /\ WriterPlace' /\ ReaderPlace'
  BY <1>1, BwSizes DEF BandInv, BW!TypeOK, WriterPlace, ReaderPlace
<1>5. ASSUME NEW c \in BW!Conns PROVE Flow(c)' /\ Closed(c)' /\ LeftBehind(c)'
  <2>1. /\ c \in Nat /\ line[c].pieces \in Nat /\ total[c] \in Nat
        /\ Flow(c) /\ Closed(c) /\ LeftBehind(c)
    BY BwOneLine
  <2>2. SentOn(c) <= SentOn(c)' /\ SentOn(c) \in Nat /\ SentOn(c)' \in Nat
    BY <1>1, <1>2, <2>1, BwNumbers, BwSizes DEF SentOn
  <2>3. Flow(c)'
    BY <1>1, <1>3, <2>1, <2>2 DEF Flow, Arrived
  <2> QED
    BY <1>1, <2>1, <2>3 DEF Closed, LeftBehind
<1> QED
  BY <1>4, <1>5 DEF BandInv, Lines, BW!Conns

LEMMA BwCloseInv ==
    ASSUME Buffer \in Nat \ {0}
    PROVE  BandInv /\ BW!Close => BandInv'
<1> SUFFICES ASSUME BandInv, BW!Close PROVE BandInv'
  OBVIOUS
<1>1. /\ writer = "send" /\ sent = DataSize
      /\ line' = [line EXCEPT ![conn].closed = TRUE]
      /\ writer' = (IF conn < NIterations THEN "connect" ELSE "done")
      /\ conn' = conn /\ sent' = sent /\ reader' = reader /\ i' = i
      /\ total' = total /\ clock' = clock /\ slots' = slots /\ failures' = failures
  BY DEF BW!Close
<1>2. conn \in BW!Conns
  BY <1>1, BwNumbers, BwSizes DEF BandInv, WriterPlace, BW!Conns
<1>3. /\ line \in [BW!Conns -> [pieces : 0..Buffer, closed : BOOLEAN]]
      /\ line' = [line EXCEPT ![conn] = [line[conn] EXCEPT !.closed = TRUE]]
  BY <1>1 DEF BandInv, BW!TypeOK
<1>4. line' \in [BW!Conns -> [pieces : 0..Buffer, closed : BOOLEAN]]
  BY <1>2, <1>3
<1>5. writer' \in {"connect", "done"} /\ (writer' = "connect" => conn < NIterations)
  BY <1>1
<1>6. BW!TypeOK' /\ WriterPlace' /\ ReaderPlace'
  BY <1>1, <1>4, <1>5 DEF BandInv, BW!TypeOK, WriterPlace, ReaderPlace, BW!Conns
<1>7. ASSUME NEW c \in BW!Conns PROVE Flow(c)' /\ Closed(c)' /\ LeftBehind(c)'
  <2>1. Flow(c) /\ Closed(c) /\ LeftBehind(c) /\ line[c].closed \in BOOLEAN
    BY BwOneLine
  <2>2. /\ line'[c].pieces = line[c].pieces
        /\ line'[c].closed = (c = conn \/ line[c].closed)
    BY <1>2, <1>3, <2>1
  <2>3. Flow(c)' /\ LeftBehind(c)'
    BY <1>1, <2>1, <2>2 DEF Flow, Arrived, SentOn, LeftBehind
  <2>4. Closed(c)'
    BY <1>1, <1>5, <2>1, <2>2 DEF Closed
  <2> QED
    BY <2>3, <2>4
<1> QED
  BY <1>6, <1>7 DEF BandInv, Lines, BW!Conns

-----------------------------------------------------------------------------
(* The reader's steps, and the failures. *)

LEMMA BwFailInv ==
    ASSUME Buffer \in Nat \ {0}
    PROVE  BandInv /\ (BW!SocketFails \/ BW!ReaderFails) => BandInv'
<1> SUFFICES ASSUME BandInv, BW!SocketFails \/ BW!ReaderFails PROVE BandInv'
  OBVIOUS
<1>1. /\ conn' = conn /\ sent' = sent /\ i' = i /\ line' = line /\ total' = total
      /\ clock' = clock /\ slots' = slots
      /\ failures < MaxFailures /\ failures' = failures + 1
      /\ \/ writer = "connect" /\ writer' = "failed" /\ reader' = reader
         \/ writer' = writer /\ reader' = "failed"
  BY DEF BW!SocketFails, BW!ReaderFails
<1>2. failures' \in 0..MaxFailures /\ failures' # 0
  BY <1>1, BwNumbers, BwSizes
<1>3. Lines'
  BY <1>1, <1>2, BwSameLines
<1>4. BW!TypeOK' /\ WriterPlace' /\ ReaderPlace'
  BY <1>1, <1>2 DEF BandInv, BW!TypeOK, WriterPlace, ReaderPlace
<1> QED
  BY <1>3, <1>4 DEF BandInv

LEMMA BwReaderInv ==
    ASSUME Buffer \in Nat \ {0}
    PROVE  BandInv /\ (BW!Listen \/ BW!Accept \/ BW!Report) => BandInv'
<1> SUFFICES ASSUME BandInv, BW!Listen \/ BW!Accept \/ BW!Report PROVE BandInv'
  OBVIOUS
<1>1. /\ writer' = writer /\ conn' = conn /\ sent' = sent /\ i' = i /\ line' = line
      /\ total' = total /\ failures' = failures
      /\ \/ reader = "start" /\ reader' = "accept" /\ clock' = clock /\ slots' = slots
         \/ reader = "accept" /\ reader' = "read" /\ clock' = {i + 1} /\ slots' = slots
         \/ /\ reader = "report" /\ reader' = "done" /\ clock' = clock
            /\ slots' = [slots EXCEPT ![i] = clock]
  BY DEF BW!Listen, BW!Accept, BW!Report
<1>2. Lines'
  BY <1>1, BwSameLines
<1>3. WriterPlace' /\ ReaderPlace'
  BY <1>1 DEF BandInv, WriterPlace, ReaderPlace
<1>4. clock' \subseteq BW!Conns
  <2>1. clock \subseteq BW!Conns
    BY DEF BandInv, BW!TypeOK
  <2>2. reader = "accept" => i + 1 \in BW!Conns
    BY BwNumbers, BwSizes DEF BandInv, ReaderPlace, BW!Conns
  <2> QED
    BY <1>1, <2>1, <2>2
<1>5. slots' \in [0..NIterations -> SUBSET BW!Conns]
  BY <1>1 DEF BandInv, BW!TypeOK
<1>6. BW!TypeOK'
  BY <1>1, <1>4, <1>5 DEF BandInv, BW!TypeOK, BW!Conns
<1> QED
  BY <1>2, <1>3, <1>6 DEF BandInv

LEMMA BwReadInv ==
    ASSUME Buffer \in Nat \ {0}
    PROVE  BandInv /\ BW!Read => BandInv'
<1> SUFFICES ASSUME BandInv, BW!Read PROVE BandInv'
  OBVIOUS
<1> DEFINE r == i + 1
<1>1. PICK k \in 1..line[r].pieces :
         /\ line' = [line EXCEPT ![r].pieces = @ - k]
         /\ total' = [total EXCEPT ![r] = @ + k]
  BY DEF BW!Read
<1>2. /\ reader = "read" /\ writer' = writer /\ conn' = conn /\ sent' = sent /\ reader' = reader
      /\ i' = i /\ clock' = clock /\ slots' = slots /\ failures' = failures
  BY DEF BW!Read
<1>3. r \in BW!Conns /\ ~(r <= i)
  BY <1>2, BwNumbers, BwSizes DEF BandInv, ReaderPlace, BW!Conns
<1>4. /\ line[r].pieces \in Nat /\ total[r] \in Nat /\ Arrived(r) <= SentOn(r)
      /\ SentOn(r) \in 0..DataSize /\ line[r].pieces <= Buffer
  BY <1>3, BwOneLine, BwSizes DEF Flow
<1> HIDE DEF r
<1>5. /\ k \in Nat /\ line[r].pieces - k \in 0..Buffer /\ total[r] + k \in 0..DataSize
  BY <1>1, <1>4, BwSizes DEF Arrived
<1>6. /\ line \in [BW!Conns -> [pieces : 0..Buffer, closed : BOOLEAN]]
      /\ total \in [BW!Conns -> 0..DataSize]
      /\ line' = [line EXCEPT ![r] = [line[r] EXCEPT !.pieces = line[r].pieces - k]]
      /\ total' = [total EXCEPT ![r] = total[r] + k]
  BY <1>1 DEF BandInv, BW!TypeOK
<1>7. /\ line' \in [BW!Conns -> [pieces : 0..Buffer, closed : BOOLEAN]]
      /\ total' \in [BW!Conns -> 0..DataSize]
  BY <1>3, <1>5, <1>6
<1>8. BW!TypeOK' /\ WriterPlace' /\ ReaderPlace'
  BY <1>2, <1>7 DEF BandInv, BW!TypeOK, WriterPlace, ReaderPlace, BW!Conns
<1>9. ASSUME NEW c \in BW!Conns PROVE Flow(c)' /\ Closed(c)' /\ LeftBehind(c)'
  <2>1. Flow(c) /\ Closed(c) /\ LeftBehind(c)
    BY BwOneLine
  <2>2. line'[c].closed = line[c].closed
    BY <1>3, <1>6
  <2>3. Closed(c)' /\ SentOn(c)' = SentOn(c)
    BY <1>2, <2>1, <2>2 DEF Closed, SentOn
  <2>4. CASE c = r
    <3>1. line'[c].pieces = line[c].pieces - k /\ total'[c] = total[c] + k
      BY <1>3, <1>6, <2>4
    <3>2. Arrived(c)' = Arrived(c)
      BY <1>4, <1>5, <2>4, <3>1 DEF Arrived
    <3> QED
      BY <1>2, <1>3, <2>1, <2>3, <2>4, <3>2 DEF Flow, LeftBehind
  <2>5. CASE c # r
    <3>1. line'[c] = line[c] /\ total'[c] = total[c]
      BY <1>3, <1>6, <2>5
    <3> QED
      BY <1>2, <2>1, <2>3, <3>1 DEF Flow, Arrived, LeftBehind
  <2> QED
    BY <2>4, <2>5
<1> QED
  BY <1>8, <1>9 DEF BandInv, Lines, BW!Conns

\* The reader goes on with the next connection because this one has ended, or
\* because of a failure.
LEMMA BwEndInv ==
    ASSUME Buffer \in Nat \ {0}
    PROVE  BandInv /\ (BW!EndOfData \/ BW!ReadFails) => BandInv'
<1> SUFFICES ASSUME BandInv, BW!EndOfData \/ BW!ReadFails PROVE BandInv'
  OBVIOUS
<1>1. /\ reader = "read" /\ i' = i + 1
      /\ reader' = (IF i' = NIterations THEN "report" ELSE "accept")
      /\ writer' = writer /\ conn' = conn /\ sent' = sent /\ line' = line /\ total' = total
      /\ clock' = clock /\ slots' = slots
      /\ \/ /\ line[i + 1].pieces = 0 /\ line[i + 1].closed /\ failures' = failures
         \/ failures < MaxFailures /\ failures' = failures + 1
  BY DEF BW!EndOfData, BW!ReadFails, BW!EndLoop
<1>2. /\ i < NIterations /\ i' \in 0..NIterations /\ i \in Nat
      /\ failures' \in 0..MaxFailures
      /\ failures' # 0 \/ (line[i'].pieces = 0 /\ line[i'].closed /\ failures' = failures)
  BY <1>1, BwNumbers, BwSizes DEF BandInv, ReaderPlace
<1>3. reader' \in {"report", "accept"} /\ (reader' = "accept" => i' < NIterations)
      /\ (reader' = "report" => i' = NIterations)
  BY <1>1, <1>2, BwSizes
<1>4. BW!TypeOK' /\ WriterPlace' /\ ReaderPlace'
  BY <1>1, <1>2, <1>3 DEF BandInv, BW!TypeOK, WriterPlace, ReaderPlace, BW!Conns
<1>5. ASSUME NEW c \in BW!Conns PROVE Flow(c)' /\ Closed(c)' /\ LeftBehind(c)'
  <2>1. c \in Nat /\ Flow(c) /\ Closed(c) /\ LeftBehind(c)
    BY BwOneLine
  <2>2. c <= i' <=> c <= i \/ c = i'
    BY <1>1, <1>2, <2>1
  <2>3. Flow(c)' /\ Closed(c)'
    BY <1>1, <1>2, <2>1 DEF Flow, Arrived, SentOn, Closed
  <2>4. LeftBehind(c)'
    BY <1>1, <1>2, <2>1, <2>2 DEF LeftBehind
  <2> QED
    BY <2>3, <2>4
<1> QED
  BY <1>4, <1>5 DEF BandInv, Lines, BW!Conns

-----------------------------------------------------------------------------
LEMMA BwNextInv ==
    ASSUME Buffer \in Nat \ {0}
    PROVE  BandInv /\ [BW!Next]_(BW!vars) => BandInv'
<1>1. BandInv /\ UNCHANGED BW!vars => BandInv'
  BY DEF BandInv, BW!TypeOK, Lines, Flow, Arrived, SentOn, Closed, LeftBehind, WriterPlace,
         ReaderPlace, BW!vars, BW!Conns
<1> QED
  BY <1>1, BwConnectInv, BwSendInv, BwSendFailsInv, BwCloseInv, BwFailInv,
     BwReaderInv, BwReadInv, BwEndInv
  DEF BW!Next, BW!WriterStep, BW!ReaderStep, BW!Terminated

\* The connections and both programs stay in step with each other.
THEOREM BwInvariance ==
    ASSUME Buffer \in Nat \ {0}
    PROVE  BW!Spec => []BandInv
BY BwInitInv, BwNextInv, PTL DEF BW!Spec

\* The state keeps its types: the reader never reads more than the message, and
\* its loop counter stays within its array and the one index after it.
THEOREM BwTypeCorrect ==
    ASSUME Buffer \in Nat \ {0}
    PROVE  BW!Spec => []BW!TypeOK
<1>1. BandInv => BW!TypeOK
  BY DEF BandInv
<1> QED
  BY <1>1, BwInvariance, PTL

\* If no call fails, every connection the reader has finished has given it the
\* whole message.
THEOREM Everything ==
    ASSUME Buffer \in Nat \ {0}
    PROVE  BW!Spec => []BW!ReadsEverything
<1>1. BandInv => BW!ReadsEverything
  <2> SUFFICES ASSUME BandInv, failures = 0, NEW c \in BW!Conns, c <= i PROVE total[c] = DataSize
    BY DEF BW!ReadsEverything
  <2>1. /\ c \in Nat /\ c >= 1 /\ conn \in Nat /\ total[c] \in Nat
        /\ Flow(c) /\ Closed(c) /\ LeftBehind(c)
    BY BwOneLine, BwNumbers
  <2>2. line[c].closed /\ line[c].pieces = 0
    BY <2>1 DEF LeftBehind
  <2>3. c < conn \/ (c = conn /\ sent = DataSize)
    BY <2>1, <2>2 DEF Closed, BandInv, WriterPlace
  <2>4. SentOn(c) = DataSize
    BY <2>1, <2>3 DEF SentOn
  <2> QED
    BY <2>1, <2>2, <2>4 DEF Flow, Arrived
<1> QED
  BY <1>1, BwInvariance, PTL

-----------------------------------------------------------------------------
(* Progress of the round trips: a rank that every step lowers, and nobody   *)
(* left waiting.                                                            *)

\* The connection of now is spoilt: the client will try again for its slot
\* without another short recv(), because the server received too little, or
\* because the answer is short, reset or never comes.
Spoilt ==
    \/ server = "send" /\ fresh < DataSize
    \/ server = "close" /\ client = "recv" /\ serving = conn /\ unread > 0
    \/ client = "recv" /\ (answer.closed \/ answer.len \in 1..DataSize - 1)

\* What the retries and the slots to come are paid from.
Credit == IF Spoilt THEN 1 ELSE 0
Up == IF server = "exited" THEN 0 ELSE 1
Left == (NIterations + 1 - i) + (MaxShort - short) + Credit + Up

ClientWay == IF client = "connect" THEN 5 ELSE 0

ServerWay ==
    CASE server = "recv" -> 4
      [] server = "send" -> 3
      [] server \in {"close", "start"} -> 2
      [] server = "accept" -> 1
      [] OTHER -> 0

\* Everything that client and server still have before them.
Rank == 6 * Left + 4 * (conn - serving) + ClientWay + ServerWay

Forward == Rank' < Rank

\* What the server has in hand: what it received is no less than the prefix it
\* copies, and what is missing is still in the socket.
Taken ==
    /\ server \in {"send", "close"} => unread = DataSize - fresh
    /\ server = "send" => fresh <= prefix

\* A client in recv() has an answer, or the server has still to handle it.
Answered ==
    client = "recv" =>
        \/ server \in {"recv", "send"}
        \/ server \in {"accept", "close"} /\ serving < conn
        \/ answer.len > 0 \/ answer.closed

ClientCanStep == client = "connect" \/ (client = "recv" /\ (answer.len > 0 \/ answer.closed))

ServerCanStep ==
    \/ server \in {"start", "recv", "send", "close"}
    \/ server = "accept" /\ serving < conn

\* Until the client has ended, client or server can go on.
NoDeadlock == client \in {"done", "failed"} \/ ClientCanStep \/ ServerCanStep

Steady == Taken /\ Answered

\* The numbers of the rank.
LEMMA RankNumbers ==
    ASSUME RttInv
    PROVE  /\ i \in Nat /\ i <= NIterations + 1 /\ short \in Nat /\ short <= MaxShort
           /\ conn \in Nat /\ serving \in Nat /\ serving <= conn /\ conn <= serving + 1
           /\ Credit \in 0..1 /\ Up \in 0..1 /\ ClientWay \in 0..5 /\ ServerWay \in 0..4
           /\ NIterations \in Nat /\ MaxShort \in Nat
<1>1. /\ i \in Nat /\ i <= NIterations + 1 /\ short \in Nat /\ short <= MaxShort
      /\ NIterations \in Nat /\ MaxShort \in Nat
  BY Sizes DEF RttInv, TypeOK
<1>2. conn \in Nat /\ serving \in Nat /\ serving <= conn /\ conn <= serving + 1
  BY DEF RttInv, TypeOK, Lockstep
<1>3. Credit \in 0..1 /\ Up \in 0..1 /\ ClientWay \in 0..5
  BY DEF Credit, Up, ClientWay
<1>4. ServerWay \in 0..4
  BY DEF ServerWay
<1> QED
  BY <1>1, <1>2, <1>3, <1>4

-----------------------------------------------------------------------------
(* What the rank needs to know of the state. *)

LEMMA SteadyInit == Init => Steady
BY DEF Init, Steady, Taken, Answered

LEMMA SteadyStep ==
    ASSUME RttInv, RttInv', Steady, [Next]_vars
    PROVE  Steady'
<1>1. /\ conn \in Nat /\ serving \in Nat /\ serving <= conn
      /\ unread \in Nat /\ fresh \in Nat /\ prefix \in Nat
      /\ prefix <= DataSize /\ fresh <= DataSize /\ DataSize \in Nat
  BY Sizes DEF RttInv, TypeOK
<1>2. CASE Connect \/ SocketFails
  <2>1. /\ server' = server /\ unread' = unread /\ fresh' = fresh /\ prefix' = prefix
        /\ serving' = serving /\ client = "connect"
        /\ \/ client' = "failed"
           \/ client' = "recv" /\ conn' = conn + 1 /\ server \notin {"start", "exited"}
    BY <1>2 DEF Connect, SocketFails, serverVars
  <2>2. Taken'
    BY <2>1 DEF Steady, Taken
  <2>3. Answered'
    <3> SUFFICES ASSUME client' = "recv"
                 PROVE  server' \in {"accept", "close"} /\ serving' < conn'
      BY DEF Answered
    <3>1. server \in {"accept", "close"}
      BY <2>1 DEF RttInv, TypeOK, ServerPCs, Lockstep
    <3> QED
      BY <1>1, <2>1, <3>1
  <2> QED
    BY <2>2, <2>3 DEF Steady
<1>3. CASE Recv
  <2>1. /\ server' = server /\ unread' = unread /\ fresh' = fresh /\ prefix' = prefix
        /\ client' \in {"done", "connect"}
    BY <1>3 DEF Recv, serverVars, NextSlot
  <2> QED
    BY <2>1 DEF Steady, Taken, Answered
<1>4. CASE Listen
  <2>1. server = "start" /\ server' = "accept" /\ client' = client
    BY <1>4 DEF Listen, clientVars
  <2>2. client' # "recv"
    BY <2>1 DEF RttInv, Lockstep
  <2> QED
    BY <2>1, <2>2 DEF Steady, Taken, Answered
<1>5. CASE Accept
  <2>1. server' = "recv"
    BY <1>5 DEF Accept
  <2> QED
    BY <2>1 DEF Steady, Taken, Answered
<1>6. CASE ServerRecv
  <2>1. /\ server' = "send"
        /\ \E k \in 1..DataSize : /\ fresh' = k /\ unread' = DataSize - k
                                  /\ prefix' = IF prefix < k THEN k ELSE prefix
    BY <1>6 DEF ServerRecv
  <2>2. fresh' <= prefix' /\ unread' = DataSize - fresh'
    BY <1>1, <2>1
  <2> QED
    BY <2>1, <2>2 DEF Steady, Taken, Answered
<1>7. CASE ServerSend
  <2>1. /\ server = "send" /\ server' \in {"close", "exited"}
        /\ unread' = unread /\ fresh' = fresh
        /\ answer'.len > 0 \/ answer'.closed
    <3>1. server = "send" /\ server' \in {"close", "exited"} /\ unread' = unread /\ fresh' = fresh
      BY <1>7 DEF ServerSend
    <3>2. CASE answer' = [NoAnswer EXCEPT !.closed = TRUE]
      BY <3>1, <3>2 DEF NoAnswer
    <3>3. ASSUME NEW len \in (IF prefix < DataSize THEN {prefix} ELSE {DataSize, DataSize + 1}),
                 answer' = [len |-> len, own |-> fresh, closed |-> FALSE]
          PROVE  answer'.len > 0
      <4>1. prefix >= 1
        BY <3>1 DEF RttInv, InHand
      <4>2. len > 0
        BY <1>1, <3>3, <4>1, Sizes
      <4> QED
        BY <3>3, <4>2
    <3> QED
      BY <1>7, <3>1, <3>2, <3>3 DEF ServerSend
  <2> QED
    BY <2>1 DEF Steady, Taken, Answered
<1>8. CASE ServerClose
  <2>1. /\ server = "close" /\ server' = "accept" /\ client' = client
        /\ serving' = serving /\ conn' = conn
        /\ answer'.len = answer.len /\ (answer.closed => answer'.closed)
    <3>1. answer \in [len : 0..DataSize + 1, own : 0..DataSize, closed : BOOLEAN]
      BY DEF RttInv, TypeOK
    <3> QED
      BY <1>8, <3>1 DEF ServerClose, clientVars
  <2> QED
    BY <2>1 DEF Steady, Taken, Answered
<1>9. CASE ServerFail
  <2>1. server' = "exited" /\ client' = client
    BY <1>9 DEF ServerFail, clientVars
  <2>2. \/ answer'.closed
        \/ answer' = answer /\ server = "accept" /\ serving = conn
    BY <1>9 DEF ServerFail, NoAnswer
  <2>3. client' = "recv" => answer'.len > 0 \/ answer'.closed
    BY <1>1, <2>1, <2>2 DEF Steady, Answered
  <2> QED
    BY <2>1, <2>3 DEF Steady, Taken, Answered
<1>10. CASE UNCHANGED vars
  BY <1>10 DEF vars, clientVars, serverVars, Steady, Taken, Answered
<1> QED
  BY <1>2, <1>3, <1>4, <1>5, <1>6, <1>7, <1>8, <1>9, <1>10
  DEF Next, ClientStep, ServerStep, Terminated

-----------------------------------------------------------------------------
(* Every step lowers the rank. *)

LEMMA ClientIsForward ==
    ASSUME RttInv, Steady, Connect \/ SocketFails
    PROVE  Forward
<1>1. /\ client = "connect" /\ i' = i /\ short' = short /\ server' = server
      /\ serving' = serving /\ fresh' = fresh /\ unread' = unread
      /\ \/ client' = "failed" /\ conn' = conn
         \/ client' = "recv" /\ conn' = conn + 1 /\ answer' = NoAnswer
    BY DEF Connect, SocketFails, serverVars
<1>2. ClientWay = 5 /\ ClientWay' = 0 /\ ServerWay' = ServerWay /\ Up' = Up
  BY <1>1 DEF ClientWay, ServerWay, Up
<1>3. server # "send"
  BY <1>1 DEF RttInv, Lockstep
<1>4. ~Spoilt'
  <2>1. CASE client' = "failed"
    BY <1>1, <1>3, <2>1 DEF Spoilt
  <2>2. CASE client' = "recv" /\ conn' = conn + 1 /\ answer' = NoAnswer
    <3>1. serving' # conn'
      BY <1>1, <2>2, RankNumbers
    <3>2. ~answer'.closed /\ answer'.len = 0
      BY <2>2, NoAnswerType
    <3>3. answer'.len \notin 1..DataSize - 1
      BY <3>2
    <3> QED
      BY <1>1, <1>3, <3>1, <3>2, <3>3 DEF Spoilt
  <2> QED
    BY <1>1, <2>1, <2>2
<1>5. Credit' = 0
  BY <1>4 DEF Credit
<1>6. conn' = conn \/ conn' = conn + 1
  BY <1>1
<1>7. Left' <= Left /\ Left \in Int /\ Left' \in Int
  BY <1>1, <1>2, <1>5, RankNumbers DEF Left
<1> QED
  BY <1>1, <1>2, <1>6, <1>7, RankNumbers DEF Forward, Rank

LEMMA RecvIsForward ==
    ASSUME RttInv, Steady, Recv
    PROVE  Forward
<1>1. /\ client = "recv" /\ conn' = conn /\ server' = server /\ serving' = serving
      /\ fresh' = fresh /\ unread' = unread /\ client' \in {"done", "connect"}
  BY DEF Recv, serverVars, NextSlot
<1>2. ServerWay' = ServerWay /\ Up' = Up /\ ClientWay = 0 /\ ClientWay' <= 5 /\ ClientWay' \in Nat
  BY <1>1 DEF ServerWay, Up, ClientWay
<1>3. answer # NoAnswer
  BY NoAnswerType DEF Recv
<1>4. ~Spoilt'
  <2>1. server # "send"
    BY <1>3 DEF RttInv, Lockstep
  <2> QED
    BY <1>1, <2>1 DEF Spoilt
<1>5. Credit' = 0
  BY <1>4 DEF Credit
\* A full answer advances the slot, and every retry was paid for.
<1>6. \/ i' = i + 1 /\ short' = short
      \/ i' = i /\ short' = short + 1
      \/ i' = i /\ short' = short /\ Credit = 1
  <2>1. CASE answer.closed /\ i' = Retry /\ UNCHANGED <<slots, short>>
    BY <1>1, <2>1 DEF Retry, Credit, Spoilt
  <2>2. ASSUME NEW k \in 1..DataSize, answer.len > 0,
               Received(IF answer.len < DataSize THEN answer.len ELSE DataSize, k),
               IF k = DataSize THEN i' = i + 1 ELSE i' = Retry
        PROVE  \/ i' = i + 1 /\ short' = short
               \/ i' = i /\ short' = short + 1
               \/ i' = i /\ short' = short /\ Credit = 1
    <3>1. answer.len \in 0..DataSize + 1 /\ DataSize \in Nat
      BY Sizes DEF RttInv, TypeOK
    <3>2. CASE k = DataSize
      <4>1. short' = short
        BY <2>2, <3>1, <3>2 DEF Received
      <4> QED
        BY <2>2, <3>2, <4>1
    <3>3. CASE k # DataSize
      <4>1. i' = i
        BY <2>2, <3>3 DEF Retry
      <4>2. CASE short' = short + 1
        BY <4>1, <4>2
      <4>3. CASE short' = short /\ k = (IF answer.len < DataSize THEN answer.len ELSE DataSize)
        <5>1. answer.len \in 1..DataSize - 1
          BY <2>2, <3>1, <3>3, <4>3
        <5> QED
          BY <1>1, <4>1, <4>3, <5>1 DEF Credit, Spoilt
      <4> QED
        BY <2>2, <4>2, <4>3 DEF Received
    <3> QED
      BY <3>2, <3>3
  <2> QED
    BY <2>1, <2>2 DEF Recv
<1>7. Left' <= Left - 1 /\ Left \in Int /\ Left' \in Int
  BY <1>2, <1>5, <1>6, RankNumbers DEF Left
<1> QED
  BY <1>1, <1>2, <1>7, RankNumbers DEF Forward, Rank

LEMMA ServerIsForward ==
    ASSUME RttInv, Steady,
           UNCHANGED <<i, conn, client>>,
           Left' <= Left,
           \/ serving' = serving /\ ServerWay' < ServerWay
           \/ serving' = serving + 1 /\ ServerWay' < ServerWay + 4,
           ServerWay' \in 0..4, Left' \in Int
    PROVE  Forward
<1>1. ClientWay' = ClientWay
  BY DEF ClientWay
<1>2. Left \in Int
  BY RankNumbers DEF Left
<1> QED
  BY <1>1, <1>2, RankNumbers DEF Forward, Rank

LEMMA ServerStepIsForward ==
    ASSUME RttInv, RttInv', Steady, Steady', ServerStep \/ ServerFail
    PROVE  Forward
<1>1. /\ i' = i /\ conn' = conn /\ client' = client
  BY DEF ServerStep, ServerFail, Listen, Accept, ServerRecv, ServerSend, ServerClose, clientVars
<1>2. /\ DataSize \in Nat /\ fresh \in Nat /\ fresh <= DataSize /\ prefix \in Nat
      /\ prefix <= DataSize /\ unread \in Nat
  BY Sizes DEF RttInv, TypeOK
<1>3. /\ Credit = 0 \/ Credit = 1
      /\ Credit' = 0 \/ Credit' = 1
      /\ Spoilt <=> Credit = 1
      /\ Spoilt' <=> Credit' = 1
  BY DEF Credit
<1>4. ASSUME serving' = serving \/ serving' = serving + 1,
             server # "exited", server' # "exited",
             \/ short' = short /\ (Spoilt' => Spoilt)
             \/ short' = short + 1 /\ ~Spoilt,
             \/ serving' = serving /\ ServerWay' < ServerWay
             \/ serving' = serving + 1 /\ ServerWay' < ServerWay + 4,
             ServerWay' \in 0..4
      PROVE  Forward
  <2>1. Up = 1 /\ Up' = 1
    BY <1>4 DEF Up
  <2>2. Credit' - short' <= Credit - short /\ short' \in Int
    <3>1. CASE short' = short /\ (Spoilt' => Spoilt)
      <4>1. Credit' = 0 \/ Credit = 1
        BY <1>3, <3>1
      <4> QED
        BY <1>3, <3>1, <4>1, RankNumbers
    <3>2. CASE short' = short + 1 /\ ~Spoilt
      <4>1. Credit = 0
        BY <1>3, <3>2
      <4> QED
        BY <1>3, <3>2, <4>1, RankNumbers
    <3> QED
      BY <1>4, <3>1, <3>2
  <2>3. Left' <= Left /\ Left' \in Int
    BY <1>1, <1>3, <1>4, <2>1, <2>2, RankNumbers DEF Left
  <2> QED
    BY <1>1, <1>4, <2>3, ServerIsForward
<1>5. ASSUME server \notin {"exited"}, server \in ServerPCs, server' = "exited", short' = short,
             serving' = serving
      PROVE  Forward
  <2>1. Up = 1 /\ Up' = 0 /\ ServerWay' = 0 /\ ServerWay > 0 /\ 0 \in 0..4
    BY <1>5 DEF Up, ServerWay, ServerPCs
  <2>2. Left' <= Left /\ Left' \in Int
    BY <1>1, <1>3, <1>5, <2>1, RankNumbers DEF Left
  <2> QED
    BY <1>1, <1>5, <2>1, <2>2, ServerIsForward
<1>6. server \in ServerPCs
  BY DEF RttInv, TypeOK
<1>7. CASE Listen
  <2>1. /\ server = "start" /\ server' = "accept" /\ serving' = serving /\ short' = short
        /\ answer' = answer
    BY <1>7 DEF Listen
  <2>2. ServerWay = 2 /\ ServerWay' = 1
    BY <2>1 DEF ServerWay
  <2>3. ~Spoilt'
    BY <1>1, <2>1 DEF RttInv, Lockstep, Spoilt
  <2> QED
    BY <1>4, <2>1, <2>2, <2>3
<1>8. CASE Accept
  <2>1. /\ server = "accept" /\ server' = "recv" /\ serving' = serving + 1 /\ serving < conn
        /\ short' = short /\ answer' = answer
    BY <1>8 DEF Accept
  <2>2. ServerWay = 1 /\ ServerWay' = 4
    BY <2>1 DEF ServerWay
  <2>3. ~Spoilt'
    <3>1. answer' = NoAnswer
      BY <2>1 DEF RttInv, Lockstep
    <3>2. ~answer'.closed /\ answer'.len \notin 1..DataSize - 1
      BY <3>1, NoAnswerType
    <3> QED
      BY <2>1, <3>2 DEF Spoilt
  <2> QED
    BY <1>4, <2>1, <2>2, <2>3
<1>9. CASE ServerRecv
  <2>1. /\ server = "recv" /\ server' = "send" /\ serving' = serving /\ answer' = answer
        /\ \E k \in 1..DataSize : Received(DataSize, k) /\ fresh' = k
    BY <1>9 DEF ServerRecv
  <2>2. ServerWay = 4 /\ ServerWay' = 3
    BY <2>1 DEF ServerWay
  <2>3. ~answer.closed /\ answer.len \notin 1..DataSize - 1
    <3>1. answer = NoAnswer
      BY <2>1 DEF RttInv, Lockstep
    <3> QED
      BY <3>1, NoAnswerType
  <2>4. ~Spoilt
    BY <2>1, <2>3 DEF Spoilt
  <2>5. (short' = short /\ fresh' = DataSize) \/ short' = short + 1
    BY <2>1 DEF Received
  <2>6. fresh' = DataSize => ~Spoilt'
    BY <1>2, <2>1, <2>3 DEF Spoilt
  <2> QED
    BY <1>4, <2>1, <2>2, <2>4, <2>5, <2>6
<1>10. CASE ServerSend
  <2>1. server = "send" /\ serving' = serving /\ short' = short /\ unread' = unread /\ fresh' = fresh
    BY <1>10 DEF ServerSend
  <2>2. CASE server' = "exited"
    BY <1>5, <1>6, <2>1, <2>2
  <2>3. ASSUME server' = "close",
               NEW len \in (IF prefix < DataSize THEN {prefix} ELSE {DataSize, DataSize + 1}),
               answer' = [len |-> len, own |-> fresh, closed |-> FALSE]
        PROVE  Forward
    <3>1. ServerWay = 3 /\ ServerWay' = 2
      BY <2>1, <2>3 DEF ServerWay
    <3>2. ~Spoilt => ~Spoilt'
      <4> SUFFICES ASSUME ~Spoilt PROVE ~Spoilt'
        OBVIOUS
      <4>1. fresh = DataSize /\ unread = 0 /\ prefix = DataSize
        BY <1>2, <2>1 DEF Spoilt, Steady, Taken
      <4>2. len \notin 1..DataSize - 1
        BY <1>2, <2>3, <4>1
      <4>3. answer'.len = len /\ ~answer'.closed
        BY <2>3
      <4> QED
        BY <2>1, <2>3, <4>1, <4>2, <4>3 DEF Spoilt
    <3> QED
      BY <1>4, <2>1, <2>3, <3>1, <3>2
  <2> QED
    BY <1>10, <2>2, <2>3 DEF ServerSend
<1>11. CASE ServerClose
  <2>1. /\ server = "close" /\ server' = "accept" /\ serving' = serving /\ short' = short
        /\ answer' = IF serving = conn /\ client = "recv"
                     THEN [answer EXCEPT !.closed = @ \/ unread > 0] ELSE answer
    BY <1>11 DEF ServerClose
  <2>2. ServerWay = 2 /\ ServerWay' = 1
    BY <2>1 DEF ServerWay
  <2>3. /\ answer'.len = answer.len
        /\ answer'.closed => answer.closed \/ (serving = conn /\ client = "recv" /\ unread > 0)
    <3>1. answer \in [len : 0..DataSize + 1, own : 0..DataSize, closed : BOOLEAN]
      BY DEF RttInv, TypeOK
    <3> QED
      BY <2>1, <3>1
  <2>4. Spoilt' => Spoilt
    BY <1>1, <2>1, <2>3 DEF Spoilt
  <2> QED
    BY <1>4, <2>1, <2>2, <2>4
<1>12. CASE ServerFail
  <2>1. /\ server \in {"start", "accept", "recv", "send"} /\ server' = "exited"
        /\ short' = short /\ serving' = serving
    BY <1>12 DEF ServerFail
  <2> QED
    BY <1>5, <1>6, <2>1
<1> QED
  BY <1>7, <1>8, <1>9, <1>10, <1>11, <1>12 DEF ServerStep

\* Every step brings the client and the server nearer to the end of the slots: a
\* retry is paid by a short recv(), by the server's end, or not made at all.
THEOREM NoStepBack == Spec => [](Rank \in Nat) /\ [][Forward]_vars
<1>1. RttInv /\ Steady /\ [Next]_vars => RttInv' /\ Steady' /\ [Forward]_vars
  <2> SUFFICES ASSUME RttInv, Steady, [Next]_vars PROVE RttInv' /\ Steady' /\ [Forward]_vars
    OBVIOUS
  <2>1. RttInv' /\ Steady'
    BY NextInv, SteadyStep
  <2> QED
    BY <2>1, ClientIsForward, RecvIsForward, ServerStepIsForward DEF Next, ClientStep, Terminated
<1>2. RttInv => Rank \in Nat
  BY RankNumbers DEF Rank, Left
<1> QED
  BY InitInv, SteadyInit, <1>1, <1>2, PTL DEF Spec

\* Until the client has ended, client or server can go on, whichever calls fail: a
\* client in recv() has an answer, a reset or the end of the connection before it,
\* or a server that still comes to its connection.
THEOREM SomebodyGoesOn == Spec => []NoDeadlock
<1>1. RttInv /\ Steady /\ [Next]_vars => RttInv' /\ Steady'
  <2> SUFFICES ASSUME RttInv, Steady, [Next]_vars PROVE RttInv' /\ Steady'
    OBVIOUS
  <2> QED
    BY NextInv, SteadyStep
<1>2. RttInv /\ Steady => NoDeadlock
  BY DEF RttInv, TypeOK, ClientPCs, Steady, Answered, NoDeadlock, ClientCanStep, ServerCanStep
<1> QED
  BY InitInv, SteadyInit, <1>1, <1>2, PTL DEF Spec

-----------------------------------------------------------------------------
(* Progress of the connections. *)

ConnClientWay ==
    IF client \in {"done", "failed"} THEN 0
    ELSE 2 * (NIterations + 1 - i) + (IF client = "connect" THEN 1 ELSE 0)

ConnServerWay ==
    CASE server = "start" -> 2 * NIterations + 2
      [] server = "accept" -> 2 * (NIterations - accepted) + 1
      [] server = "close" -> 2 * (NIterations - accepted) + 2
      [] OTHER -> 0

ConnForward ==
    \/ ConnClientWay' < ConnClientWay /\ ConnServerWay' <= ConnServerWay
    \/ ConnServerWay' < ConnServerWay /\ ConnClientWay' <= ConnClientWay

\* Who waits: a client for room in the queue, a server for a connection.
ConnCanStep ==
    \/ client = "close"
    \/ client = "connect" /\ (server \in {"accept", "close"} => queue < QueueLimit)
    \/ server \in {"start", "close"}
    \/ server = "accept" /\ queue > 0

ConnNoDeadlock == ConnCanStep \/ client \in {"done", "failed"}

LEMMA ConnWays ==
    ASSUME QueueLimit \in Nat \ {0}, ConnInv
    PROVE  /\ ConnClientWay \in Nat /\ ConnServerWay \in Nat
           /\ NIterations - accepted \in Nat
           /\ client \in {"connect", "close"} => NIterations + 1 - i \in Nat /\ NIterations + 1 - i > 0
<1>1. accepted \in 0..NIterations /\ NIterations - accepted \in Nat
  BY ConnSizes DEF ConnInv, CO!TypeOK
<1>2. /\ client \in {"connect", "close", "done", "failed"}
      /\ client # "done" => NIterations + 1 - i \in Nat /\ NIterations + 1 - i > 0
  BY ConnSizes, ConnNumbers DEF ConnInv, CO!TypeOK
<1>3. ConnClientWay \in Nat
  BY <1>2 DEF ConnClientWay
<1>4. ConnServerWay \in Nat
  BY <1>1, ConnSizes DEF ConnServerWay
<1> QED
  BY <1>1, <1>2, <1>3, <1>4

LEMMA ConnStepIsForward ==
    ASSUME QueueLimit \in Nat \ {0}, ConnInv, ConnInv', [CO!Next]_(CO!vars)
    PROVE  [ConnForward]_(CO!vars)
<1>1. /\ ConnClientWay \in Nat /\ ConnServerWay \in Nat
      /\ NIterations - accepted \in Nat /\ NIterations \in Nat
      /\ client \in {"connect", "close"} => NIterations + 1 - i \in Nat /\ NIterations + 1 - i > 0
  BY ConnWays, ConnSizes
<1>2. CASE UNCHANGED <<server, accepted>> /\ ConnClientWay' < ConnClientWay
  <2>1. ConnServerWay' = ConnServerWay
    BY <1>2 DEF ConnServerWay
  <2> QED
    BY <1>1, <1>2, <2>1 DEF ConnForward
<1>3. CASE UNCHANGED <<client, i>> /\ ConnServerWay' < ConnServerWay
  <2>1. ConnClientWay' = ConnClientWay
    BY <1>3 DEF ConnClientWay
  <2> QED
    BY <1>1, <1>3, <2>1 DEF ConnForward
<1>4. CASE CO!Connect \/ CO!SocketFails
  <2>1. /\ client = "connect" /\ i' = i /\ client' \in {"close", "failed"}
        /\ UNCHANGED <<server, accepted>>
    BY <1>4 DEF CO!Connect, CO!SocketFails
  <2>2. ConnClientWay = 2 * (NIterations + 1 - i) + 1
    BY <2>1 DEF ConnClientWay
  <2>3. ConnClientWay' = 2 * (NIterations + 1 - i) \/ ConnClientWay' = 0
    BY <1>1, <2>1 DEF ConnClientWay
  <2> QED
    BY <1>1, <1>2, <2>1, <2>2, <2>3
<1>5. CASE CO!Close
  <2>1. /\ client = "close" /\ i' = i + 1 /\ client' \in {"done", "connect"}
        /\ UNCHANGED <<server, accepted>>
    BY <1>5 DEF CO!Close
  <2>2. i \in Nat
    BY ConnNumbers
  <2>3. ConnClientWay = 2 * (NIterations + 1 - i)
    BY <1>1, <2>1 DEF ConnClientWay
  <2>4. ConnClientWay' = 2 * (NIterations + 1 - (i + 1)) + 1 \/ ConnClientWay' = 0
    BY <2>1 DEF ConnClientWay
  <2> QED
    BY <1>1, <1>2, <2>1, <2>2, <2>3, <2>4
<1>6. CASE CO!Listen
  <2>1. server = "start" /\ server' = "accept" /\ accepted' = accepted /\ UNCHANGED <<client, i>>
    BY <1>6 DEF CO!Listen
  <2>2. ConnServerWay = 2 * NIterations + 2 /\ ConnServerWay' = 2 * (NIterations - accepted) + 1
    BY <2>1 DEF ConnServerWay
  <2>3. accepted \in Nat
    BY ConnNumbers
  <2> QED
    BY <1>1, <1>3, <2>1, <2>2, <2>3
<1>7. CASE CO!Accept
  <2>1. /\ server = "accept" /\ server' = "close" /\ accepted' = accepted + 1
        /\ UNCHANGED <<client, i>>
    BY <1>7 DEF CO!Accept
  <2>2. /\ ConnServerWay = 2 * (NIterations - accepted) + 1
        /\ ConnServerWay' = 2 * (NIterations - (accepted + 1)) + 2
    BY <2>1 DEF ConnServerWay
  <2>3. accepted \in Nat
    BY ConnNumbers
  <2> QED
    BY <1>1, <1>3, <2>1, <2>2, <2>3
<1>8. CASE CO!ServerClose
  <2>1. server = "close" /\ server' = "accept" /\ accepted' = accepted /\ UNCHANGED <<client, i>>
    BY <1>8 DEF CO!ServerClose
  <2>2. /\ ConnServerWay = 2 * (NIterations - accepted) + 2
        /\ ConnServerWay' = 2 * (NIterations - accepted) + 1
    BY <2>1 DEF ConnServerWay
  <2> QED
    BY <1>1, <1>3, <2>1, <2>2
<1>9. CASE CO!ServerFail
  <2>1. server \in {"start", "accept"} /\ server' = "exited" /\ UNCHANGED <<client, i>>
    BY <1>9 DEF CO!ServerFail
  <2>2. ConnServerWay \in Nat /\ ConnServerWay # 0 /\ ConnServerWay' = 0
    BY <1>1, <2>1 DEF ConnServerWay
  <2> QED
    BY <1>3, <2>1, <2>2
<1> QED
  BY <1>4, <1>5, <1>6, <1>7, <1>8, <1>9
  DEF CO!Next, CO!ClientStep, CO!ServerStep, CO!Terminated

\* Every step brings the client or the server nearer to its end, and sends
\* neither back, whichever calls fail: the client makes no more than NIterations
\* connections, and no wait on the queue starts a round again.
THEOREM ConnNoStepBack ==
    ASSUME QueueLimit \in Nat \ {0}
    PROVE  CO!Spec => /\ [](ConnClientWay \in Nat /\ ConnServerWay \in Nat)
                      /\ [][ConnForward]_(CO!vars)
<1>1. ConnInv /\ [CO!Next]_(CO!vars) => ConnInv' /\ [ConnForward]_(CO!vars)
  BY ConnNextInv, ConnStepIsForward
<1>2. ConnInv => ConnClientWay \in Nat /\ ConnServerWay \in Nat
  BY ConnWays
<1> QED
  BY ConnInitInv, <1>1, <1>2, PTL DEF CO!Spec

\* Until the client has ended, the client or the server can go on: the client
\* waits for room in the listen queue only while the server has a connection to
\* accept, whichever calls fail.
THEOREM ConnSomebodyGoesOn ==
    ASSUME QueueLimit \in Nat \ {0}
    PROVE  CO!Spec => []ConnNoDeadlock
<1>1. ConnInv => ConnNoDeadlock
  <2> SUFFICES ASSUME ConnInv, client \notin {"done", "failed"} PROVE ConnCanStep
    BY DEF ConnNoDeadlock
  <2>1. /\ client \in {"connect", "close"} /\ server \in {"start", "accept", "close", "exited"}
        /\ queue \in Nat
    BY DEF ConnInv, CO!TypeOK
  <2>2. queue > 0 \/ queue < QueueLimit
    BY <2>1, ConnSizes
  <2> QED
    BY <2>1, <2>2 DEF ConnCanStep
<1> QED
  BY ConnInitInv, ConnNextInv, <1>1, PTL DEF CO!Spec

-----------------------------------------------------------------------------
(* Progress of the bandwidth programs. *)

\* What the writer and the reader have still before them.
WriterWay ==
    CASE writer = "connect" -> (NIterations - conn) * (DataSize + 3) + 1
      [] writer = "send" -> (NIterations - conn) * (DataSize + 3) + (DataSize - sent) + 2
      [] OTHER -> 0

ReaderWay ==
    CASE reader = "start" -> NIterations * (DataSize + 2) + DataSize + 4
      [] reader = "accept" -> (NIterations - i) * (DataSize + 2) + DataSize + 3
      [] reader = "read" -> (NIterations - i) * (DataSize + 2) + (DataSize - total[i + 1]) + 2
      [] reader = "report" -> 1
      [] OTHER -> 0

BwForward ==
    \/ WriterWay' < WriterWay /\ ReaderWay' <= ReaderWay
    \/ ReaderWay' < ReaderWay /\ WriterWay' <= WriterWay

WriterCanStep ==
    \/ writer = "connect"
    \/ writer = "send" /\ \/ sent = DataSize
                          \/ line[conn].pieces < Buffer
                          \/ reader \in {"done", "failed"}

ReaderCanStep ==
    \/ reader \in {"start", "report"}
    \/ reader = "accept" /\ conn > i
    \/ reader = "read" /\ (line[i + 1].pieces > 0 \/ line[i + 1].closed)

\* With one connection, as in the code, or if no call fails: writer and reader
\* never wait for each other.
BwNoDeadlock ==
    NIterations = 1 \/ failures = 0 =>
        writer \in {"done", "failed"} \/ WriterCanStep \/ ReaderCanStep

LEMMA Rounds ==
    \A a, d \in Nat : a * d \in Nat /\ (a + 1) * d = a * d + d /\ 0 * d = 0
<1> SUFFICES ASSUME NEW a \in Nat, NEW d \in Nat
             PROVE  a * d \in Nat /\ (a + 1) * d = a * d + d /\ 0 * d = 0
  OBVIOUS
<1>1. a * d \in Nat
  OBVIOUS
<1>2. (a + 1) * d = a * d + d
  OBVIOUS
<1> QED
  BY <1>1, <1>2

LEMMA Downwards ==
    \A n, k, d \in Nat : n - k \in Nat => (n - k) * d <= n * d
<1> SUFFICES ASSUME NEW n \in Nat, NEW k \in Nat, NEW d \in Nat, n - k \in Nat
             PROVE  (n - k) * d <= n * d
  OBVIOUS
<1>1. n * d = (n - k) * d + k * d
  OBVIOUS
<1>2. (n - k) * d \in Nat /\ k * d \in Nat /\ n * d \in Nat
  BY Rounds
<1> QED
  BY <1>1, <1>2

\* The rounds that the writer and the reader have left.
LEMMA BwRounds ==
    ASSUME Buffer \in Nat \ {0}, BandInv
    PROVE  /\ NIterations - conn \in Nat /\ NIterations - i \in Nat
           /\ conn < NIterations => NIterations - (conn + 1) \in Nat
           /\ i < NIterations => NIterations - (i + 1) \in Nat
           /\ (NIterations - conn) * (DataSize + 3) \in Nat
           /\ (NIterations - i) * (DataSize + 2) \in Nat
           /\ conn < NIterations =>
                 (NIterations - conn) * (DataSize + 3) =
                     (NIterations - (conn + 1)) * (DataSize + 3) + (DataSize + 3)
           /\ i < NIterations =>
                 (NIterations - i) * (DataSize + 2) =
                     (NIterations - (i + 1)) * (DataSize + 2) + (DataSize + 2)
<1>1. /\ NIterations - conn \in Nat /\ NIterations - i \in Nat
      /\ conn < NIterations => /\ NIterations - (conn + 1) \in Nat
                               /\ NIterations - conn = (NIterations - (conn + 1)) + 1
      /\ i < NIterations => /\ NIterations - (i + 1) \in Nat
                            /\ NIterations - i = (NIterations - (i + 1)) + 1
  BY BwNumbers, BwSizes
<1>2. DataSize + 3 \in Nat /\ DataSize + 2 \in Nat
  BY BwSizes
<1> QED
  BY ONLY <1>1, <1>2, Rounds

LEMMA BwWays ==
    ASSUME Buffer \in Nat \ {0}, BandInv
    PROVE  /\ WriterWay \in Nat /\ ReaderWay \in Nat
           /\ writer # "done" /\ writer # "failed" => WriterWay > 0
           /\ reader # "done" /\ reader # "failed" => ReaderWay > 0
<1>1. /\ (NIterations - conn) * (DataSize + 3) \in Nat
      /\ (NIterations - i) * (DataSize + 2) \in Nat
      /\ NIterations * (DataSize + 2) \in Nat
      /\ DataSize \in Nat /\ DataSize - sent \in Nat
  <2>1. NIterations * (DataSize + 2) \in Nat
    BY BwSizes, Rounds
  <2>2. DataSize \in Nat /\ DataSize - sent \in Nat
    BY BwNumbers, BwSizes
  <2> QED
    BY BwRounds, <2>1, <2>2
<1>2. reader = "read" => DataSize - total[i + 1] \in Nat
  <2> SUFFICES ASSUME reader = "read" PROVE DataSize - total[i + 1] \in Nat
    OBVIOUS
  <2>1. i + 1 \in BW!Conns
    BY BwNumbers, BwSizes DEF BandInv, ReaderPlace, BW!Conns
  <2>2. total[i + 1] \in 0..DataSize
    BY <2>1, BwOneLine
  <2> QED
    BY <2>2, BwSizes
<1>3. writer \in {"connect", "send", "done", "failed"}
      /\ reader \in {"start", "accept", "read", "report", "done", "failed"}
  BY DEF BandInv, BW!TypeOK
<1>4. WriterWay \in Nat /\ (writer # "done" /\ writer # "failed" => WriterWay > 0)
  BY <1>1, <1>3 DEF WriterWay
<1>5. ReaderWay \in Nat /\ (reader # "done" /\ reader # "failed" => ReaderWay > 0)
  BY <1>1, <1>2, <1>3 DEF ReaderWay
<1> QED
  BY <1>4, <1>5

LEMMA BwStepIsForward ==
    ASSUME Buffer \in Nat \ {0}, BandInv, BandInv', [BW!Next]_(BW!vars)
    PROVE  [BwForward]_(BW!vars)
<1>1. /\ WriterWay \in Nat /\ ReaderWay \in Nat
      /\ writer # "done" /\ writer # "failed" => WriterWay > 0
      /\ reader # "done" /\ reader # "failed" => ReaderWay > 0
  BY BwWays
<1>2. CASE UNCHANGED <<reader, i, total>> /\ WriterWay' < WriterWay
  <2>1. ReaderWay' = ReaderWay
    BY <1>2 DEF ReaderWay
  <2> QED
    BY <1>1, <1>2, <2>1 DEF BwForward
<1>3. CASE UNCHANGED <<writer, conn, sent>> /\ ReaderWay' < ReaderWay
  <2>1. WriterWay' = WriterWay
    BY <1>3 DEF WriterWay
  <2> QED
    BY <1>1, <1>3, <2>1 DEF BwForward
<1>4. /\ sent \in Nat /\ DataSize \in Nat /\ sent <= DataSize /\ i \in Nat /\ conn \in Nat
      /\ NIterations \in Nat
  BY BwNumbers, BwSizes
<1>5. CASE writer # "done" /\ writer # "failed" /\ writer' \in {"done", "failed"}
           /\ UNCHANGED <<reader, i, total>>
  <2>1. WriterWay' = 0
    BY <1>5 DEF WriterWay
  <2> QED
    BY <1>1, <1>2, <1>5, <2>1
<1>6. CASE BW!Connect \/ BW!SocketFails
  <2>1. /\ writer = "connect" /\ UNCHANGED <<reader, i, total>>
        /\ writer' = "failed" \/ (writer' = "send" /\ conn' = conn + 1 /\ sent' = 0)
    BY <1>6 DEF BW!Connect, BW!SocketFails
  <2>2. conn < NIterations
    BY <2>1 DEF BandInv, WriterPlace
  <2>3. CASE writer' = "send" /\ conn' = conn + 1 /\ sent' = 0
    <3>1. /\ WriterWay = (NIterations - conn) * (DataSize + 3) + 1
          /\ WriterWay' = (NIterations - (conn + 1)) * (DataSize + 3) + (DataSize - 0) + 2
      BY <2>1, <2>3 DEF WriterWay
    <3>2. /\ (NIterations - (conn + 1)) * (DataSize + 3) \in Int
          /\ (NIterations - conn) * (DataSize + 3) =
                 (NIterations - (conn + 1)) * (DataSize + 3) + (DataSize + 3)
      BY <1>4, <2>2, BwRounds
    <3>3. \A a, b, d \in Int : a = b + (d + 3) => b + (d - 0) + 2 < a + 1
      OBVIOUS
    <3>4. (NIterations - conn) * (DataSize + 3) \in Int /\ DataSize \in Int
      BY <1>4, BwRounds
    <3>5. WriterWay' < WriterWay
      BY ONLY <3>1, <3>2, <3>3, <3>4
    <3> QED
      BY <1>2, <2>1, <3>5
  <2> QED
    BY <1>5, <2>1, <2>3
<1>7. CASE BW!Send \/ BW!SendFails
  <2>1. /\ writer = "send" /\ writer' = "send" /\ conn' = conn /\ UNCHANGED <<reader, i, total>>
    BY <1>7 DEF BW!Send, BW!SendFails
  <2>2. sent' \in Nat /\ sent' > sent
    <3>1. CASE BW!Send
      <4>1. PICK k \in 1..(DataSize - sent) : sent' = sent + k
        BY <3>1 DEF BW!Send
      <4> QED
        BY <1>4, <4>1
    <3>2. CASE BW!SendFails
      BY <1>4, <3>2 DEF BW!SendFails
    <3> QED
      BY <1>7, <3>1, <3>2
  <2>3. /\ WriterWay = (NIterations - conn) * (DataSize + 3) + (DataSize - sent) + 2
        /\ WriterWay' = (NIterations - conn) * (DataSize + 3) + (DataSize - sent') + 2
    BY <2>1 DEF WriterWay
  <2>4. (NIterations - conn) * (DataSize + 3) \in Nat
    BY BwRounds
  <2>5. \A a, d, s, t \in Nat : t > s => a + (d - t) + 2 < a + (d - s) + 2
    OBVIOUS
  <2>6. WriterWay' < WriterWay
    BY ONLY <1>4, <2>2, <2>3, <2>4, <2>5
  <2> QED
    BY <1>2, <2>1, <2>6
<1>8. CASE BW!Close
  <2>1. /\ writer = "send" /\ sent = DataSize /\ conn' = conn /\ sent' = sent
        /\ UNCHANGED <<reader, i, total>> /\ writer' \in {"connect", "done"}
    BY <1>8 DEF BW!Close
  <2>2. CASE writer' = "connect"
    <3>1. /\ WriterWay = (NIterations - conn) * (DataSize + 3) + (DataSize - DataSize) + 2
          /\ WriterWay' = (NIterations - conn) * (DataSize + 3) + 1
      BY <2>1, <2>2 DEF WriterWay
    <3>2. (NIterations - conn) * (DataSize + 3) \in Nat
      BY BwRounds
    <3>3. \A a, d \in Nat : a + 1 < a + (d - d) + 2
      OBVIOUS
    <3>4. WriterWay' < WriterWay
      BY ONLY <1>4, <3>1, <3>2, <3>3
    <3> QED
      BY <1>2, <2>1, <3>4
  <2> QED
    BY <1>5, <2>1, <2>2
<1>9. CASE reader # "done" /\ reader # "failed" /\ reader' \in {"done", "failed"}
           /\ UNCHANGED <<writer, conn, sent>>
  <2>1. ReaderWay' = 0
    BY <1>9 DEF ReaderWay
  <2> QED
    BY <1>1, <1>3, <1>9, <2>1
<1>10. CASE BW!ReaderFails \/ BW!Report
  BY <1>9, <1>10 DEF BW!ReaderFails, BW!Report
<1>11. CASE BW!Listen
  <2>1. /\ reader = "start" /\ reader' = "accept" /\ i' = i /\ UNCHANGED <<writer, conn, sent>>
    BY <1>11 DEF BW!Listen
  <2>2. /\ ReaderWay = NIterations * (DataSize + 2) + DataSize + 4
        /\ ReaderWay' = (NIterations - i) * (DataSize + 2) + DataSize + 3
    BY <2>1 DEF ReaderWay
  <2>3. (NIterations - i) * (DataSize + 2) <= NIterations * (DataSize + 2)
    <3>1. \A n, k, d \in Nat : n - k \in Nat => (n - k) * d <= n * d
      BY Downwards
    <3>2. NIterations - i \in Nat /\ DataSize + 2 \in Nat
      BY <1>4, BwRounds
    <3> QED
      BY <1>4, <3>1, <3>2
  <2>4. /\ NIterations * (DataSize + 2) \in Nat
        /\ (NIterations - i) * (DataSize + 2) \in Nat
    BY <1>4, Rounds, BwRounds
  <2>5. \A a, b, d \in Nat : a <= b => a + d + 3 < b + d + 4
    OBVIOUS
  <2>6. ReaderWay' < ReaderWay
    BY ONLY <1>4, <2>2, <2>3, <2>4, <2>5
  <2> QED
    BY <1>3, <2>1, <2>6
<1>12. CASE BW!Accept
  <2>1. /\ reader = "accept" /\ reader' = "read" /\ i' = i /\ total' = total
        /\ UNCHANGED <<writer, conn, sent>>
    BY <1>12 DEF BW!Accept
  <2>2. /\ ReaderWay = (NIterations - i) * (DataSize + 2) + DataSize + 3
        /\ ReaderWay' = (NIterations - i) * (DataSize + 2) + (DataSize - total[i + 1]) + 2
    BY <2>1 DEF ReaderWay
  <2>3. i + 1 \in BW!Conns
    BY <1>4, <2>1 DEF BandInv, ReaderPlace, BW!Conns
  <2>4. total[i + 1] \in Nat /\ (NIterations - i) * (DataSize + 2) \in Nat
    BY <2>3, BwOneLine, BwRounds
  <2>5. \A a, d, t \in Nat : a + (d - t) + 2 < a + d + 3
    OBVIOUS
  <2>6. ReaderWay' < ReaderWay
    BY ONLY <1>4, <2>2, <2>4, <2>5
  <2> QED
    BY <1>3, <2>1, <2>6
<1>13. CASE BW!Read
  <2>1. /\ reader = "read" /\ reader' = "read" /\ i' = i /\ UNCHANGED <<writer, conn, sent>>
    BY <1>13 DEF BW!Read
  <2>2. PICK k \in 1..line[i + 1].pieces : total' = [total EXCEPT ![i + 1] = @ + k]
    BY <1>13 DEF BW!Read
  <2>3. i + 1 \in BW!Conns
    BY <1>4, <2>1 DEF BandInv, ReaderPlace, BW!Conns
  <2>4. total[i + 1] \in Nat /\ line[i + 1].pieces \in Nat /\ total \in [BW!Conns -> 0..DataSize]
    BY <2>3, BwOneLine DEF BandInv, BW!TypeOK
  <2>5. total'[i + 1] = total[i + 1] + k /\ k \in Nat /\ k > 0
    BY <2>2, <2>3, <2>4
  <2>6. /\ ReaderWay = (NIterations - i) * (DataSize + 2) + (DataSize - total[i + 1]) + 2
        /\ ReaderWay' = (NIterations - i) * (DataSize + 2) + (DataSize - total'[i + 1]) + 2
    BY <2>1 DEF ReaderWay
  <2>7. \A a, d, t, n \in Nat : n > 0 => a + (d - (t + n)) + 2 < a + (d - t) + 2
    OBVIOUS
  <2>8. (NIterations - i) * (DataSize + 2) \in Nat
    BY BwRounds
  <2>9. ReaderWay' < ReaderWay
    BY ONLY <1>4, <2>4, <2>5, <2>6, <2>7, <2>8
  <2> QED
    BY <1>3, <2>1, <2>9
<1>14. CASE BW!EndOfData \/ BW!ReadFails
  <2>1. /\ reader = "read" /\ i' = i + 1 /\ UNCHANGED <<writer, conn, sent>>
        /\ reader' \in {"report", "accept"}
    BY <1>14 DEF BW!EndOfData, BW!ReadFails, BW!EndLoop
  <2>2. i < NIterations /\ i + 1 \in BW!Conns
    BY <1>4, <2>1 DEF BandInv, ReaderPlace, BW!Conns
  <2>3. DataSize - total[i + 1] \in Nat
    <3>1. total[i + 1] \in 0..DataSize
      BY <2>2, BwOneLine
    <3> QED
      BY <1>4, <3>1
  <2>4. ReaderWay = (NIterations - i) * (DataSize + 2) + (DataSize - total[i + 1]) + 2
    BY <2>1 DEF ReaderWay
  <2>5. \/ ReaderWay' = 1
        \/ ReaderWay' = (NIterations - (i + 1)) * (DataSize + 2) + DataSize + 3
    BY <2>1 DEF ReaderWay
  <2>6. /\ (NIterations - i) * (DataSize + 2) =
               (NIterations - (i + 1)) * (DataSize + 2) + (DataSize + 2)
        /\ (NIterations - (i + 1)) * (DataSize + 2) \in Nat
    <3>1. NIterations - (i + 1) \in Nat /\ DataSize + 2 \in Nat
      BY <1>4, <2>2
    <3> QED
      BY <2>2, <3>1, BwRounds, Rounds
  <2>7. \A a, b, d, r \in Nat : a = b + (d + 2) => 1 < a + r + 2 /\ b + d + 3 < a + r + 2
    OBVIOUS
  <2>8. (NIterations - i) * (DataSize + 2) \in Nat
    BY BwRounds
  <2>9. ReaderWay' < ReaderWay
    BY ONLY <1>4, <2>3, <2>4, <2>5, <2>6, <2>7, <2>8
  <2> QED
    BY <1>3, <2>1, <2>9
<1> QED
  BY <1>6, <1>7, <1>8, <1>10, <1>11, <1>12, <1>13, <1>14
  DEF BW!Next, BW!WriterStep, BW!ReaderStep, BW!Terminated

\* Every step brings the writer or the reader nearer to its end, and sends neither
\* back, however the network splits the data and whichever calls fail.
THEOREM BwNoStepBack ==
    ASSUME Buffer \in Nat \ {0}
    PROVE  BW!Spec => /\ [](WriterWay \in Nat /\ ReaderWay \in Nat)
                      /\ [][BwForward]_(BW!vars)
<1>1. BandInv /\ [BW!Next]_(BW!vars) => BandInv' /\ [BwForward]_(BW!vars)
  BY BwNextInv, BwStepIsForward
<1>2. BandInv => WriterWay \in Nat /\ ReaderWay \in Nat
  BY BwWays
<1> QED
  BY BwInitInv, <1>1, <1>2, PTL DEF BW!Spec

\* Until the writer has ended, the writer or the reader can go on, if no call fails
\* or there is one connection only, as in the code: a writer blocked in send() has
\* a reader that still comes to its connection.  (With more connections a failed
\* read() would end the loop and leave the writer blocked for ever.)
THEOREM BwSomebodyGoesOn ==
    ASSUME Buffer \in Nat \ {0}
    PROVE  BW!Spec => []BwNoDeadlock
<1>1. BandInv => BwNoDeadlock
  <2> SUFFICES ASSUME BandInv, NIterations = 1 \/ failures = 0,
                      writer \notin {"done", "failed"}, ~WriterCanStep, ~ReaderCanStep
               PROVE  FALSE
    BY DEF BwNoDeadlock
  <2>1. /\ conn \in Nat /\ i \in Nat /\ NIterations \in Nat /\ conn <= NIterations
    BY BwNumbers, BwSizes
  <2>2. /\ writer = "send" /\ conn >= 1 /\ ~(line[conn].pieces < Buffer)
        /\ reader \notin {"done", "failed"}
    BY DEF WriterCanStep, BandInv, BW!TypeOK, WriterPlace
  <2>3. conn \in BW!Conns
    BY <2>1, <2>2 DEF BW!Conns
  <2>4. /\ line[conn].pieces \in Nat /\ ~line[conn].closed /\ LeftBehind(conn)
    BY <2>1, <2>2, <2>3, BwOneLine DEF Closed
  <2>5. line[conn].pieces > 0
    BY <2>2, <2>4, BwSizes
  <2>6. reader \in {"accept", "read"} /\ i < NIterations
    BY <2>2 DEF ReaderCanStep, BandInv, BW!TypeOK, ReaderPlace
  <2>7. i < conn
    BY <2>1, <2>2, <2>4, <2>6 DEF LeftBehind
  <2>8. CASE reader = "accept"
    BY <2>1, <2>7, <2>8 DEF ReaderCanStep
  <2>9. CASE reader = "read"
    <3>1. i + 1 \in BW!Conns /\ (i + 1 = conn \/ i + 1 < conn)
      BY <2>1, <2>6, <2>7 DEF BW!Conns
    <3>2. /\ line[i + 1].pieces \in Nat /\ ~(line[i + 1].pieces > 0) /\ ~line[i + 1].closed
          /\ Closed(i + 1)
      BY <2>9, <3>1, BwOneLine DEF ReaderCanStep
    <3>3. CASE i + 1 = conn
      BY <2>5, <3>2, <3>3
    <3>4. CASE i + 1 < conn
      BY <3>2, <3>4 DEF Closed
    <3> QED
      BY <3>1, <3>3, <3>4
  <2> QED
    BY <2>6, <2>8, <2>9
<1> QED
  BY <1>1, BwInvariance, PTL
===============================================================================
