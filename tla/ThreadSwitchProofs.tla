------------------------- MODULE ThreadSwitchProofs -------------------------
(***************************************************************************)
(* Proofs about ThreadSwitch, for every number of trials, iterations and   *)
(* failures: the two threads of a trial work on its pipes and its slot,    *)
(* although both are global variables, and take turns.                     *)
(***************************************************************************)
EXTENDS ThreadSwitch, TLAPS

Live == {"read", "write", "end"}
Before == {"pipe", "pipe2"}
Started == main \in {"create reader", "create writer", "join reader", "join writer", "close"}

\* The threads of earlier trials have finished or were never created, the
\* threads of later trials do not exist.
OneTrial ==
    Running => \A t \in Trials :
        /\ pc[reader(t)] \in Live => t = x
        /\ pc[writer(t)] \in Live => t = x
        /\ t > x => /\ pc[reader(t)] = "unborn" /\ i[reader(t)] = 0
                    /\ pc[writer(t)] = "unborn" /\ i[writer(t)] = 0

\* What main()'s place says of the pipes and of the threads of the trial.
Place ==
    /\ main = "pipe" => open = {}
    /\ main = "pipe2" => open = {"fd"} /\ put["fd"] = 0 /\ got["fd"] = 0
    /\ main = "done" => open = {}
    /\ Started => open = Both
    /\ main \in Before => pc[reader(x)] = "unborn" /\ i[reader(x)] = 0
    /\ main \in Before => pc[writer(x)] = "unborn" /\ i[writer(x)] = 0
    /\ main = "create reader" => pc[reader(x)] = "unborn"
    /\ main \in {"create reader", "create writer"} => pc[writer(x)] = "unborn"
    /\ main \in {"join writer", "close"} => pc[reader(x)] \in {"unborn", "finished"}
    /\ main = "close" => pc[writer(x)] \in {"unborn", "finished"}

\* The reader's bytes follow from its place in the loop.
ReaderCount ==
    Started =>
        /\ pc[reader(x)] # "end"
        /\ pc[reader(x)] = "unborn" => i[reader(x)] = 0
        /\ pc[reader(x)] \in {"read", "write"} => i[reader(x)] < NIterations
        /\ pc[reader(x)] = "finished" => i[reader(x)] = NIterations
        /\ put["fd2"] = i[reader(x)]
        /\ got["fd"] = IF pc[reader(x)] = "write" THEN i[reader(x)] + 1 ELSE i[reader(x)]

\* And the writer's.
WriterCount ==
    Started =>
        /\ pc[writer(x)] = "unborn" => i[writer(x)] = 0
        /\ pc[writer(x)] \in {"read", "write"} => i[writer(x)] < NIterations
        /\ pc[writer(x)] \in {"end", "finished"} => i[writer(x)] = NIterations
        /\ got["fd2"] = i[writer(x)]
        /\ put["fd"] = IF pc[writer(x)] = "read" THEN i[writer(x)] + 1 ELSE i[writer(x)]

\* No byte is read that was not written.
Sent == Started => got["fd"] <= put["fd"] /\ got["fd2"] <= put["fd2"]

\* A writer has stored its duration before it finishes, and main() joins it
\* before it goes on.
Stored ==
    /\ \A t \in Trials : slot[t] \subseteq {t}
    /\ \A t \in Trials : pc[writer(t)] = "finished" => t \in slot[t]
    /\ failures = 0 =>
          /\ main \in {"join reader", "join writer", "close"} => pc[writer(x)] # "unborn"
          /\ Running => \A t \in Trials : t < x => t \in slot[t]
          /\ main = "done" => \A t \in Trials : t \in slot[t]

SwitchInv ==
    TypeOK /\ OneTrial /\ Place /\ ReaderCount /\ WriterCount /\ Sent /\ Stored

-----------------------------------------------------------------------------
LEMMA ThreadNames ==
    ASSUME NEW t \in Trials
    PROVE  /\ reader(t) \in Threads /\ reader(t) \in Readers /\ reader(t) \notin Writers
           /\ writer(t) \in Threads /\ writer(t) \in Writers /\ writer(t) \notin Readers
           /\ reader(t)[2] = t /\ writer(t)[2] = t
           /\ \A u \in Trials : reader(t) # writer(u)
           /\ \A u \in Trials : u # t => reader(u) # reader(t)
           /\ \A u \in Trials : u # t => writer(u) # writer(t)
BY DEF Threads, Readers, Writers, reader, writer

LEMMA ThreadIsOne ==
    ASSUME NEW h \in Threads
    PROVE  \E t \in Trials : h = reader(t) \/ h = writer(t)
BY DEF Threads, Readers, Writers

LEMMA TrialNumber ==
    ASSUME NEW t \in Trials
    PROVE  t \in Nat /\ t >= 1 /\ t <= NTrials
BY NTrialsAssumption DEF Trials

\* The names and types of the current trial.
LEMMA Here ==
    ASSUME SwitchInv
    PROVE  /\ x \in Trials /\ x \in Nat
           /\ reader(x) \in Threads /\ writer(x) \in Threads /\ reader(x) # writer(x)
           /\ reader(x) \in Readers /\ reader(x) \notin Writers
           /\ writer(x) \in Writers /\ writer(x) \notin Readers
           /\ i[reader(x)] \in Nat /\ i[writer(x)] \in Nat
           /\ put["fd"] \in Nat /\ put["fd2"] \in Nat /\ got["fd"] \in Nat /\ got["fd2"] \in Nat
           /\ failures \in Nat /\ NIterations \in Nat /\ NIterations > 0
<1>1. x \in Trials /\ i \in [Threads -> 0..NIterations] /\ put \in [Both -> 0..NIterations]
      /\ got \in [Both -> 0..NIterations] /\ failures \in 0..MaxFailures
  BY DEF SwitchInv, TypeOK
<1>2. NIterations \in Nat /\ NIterations > 0 /\ failures \in Nat
  BY <1>1, NIterationsAssumption, MaxFailuresAssumption
<1>3. x \in Nat
  BY <1>1, TrialNumber
<1>4. /\ reader(x) \in Threads /\ writer(x) \in Threads /\ reader(x) # writer(x)
      /\ reader(x) \in Readers /\ reader(x) \notin Writers
      /\ writer(x) \in Writers /\ writer(x) \notin Readers
  BY <1>1, ThreadNames
<1>5. i[reader(x)] \in Nat /\ i[writer(x)] \in Nat
  BY <1>1, <1>4, NIterationsAssumption
<1>6. put["fd"] \in Nat /\ put["fd2"] \in Nat /\ got["fd"] \in Nat /\ got["fd2"] \in Nat
  BY <1>1, NIterationsAssumption DEF Both
<1> QED
  BY <1>1, <1>2, <1>3, <1>4, <1>5, <1>6

\* Only the threads of the current trial can move.
LEMMA OnlyHere ==
    ASSUME SwitchInv, Running, NEW h \in Threads, pc[h] \in Live
    PROVE  h = reader(x) \/ h = writer(x)
<1>1. PICK t \in Trials : h = reader(t) \/ h = writer(t)
  BY ThreadIsOne
<1> QED
  BY <1>1 DEF SwitchInv, OneTrial

\* And they move only after main() has created them.
LEMMA LiveIsStarted ==
    ASSUME SwitchInv, Running, pc[reader(x)] \in Live \/ pc[writer(x)] \in Live
    PROVE  Started
<1>1. main \notin Before
  BY DEF SwitchInv, Place, Live, Before
<1> QED
  BY <1>1 DEF SwitchInv, TypeOK, MainPCs, Running, Started, Before

LEMMA InitInv == Init => SwitchInv
<1> SUFFICES ASSUME Init PROVE SwitchInv
  OBVIOUS
<1>1. 1 \in Trials /\ 0 \in 0..NIterations /\ 0 \in 0..MaxFailures
  BY NTrialsAssumption, NIterationsAssumption, MaxFailuresAssumption DEF Trials
<1>2. TypeOK
  BY <1>1 DEF Init, TypeOK, MainPCs, PCs
<1>3. ASSUME NEW t \in Trials
      PROVE  /\ pc[reader(t)] = "unborn" /\ i[reader(t)] = 0
             /\ pc[writer(t)] = "unborn" /\ i[writer(t)] = 0 /\ slot[t] = {}
  BY ThreadNames DEF Init
<1>4. main = "pipe" /\ x = 1 /\ open = {} /\ x \in Trials
  BY <1>1 DEF Init
<1>5. OneTrial
  BY <1>3 DEF OneTrial, Live
<1>6. Place
  BY <1>3, <1>4 DEF Place, Started, Before
<1>7. ReaderCount /\ WriterCount /\ Sent
  BY <1>4 DEF ReaderCount, WriterCount, Sent, Started
<1>8. Stored
  <2>1. \A t \in Trials : ~(t < x)
    BY <1>4, TrialNumber
  <2> QED
    BY <1>3, <1>4, <2>1 DEF Stored
<1> QED
  BY <1>2, <1>5, <1>6, <1>7, <1>8 DEF SwitchInv

-----------------------------------------------------------------------------
(* The steps of main(). *)

LEMMA PipeInv ==
    ASSUME SwitchInv, Pipe
    PROVE  SwitchInv'
<1>1. /\ main = "pipe" /\ main' = "pipe2" /\ open' = open \union {"fd"}
      /\ put' = [put EXCEPT !["fd"] = 0] /\ got' = [got EXCEPT !["fd"] = 0]
      /\ pc' = pc /\ x' = x /\ i' = i /\ slot' = slot /\ failures' = failures
  BY DEF Pipe, OpenPipe
<1>2. put'["fd"] = 0 /\ got'["fd"] = 0
  BY <1>1 DEF SwitchInv, TypeOK, Both
<1>3. TypeOK'
  <2>1. 0 \in 0..NIterations
    BY NIterationsAssumption
  <2>2. put' \in [Both -> 0..NIterations] /\ got' \in [Both -> 0..NIterations]
    BY <1>1, <2>1 DEF SwitchInv, TypeOK
  <2> QED
    BY <1>1, <2>2 DEF SwitchInv, TypeOK, MainPCs, Both
<1>4. OneTrial'
  BY <1>1 DEF SwitchInv, OneTrial, Running
<1>5. Place'
  BY <1>1, <1>2 DEF SwitchInv, Place, Started, Before
<1>6. ReaderCount' /\ WriterCount' /\ Sent'
  BY <1>1 DEF ReaderCount, WriterCount, Sent, Started
<1>7. Stored'
  BY <1>1 DEF SwitchInv, Stored, Running
<1> QED
  BY <1>3, <1>4, <1>5, <1>6, <1>7 DEF SwitchInv

LEMMA Pipe2Inv ==
    ASSUME SwitchInv, Pipe2
    PROVE  SwitchInv' /\ put'["fd"] = 0 /\ put'["fd2"] = 0
<1>1. /\ main = "pipe2" /\ main' = "create reader" /\ open' = open \union {"fd2"}
      /\ put' = [put EXCEPT !["fd2"] = 0] /\ got' = [got EXCEPT !["fd2"] = 0]
      /\ pc' = pc /\ x' = x /\ i' = i /\ slot' = slot /\ failures' = failures
  BY DEF Pipe2, OpenPipe
<1>2. /\ put'["fd"] = 0 /\ got'["fd"] = 0 /\ put'["fd2"] = 0 /\ got'["fd2"] = 0
  BY <1>1 DEF SwitchInv, TypeOK, Both, Place
<1>3. TypeOK'
  <2>1. 0 \in 0..NIterations
    BY NIterationsAssumption
  <2>2. put' \in [Both -> 0..NIterations] /\ got' \in [Both -> 0..NIterations]
    BY <1>1, <2>1 DEF SwitchInv, TypeOK
  <2> QED
    BY <1>1, <2>2 DEF SwitchInv, TypeOK, MainPCs, Both
<1>4. OneTrial'
  BY <1>1 DEF SwitchInv, OneTrial, Running
<1>5. pc[reader(x)] = "unborn" /\ i[reader(x)] = 0 /\ pc[writer(x)] = "unborn" /\ i[writer(x)] = 0
  BY <1>1 DEF SwitchInv, Place, Before
<1>6. Place'
  BY <1>1, <1>5 DEF SwitchInv, Place, Started, Before, Both
<1>7. ReaderCount' /\ WriterCount'
  BY <1>1, <1>2, <1>5 DEF ReaderCount, WriterCount
<1>9. Sent'
  BY <1>2 DEF Sent
<1>8. Stored'
  BY <1>1 DEF SwitchInv, Stored, Running
<1> QED
  BY <1>2, <1>3, <1>4, <1>6, <1>7, <1>8, <1>9 DEF SwitchInv

\* A step of main() from one place between the pipes and their end to the next,
\* which changes at most pc of one thread that is not there yet.
LEMMA CreateReaderInv ==
    ASSUME SwitchInv, CreateReader
    PROVE  SwitchInv'
<1>1. /\ main = "create reader" /\ main' = "create writer"
      /\ x' = x /\ i' = i /\ open' = open /\ put' = put /\ got' = got /\ slot' = slot
      /\ \/ pc' = [pc EXCEPT ![reader(x)] = "read"] /\ failures' = failures
         \/ pc' = pc /\ failures < MaxFailures /\ failures' = failures + 1
  BY DEF CreateReader, Create, Goto
<1>2. /\ \A h \in Threads : h # reader(x) => pc'[h] = pc[h]
      /\ pc'[reader(x)] \in {"unborn", "read"} /\ pc[reader(x)] = "unborn"
  BY <1>1, Here DEF SwitchInv, TypeOK, Place
<1>3. \A t \in Trials : pc'[writer(t)] = pc[writer(t)]
  BY <1>2, ThreadNames, Here
<1>4. \A t \in Trials : t # x => pc'[reader(t)] = pc[reader(t)]
  BY <1>2, ThreadNames, Here
<1>5. failures' \in 0..MaxFailures /\ (failures' = 0 => failures = 0)
  <2>1. failures \in 0..MaxFailures /\ MaxFailures \in Nat
    BY MaxFailuresAssumption DEF SwitchInv, TypeOK
  <2>2. failures' = failures \/ (failures < MaxFailures /\ failures' = failures + 1)
    BY <1>1
  <2> QED
    BY <2>1, <2>2
<1>6. TypeOK'
  <2>1. pc' \in [Threads -> PCs]
    BY <1>1 DEF SwitchInv, TypeOK, PCs
  <2> QED
    BY <1>1, <1>5, <2>1 DEF SwitchInv, TypeOK, MainPCs
<1>7. OneTrial'
  <2>1. \A t \in Trials : t > x => t # x
    BY Here
  <2> QED
    BY <1>1, <1>3, <1>4, <2>1 DEF SwitchInv, OneTrial, Running
<1>8. Place'
  BY <1>1, <1>3, Here DEF SwitchInv, Place, Started, Before
<1>9. ReaderCount'
  BY <1>1, <1>2, Here DEF SwitchInv, ReaderCount, Started
<1>10. WriterCount' /\ Sent'
  BY <1>1, <1>3, Here DEF SwitchInv, WriterCount, Sent, Started
<1>11. Stored'
  BY <1>1, <1>3, <1>5 DEF SwitchInv, Stored, Running
<1> QED
  BY <1>6, <1>7, <1>8, <1>9, <1>10, <1>11 DEF SwitchInv

LEMMA CreateWriterInv ==
    ASSUME SwitchInv, CreateWriter
    PROVE  SwitchInv'
<1>1. /\ main = "create writer" /\ main' = "join reader"
      /\ x' = x /\ i' = i /\ open' = open /\ put' = put /\ got' = got /\ slot' = slot
      /\ \/ pc' = [pc EXCEPT ![writer(x)] = "write"] /\ failures' = failures
         \/ pc' = pc /\ failures < MaxFailures /\ failures' = failures + 1
  BY DEF CreateWriter, Create, Goto
<1>2. /\ \A h \in Threads : h # writer(x) => pc'[h] = pc[h]
      /\ pc'[writer(x)] \in {"unborn", "write"} /\ pc[writer(x)] = "unborn"
  BY <1>1, Here DEF SwitchInv, TypeOK, Place
<1>11. failures' \in 0..MaxFailures /\ (failures' = 0 => failures = 0 /\ pc'[writer(x)] = "write")
  <2>1. failures \in 0..MaxFailures /\ MaxFailures \in Nat
    BY MaxFailuresAssumption DEF SwitchInv, TypeOK
  <2>2. \/ failures' = failures /\ pc'[writer(x)] = "write"
        \/ failures < MaxFailures /\ failures' = failures + 1
    BY <1>1, Here DEF SwitchInv, TypeOK
  <2> QED
    BY <2>1, <2>2
<1>3. \A t \in Trials : pc'[reader(t)] = pc[reader(t)]
  BY <1>2, ThreadNames, Here
<1>4. \A t \in Trials : t # x => pc'[writer(t)] = pc[writer(t)]
  BY <1>2, ThreadNames, Here
<1>5. TypeOK'
  <2>1. pc' \in [Threads -> PCs]
    BY <1>1 DEF SwitchInv, TypeOK, PCs
  <2> QED
    BY <1>1, <1>11, <2>1 DEF SwitchInv, TypeOK, MainPCs
<1>6. OneTrial'
  <2>1. \A t \in Trials : t > x => t # x
    BY Here
  <2> QED
    BY <1>1, <1>3, <1>4, <2>1 DEF SwitchInv, OneTrial, Running
<1>7. Place'
  BY <1>1, <1>3, Here DEF SwitchInv, Place, Started, Before
<1>8. ReaderCount' /\ Sent'
  BY <1>1, <1>3, Here DEF SwitchInv, ReaderCount, Sent, Started
<1>9. WriterCount'
  BY <1>1, <1>2, Here DEF SwitchInv, WriterCount, Started
<1>10. Stored'
  BY <1>1, <1>11, <1>4, <1>2, Here DEF SwitchInv, Stored, Running
<1> QED
  BY <1>5, <1>6, <1>7, <1>8, <1>9, <1>10 DEF SwitchInv

LEMMA JoinReaderInv ==
    ASSUME SwitchInv, JoinReader
    PROVE  SwitchInv'
<1>1. /\ main = "join reader" /\ main' = "join writer"
      /\ pc[reader(x)] \in {"unborn", "finished"}
      /\ pc' = pc /\ x' = x /\ i' = i /\ open' = open /\ put' = put /\ got' = got
      /\ slot' = slot /\ failures' = failures
  BY DEF JoinReader, Join
<1>2. TypeOK'
  BY <1>1 DEF SwitchInv, TypeOK, MainPCs
<1>3. OneTrial' /\ Place' /\ Stored'
  BY <1>1 DEF SwitchInv, OneTrial, Place, Stored, Running, Started, Before
<1>4. ReaderCount' /\ WriterCount' /\ Sent'
  BY <1>1 DEF SwitchInv, ReaderCount, WriterCount, Sent, Started
<1> QED
  BY <1>2, <1>3, <1>4 DEF SwitchInv

LEMMA JoinWriterInv ==
    ASSUME SwitchInv, JoinWriter
    PROVE  SwitchInv'
<1>1. /\ main = "join writer" /\ main' = "close"
      /\ pc[writer(x)] \in {"unborn", "finished"}
      /\ pc' = pc /\ x' = x /\ i' = i /\ open' = open /\ put' = put /\ got' = got
      /\ slot' = slot /\ failures' = failures
  BY DEF JoinWriter, Join
<1>2. TypeOK'
  BY <1>1 DEF SwitchInv, TypeOK, MainPCs
<1>3. OneTrial' /\ Place' /\ Stored'
  BY <1>1 DEF SwitchInv, OneTrial, Place, Stored, Running, Started, Before
<1>4. ReaderCount' /\ WriterCount' /\ Sent'
  BY <1>1 DEF SwitchInv, ReaderCount, WriterCount, Sent, Started
<1> QED
  BY <1>2, <1>3, <1>4 DEF SwitchInv

\* exit() and the crash leave everything else as it is.
LEMMA LeaveInv ==
    ASSUME SwitchInv, main' = "exited", UNCHANGED <<pc, x, i, open, put, got, slot>>,
           failures' \in 0..MaxFailures, failures' = 0 => failures = 0
    PROVE  SwitchInv'
<1>1. TypeOK'
  BY DEF SwitchInv, TypeOK, MainPCs
<1>2. OneTrial' /\ Place' /\ ReaderCount' /\ WriterCount' /\ Sent'
  BY DEF OneTrial, Place, ReaderCount, WriterCount, Sent, Running, Started, Before
<1>3. Stored'
  BY DEF SwitchInv, Stored, Running
<1> QED
  BY <1>1, <1>2, <1>3 DEF SwitchInv

\* As long as no call failed, main() closes the pipes after the last answer, and
\* the slot of the trial is filled.
LEMMA CloseInv ==
    ASSUME SwitchInv, Close
    PROVE  /\ SwitchInv'
           /\ failures = 0 => put["fd2"] = NIterations
<1>1. /\ main = "close" /\ open' = {} /\ pc' = pc /\ i' = i /\ put' = put /\ got' = got
      /\ slot' = slot /\ failures' = failures
      /\ \/ x < NTrials /\ x' = x + 1 /\ main' = "pipe"
         \/ x >= NTrials /\ x' = x /\ main' = "done"
  <2>1. x \in Nat /\ NTrials \in Nat
    BY Here, NTrialsAssumption
  <2> QED
    BY <2>1 DEF Close
<1>2. /\ pc[reader(x)] \in {"unborn", "finished"} /\ pc[writer(x)] \in {"unborn", "finished"}
  BY <1>1 DEF SwitchInv, Place
<1>3. failures = 0 => pc[writer(x)] = "finished" /\ x \in slot[x]
  BY <1>1, <1>2, Here DEF SwitchInv, Stored
<1>4. failures = 0 => put["fd2"] = NIterations
  <2>1. Started
    BY <1>1 DEF Started
  <2>2. failures = 0 => got["fd2"] = NIterations /\ got["fd2"] <= put["fd2"]
    BY <1>3, <2>1 DEF SwitchInv, WriterCount, Sent
  <2>3. put["fd2"] <= NIterations
    BY Here, NIterationsAssumption DEF SwitchInv, TypeOK, Both
  <2> QED
    BY <2>2, <2>3, Here
<1>5. CASE x < NTrials /\ x' = x + 1 /\ main' = "pipe"
  <2>1. x' \in Trials /\ x' \in Nat
    BY <1>5, Here, NTrialsAssumption DEF Trials
  <2>2. TypeOK'
    BY <1>1, <1>5, <2>1 DEF SwitchInv, TypeOK, MainPCs
  <2>3. \A t \in Trials : pc[reader(t)] \notin Live /\ pc[writer(t)] \notin Live
    BY <1>1, <1>2 DEF SwitchInv, OneTrial, Running, Live
  <2>4. \A t \in Trials : t >= x' => t > x
    BY <1>5, Here, TrialNumber
  <2>5. \A t \in Trials : t > x => /\ pc[reader(t)] = "unborn" /\ i[reader(t)] = 0
                                   /\ pc[writer(t)] = "unborn" /\ i[writer(t)] = 0
    BY <1>1 DEF SwitchInv, OneTrial, Running
  <2>6. OneTrial'
    <3>1. \A t \in Trials : t > x' => t > x
      BY <1>5, Here, TrialNumber
    <3> QED
      BY <1>1, <2>3, <2>5, <3>1 DEF OneTrial
  <2>7. Place'
    <3>1. x' > x
      BY <1>5, Here
    <3> QED
      BY <1>1, <1>5, <2>1, <2>5, <3>1 DEF Place, Started, Before
  <2>8. ReaderCount' /\ WriterCount' /\ Sent'
    BY <1>5 DEF ReaderCount, WriterCount, Sent, Started
  <2>9. Stored'
    <3>1. \A t \in Trials : t < x' => t = x \/ t < x
      BY <1>5, Here, TrialNumber
    <3>2. failures = 0 => \A t \in Trials : t < x' => t \in slot[t]
      BY <1>1, <1>3, <3>1 DEF SwitchInv, Stored, Running
    <3> QED
      BY <1>1, <1>5, <3>2 DEF SwitchInv, Stored
  <2> QED
    BY <1>4, <2>2, <2>6, <2>7, <2>8, <2>9 DEF SwitchInv
<1>6. CASE x >= NTrials /\ x' = x /\ main' = "done"
  <2>1. TypeOK'
    BY <1>1, <1>6 DEF SwitchInv, TypeOK, MainPCs
  <2>2. OneTrial' /\ Place' /\ ReaderCount' /\ WriterCount' /\ Sent'
    BY <1>1, <1>6 DEF OneTrial, Place, ReaderCount, WriterCount, Sent, Running, Started, Before
  <2>3. Stored'
    <3>1. \A t \in Trials : t = x \/ t < x
      BY <1>6, Here, TrialNumber, NTrialsAssumption
    <3>2. failures = 0 => \A t \in Trials : t \in slot[t]
      BY <1>1, <1>3, <3>1 DEF SwitchInv, Stored, Running
    <3> QED
      BY <1>1, <1>6, <3>2 DEF SwitchInv, Stored, Running
  <2> QED
    BY <1>4, <2>1, <2>2, <2>3 DEF SwitchInv
<1> QED
  BY <1>1, <1>5, <1>6

-----------------------------------------------------------------------------
(* The steps of the threads. *)

\* What a thread's step leaves as it is.
LEMMA ThreadMove ==
    ASSUME SwitchInv, Running, NEW h \in Threads, pc[h] \in Live, NEW label \in PCs,
           Goto(h, label), label # "unborn", label = "finished" /\ h = writer(x) => x \in slot'[x],
           UNCHANGED <<main, x, open, failures>>,
           put' \in [Both -> 0..NIterations], got' \in [Both -> 0..NIterations],
           i' \in [Threads -> 0..NIterations], slot' \in [Trials -> SUBSET Trials],
           \A g \in Threads : g # h => i'[g] = i[g],
           \A t \in Trials : slot[t] \subseteq slot'[t] /\ slot'[t] \subseteq {t}
    PROVE  /\ TypeOK' /\ OneTrial' /\ Place' /\ Stored' /\ Started
           /\ h = reader(x) => pc'[reader(x)] = label /\ pc'[writer(x)] = pc[writer(x)]
           /\ h = writer(x) => pc'[writer(x)] = label /\ pc'[reader(x)] = pc[reader(x)]
<1>1. h = reader(x) \/ h = writer(x)
  BY OnlyHere
<1>2. \A g \in Threads : pc'[g] = IF g = h THEN label ELSE pc[g]
  BY DEF Goto, SwitchInv, TypeOK
<1>3. main \notin Before /\ Started
  <2>1. Started
    BY <1>1, LiveIsStarted
  <2> QED
    BY <2>1 DEF Started, Before
<1>4. TypeOK'
  BY DEF SwitchInv, TypeOK, Goto
<1>5. \A t \in Trials : t # x =>
          /\ pc'[reader(t)] = pc[reader(t)] /\ pc'[writer(t)] = pc[writer(t)]
          /\ i'[reader(t)] = i[reader(t)] /\ i'[writer(t)] = i[writer(t)]
  BY <1>1, <1>2, ThreadNames, Here
<1>6. OneTrial'
  <2>1. \A t \in Trials : t > x => t # x
    BY Here
  <2> QED
    BY <1>5, <2>1 DEF SwitchInv, OneTrial, Running
<1>7. /\ h = reader(x) => pc'[reader(x)] = label /\ pc'[writer(x)] = pc[writer(x)]
      /\ h = writer(x) => pc'[writer(x)] = label /\ pc'[reader(x)] = pc[reader(x)]
  BY <1>2, Here
<1>8. Place'
  BY <1>1, <1>3, <1>7 DEF SwitchInv, Place, Live, Before, Started
<1>9. Stored'
  <2>1. ASSUME NEW t \in Trials, pc'[writer(t)] = "finished"
        PROVE  t \in slot'[t]
    <3>1. CASE t = x /\ h = writer(x)
      BY <1>7, <2>1, <3>1
    <3>2. CASE ~(t = x /\ h = writer(x))
      <4>1. pc[writer(t)] = "finished"
        BY <1>1, <1>5, <1>7, <2>1, <3>2
      <4> QED
        BY <4>1 DEF SwitchInv, Stored
    <3> QED
      BY <3>1, <3>2
  <2>2. pc[writer(x)] # "unborn" => pc'[writer(x)] # "unborn"
    BY <1>1, <1>7
  <2>3. failures' = 0 =>
            /\ main' \in {"join reader", "join writer", "close"} => pc'[writer(x)] # "unborn"
            /\ Running => \A t \in Trials : t < x => t \in slot'[t]
            /\ main' # "done"
    BY <2>2 DEF SwitchInv, Stored, Running
  <2> QED
    BY <2>1, <2>3 DEF Stored, Running
<1> QED
  BY <1>3, <1>4, <1>6, <1>7, <1>8, <1>9

LEMMA ReaderReadInv ==
    ASSUME SwitchInv, Read(reader(x))
    PROVE  SwitchInv' /\ put' = put
<1>1. /\ InPipe(reader(x)) = "fd" /\ AfterRead(reader(x)) = "write"
      /\ reader(x) \in Threads /\ reader(x) # writer(x)
  BY Here DEF InPipe, AfterRead
<1>2. /\ Running /\ pc[reader(x)] = "read" /\ put["fd"] > got["fd"]
      /\ got' = [got EXCEPT !["fd"] = @ + 1] /\ i' = i /\ Goto(reader(x), "write")
      /\ main' = main /\ x' = x /\ open' = open /\ put' = put /\ slot' = slot
      /\ failures' = failures
  BY <1>1, Here DEF Read
<1>3. got'["fd"] = got["fd"] + 1 /\ got'["fd2"] = got["fd2"]
  BY <1>2 DEF SwitchInv, TypeOK, Both
<1>4. got' \in [Both -> 0..NIterations]
  <2>1. got["fd"] + 1 \in 0..NIterations
    BY <1>2, Here, NIterationsAssumption DEF SwitchInv, TypeOK, Both
  <2> QED
    BY <1>2, <2>1 DEF SwitchInv, TypeOK
<1>5. /\ TypeOK' /\ OneTrial' /\ Place' /\ Stored' /\ Started
      /\ pc'[reader(x)] = "write" /\ pc'[writer(x)] = pc[writer(x)]
  BY <1>1, <1>2, <1>4, ThreadMove DEF Live, PCs, SwitchInv, TypeOK, Stored
<1>6. ReaderCount' /\ WriterCount'
  BY <1>2, <1>3, <1>5, Here DEF SwitchInv, ReaderCount, WriterCount
<1>7. Sent'
  BY <1>2, <1>3, <1>5, Here DEF SwitchInv, Sent
<1> QED
  BY <1>2, <1>5, <1>6, <1>7 DEF SwitchInv

LEMMA WriterReadInv ==
    ASSUME SwitchInv, Read(writer(x))
    PROVE  SwitchInv' /\ put' = put
<1>1. /\ InPipe(writer(x)) = "fd2"
      /\ AfterRead(writer(x)) = IF i[writer(x)] + 1 = NIterations THEN "end" ELSE "write"
      /\ writer(x) \in Threads /\ reader(x) # writer(x) /\ AfterRead(writer(x)) \in {"end", "write"}
  BY Here DEF InPipe, AfterRead
<1>2. /\ Running /\ pc[writer(x)] = "read" /\ put["fd2"] > got["fd2"]
      /\ got' = [got EXCEPT !["fd2"] = @ + 1] /\ i' = [i EXCEPT ![writer(x)] = @ + 1]
      /\ Goto(writer(x), AfterRead(writer(x)))
      /\ main' = main /\ x' = x /\ open' = open /\ put' = put /\ slot' = slot
      /\ failures' = failures
  BY <1>1, Here DEF Read
<1>3. /\ got'["fd2"] = got["fd2"] + 1 /\ got'["fd"] = got["fd"]
      /\ i'[writer(x)] = i[writer(x)] + 1 /\ i'[reader(x)] = i[reader(x)]
  BY <1>1, <1>2, Here DEF SwitchInv, TypeOK, Both
<1>4. Started /\ i[writer(x)] < NIterations
  BY <1>2, LiveIsStarted DEF SwitchInv, WriterCount, Live
<1>5. got' \in [Both -> 0..NIterations] /\ i' \in [Threads -> 0..NIterations]
  <2>1. got["fd2"] + 1 \in 0..NIterations
    BY <1>2, Here, NIterationsAssumption DEF SwitchInv, TypeOK, Both
  <2>2. i[writer(x)] + 1 \in 0..NIterations
    BY <1>4, Here
  <2> QED
    BY <1>2, <2>1, <2>2 DEF SwitchInv, TypeOK
<1>6. /\ TypeOK' /\ OneTrial' /\ Place' /\ Stored'
      /\ pc'[writer(x)] = AfterRead(writer(x)) /\ pc'[reader(x)] = pc[reader(x)]
  <2>1. pc[writer(x)] \in Live /\ AfterRead(writer(x)) \in PCs \ {"unborn", "finished"}
    BY <1>1, <1>2 DEF Live, PCs
  <2>2. \A g \in Threads : g # writer(x) => i'[g] = i[g]
    BY <1>1, <1>2 DEF SwitchInv, TypeOK
  <2>3. /\ slot' \in [Trials -> SUBSET Trials] /\ put' \in [Both -> 0..NIterations]
        /\ \A t \in Trials : slot[t] \subseteq slot'[t] /\ slot'[t] \subseteq {t}
    BY <1>2 DEF SwitchInv, TypeOK, Stored
  <2> QED
    BY <1>1, <1>2, <1>5, <2>1, <2>2, <2>3, ThreadMove
<1>7. ReaderCount'
  BY <1>2, <1>3, <1>4, <1>6 DEF SwitchInv, ReaderCount
<1>8. WriterCount'
  BY <1>1, <1>2, <1>3, <1>4, <1>6, Here DEF SwitchInv, WriterCount
<1>9. Sent'
  BY <1>2, <1>3, <1>4, Here DEF SwitchInv, Sent
<1> QED
  BY <1>2, <1>6, <1>7, <1>8, <1>9 DEF SwitchInv

\* The answer.
LEMMA ReaderWriteInv ==
    ASSUME SwitchInv, Write(reader(x))
    PROVE  /\ SwitchInv' /\ put["fd2"] < put["fd"]
           /\ put'["fd"] = put["fd"] /\ put'["fd2"] = put["fd2"] + 1
<1>1. /\ OutPipe(reader(x)) = "fd2"
      /\ AfterWrite(reader(x)) = IF i[reader(x)] + 1 = NIterations THEN "finished" ELSE "read"
      /\ reader(x) \in Threads /\ reader(x) # writer(x)
      /\ AfterWrite(reader(x)) \in {"finished", "read"}
  BY Here DEF OutPipe, AfterWrite
<1>2. /\ Running /\ pc[reader(x)] = "write"
      /\ put' = [put EXCEPT !["fd2"] = @ + 1] /\ i' = [i EXCEPT ![reader(x)] = @ + 1]
      /\ Goto(reader(x), AfterWrite(reader(x)))
      /\ main' = main /\ x' = x /\ open' = open /\ got' = got /\ slot' = slot
      /\ failures' = failures
  BY <1>1, Here DEF Write
<1>3. /\ put'["fd2"] = put["fd2"] + 1 /\ put'["fd"] = put["fd"]
      /\ i'[reader(x)] = i[reader(x)] + 1 /\ i'[writer(x)] = i[writer(x)]
  BY <1>1, <1>2, Here DEF SwitchInv, TypeOK, Both
<1>4. /\ Started /\ i[reader(x)] < NIterations
      /\ put["fd2"] = i[reader(x)] /\ got["fd"] = i[reader(x)] + 1 /\ got["fd"] <= put["fd"]
      /\ got["fd2"] <= put["fd2"]
  BY <1>2, LiveIsStarted DEF SwitchInv, ReaderCount, Sent, Live
<1>5. put' \in [Both -> 0..NIterations] /\ i' \in [Threads -> 0..NIterations]
  <2>1. put["fd2"] + 1 \in 0..NIterations /\ i[reader(x)] + 1 \in 0..NIterations
    BY <1>4, Here
  <2> QED
    BY <1>2, <2>1 DEF SwitchInv, TypeOK
<1>6. /\ TypeOK' /\ OneTrial' /\ Place' /\ Stored'
      /\ pc'[reader(x)] = AfterWrite(reader(x)) /\ pc'[writer(x)] = pc[writer(x)]
  <2>1. pc[reader(x)] \in Live /\ AfterWrite(reader(x)) \in PCs \ {"unborn"}
    BY <1>1, <1>2 DEF Live, PCs
  <2>2. \A g \in Threads : g # reader(x) => i'[g] = i[g]
    BY <1>1, <1>2 DEF SwitchInv, TypeOK
  <2>3. /\ slot' \in [Trials -> SUBSET Trials] /\ got' \in [Both -> 0..NIterations]
        /\ \A t \in Trials : slot[t] \subseteq slot'[t] /\ slot'[t] \subseteq {t}
    BY <1>2 DEF SwitchInv, TypeOK, Stored
  <2> QED
    BY <1>1, <1>2, <1>5, <2>1, <2>2, <2>3, ThreadMove
<1>7. WriterCount'
  BY <1>2, <1>3, <1>4, <1>6 DEF SwitchInv, WriterCount
<1>8. ReaderCount'
  BY <1>1, <1>2, <1>3, <1>4, <1>6, Here DEF ReaderCount
<1>9. Sent'
  BY <1>2, <1>3, <1>4, Here DEF Sent
<1>10. put["fd2"] < put["fd"]
  BY <1>4, Here
<1> QED
  BY <1>3, <1>6, <1>7, <1>8, <1>9, <1>10 DEF SwitchInv

\* A byte from the writer, which has read all answers before.
LEMMA WriterWriteInv ==
    ASSUME SwitchInv, Write(writer(x))
    PROVE  /\ SwitchInv' /\ put["fd"] = put["fd2"] /\ put["fd"] < NIterations
           /\ put'["fd"] = put["fd"] + 1 /\ put'["fd2"] = put["fd2"]
<1>1. /\ OutPipe(writer(x)) = "fd" /\ AfterWrite(writer(x)) = "read"
      /\ writer(x) \in Threads /\ reader(x) # writer(x)
  BY Here DEF OutPipe, AfterWrite
<1>2. /\ Running /\ pc[writer(x)] = "write"
      /\ put' = [put EXCEPT !["fd"] = @ + 1] /\ i' = i /\ Goto(writer(x), "read")
      /\ main' = main /\ x' = x /\ open' = open /\ got' = got /\ slot' = slot
      /\ failures' = failures
  BY <1>1, Here DEF Write
<1>3. put'["fd"] = put["fd"] + 1 /\ put'["fd2"] = put["fd2"]
  BY <1>2 DEF SwitchInv, TypeOK, Both
<1>4. /\ Started /\ i[writer(x)] < NIterations
      /\ put["fd"] = i[writer(x)] /\ got["fd2"] = i[writer(x)] /\ got["fd2"] <= put["fd2"]
      /\ got["fd"] <= put["fd"]
  BY <1>2, LiveIsStarted DEF SwitchInv, WriterCount, Sent, Live
<1>5. put["fd2"] <= got["fd"]
  BY <1>4, Here DEF SwitchInv, ReaderCount
<1>6. put["fd"] = put["fd2"]
  BY <1>4, <1>5, Here
<1>7. put' \in [Both -> 0..NIterations]
  <2>1. put["fd"] + 1 \in 0..NIterations
    BY <1>4, Here
  <2> QED
    BY <1>2, <2>1 DEF SwitchInv, TypeOK
<1>8. /\ TypeOK' /\ OneTrial' /\ Place' /\ Stored'
      /\ pc'[writer(x)] = "read" /\ pc'[reader(x)] = pc[reader(x)]
  BY <1>1, <1>2, <1>7, ThreadMove DEF Live, PCs, SwitchInv, TypeOK, Stored
<1>9. ReaderCount'
  BY <1>2, <1>3, <1>4, <1>8 DEF SwitchInv, ReaderCount
<1>10. WriterCount'
  BY <1>2, <1>3, <1>4, <1>8, Here DEF WriterCount
<1>11. Sent'
  BY <1>2, <1>3, <1>4, Here DEF Sent
<1> QED
  BY <1>3, <1>4, <1>6, <1>8, <1>9, <1>10, <1>11 DEF SwitchInv

\* The duration goes into the slot of the writer's own trial.  The reader has
\* no duration.
LEMMA StoreInv ==
    ASSUME SwitchInv, NEW h \in Threads, StoreDuration(h)
    PROVE  SwitchInv' /\ UNCHANGED <<main, x, put>>
<1>1. /\ Running /\ pc[h] = "end" /\ slot' = [slot EXCEPT ![x] = @ \union {h[2]}]
      /\ Goto(h, "finished")
      /\ main' = main /\ x' = x /\ i' = i /\ open' = open /\ put' = put /\ got' = got
      /\ failures' = failures
  BY DEF StoreDuration
<1>2. h = writer(x)
  <2>1. h = reader(x) \/ h = writer(x)
    BY <1>1, OnlyHere DEF Live
  <2>2. h = reader(x) => Started
    BY <1>1, LiveIsStarted DEF Live
  <2> QED
    BY <1>1, <2>1, <2>2 DEF SwitchInv, ReaderCount
<1>3. h[2] = x /\ x \in Trials /\ h # reader(x)
  BY <1>2, Here, ThreadNames
<1>4. /\ slot'[x] = slot[x] \union {x}
      /\ \A t \in Trials : t # x => slot'[t] = slot[t]
      /\ slot' \in [Trials -> SUBSET Trials]
  BY <1>1, <1>3 DEF SwitchInv, TypeOK
<1>5. \A t \in Trials : slot[t] \subseteq slot'[t] /\ slot'[t] \subseteq {t}
  BY <1>4 DEF SwitchInv, Stored
<1>6. /\ TypeOK' /\ OneTrial' /\ Place' /\ Stored' /\ Started
      /\ pc'[writer(x)] = "finished" /\ pc'[reader(x)] = pc[reader(x)]
  <2>1. pc[h] \in Live /\ "finished" \in PCs /\ x \in slot'[x]
    BY <1>1, <1>4 DEF Live, PCs
  <2>2. put' \in [Both -> 0..NIterations] /\ got' \in [Both -> 0..NIterations]
        /\ i' \in [Threads -> 0..NIterations] /\ \A g \in Threads : g # h => i'[g] = i[g]
    BY <1>1 DEF SwitchInv, TypeOK
  <2> QED
    BY <1>1, <1>2, <1>4, <1>5, <2>1, <2>2, ThreadMove
<1>7. ReaderCount' /\ Sent'
  BY <1>1, <1>6 DEF SwitchInv, ReaderCount, Sent
<1>8. WriterCount'
  BY <1>1, <1>2, <1>6 DEF SwitchInv, WriterCount
<1> QED
  BY <1>1, <1>6, <1>7, <1>8 DEF SwitchInv

-----------------------------------------------------------------------------
\* A step of PingPong with the values that ThreadSwitch gives to its variables.
Turn == [Exchange!Next]_(Exchange!vars)

\* A step that changes none of these values, and of main()'s places none that
\* decides what they are.
LEMMA SameTurn ==
    ASSUME UNCHANGED <<x, put>>, main \in Before <=> main' \in Before
    PROVE  Turn
BY DEF Turn, Exchange!vars, Before

LEMMA MainTurn ==
    ASSUME SwitchInv, MainStep
    PROVE  SwitchInv' /\ (failures' = 0 => Turn)
<1>1. CASE Pipe
  <2>1. x' = x /\ main \in Before /\ main' \in Before
    BY <1>1 DEF Pipe, OpenPipe, Before
  <2>2. Turn
    BY <2>1 DEF Turn, Exchange!vars, Before
  <2> QED
    BY <1>1, <2>2, PipeInv
<1>2. CASE Pipe2
  <2>1. x' = x /\ main \in Before /\ main' \notin Before
    BY <1>2 DEF Pipe2, OpenPipe, Before
  <2>2. SwitchInv' /\ put'["fd"] = 0 /\ put'["fd2"] = 0
    BY <1>2, Pipe2Inv
  <2>3. Turn
    BY <2>1, <2>2 DEF Turn, Exchange!vars, Before
  <2> QED
    BY <2>2, <2>3
<1>3. CASE CreateReader
  <2>1. UNCHANGED <<x, put>> /\ main \notin Before /\ main' \notin Before
    BY <1>3 DEF CreateReader, Create, Before
  <2> QED
    BY <1>3, <2>1, CreateReaderInv, SameTurn
<1>4. CASE CreateWriter
  <2>1. UNCHANGED <<x, put>> /\ main \notin Before /\ main' \notin Before
    BY <1>4 DEF CreateWriter, Create, Before
  <2> QED
    BY <1>4, <2>1, CreateWriterInv, SameTurn
<1>5. CASE JoinReader
  <2>1. UNCHANGED <<x, put>> /\ main \notin Before /\ main' \notin Before
    BY <1>5 DEF JoinReader, Join, Before
  <2> QED
    BY <1>5, <2>1, JoinReaderInv, SameTurn
<1>6. CASE JoinWriter
  <2>1. UNCHANGED <<x, put>> /\ main \notin Before /\ main' \notin Before
    BY <1>6 DEF JoinWriter, Join, Before
  <2> QED
    BY <1>6, <2>1, JoinWriterInv, SameTurn
<1>7. CASE Close
  <2>1. SwitchInv' /\ (failures = 0 => put["fd2"] = NIterations)
    BY <1>7, CloseInv
  <2>2. put' = put /\ failures' = failures /\ main = "close"
        /\ IF x < NTrials THEN x' = x + 1 /\ main' = "pipe" ELSE x' = x /\ main' = "done"
    BY <1>7 DEF Close
  <2>3. CASE x < NTrials
    <3>1. failures' = 0 => Exchange!NextRound
      BY <2>1, <2>2, <2>3 DEF Exchange!NextRound
    <3> QED
      BY <2>1, <3>1 DEF Turn, Exchange!Next
  <2>4. CASE ~(x < NTrials)
    <3>1. UNCHANGED <<x, put>> /\ main \notin Before /\ main' \notin Before
      BY <2>2, <2>4 DEF Before
    <3> QED
      BY <2>1, <3>1, SameTurn
  <2> QED
    BY <2>3, <2>4
<1> QED
  BY <1>1, <1>2, <1>3, <1>4, <1>5, <1>6, <1>7 DEF MainStep

LEMMA ThreadTurn ==
    ASSUME SwitchInv, NEW h \in Threads, ThreadStep(h)
    PROVE  SwitchInv' /\ Turn
<1>1. Running /\ pc[h] \in Live
  BY DEF ThreadStep, Read, Write, StoreDuration, Live
<1>2. h = reader(x) \/ h = writer(x)
  BY <1>1, OnlyHere
<1>3. Started /\ main \notin Before
  <2>1. Started
    BY <1>1, <1>2, LiveIsStarted
  <2> QED
    BY <2>1 DEF Started, Before
<1>4. UNCHANGED <<main, x>>
  BY DEF ThreadStep, Read, Write, StoreDuration
<1>5. CASE Read(h)
  <2>1. SwitchInv' /\ put' = put
    BY <1>2, <1>5, ReaderReadInv, WriterReadInv
  <2> QED
    BY <1>4, <2>1, SameTurn
<1>6. CASE StoreDuration(h)
  BY <1>4, <1>6, StoreInv, SameTurn
<1>7. CASE Write(h) /\ h = reader(x)
  <2>1. /\ SwitchInv' /\ put["fd2"] < put["fd"]
        /\ put'["fd"] = put["fd"] /\ put'["fd2"] = put["fd2"] + 1
    BY <1>7, ReaderWriteInv
  <2>2. Exchange!Pong
    BY <1>3, <1>4, <2>1 DEF Exchange!Pong, Before
  <2> QED
    BY <2>1, <2>2 DEF Turn, Exchange!Next
<1>8. CASE Write(h) /\ h = writer(x)
  <2>1. /\ SwitchInv' /\ put["fd"] = put["fd2"] /\ put["fd"] < NIterations
        /\ put'["fd"] = put["fd"] + 1 /\ put'["fd2"] = put["fd2"]
    BY <1>8, WriterWriteInv
  <2>2. Exchange!Ping
    BY <1>3, <1>4, <2>1 DEF Exchange!Ping, Before
  <2> QED
    BY <2>1, <2>2 DEF Turn, Exchange!Next
<1> QED
  BY <1>2, <1>5, <1>6, <1>7, <1>8 DEF ThreadStep

\* What a thread reads from or writes to is open.
LEMMA PipesOpen ==
    ASSUME SwitchInv, Running, NEW h \in Threads, pc[h] \in {"read", "write"}
    PROVE  InPipe(h) \in open /\ OutPipe(h) \in open
<1>1. h = reader(x) \/ h = writer(x)
  BY OnlyHere DEF Live
<1>2. Started
  BY <1>1, LiveIsStarted DEF Live
<1> QED
  BY <1>2 DEF SwitchInv, Place, Both, InPipe, OutPipe

LEMMA LeaveTurn ==
    ASSUME SwitchInv, JoinCrashes \/ Exit
    PROVE  SwitchInv' /\ (failures' = 0 => Turn)
<1>1. failures \in 0..MaxFailures /\ MaxFailures \in Nat
  BY MaxFailuresAssumption DEF SwitchInv, TypeOK
<1>2. CASE JoinCrashes
  <2>1. /\ main' = "exited" /\ UNCHANGED <<pc, x, i, open, put, got, slot>>
        /\ failures' = failures /\ main \notin Before /\ main' \notin Before
    BY <1>2 DEF JoinCrashes, Before
  <2> QED
    BY <1>1, <2>1, LeaveInv, SameTurn
<1>3. CASE Exit
  <2>1. main' = "exited" /\ UNCHANGED <<pc, x, i, open, put, got, slot>> /\ Running
    BY <1>3 DEF Exit
  <2>2. failures' = failures + 1 /\ failures < MaxFailures
    BY <1>3, <2>1, PipesOpen DEF Exit
  <2>3. failures' \in 0..MaxFailures /\ failures' # 0
    BY <1>1, <2>2
  <2> QED
    BY <2>1, <2>3, LeaveInv
<1> QED
  BY <1>2, <1>3

LEMMA NextInv ==
    ASSUME SwitchInv, [Next]_vars
    PROVE  SwitchInv' /\ (failures' = 0 => Turn)
<1>1. CASE MainStep
  BY <1>1, MainTurn
<1>2. ASSUME NEW h \in Threads, ThreadStep(h)
      PROVE  SwitchInv' /\ (failures' = 0 => Turn)
  BY <1>2, ThreadTurn
<1>3. CASE JoinCrashes \/ Exit
  BY <1>3, LeaveTurn
<1>4. CASE UNCHANGED vars
  <2>1. UNCHANGED <<main, pc, x, i, open, put, got, slot, failures>>
    BY <1>4 DEF vars
  <2>2. TypeOK' /\ OneTrial' /\ Place' /\ Stored'
    BY <2>1 DEF SwitchInv, TypeOK, OneTrial, Place, Stored, Running, Started
  <2>3. ReaderCount' /\ WriterCount' /\ Sent'
    BY <2>1 DEF SwitchInv, ReaderCount, WriterCount, Sent, Started
  <2>4. Turn
    BY <2>1, SameTurn
  <2> QED
    BY <2>2, <2>3, <2>4 DEF SwitchInv
<1> QED
  BY <1>1, <1>2, <1>3, <1>4 DEF Next, Terminated

-----------------------------------------------------------------------------
\* The state keeps its types: in particular no thread goes through its loop more
\* often than N_iterations, whichever calls fail.
THEOREM TypeCorrect == Spec => []TypeOK
<1>1. SwitchInv /\ [Next]_vars => SwitchInv'
  BY NextInv
<1>2. SwitchInv => TypeOK
  BY DEF SwitchInv
<1> QED
  BY InitInv, <1>1, <1>2, PTL DEF Spec

\* A thread in its exchange works on the pipes of its own trial, although it
\* takes them from the global variables fd and fd2; even if calls fail.
THEOREM PipesOfTheTrial == Spec => []OwnPipes
<1>1. SwitchInv /\ [Next]_vars => SwitchInv'
  BY NextInv
<1>2. SwitchInv => OwnPipes
  <2> SUFFICES ASSUME SwitchInv PROVE OwnPipes
    OBVIOUS
  <2>1. ASSUME Running, NEW h \in Threads, pc[h] \in {"read", "write"}
        PROVE  h[2] = x /\ open = Both
    <3>1. h = reader(x) \/ h = writer(x)
      BY <2>1, OnlyHere DEF Live
    <3>2. h[2] = x
      BY <3>1, Here, ThreadNames
    <3>3. Started
      BY <2>1, <3>1, LiveIsStarted DEF Live
    <3> QED
      BY <3>2, <3>3 DEF SwitchInv, Place
  <2>2. main \in {"pipe", "done"} => open = {}
    BY DEF SwitchInv, Place
  <2> QED
    BY <2>1, <2>2 DEF OwnPipes
<1> QED
  BY InitInv, <1>1, <1>2, PTL DEF Spec

\* A duration goes into the slot of the trial it was measured in, although the
\* writer takes the slot from the global variable x; and if no call failed, all
\* slots that main() averages are filled.
THEOREM SlotOfTheTrial == Spec => []OwnSlot
<1>1. SwitchInv /\ [Next]_vars => SwitchInv'
  BY NextInv
<1>2. SwitchInv => OwnSlot
  <2> SUFFICES ASSUME SwitchInv PROVE OwnSlot
    OBVIOUS
  <2>1. \A t \in Trials : slot[t] \subseteq {t}
    BY DEF SwitchInv, Stored
  <2>2. ASSUME main = "done", failures = 0, NEW t \in Trials
        PROVE  slot[t] = {t}
    <3>1. t \in slot[t]
      BY <2>2 DEF SwitchInv, Stored
    <3> QED
      BY <2>1, <3>1
  <2> QED
    BY <2>1, <2>2 DEF OwnSlot
<1> QED
  BY InitInv, <1>1, <1>2, PTL DEF Spec

\* As long as no call fails, ThreadSwitch implements PingPong: the threads take
\* turns strictly, and main() starts a trial only after the last answer of the one
\* before.
THEOREM TurnTaking == Spec => TakeTurnsUnlessFailed
<1>1. Init => Exchange!Init
  BY DEF Init, Exchange!Init
<1>2. SwitchInv /\ [Next]_vars => SwitchInv'
  BY NextInv
<1>3. SwitchInv /\ [Next]_vars => [failures' = 0 => Exchange!Next]_(Exchange!vars)
  BY NextInv DEF Turn
<1> QED
  BY InitInv, <1>1, <1>2, <1>3, PTL DEF Spec, TakeTurnsUnlessFailed

-----------------------------------------------------------------------------
(* Progress: every step brings main() or a thread nearer to its end, even   *)
(* if calls fail, and unless a call fails somebody can always go on.        *)

\* How far main() is from the end of its trial, and of the program.
Way(place) ==
    CASE place = "pipe" -> 7
      [] place = "pipe2" -> 6
      [] place = "create reader" -> 5
      [] place = "create writer" -> 4
      [] place = "join reader" -> 3
      [] place = "join writer" -> 2
      [] place = "close" -> 1
      [] OTHER -> 0

RankAt(place, t) ==
    IF place \in {"done", "exited"} THEN 0 ELSE (NTrials - t) * 7 + Way(place)

MainRank == RankAt(main, x)

\* How far a thread is from its end.
TripsLeft(h) == 2 * (NIterations - i[h])

ThreadRank(h) ==
    CASE pc[h] = "unborn" -> 2 * NIterations + 3
      [] pc[h] = "write" -> IF h \in Writers THEN TripsLeft(h) + 2 ELSE TripsLeft(h)
      [] pc[h] = "read" -> TripsLeft(h) + 1
      [] pc[h] = "end" -> 1
      [] OTHER -> 0

\* A step brings one of them nearer to its end, and none further away.
NoThreadBack == \A h \in Threads : ThreadRank(h)' <= ThreadRank(h)

Forward ==
    /\ MainRank' < MainRank \/ \E h \in Threads : ThreadRank(h)' < ThreadRank(h)
    /\ MainRank' <= MainRank /\ NoThreadBack

\* Joins and reads block, nothing else.
MainCanStep ==
    \/ main \in {"pipe", "pipe2", "create reader", "create writer", "close"}
    \/ main = "join reader" /\ pc[reader(x)] \in {"unborn", "finished"}
    \/ main = "join writer" /\ pc[writer(x)] \in {"unborn", "finished"}

ThreadCanStep(h) ==
    /\ Running
    /\ \/ pc[h] = "write" /\ OutPipe(h) \in open
       \/ pc[h] = "read" /\ InPipe(h) \in open /\ put[InPipe(h)] > got[InPipe(h)]
       \/ pc[h] = "end"

NoDeadlock ==
    failures = 0 => main = "done" \/ MainCanStep \/ \E h \in Threads : ThreadCanStep(h)

\* Unless a call fails, main() stays, and its reader is there when it is joined.
Unfailed ==
    failures = 0 =>
        /\ main # "exited"
        /\ main \in {"create writer", "join reader", "join writer", "close"} =>
               pc[reader(x)] # "unborn"

LEMMA OneToSeven == {1, 2, 3, 4, 5, 6, 7} = 1..7
OBVIOUS

LEMMA Consecutive ==
    /\ 7 \in 2..7 /\ 6 \in 2..7 /\ 5 \in 2..7 /\ 4 \in 2..7 /\ 3 \in 2..7 /\ 2 \in 2..7
    /\ 6 = 7 - 1 /\ 5 = 6 - 1 /\ 4 = 5 - 1 /\ 3 = 4 - 1 /\ 2 = 3 - 1 /\ 1 = 2 - 1
OBVIOUS

\* The places of main() come one after the other.
LEMMA Ways ==
    ASSUME NEW m, NEW n,
           \/ m = "pipe" /\ n = "pipe2"
           \/ m = "pipe2" /\ n = "create reader"
           \/ m = "create reader" /\ n = "create writer"
           \/ m = "create writer" /\ n = "join reader"
           \/ m = "join reader" /\ n = "join writer"
           \/ m = "join writer" /\ n = "close"
    PROVE  Way(m) \in 2..7 /\ Way(n) = Way(m) - 1 /\ {m, n} \cap {"done", "exited"} = {}
<1>2. /\ Way("pipe") = 7 /\ Way("pipe2") = 6 /\ Way("create reader") = 5
      /\ Way("create writer") = 4 /\ Way("join reader") = 3 /\ Way("join writer") = 2
      /\ Way("close") = 1
  BY DEF Way
<1>3. CASE m = "pipe" /\ n = "pipe2"
  <2>1. Way(m) = 7 /\ Way(n) = 6
    BY ONLY <1>2, <1>3, Zenon
  <2>2. {m, n} \cap {"done", "exited"} = {}
    BY ONLY <1>3
  <2> QED
    BY ONLY <2>1, <2>2, Consecutive, Zenon
<1>4. CASE m = "pipe2" /\ n = "create reader"
  <2>1. Way(m) = 6 /\ Way(n) = 5
    BY ONLY <1>2, <1>4, Zenon
  <2>2. {m, n} \cap {"done", "exited"} = {}
    BY ONLY <1>4
  <2> QED
    BY ONLY <2>1, <2>2, Consecutive, Zenon
<1>5. CASE m = "create reader" /\ n = "create writer"
  <2>1. Way(m) = 5 /\ Way(n) = 4
    BY ONLY <1>2, <1>5, Zenon
  <2>2. {m, n} \cap {"done", "exited"} = {}
    BY ONLY <1>5
  <2> QED
    BY ONLY <2>1, <2>2, Consecutive, Zenon
<1>6. CASE m = "create writer" /\ n = "join reader"
  <2>1. Way(m) = 4 /\ Way(n) = 3
    BY ONLY <1>2, <1>6, Zenon
  <2>2. {m, n} \cap {"done", "exited"} = {}
    BY ONLY <1>6
  <2> QED
    BY ONLY <2>1, <2>2, Consecutive, Zenon
<1>7. CASE m = "join reader" /\ n = "join writer"
  <2>1. Way(m) = 3 /\ Way(n) = 2
    BY ONLY <1>2, <1>7, Zenon
  <2>2. {m, n} \cap {"done", "exited"} = {}
    BY ONLY <1>7
  <2> QED
    BY ONLY <2>1, <2>2, Consecutive, Zenon
<1>8. CASE m = "join writer" /\ n = "close"
  <2>1. Way(m) = 2 /\ Way(n) = 1
    BY ONLY <1>2, <1>8, Zenon
  <2>2. {m, n} \cap {"done", "exited"} = {}
    BY ONLY <1>8
  <2> QED
    BY ONLY <2>1, <2>2, Consecutive, Zenon
<1> QED
  BY <1>3, <1>4, <1>5, <1>6, <1>7, <1>8

LEMMA WayType == \A m : Way(m) \in 0..7
BY DEF Way

LEMMA WayLeft == \A m \in MainPCs \ {"done", "exited"} : Way(m) \in 1..7
<1>1. ASSUME NEW m \in {"pipe", "pipe2", "create reader", "create writer",
                        "join reader", "join writer", "close"}
      PROVE  Way(m) \in 1..7
  <2>1. /\ Way("pipe") = 7 /\ Way("pipe2") = 6 /\ Way("create reader") = 5
        /\ Way("create writer") = 4 /\ Way("join reader") = 3 /\ Way("join writer") = 2
        /\ Way("close") = 1
    BY DEF Way
  <2>2. Way(m) \in {1, 2, 3, 4, 5, 6, 7}
    BY <1>1, <2>1, Zenon
  <2> QED
    BY ONLY <2>2, OneToSeven, Zenon
<1> QED
  BY <1>1 DEF MainPCs

LEMMA TrialsLeft ==
    ASSUME NEW t \in Trials
    PROVE  /\ NTrials - t \in Nat
           /\ t < NTrials => NTrials - t = NTrials - (t + 1) + 1 /\ NTrials - (t + 1) \in Nat
<1>1. NTrials \in Nat /\ t \in Nat /\ t <= NTrials
  BY NTrialsAssumption DEF Trials
<1> QED
  BY <1>1

\* To the end: every rank but 0 is above 0.
LEMMA NearerEnd ==
    ASSUME NEW m \in MainPCs \ {"done", "exited"}, NEW t \in Trials,
           NEW n \in {"done", "exited"}, NEW u
    PROVE  RankAt(n, u) < RankAt(m, t)
<1>1. RankAt(n, u) = 0 /\ RankAt(m, t) = (NTrials - t) * 7 + Way(m)
  BY DEF RankAt
<1>2. (NTrials - t) \in Nat /\ Way(m) \in 1..7
  BY TrialsLeft, WayLeft
<1>3. \A a \in Nat, b \in 1..7 : 0 < a * 7 + b
  OBVIOUS
<1> QED
  BY <1>1, <1>2, <1>3

\* Along the trial.
LEMMA NearerAlong ==
    ASSUME NEW m, NEW t \in Trials, NEW n,
           Way(m) \in 2..7, Way(n) = Way(m) - 1, {m, n} \cap {"done", "exited"} = {}
    PROVE  RankAt(n, t) < RankAt(m, t)
<1>1. /\ RankAt(n, t) = (NTrials - t) * 7 + Way(n)
      /\ RankAt(m, t) = (NTrials - t) * 7 + Way(m)
  BY DEF RankAt
<1>2. (NTrials - t) \in Nat
  BY TrialsLeft
<1>3. \A a \in Nat, b \in 2..7 : a * 7 + (b - 1) < a * 7 + b
  OBVIOUS
<1> QED
  BY <1>1, <1>2, <1>3

\* To the next trial.
LEMMA NearerTrial ==
    ASSUME NEW t \in Trials, t < NTrials
    PROVE  RankAt("pipe", t + 1) < RankAt("close", t)
<1>1. Way("close") = 1 /\ Way("pipe") = 7
  BY DEF Way
<1>2. /\ RankAt("pipe", t + 1) = (NTrials - (t + 1)) * 7 + 7
      /\ RankAt("close", t) = (NTrials - t) * 7 + 1
  BY <1>1 DEF RankAt
<1>3. \A a \in Nat : a * 7 + 7 < (a + 1) * 7 + 1
  OBVIOUS
<1>4. NTrials - t = NTrials - (t + 1) + 1 /\ NTrials - (t + 1) \in Nat
  BY TrialsLeft
<1> QED
  BY <1>2, <1>3, <1>4

LEMMA Ranks ==
    ASSUME TypeOK
    PROVE  \A h \in Threads : ThreadRank(h) \in Nat /\ TripsLeft(h) \in Nat
<1> SUFFICES ASSUME NEW h \in Threads PROVE ThreadRank(h) \in Nat /\ TripsLeft(h) \in Nat
  OBVIOUS
<1>1. NIterations \in Nat
  BY NIterationsAssumption
<1>2. TripsLeft(h) \in Nat
  BY <1>1 DEF TypeOK, TripsLeft
<1> QED
  BY <1>1, <1>2 DEF ThreadRank

LEMMA RanksNext == TypeOK' => \A h \in Threads : ThreadRank(h)' \in Nat
<1>1. TypeOK => \A h \in Threads : ThreadRank(h) \in Nat
  BY Ranks
<1>2. TypeOK' => (\A h \in Threads : ThreadRank(h) \in Nat)'
  BY <1>1, PTL
<1> QED
  BY <1>2

LEMMA RankType == TypeOK => MainRank \in Nat
<1> SUFFICES ASSUME TypeOK PROVE RankAt(main, x) \in Nat
  BY DEF MainRank
<1>1. Way(main) \in 0..7 /\ NTrials - x \in Nat
  BY WayType, TrialsLeft DEF TypeOK
<1>2. \A a \in Nat, b \in 0..7 : a * 7 + b \in Nat
  OBVIOUS
<1>3. RankAt(main, x) = 0 \/ RankAt(main, x) = (NTrials - x) * 7 + Way(main)
  BY DEF RankAt
<1> QED
  BY <1>1, <1>2, <1>3

LEMMA Below == \A a, b \in Nat : a < b => a <= b
OBVIOUS

LEMMA RankTypeNext == TypeOK' => MainRank' \in Nat
<1>1. TypeOK => MainRank \in Nat
  BY RankType
<1>2. TypeOK' => (MainRank \in Nat)'
  BY <1>1, PTL
<1> QED
  BY <1>2

LEMMA MainIsForward ==
    ASSUME TypeOK, TypeOK', Running,
           \/ main' \in {"done", "exited"}
           \/ x' = x /\ \/ main = "pipe" /\ main' = "pipe2"
                        \/ main = "pipe2" /\ main' = "create reader"
                        \/ main = "create reader" /\ main' = "create writer"
                        \/ main = "create writer" /\ main' = "join reader"
                        \/ main = "join reader" /\ main' = "join writer"
                        \/ main = "join writer" /\ main' = "close"
           \/ main = "close" /\ main' = "pipe" /\ x < NTrials /\ x' = x + 1,
           NoThreadBack
    PROVE  Forward
<1>1. main \in MainPCs \ {"done", "exited"} /\ x \in Trials
  BY DEF TypeOK, Running
<1>2. RankAt(main', x') < RankAt(main, x)
  <2>1. CASE main' \in {"done", "exited"}
    BY <1>1, <2>1, NearerEnd
  <2>2. CASE x' = x /\ Way(main) \in 2..7 /\ Way(main') = Way(main) - 1
             /\ {main, main'} \cap {"done", "exited"} = {}
    BY <1>1, <2>2, NearerAlong
  <2>3. CASE main = "close" /\ main' = "pipe" /\ x < NTrials /\ x' = x + 1
    BY <1>1, <2>3, NearerTrial
  <2> QED
    BY <2>1, <2>2, <2>3, Ways
<1>3. MainRank' = RankAt(main', x') /\ MainRank = RankAt(main, x)
  BY DEF MainRank
<1>4. MainRank' \in Nat /\ MainRank \in Nat
  BY RankType, RankTypeNext
<1>5. MainRank' < MainRank
  BY <1>2, <1>3
<1>7. MainRank' <= MainRank
  BY ONLY <1>4, <1>5, Below
<1> QED
  BY <1>5, <1>7 DEF Forward

LEMMA ThreadIsForward ==
    ASSUME TypeOK, TypeOK', UNCHANGED <<main, x>>, NEW h \in Threads,
           ThreadRank(h)' < ThreadRank(h),
           \A g \in Threads : g # h => pc'[g] = pc[g] /\ i'[g] = i[g]
    PROVE  Forward
<1>1. MainRank' = MainRank
  BY DEF MainRank
<1>2. \A g \in Threads : g # h => ThreadRank(g)' = ThreadRank(g)
  BY DEF ThreadRank, TripsLeft
<1>3. MainRank \in Nat /\ \A g \in Threads : ThreadRank(g) \in Nat /\ ThreadRank(g)' \in Nat
  BY Ranks, RanksNext, RankType
<1> QED
  BY <1>1, <1>2, <1>3 DEF Forward, NoThreadBack

LEMMA StepIsForward ==
    ASSUME SwitchInv, SwitchInv', [Next]_vars
    PROVE  [Forward]_vars
<1>0. TypeOK /\ TypeOK' /\ NIterations \in Nat /\ NIterations > 0
  BY NIterationsAssumption DEF SwitchInv
<1>1. pc' = pc /\ i' = i => NoThreadBack
  <2> SUFFICES ASSUME pc' = pc, i' = i, NEW h \in Threads
               PROVE  ThreadRank(h)' <= ThreadRank(h)
    BY DEF NoThreadBack
  <2>1. ThreadRank(h)' = ThreadRank(h) /\ ThreadRank(h) \in Nat
    BY <1>0, Ranks DEF ThreadRank, TripsLeft
  <2> QED
    BY <2>1
<1>2. CASE Pipe \/ Pipe2
  <2>1. /\ UNCHANGED <<pc, i, x>>
        /\ (main = "pipe" /\ main' = "pipe2") \/ (main = "pipe2" /\ main' = "create reader")
    BY <1>2 DEF Pipe, Pipe2, OpenPipe
  <2>2. Running
    BY <2>1 DEF Running
  <2> QED
    BY <1>0, <1>1, <2>1, <2>2, MainIsForward
<1>3. ASSUME NEW h \in Threads, NEW start \in {"read", "write"}, NEW here, NEW next,
             Create(h, start, here, next), pc[h] = "unborn", i[h] = 0,
             \/ here = "create reader" /\ next = "create writer"
             \/ here = "create writer" /\ next = "join reader"
      PROVE  Forward
  <2>0. /\ UNCHANGED <<x, i>> /\ main = here /\ main' = next
        /\ pc' = pc \/ Goto(h, start)
    BY <1>3 DEF Create
  <2>1. Running
    BY <1>3, <2>0 DEF Running
  <2>2. CASE Goto(h, start)
    <3>1. pc'[h] = start /\ \A g \in Threads : g # h => pc'[g] = pc[g]
      BY <1>0, <2>2 DEF Goto, TypeOK
    <3>2. ThreadRank(h)' <= ThreadRank(h)
      <4>1. ThreadRank(h) = 2 * NIterations + 3
        BY <1>3 DEF ThreadRank
      <4>2. i'[h] = 0
        BY <1>3, <2>0
      <4>3. ThreadRank(h)' \in {2 * NIterations, 2 * NIterations + 1, 2 * NIterations + 2}
        <5>1. CASE start = "read"
          BY <1>0, <3>1, <4>2, <5>1 DEF ThreadRank, TripsLeft
        <5>2. CASE start = "write"
          BY <1>0, <3>1, <4>2, <5>2 DEF ThreadRank, TripsLeft
        <5> QED
          BY <5>1, <5>2
      <4> QED
        BY <1>0, <4>1, <4>3
    <3>3. ASSUME NEW g \in Threads, g # h PROVE ThreadRank(g)' <= ThreadRank(g)
      <4>1. ThreadRank(g)' = ThreadRank(g) /\ ThreadRank(g) \in Nat
        BY <1>0, <2>0, <3>1, <3>3, Ranks DEF ThreadRank, TripsLeft
      <4> QED
        BY <4>1
    <3>4. NoThreadBack
      BY <3>2, <3>3 DEF NoThreadBack
    <3> QED
      BY <1>0, <1>3, <2>0, <2>1, <3>4, MainIsForward
  <2>3. CASE pc' = pc
    BY <1>0, <1>1, <1>3, <2>0, <2>1, <2>3, MainIsForward
  <2> QED
    BY <2>0, <2>2, <2>3
<1>4. CASE CreateReader
  <2>1. main = "create reader"
    BY <1>4 DEF CreateReader, Create
  <2>2. pc[reader(x)] = "unborn" /\ i[reader(x)] = 0 /\ reader(x) \in Threads
    BY <2>1, Here DEF SwitchInv, Place, ReaderCount, Started
  <2> QED
    BY <1>3, <1>4, <2>2 DEF CreateReader
<1>5. CASE CreateWriter
  <2>1. main = "create writer"
    BY <1>5 DEF CreateWriter, Create
  <2>2. pc[writer(x)] = "unborn" /\ i[writer(x)] = 0 /\ writer(x) \in Threads
    BY <2>1, Here DEF SwitchInv, Place, WriterCount, Started
  <2> QED
    BY <1>3, <1>5, <2>2 DEF CreateWriter
<1>6. CASE JoinReader \/ JoinWriter
  <2>1. /\ UNCHANGED <<pc, i, x>>
        /\ \/ main = "join reader" /\ main' = "join writer"
           \/ main = "join writer" /\ main' = "close"
    BY <1>6 DEF JoinReader, JoinWriter, Join
  <2>2. Running
    BY <2>1 DEF Running
  <2> QED
    BY <1>0, <1>1, <2>1, <2>2, MainIsForward
<1>7. CASE Close
  <2>1. /\ Running /\ UNCHANGED <<pc, i>> /\ main = "close"
        /\ main' = "done" \/ (main' = "pipe" /\ x < NTrials /\ x' = x + 1)
    BY <1>7 DEF Close, Running
  <2> QED
    BY <1>0, <1>1, <2>1, MainIsForward
<1>8. CASE JoinCrashes \/ Exit
  <2>1. Running /\ UNCHANGED <<pc, i>> /\ main' = "exited"
    BY <1>8 DEF JoinCrashes, Exit, Running
  <2> QED
    BY <1>0, <1>1, <2>1, MainIsForward
<1>9. ASSUME NEW h \in Threads, ThreadStep(h) PROVE Forward
  <2>1. UNCHANGED <<main, x>> /\ Running /\ pc[h] \in Live
    BY <1>9 DEF ThreadStep, Write, Read, StoreDuration, Live
  <2>2. h = reader(x) \/ h = writer(x)
    BY <2>1, OnlyHere
  <2>3. pc[h] \in {"read", "write"} => i[h] \in Nat /\ i[h] < NIterations
    <3>1. Started
      BY <2>1, <2>2, LiveIsStarted
    <3> QED
      BY <2>2, <3>1, Here DEF SwitchInv, ReaderCount, WriterCount
  <2>4. h \in Writers <=> h \notin Readers
    BY <2>2, Here
  <2>5. ASSUME NEW label, Goto(h, label),
               UNCHANGED i \/ i' = [i EXCEPT ![h] = @ + 1],
               (ThreadRank(h) - ThreadRank(h)' > 0)
        PROVE  Forward
    <3>1. \A g \in Threads : g # h => pc'[g] = pc[g] /\ i'[g] = i[g]
      BY <1>0, <2>5 DEF Goto, TypeOK
    <3>2. ThreadRank(h) \in Nat /\ ThreadRank(h)' \in Nat
      BY <1>0, Ranks, RanksNext
    <3> QED
      BY <1>0, <2>1, <2>5, <3>1, <3>2, ThreadIsForward
  <2>6. CASE Write(h)
    <3>1. /\ pc[h] = "write" /\ Goto(h, AfterWrite(h))
          /\ i' = IF h \in Readers THEN [i EXCEPT ![h] = @ + 1] ELSE i
      BY <2>6 DEF Write
    <3>2. /\ pc'[h] = AfterWrite(h)
          /\ i'[h] = IF h \in Readers THEN i[h] + 1 ELSE i[h]
      BY <1>0, <3>1 DEF Goto, TypeOK
    <3>3. AfterWrite(h) = "read" \/ (AfterWrite(h) = "finished" /\ h \in Readers)
      BY DEF AfterWrite
    <3>4. ThreadRank(h) - ThreadRank(h)' > 0
      BY <1>0, <2>3, <2>4, <3>1, <3>2, <3>3 DEF ThreadRank, TripsLeft
    <3> QED
      BY <2>5, <3>1, <3>4
  <2>7. CASE Read(h)
    <3>1. /\ pc[h] = "read" /\ Goto(h, AfterRead(h))
          /\ i' = IF h \in Writers THEN [i EXCEPT ![h] = @ + 1] ELSE i
      BY <2>7 DEF Read
    <3>2. /\ pc'[h] = AfterRead(h)
          /\ i'[h] = IF h \in Writers THEN i[h] + 1 ELSE i[h]
      BY <1>0, <3>1 DEF Goto, TypeOK
    <3>3. AfterRead(h) = "write" \/ (AfterRead(h) = "end" /\ h \in Writers)
      BY DEF AfterRead
    <3>4. ThreadRank(h) - ThreadRank(h)' > 0
      BY <1>0, <2>3, <2>4, <3>1, <3>2, <3>3 DEF ThreadRank, TripsLeft
    <3> QED
      BY <2>5, <3>1, <3>4
  <2>8. CASE StoreDuration(h)
    <3>1. pc[h] = "end" /\ Goto(h, "finished") /\ i' = i
      BY <2>8 DEF StoreDuration
    <3>2. pc'[h] = "finished"
      BY <1>0, <3>1 DEF Goto, TypeOK
    <3>3. ThreadRank(h) - ThreadRank(h)' > 0
      BY <3>1, <3>2 DEF ThreadRank
    <3> QED
      BY <2>5, <3>1, <3>3
  <2> QED
    BY <1>9, <2>6, <2>7, <2>8 DEF ThreadStep
<1> QED
  BY <1>2, <1>4, <1>5, <1>6, <1>7, <1>8, <1>9 DEF Next, MainStep, Terminated

\* Every step brings main() or a thread nearer to its end, and no step sends one
\* back, whichever calls fail and however joins of missing threads end.
THEOREM NoStepBack ==
    Spec => /\ [](MainRank \in Nat /\ \A h \in Threads : ThreadRank(h) \in Nat)
            /\ [][Forward]_vars
<1>1. SwitchInv /\ [Next]_vars => SwitchInv' /\ [Forward]_vars
  BY NextInv, StepIsForward
<1>2. SwitchInv => MainRank \in Nat /\ \A h \in Threads : ThreadRank(h) \in Nat
  BY Ranks, RankType DEF SwitchInv
<1> QED
  BY InitInv, <1>1, <1>2, PTL DEF Spec

LEMMA UnfailedStep ==
    ASSUME SwitchInv, SwitchInv', Unfailed, [Next]_vars
    PROVE  Unfailed'
<1> SUFFICES ASSUME failures' = 0
             PROVE  /\ main' # "exited"
                    /\ main' \in {"create writer", "join reader", "join writer", "close"} =>
                           pc'[reader(x')] # "unborn"
  BY DEF Unfailed, reader
<1>0. /\ TypeOK /\ MaxFailures \in Nat /\ failures \in Nat /\ reader(x) \in Threads
  BY Here, MaxFailuresAssumption DEF SwitchInv
<1>1. failures = 0
  <2>1. failures' = failures \/ (failures' = failures + 1)
    <3>1. CASE MainStep
      BY <3>1 DEF MainStep, Pipe, Pipe2, OpenPipe, CreateReader, CreateWriter, Create,
          JoinReader, JoinWriter, Join, Close
    <3>2. CASE ~MainStep
      BY <3>2 DEF Next, ThreadStep, Write, Read, StoreDuration, JoinCrashes, Exit, Terminated,
          vars
    <3> QED
      BY <3>1, <3>2
  <2>2. CASE failures' = failures + 1
    BY <1>0, <2>2
  <2> QED
    BY <2>1, <2>2
<1>2. /\ main # "exited"
      /\ main \in {"create writer", "join reader", "join writer", "close"} =>
             pc[reader(x)] # "unborn"
  BY <1>1 DEF Unfailed
<1>3. CASE Pipe \/ Pipe2 \/ Close
  BY <1>3 DEF Pipe, Pipe2, OpenPipe, Close
<1>4. CASE CreateReader
  <2>0. failures' # failures + 1
    BY <1>1
  <2>1. Goto(reader(x), "read") /\ x' = x /\ main' = "create writer"
    BY <1>4, <2>0 DEF CreateReader, Create
  <2>2. pc'[reader(x)] = "read"
    BY <1>0, <2>1 DEF Goto, TypeOK
  <2> QED
    BY <2>1, <2>2 DEF reader
<1>5. CASE CreateWriter
  <2>0. failures' # failures + 1
    BY <1>1
  <2>1. Goto(writer(x), "write") /\ x' = x /\ main = "create writer" /\ main' = "join reader"
    BY <1>5, <2>0 DEF CreateWriter, Create
  <2>2. pc'[reader(x)] = pc[reader(x)]
    BY <1>0, <2>1, Here DEF Goto, TypeOK
  <2> QED
    BY <1>2, <2>1, <2>2 DEF reader
<1>6. CASE JoinReader \/ JoinWriter
  BY <1>2, <1>6 DEF JoinReader, JoinWriter, Join, reader
<1>7. CASE JoinCrashes
  BY <1>1, <1>2, <1>7 DEF JoinCrashes, SwitchInv, Stored
<1>8. CASE Exit
  BY <1>0, <1>1, <1>8, PipesOpen DEF Exit
<1>9. ASSUME NEW h \in Threads, ThreadStep(h)
      PROVE  main' # "exited" /\ (main' # "pipe" => pc'[reader(x')] # "unborn" \/ pc[reader(x)] = "unborn")
  <2>1. UNCHANGED <<main, x>>
    BY <1>9 DEF ThreadStep, Write, Read, StoreDuration
  <2>2. \E label \in PCs \ {"unborn"} : Goto(h, label)
    BY <1>9 DEF ThreadStep, Write, Read, StoreDuration, PCs, AfterWrite, AfterRead
  <2>3. pc'[reader(x)] # "unborn" \/ pc[reader(x)] = "unborn"
    BY <1>0, <2>2 DEF Goto, TypeOK
  <2> QED
    BY <1>2, <2>1, <2>3 DEF reader
<1>10. CASE UNCHANGED vars
  BY <1>2, <1>10 DEF vars, reader
<1>11. CASE \E h \in Threads : ThreadStep(h)
  <2>1. UNCHANGED <<main, x>>
    BY <1>11 DEF ThreadStep, Write, Read, StoreDuration
  <2> QED
    BY <1>2, <1>9, <1>11, <2>1 DEF reader
<1> QED
  BY <1>3, <1>4, <1>5, <1>6, <1>7, <1>8, <1>10, <1>11 DEF Next, MainStep, Terminated

\* Unless a call fails, main() only ends in its report, and until then somebody
\* can always take a step: the reader, the writer and the joins of main() never
\* all wait for one another.
THEOREM SomebodyGoesOn == Spec => []NoDeadlock
<1>1. SwitchInv /\ Unfailed /\ [Next]_vars => SwitchInv' /\ Unfailed'
  BY NextInv, UnfailedStep
<1>2. Init => Unfailed
  BY DEF Init, Unfailed
<1>3. SwitchInv /\ Unfailed => NoDeadlock
  <2> SUFFICES ASSUME SwitchInv, Unfailed, failures = 0, main # "done", ~MainCanStep,
                      \A h \in Threads : ~ThreadCanStep(h)
               PROVE  FALSE
    BY DEF NoDeadlock
  <2>0. /\ reader(x) \in Threads /\ writer(x) \in Threads
        /\ pc[reader(x)] \in PCs /\ pc[writer(x)] \in PCs
    BY Here DEF SwitchInv, TypeOK
  <2>1. main \in {"join reader", "join writer"} /\ Started /\ Running
    <3>1. main \in MainPCs /\ main # "exited"
      BY DEF SwitchInv, TypeOK, Unfailed
    <3> QED
      BY <3>1 DEF MainCanStep, MainPCs, Started, Running
  <2>2. open = Both
    BY <2>1 DEF SwitchInv, Place
  <2>3. pc[reader(x)] # "unborn" /\ pc[writer(x)] # "unborn"
    BY <2>1 DEF Unfailed, SwitchInv, Stored
  <2>4. /\ pc[reader(x)] \notin {"write", "end"} /\ pc[writer(x)] \notin {"write", "end"}
        /\ pc[reader(x)] = "read" => ~(put["fd"] > got["fd"])
        /\ pc[writer(x)] = "read" => ~(put["fd2"] > got["fd2"])
    BY <2>0, <2>1, <2>2, Here DEF ThreadCanStep, OutPipe, InPipe, Both
  <2>5. pc[reader(x)] \in {"read", "finished"} /\ pc[writer(x)] \in {"read", "finished"}
    BY <2>0, <2>3, <2>4 DEF PCs
  <2>6. /\ pc[reader(x)] = "read" => i[reader(x)] < NIterations
        /\ pc[reader(x)] = "finished" => i[reader(x)] = NIterations
        /\ put["fd2"] = i[reader(x)] /\ got["fd"] = i[reader(x)]
    BY <2>1, <2>5 DEF SwitchInv, ReaderCount
  <2>7. /\ pc[writer(x)] = "read" => i[writer(x)] < NIterations /\ put["fd"] = i[writer(x)] + 1
        /\ pc[writer(x)] = "finished" => i[writer(x)] = NIterations /\ put["fd"] = i[writer(x)]
        /\ got["fd2"] = i[writer(x)]
    BY <2>1, <2>5 DEF SwitchInv, WriterCount
  <2>8. pc[reader(x)] = "finished" /\ pc[writer(x)] = "finished"
    BY <2>4, <2>5, <2>6, <2>7, Here
  <2> QED
    BY <2>1, <2>8 DEF MainCanStep
<1> QED
  BY InitInv, <1>1, <1>2, <1>3, PTL DEF Spec
=============================================================================
