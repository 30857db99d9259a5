------------------------ MODULE DynamicBatcherProofs ------------------------
(***************************************************************************)
(* The safety properties of DynamicBatcher, for every number of runners    *)
(* and requests, all batch sizes and all preferred sizes.                  *)
(***************************************************************************)
EXTENDS DynamicBatcher, FiniteSetTheorems, TLAPS

(***************************************************************************)
(* The parts of a queue.                                                   *)
(***************************************************************************)

\* Taking n requests from the front (queue_.pop_front) leaves the others.
LEMMA DropEffect ==
    ASSUME NEW S, NEW s \in Seq(S), NEW n \in 0..Len(s)
    PROVE  /\ Drop(s, n) \in Seq(S)
           /\ Len(Drop(s, n)) = Len(s) - n
           /\ \A i \in 1..(Len(s) - n) : Drop(s, n)[i] = s[i + n]
<1>1. \A i \in (n + 1)..Len(s) : s[i] \in S
  OBVIOUS
<1>2. Drop(s, n) \in Seq(S)
  BY <1>1 DEF Drop
<1>3. Len(Drop(s, n)) = Len(s) - n
  BY DEF Drop
<1>4. \A i \in 1..(Len(s) - n) : Drop(s, n)[i] = s[i + n]
  BY <1>3 DEF Drop
<1>5. QED
  BY <1>2, <1>3, <1>4

\* The requests taken (payloads->emplace_back) are the first n.
LEMMA PrefixEffect ==
    ASSUME NEW S, NEW s \in Seq(S), NEW n \in 0..Len(s)
    PROVE  /\ SubSeq(s, 1, n) \in Seq(S)
           /\ Len(SubSeq(s, 1, n)) = n
           /\ \A i \in 1..n : SubSeq(s, 1, n)[i] = s[i]
<1>1. \A i \in 1..n : s[i] \in S
  OBVIOUS
<1>2. SubSeq(s, 1, n) \in Seq(S)
  BY <1>1
<1>3. Len(SubSeq(s, 1, n)) = n
  OBVIOUS
<1>4. \A i \in 1..n : SubSeq(s, 1, n)[i] = s[i]
  BY <1>3
<1>5. QED
  BY <1>2, <1>3, <1>4

\* Enqueue's emplace_back.
LEMMA AppendEffect ==
    ASSUME NEW S, NEW s \in Seq(S), NEW e \in S
    PROVE  /\ Append(s, e) \in Seq(S)
           /\ Len(Append(s, e)) = Len(s) + 1
           /\ \A i \in 1..Len(s) : Append(s, e)[i] = s[i]
           /\ Append(s, e)[Len(s) + 1] = e
  OBVIOUS

\* The ids of a sequence of requests are those of its elements.
LEMMA IdsMembers ==
    ASSUME NEW S, NEW s \in Seq(S), NEW i
    PROVE  i \in Ids(s) <=> \E j \in 1..Len(s) : s[j].id = i
  BY DEF Ids, Elements

\* The empty sequence has no ids.
LEMMA IdsEmpty == Ids(<<>>) = {}
  BY DEF Ids, Elements

-----------------------------------------------------------------------------
(***************************************************************************)
(* Types.                                                                  *)
(***************************************************************************)

\* The request that Enqueue makes is well formed.
LEMMA NewRequestType ==
    ASSUME TypeOK, issued < MaxRequests, NEW size \in Sizes, NEW shape \in Shapes
    PROVE  NewRequest(size, shape) \in Requests
<1>1. issued + 1 \in 1..MaxRequests
  BY BoundsAssumption DEF TypeOK
<1>2. CASE queue = <<>>
  BY <1>1, <1>2 DEF NewRequest, Requests
<1>3. CASE queue # <<>>
  <2>1. queue[Len(queue)] \in Requests
    BY <1>3 DEF TypeOK
  <2>2. queue[Len(queue)].offset + queue[Len(queue)].size \in Nat
    <3>1. queue[Len(queue)].offset \in Nat /\ queue[Len(queue)].size \in Sizes
      BY <2>1 DEF Requests
    <3>2. queue[Len(queue)].size \in Nat
      BY <3>1, SizesAssumption
    <3>3. QED
      BY <3>1, <3>2
  <2>3. QED
    BY <1>1, <1>3, <2>2 DEF NewRequest, Requests
<1>4. QED
  BY <1>2, <1>3

\* notify_one leaves every runner at a place it can be.
LEMMA WokenType ==
    ASSUME NEW f \in [Runners -> PCs], NEW g \in Woken(f)
    PROVE  g \in [Runners -> PCs]
  BY DEF Woken, PCs

\* Taking requests from the queue keeps the types of what it changes.
LEMMA TakeType ==
    ASSUME TypeOK, NEW r \in Runners, NEW n \in 0..Len(queue), Take(r, n)
    PROVE  /\ queue' \in Seq(Requests)
           /\ batch' \in [Runners -> Seq(Requests)]
           /\ pc' \in [Runners -> PCs]
           /\ aged' \in BOOLEAN
<1>1. Drop(queue, n) \in Seq(Requests)
  BY DropEffect DEF TypeOK
<1>2. SubSeq(queue, 1, n) \in Seq(Requests)
  BY PrefixEffect DEF TypeOK
<1>3. QED
  BY <1>1, <1>2 DEF Take, TypeOK, PCs

\* The initial state is well typed.
LEMMA InitType == Init => TypeOK
<1>1. SUFFICES ASSUME Init PROVE TypeOK
  OBVIOUS
<1>2. queue \in Seq(Requests) /\ batch \in [Runners -> Seq(Requests)]
  BY <1>1 DEF Init
<1>3. pending \in Batches /\ search \in Searches
  BY <1>1 DEF Init, Batches, NoBatch, Searches, NoSearch
<1>4. pc \in [Runners -> PCs] /\ delaying \subseteq Runners
  BY <1>1 DEF Init, PCs
<1>5. issued \in 0..MaxRequests
  BY <1>1, BoundsAssumption DEF Init
<1>6. QED
  BY <1>1, <1>2, <1>3, <1>4, <1>5 DEF Init, TypeOK

\* What a finished search sends has between one request and all of them.
LEMMA SearchedCounts ==
    ASSUME TypeOK, SearchInv, NEW r \in Runners, Searched(r)
    PROVE  /\ search.cnt \in 1..Len(queue)
           /\ search.bestSize # 0 => search.bestCnt \in 1..search.cnt
<1>1. r \in Scanning
  BY DEF Scanning, Searched
<1>2. search.cnt \in Nat /\ Len(queue) \in Nat
  BY DEF TypeOK, Searches
<1>3. queue # <<>> /\ search.cnt <= Len(queue)
  BY <1>1 DEF SearchInv, PrefixOf
<1>4. Len(queue) # 0
  BY <1>3 DEF TypeOK
<1>5. search.cnt > 0
  BY <1>1, <1>2, <1>4 DEF SearchInv, Searched
<1>6. QED
  BY <1>1, <1>2, <1>3, <1>5 DEF SearchInv

\* Every step keeps the types.
LEMMA TypeStep == IInv /\ [Next]_vars => TypeOK'
<1> SUFFICES ASSUME IInv, [Next]_vars PROVE TypeOK'
  OBVIOUS
<1>0. TypeOK /\ SearchInv
  BY DEF IInv
<1> USE <1>0
<1> USE DEF vars, batching, threads
<1>1. ASSUME NEW size \in Sizes, NEW shape \in Shapes, Enqueue(size, shape) PROVE TypeOK'
  <2>1. NewRequest(size, shape) \in Requests
    BY <1>1, NewRequestType DEF Enqueue
  <2>2. queue' \in Seq(Requests)
    BY <1>1, <2>1 DEF Enqueue, TypeOK
  <2>3. issued' \in 0..MaxRequests
    BY <1>1, BoundsAssumption DEF Enqueue, TypeOK
  <2>4. notifying' \in Nat
    BY <1>1 DEF Enqueue, TypeOK, Notifications
  <2>5. QED
    BY <1>1, <2>2, <2>3, <2>4 DEF Enqueue, TypeOK
<1>2. ASSUME Notify PROVE TypeOK'
  <2>1. pc' \in [Runners -> PCs]
    BY <1>2, WokenType DEF Notify, TypeOK
  <2>2. notifying' \in Nat
    BY <1>2 DEF Notify, TypeOK
  <2>3. QED
    BY <1>2, <2>1, <2>2 DEF Notify, TypeOK
<1>3. CASE Age
  BY <1>3 DEF Age, TypeOK
<1>4. ASSUME NEW r \in Runners, Step(r) PROVE TypeOK'
  <2>1. CASE StartRunner(r)
    BY <2>1 DEF StartRunner, TypeOK, PCs
  <2>2. CASE TestExit(r)
    BY <2>2 DEF TestExit, TypeOK, PCs
  <2>3. CASE DelayStart(r)
    BY <2>3 DEF DelayStart, TypeOK, PCs
  <2>4. CASE WaitForWork(r)
    BY <2>4 DEF WaitForWork, TypeOK, PCs
  <2>5. CASE TakeOne(r)
    <3>1. 1 \in 0..Len(queue)
      BY <2>5 DEF TakeOne, TypeOK
    <3>2. QED
      BY <2>5, <3>1, TakeType DEF TakeOne, TypeOK
  <2>6. CASE StartSearch(r)
    BY <2>6 DEF StartSearch, TypeOK, PCs, Searches, NoSearch, Batches
  <2>7. CASE Join(r)
    <3>1. Examined \in Requests
      BY <2>7 DEF Join, TypeOK, Examined, Searches
    <3>9. Examined.size \in Nat
      BY <3>1, SizesAssumption DEF Requests
    <3>2. search.size + Examined.size \in Nat /\ search.cnt + 1 \in Nat
      BY <3>9 DEF TypeOK, Searches
    <3>3. search' \in Searches
      BY <2>7, <3>2 DEF Join, TypeOK, Searches
    <3>4. pending' \in Batches
      BY <2>7, <3>1 DEF Join, TypeOK, Batches, Requests
    <3>5. QED
      BY <2>7, <3>3, <3>4 DEF Join, TypeOK
  <2>8. CASE Block(r)
    BY <2>8 DEF Block, TypeOK, Searches
  <2>9. CASE SendPreferred(r)
    <3>1. search.bestCnt \in 0..Len(queue)
      BY <2>9, SearchedCounts DEF SendPreferred, TypeOK
    <3>2. QED
      BY <2>9, <3>1, TakeType DEF SendPreferred, TypeOK, Forget, NoBatch, NoSearch, Batches, Searches
  <2>10. CASE SendPending(r)
    <3>1. search.cnt \in 0..Len(queue)
      BY <2>10, SearchedCounts DEF SendPending, TypeOK
    <3>2. QED
      BY <2>10, <3>1, TakeType DEF SendPending, TypeOK, Forget, NoBatch, NoSearch, Batches, Searches
  <2>11. CASE Postpone(r)
    BY <2>11 DEF Postpone, TypeOK, PCs, Batches, Searches, NoSearch
  <2>12. CASE Resume(r)
    BY <2>12 DEF Resume, TypeOK, PCs
  <2>13. CASE NotifyAnother(r)
    <3>1. [pc EXCEPT ![r] = "run"] \in [Runners -> PCs]
      BY DEF TypeOK, PCs
    <3>2. pc' \in [Runners -> PCs]
      BY <2>13, <3>1, WokenType DEF NotifyAnother
    <3>3. QED
      BY <2>13, <3>2 DEF NotifyAnother, TypeOK
  <2>14. CASE Run(r)
    <3>9. batch[r] \in Seq(Requests)
      BY DEF TypeOK
    <3>1. ASSUME NEW i \in Ids(batch[r]) PROVE i \in 1..MaxRequests
      <4>1. PICK j \in 1..Len(batch[r]) : batch[r][j].id = i
        BY <3>9, IdsMembers
      <4>2. batch[r][j] \in Requests
        BY <3>9
      <4>3. QED
        BY <4>1, <4>2 DEF Requests
    <3>2. batch' \in [Runners -> Seq(Requests)] /\ pc' \in [Runners -> PCs]
      BY <2>14 DEF Run, TypeOK, PCs
    <3>3. QED
      BY <2>14, <3>1, <3>2 DEF Run, TypeOK
  <2>15. QED
    BY <1>4, <2>1, <2>2, <2>3, <2>4, <2>5, <2>6, <2>7, <2>8, <2>9, <2>10, <2>11, <2>12, <2>13, <2>14 DEF Step
<1>5. ASSUME NEW r \in Runners, WakeUp(r) PROVE TypeOK'
  BY <1>5 DEF WakeUp, TypeOK, PCs
<1>6. CASE Destroy
  BY <1>6 DEF Destroy, TypeOK, PCs
<1>7. CASE UNCHANGED vars
  BY <1>7 DEF TypeOK
<1>8. QED
  BY <1>1, <1>2, <1>3, <1>4, <1>5, <1>6, <1>7 DEF Next, Gone

-----------------------------------------------------------------------------
(***************************************************************************)
(* The inductive invariant, one kind of step at a time.                    *)
(***************************************************************************)
OtherInv == QueueInv /\ BatchInv /\ PendingInv /\ SearchInv

Busy == {"notify", "run"}

\* How a scheduler was set up stays as it is.
LEMMA ModeKept == [Next]_vars => UNCHANGED <<Dynamic, StartDelay>>
<1> SUFFICES ASSUME [Next]_vars PROVE mode' = mode
  BY DEF Dynamic, StartDelay
<1>1. ASSUME NEW r \in Runners, Step(r) PROVE mode' = mode
  BY <1>1 DEF Step, StartRunner, TestExit, DelayStart, WaitForWork, TakeOne, StartSearch, Join, Block,
     SendPreferred, SendPending, Postpone, Resume, NotifyAnother, Run, threads
<1>2. QED
  BY <1>1 DEF Next, Enqueue, Notify, Age, WakeUp, Destroy, Gone, vars, threads

\* The initial state satisfies the invariant.
LEMMA InitInv == Init => IInv
<1> SUFFICES ASSUME Init PROVE IInv
  OBVIOUS
<1>1. TypeOK
  BY InitType
<1>2. QueueInv
  BY DEF Init, QueueInv, Dispatched
<1>3. BatchInv
  BY IdsEmpty DEF Init, BatchInv, BatchOf, Dispatched
<1>4. PendingInv
  BY DEF Init, PendingInv, NoBatch, PrefixOf, NonePreferred, Service!Fit
<1>5. SearchInv
  BY DEF Init, SearchInv, Scanning
<1>6. WakeInv
  BY DEF Init, WakeInv, NoStrandedWork, NoBatch, Waiting, Watchful
<1>7. QED
  BY <1>1, <1>2, <1>3, <1>4, <1>5, <1>6 DEF IInv

\* A step that leaves the queue and the batches alone keeps what is said of them.
LEMMA KeepStep ==
    ASSUME UNCHANGED <<Dynamic, StartDelay>>,
           TypeOK, OtherInv,
           UNCHANGED <<queue, batch, issued, done>>,
           exit' = exit \/ queue = <<>>,
           \A r \in Runners : pc[r] \in Busy => pc'[r] \in Busy
    PROVE  QueueInv' /\ BatchInv'
<1>1. QueueInv'
  BY DEF OtherInv, QueueInv, Dispatched
<1>2. \A r \in Runners : BatchOf(batch[r])'
  BY DEF OtherInv, BatchInv, BatchOf, Dispatched, Service!SizeOf
<1>3. \A r \in Runners : pc'[r] \notin Busy => batch'[r] = <<>>
  BY DEF OtherInv, BatchInv, Busy
<1>4. /\ \A r, q \in Runners : r # q => Ids(batch'[r]) \cap Ids(batch'[q]) = {}
      /\ done' \subseteq 1..Dispatched'
      /\ \A i \in 1..Dispatched' : i \in done' \/ \E r \in Runners : i \in Ids(batch'[r])
  BY DEF OtherInv, BatchInv, Dispatched
<1>5. QED
  BY <1>1, <1>2, <1>3, <1>4 DEF BatchInv, Busy

\* A step that only moves runners about, none of them into or out of the search
\* or an execution.
LEMMA QuietStep ==
    ASSUME UNCHANGED <<Dynamic, StartDelay>>,
           TypeOK, OtherInv,
           UNCHANGED <<queue, pending, search, batch, issued, done>>,
           exit' = exit \/ queue = <<>>,
           \A r \in Runners : pc'[r] = "scan" => pc[r] = "scan",
           \A r \in Runners : pc[r] \in Busy => pc'[r] \in Busy
    PROVE  OtherInv'
<1>1. QueueInv' /\ BatchInv'
  BY KeepStep
<1>2. PendingInv'
  BY DEF OtherInv, PendingInv, PrefixOf, NonePreferred, Service!Fit, Service!SizeOf
<1>3. SearchInv'
  <2>1. Scanning' \subseteq Scanning
    BY DEF Scanning
  <2>2. QED
    BY <2>1 DEF OtherInv, SearchInv, PrefixOf, NonePreferred, Service!Fit, Service!SizeOf
<1>4. QED
  BY <1>1, <1>2, <1>3 DEF OtherInv

\* Enqueue appends the next request; what is dispatched, pending or examined
\* stays as it is.
LEMMA EnqueueStep ==
    ASSUME UNCHANGED <<Dynamic, StartDelay>>,
           TypeOK, OtherInv, NEW size \in Sizes, NEW shape \in Shapes, Enqueue(size, shape)
    PROVE  OtherInv'
<1> DEFINE e == NewRequest(size, shape)
<1>1. e \in Requests
  BY NewRequestType DEF Enqueue
<1>2. queue \in Seq(Requests) /\ queue' = Append(queue, e)
  BY DEF TypeOK, Enqueue
<1>3. /\ Len(queue') = Len(queue) + 1
      /\ \A i \in 1..Len(queue) : queue'[i] = queue[i]
      /\ queue'[Len(queue) + 1] = e
  BY <1>1, <1>2, AppendEffect
<1>4. issued' = issued + 1 /\ issued \in Nat /\ Len(queue) \in Nat
  BY DEF Enqueue, TypeOK
<1>5. Dispatched' = Dispatched
  BY <1>3, <1>4 DEF Dispatched
<1>6. UNCHANGED <<pending, search, batch, pc, done, exit>> /\ exit = FALSE /\ Scanning = {}
  BY DEF Enqueue, batching, Unlocked, TypeOK
<1>7. QueueInv'
  <2>1. Len(queue') <= issued'
    BY <1>3, <1>4 DEF OtherInv, QueueInv
  <2>2. \A i \in 1..Len(queue') : queue'[i].id = Dispatched' + i
    <3>1. e.id = issued + 1
      BY DEF NewRequest
    <3>2. Dispatched + (Len(queue) + 1) = issued + 1
      BY <1>4 DEF Dispatched
    <3>3. \A i \in 1..Len(queue) : queue'[i].id = Dispatched + i
      BY <1>3 DEF OtherInv, QueueInv
    <3>4. queue'[Len(queue) + 1].id = Dispatched + (Len(queue) + 1)
      BY <3>1, <3>2, <1>3
    <3>5. QED
      BY <3>3, <3>4, <1>3, <1>4, <1>5
  <2>3. \A i \in 1..(Len(queue') - 1) : queue'[i + 1].offset = queue'[i].offset + queue'[i].size
    <3>1. Len(queue) > 0 => e.offset = queue[Len(queue)].offset + queue[Len(queue)].size
      BY DEF NewRequest
    <3>2. ASSUME NEW i \in 1..(Len(queue') - 1)
          PROVE  queue'[i + 1].offset = queue'[i].offset + queue'[i].size
      <4>1. CASE i = Len(queue)
        BY <1>3, <1>4, <3>1, <4>1
      <4>2. CASE i # Len(queue)
        <5>1. i \in 1..(Len(queue) - 1) /\ i \in 1..Len(queue) /\ i + 1 \in 1..Len(queue)
          BY <1>3, <1>4, <4>2
        <5>2. queue'[i] = queue[i] /\ queue'[i + 1] = queue[i + 1]
          BY <1>3, <5>1
        <5>3. queue[i + 1].offset = queue[i].offset + queue[i].size
          BY <5>1 DEF OtherInv, QueueInv
        <5>4. QED
          BY <5>2, <5>3
      <4>3. QED
        BY <4>1, <4>2
    <3>3. QED
      BY <3>2
  <2>4. QED
    BY <2>1, <2>2, <2>3, <1>6 DEF QueueInv
<1>8. BatchInv'
  BY <1>5, <1>6 DEF OtherInv, BatchInv, BatchOf, Service!SizeOf
<1>9. PendingInv'
  <2>1. pending.cnt \in Nat /\ pending.cnt <= Len(queue)
    BY DEF TypeOK, Batches, OtherInv, PendingInv, PrefixOf
  <2>2. QED
    BY <2>1, <1>3, <1>4, <1>6 DEF OtherInv, PendingInv, PrefixOf, NonePreferred, Service!Fit, Service!SizeOf
<1>10. SearchInv'
  BY <1>6 DEF SearchInv, Scanning
<1>11. QED
  BY <1>7, <1>8, <1>9, <1>10 DEF OtherInv

\* A runner takes a prefix of the queue that fits one batch.
LEMMA TakeStep ==
    ASSUME UNCHANGED <<Dynamic, StartDelay>>,
           TypeOK, OtherInv, NEW r \in Runners, NEW n \in 1..Len(queue), Take(r, n),
           n > 1 => Dynamic /\ Service!Fit(n), pc[r] \notin Busy, UNCHANGED <<issued, done, exit>>
    PROVE  QueueInv' /\ BatchInv'
<1> DEFINE b == SubSeq(queue, 1, n)
<1>1. queue \in Seq(Requests) /\ n \in 0..Len(queue) /\ Len(queue) \in Nat /\ issued \in Nat
  BY DEF TypeOK
<1>2. /\ Len(queue') = Len(queue) - n
      /\ \A i \in 1..(Len(queue) - n) : queue'[i] = queue[i + n]
  BY <1>1, DropEffect DEF Take
<1>3. b \in Seq(Requests) /\ Len(b) = n /\ \A i \in 1..n : b[i] = queue[i]
  BY <1>1, PrefixEffect
<1>4. batch' = [batch EXCEPT ![r] = b] /\ batch'[r] = b
  BY DEF Take, TypeOK
<1>5. Dispatched' = Dispatched + n /\ Dispatched \in Nat
  BY <1>1, <1>2 DEF Dispatched, OtherInv, QueueInv
<1>6. /\ \A i \in 1..n : b[i].id = Dispatched + i
      /\ Len(queue) <= issued
  BY <1>1, <1>3 DEF OtherInv, QueueInv
<1>7. QueueInv'
  <2>1. Len(queue') <= issued'
    BY <1>1, <1>2, <1>6
  <2>2. \A i \in 1..Len(queue') : queue'[i].id = Dispatched' + i
    <3>1. SUFFICES ASSUME NEW i \in 1..Len(queue') PROVE queue'[i].id = Dispatched' + i
      OBVIOUS
    <3>2. i + n \in 1..Len(queue) /\ queue'[i] = queue[i + n]
      BY <1>1, <1>2
    <3>3. queue[i + n].id = Dispatched + (i + n)
      BY <3>2 DEF OtherInv, QueueInv
    <3>4. QED
      BY <3>2, <3>3, <1>1, <1>2, <1>5
  <2>3. ASSUME NEW i \in 1..(Len(queue') - 1)
        PROVE  queue'[i + 1].offset = queue'[i].offset + queue'[i].size
    <3>1. i + n \in 1..(Len(queue) - 1) /\ queue'[i] = queue[i + n] /\ queue'[i + 1] = queue[(i + n) + 1]
      <4>1. i \in 1..(Len(queue) - n) /\ i + 1 \in 1..(Len(queue) - n) /\ (i + 1) + n = (i + n) + 1
        BY <1>1, <1>2
      <4>2. QED
        BY <4>1, <1>1, <1>2
    <3>2. QED
      BY <3>1 DEF OtherInv, QueueInv
  <2>4. exit' => queue' = <<>>
    <3>1. queue # <<>>
      BY <1>1
    <3>2. QED
      BY <3>1 DEF OtherInv, QueueInv
  <2>5. QED
    BY <2>1, <2>2, <2>3, <2>4 DEF QueueInv
<1>8. \A i \in Ids(b) : i \in (Dispatched + 1)..(Dispatched + n)
  <2>1. SUFFICES ASSUME NEW i \in Ids(b) PROVE i \in (Dispatched + 1)..(Dispatched + n)
    OBVIOUS
  <2>2. PICK j \in 1..Len(b) : b[j].id = i
    BY <1>3, IdsMembers
  <2>3. i = Dispatched + j
    BY <2>2, <1>3, <1>6
  <2>4. QED
    BY <2>2, <2>3, <1>1, <1>3, <1>5
<1>9. \A i \in (Dispatched + 1)..(Dispatched + n) : i \in Ids(b)
  <2>1. SUFFICES ASSUME NEW i \in (Dispatched + 1)..(Dispatched + n) PROVE i \in Ids(b)
    OBVIOUS
  <2>2. i - Dispatched \in 1..n /\ Dispatched + (i - Dispatched) = i
    BY <1>5
  <2>3. b[i - Dispatched].id = i
    BY <2>2, <1>6
  <2>4. QED
    BY <2>2, <2>3, <1>3, IdsMembers
<1>10. ASSUME NEW q \in Runners PROVE \A i \in Ids(batch[q]) : i \in 1..Dispatched
  <2>1. SUFFICES ASSUME NEW i \in Ids(batch[q]) PROVE i \in 1..Dispatched
    OBVIOUS
  <2>2. batch[q] \in Seq(Requests)
    BY DEF TypeOK
  <2>3. PICK j \in 1..Len(batch[q]) : batch[q][j].id = i
    BY <2>2, IdsMembers
  <2>4. batch[q][j] \in Requests
    BY <2>2
  <2>5. batch[q][j].id <= Dispatched
    BY <2>3 DEF OtherInv, BatchInv, BatchOf
  <2>6. QED
    BY <2>3, <2>4, <2>5, <1>5 DEF Requests
<1>11. BatchInv'
  <2>1. ASSUME NEW q \in Runners PROVE BatchOf(batch[q])'
    <3>1. CASE q # r
      <4>1. batch'[q] = batch[q]
        BY <3>1, <1>4 DEF TypeOK
      <4>2. BatchOf(batch[q])
        BY DEF OtherInv, BatchInv
      <4>5. batch[q] \in Seq(Requests)
        BY DEF TypeOK
      <4>6. \A i \in 1..Len(batch[q]) : batch[q][i] \in Requests
        BY <4>5
      <4>3. \A i \in 1..Len(batch[q]) : batch[q][i].id \in Nat
        BY <4>6 DEF Requests
      <4>4. QED
        BY <4>1, <4>2, <4>3, <1>1, <1>5 DEF BatchOf, Service!SizeOf
    <3>2. CASE q = r
      <4>1. \A i \in 1..n : /\ b[i].id = b[1].id + (i - 1)
                            /\ b[i].id <= Dispatched'
                            /\ b[i].id \notin done
        <5>1. b[1].id = Dispatched + 1
          BY <1>1, <1>6
        <5>2. ASSUME NEW i \in 1..n PROVE b[i].id = Dispatched + i
          BY <1>6
        <5>3. \A i \in 1..n : Dispatched + i \notin done
          BY <1>1, <1>5 DEF OtherInv, BatchInv
        <5>4. QED
          BY <5>1, <5>2, <5>3, <1>1, <1>5
      <4>2. n > 1 => /\ Dynamic
                     /\ Service!SizeOf(b, 1, n) <= MaxPreferred
                     /\ NeedShape => \A i \in 1..n : b[i].shape = b[1].shape
        <5>1. SUFFICES ASSUME n > 1
                       PROVE  /\ Dynamic
                              /\ Service!SizeOf(b, 1, n) <= MaxPreferred
                              /\ NeedShape => \A i \in 1..n : b[i].shape = b[1].shape
          OBVIOUS
        <5>2. n \in Nat /\ 1 \in 1..n /\ n \in 2..n /\ b[1] = queue[1] /\ b[n] = queue[n]
          BY <1>1, <1>3, <5>1
        <5>3. Dynamic /\ Service!SizeOf(queue, 1, n) <= MaxPreferred
          BY <5>1, <5>2 DEF Service!Fit
        <5>4. Service!SizeOf(b, 1, n) = Service!SizeOf(queue, 1, n)
          BY <5>2 DEF Service!SizeOf
        <5>5. ASSUME NeedShape, NEW i \in 1..n PROVE b[i].shape = b[1].shape
          <6>1. i = 1 \/ i \in 2..n
            BY <5>2
          <6>2. i \in 2..n => queue[i].shape = queue[1].shape
            BY <5>1, <5>5 DEF Service!Fit
          <6>3. QED
            BY <1>3, <5>2, <6>1, <6>2
        <5>6. QED
          BY <5>3, <5>4, <5>5
      <4>3. QED
        <5>1. batch'[q] = b /\ Len(b) = n /\ done' = done
          BY <3>2, <1>3, <1>4
        <5>2. \A i \in 1..Len(batch'[q]) :
                 /\ batch'[q][i].id = batch'[q][1].id + (i - 1)
                 /\ batch'[q][i].id <= Dispatched'
                 /\ batch'[q][i].id \notin done'
          BY <4>1, <5>1
        <5>3. Len(batch'[q]) > 1 =>
                 /\ Dynamic
                 /\ Service!SizeOf(batch'[q], 1, Len(batch'[q])) <= MaxPreferred
                 /\ NeedShape => \A i \in 1..Len(batch'[q]) : batch'[q][i].shape = batch'[q][1].shape
          BY <4>2, <5>1
        <5>4. QED
          BY <5>2, <5>3 DEF BatchOf, Service!SizeOf
    <3>3. QED
      BY <3>1, <3>2
  <2>2. ASSUME NEW q \in Runners, pc'[q] \notin Busy PROVE batch'[q] = <<>>
    <3>1. q # r
      BY <2>2 DEF Take, TypeOK, Busy
    <3>2. pc'[q] = pc[q] /\ batch'[q] = batch[q]
      BY <3>1 DEF Take, TypeOK
    <3>3. QED
      BY <2>2, <3>2 DEF OtherInv, BatchInv, Busy
  <2>3. ASSUME NEW p \in Runners, NEW q \in Runners, p # q
        PROVE  Ids(batch'[p]) \cap Ids(batch'[q]) = {}
    <3>1. \A x \in Runners : x # r => batch'[x] = batch[x]
      BY <1>4 DEF TypeOK
    <3>2. \A x \in Runners : Ids(batch[x]) \cap Ids(b) = {}
      BY <1>5, <1>8, <1>10
    <3>3. QED
      BY <2>3, <3>1, <3>2, <1>4 DEF OtherInv, BatchInv
  <2>4. done' \subseteq 1..Dispatched'
    BY <1>1, <1>5 DEF OtherInv, BatchInv
  <2>5. ASSUME NEW i \in 1..Dispatched' PROVE i \in done' \/ \E q \in Runners : i \in Ids(batch'[q])
    <3>1. CASE i <= Dispatched
      <4>1. i \in done \/ \E q \in Runners : i \in Ids(batch[q])
        BY <3>1, <1>5 DEF OtherInv, BatchInv
      <4>2. batch[r] = <<>>
        BY DEF OtherInv, BatchInv, Busy
      <4>3. \A x \in Runners : x # r => batch'[x] = batch[x]
        BY <1>4 DEF TypeOK
      <4>4. QED
        BY <4>1, <4>2, <4>3, IdsEmpty
    <3>2. CASE i > Dispatched
      <4>1. i \in (Dispatched + 1)..(Dispatched + n)
        BY <3>2, <1>1, <1>5
      <4>2. i \in Ids(batch'[r])
        BY <4>1, <1>4, <1>9
      <4>3. QED
        BY <4>2
    <3>3. QED
      BY <3>1, <3>2, <1>5
  <2>6. QED
    BY <2>1, <2>2, <2>3, <2>4, <2>5 DEF BatchInv, Busy
<1>12. QED
  BY <1>7, <1>11

\* Completing a batch moves its requests to the completed ones.
LEMMA RunStep ==
    ASSUME UNCHANGED <<Dynamic, StartDelay>>,
           TypeOK, OtherInv, NEW r \in Runners, Run(r)
    PROVE  OtherInv'
<1>1. batch' = [batch EXCEPT ![r] = <<>>] /\ done' = done \cup Ids(batch[r])
  BY DEF Run
<1>2. UNCHANGED <<queue, pending, search, issued, exit>>
  BY DEF Run, batching, threads
<1>3. \A q \in Runners : q # r => batch'[q] = batch[q] /\ pc'[q] = pc[q]
  BY <1>1 DEF Run, TypeOK
<1>4. batch'[r] = <<>> /\ pc'[r] = "test" /\ pc[r] = "run"
  BY <1>1 DEF Run, TypeOK
<1>5. QueueInv' /\ Dispatched' = Dispatched
  BY <1>2 DEF OtherInv, QueueInv, Dispatched
<1>6. BatchInv'
  <2>1. ASSUME NEW q \in Runners PROVE BatchOf(batch[q])'
    <3>1. CASE q = r
      BY <3>1, <1>4 DEF BatchOf
    <3>2. CASE q # r
      <4>1. BatchOf(batch[q]) /\ batch'[q] = batch[q]
        BY <3>2, <1>3 DEF OtherInv, BatchInv
      <4>2. \A i \in 1..Len(batch[q]) : batch[q][i].id \in Ids(batch[q])
        BY IdsMembers DEF TypeOK
      <4>3. \A i \in 1..Len(batch[q]) : batch[q][i].id \notin Ids(batch[r])
        BY <3>2, <4>2 DEF OtherInv, BatchInv
      <4>4. QED
        BY <4>1, <4>3, <1>1, <1>5 DEF BatchOf, Service!SizeOf
    <3>3. QED
      BY <3>1, <3>2
  <2>2. \A q \in Runners : pc'[q] \notin Busy => batch'[q] = <<>>
    BY <1>3, <1>4 DEF OtherInv, BatchInv, Busy
  <2>3. \A p, q \in Runners : p # q => Ids(batch'[p]) \cap Ids(batch'[q]) = {}
    BY <1>3, <1>4, IdsEmpty DEF OtherInv, BatchInv
  <2>4. Ids(batch[r]) \subseteq 1..Dispatched
    <3>1. SUFFICES ASSUME NEW i \in Ids(batch[r]) PROVE i \in 1..Dispatched
      OBVIOUS
    <3>2. batch[r] \in Seq(Requests)
      BY DEF TypeOK
    <3>3. PICK j \in 1..Len(batch[r]) : batch[r][j].id = i
      BY <3>2, IdsMembers
    <3>4. batch[r][j] \in Requests /\ batch[r][j].id <= Dispatched
      BY <3>2, <3>3 DEF OtherInv, BatchInv, BatchOf
    <3>5. QED
      BY <3>3, <3>4 DEF Requests, Dispatched, TypeOK
  <2>5. done' \subseteq 1..Dispatched'
    BY <2>4, <1>1, <1>5 DEF OtherInv, BatchInv
  <2>6. \A i \in 1..Dispatched' : i \in done' \/ \E q \in Runners : i \in Ids(batch'[q])
    BY <1>1, <1>3, <1>5 DEF OtherInv, BatchInv
  <2>7. QED
    BY <2>1, <2>2, <2>3, <2>5, <2>6 DEF BatchInv, Busy
<1>7. PendingInv'
  BY <1>2 DEF OtherInv, PendingInv, PrefixOf, NonePreferred, Service!Fit, Service!SizeOf
<1>8. SearchInv'
  <2>1. Scanning' = Scanning
    BY <1>3, <1>4 DEF Scanning
  <2>2. QED
    BY <2>1, <1>2 DEF OtherInv, SearchInv, PrefixOf, NonePreferred, Service!Fit, Service!SizeOf
<1>9. QED
  BY <1>5, <1>6, <1>7, <1>8 DEF OtherInv

\* A search begins with the pending batch.
LEMMA StartSearchStep ==
    ASSUME UNCHANGED <<Dynamic, StartDelay>>,
           TypeOK, OtherInv, NEW r \in Runners, StartSearch(r)
    PROVE  OtherInv'
<1>1. UNCHANGED <<queue, pending, batch, issued, done, exit>>
  BY DEF StartSearch, threads
<1>2. pc[r] = "lock" /\ Scanning = {} /\ pc' = [pc EXCEPT ![r] = "scan"]
  BY DEF StartSearch, Unlocked
<1>3. QueueInv' /\ BatchInv'
  BY <1>1, <1>2, KeepStep DEF TypeOK, Busy
<1>4. PendingInv'
  BY <1>1 DEF OtherInv, PendingInv, PrefixOf, NonePreferred, Service!Fit, Service!SizeOf
<1>5. SearchInv'
  <2>1. Scanning' = {r}
    BY <1>2 DEF Scanning, TypeOK
  <2>2. search' = [NoSearch EXCEPT !.size = pending.size, !.cnt = pending.cnt] /\ queue # <<>> /\ Dynamic
    BY DEF StartSearch
  <2>3. search'.bestSize = 0 /\ ~search'.sendNow /\ search'.size = pending.size /\ search'.cnt = pending.cnt
    BY <2>2 DEF NoSearch
  <2>4. QED
    BY <2>1, <2>2, <2>3, <1>1 DEF OtherInv, SearchInv, PendingInv, PrefixOf, NonePreferred, Service!Fit, Service!SizeOf
<1>6. QED
  BY <1>3, <1>4, <1>5 DEF OtherInv

\* The fields of a request in the queue are numbers, its size is positive.
LEMMA Queued ==
    ASSUME TypeOK, NEW i \in 1..Len(queue)
    PROVE  /\ queue[i] \in Requests
           /\ queue[i].offset \in Nat
           /\ queue[i].size \in Nat \ {0}
<1>1. queue[i] \in Requests
  BY DEF TypeOK
<1>2. queue[i].size \in Sizes /\ queue[i].offset \in Nat
  BY <1>1 DEF Requests
<1>3. QED
  BY <1>1, <1>2, SizesAssumption

\* One more request in the batch adds its size to that of the prefix.
LEMMA SizeOfNext ==
    ASSUME TypeOK, QueueInv, NEW n \in 1..(Len(queue) - 1)
    PROVE  /\ Service!SizeOf(queue, 1, n + 1) = Service!SizeOf(queue, 1, n) + queue[n + 1].size
           /\ Service!SizeOf(queue, 1, n) \in Int
<1>1. 1 \in 1..Len(queue) /\ n \in 1..Len(queue) /\ n + 1 \in 1..Len(queue)
  BY DEF TypeOK
<1>2. /\ queue[1].offset \in Nat
      /\ queue[n].offset \in Nat /\ queue[n].size \in Nat
      /\ queue[n + 1].size \in Nat
  BY <1>1, Queued
<1>3. queue[n + 1].offset = queue[n].offset + queue[n].size
  BY DEF QueueInv
<1>4. PICK a, d, z, e, y : /\ a = queue[1].offset /\ d = queue[n].offset /\ z = queue[n].size
                           /\ e = queue[n + 1].offset /\ y = queue[n + 1].size
  OBVIOUS
<1>5. a \in Nat /\ d \in Nat /\ z \in Nat /\ y \in Nat /\ e = d + z
  BY <1>2, <1>3, <1>4
<1>6. Service!SizeOf(queue, 1, n) = d + z - a /\ Service!SizeOf(queue, 1, n + 1) = e + y - a
  BY <1>4 DEF Service!SizeOf
<1>7. d + z - a \in Int /\ e + y - a = (d + z - a) + y
  BY <1>5
<1>8. Service!SizeOf(queue, 1, n) \in Int
  BY <1>6, <1>7
<1>9. Service!SizeOf(queue, 1, n + 1) = Service!SizeOf(queue, 1, n) + y
  BY <1>6, <1>7
<1>10. QED
  BY <1>4, <1>8, <1>9

\* The size of the prefix that is the first request alone.
LEMMA SizeOfFirst ==
    ASSUME TypeOK, queue # <<>>
    PROVE  Service!SizeOf(queue, 1, 1) = queue[1].size
<1>1. 1 \in 1..Len(queue)
  BY DEF TypeOK
<1>2. queue[1].offset \in Nat /\ queue[1].size \in Nat
  BY <1>1, Queued
<1>3. QED
  BY <1>2 DEF Service!SizeOf

\* The request examined joins the batch: the prefix grows by one.
LEMMA JoinStep ==
    ASSUME UNCHANGED <<Dynamic, StartDelay>>,
           TypeOK, OtherInv, NEW r \in Runners, Join(r)
    PROVE  OtherInv'
<1> DEFINE n == search.cnt
           size == search.size + Examined.size
<1>1. UNCHANGED <<queue, pc, batch, issued, done, exit>>
  BY DEF Join, threads
<1>2. r \in Scanning /\ ~search.sendNow /\ n < Len(queue) /\ ~Blocks
  BY DEF Join, Scanning
<1>3. n \in Nat /\ Len(queue) \in Nat /\ n + 1 \in 1..Len(queue) /\ queue # <<>>
  BY <1>2 DEF TypeOK, Searches
<1>4. PrefixOf(n, search.size, pending.shape)
  BY <1>2 DEF OtherInv, SearchInv
<1>5. Examined = queue[n + 1]
  BY DEF Examined
<1>6. size = Service!SizeOf(queue, 1, n + 1)
  <2>1. CASE n = 0
    <3>1. queue[1].size \in Nat
      BY <2>1, <1>3, Queued
    <3>2. search.size = 0 /\ n + 1 = 1
      BY <2>1, <1>4 DEF PrefixOf
    <3>3. QED
      BY <3>1, <3>2, <1>3, <1>5, SizeOfFirst
  <2>2. CASE n > 0
    <3>1. n \in 1..(Len(queue) - 1) /\ search.size = Service!SizeOf(queue, 1, n)
      BY <2>2, <1>2, <1>3, <1>4 DEF PrefixOf
    <3>2. QED
      BY <3>1, <1>5, SizeOfNext DEF OtherInv
  <2>3. QED
    BY <2>1, <2>2, <1>3
<1>7. pending'.cnt = pending.cnt /\ pending'.size = pending.size
  BY DEF Join, TypeOK, Batches
<1>8. NeedShape => pending'.shape = queue[1].shape
  <2>1. CASE n = 0
    BY <2>1, <1>5 DEF Join, TypeOK, Batches
  <2>2. CASE n > 0
    BY <2>2, <1>4 DEF Join, PrefixOf
  <2>3. QED
    BY <2>1, <2>2, <1>3
<1>9. Service!Fit(n + 1)
  <2>1. CASE n = 0
    BY <2>1 DEF Service!Fit
  <2>2. CASE n > 0
    <3>1. size <= MaxPreferred
      <4>1. search.size + Examined.size \in Nat
        <5>1. Examined.size \in Nat
          BY <1>3, <1>5, Queued
        <5>2. QED
          BY <5>1 DEF TypeOK, Searches
      <4>2. QED
        BY <4>1, <2>2, <1>2, SizesAssumption DEF Blocks
    <3>2. NeedShape => queue[n + 1].shape = queue[1].shape
      BY <2>2, <1>2, <1>4, <1>5 DEF Blocks, PrefixOf
    <3>3. Service!Fit(n)
      BY <1>4 DEF PrefixOf
    <3>4. QED
      BY <3>1, <3>2, <3>3, <1>3, <1>6 DEF Service!Fit
  <2>3. QED
    BY <2>1, <2>2, <1>3
<1>10. search'.cnt = n + 1 /\ search'.size = size /\ search'.sendNow = FALSE
  BY <1>2 DEF Join, TypeOK, Searches
<1>11. PrefixOf(search.cnt, search.size, pending.shape)'
  BY <1>1, <1>3, <1>6, <1>8, <1>9, <1>10 DEF PrefixOf, Service!Fit, Service!SizeOf
<1>12. size \in Preferred => search'.bestSize = size /\ search'.bestCnt = n + 1 /\ size # 0
  BY PreferredAssumption DEF Join, TypeOK, Searches
<1>13. size \notin Preferred => search'.bestSize = search.bestSize /\ search'.bestCnt = search.bestCnt
  BY DEF Join, TypeOK, Searches
<1>14. /\ search'.bestSize = 0 => NonePreferred(1, n + 1)
       /\ search'.bestSize # 0 =>
             /\ search'.bestCnt \in 1..(n + 1)
             /\ Service!SizeOf(queue, 1, search'.bestCnt) \in Preferred
             /\ NonePreferred(search'.bestCnt + 1, n + 1)
  <2>1. CASE size \in Preferred
    <3>1. NonePreferred((n + 1) + 1, n + 1)
      BY <1>3 DEF NonePreferred
    <3>2. QED
      BY <2>1, <3>1, <1>3, <1>6, <1>12
  <2>2. CASE size \notin Preferred
    <3>1. ASSUME NEW i \in Nat, NonePreferred(i, n) PROVE NonePreferred(i, n + 1)
      BY <3>1, <2>2, <1>3, <1>6 DEF NonePreferred
    <3>2. search.bestCnt + 1 \in Nat
      BY DEF TypeOK, Searches
    <3>3. QED
      BY <2>2, <3>1, <3>2, <1>2, <1>3, <1>13 DEF OtherInv, SearchInv
  <2>3. QED
    BY <2>1, <2>2
<1>15. SearchInv'
  <2>1. Scanning' = Scanning
    BY <1>1 DEF Scanning
  <2>2. Dynamic /\ (\A q \in Scanning : q = r)
    BY <1>2 DEF OtherInv, SearchInv
  <2>3. QED
    BY <2>1, <2>2, <1>1, <1>3, <1>10, <1>11, <1>14 DEF SearchInv, NonePreferred, Service!SizeOf
<1>16. PendingInv'
  BY <1>1, <1>7, <1>8 DEF OtherInv, PendingInv, PrefixOf, NonePreferred, Service!Fit, Service!SizeOf
<1>17. QueueInv' /\ BatchInv'
  BY <1>1, KeepStep
<1>18. QED
  BY <1>15, <1>16, <1>17 DEF OtherInv

\* The request examined ends the search: the prefix cannot grow.
LEMMA BlockStep ==
    ASSUME UNCHANGED <<Dynamic, StartDelay>>,
           TypeOK, OtherInv, NEW r \in Runners, Block(r)
    PROVE  OtherInv'
<1> DEFINE n == search.cnt
<1>1. UNCHANGED <<queue, pending, pc, batch, issued, done, exit>>
  BY DEF Block, threads
<1>2. r \in Scanning /\ n < Len(queue) /\ Blocks
  BY DEF Block, Scanning
<1>3. n \in Nat /\ n > 0 /\ n \in 1..(Len(queue) - 1)
  BY <1>2 DEF TypeOK, Searches, Blocks
<1>4. PrefixOf(n, search.size, pending.shape)
  BY <1>2 DEF OtherInv, SearchInv
<1>5. ~Service!Fit(n + 1)
  <2>1. search.size + Examined.size = Service!SizeOf(queue, 1, n + 1)
    BY <1>3, <1>4, SizeOfNext DEF OtherInv, PrefixOf, Examined
  <2>2. CASE search.size + Examined.size > MaxPreferred
    <3>1. n + 1 \in 1..Len(queue)
      BY <1>3 DEF TypeOK
    <3>2. Service!SizeOf(queue, 1, n + 1) \in Int
      <4>1. queue[n + 1].size \in Nat
        BY <3>1, Queued DEF OtherInv
      <4>2. Service!SizeOf(queue, 1, n + 1) = Service!SizeOf(queue, 1, n) + queue[n + 1].size /\ Service!SizeOf(queue, 1, n) \in Int
        BY <1>3, SizeOfNext DEF OtherInv
      <4>3. QED
        BY <4>1, <4>2
    <3>3. ~(Service!SizeOf(queue, 1, n + 1) <= MaxPreferred)
      BY <3>2, <2>1, <2>2, SizesAssumption
    <3>4. QED
      BY <3>3, <1>3 DEF Service!Fit
  <2>3. CASE NeedShape /\ Examined.shape # pending.shape
    BY <2>3, <1>3, <1>4 DEF Service!Fit, PrefixOf, Examined
  <2>4. QED
    BY <2>2, <2>3, <1>2 DEF Blocks
<1>6. search' = [search EXCEPT !.sendNow = TRUE]
  BY DEF Block
<1>7. SearchInv'
  <2>1. Scanning' = Scanning
    BY <1>1 DEF Scanning
  <2>2. UNCHANGED <<search.cnt, search.size, search.bestSize, search.bestCnt>>
    BY <1>6 DEF TypeOK, Searches
  <2>3. QED
    BY <2>1, <2>2, <1>1, <1>2, <1>3, <1>5 DEF OtherInv, SearchInv, PrefixOf, NonePreferred, Service!Fit, Service!SizeOf
<1>8. PendingInv'
  BY <1>1 DEF OtherInv, PendingInv, PrefixOf, NonePreferred, Service!Fit, Service!SizeOf
<1>9. QueueInv' /\ BatchInv'
  BY <1>1, KeepStep
<1>10. QED
  BY <1>7, <1>8, <1>9 DEF OtherInv

\* A runner that takes requests does not search any more, and nobody else does.
LEMMA TakeEndsSearch ==
    ASSUME TypeOK, OtherInv, NEW r \in Runners, NEW n \in 0..Len(queue), Take(r, n),
           Scanning \subseteq {r}
    PROVE  Scanning' = {}
  BY DEF Take, Scanning, TypeOK

\* A dispatch empties the pending batch.
LEMMA SendStep ==
    ASSUME UNCHANGED <<Dynamic, StartDelay>>,
           TypeOK, OtherInv, NEW r \in Runners, SendPreferred(r) \/ SendPending(r)
    PROVE  OtherInv'
<1>1. Searched(r) /\ r \in Scanning /\ UNCHANGED <<issued, done, exit>> /\ pending' = NoBatch
  BY DEF SendPreferred, SendPending, Searched, Scanning, threads, Forget
<1>2. Dynamic /\ Scanning \subseteq {r} /\ PrefixOf(search.cnt, search.size, pending.shape)
  BY <1>1 DEF OtherInv, SearchInv
<1>3. search.cnt \in 1..Len(queue)
  BY <1>1, SearchedCounts DEF OtherInv
<1>4. PICK n \in 1..search.cnt : Take(r, n)
  <2>1. CASE SendPreferred(r)
    BY <2>1, <1>1, SearchedCounts DEF SendPreferred, OtherInv
  <2>2. CASE SendPending(r)
    BY <2>2, <1>3 DEF SendPending
  <2>3. QED
    BY <2>1, <2>2
<1>5. n \in 1..Len(queue) /\ n \in 0..Len(queue) /\ Len(queue) \in Nat
  BY <1>3, <1>4 DEF TypeOK
<1>6. Service!Fit(n)
  BY <1>2, <1>3 DEF PrefixOf, Service!Fit
<1>7. QueueInv' /\ BatchInv'
  <2>1. pc[r] \notin Busy
    BY <1>1 DEF Scanning, Busy
  <2>2. QED
    BY <2>1, <1>1, <1>2, <1>4, <1>5, <1>6, TakeStep
<1>8. Scanning' = {}
  BY <1>2, <1>4, <1>5, TakeEndsSearch
<1>9. SearchInv'
  BY <1>8 DEF SearchInv
<1>10. PendingInv'
  <2>1. Len(queue') \in Nat
    BY <1>4, <1>5, DropEffect DEF Take, TypeOK
  <2>2. pending'.cnt = 0 /\ pending'.size = 0
    BY <1>1 DEF NoBatch
  <2>3. QED
    BY <2>1, <2>2 DEF PendingInv, PrefixOf, NonePreferred, Service!Fit
<1>11. QED
  BY <1>7, <1>9, <1>10 DEF OtherInv

\* Without batching the pending batch is empty all the time.
LEMMA TakeOneStep ==
    ASSUME UNCHANGED <<Dynamic, StartDelay>>,
           TypeOK, OtherInv, NEW r \in Runners, TakeOne(r)
    PROVE  OtherInv'
<1>1. /\ pc[r] = "lock" /\ Scanning = {} /\ ~Dynamic /\ Take(r, 1) /\ queue # <<>>
      /\ UNCHANGED <<pending, search, issued, done, exit>>
  BY DEF TakeOne, Unlocked, batching, threads
<1>2. 1 \in 1..Len(queue) /\ 1 \in 0..Len(queue)
  BY <1>1 DEF TypeOK
<1>3. QueueInv' /\ BatchInv'
  BY <1>1, <1>2, TakeStep DEF Busy
<1>4. Scanning' = {}
  BY <1>1, <1>2, TakeEndsSearch
<1>5. SearchInv'
  BY <1>4 DEF SearchInv
<1>6. PendingInv'
  <2>1. Len(queue') \in Nat
    BY <1>1, <1>2, DropEffect DEF Take, TypeOK
  <2>2. pending.cnt = 0 /\ pending.size = 0
    BY <1>1 DEF OtherInv, PendingInv, PrefixOf
  <2>3. QED
    BY <2>1, <2>2, <1>1 DEF PendingInv, PrefixOf, NonePreferred, Service!Fit
<1>7. QED
  BY <1>3, <1>5, <1>6 DEF OtherInv

\* What was found without a preferred size becomes the pending batch.
LEMMA PostponeStep ==
    ASSUME UNCHANGED <<Dynamic, StartDelay>>,
           TypeOK, OtherInv, NEW r \in Runners, Postpone(r)
    PROVE  OtherInv'
<1>1. /\ r \in Scanning /\ search.bestSize = 0
      /\ UNCHANGED <<queue, batch, issued, done, exit>>
      /\ pc' = [pc EXCEPT ![r] = "timer"]
      /\ pending' = [pending EXCEPT !.size = search.size, !.cnt = search.cnt]
  BY DEF Postpone, Searched, Scanning, threads
<1>2. QueueInv' /\ BatchInv'
  BY <1>1, KeepStep DEF TypeOK, Scanning, Busy
<1>3. SearchInv'
  <2>1. Scanning \subseteq {r}
    BY <1>1 DEF OtherInv, SearchInv
  <2>2. Scanning' = {}
    BY <2>1, <1>1 DEF Scanning, TypeOK
  <2>3. QED
    BY <2>2 DEF SearchInv
<1>4. PendingInv'
  <2>1. pending'.size = search.size /\ pending'.cnt = search.cnt /\ pending'.shape = pending.shape
    BY <1>1 DEF TypeOK, Batches
  <2>2. Dynamic /\ PrefixOf(search.cnt, search.size, pending.shape) /\ NonePreferred(1, search.cnt)
    BY <1>1 DEF OtherInv, SearchInv
  <2>3. QED
    BY <2>1, <2>2, <1>1 DEF PendingInv, PrefixOf, NonePreferred, Service!Fit, Service!SizeOf
<1>5. QED
  BY <1>2, <1>3, <1>4 DEF OtherInv

\* notify_one moves nobody but a waiting runner.
LEMMA WokenMoves ==
    ASSUME NEW f \in [Runners -> PCs], NEW g \in Woken(f), NEW r \in Runners
    PROVE  g[r] = f[r] \/ (f[r] \in {"idle", "timer"} /\ g[r] = "woken")
  BY DEF Woken

\* Every step keeps the parts of the invariant that are not about wakeups.
LEMMA OtherStep == IInv /\ [Next]_vars => OtherInv'
<1> SUFFICES ASSUME IInv, [Next]_vars PROVE OtherInv'
  OBVIOUS
<1>0. TypeOK /\ OtherInv /\ UNCHANGED <<Dynamic, StartDelay>>
  BY ModeKept DEF IInv, OtherInv
<1> USE <1>0
<1>1. ASSUME NEW size \in Sizes, NEW shape \in Shapes, Enqueue(size, shape) PROVE OtherInv'
  BY <1>1, EnqueueStep
<1>2. CASE Notify
  <2>1. \A r \in Runners : pc'[r] = pc[r] \/ (pc[r] \in {"idle", "timer"} /\ pc'[r] = "woken")
    BY <1>2, WokenMoves DEF Notify, TypeOK
  <2>2. \A r \in Runners : pc[r] \in Busy => pc'[r] \in Busy
    BY <2>1 DEF Busy
  <2>3. \A r \in Runners : pc'[r] = "scan" => pc[r] = "scan"
    BY <2>1
  <2>4. QED
    BY <2>2, <2>3, <1>2, QuietStep DEF Notify, batching, TypeOK
<1>3. CASE Age
  BY <1>3, QuietStep DEF Age, batching, threads, TypeOK
<1>4. ASSUME NEW r \in Runners, Step(r) PROVE OtherInv'
  <2>1. CASE StartRunner(r)
    BY <2>1, QuietStep DEF StartRunner, batching, threads, TypeOK, Busy
  <2>2. CASE TestExit(r)
    BY <2>2, QuietStep DEF TestExit, batching, threads, TypeOK, Busy
  <2>3. CASE DelayStart(r)
    BY <2>3, QuietStep DEF DelayStart, batching, TypeOK, Busy
  <2>4. CASE WaitForWork(r)
    BY <2>4, QuietStep DEF WaitForWork, batching, threads, TypeOK, Busy
  <2>5. CASE TakeOne(r)
    BY <2>5, TakeOneStep
  <2>6. CASE StartSearch(r)
    BY <2>6, StartSearchStep
  <2>7. CASE Join(r)
    BY <2>7, JoinStep
  <2>8. CASE Block(r)
    BY <2>8, BlockStep
  <2>9. CASE SendPreferred(r) \/ SendPending(r)
    BY <2>9, SendStep
  <2>10. CASE Postpone(r)
    BY <2>10, PostponeStep
  <2>11. CASE Resume(r)
    BY <2>11, QuietStep DEF Resume, batching, threads, TypeOK, Busy
  <2>12. CASE NotifyAnother(r)
    <3>1. [pc EXCEPT ![r] = "run"] \in [Runners -> PCs]
      BY DEF TypeOK, PCs
    <3>2. pc[r] = "notify" /\ \A q \in Runners :
              \/ pc'[q] = [pc EXCEPT ![r] = "run"][q]
              \/ [pc EXCEPT ![r] = "run"][q] \in {"idle", "timer"} /\ pc'[q] = "woken"
      BY <2>12, <3>1, WokenMoves DEF NotifyAnother
    <3>3. /\ \A q \in Runners : pc[q] \in Busy => pc'[q] \in Busy
          /\ \A q \in Runners : pc'[q] = "scan" => pc[q] = "scan"
      BY <3>2 DEF TypeOK, Busy
    <3>4. QED
      BY <2>12, <3>3, QuietStep DEF NotifyAnother, batching, threads, TypeOK
  <2>13. CASE Run(r)
    BY <2>13, RunStep
  <2>14. QED
    BY <1>4, <2>1, <2>2, <2>3, <2>4, <2>5, <2>6, <2>7, <2>8, <2>9, <2>10, <2>11, <2>12, <2>13 DEF Step
<1>5. ASSUME NEW r \in Runners, WakeUp(r) PROVE OtherInv'
  BY <1>5, QuietStep DEF WakeUp, Waiting, batching, threads, TypeOK, Busy
<1>6. CASE Destroy
  BY <1>6, QuietStep DEF Destroy, Waiting, batching, TypeOK, Busy
<1>7. CASE UNCHANGED vars
  BY <1>7, QuietStep DEF vars, batching, threads, TypeOK
<1>8. QED
  BY <1>1, <1>2, <1>3, <1>4, <1>5, <1>6, <1>7 DEF Next, Gone

-----------------------------------------------------------------------------
(***************************************************************************)
(* Wakeups.                                                                *)
(***************************************************************************)
\* The wakeups of dynamic batching, those of a pending batch, and the count
\* that stands for them when there is no batching.
DynamicWake ==
    Dynamic /\ queue # <<>> /\ Waiting # {} =>
        notifying > 0 \/ Watchful # {} \/ \E r \in Runners : pc[r] = "notify"

PendingWake == pending.cnt > 0 => Watchful # {}

CountWake ==
    ~Dynamic /\ StartDelay = 0 =>
        /\ delaying = {}
        /\ \A r \in Runners : pc[r] # "timer"
        /\ Waiting # {} => Len(queue) <= notifying + Cardinality(Watchful)

\* There are finitely many runners, so the watchful ones can be counted.
LEMMA WatchfulFinite == IsFiniteSet(Watchful) /\ Cardinality(Watchful) \in Nat
<1>1. Watchful \subseteq Runners
  BY DEF Watchful
<1>2. QED
  BY <1>1, RunnersAssumption, FS_Subset, FS_CardinalityType

\* These three are the wakeup part of the invariant.
LEMMA WakeParts ==
    ASSUME TypeOK
    PROVE  WakeInv <=> DynamicWake /\ PendingWake /\ CountWake
<1>1. WakeInv => DynamicWake /\ PendingWake /\ CountWake
  BY DEF WakeInv, NoStrandedWork, DynamicWake, PendingWake, CountWake
<1>2. ASSUME DynamicWake, PendingWake, CountWake PROVE WakeInv
  <2>1. ASSUME ~Dynamic, StartDelay = 0, queue # <<>>, Waiting # {} PROVE notifying > 0 \/ Watchful # {}
    <3>1. Len(queue) <= notifying + Cardinality(Watchful)
      BY <1>2, <2>1 DEF CountWake
    <3>2. Len(queue) \in Nat /\ Len(queue) # 0 /\ notifying \in Nat
      BY <2>1 DEF TypeOK
    <3>3. notifying > 0 \/ Cardinality(Watchful) # 0
      BY <3>1, <3>2, WatchfulFinite
    <3>4. QED
      BY <3>3, FS_EmptySet
  <2>2. QED
    BY <1>2, <2>1 DEF WakeInv, NoStrandedWork, DynamicWake, PendingWake, CountWake
<1>3. QED
  BY <1>1, <1>2

\* A step after which some runner is watchful cannot strand anything.
LEMMA WatchfulAfter ==
    ASSUME UNCHANGED <<Dynamic, StartDelay>>,
           NEW r \in Runners, pc'[r] \in {"test", "lock", "scan", "timer", "woken"}
    PROVE  DynamicWake' /\ PendingWake'
  BY DEF DynamicWake, PendingWake, Watchful

\* Neither can one that leaves the queue empty.
LEMMA EmptyAfter ==
    ASSUME UNCHANGED <<Dynamic, StartDelay>>,
           TypeOK', OtherInv', queue' = <<>>
    PROVE  DynamicWake' /\ PendingWake'
<1>1. pending'.cnt \in Nat /\ pending'.cnt <= 0
  BY DEF TypeOK, Batches, OtherInv, PendingInv, PrefixOf
<1>2. QED
  BY <1>1 DEF DynamicWake, PendingWake

\* notify_one wakes a runner if one waits, and then leaves it watchful.
LEMMA WokenOne ==
    ASSUME NEW f \in [Runners -> PCs], NEW g \in Woken(f)
    PROVE  \/ /\ g = f
              /\ \A r \in Runners : f[r] \notin {"idle", "timer"}
           \/ \E r \in Runners : f[r] \in {"idle", "timer"} /\ g = [f EXCEPT ![r] = "woken"]
<1> DEFINE waiting == {r \in Runners : f[r] \in {"idle", "timer"}}
<1>1. CASE waiting = {}
  BY <1>1 DEF Woken
<1>2. CASE waiting # {}
  BY <1>2 DEF Woken
<1>3. QED
  BY <1>1, <1>2

\* A step keeps the count if it takes no request, uses up no notification, and
\* adds no waiting and removes no watchful runner.
LEMMA CountKept ==
    ASSUME UNCHANGED <<Dynamic, StartDelay>>,
           TypeOK, CountWake, queue' = queue \/ queue' = <<>>, notifying' = notifying, delaying' = delaying,
           \A r \in Runners : pc'[r] # "timer" \/ pc'[r] = pc[r],
           queue' # <<>> => Watchful \subseteq Watchful' /\ Waiting' \subseteq Waiting
    PROVE  CountWake'
<1>1. SUFFICES ASSUME ~Dynamic, StartDelay = 0 PROVE CountWake'
  BY DEF CountWake
<1>2. ASSUME Waiting' # {} PROVE Len(queue') <= notifying' + Cardinality(Watchful')
  <2>1. IsFiniteSet(Watchful') /\ Cardinality(Watchful') \in Nat
    <3>1. Watchful' \subseteq Runners
      BY DEF Watchful
    <3>2. QED
      BY <3>1, RunnersAssumption, FS_Subset, FS_CardinalityType
  <2>2. CASE queue' = <<>>
    BY <2>1, <2>2 DEF TypeOK
  <2>3. CASE queue' # <<>>
    <3>1. Cardinality(Watchful) <= Cardinality(Watchful')
      BY <2>1, <2>3, FS_Subset
    <3>2. Len(queue) <= notifying + Cardinality(Watchful)
      BY <1>1, <1>2, <2>3 DEF CountWake
    <3>3. QED
      BY <3>1, <3>2, <2>1, <2>3, WatchfulFinite DEF TypeOK
  <2>4. QED
    BY <2>2, <2>3
<1>3. QED
  BY <1>1, <1>2 DEF CountWake

\* A runner on its own that goes from one watchful place to another, or from
\* one that is neither watchful nor waiting, keeps the count.
LEMMA CountMove ==
    ASSUME UNCHANGED <<Dynamic, StartDelay>>,
           TypeOK, CountWake, NEW r \in Runners, NEW p \in PCs \ {"idle", "timer"},
           UNCHANGED <<queue, notifying, delaying>>, pc' = [pc EXCEPT ![r] = p],
           r \in Watchful => p \in {"test", "lock", "scan", "woken"}
    PROVE  CountWake'
<1>1. Watchful \subseteq Watchful' /\ Waiting' \subseteq Waiting
  BY DEF Watchful, Waiting, TypeOK
<1>2. \A q \in Runners : pc'[q] # "timer" \/ pc'[q] = pc[q]
  BY DEF TypeOK
<1>3. QED
  BY <1>1, <1>2, CountKept

\* Enqueue notifies if a runner waits.
LEMMA EnqueueWake ==
    ASSUME UNCHANGED <<Dynamic, StartDelay>>,
           IInv, NEW size \in Sizes, NEW shape \in Shapes, Enqueue(size, shape)
    PROVE  DynamicWake' /\ PendingWake' /\ CountWake'
<1>1. TypeOK /\ DynamicWake /\ PendingWake /\ CountWake
  BY WakeParts DEF IInv
<1>2. UNCHANGED <<pending, pc, delaying>> /\ notifying' = notifying + Notifications /\ notifying \in Nat
  BY <1>1 DEF Enqueue, batching, TypeOK
<1>3. Waiting # {} => notifying' = notifying + 1
  BY <1>2 DEF Notifications, Idle
<1>4. Waiting' = Waiting /\ Watchful' = Watchful
  BY <1>2 DEF Waiting, Watchful
<1>5. DynamicWake' /\ PendingWake'
  BY <1>1, <1>2, <1>3, <1>4 DEF DynamicWake, PendingWake
<1>6. Len(queue') = Len(queue) + 1 /\ Len(queue) \in Nat
  BY <1>1, NewRequestType, AppendEffect DEF Enqueue, TypeOK
<1>7. CountWake'
  <2>1. SUFFICES ASSUME ~Dynamic, StartDelay = 0 PROVE CountWake'
    BY DEF CountWake
  <2>2. Waiting' # {} => Len(queue') <= notifying' + Cardinality(Watchful')
    BY <2>1, <1>1, <1>2, <1>3, <1>4, <1>6, WatchfulFinite DEF CountWake
  <2>3. QED
    BY <2>1, <2>2, <1>1, <1>2 DEF CountWake
<1>8. QED
  BY <1>5, <1>7

\* A notification wakes a waiting runner, which becomes watchful instead.
LEMMA NotifyWake ==
    ASSUME UNCHANGED <<Dynamic, StartDelay>>,
           IInv, Notify
    PROVE  DynamicWake' /\ PendingWake' /\ CountWake'
<1>1. TypeOK /\ DynamicWake /\ PendingWake /\ CountWake
  BY WakeParts DEF IInv
<1>2. UNCHANGED <<queue, pending, delaying>> /\ notifying' = notifying - 1 /\ notifying \in Nat /\ notifying > 0
  BY <1>1 DEF Notify, batching, TypeOK
<1>3. CASE pc' = pc /\ \A r \in Runners : pc[r] \notin {"idle", "timer"}
  <2>1. Waiting' = {} /\ Watchful' = Watchful
    BY <1>3 DEF Waiting, Watchful
  <2>2. QED
    BY <2>1, <1>1, <1>2, <1>3 DEF DynamicWake, PendingWake, CountWake
<1>4. ASSUME NEW r \in Runners, pc[r] \in {"idle", "timer"}, pc' = [pc EXCEPT ![r] = "woken"]
      PROVE  DynamicWake' /\ PendingWake' /\ CountWake'
  <2>1. pc'[r] = "woken"
    BY <1>1, <1>4 DEF TypeOK
  <2>2. DynamicWake' /\ PendingWake'
    BY <2>1, WatchfulAfter
  <2>3. CountWake'
    <3>1. SUFFICES ASSUME ~Dynamic, StartDelay = 0 PROVE CountWake'
      BY DEF CountWake
    <3>2. pc[r] = "idle" /\ r \notin Watchful
      BY <3>1, <1>1, <1>4 DEF CountWake, Watchful
    <3>3. Watchful' = Watchful \cup {r}
      BY <3>2, <2>1, <1>1, <1>4 DEF Watchful, TypeOK
    <3>4. Cardinality(Watchful') = Cardinality(Watchful) + 1
      BY <3>2, <3>3, WatchfulFinite, FS_AddElement
    <3>5. Waiting # {}
      BY <1>4 DEF Waiting
    <3>6. Len(queue) <= notifying + Cardinality(Watchful) /\ Len(queue) \in Nat
      BY <3>1, <3>5, <1>1 DEF CountWake, TypeOK
    <3>7. Len(queue') <= notifying' + Cardinality(Watchful')
      BY <3>4, <3>6, <1>2, WatchfulFinite
    <3>8. \A q \in Runners : pc'[q] # "timer"
      BY <3>1, <1>1, <1>4 DEF CountWake, TypeOK
    <3>9. QED
      BY <3>1, <3>7, <3>8, <1>1, <1>2 DEF CountWake
  <2>4. QED
    BY <2>2, <2>3
<1>5. QED
  BY <1>1, <1>3, <1>4, WokenOne DEF Notify, TypeOK

\* A dispatch notifies if it leaves requests behind while a runner waits.
LEMMA SendWake ==
    ASSUME UNCHANGED <<Dynamic, StartDelay>>,
           IInv, NEW r \in Runners, SendPreferred(r) \/ SendPending(r)
    PROVE  DynamicWake' /\ PendingWake' /\ CountWake'
<1>1. TypeOK /\ SearchInv /\ r \in Scanning
  BY DEF IInv, SendPreferred, SendPending, Searched, Scanning
<1>2. Dynamic
  BY <1>1 DEF SearchInv
<1>3. PICK n \in Nat : Take(r, n)
  BY <1>1 DEF SendPreferred, SendPending, TypeOK, Searches
<1>4. pending'.cnt = 0
  BY DEF SendPreferred, SendPending, Forget, NoBatch
<1>5. DynamicWake'
  <2>1. SUFFICES ASSUME queue' # <<>>, Waiting' # {} PROVE pc'[r] = "notify"
    BY DEF DynamicWake
  <2>2. Waiting' \subseteq Waiting
    BY <1>1, <1>3 DEF Take, Waiting, TypeOK
  <2>3. WakesAnother(queue')
    BY <2>1, <2>2, <1>2 DEF WakesAnother, Idle
  <2>4. QED
    BY <2>3, <1>1, <1>3 DEF Take, TypeOK
<1>6. QED
  BY <1>2, <1>4, <1>5 DEF PendingWake, CountWake

\* Without batching the runner that takes a request was a watchful one.
LEMMA TakeOneWake ==
    ASSUME UNCHANGED <<Dynamic, StartDelay>>,
           IInv, NEW r \in Runners, TakeOne(r)
    PROVE  DynamicWake' /\ PendingWake' /\ CountWake'
<1>1. TypeOK /\ CountWake /\ PendingInv
  BY WakeParts DEF IInv
<1>2. pc[r] = "lock" /\ ~Dynamic /\ Take(r, 1) /\ UNCHANGED <<pending, notifying, delaying>> /\ queue # <<>>
  BY DEF TakeOne, batching, threads
<1>3. DynamicWake' /\ PendingWake'
  BY <1>1, <1>2 DEF DynamicWake, PendingWake, PendingInv
<1>4. pc' = [pc EXCEPT ![r] = "run"]
  BY <1>2 DEF Take, WakesAnother
<1>5. Waiting' = Waiting /\ Watchful' = Watchful \ {r} /\ r \in Watchful
  BY <1>1, <1>2, <1>4 DEF Waiting, Watchful, TypeOK
<1>6. Cardinality(Watchful') = Cardinality(Watchful) - 1
  BY <1>5, WatchfulFinite, FS_RemoveElement
<1>7. Len(queue') = Len(queue) - 1 /\ Len(queue) \in Nat
  <2>1. 1 \in 0..Len(queue) /\ Len(queue) \in Nat
    BY <1>1, <1>2 DEF TypeOK
  <2>2. QED
    BY <2>1, <1>1, <1>2, DropEffect DEF Take, TypeOK
<1>8. \A q \in Runners : pc[q] # "timer" => pc'[q] # "timer"
  BY <1>1, <1>4 DEF TypeOK
<1>9. CountWake'
  <2>1. SUFFICES ASSUME StartDelay = 0 PROVE CountWake'
    BY DEF CountWake
  <2>2. Waiting' # {} => Len(queue') <= notifying' + Cardinality(Watchful')
    BY <2>1, <1>1, <1>2, <1>5, <1>6, <1>7, WatchfulFinite DEF CountWake, TypeOK
  <2>3. QED
    BY <2>1, <2>2, <1>1, <1>2, <1>8 DEF CountWake
<1>10. QED
  BY <1>3, <1>9

\* The notification after a dispatch.
LEMMA NotifyAnotherWake ==
    ASSUME UNCHANGED <<Dynamic, StartDelay>>,
           IInv, NEW r \in Runners, NotifyAnother(r)
    PROVE  DynamicWake' /\ PendingWake' /\ CountWake'
<1> DEFINE f == [pc EXCEPT ![r] = "run"]
<1>1. TypeOK /\ DynamicWake /\ PendingWake /\ CountWake
  BY WakeParts DEF IInv
<1>2. UNCHANGED <<queue, pending, notifying, delaying>> /\ pc[r] = "notify" /\ pc' \in Woken(f)
  BY DEF NotifyAnother, batching, threads
<1>3. f \in [Runners -> PCs]
  BY <1>1 DEF TypeOK, PCs
<1>4. CASE pc' = f /\ \A q \in Runners : f[q] \notin {"idle", "timer"}
  <2>1. Waiting' = {} /\ Watchful' = Watchful
    BY <1>1, <1>2, <1>4 DEF Waiting, Watchful, TypeOK
  <2>2. \A q \in Runners : pc'[q] # "timer" \/ pc'[q] = pc[q]
    BY <1>1, <1>4 DEF TypeOK
  <2>3. CountWake'
    BY <2>1, <2>2, <1>1, <1>2, CountKept
  <2>4. QED
    BY <2>1, <2>3, <1>1, <1>2 DEF DynamicWake, PendingWake
<1>5. ASSUME NEW q \in Runners, f[q] \in {"idle", "timer"}, pc' = [f EXCEPT ![q] = "woken"]
      PROVE  DynamicWake' /\ PendingWake' /\ CountWake'
  <2>1. pc'[q] = "woken" /\ q # r
    BY <1>1, <1>3, <1>5 DEF TypeOK
  <2>2. Watchful \subseteq Watchful' /\ Waiting' \subseteq Waiting
    BY <2>1, <1>1, <1>2, <1>5 DEF Waiting, Watchful, TypeOK
  <2>3. \A x \in Runners : pc'[x] # "timer" \/ pc'[x] = pc[x]
    BY <1>1, <1>2, <1>5 DEF TypeOK
  <2>4. CountWake'
    BY <2>2, <2>3, <1>1, <1>2, CountKept
  <2>5. QED
    BY <2>1, <2>4, WatchfulAfter
<1>6. QED
  BY <1>2, <1>3, <1>4, <1>5, WokenOne

\* Every step keeps the wakeup part of the invariant.
LEMMA WakeStep == IInv /\ [Next]_vars => WakeInv'
<1> SUFFICES ASSUME IInv, [Next]_vars PROVE WakeInv'
  OBVIOUS
<1>0. UNCHANGED <<Dynamic, StartDelay>>
  BY ModeKept
<1> USE <1>0
<1>1. TypeOK' /\ OtherInv'
  BY TypeStep, OtherStep
<1>2. SUFFICES DynamicWake' /\ PendingWake' /\ CountWake'
  <2>1. NoStrandedWork' /\ CountWake' => WakeInv'
    BY DEF WakeInv, CountWake
  <2>2. ASSUME ~Dynamic, StartDelay = 0, queue' # <<>>, Waiting' # {}, CountWake'
        PROVE  notifying' > 0 \/ Watchful' # {}
    <3>1. Len(queue') <= notifying' + Cardinality(Watchful')
      BY <2>2 DEF CountWake
    <3>2. Len(queue') \in Nat /\ Len(queue') # 0 /\ notifying' \in Nat
      BY <1>1, <2>2 DEF TypeOK
    <3>3. Watchful' = {} => Cardinality(Watchful') = 0
      BY FS_EmptySet
    <3>4. QED
      BY <3>1, <3>2, <3>3
  <2>3. QED
    BY <2>1, <2>2 DEF NoStrandedWork, DynamicWake, PendingWake, CountWake
<1>3. TypeOK /\ OtherInv /\ DynamicWake /\ PendingWake /\ CountWake
  BY WakeParts DEF IInv, OtherInv
<1>4. ASSUME NEW r \in Runners, Step(r) PROVE DynamicWake' /\ PendingWake' /\ CountWake'
  <2>1. CASE StartRunner(r)
    <3>1. PICK p \in {"test", "failed"} : pc' = [pc EXCEPT ![r] = p]
      BY <2>1 DEF StartRunner
    <3>2. pc[r] = "init" /\ UNCHANGED <<queue, pending, notifying, delaying>>
      BY <2>1 DEF StartRunner, batching, threads
    <3>3. r \notin Watchful /\ p \in PCs \ {"idle", "timer"}
      BY <3>2 DEF Watchful, PCs
    <3>4. CountWake'
      BY <3>1, <3>2, <3>3, <1>3, CountMove
    <3>5. Waiting' = Waiting /\ Watchful \subseteq Watchful'
      BY <3>1, <3>2, <1>3 DEF Waiting, Watchful, TypeOK
    <3>6. \A q \in Runners : pc[q] = "notify" => pc'[q] = "notify"
      BY <3>1, <3>2, <1>3 DEF TypeOK
    <3>7. QED
      BY <3>2, <3>4, <3>5, <3>6, <1>3 DEF DynamicWake, PendingWake
  <2>2. CASE TestExit(r)
    <3>1. pc[r] = "test" /\ UNCHANGED <<queue, pending, notifying, delaying>>
      BY <2>2 DEF TestExit, batching, threads
    <3>2. CASE exit
      <4>1. queue' = <<>>
        BY <3>1, <3>2, <1>3 DEF OtherInv, QueueInv
      <4>2. \A q \in Runners : pc'[q] # "timer" \/ pc'[q] = pc[q]
        BY <2>2, <1>3 DEF TestExit, TypeOK
      <4>3. QED
        BY <4>1, <4>2, <3>1, <1>1, <1>3, EmptyAfter, CountKept
    <3>3. CASE ~exit
      <4>1. pc' = [pc EXCEPT ![r] = "lock"] /\ "lock" \in PCs \ {"idle", "timer"}
        BY <2>2, <3>3 DEF TestExit, PCs
      <4>2. pc'[r] = "lock"
        BY <4>1, <1>3 DEF TypeOK
      <4>3. QED
        BY <4>1, <4>2, <3>1, <1>3, WatchfulAfter, CountMove
    <3>4. QED
      BY <3>2, <3>3
  <2>3. CASE DelayStart(r)
    <3>1. pc'[r] = "timer"
      BY <2>3, <1>3 DEF DelayStart, TypeOK
    <3>2. ~Dynamic /\ StartDelay = 0 => FALSE
      BY <2>3, <1>3 DEF DelayStart, CountWake
    <3>3. QED
      BY <3>1, <3>2, WatchfulAfter DEF CountWake
  <2>4. CASE WaitForWork(r)
    <3>1. queue' = <<>> /\ notifying' = notifying /\ delaying' = delaying
      BY <2>4 DEF WaitForWork, threads
    <3>2. \A q \in Runners : pc'[q] # "timer" \/ pc'[q] = pc[q]
      BY <2>4, <1>3 DEF WaitForWork, TypeOK
    <3>3. QED
      BY <3>1, <3>2, <1>1, <1>3, EmptyAfter, CountKept
  <2>5. CASE TakeOne(r)
    BY <2>5, TakeOneWake
  <2>6. CASE StartSearch(r)
    BY <2>6, <1>3, WatchfulAfter DEF StartSearch, CountWake, TypeOK
  <2>7. CASE Join(r) \/ Block(r)
    <3>1. pc'[r] = "scan" /\ r \in Scanning
      BY <2>7 DEF Join, Block, Scanning
    <3>2. Dynamic
      BY <3>1, <1>3 DEF OtherInv, SearchInv
    <3>3. QED
      BY <3>1, <3>2, WatchfulAfter DEF CountWake
  <2>8. CASE SendPreferred(r) \/ SendPending(r)
    BY <2>8, SendWake
  <2>9. CASE Postpone(r)
    <3>1. pc'[r] = "timer" /\ r \in Scanning
      BY <2>9, <1>3 DEF Postpone, Searched, Scanning, TypeOK
    <3>2. Dynamic
      BY <3>1, <1>3 DEF OtherInv, SearchInv
    <3>3. QED
      BY <3>1, <3>2, WatchfulAfter DEF CountWake
  <2>10. CASE Resume(r) \/ Run(r)
    <3>1. UNCHANGED <<queue, notifying, delaying>> /\ pc' = [pc EXCEPT ![r] = "test"]
      BY <2>10 DEF Resume, Run, threads
    <3>2. pc'[r] = "test" /\ "test" \in PCs \ {"idle", "timer"}
      BY <3>1, <1>3 DEF TypeOK, PCs
    <3>3. QED
      BY <3>1, <3>2, <1>3, WatchfulAfter, CountMove
  <2>11. CASE NotifyAnother(r)
    BY <2>11, NotifyAnotherWake
  <2>12. QED
    BY <1>4, <2>1, <2>2, <2>3, <2>4, <2>5, <2>6, <2>7, <2>8, <2>9, <2>10, <2>11 DEF Step
<1>5. ASSUME NEW r \in Runners, WakeUp(r) PROVE DynamicWake' /\ PendingWake' /\ CountWake'
  <2>1. UNCHANGED <<queue, notifying, delaying>> /\ pc' = [pc EXCEPT ![r] = "woken"]
    BY <1>5 DEF WakeUp, threads
  <2>2. pc'[r] = "woken" /\ "woken" \in PCs \ {"idle", "timer"}
    BY <2>1, <1>3 DEF TypeOK, PCs
  <2>3. QED
    BY <2>1, <2>2, <1>3, WatchfulAfter, CountMove
<1>6. CASE Destroy
  <2>1. queue' = <<>> /\ notifying' = notifying /\ delaying' = delaying
    BY <1>6 DEF Destroy
  <2>2. \A q \in Runners : pc'[q] # "timer" \/ pc'[q] = pc[q]
    BY <1>6 DEF Destroy
  <2>3. QED
    BY <2>1, <2>2, <1>1, <1>3, EmptyAfter, CountKept
<1>7. CASE Age \/ UNCHANGED vars
  <2>1. UNCHANGED <<queue, pending, pc, notifying, delaying>>
    BY <1>7 DEF Age, vars, batching, threads
  <2>2. QED
    BY <2>1, <1>3 DEF DynamicWake, PendingWake, CountWake, Waiting, Watchful
<1>8. QED
  BY <1>4, <1>5, <1>6, <1>7, EnqueueWake, NotifyWake DEF Next, Gone

-----------------------------------------------------------------------------
(***************************************************************************)
(* The theorems.                                                           *)
(***************************************************************************)
\* IInv holds in every reachable state: every step of the callers, the runners
\* and the destructor preserves it.
THEOREM Invariance == Spec => []IInv
<1>1. Init => IInv
  BY InitInv
<1>2. IInv /\ [Next]_vars => IInv'
  BY TypeStep, OtherStep, WakeStep DEF IInv, OtherInv
<1>3. QED
  BY <1>1, <1>2, PTL DEF Spec

\* Every variable of the scheduler has its type in every reachable state.
THEOREM TypeCorrect == Spec => []TypeOK
<1>1. IInv => TypeOK
  BY DEF IInv
<1>2. QED
  BY <1>1, Invariance, PTL

\* A request enqueued is in the queue, in one batch, or completed: never lost,
\* never executed twice, whatever the runners do.
THEOREM ExactlyOnce == Spec => []OncePerRequest
<1>1. IInv => OncePerRequest
  <2> SUFFICES ASSUME IInv PROVE OncePerRequest
    OBVIOUS
  <2>1. TypeOK /\ QueueInv /\ BatchInv
    BY DEF IInv
  <2>2. queue \in Seq(Requests) /\ Len(queue) \in Nat /\ issued \in Nat /\ Dispatched \in Nat
    BY <2>1 DEF TypeOK, QueueInv, Dispatched
  <2>3. \A i \in 1..Len(queue) : queue[i].id = Dispatched + i
    BY <2>1 DEF QueueInv
  <2>4. \A i \in Ids(queue) : i \in (Dispatched + 1)..issued
    <3>1. SUFFICES ASSUME NEW i \in Ids(queue) PROVE i \in (Dispatched + 1)..issued
      OBVIOUS
    <3>2. PICK j \in 1..Len(queue) : queue[j].id = i
      BY <2>2, IdsMembers
    <3>3. QED
      BY <3>2, <2>2, <2>3 DEF Dispatched
  <2>5. \A i \in (Dispatched + 1)..issued : i \in Ids(queue)
    <3>1. SUFFICES ASSUME NEW i \in (Dispatched + 1)..issued PROVE i \in Ids(queue)
      OBVIOUS
    <3>2. i - Dispatched \in 1..Len(queue) /\ Dispatched + (i - Dispatched) = i
      BY <2>2 DEF Dispatched
    <3>3. queue[i - Dispatched].id = i
      BY <3>2, <2>3
    <3>4. QED
      BY <3>2, <3>3, <2>2, IdsMembers
  <2>6. ASSUME NEW r \in Runners PROVE \A i \in Ids(batch[r]) : i \in 1..Dispatched /\ i \notin done
    <3>1. SUFFICES ASSUME NEW i \in Ids(batch[r]) PROVE i \in 1..Dispatched /\ i \notin done
      OBVIOUS
    <3>2. batch[r] \in Seq(Requests)
      BY <2>1 DEF TypeOK
    <3>3. PICK j \in 1..Len(batch[r]) : batch[r][j].id = i
      BY <3>2, IdsMembers
    <3>4. batch[r][j] \in Requests
      BY <3>2
    <3>5. QED
      BY <3>3, <3>4, <2>1, <2>2 DEF Requests, BatchInv, BatchOf
  <2>7. done \subseteq 1..Dispatched /\ \A i \in 1..Dispatched : i \in done \/ \E r \in Runners : i \in Ids(batch[r])
    BY <2>1 DEF BatchInv
  <2>8. Ids(queue) \cup (UNION {Ids(batch[r]) : r \in Runners}) \cup done = 1..issued
    <3>1. \A i \in 1..issued : i \in 1..Dispatched \/ i \in (Dispatched + 1)..issued
      BY <2>2
    <3>2. \A i \in 1..Dispatched : i \in 1..issued
      BY <2>2 DEF Dispatched
    <3>3. \A i \in (Dispatched + 1)..issued : i \in 1..issued
      BY <2>2
    <3>4. QED
      BY <3>1, <3>2, <3>3, <2>4, <2>5, <2>6, <2>7
  <2>9. ASSUME NEW i \in DOMAIN queue, NEW j \in DOMAIN queue, queue[i].id = queue[j].id PROVE i = j
    BY <2>9, <2>2, <2>3
  <2>10. \A i \in 1..Dispatched : i \notin (Dispatched + 1)..issued
    BY <2>2
  <2>11. ASSUME NEW r \in Runners, NEW i \in DOMAIN batch[r], NEW j \in DOMAIN batch[r],
                batch[r][i].id = batch[r][j].id
         PROVE  i = j
    <3>1. batch[r] \in Seq(Requests) /\ i \in 1..Len(batch[r]) /\ j \in 1..Len(batch[r])
      BY <2>1 DEF TypeOK
    <3>2. 1 \in 1..Len(batch[r])
      BY <3>1
    <3>6. batch[r][1] \in Requests
      BY <3>1, <3>2
    <3>3. batch[r][1].id \in Nat
      BY <3>6 DEF Requests
    <3>4. batch[r][i].id = batch[r][1].id + (i - 1) /\ batch[r][j].id = batch[r][1].id + (j - 1)
      BY <3>1, <2>1 DEF BatchInv, BatchOf
    <3>5. QED
      BY <3>1, <3>3, <3>4, <2>11
  <2>12. ASSUME NEW r \in Runners PROVE Ids(batch[r]) \cap (Ids(queue) \cup done) = {}
    BY <2>4, <2>6, <2>10
  <2>13. \A r, q \in Runners : q # r => Ids(batch[q]) \cap Ids(batch[r]) = {}
    BY <2>1 DEF BatchInv
  <2>14. Ids(queue) \cap done = {}
    BY <2>4, <2>7, <2>10
  <2>15. QED
    BY <2>8, <2>9, <2>11, <2>12, <2>13, <2>14 DEF OncePerRequest
<1>2. QED
  BY <1>1, Invariance, PTL

\* A batch is made of consecutive requests of one shape and is not too large.
THEOREM BatchesFit == Spec => []BatchFits
<1>1. IInv => BatchFits
  <2> SUFFICES ASSUME IInv, NEW r \in Runners, Len(batch[r]) > 1
               PROVE  /\ Dynamic
                      /\ Service!SizeOf(batch[r], 1, Len(batch[r])) <= MaxPreferred
                      /\ \A i \in 2..Len(batch[r]) : batch[r][i].id = batch[r][1].id + i - 1
                      /\ NeedShape => \A i \in 2..Len(batch[r]) : batch[r][i].shape = batch[r][1].shape
    BY DEF BatchFits
  <2>1. BatchOf(batch[r]) /\ batch[r] \in Seq(Requests)
    BY DEF IInv, BatchInv, TypeOK
  <2>2. \A i \in 2..Len(batch[r]) : i \in 1..Len(batch[r])
    BY <2>1
  <2>3. batch[r][1].id \in Nat
    <3>1. 1 \in 1..Len(batch[r])
      BY <2>1
    <3>2. batch[r][1] \in Requests
      BY <3>1, <2>1
    <3>3. QED
      BY <3>2 DEF Requests
  <2>4. \A i \in 2..Len(batch[r]) : batch[r][1].id + (i - 1) = batch[r][1].id + i - 1
    BY <2>3
  <2>5. QED
    BY <2>1, <2>2, <2>4 DEF BatchOf
<1>2. QED
  BY <1>1, Invariance, PTL

\* Requests are never stranded: while they are queued and a runner waits, some
\* runner will look at them without waiting for the default timeout.
THEOREM NoneStranded == Spec => []NoStrandedWork
<1>1. IInv => NoStrandedWork
  BY DEF IInv, WakeInv
<1>2. QED
  BY <1>1, Invariance, PTL

\* Where a finished search stopped is where the requests that fit one batch end.
LEMMA FittingFound ==
    ASSUME TypeOK, SearchInv, NEW r \in Runners, Searched(r)
    PROVE  Service!Fitting = search.cnt
<1> DEFINE n == search.cnt
           Ends(m) == Service!Fit(m) /\ (m = Len(queue) \/ ~Service!Fit(m + 1))
<1>1. r \in Scanning /\ n \in 1..Len(queue) /\ Len(queue) \in Nat
  BY SearchedCounts DEF Searched, Scanning, TypeOK
<1>2. Service!Fit(n)
  BY <1>1 DEF SearchInv, PrefixOf
<1>3. Ends(n)
  BY <1>1, <1>2 DEF Searched, SearchInv
<1>4. ASSUME NEW m \in 1..Len(queue), Ends(m) PROVE m = n
  <2>1. ASSUME NEW i \in 1..Len(queue), NEW j \in 1..Len(queue), Service!Fit(j), i < j PROVE Service!Fit(i + 1)
    BY <2>1, <1>1 DEF Service!Fit
  <2>2. CASE m < n
    BY <2>1, <2>2, <1>1, <1>2, <1>4
  <2>3. CASE n < m
    BY <2>1, <2>3, <1>1, <1>3, <1>4
  <2>4. QED
    BY <2>2, <2>3, <1>1
<1>5. Service!Fitting = CHOOSE m \in 1..Len(queue) : Ends(m)
  BY DEF Service!Fitting
<1>6. QED
  BY <1>1, <1>3, <1>4, <1>5

\* A finished search decides what a search of the whole queue decides.
LEMMA SearchDecides ==
    ASSUME TypeOK, SearchInv, NEW r \in Runners, Searched(r)
    PROVE  Service!Chosen = IF search.bestSize # 0 THEN search.bestCnt
                    ELSE IF Sendable THEN search.cnt ELSE 0
<1> DEFINE n == search.cnt
<1>1. r \in Scanning /\ n \in 1..Len(queue) /\ Len(queue) \in Nat /\ Service!Fitting = n
  BY SearchedCounts, FittingFound DEF Searched, Scanning, TypeOK
<1>2. Service!PreferredCounts = {m \in 1..n : Service!SizeOf(queue, 1, m) \in Preferred}
  BY <1>1 DEF Service!PreferredCounts
<1>3. CASE search.bestSize # 0
  <2> DEFINE k == search.bestCnt
  <2>1. /\ k \in 1..n
        /\ Service!SizeOf(queue, 1, k) \in Preferred
        /\ \A m \in (k + 1)..n : Service!SizeOf(queue, 1, m) \notin Preferred
    BY <1>1, <1>3 DEF SearchInv, NonePreferred
  <2>2. k \in Service!PreferredCounts /\ \A m \in Service!PreferredCounts : m <= k
    BY <2>1, <1>1, <1>2
  <2>3. ASSUME NEW m \in Service!PreferredCounts, \A l \in Service!PreferredCounts : l <= m PROVE m = k
    <3>1. m <= k /\ k <= m /\ m \in Int /\ k \in Int
      BY <2>1, <2>2, <2>3, <1>1, <1>2
    <3>2. QED
      BY <3>1
  <2>4. (CHOOSE m \in Service!PreferredCounts : \A l \in Service!PreferredCounts : l <= m) = k
    BY <2>2, <2>3
  <2>5. QED
    BY <2>2, <2>4, <1>3 DEF Service!Chosen
<1>4. CASE search.bestSize = 0
  <2>1. Service!PreferredCounts = {}
    BY <1>1, <1>2, <1>4 DEF SearchInv, NonePreferred
  <2>2. search.size = Service!SizeOf(queue, 1, n)
    BY <1>1 DEF SearchInv, PrefixOf
  <2>3. search.sendNow <=> n < Len(queue)
    BY <1>1 DEF SearchInv, Searched, TypeOK, Searches
  <2>4. Service!Full \/ ~Delay \/ aged <=> Sendable
    BY <2>2, <2>3, <1>1 DEF Service!Full, Sendable
  <2>5. QED
    BY <2>1, <2>4, <1>1, <1>4 DEF Service!Chosen
<1>5. QED
  BY <1>3, <1>4

\* GetDynamicBatch resumes at the pending batch, which earlier calls, by other
\* runners, left behind: it decides as if it had searched the whole queue.
THEOREM DecidesFresh == Spec => FreshDecision
<1>1. IInv /\ [Next]_vars => [\A r \in Runners : DecidesAfresh(r)]_vars
  <2> SUFFICES ASSUME IInv, [Next]_vars, NEW r \in Runners, pc[r] = "scan", pc'[r] # "scan"
               PROVE  batch'[r] = SubSeq(queue, 1, Service!Chosen)
    BY DEF DecidesAfresh
  <2>1. TypeOK /\ SearchInv /\ BatchInv
    BY DEF IInv
  <2>2. Scanning = {r}
    BY <2>1 DEF SearchInv, Scanning
  <2>3. CASE SendPreferred(r) \/ SendPending(r)
    <3>1. Searched(r) /\ Take(r, Service!Chosen)
      BY <2>1, <2>3, SearchDecides DEF SendPreferred, SendPending
    <3>2. QED
      BY <3>1, <2>1 DEF Take, TypeOK
  <2>4. CASE Postpone(r)
    <3>1. Searched(r) /\ Service!Chosen = 0
      BY <2>1, <2>4, SearchDecides DEF Postpone
    <3>2. batch'[r] = <<>>
      BY <2>1, <2>4 DEF Postpone, BatchInv, TypeOK
    <3>3. SubSeq(queue, 1, 0) = <<>>
      <4>1. 0 \in 0..Len(queue) /\ queue \in Seq(Requests)
        BY <2>1 DEF TypeOK
      <4>2. Len(SubSeq(queue, 1, 0)) = 0 /\ SubSeq(queue, 1, 0) \in Seq(Requests)
        BY <4>1, PrefixEffect
      <4>3. QED
        BY <4>2
    <3>4. QED
      BY <3>1, <3>2, <3>3
  <2>5. ASSUME NEW q \in Runners, Step(q) PROVE SendPreferred(r) \/ SendPending(r) \/ Postpone(r)
    <3>1. CASE q = r
      BY <3>1, <2>1, <2>5
      DEF Step, StartRunner, TestExit, DelayStart, WaitForWork, TakeOne, StartSearch, Join, Block,
          Resume, NotifyAnother, Run
    <3>2. CASE q # r
      <4>1. CASE NotifyAnother(q)
        <5>1. [pc EXCEPT ![q] = "run"] \in [Runners -> PCs]
          BY <2>1 DEF TypeOK, PCs
        <5>2. [pc EXCEPT ![q] = "run"][r] = "scan"
          BY <3>2, <2>1 DEF TypeOK
        <5>3. QED
          BY <4>1, <5>1, <5>2, WokenMoves DEF NotifyAnother
      <4>2. CASE TakeOne(q) \/ SendPreferred(q) \/ SendPending(q)
        <5>1. q \notin Scanning /\ Scanning # {}
          BY <2>2, <3>2
        <5>2. QED
          BY <5>1, <4>2 DEF TakeOne, SendPreferred, SendPending, Searched, Unlocked, Scanning
      <4>3. QED
        BY <4>1, <4>2, <3>2, <2>1, <2>5
        DEF Step, StartRunner, TestExit, DelayStart, WaitForWork, StartSearch, Join, Block, Postpone,
            Resume, Run, TypeOK
    <3>3. QED
      BY <3>1, <3>2
  <2>6. ~Notify
    BY <2>1, WokenMoves DEF Notify, TypeOK
  <2>7. ASSUME NEW q \in Runners PROVE ~WakeUp(q)
    BY <2>1 DEF WakeUp, Waiting, TypeOK
  <2>8. ~Destroy /\ ~Age /\ ~UNCHANGED vars
    BY <2>2 DEF Destroy, Unlocked, Age, vars
  <2>9. ASSUME NEW size \in Sizes, NEW shape \in Shapes PROVE ~Enqueue(size, shape)
    BY DEF Enqueue
  <2>10. QED
    BY <2>3, <2>4, <2>5, <2>6, <2>7, <2>8, <2>9 DEF Next, Gone
<1>2. QED
  BY <1>1, Invariance, PTL DEF Spec, FreshDecision

-----------------------------------------------------------------------------
(***************************************************************************)
(* The refinement of BatchService, step by step.                           *)
(***************************************************************************)
\* What the service is seen to do when none of its variables changes.
LEMMA Unseen ==
    ASSUME UNCHANGED <<queue, aged, batch, issued, done, exit, mode>>
    PROVE  UNCHANGED Service!vars
BY DEF Service!vars, Dynamic

\* A scheduler starts as the service does.
LEMMA InitMaps == Init => Service!Init
<1> SUFFICES ASSUME Init PROVE Service!Init
  OBVIOUS
<1>1. Dynamic \in BOOLEAN
  BY ModesAssumption DEF Init, Dynamic
<1>2. QED
  BY <1>1 DEF Init, Service!Init

\* The critical section of Enqueue is the arrival of a request.
LEMMA EnqueueMaps ==
    ASSUME NEW size \in Sizes, NEW shape \in Shapes, Enqueue(size, shape)
    PROVE  Service!Arrive(size, shape)
<1>1. NewRequest(size, shape) = Service!Arrival(size, shape)
  BY DEF NewRequest, Service!Arrival
<1>2. QED
  BY <1>1 DEF Enqueue, Service!Arrive, threads, Dynamic

\* Taking requests from the queue is a dispatch, if the runner is free.
LEMMA TakeMaps ==
    ASSUME TypeOK, NEW r \in Runners, NEW n \in Nat, Take(r, n), batch[r] = <<>>,
           UNCHANGED <<mode, exit, issued, done>>
    PROVE  Service!Dispatch(r, n)
<1>1. queue' = SubSeq(queue, n + 1, Len(queue)) /\ batch' = [batch EXCEPT ![r] = SubSeq(queue, 1, n)]
  BY DEF Take, Drop
<1>2. Dynamic \in BOOLEAN /\ Delay \in BOOLEAN
  BY ModesAssumption, FlagsAssumption DEF TypeOK, Dynamic
<1>3. aged' \in BOOLEAN /\ (aged' => Dynamic /\ Delay /\ queue' # <<>>)
  BY <1>2 DEF Take, Delayed
<1>4. QED
  BY <1>1, <1>3 DEF Service!Dispatch, Dynamic

\* A scheduler without batching dispatches the first request by itself.
LEMMA TakeOneMaps ==
    ASSUME IInv, NEW r \in Runners, TakeOne(r)
    PROVE  Service!DispatchOne(r)
<1>1. batch[r] = <<>>
  BY DEF TakeOne, IInv, BatchInv
<1>2. Service!Dispatch(r, 1)
  BY <1>1, TakeMaps DEF TakeOne, IInv, threads
<1>3. QED
  BY <1>2 DEF Service!DispatchOne, TakeOne

\* A search that ends with a batch dispatches what a search of the whole queue
\* chooses, and that is never nothing.
LEMMA SendMaps ==
    ASSUME IInv, NEW r \in Runners, SendPreferred(r) \/ SendPending(r)
    PROVE  Service!DispatchBatch(r)
<1>1. TypeOK /\ SearchInv /\ Searched(r) /\ r \in Scanning
  BY DEF IInv, SendPreferred, SendPending, Searched, Scanning
<1>2. Dynamic /\ queue # <<>>
  BY <1>1 DEF SearchInv
<1>3. batch[r] = <<>>
  BY <1>1 DEF Searched, IInv, BatchInv
<1>4. Service!Chosen = IF search.bestSize # 0 THEN search.bestCnt ELSE IF Sendable THEN search.cnt ELSE 0
  BY <1>1, SearchDecides
<1>5. search.cnt \in 1..Len(queue) /\ (search.bestSize # 0 => search.bestCnt \in 1..search.cnt)
  BY <1>1, SearchedCounts DEF SearchInv
<1>6. Take(r, Service!Chosen) /\ Service!Chosen \in Nat /\ Service!Chosen > 0
  BY <1>4, <1>5, <1>1 DEF SendPreferred, SendPending, TypeOK
<1>7. UNCHANGED <<mode, exit, issued, done>>
  BY DEF SendPreferred, SendPending, threads
<1>8. Service!Dispatch(r, Service!Chosen)
  BY <1>1, <1>3, <1>6, <1>7, TakeMaps
<1>9. QED
  BY <1>2, <1>6, <1>8 DEF Service!DispatchBatch

\* The end of an execution completes its requests.
LEMMA RunMaps ==
    ASSUME IInv, NEW r \in Runners, Run(r)
    PROVE  Service!Complete(r) \/ UNCHANGED Service!vars
<1>1. Ids(batch[r]) = {batch[r][i].id : i \in DOMAIN batch[r]}
  BY DEF Ids, Elements
<1>2. CASE batch[r] # <<>>
  BY <1>1, <1>2 DEF Run, Service!Complete, threads, Dynamic
<1>3. CASE batch[r] = <<>>
  <2>1. done' = done
    BY <1>3, IdsEmpty DEF Run
  <2>2. batch' = batch
    BY <1>3 DEF Run, IInv, TypeOK
  <2>3. QED
    BY <2>1, <2>2, Unseen DEF Run, threads
<1>4. QED
  BY <1>2, <1>3

\* The scheduler is destroyed only when every request was completed.
LEMMA DestroyMaps ==
    ASSUME IInv, Destroy
    PROVE  Service!Close
<1>1. Dispatched = issued
  <2>1. issued \in Nat /\ Len(queue) = 0
    BY BoundsAssumption DEF IInv, TypeOK, Destroy
  <2>2. QED
    BY <2>1 DEF Dispatched
<1>2. \A r \in Runners : Ids(batch[r]) = {}
  BY IdsEmpty DEF Destroy
<1>3. done = 1..issued
  BY <1>1, <1>2 DEF IInv, BatchInv
<1>4. QED
  BY <1>3 DEF Service!Close, Destroy, Dynamic

\* Every step of the scheduler is a step of the service, or unseen.
LEMMA StepMaps == IInv /\ [Next]_vars => [Service!Next]_(Service!vars)
<1> SUFFICES ASSUME IInv, [Next]_vars
             PROVE  Service!Next \/ UNCHANGED Service!vars
  OBVIOUS
<1>1. ASSUME NEW size \in Sizes, NEW shape \in Shapes, Enqueue(size, shape) PROVE Service!Next
  BY <1>1, EnqueueMaps DEF Service!Next
<1>2. CASE Notify
  BY <1>2, Unseen DEF Notify
<1>3. CASE Age
  BY <1>3, FlagsAssumption DEF Age, Delayed, threads, Dynamic, Service!Next, Service!FallDue
<1>4. ASSUME NEW r \in Runners, Step(r) PROVE Service!Next \/ UNCHANGED Service!vars
  <2>1. CASE TakeOne(r)
    BY <2>1, TakeOneMaps DEF Service!Next
  <2>2. CASE SendPreferred(r) \/ SendPending(r)
    BY <2>2, SendMaps DEF Service!Next
  <2>3. CASE Run(r)
    BY <2>3, RunMaps DEF Service!Next
  <2>4. CASE StartRunner(r) \/ TestExit(r) \/ DelayStart(r) \/ WaitForWork(r) \/ StartSearch(r)
    BY <2>4, Unseen DEF StartRunner, TestExit, DelayStart, WaitForWork, StartSearch, threads
  <2>5. CASE Join(r) \/ Block(r) \/ Postpone(r) \/ Resume(r) \/ NotifyAnother(r)
    BY <2>5, Unseen DEF Join, Block, Postpone, Resume, NotifyAnother, threads
  <2>6. QED
    BY <1>4, <2>1, <2>2, <2>3, <2>4, <2>5 DEF Step
<1>5. ASSUME NEW r \in Runners, WakeUp(r) PROVE UNCHANGED Service!vars
  BY <1>5, Unseen DEF WakeUp, threads
<1>6. CASE Destroy
  BY <1>6, DestroyMaps DEF Service!Next
<1>7. CASE Gone \/ UNCHANGED vars
  BY <1>7, Unseen DEF Gone, vars, threads
<1>8. QED
  BY <1>1, <1>2, <1>3, <1>4, <1>5, <1>6, <1>7 DEF Next

\* The runner threads, their waits and notifications and the search that is
\* resumed implement the service, which decides and dispatches in one step.
THEOREM Implements == Spec => ImplementsService
<1>1. Spec => []IInv
  BY Invariance
<1>2. QED
  BY <1>1, InitMaps, StepMaps, PTL DEF Spec, ImplementsService, Service!Spec
=============================================================================
