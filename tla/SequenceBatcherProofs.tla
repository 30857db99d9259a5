------------------------ MODULE SequenceBatcherProofs ------------------------
(***************************************************************************)
(* What SequenceBatcher guarantees for every number of batchers, slots,    *)
(* correlation IDs and requests.  Of all clients: the types, a consistent  *)
(* backlog and one claim on each slot.  Of orderly clients, which have one *)
(* request of a sequence inside Enqueue at a time and do not stall there:  *)
(* the order of the requests of a sequence, no request lost, overlooked or *)
(* behind an END.                                                          *)
(***************************************************************************)
EXTENDS SequenceBatcher, FiniteSetTheorems, TLAPS

(***************************************************************************)
(* Types.                                                                  *)
(***************************************************************************)
\* What Create sets up is well typed.
LEMMA InitType == Init => TypeOK
  BY BatchersAssumption, BoundAssumption
     DEF Init, TypeOK, Slots, Reapers, Works, NoWork, PCs

\* The request that Enqueue accepts is well formed, and so is the state it records.
LEMMA AcceptType ==
    ASSUME TypeOK, NEW c \in Correlations, NEW start \in BOOLEAN, NEW end \in BOOLEAN, Accept(c, start)
    PROVE  /\ NewRequest(c, start, end) \in Requests
           /\ stamp' \in [Correlations -> {"none", "fresh", "idle"}]
           /\ issued' \in 0..MaxRequests
           /\ latest' \in [Correlations -> 0..MaxRequests]
<1>1. issued + 1 \in 1..MaxRequests
  BY BoundAssumption DEF Accept, Callable, TypeOK
<1>2. QED
  BY <1>1 DEF Accept, NewRequest, Requests, TypeOK

\* A request on its way has a slot that exists.
LEMMA DispatchType ==
    ASSUME TypeOK, NEW r \in Requests, NEW s \in Slots, Dispatch(r, s)
    PROVE  delivering' \subseteq [request : Requests, slot : Slots]
  BY DEF Dispatch, TypeOK

\* The slot of a sequence in the map is a slot.
LEMMA EnqueueToSlotType ==
    ASSUME TypeOK, NEW c \in Correlations, NEW start \in BOOLEAN, NEW end \in BOOLEAN,
           EnqueueToSlot(c, start, end)
    PROVE  TypeOK'
<1>1. NewRequest(c, start, end) \in Requests
  BY AcceptType DEF EnqueueToSlot
<1>2. slotOf[c] \in Slots
  BY DEF EnqueueToSlot, TypeOK
<1>3. delivering' \subseteq [request : Requests, slot : Slots]
  BY <1>1, <1>2, DispatchType DEF EnqueueToSlot
<1>4. slotOf' \in [Correlations -> Slots \cup {None}]
  BY DEF EnqueueToSlot, Unmapped, TypeOK
<1>5. /\ stamp' \in [Correlations -> {"none", "fresh", "idle"}]
      /\ issued' \in 0..MaxRequests
      /\ latest' \in [Correlations -> 0..MaxRequests]
  BY AcceptType DEF EnqueueToSlot
<1>6. QED
  BY <1>3, <1>4, <1>5 DEF EnqueueToSlot, TypeOK, slots, locals, ending

\* A backlog queue grows by a request.
LEMMA BacklogType ==
    ASSUME TypeOK, NEW r \in Requests, NEW i \in DOMAIN backlog
    PROVE  /\ backlog[i] \in Seq(Requests) \ {<<>>}
           /\ Append(backlog[i], r) \in Seq(Requests) \ {<<>>}
<1>1. backlog[i] \in Seq(Requests) \ {<<>>}
  BY DEF TypeOK
<1>2. Len(Append(backlog[i], r)) = Len(backlog[i]) + 1
  BY <1>1
<1>3. QED
  BY <1>1, <1>2

\* A request that joins a backlog queue keeps the types.
LEMMA EnqueueToBacklogType ==
    ASSUME TypeOK, NEW c \in Correlations, NEW start \in BOOLEAN, NEW end \in BOOLEAN,
           EnqueueToBacklog(c, start, end)
    PROVE  TypeOK'
<1>1. NewRequest(c, start, end) \in Requests
  BY AcceptType DEF EnqueueToBacklog
<1>2. DOMAIN backlog = 1..Len(backlog) /\ Len(backlog) \in Nat
  BY DEF TypeOK
<1>3. backlog' \in Seq(Seq(Requests) \ {<<>>})
  <2>1. backlog' \in [1..Len(backlog) -> Seq(Requests) \ {<<>>}]
    BY <1>1, <1>2, BacklogType DEF EnqueueToBacklog
  <2>2. QED
    BY <1>2, <2>1
<1>4. backlogOf' \in [Correlations -> 0..MaxRequests]
  BY BoundAssumption DEF EnqueueToBacklog, Forgotten, TypeOK
<1>5. /\ stamp' \in [Correlations -> {"none", "fresh", "idle"}]
      /\ issued' \in 0..MaxRequests
      /\ latest' \in [Correlations -> 0..MaxRequests]
  BY AcceptType DEF EnqueueToBacklog
<1>6. QED
  BY <1>3, <1>4, <1>5 DEF EnqueueToBacklog, TypeOK, slots, locals, ending

\* A new sequence that takes a ready slot keeps the types.
LEMMA EnqueueToNewSlotType ==
    ASSUME TypeOK, NEW c \in Correlations, NEW end \in BOOLEAN, EnqueueToNewSlot(c, end)
    PROVE  TypeOK'
<1>1. NewRequest(c, TRUE, end) \in Requests
  BY AcceptType DEF EnqueueToNewSlot
<1>2. PICK s \in Top :
         /\ ready' = Taken(s)
         /\ Dispatch(NewRequest(c, TRUE, end), s)
         /\ slotOf' = IF end THEN slotOf ELSE [slotOf EXCEPT ![c] = s]
  BY DEF EnqueueToNewSlot
<1>3. s \in Slots /\ ready[s] \in Nat /\ ready[s] > 0
  BY DEF Top, TypeOK
<1>4. ready' \in [Slots -> Nat]
  BY <1>2, <1>3 DEF Taken, TypeOK
<1>5. delivering' \subseteq [request : Requests, slot : Slots]
  BY <1>1, <1>2, <1>3, DispatchType
<1>6. slotOf' \in [Correlations -> Slots \cup {None}]
  BY <1>2, <1>3 DEF TypeOK
<1>7. /\ stamp' \in [Correlations -> {"none", "fresh", "idle"}]
      /\ issued' \in 0..MaxRequests
      /\ latest' \in [Correlations -> 0..MaxRequests]
  BY AcceptType DEF EnqueueToNewSlot
<1>8. QED
  BY <1>4, <1>5, <1>6, <1>7 DEF EnqueueToNewSlot, TypeOK, slots, locals, ending

\* A new backlog queue goes to the end of the backlog.
LEMMA NewBacklogType ==
    ASSUME TypeOK, NEW r \in Requests
    PROVE  Append(backlog, <<r>>) \in Seq(Seq(Requests) \ {<<>>})
<1>1. <<r>> \in Seq(Requests) /\ Len(<<r>>) = 1 /\ Len(<<>>) = 0
  OBVIOUS
<1>2. <<r>> \in Seq(Requests) \ {<<>>}
  BY <1>1
<1>3. QED
  BY <1>2 DEF TypeOK

\* A new sequence in the backlog keeps the types.
LEMMA EnqueueToNewBacklogType ==
    ASSUME TypeOK, NEW c \in Correlations, NEW end \in BOOLEAN, EnqueueToNewBacklog(c, end)
    PROVE  TypeOK'
<1>1. NewRequest(c, TRUE, end) \in Requests
  BY AcceptType DEF EnqueueToNewBacklog
<1>2. backlog' \in Seq(Seq(Requests) \ {<<>>})
  BY <1>1, NewBacklogType DEF EnqueueToNewBacklog
<1>3. backlogOf' \in [Correlations -> 0..MaxRequests]
  BY BoundAssumption DEF EnqueueToNewBacklog, Accept, Callable, TypeOK
<1>4. /\ stamp' \in [Correlations -> {"none", "fresh", "idle"}]
      /\ issued' \in 0..MaxRequests
      /\ latest' \in [Correlations -> 0..MaxRequests]
  BY AcceptType DEF EnqueueToNewBacklog
<1>5. QED
  BY <1>2, <1>3, <1>4 DEF EnqueueToNewBacklog, TypeOK, slots, locals, ending

\* SequenceBatch::Enqueue leaves its members well typed.
LEMMA PutType ==
    ASSUME TypeOK, NEW s \in Slots, NEW p \in Payloads, Put(s, p)
    PROVE  /\ queue' \in [Slots -> Seq(Payloads)]
           /\ active' \subseteq Slots
           /\ maxActive' \in [Batchers -> -1..MaxSlot]
           /\ pc' \in [Batchers -> PCs]
<1>1. s[1] \in Batchers /\ s[2] \in 0..MaxSlot
  BY DEF Slots
<1>2. queue' \in [Slots -> Seq(Payloads)]
  BY DEF Put, TypeOK
<1>3. Raised(s) \in -1..MaxSlot
  BY <1>1, BatchersAssumption DEF Raised, TypeOK
<1>4. Notified(s[1]) \in PCs
  BY <1>1 DEF Notified, TypeOK, PCs
<1>5. QED
  BY <1>2, <1>3, <1>4 DEF Put, TypeOK

\* A request that arrives at its batcher keeps the types.
LEMMA DeliverType ==
    ASSUME TypeOK, NEW d \in delivering, Deliver(d)
    PROVE  TypeOK'
<1>1. d.slot \in Slots /\ d.request \in Payloads
  BY DEF TypeOK, Payloads
<1>2. /\ queue' \in [Slots -> Seq(Payloads)]
      /\ active' \subseteq Slots
      /\ maxActive' \in [Batchers -> -1..MaxSlot]
      /\ pc' \in [Batchers -> PCs]
  BY <1>1, PutType DEF Deliver
<1>3. QED
  BY <1>2 DEF Deliver, TypeOK, maps, locals, ending, history

\* The steps of the reaper.
LEMMA ReapType == ASSUME TypeOK, Reap PROVE TypeOK'
<1>1. CASE TestReaperExit \/ StartScan \/ EndScan \/ WakeReaper
  <2>1. reaper' \in Reapers /\ reaper'.pc # "enqueue"
    <3>1. reaper \in Reapers /\ {c \in Correlations : stamp[c] = "idle"} \in SUBSET Correlations
      BY DEF TypeOK
    <3>2. PICK p, todo : /\ p \in {"lock", "exited", "scan", "wait", "test"} /\ todo \in SUBSET Correlations
                         /\ reaper' = [reaper EXCEPT !.pc = p] \/ reaper' = [reaper EXCEPT !.pc = p, !.todo = todo]
      BY <1>1, <3>1 DEF TestReaperExit, StartScan, EndScan, WakeReaper
    <3>3. QED
      BY <3>1, <3>2 DEF Reapers
  <2>2. UNCHANGED quietReaper
    BY <1>1 DEF TestReaperExit, StartScan, EndScan, WakeReaper
  <2>3. QED
    BY <2>1, <2>2 DEF quietReaper, TypeOK, maps, slots, locals, ending, history
<1>2. CASE EnqueueForceEnd
  <2>1. reaper.slot \in Slots /\ ForceEnd \in Payloads
    BY <1>2 DEF EnqueueForceEnd, TypeOK, Payloads
  <2>2. /\ queue' \in [Slots -> Seq(Payloads)]
        /\ active' \subseteq Slots
        /\ maxActive' \in [Batchers -> -1..MaxSlot]
        /\ pc' \in [Batchers -> PCs]
    BY <1>2, <2>1, PutType DEF EnqueueForceEnd
  <2>3. reaper' \in Reapers /\ reaper'.pc # "enqueue"
    BY <1>2 DEF EnqueueForceEnd, TypeOK, Reapers
  <2>4. QED
    BY <1>2, <2>2, <2>3 DEF EnqueueForceEnd, TypeOK, maps, locals, ending, history
<1>3. ASSUME NEW c \in Correlations, Evict(c) PROVE TypeOK'
  <2>1. slotOf[c] \in Slots
    BY <1>3 DEF Evict, TypeOK
  <2>2. reaper' \in Reapers /\ reaper'.slot \in Slots
    BY <1>3, <2>1 DEF Evict, TypeOK, Reapers
  <2>3. slotOf' \in [Correlations -> Slots \cup {None}]
    BY <1>3 DEF Evict, Unmapped, TypeOK
  <2>4. stamp' \in [Correlations -> {"none", "fresh", "idle"}]
    BY <1>3 DEF Evict, TypeOK
  <2>5. QED
    BY <1>3, <2>2, <2>3, <2>4 DEF Evict, TypeOK, slots, locals, ending, history
<1>4. ASSUME NEW c \in Correlations, Spare(c) \/ DropStamp(c) PROVE TypeOK'
  <2>1. reaper \in Reapers /\ reaper.pc = "scan" /\ reaper' = [reaper EXCEPT !.todo = @ \ {c}]
    BY <1>4 DEF Spare, DropStamp, TypeOK
  <2>2. reaper' \in Reapers /\ reaper'.pc # "enqueue"
    BY <2>1 DEF Reapers
  <2>3. stamp' \in [Correlations -> {"none", "fresh", "idle"}]
    BY <1>4 DEF Spare, DropStamp, quietReaper, TypeOK
  <2>4. UNCHANGED <<maps, backlog, ready, delivering, slots, pc, locals, ending, issued, history, done>>
    BY <1>4 DEF Spare, DropStamp, quietReaper
  <2>5. QED
    BY <2>2, <2>3, <2>4 DEF TypeOK, maps, slots, locals, ending, history
<1>5. QED
  BY <1>1, <1>2, <1>3, <1>4 DEF Reap

\* The locals of a scheduler thread.
LEMMA WorkType ==
    ASSUME TypeOK, NEW b \in Batchers
    PROVE  /\ work[b] \in Works
           /\ [work EXCEPT ![b] = NoWork] \in [Batchers -> Works]
           /\ [work EXCEPT ![b].slot = @ + 1] \in [Batchers -> Works]
           /\ \A adjust \in BOOLEAN :
                 [work EXCEPT ![b].slot = @ + 1, ![b].adjust = adjust] \in [Batchers -> Works]
<1>1. work \in [Batchers -> Works] /\ work[b] \in Works
  BY DEF TypeOK
<1>2. NoWork \in Works
  BY BatchersAssumption DEF Works, NoWork
<1>3. [work[b] EXCEPT !.slot = @ + 1] \in Works
  BY <1>1 DEF Works
<1>4. ASSUME NEW adjust \in BOOLEAN
      PROVE  [[work[b] EXCEPT !.slot = @ + 1] EXCEPT !.adjust = adjust] \in Works
  BY <1>3 DEF Works
<1>5. QED
  BY <1>1, <1>2, <1>3, <1>4

\* A thread goes to one of its places.
LEMMA GoToType ==
    ASSUME TypeOK, NEW b \in Batchers, NEW to \in PCs, GoTo(b, to)
    PROVE  pc' \in [Batchers -> PCs]
  BY DEF GoTo, TypeOK

\* Steps of a thread that only move it.
LEMMA MoveType ==
    ASSUME TypeOK, NEW b \in Batchers,
           StartBatcher(b) \/ TestExit(b) \/ WaitForWork(b) \/ WakeUp(b) \/ Resume(b) \/ ReleaseTooLate(b)
    PROVE  TypeOK'
<1>1. PICK to \in PCs : GoTo(b, to)
  BY DEF StartBatcher, TestExit, WaitForWork, WakeUp, Resume, ReleaseTooLate, PCs
<1>2. pc' \in [Batchers -> PCs]
  BY <1>1, GoToType
<1>3. UNCHANGED <<quietThread, slots, locals, tenant, done>>
  BY DEF StartBatcher, TestExit, WaitForWork, WakeUp, Resume, ReleaseTooLate
<1>4. QED
  BY <1>2, <1>3 DEF TypeOK, quietThread, maps, slots, locals, ending

\* The last slot to collect is one of the batcher's.
LEMMA StartCollectType ==
    ASSUME TypeOK, NEW b \in Batchers, StartCollect(b)
    PROVE  TypeOK'
<1>1. PICK last \in Pending(b) : work' = [work EXCEPT ![b] = [slot |-> 0, last |-> last, adjust |-> FALSE]]
  BY DEF StartCollect
<1>2. last \in -1..MaxSlot
  BY BatchersAssumption DEF Pending, TypeOK
<1>3. work' \in [Batchers -> Works]
  BY <1>1, <1>2 DEF TypeOK, Works
<1>4. pc' \in [Batchers -> PCs]
  BY GoToType DEF StartCollect, PCs
<1>5. QED
  BY <1>3, <1>4 DEF StartCollect, TypeOK, quietThread, maps, slots, ending

\* A slot passed over keeps the types.
LEMMA SkipSlotType ==
    ASSUME TypeOK, NEW b \in Batchers, SkipSlot(b)
    PROVE  TypeOK'
<1>1. work' \in [Batchers -> Works]
  BY WorkType DEF SkipSlot
<1>2. QED
  BY <1>1 DEF SkipSlot, TypeOK, quietThread, maps, slots, ending

\* What is collected is a payload of a slot: a request, or the reaper's.
LEMMA CollectSlotType ==
    ASSUME TypeOK, NEW b \in Batchers, CollectSlot(b)
    PROVE  TypeOK'
<1>1. Slot(b) \in Slots
  BY BatchersAssumption DEF CollectSlot, Collecting, Slot, Slots, TypeOK, Works
<1>2. queue[Slot(b)] \in Seq(Payloads) /\ queue[Slot(b)] # <<>>
  BY <1>1 DEF CollectSlot, TypeOK
<1>3. Head(queue[Slot(b)]) \in Payloads /\ Tail(queue[Slot(b)]) \in Seq(Payloads)
  BY <1>2
<1>4. PICK p \in Payloads :
         /\ queue' = [queue EXCEPT ![Slot(b)] = Tail(@)]
         /\ batch' = IF p = ForceEnd THEN batch ELSE [batch EXCEPT ![b] = @ \cup {p.id}]
         /\ tenant' = [tenant EXCEPT ![Slot(b)] = IF p.end THEN 0 ELSE p.id]
         /\ GoTo(b, IF p.end THEN "release" ELSE "collect")
         /\ work' = IF p.end THEN work ELSE [work EXCEPT ![b].slot = @ + 1]
  BY <1>3 DEF CollectSlot
<1>5. queue' \in [Slots -> Seq(Payloads)]
  BY <1>3, <1>4 DEF TypeOK
<1>6. p = ForceEnd \/ p.id \in 1..MaxRequests
  BY DEF Payloads, Requests
<1>7. p.id \in 0..MaxRequests
  BY <1>6, BoundAssumption DEF ForceEnd
<1>8. batch' \in [Batchers -> SUBSET (1..MaxRequests)]
  BY <1>4, <1>6 DEF TypeOK
<1>9. tenant' \in [Slots -> 0..MaxRequests]
  <2>1. 0 \in 0..MaxRequests
    BY BoundAssumption
  <2>2. PICK v \in 0..MaxRequests : tenant' = [tenant EXCEPT ![Slot(b)] = v]
    BY <1>4, <1>7, <2>1, Zenon
  <2>3. QED
    BY <2>2 DEF TypeOK
<1>10. pc' \in [Batchers -> PCs]
  BY <1>4, GoToType DEF PCs
<1>11. work' \in [Batchers -> Works]
  BY <1>4, WorkType DEF TypeOK
<1>12. QED
  BY <1>5, <1>8, <1>9, <1>10, <1>11 DEF CollectSlot, TypeOK, quietThread, maps, ending

\* The backlog's first queue, and what is behind it.
LEMMA BacklogParts ==
    ASSUME TypeOK, backlog # <<>>
    PROVE  /\ Head(backlog) = backlog[1]
           /\ Head(backlog) \in Seq(Requests) /\ Head(backlog) # <<>>
           /\ Tail(backlog) \in Seq(Seq(Requests) \ {<<>>})
           /\ Head(backlog)[Len(Head(backlog))] \in Requests
<1>1. /\ Head(backlog) = backlog[1]
      /\ Head(backlog) \in Seq(Requests) \ {<<>>}
      /\ Tail(backlog) \in Seq(Seq(Requests) \ {<<>>})
  BY DEF TypeOK
<1>2. ASSUME NEW s \in Seq(Requests), s # <<>> PROVE s[Len(s)] \in Requests
  BY <1>2
<1>3. QED
  BY <1>1, <1>2

\* A slot given to the backlog's first sequence: the slot exists, its payloads are requests.
LEMMA RefillSlotType ==
    ASSUME TypeOK, ReleaseInv, NEW b \in Batchers, RefillSlot(b)
    PROVE  TypeOK'
<1>1. /\ Head(backlog) \in Seq(Payloads)
      /\ Tail(backlog) \in Seq(Seq(Requests) \ {<<>>})
  BY BacklogParts DEF RefillSlot, Payloads
<1>2. Head(backlog)[Len(Head(backlog))].cid \in Correlations
  BY BacklogParts DEF RefillSlot, Requests
<1>3. queue' \in [Slots -> Seq(Payloads)]
  BY <1>1 DEF RefillSlot, TypeOK
<1>4. Slot(b) \in Slots
  BY DEF RefillSlot, Releasing, ReleaseInv
<1>5. backlogOf' \in [Correlations -> 0..MaxRequests]
  <2>1. backlogOf' = backlogOf \/ \E c \in Correlations : backlogOf' = [backlogOf EXCEPT ![c] = 0]
    BY <1>2 DEF RefillSlot, Adopt, maps
  <2>2. QED
    <3>1. 0 \in 0..MaxRequests
      BY BoundAssumption
    <3>2. backlogOf \in [Correlations -> 0..MaxRequests]
      BY DEF TypeOK
    <3>3. QED
      BY <2>1, <3>1, <3>2
<1>6. slotOf' \in [Correlations -> Slots \cup {None}]
  <2>1. slotOf' = slotOf \/ \E c \in Correlations : slotOf' = [slotOf EXCEPT ![c] = Slot(b)]
    BY <1>2 DEF RefillSlot, Adopt, maps
  <2>2. QED
    BY <1>4, <2>1 DEF TypeOK
<1>7. work' \in [Batchers -> Works]
  BY WorkType DEF RefillSlot
<1>8. pc' \in [Batchers -> PCs]
  BY GoToType DEF RefillSlot, PCs
<1>9. backlog' = Tail(backlog)
  BY DEF RefillSlot
<1>10. QED
  BY <1>1, <1>3, <1>5, <1>6, <1>7, <1>8, <1>9 DEF RefillSlot, TypeOK, ending, history

\* A slot that becomes ready again exists.
LEMMA FreeSlotType ==
    ASSUME TypeOK, ReleaseInv, NEW b \in Batchers, FreeSlot(b)
    PROVE  TypeOK'
<1>1. ready' \in [Slots -> Nat]
  <2>1. Slot(b) \in Slots
    BY DEF FreeSlot, Releasing, ReleaseInv
  <2>2. QED
    BY <2>1 DEF FreeSlot, TypeOK
<1>2. work' \in [Batchers -> Works]
  <2>1. work[b].adjust \in BOOLEAN
    BY DEF TypeOK, Works
  <2>2. PICK adjust \in BOOLEAN : work' = [work EXCEPT ![b].slot = @ + 1, ![b].adjust = adjust]
    BY <2>1 DEF FreeSlot
  <2>3. QED
    BY <2>2, WorkType
<1>3. pc' \in [Batchers -> PCs]
  BY GoToType DEF FreeSlot, PCs
<1>4. QED
  BY <1>1, <1>2, <1>3 DEF FreeSlot, TypeOK, maps, ending, history

\* max_active_slot_ is lowered to -1 at the least.
LEMMA EndCollectType ==
    ASSUME TypeOK, NEW b \in Batchers, EndCollect(b)
    PROVE  TypeOK'
<1>1. PICK k \in IF work[b].adjust THEN Shrunk(b) ELSE {maxActive[b]} :
         maxActive' = [maxActive EXCEPT ![b] = k]
  BY DEF EndCollect
<1>2. maxActive[b] \in -1..MaxSlot
  BY DEF TypeOK
<1>3. k \in -1..MaxSlot
  BY <1>2, BatchersAssumption DEF Shrunk
<1>4. maxActive' \in [Batchers -> -1..MaxSlot]
  BY <1>1, <1>3 DEF TypeOK
<1>5. work' \in [Batchers -> Works]
  BY WorkType DEF EndCollect
<1>6. pc' \in [Batchers -> PCs]
  BY GoToType DEF EndCollect, PCs
<1>7. QED
  BY <1>4, <1>5, <1>6 DEF EndCollect, TypeOK, quietThread, maps, ending

\* Execution completes requests that were enqueued.
LEMMA RunType ==
    ASSUME TypeOK, NEW b \in Batchers, Run(b)
    PROVE  TypeOK'
<1>1. done' \subseteq 1..MaxRequests /\ batch' \in [Batchers -> SUBSET (1..MaxRequests)]
  BY DEF Run, TypeOK
<1>2. pc' \in [Batchers -> PCs]
  BY GoToType DEF Run, PCs
<1>3. QED
  BY <1>1, <1>2 DEF Run, TypeOK, quietThread, maps, slots, ending

\* The steps of callers, time and the destructor that only touch a few variables.
LEMMA OtherType ==
    ASSUME TypeOK,
           \/ Refuse \/ Destroy \/ DestroyMembers \/ Gone
           \/ \E c \in Correlations : GoIdle(c)
           \/ \E b \in Batchers : DestroyBatcher(b)
    PROVE  TypeOK'
<1>1. CASE Refuse
  <2>1. issued + 1 \in 1..MaxRequests
    BY <1>1, BoundAssumption DEF Refuse, Callable, TypeOK
  <2>2. issued' \in 0..MaxRequests /\ done' \subseteq 1..MaxRequests
    BY <1>1, <2>1 DEF Refuse, TypeOK
  <2>3. QED
    BY <1>1, <2>2 DEF Refuse, TypeOK, maps, slots, locals, ending, history
<1>2. CASE Destroy
  <2>1. reaper' \in Reapers /\ (reaper'.pc = "enqueue" => reaper'.slot \in Slots)
    BY <1>2 DEF Destroy, TypeOK, Reapers
  <2>2. QED
    BY <1>2, <2>1 DEF Destroy, TypeOK, maps, slots, locals, history
<1>3. CASE DestroyMembers
  BY <1>3 DEF DestroyMembers, TypeOK, maps, slots, locals, history
<1>4. CASE Gone
  BY <1>4 DEF Gone, vars, TypeOK, maps, slots, locals, ending, history
<1>5. ASSUME NEW c \in Correlations, GoIdle(c) PROVE TypeOK'
  <2>1. stamp' \in [Correlations -> {"none", "fresh", "idle"}]
    BY <1>5 DEF GoIdle, TypeOK
  <2>2. QED
    BY <1>5, <2>1 DEF GoIdle, TypeOK, maps, slots, locals, ending, history
<1>6. ASSUME NEW b \in Batchers, DestroyBatcher(b) PROVE TypeOK'
  <2>1. pc' \in [Batchers -> PCs]
    BY <1>6 DEF DestroyBatcher, Notified, TypeOK, PCs
  <2>2. QED
    BY <1>6, <2>1 DEF DestroyBatcher, TypeOK, maps, slots, locals, history
<1>7. QED
  BY <1>1, <1>2, <1>3, <1>4, <1>5, <1>6

-----------------------------------------------------------------------------
(***************************************************************************)
(* The slot a scheduler thread releases.                                   *)
(***************************************************************************)
\* No thread starts to release a slot, and none that does moves on to another.
LEMMA ReleaseKept ==
    ASSUME ReleaseInv,
           \A b \in Batchers : pc'[b] = "release" => pc[b] = "release" /\ work'[b] = work[b]
    PROVE  ReleaseInv'
  BY DEF ReleaseInv, Slot

\* A thread that starts to release a slot releases one of its own.
LEMMA StepRelease ==
    ASSUME TypeOK, ReleaseInv, NEW b \in Batchers, Step(b) \/ WakeUp(b)
    PROVE  ReleaseInv'
<1>1. CASE CollectSlot(b)
  <2>1. Slot(b) \in Slots
    BY <1>1, BatchersAssumption DEF CollectSlot, Collecting, Slot, Slots, TypeOK, Works
  <2>2. PICK p : /\ GoTo(b, IF p.end THEN "release" ELSE "collect")
                 /\ work' = IF p.end THEN work ELSE [work EXCEPT ![b].slot = @ + 1]
    BY <1>1 DEF CollectSlot
  <2>3. CASE p.end
    <3>1. work' = work /\ pc' = [pc EXCEPT ![b] = "release"]
      BY <2>2, <2>3 DEF GoTo
    <3>2. QED
      BY <2>1, <3>1 DEF ReleaseInv, Slot, TypeOK
  <2>4. CASE ~p.end
    <3>1. work' = [work EXCEPT ![b].slot = @ + 1] /\ pc' = [pc EXCEPT ![b] = "collect"]
      BY <2>2, <2>4 DEF GoTo
    <3>2. QED
      BY <3>1, ReleaseKept DEF TypeOK
  <2>5. QED
    BY <2>3, <2>4
<1>2. CASE ~CollectSlot(b)
  <2>1. CASE SkipSlot(b)
    BY <2>1, ReleaseKept DEF SkipSlot, Collecting, TypeOK
  <2>2. CASE ~SkipSlot(b)
    <3>1. PICK to \in PCs \ {"release"} : GoTo(b, to)
      BY <1>2, <2>2 DEF Step, StartBatcher, TestExit, WaitForWork, WakeUp, Resume, StartCollect,
           RefillSlot, FreeSlot, ReleaseTooLate, EndCollect, Run, PCs
    <3>2. \A q \in Batchers : q # b => work'[q] = work[q]
      BY <1>2, <2>2 DEF Step, StartBatcher, TestExit, WaitForWork, WakeUp, Resume, StartCollect,
           RefillSlot, FreeSlot, ReleaseTooLate, EndCollect, Run, locals, TypeOK
    <3>3. QED
      BY <3>1, <3>2, ReleaseKept DEF GoTo, TypeOK
  <2>3. QED
    BY <2>1, <2>2
<1>3. QED
  BY <1>1, <1>2

\* SequenceBatch::Enqueue may wake a thread, which is not releasing a slot.
LEMMA PutRelease ==
    ASSUME TypeOK, ReleaseInv, NEW s \in Slots, NEW p, Put(s, p), work' = work
    PROVE  ReleaseInv'
<1>1. s[1] \in Batchers
  BY DEF Slots
<1>2. QED
  BY <1>1, ReleaseKept DEF Put, Notified, TypeOK

\* No step makes a thread release a slot that does not exist.
LEMMA ReleaseStep ==
    ASSUME TypeOK, ReleaseInv, Next
    PROVE  ReleaseInv'
<1>1. ASSUME NEW b \in Batchers, Step(b) \/ WakeUp(b) PROVE ReleaseInv'
  BY <1>1, StepRelease
<1>2. ASSUME NEW b \in Batchers, DestroyBatcher(b) PROVE ReleaseInv'
  BY <1>2, ReleaseKept DEF DestroyBatcher, Notified, locals, TypeOK
<1>3. ASSUME NEW d \in delivering, Deliver(d) PROVE ReleaseInv'
  <2>1. d.slot \in Slots
    BY DEF TypeOK
  <2>2. QED
    BY <1>3, <2>1, PutRelease DEF Deliver, locals
<1>4. CASE EnqueueForceEnd
  BY <1>4, PutRelease DEF EnqueueForceEnd, TypeOK, locals
<1>5. ASSUME UNCHANGED <<pc, locals>> PROVE ReleaseInv'
  BY <1>5, ReleaseKept DEF locals
<1>6. CASE Reap /\ ~EnqueueForceEnd
  BY <1>5, <1>6 DEF Reap, TestReaperExit, StartScan, EndScan, WakeReaper, Evict, Spare, DropStamp, quietReaper
<1>7. ASSUME NEW c \in Correlations, NEW start \in BOOLEAN, NEW end \in BOOLEAN, Enqueue(c, start, end)
      PROVE  ReleaseInv'
  BY <1>5, <1>7 DEF Enqueue, EnqueueToSlot, EnqueueToBacklog, EnqueueToNewSlot, EnqueueToNewBacklog
<1>8. ASSUME NEW c \in Correlations, GoIdle(c) PROVE ReleaseInv'
  BY <1>5, <1>8 DEF GoIdle
<1>9. CASE Refuse \/ Destroy \/ DestroyMembers \/ Gone
  BY <1>5, <1>9 DEF Refuse, Destroy, DestroyMembers, Gone, vars
<1>10. QED
  BY <1>1, <1>2, <1>3, <1>4, <1>6, <1>7, <1>8, <1>9 DEF Next

-----------------------------------------------------------------------------
(***************************************************************************)
(* The backlog and its map.                                                *)
(***************************************************************************)
\* What the invariant says of the map, beside the readiness of slots.
MapInv ==
    /\ \A c \in Correlations : slotOf[c] # None => backlogOf[c] = 0
    /\ \A i \in DOMAIN backlog :
          backlogOf[backlog[i][Len(backlog[i])].cid] = backlog[i][1].id <=> ~backlog[i][Len(backlog[i])].end
    /\ \A c \in Correlations : backlogOf[c] # 0 =>
          \E i \in DOMAIN backlog : backlog[i][1].id = backlogOf[c] /\ backlog[i][1].cid = c

\* The invariant of the backlog in two parts: slots, and the map.
LEMMA MapPart ==
    BacklogConsistent <=> (backlog # <<>> => \A s \in Slots : ready[s] = 0) /\ MapInv
  BY DEF BacklogConsistent, MapInv

\* The same of the next state.
LEMMA MapPartNext ==
    BacklogConsistent' <=> (backlog' # <<>> => \A s \in Slots : ready'[s] = 0) /\ MapInv'
  BY DEF BacklogConsistent, MapInv

\* Appending to a sequence adds one index, and keeps what is at the others.
LEMMA AppendFacts ==
    ASSUME NEW S, NEW s \in Seq(S), NEW x \in S
    PROVE  /\ Len(s) + 1 \notin DOMAIN s
           /\ DOMAIN Append(s, x) = DOMAIN s \cup {Len(s) + 1}
           /\ Append(s, x)[Len(s) + 1] = x
           /\ \A i \in DOMAIN s : Append(s, x)[i] = s[i]
  OBVIOUS

\* The tail of a sequence has all its elements but the first, one index lower.
LEMMA TailFacts ==
    ASSUME NEW S, NEW s \in Seq(S), s # <<>>
    PROVE  /\ 1 \in DOMAIN s /\ Head(s) = s[1]
           /\ DOMAIN Tail(s) \subseteq Nat
           /\ \A i \in DOMAIN Tail(s) : i + 1 \in DOMAIN s /\ Tail(s)[i] = s[i + 1] /\ i + 1 # 1
           /\ \A i \in DOMAIN s : i # 1 => i - 1 \in DOMAIN Tail(s) /\ Tail(s)[i - 1] = s[i]
  OBVIOUS

\* The queues of the backlog hold requests, and at least one.
LEMMA QueueFacts ==
    ASSUME TypeOK, NEW i \in DOMAIN backlog
    PROVE  /\ backlog[i] \in Seq(Requests)
           /\ 1 \in DOMAIN backlog[i] /\ Len(backlog[i]) \in DOMAIN backlog[i]
           /\ \A k \in DOMAIN backlog[i] : backlog[i][k] \in Requests /\ backlog[i][k].id \in Nat
           /\ backlog[i][1].id \in 1..MaxRequests
           /\ backlog[i][Len(backlog[i])].cid \in Correlations
<1>1. backlog[i] \in Seq(Requests) \ {<<>>}
  BY DEF TypeOK
<1>2. 1 \in DOMAIN backlog[i] /\ Len(backlog[i]) \in DOMAIN backlog[i]
  BY <1>1
<1>3. \A k \in DOMAIN backlog[i] : backlog[i][k] \in Requests
  BY <1>1
<1>4. \A r \in Requests : r.id \in 1..MaxRequests /\ r.id \in Nat /\ r.cid \in Correlations
  BY BoundAssumption DEF Requests
<1>5. QED
  BY <1>1, <1>2, <1>3, <1>4

\* Nothing happens to the backlog and its map; sequences may lose their slots.
LEMMA BacklogKept ==
    ASSUME BaseInv, UNCHANGED <<backlogOf, backlog>>,
           issued' \in {issued, issued + 1},
           backlog # <<>> => UNCHANGED ready,
           \A c \in Correlations : slotOf'[c] # None => slotOf[c] # None \/ backlogOf[c] = 0
    PROVE  QueuesInv' /\ BacklogConsistent'
<1>1. TypeOK /\ QueuesInv /\ BacklogConsistent
  BY DEF BaseInv
<1>2. issued \in Nat /\ \A i \in DOMAIN backlog : \A k \in DOMAIN backlog[i] : backlog[i][k].id \in Nat
  <2>1. issued \in Nat
    BY <1>1, BoundAssumption DEF TypeOK
  <2>2. \A i \in DOMAIN backlog : \A k \in DOMAIN backlog[i] : backlog[i][k].id \in Nat
    BY <1>1, QueueFacts
  <2>3. QED
    BY <2>1, <2>2
<1>3. QueuesInv'
  <2>1. \A i \in DOMAIN backlog : \A k \in DOMAIN backlog[i] : backlog[i][k].id <= issued'
    BY <1>1, <1>2 DEF QueuesInv
  <2>2. QED
    BY <1>1, <2>1 DEF QueuesInv
<1>4. MapInv'
  BY <1>1, MapPart DEF MapInv
<1>5. QED
  BY <1>1, <1>3, <1>4, MapPart, MapPartNext

\* The request joins the queue of its sequence.
LEMMA EnqueueToBacklogKeeps ==
    ASSUME BaseInv, NEW c \in Correlations, NEW start \in BOOLEAN, NEW end \in BOOLEAN,
           EnqueueToBacklog(c, start, end)
    PROVE  QueuesInv' /\ BacklogConsistent'
<1> DEFINE r == NewRequest(c, start, end)
<1>1. /\ TypeOK /\ QueuesInv /\ BacklogConsistent /\ MapInv
      /\ issued \in Nat /\ issued' = issued + 1
      /\ backlogOf[c] # 0 /\ slotOf' = slotOf /\ ready' = ready
      /\ backlogOf' = Forgotten(c, end)
      /\ backlogOf \in [Correlations -> 0..MaxRequests]
  BY MapPart, BoundAssumption DEF BaseInv, EnqueueToBacklog, Accept, TypeOK
<1>2. PICK j \in DOMAIN backlog : backlog[j][1].id = backlogOf[c] /\ backlog[j][1].cid = c
  BY <1>1 DEF MapInv
<1>3. /\ DOMAIN backlog' = DOMAIN backlog
      /\ backlog'[j] = Append(backlog[j], r)
      /\ \A i \in DOMAIN backlog : i # j => backlog'[i] = backlog[i] /\ backlog[i][1].id # backlogOf[c]
  BY <1>1, <1>2 DEF EnqueueToBacklog, QueuesInv
<1>4. r.cid = c /\ r.id = issued + 1 /\ r.end = end
  BY DEF NewRequest
<1>5. /\ backlog[j] \in Seq(Requests) /\ r \in Requests
      /\ 1 \in DOMAIN backlog[j]
  BY <1>1, QueueFacts, AcceptType DEF EnqueueToBacklog
<1>6. /\ Len(backlog'[j]) = Len(backlog[j]) + 1
      /\ backlog'[j][1] = backlog[j][1]
      /\ backlog'[j][Len(backlog'[j])] = r
      /\ DOMAIN backlog'[j] = DOMAIN backlog[j] \cup {Len(backlog'[j])}
      /\ \A k \in DOMAIN backlog[j] : backlog'[j][k] = backlog[j][k]
  BY <1>3, <1>5
<1> HIDE DEF r
<1>7. \A i \in DOMAIN backlog : backlog'[i][1] = backlog[i][1]
  BY <1>3, <1>6
<1>8. QueuesInv'
  <2>1. ASSUME NEW i \in DOMAIN backlog, NEW k \in DOMAIN backlog'[i]
        PROVE  backlog'[i][k].cid = backlog'[i][1].cid /\ backlog'[i][k].id <= issued + 1
    <3>1. CASE i # j
      <4>1. backlog[i][k].id \in Nat
        BY <1>1, <1>3, <3>1, QueueFacts
      <4>2. QED
        BY <1>1, <1>3, <3>1, <4>1 DEF QueuesInv
    <3>2. CASE i = j /\ k \in DOMAIN backlog[j]
      <4>1. backlog[j][k].id \in Nat
        BY <1>1, <3>2, QueueFacts
      <4>2. QED
        BY <1>1, <1>6, <3>2, <4>1 DEF QueuesInv
    <3>3. CASE i = j /\ k = Len(backlog'[j])
      BY <1>1, <1>2, <1>4, <1>6, <3>3
    <3>4. QED
      BY <1>6, <3>1, <3>2, <3>3
  <2>2. \A i, k \in DOMAIN backlog : backlog'[i][1].id = backlog'[k][1].id => i = k
    BY <1>1, <1>7 DEF QueuesInv
  <2>3. QED
    BY <1>1, <1>3, <2>1, <2>2 DEF QueuesInv
<1>9. MapInv'
  <2>1. \A d \in Correlations : slotOf'[d] # None => backlogOf'[d] = 0
    BY <1>1 DEF MapInv, Forgotten
  <2>2. ASSUME NEW i \in DOMAIN backlog'
        PROVE  backlogOf'[backlog'[i][Len(backlog'[i])].cid] = backlog'[i][1].id
                   <=> ~backlog'[i][Len(backlog'[i])].end
    <3>1. backlog[i][1].id # 0 /\ backlog[i][Len(backlog[i])].cid \in Correlations
      BY <1>1, <1>3, <2>2, QueueFacts
    <3>2. CASE i = j
      <4>1. backlogOf'[c] = backlog[j][1].id <=> ~end
        BY <1>1, <1>2, <3>1, <3>2 DEF Forgotten
      <4>2. QED
        BY <1>4, <1>6, <3>2, <4>1
    <3>3. CASE i # j
      <4>1. backlog'[i] = backlog[i] /\ backlog[i][1].id # backlogOf[c]
        BY <1>3, <2>2, <3>3
      <4>2. \A d \in Correlations : backlogOf'[d] = backlog[i][1].id <=> backlogOf[d] = backlog[i][1].id
        BY <1>1, <3>1, <4>1 DEF Forgotten
      <4>3. QED
        BY <1>1, <1>3, <3>1, <4>1, <4>2 DEF MapInv
    <3>4. QED
      BY <3>2, <3>3
  <2>3. ASSUME NEW d \in Correlations, backlogOf'[d] # 0
        PROVE  \E i \in DOMAIN backlog' : backlog'[i][1].id = backlogOf'[d] /\ backlog'[i][1].cid = d
    <3>1. backlogOf'[d] = backlogOf[d]
      BY <1>1, <2>3 DEF Forgotten
    <3>2. QED
      BY <1>1, <1>3, <1>7, <2>3, <3>1 DEF MapInv
  <2>4. QED
    BY <2>1, <2>2, <2>3 DEF MapInv
<1>10. backlog' # <<>> => \A s \in Slots : ready'[s] = 0
  BY <1>1, <1>2 DEF BacklogConsistent
<1>11. QED
  BY <1>8, <1>9, <1>10, MapPartNext

\* A new sequence gets a queue of its own at the end of the backlog.
LEMMA EnqueueToNewBacklogKeeps ==
    ASSUME BaseInv, NEW c \in Correlations, NEW end \in BOOLEAN, EnqueueToNewBacklog(c, end)
    PROVE  QueuesInv' /\ BacklogConsistent'
<1> DEFINE r == NewRequest(c, TRUE, end)
           n == Len(backlog) + 1
<1>1. /\ TypeOK /\ QueuesInv /\ BacklogConsistent /\ MapInv
      /\ issued \in Nat /\ issued' = issued + 1
      /\ backlogOf[c] = 0 /\ slotOf[c] = None /\ slotOf' = slotOf /\ ready' = ready
      /\ backlogOf' = IF end THEN backlogOf ELSE [backlogOf EXCEPT ![c] = issued + 1]
      /\ backlogOf \in [Correlations -> 0..MaxRequests]
  <2>1. TypeOK /\ QueuesInv /\ BacklogConsistent /\ MapInv
    BY MapPart DEF BaseInv
  <2>2. issued \in Nat /\ backlogOf \in [Correlations -> 0..MaxRequests]
    BY <2>1, BoundAssumption DEF TypeOK
  <2>3. issued' = issued + 1
    BY DEF EnqueueToNewBacklog, Accept
  <2>4. backlogOf[c] = 0 /\ slotOf[c] = None
    BY DEF EnqueueToNewBacklog, Known
  <2>5. /\ slotOf' = slotOf /\ ready' = ready
        /\ backlogOf' = IF end THEN backlogOf ELSE [backlogOf EXCEPT ![c] = issued + 1]
    BY DEF EnqueueToNewBacklog
  <2>6. QED
    BY <2>1, <2>2, <2>3, <2>4, <2>5
<1>2. r.cid = c /\ r.id = issued + 1 /\ r.end = end
  BY DEF NewRequest
<1>3. /\ n \notin DOMAIN backlog
      /\ DOMAIN backlog' = DOMAIN backlog \cup {n}
      /\ backlog'[n] = <<r>>
      /\ \A i \in DOMAIN backlog : backlog'[i] = backlog[i]
  <2>1. r \in Requests
    BY <1>1, AcceptType DEF EnqueueToNewBacklog
  <2> HIDE DEF r
  <2>2. <<r>> \in Seq(Requests) \ {<<>>}
    BY <2>1
  <2>3. backlog \in Seq(Seq(Requests) \ {<<>>})
    BY <1>1 DEF TypeOK
  <2>4. backlog' = Append(backlog, <<r>>)
    BY DEF EnqueueToNewBacklog, r
  <2>5. QED
    BY <2>2, <2>3, <2>4, AppendFacts
<1>4. DOMAIN backlog'[n] = {1} /\ Len(backlog'[n]) = 1 /\ backlog'[n][1] = r
  BY <1>3
<1> HIDE DEF r, n
<1>5. \A i \in DOMAIN backlog : /\ backlog[i][1].id # issued + 1
                                /\ backlog[i][1].id # 0
                                /\ backlog[i][Len(backlog[i])].cid \in Correlations
  BY <1>1, QueueFacts DEF QueuesInv
<1>6. QueuesInv'
  <2>1. ASSUME NEW i \in DOMAIN backlog', NEW k \in DOMAIN backlog'[i]
        PROVE  backlog'[i][k].cid = backlog'[i][1].cid /\ backlog'[i][k].id <= issued + 1
    <3>1. CASE i \in DOMAIN backlog
      <4>1. backlog[i][k].id \in Nat
        BY <1>1, <1>3, <2>1, <3>1, QueueFacts
      <4>2. QED
        BY <1>1, <1>3, <2>1, <3>1, <4>1 DEF QueuesInv
    <3>2. CASE i = n
      BY <1>1, <1>2, <1>4, <2>1, <3>2
    <3>3. QED
      BY <1>3, <2>1, <3>1, <3>2
  <2>2. \A i, k \in DOMAIN backlog' : backlog'[i][1].id = backlog'[k][1].id => i = k
    BY <1>1, <1>2, <1>3, <1>4, <1>5 DEF QueuesInv
  <2>3. QED
    BY <1>1, <2>1, <2>2 DEF QueuesInv
<1>7. MapInv'
  <2>1. \A d \in Correlations : slotOf'[d] # None => backlogOf'[d] = 0
    BY <1>1 DEF MapInv
  <2>2. ASSUME NEW i \in DOMAIN backlog'
        PROVE  backlogOf'[backlog'[i][Len(backlog'[i])].cid] = backlog'[i][1].id
                   <=> ~backlog'[i][Len(backlog'[i])].end
    <3>1. CASE i = n
      <4>1. backlogOf'[c] = issued + 1 <=> ~end
        BY <1>1
      <4>2. QED
        BY <1>2, <1>4, <3>1, <4>1
    <3>2. CASE i \in DOMAIN backlog
      <4>1. \A d \in Correlations : backlogOf'[d] = backlog[i][1].id <=> backlogOf[d] = backlog[i][1].id
        BY <1>1, <1>5, <3>2
      <4>2. QED
        BY <1>1, <1>3, <1>5, <3>2, <4>1 DEF MapInv
    <3>3. QED
      BY <1>3, <2>2, <3>1, <3>2
  <2>3. ASSUME NEW d \in Correlations, backlogOf'[d] # 0
        PROVE  \E i \in DOMAIN backlog' : backlog'[i][1].id = backlogOf'[d] /\ backlog'[i][1].cid = d
    <3>1. CASE backlogOf'[d] = backlogOf[d]
      BY <1>1, <1>3, <2>3, <3>1 DEF MapInv
    <3>2. CASE backlogOf'[d] # backlogOf[d]
      <4>1. d = c /\ backlogOf'[d] = issued + 1
        BY <1>1, <3>2
      <4>2. QED
        BY <1>2, <1>3, <1>4, <4>1
    <3>3. QED
      BY <3>1, <3>2
  <2>4. QED
    BY <2>1, <2>2, <2>3 DEF MapInv
<1>8. backlog' # <<>> => \A s \in Slots : ready'[s] = 0
  BY <1>1 DEF EnqueueToNewBacklog
<1>9. QED
  BY <1>6, <1>7, <1>8, MapPartNext

\* The first queue leaves the backlog; its sequence, if it goes on, gets the slot.
LEMMA RefillSlotKeeps ==
    ASSUME BaseInv, NEW b \in Batchers, RefillSlot(b)
    PROVE  QueuesInv' /\ BacklogConsistent'
<1> DEFINE h == backlog[1]
           r == h[Len(h)]
<1>1. /\ TypeOK /\ QueuesInv /\ BacklogConsistent /\ MapInv
      /\ issued' = issued /\ ready' = ready
      /\ backlogOf \in [Correlations -> 0..MaxRequests]
      /\ slotOf \in [Correlations -> Slots \cup {None}]
  BY MapPart DEF BaseInv, RefillSlot, TypeOK
<1>2. /\ 1 \in DOMAIN backlog /\ Head(backlog) = h
      /\ DOMAIN backlog' \subseteq Nat
      /\ \A i \in DOMAIN backlog' : i + 1 \in DOMAIN backlog /\ backlog'[i] = backlog[i + 1] /\ i + 1 # 1
      /\ \A i \in DOMAIN backlog : i # 1 => \E k \in DOMAIN backlog' : backlog'[k] = backlog[i]
  <2>1. backlog \in Seq(Seq(Requests) \ {<<>>}) /\ backlog # <<>> /\ backlog' = Tail(backlog)
    BY DEF BaseInv, RefillSlot, TypeOK
  <2>2. QED
    BY <2>1, TailFacts
<1>3. r.cid \in Correlations /\ r.cid = h[1].cid /\ h[1].id # 0
  BY <1>1, <1>2, QueueFacts DEF QueuesInv
<1>4. \A i \in DOMAIN backlog : /\ i # 1 => backlog[i][1].id # h[1].id
                                /\ backlog[i][1].id # 0
                                /\ backlog[i][Len(backlog[i])].cid \in Correlations
  BY <1>1, <1>2, QueueFacts DEF QueuesInv
<1>5. /\ r.end => backlogOf' = backlogOf /\ slotOf' = slotOf
      /\ ~r.end => /\ backlogOf' = [backlogOf EXCEPT ![r.cid] = 0]
                   /\ slotOf' = [slotOf EXCEPT ![r.cid] = Slot(b)]
  BY <1>2 DEF RefillSlot, Adopt, maps
<1>6. backlogOf[r.cid] = h[1].id <=> ~r.end
  BY <1>1, <1>2 DEF MapInv
<1>7. QueuesInv'
  <2>1. \A i \in DOMAIN backlog' : \A k \in DOMAIN backlog'[i] :
           backlog'[i][k].cid = backlog'[i][1].cid /\ backlog'[i][k].id <= issued
    BY <1>1, <1>2 DEF QueuesInv
  <2>2. ASSUME NEW i \in DOMAIN backlog', NEW k \in DOMAIN backlog', backlog'[i][1].id = backlog'[k][1].id
        PROVE  i = k
    <3>1. i + 1 = k + 1
      BY <1>1, <1>2, <2>2 DEF QueuesInv
    <3>2. i \in Nat /\ k \in Nat
      BY <1>2, <2>2
    <3>3. QED
      BY <3>1, <3>2
  <2>3. QED
    BY <1>1, <2>1, <2>2 DEF QueuesInv
<1> HIDE DEF h, r
<1>8. MapInv'
  <2>1. \A d \in Correlations : slotOf'[d] # None => backlogOf'[d] = 0
    BY <1>1, <1>3, <1>5 DEF MapInv
  <2>2. ASSUME NEW i \in DOMAIN backlog'
        PROVE  backlogOf'[backlog'[i][Len(backlog'[i])].cid] = backlog'[i][1].id
                   <=> ~backlog'[i][Len(backlog'[i])].end
    <3>1. PICK k \in DOMAIN backlog : k # 1 /\ backlog'[i] = backlog[k]
      BY <1>2, <2>2
    <3>2. backlog[k][1].id # 0 /\ backlog[k][1].id # h[1].id /\ backlog[k][Len(backlog[k])].cid \in Correlations
      BY <1>4, <3>1
    <3>3. \A d \in Correlations : backlogOf'[d] = backlog[k][1].id <=> backlogOf[d] = backlog[k][1].id
      BY <1>1, <1>3, <1>5, <1>6, <3>2
    <3>4. QED
      BY <1>1, <3>1, <3>2, <3>3 DEF MapInv
  <2>3. ASSUME NEW d \in Correlations, backlogOf'[d] # 0
        PROVE  \E i \in DOMAIN backlog' : backlog'[i][1].id = backlogOf'[d] /\ backlog'[i][1].cid = d
    <3>1. backlogOf'[d] = backlogOf[d]
      BY <1>1, <1>3, <1>5, <2>3
    <3>2. PICK i \in DOMAIN backlog : backlog[i][1].id = backlogOf[d] /\ backlog[i][1].cid = d
      BY <1>1, <2>3, <3>1 DEF MapInv
    <3>3. i # 1
      BY <1>1, <1>3, <1>5, <1>6, <2>3, <3>1, <3>2 DEF h
    <3>4. QED
      BY <1>2, <3>1, <3>2, <3>3
  <2>4. QED
    BY <2>1, <2>2, <2>3 DEF MapInv
<1>9. backlog' # <<>> => \A s \in Slots : ready'[s] = 0
  BY <1>1 DEF RefillSlot, BacklogConsistent
<1>10. QED
  BY <1>7, <1>8, <1>9, MapPartNext

\* A request of a sequence that has a slot, or a new one that takes a ready slot,
\* which is there only if the backlog is empty.
LEMMA EnqueueToSlotKeeps ==
    ASSUME BaseInv, NEW c \in Correlations, NEW start \in BOOLEAN, NEW end \in BOOLEAN,
           EnqueueToSlot(c, start, end) \/ EnqueueToNewSlot(c, end)
    PROVE  QueuesInv' /\ BacklogConsistent'
<1>1. slotOf \in [Correlations -> Slots \cup {None}] /\ ready \in [Slots -> Nat]
  BY DEF BaseInv, TypeOK
<1>2. CASE EnqueueToSlot(c, start, end)
  <2>1. \A d \in Correlations : slotOf'[d] # None => slotOf[d] # None
    BY <1>1, <1>2 DEF EnqueueToSlot, Unmapped
  <2>2. QED
    BY <1>2, <2>1, BacklogKept DEF EnqueueToSlot, Accept
<1>3. CASE EnqueueToNewSlot(c, end)
  <2>1. \E s \in Slots : ready[s] > 0
    BY <1>3 DEF EnqueueToNewSlot, Top
  <2>2. backlog = <<>>
    BY <1>1, <2>1 DEF BaseInv, BacklogConsistent
  <2>3. \A d \in Correlations : slotOf'[d] # None => slotOf[d] # None \/ backlogOf[d] = 0
    BY <1>1, <1>3 DEF EnqueueToNewSlot, Known
  <2>4. QED
    BY <1>3, <2>2, <2>3, BacklogKept DEF EnqueueToNewSlot, Accept
<1>4. QED
  BY <1>2, <1>3

\* The backlog is empty when a slot becomes ready.
LEMMA FreeSlotKeeps ==
    ASSUME BaseInv, NEW b \in Batchers, FreeSlot(b)
    PROVE  QueuesInv' /\ BacklogConsistent'
  BY BacklogKept DEF FreeSlot, maps

\* The reaper adds nothing to the backlog, and gives no slot to a sequence.
LEMMA ReapKeeps == ASSUME BaseInv, Reap PROVE QueuesInv' /\ BacklogConsistent'
<1>1. CASE TestReaperExit \/ StartScan \/ EndScan \/ WakeReaper \/ EnqueueForceEnd
  BY <1>1, BacklogKept DEF TestReaperExit, StartScan, EndScan, WakeReaper, EnqueueForceEnd, quietReaper, maps
<1>2. ASSUME NEW c \in Correlations, Spare(c) \/ DropStamp(c) PROVE QueuesInv' /\ BacklogConsistent'
  BY <1>2, BacklogKept DEF Spare, DropStamp, quietReaper, maps
<1>3. ASSUME NEW c \in Correlations, Evict(c) PROVE QueuesInv' /\ BacklogConsistent'
  <2>1. \A d \in Correlations : slotOf'[d] # None => slotOf[d] # None
    BY <1>3 DEF Evict, Unmapped, BaseInv, TypeOK
  <2>2. QED
    BY <1>3, <2>1, BacklogKept DEF Evict
<1>4. QED
  BY <1>1, <1>2, <1>3 DEF Reap

\* No step makes the backlog inconsistent with its map.
LEMMA BacklogStep == ASSUME BaseInv, Next PROVE QueuesInv' /\ BacklogConsistent'
<1>1. ASSUME NEW c \in Correlations, NEW start \in BOOLEAN, NEW end \in BOOLEAN, Enqueue(c, start, end)
      PROVE  QueuesInv' /\ BacklogConsistent'
  BY <1>1, EnqueueToSlotKeeps, EnqueueToBacklogKeeps, EnqueueToNewBacklogKeeps DEF Enqueue
<1>2. CASE Refuse \/ Destroy \/ DestroyMembers \/ Gone
  BY <1>2, BacklogKept DEF Refuse, Destroy, DestroyMembers, Gone, vars, maps
<1>3. ASSUME NEW d \in delivering, Deliver(d) PROVE QueuesInv' /\ BacklogConsistent'
  BY <1>3, BacklogKept DEF Deliver, maps
<1>4. ASSUME NEW c \in Correlations, GoIdle(c) PROVE QueuesInv' /\ BacklogConsistent'
  BY <1>4, BacklogKept DEF GoIdle, maps
<1>5. ASSUME NEW b \in Batchers, Step(b) \/ WakeUp(b) \/ DestroyBatcher(b)
      PROVE  QueuesInv' /\ BacklogConsistent'
  <2>1. CASE RefillSlot(b)
    BY <2>1, RefillSlotKeeps
  <2>2. CASE FreeSlot(b)
    BY <2>2, FreeSlotKeeps
  <2>3. CASE ~RefillSlot(b) /\ ~FreeSlot(b)
    <3>1. UNCHANGED <<slotOf, backlogOf, backlog, ready, issued>>
      BY <1>5, <2>3 DEF Step, StartBatcher, TestExit, WaitForWork, WakeUp, Resume, StartCollect, SkipSlot,
         CollectSlot, ReleaseTooLate, EndCollect, Run, DestroyBatcher, quietThread, maps
    <3>2. QED
      BY <3>1, BacklogKept
  <2>4. QED
    BY <2>1, <2>2, <2>3
<1>6. QED
  BY <1>1, <1>2, <1>3, <1>4, <1>5, ReapKeeps DEF Next

-----------------------------------------------------------------------------
(***************************************************************************)
(* The sequences in the backlog.                                           *)
(***************************************************************************)
\* A queue that is not complete is the one its correlation ID is mapped to.
LEMMA OpenQueue ==
    ASSUME BaseInv, NEW i \in DOMAIN backlog
    PROVE  /\ backlog[i] \in Seq(Requests)
           /\ 1 \in DOMAIN backlog[i] /\ Len(backlog[i]) \in DOMAIN backlog[i]
           /\ \A k \in DOMAIN backlog[i] : backlog[i][k] \in Requests
           /\ backlog[i][Len(backlog[i])].cid = backlog[i][1].cid
           /\ ~backlog[i][Len(backlog[i])].end =>
                 backlogOf[backlog[i][1].cid] = backlog[i][1].id /\ slotOf[backlog[i][1].cid] = None
<1>1. TypeOK /\ QueuesInv /\ BacklogConsistent /\ MapInv
  BY MapPart DEF BaseInv
<1>2. /\ backlog[i] \in Seq(Requests)
      /\ 1 \in DOMAIN backlog[i] /\ Len(backlog[i]) \in DOMAIN backlog[i]
      /\ \A k \in DOMAIN backlog[i] : backlog[i][k] \in Requests
      /\ backlog[i][1].id \in 1..MaxRequests
      /\ backlog[i][Len(backlog[i])].cid \in Correlations
  BY <1>1, QueueFacts
<1>3. backlog[i][Len(backlog[i])].cid = backlog[i][1].cid
  BY <1>1, <1>2 DEF QueuesInv
<1>4. ~backlog[i][Len(backlog[i])].end => backlogOf[backlog[i][1].cid] = backlog[i][1].id
  BY <1>1, <1>3 DEF MapInv
<1>5. backlogOf[backlog[i][1].cid] # 0 => slotOf[backlog[i][1].cid] = None
  BY <1>1, <1>2, <1>3 DEF MapInv
<1>6. QED
  BY <1>2, <1>3, <1>4, <1>5

\* The backlog stays as it is, and its open sequences have no new request.
LEMMA WholeKept ==
    ASSUME BaseInv, backlog' = backlog,
           \A c \in Correlations : backlogOf[c] # 0 => latest'[c] = latest[c]
    PROVE  WholeInv'
<1>1. WholeInv
  BY DEF BaseInv
<1>2. ASSUME NEW i \in DOMAIN backlog, ~backlog[i][Len(backlog[i])].end
      PROVE  latest'[backlog[i][Len(backlog[i])].cid] = backlog[i][Len(backlog[i])].id
  <2>1. backlog[i][Len(backlog[i])].cid \in Correlations /\ backlog[i][1].id # 0
    BY QueueFacts DEF BaseInv
  <2>2. backlogOf[backlog[i][Len(backlog[i])].cid] # 0
    BY <1>2, <2>1, OpenQueue
  <2>3. QED
    BY <1>1, <1>2, <2>1, <2>2 DEF WholeInv
<1>3. QED
  BY <1>1, <1>2 DEF WholeInv

\* A request joins the queue of its sequence, and is the next one.
LEMMA EnqueueToBacklogWhole ==
    ASSUME BaseInv, NEW c \in Correlations, NEW start \in BOOLEAN, NEW end \in BOOLEAN,
           EnqueueToBacklog(c, start, end)
    PROVE  WholeInv'
<1> DEFINE r == NewRequest(c, start, end)
<1>1. /\ TypeOK /\ QueuesInv /\ BacklogConsistent /\ MapInv /\ WholeInv
      /\ backlogOf[c] # 0
      /\ latest \in [Correlations -> 0..MaxRequests]
      /\ latest' = [latest EXCEPT ![c] = issued + 1]
  BY MapPart DEF BaseInv, EnqueueToBacklog, Accept, TypeOK
<1>2. PICK j \in DOMAIN backlog : backlog[j][1].id = backlogOf[c] /\ backlog[j][1].cid = c
  BY <1>1 DEF MapInv
<1>3. /\ DOMAIN backlog' = DOMAIN backlog
      /\ backlog'[j] = Append(backlog[j], r)
      /\ \A i \in DOMAIN backlog : i # j => backlog'[i] = backlog[i] /\ backlog[i][1].id # backlogOf[c]
  BY <1>1, <1>2 DEF EnqueueToBacklog, QueuesInv
<1>4. r.cid = c /\ r.id = issued + 1 /\ r.prev = latest[c]
  BY DEF NewRequest
<1>5. backlog[j] \in Seq(Requests) /\ r \in Requests /\ 1 \in DOMAIN backlog[j]
  BY <1>1, QueueFacts, AcceptType DEF EnqueueToBacklog
<1>6. /\ Len(backlog'[j]) = Len(backlog[j]) + 1
      /\ backlog'[j][Len(backlog'[j])] = r
      /\ DOMAIN backlog'[j] = DOMAIN backlog[j] \cup {Len(backlog'[j])}
      /\ DOMAIN backlog[j] = 1..Len(backlog[j]) /\ Len(backlog[j]) \in Nat
      /\ \A k \in DOMAIN backlog[j] : backlog'[j][k] = backlog[j][k]
  BY <1>3, <1>5
<1> HIDE DEF r
<1>7. ~backlog[j][Len(backlog[j])].end /\ backlog[j][Len(backlog[j])].cid = c
  <2>1. backlog[j][Len(backlog[j])].cid = c
    BY <1>2, OpenQueue
  <2>2. QED
    BY <1>1, <1>2, <2>1 DEF MapInv
<1>8. Follows(r, backlog[j][Len(backlog[j])])
  BY <1>1, <1>4, <1>7 DEF WholeInv, Follows
<1>9. ASSUME NEW i \in DOMAIN backlog'
      PROVE  /\ backlog'[i][1].start
             /\ \A k \in DOMAIN backlog'[i] : k # 1 => Follows(backlog'[i][k], backlog'[i][k - 1])
             /\ ~backlog'[i][Len(backlog'[i])].end =>
                   latest'[backlog'[i][Len(backlog'[i])].cid] = backlog'[i][Len(backlog'[i])].id
  <2>1. CASE i = j
    <3>1. backlog'[j][1].start
      BY <1>1, <1>5, <1>6 DEF WholeInv
    <3>2. ASSUME NEW k \in DOMAIN backlog'[j], k # 1
          PROVE  Follows(backlog'[j][k], backlog'[j][k - 1])
      <4>1. CASE k \in DOMAIN backlog[j]
        <5>1. k - 1 \in DOMAIN backlog[j]
          BY <1>6, <3>2, <4>1
        <5>2. QED
          BY <1>1, <1>6, <3>2, <4>1, <5>1 DEF WholeInv
      <4>2. CASE k = Len(backlog'[j])
        <5>1. k - 1 = Len(backlog[j]) /\ Len(backlog[j]) \in DOMAIN backlog[j]
          BY <1>5, <1>6, <4>2
        <5>2. QED
          BY <1>6, <1>8, <4>2, <5>1
      <4>3. QED
        BY <1>6, <4>1, <4>2
    <3>3. latest'[c] = r.id
      BY <1>1, <1>4
    <3>4. QED
      BY <1>4, <1>6, <2>1, <3>1, <3>2, <3>3
  <2>2. CASE i # j
    <3>1. backlog'[i] = backlog[i] /\ i \in DOMAIN backlog
      BY <1>3, <2>2
    <3>2. ~backlog[i][Len(backlog[i])].end => backlog[i][Len(backlog[i])].cid # c
      BY <1>3, <2>2, <3>1, OpenQueue
    <3>3. QED
      BY <1>1, <3>1, <3>2 DEF WholeInv
  <2>3. QED
    BY <2>1, <2>2
<1>10. QED
  BY <1>9 DEF WholeInv

\* A new queue holds the START of its sequence.
LEMMA EnqueueToNewBacklogWhole ==
    ASSUME BaseInv, NEW c \in Correlations, NEW end \in BOOLEAN, EnqueueToNewBacklog(c, end)
    PROVE  WholeInv'
<1> DEFINE r == NewRequest(c, TRUE, end)
           n == Len(backlog) + 1
<1>1. /\ TypeOK /\ WholeInv
      /\ backlogOf[c] = 0
      /\ latest \in [Correlations -> 0..MaxRequests]
      /\ latest' = [latest EXCEPT ![c] = issued + 1]
  BY DEF BaseInv, EnqueueToNewBacklog, Accept, Known, TypeOK
<1>2. r.cid = c /\ r.id = issued + 1 /\ r.start
  BY DEF NewRequest
<1>3. /\ DOMAIN backlog' = DOMAIN backlog \cup {n}
      /\ backlog'[n] = <<r>>
      /\ \A i \in DOMAIN backlog : backlog'[i] = backlog[i]
  <2>1. r \in Requests
    BY <1>1, AcceptType DEF EnqueueToNewBacklog
  <2> HIDE DEF r
  <2>2. <<r>> \in Seq(Requests) \ {<<>>}
    BY <2>1
  <2>3. backlog \in Seq(Seq(Requests) \ {<<>>})
    BY <1>1 DEF TypeOK
  <2>4. backlog' = Append(backlog, <<r>>)
    BY DEF EnqueueToNewBacklog, r
  <2>5. QED
    BY <2>2, <2>3, <2>4, AppendFacts
<1>4. DOMAIN backlog'[n] = {1} /\ Len(backlog'[n]) = 1 /\ backlog'[n][1] = r
  BY <1>3
<1> HIDE DEF r, n
<1>5. ASSUME NEW i \in DOMAIN backlog, ~backlog[i][Len(backlog[i])].end
      PROVE  backlog[i][Len(backlog[i])].cid # c
  BY <1>1, <1>5, OpenQueue, QueueFacts
<1>6. ASSUME NEW i \in DOMAIN backlog'
      PROVE  /\ backlog'[i][1].start
             /\ \A k \in DOMAIN backlog'[i] : k # 1 => Follows(backlog'[i][k], backlog'[i][k - 1])
             /\ ~backlog'[i][Len(backlog'[i])].end =>
                   latest'[backlog'[i][Len(backlog'[i])].cid] = backlog'[i][Len(backlog'[i])].id
  <2>1. CASE i = n
    BY <1>1, <1>2, <1>4, <2>1
  <2>2. CASE i \in DOMAIN backlog
    BY <1>1, <1>3, <1>5, <2>2 DEF WholeInv
  <2>3. QED
    BY <1>3, <1>6, <2>1, <2>2
<1>7. QED
  BY <1>6 DEF WholeInv

\* No step cuts a sequence in the backlog in two, or mixes it with another.
LEMMA WholeStep == ASSUME BaseInv, Next PROVE WholeInv'
<1>1. ASSUME NEW c \in Correlations, NEW start \in BOOLEAN, NEW end \in BOOLEAN, Enqueue(c, start, end)
      PROVE  WholeInv'
  <2>1. CASE EnqueueToSlot(c, start, end) \/ EnqueueToNewSlot(c, end)
    <3>1. backlogOf[c] = 0
      BY <2>1 DEF EnqueueToSlot, EnqueueToNewSlot, Known, BaseInv, BacklogConsistent
    <3>2. backlog' = backlog /\ latest' = [latest EXCEPT ![c] = issued + 1]
      BY <2>1 DEF EnqueueToSlot, EnqueueToNewSlot, Accept
    <3>3. latest \in [Correlations -> 0..MaxRequests]
      BY DEF BaseInv, TypeOK
    <3>4. \A d \in Correlations : backlogOf[d] # 0 => latest'[d] = latest[d]
      BY <3>1, <3>2, <3>3
    <3>5. QED
      BY <3>2, <3>4, WholeKept
  <2>2. QED
    BY <1>1, <2>1, EnqueueToBacklogWhole, EnqueueToNewBacklogWhole DEF Enqueue
<1>2. ASSUME NEW b \in Batchers, RefillSlot(b) PROVE WholeInv'
  <2>1. backlog \in Seq(Seq(Requests) \ {<<>>}) /\ backlog # <<>> /\ backlog' = Tail(backlog)
    BY <1>2 DEF BaseInv, RefillSlot, TypeOK
  <2>2. \A i \in DOMAIN backlog' : i + 1 \in DOMAIN backlog /\ backlog'[i] = backlog[i + 1]
    BY <2>1, TailFacts
  <2>3. latest' = latest
    BY <1>2 DEF RefillSlot, history
  <2>4. QED
    BY <2>2, <2>3 DEF BaseInv, WholeInv
<1>3. ASSUME UNCHANGED <<backlog, latest>> PROVE WholeInv'
  BY <1>3, WholeKept
<1>4. CASE Refuse \/ Reap \/ Destroy \/ DestroyMembers \/ Gone
  BY <1>3, <1>4 DEF Refuse, Destroy, DestroyMembers, Gone, vars, history, Reap, TestReaperExit, StartScan,
     EndScan, WakeReaper, EnqueueForceEnd, Evict, Spare, DropStamp, quietReaper
<1>5. ASSUME NEW d \in delivering, Deliver(d) PROVE WholeInv'
  BY <1>3, <1>5 DEF Deliver, history
<1>6. ASSUME NEW c \in Correlations, GoIdle(c) PROVE WholeInv'
  BY <1>3, <1>6 DEF GoIdle, history
<1>7. ASSUME NEW b \in Batchers, Step(b) \/ WakeUp(b) \/ DestroyBatcher(b), ~RefillSlot(b) PROVE WholeInv'
  BY <1>3, <1>7 DEF Step, StartBatcher, TestExit, WaitForWork, WakeUp, Resume, StartCollect, SkipSlot,
     CollectSlot, FreeSlot, ReleaseTooLate, EndCollect, Run, DestroyBatcher, quietThread, history
<1>8. QED
  BY <1>1, <1>2, <1>4, <1>5, <1>6, <1>7 DEF Next

-----------------------------------------------------------------------------
(***************************************************************************)
(* The claims on a slot.                                                   *)
(***************************************************************************)
\* What a step may leave as it is for a slot: that it is ready or belongs to a
\* sequence; what is on its way to it; whether the reaper or its thread ends it;
\* the ENDs in its queue.
SameOwner(s) == ready'[s] = ready[s] /\ \A c \in Correlations : slotOf'[c] = s <=> slotOf[c] = s

SameArrivals(s) ==
    \A d : d \in delivering' /\ d.slot = s /\ d.request.end <=> d \in delivering /\ d.slot = s /\ d.request.end

SameRelease(s) ==
    /\ reaper'.pc = "enqueue" /\ reaper'.slot = s <=> reaper.pc = "enqueue" /\ reaper.slot = s
    /\ pc'[s[1]] \in {"release", "corrupt"} /\ work'[s[1]].slot = s[2] <=> Releases(s)

SameEnds(s) ==
    \A i : i \in DOMAIN queue'[s] /\ queue'[s][i].end <=> i \in DOMAIN queue[s] /\ queue[s][i].end

\* Then the claims on the slot are the same.
LEMMA ClaimsKept ==
    ASSUME NEW s \in Slots, Apart(s), Claimed(s), SameOwner(s), SameArrivals(s), SameRelease(s), SameEnds(s)
    PROVE  Apart(s)' /\ Claimed(s)'
<1>1. /\ Owned(s)' <=> Owned(s)
      /\ EndArriving(s)' <=> EndArriving(s)
      /\ Evicting(s)' <=> Evicting(s)
      /\ EndQueued(s)' <=> EndQueued(s)
      /\ Releases(s)' <=> Releases(s)
      /\ ready'[s] = ready[s]
  <2>1. Owned(s)' <=> Owned(s)
    BY DEF Owned, SameOwner
  <2>2. EndArriving(s)' <=> EndArriving(s)
    BY DEF EndArriving, SameArrivals
  <2>3. EndQueued(s)' <=> EndQueued(s)
    BY DEF EndQueued, SameEnds
  <2>4. (Evicting(s)' <=> Evicting(s)) /\ (Releases(s)' <=> Releases(s))
    BY DEF Evicting, Releases, SameRelease
  <2>5. QED
    BY <2>1, <2>2, <2>3, <2>4 DEF SameOwner
<1>2. \A c, e \in Correlations : slotOf'[c] = s /\ slotOf'[e] = s => c = e
  BY DEF Apart, SameOwner
<1>3. \A d, e \in delivering' : d.slot = s /\ d.request.end /\ e.slot = s /\ e.request.end => d = e
  BY DEF Apart, SameArrivals
<1>4. \A i, j \in DOMAIN queue'[s] : queue'[s][i].end /\ queue'[s][j].end => i = j
  BY DEF Apart, SameEnds
<1>5. QED
  BY <1>1, <1>2, <1>3, <1>4 DEF Apart, Claimed

\* The queues after SequenceBatch::Enqueue: one has a payload more.
LEMMA PutQueue ==
    ASSUME TypeOK, NEW s \in Slots, NEW p \in Payloads, Put(s, p)
    PROVE  /\ \A q \in Slots : q # s => queue'[q] = queue[q]
           /\ queue'[s] = Append(queue[s], p) /\ queue'[s] # <<>>
           /\ Len(queue[s]) \in Nat /\ DOMAIN queue[s] = 1..Len(queue[s])
           /\ Len(queue'[s]) = Len(queue[s]) + 1
           /\ DOMAIN queue'[s] = DOMAIN queue[s] \cup {Len(queue[s]) + 1}
           /\ queue'[s][Len(queue[s]) + 1] = p
           /\ \A i \in DOMAIN queue[s] : queue'[s][i] = queue[s][i]
<1>1. queue \in [Slots -> Seq(Payloads)] /\ queue' = [queue EXCEPT ![s] = Append(@, p)]
  BY DEF TypeOK, Put
<1>2. queue[s] \in Seq(Payloads) /\ queue'[s] = Append(queue[s], p)
  BY <1>1
<1>3. \A q \in Slots : q # s => queue'[q] = queue[q]
  BY <1>1
<1>4. QED
  BY <1>2, <1>3

\* SequenceBatch::Enqueue wakes a thread at most, so it does not make one release a slot.
LEMMA PutThread ==
    ASSUME TypeOK, NEW s \in Slots, NEW p, Put(s, p), work' = work, NEW q \in Slots
    PROVE  pc'[q[1]] \in {"release", "corrupt"} /\ work'[q[1]].slot = q[2] <=> Releases(q)
<1>1. s[1] \in Batchers /\ q[1] \in Batchers
  BY DEF Slots
<1>2. pc' = [pc EXCEPT ![s[1]] = Notified(s[1])] /\ pc \in [Batchers -> PCs]
  BY DEF Put, TypeOK
<1>3. QED
  BY <1>1, <1>2 DEF Notified, Releases

\* A queue whose head is taken.
LEMMA CollectQueue ==
    ASSUME TypeOK, NEW b \in Batchers, CollectSlot(b)
    PROVE  /\ Slot(b) \in Slots /\ Slot(b) = <<b, work[b].slot>>
           /\ \A q \in Slots : q # Slot(b) => queue'[q] = queue[q]
           /\ queue[Slot(b)] # <<>> /\ Head(queue[Slot(b)]) = queue[Slot(b)][1]
           /\ queue[Slot(b)][1] \in Payloads
           /\ Len(queue[Slot(b)]) \in Nat /\ DOMAIN queue[Slot(b)] = 1..Len(queue[Slot(b)])
           /\ 1 \in DOMAIN queue[Slot(b)]
           /\ queue'[Slot(b)] = Tail(queue[Slot(b)])
           /\ Len(queue'[Slot(b)]) = Len(queue[Slot(b)]) - 1
           /\ DOMAIN queue'[Slot(b)] = 1..Len(queue'[Slot(b)])
           /\ \A i \in DOMAIN queue'[Slot(b)] :
                 i \in Nat /\ i + 1 \in DOMAIN queue[Slot(b)] /\ queue'[Slot(b)][i] = queue[Slot(b)][i + 1]
           /\ \A i \in DOMAIN queue[Slot(b)] :
                 i # 1 => i - 1 \in DOMAIN queue'[Slot(b)] /\ queue'[Slot(b)][i - 1] = queue[Slot(b)][i]
<1>1. Slot(b) \in Slots /\ Slot(b) = <<b, work[b].slot>>
  BY BatchersAssumption DEF CollectSlot, Collecting, Slot, Slots, TypeOK, Works
<1>2. PICK s \in Slots : s = Slot(b)
  BY <1>1
<1>3. queue \in [Slots -> Seq(Payloads)] /\ queue[s] # <<>> /\ queue' = [queue EXCEPT ![s] = Tail(@)]
  BY <1>2 DEF TypeOK, CollectSlot
<1>4. queue[s] \in Seq(Payloads) /\ queue'[s] = Tail(queue[s]) /\ \A q \in Slots : q # s => queue'[q] = queue[q]
  BY <1>3
<1>5. /\ Head(queue[s]) = queue[s][1] /\ queue[s][1] \in Payloads
      /\ Len(queue[s]) \in Nat /\ DOMAIN queue[s] = 1..Len(queue[s]) /\ 1 \in DOMAIN queue[s]
      /\ Len(Tail(queue[s])) = Len(queue[s]) - 1
      /\ DOMAIN Tail(queue[s]) = 1..Len(Tail(queue[s]))
  BY <1>3, <1>4
<1>6. /\ \A i \in DOMAIN Tail(queue[s]) :
            i \in Nat /\ i + 1 \in DOMAIN queue[s] /\ Tail(queue[s])[i] = queue[s][i + 1]
      /\ \A i \in DOMAIN queue[s] :
            i # 1 => i - 1 \in DOMAIN Tail(queue[s]) /\ Tail(queue[s])[i - 1] = queue[s][i]
  BY <1>3, <1>4
<1>7. QED
  BY <1>1, <1>2, <1>3, <1>4, <1>5, <1>6

\* A step that leaves the claims on all slots as they are.
LEMMA AllClaimsKept ==
    ASSUME ClaimInv, \A s \in Slots : SameOwner(s) /\ SameArrivals(s) /\ SameRelease(s) /\ SameEnds(s)
    PROVE  ClaimInv'
  BY ClaimsKept DEF ClaimInv

\* A step that changes the claims on one slot.
LEMMA OneClaimMoves ==
    ASSUME ClaimInv, NEW s \in Slots,
           \A q \in Slots : q # s => SameOwner(q) /\ SameArrivals(q) /\ SameRelease(q) /\ SameEnds(q),
           Apart(s)' /\ Claimed(s)'
    PROVE  ClaimInv'
  BY ClaimsKept DEF ClaimInv

\* A request of a sequence that has a slot; if it ends the sequence, the slot
\* waits for it to arrive.
LEMMA EnqueueToSlotClaims ==
    ASSUME BaseInv, NEW c \in Correlations, NEW start \in BOOLEAN, NEW end \in BOOLEAN,
           EnqueueToSlot(c, start, end)
    PROVE  ClaimInv'
<1>1. TypeOK /\ ClaimInv
  BY DEF BaseInv
<1>2. PICK s : s = slotOf[c]
  OBVIOUS
<1>3. s \in Slots /\ slotOf \in [Correlations -> Slots \cup {None}]
  BY <1>1, <1>2 DEF EnqueueToSlot, TypeOK
<1>4. PICK d : d = [request |-> NewRequest(c, start, end), slot |-> s]
  OBVIOUS
<1>5. /\ d.slot = s /\ d.request.end = end
      /\ delivering' = delivering \cup {d}
      /\ slotOf' = IF end THEN Unmapped(c) ELSE slotOf
      /\ UNCHANGED <<ready, reaper, queue, pc, work>>
  BY <1>2, <1>4 DEF EnqueueToSlot, Dispatch, NewRequest, slots, locals
<1>6. ASSUME NEW q \in Slots PROVE SameRelease(q) /\ SameEnds(q)
  BY <1>5 DEF SameRelease, SameEnds, Releases
<1>7. ASSUME NEW q \in Slots, q # s \/ ~end PROVE SameOwner(q) /\ SameArrivals(q)
  <2>1. SameArrivals(q)
    BY <1>5, <1>7 DEF SameArrivals
  <2>2. ready'[q] = ready[q]
    BY <1>5
  <2>3. ASSUME NEW e \in Correlations PROVE slotOf'[e] = q <=> slotOf[e] = q
    <3>1. CASE ~end
      BY <1>5, <3>1
    <3>2. CASE q # s /\ q # None
      BY <1>2, <1>3, <1>5, <3>2 DEF Unmapped
    <3>3. CASE q # s /\ end /\ q = None
      BY <1>1, <1>3, <3>3, NoneAssumption
    <3>4. QED
      BY <1>7, <3>1, <3>2, <3>3
  <2>4. QED
    BY <2>1, <2>2, <2>3 DEF SameOwner
<1>8. CASE ~end
  BY <1>1, <1>6, <1>7, <1>8, AllClaimsKept
<1>9. CASE end
  <2>1. Apart(s) /\ Owned(s)
    BY <1>1, <1>2, <1>3 DEF ClaimInv, Owned
  <2>2. \A e \in Correlations : slotOf'[e] # s
    BY <1>2, <1>3, <1>5, <1>9, <2>1, NoneAssumption DEF Apart, Unmapped
  <2>3. \A e \in delivering' : e.slot = s /\ e.request.end => e = d
    BY <1>5, <2>1 DEF Apart, EndArriving
  <2>4. EndArriving(s)'
    BY <1>5, <1>9 DEF EndArriving
  <2>5. Apart(s)'
    BY <1>5, <2>1, <2>2, <2>3 DEF Apart, Owned, EndArriving, Evicting, EndQueued, Releases
  <2>6. QED
    BY <1>1, <1>3, <1>6, <1>7, <2>4, <2>5, OneClaimMoves DEF Claimed
<1>10. QED
  BY <1>8, <1>9

\* A new sequence takes a ready slot, or its only request is on its way there.
LEMMA EnqueueToNewSlotClaims ==
    ASSUME BaseInv, NEW c \in Correlations, NEW end \in BOOLEAN, EnqueueToNewSlot(c, end)
    PROVE  ClaimInv'
<1>1. TypeOK /\ ClaimInv /\ slotOf[c] = None
  BY DEF BaseInv, EnqueueToNewSlot, Known
<1>2. PICK s \in Top :
         /\ ready' = Taken(s)
         /\ Dispatch(NewRequest(c, TRUE, end), s)
         /\ slotOf' = IF end THEN slotOf ELSE [slotOf EXCEPT ![c] = s]
  BY DEF EnqueueToNewSlot
<1>3. s \in Slots /\ ready[s] > 0 /\ ready \in [Slots -> Nat] /\ slotOf \in [Correlations -> Slots \cup {None}]
  BY <1>1, <1>2 DEF Top, TypeOK
<1>4. PICK d : d = [request |-> NewRequest(c, TRUE, end), slot |-> s]
  OBVIOUS
<1>5. /\ d.slot = s /\ d.request.end = end
      /\ delivering' = delivering \cup {d}
      /\ UNCHANGED <<reaper, queue, pc, work>>
  BY <1>2, <1>4 DEF EnqueueToNewSlot, Dispatch, NewRequest, slots, locals
<1>6. ASSUME NEW q \in Slots PROVE SameRelease(q) /\ SameEnds(q)
  BY <1>5 DEF SameRelease, SameEnds, Releases
<1>7. ASSUME NEW q \in Slots, q # s PROVE SameOwner(q) /\ SameArrivals(q)
  <2>1. SameArrivals(q)
    BY <1>5, <1>7 DEF SameArrivals
  <2>2. ready'[q] = ready[q]
    BY <1>2, <1>3, <1>7 DEF Taken
  <2>3. \A e \in Correlations : slotOf'[e] = q <=> slotOf[e] = q
    BY <1>1, <1>2, <1>3, <1>7, NoneAssumption
  <2>4. QED
    BY <2>1, <2>2, <2>3 DEF SameOwner
<1>8. Apart(s) /\ ready[s] = 1 /\ ready'[s] = 0
  BY <1>1, <1>2, <1>3 DEF ClaimInv, Taken, Apart
<1>9. ~Owned(s) /\ ~EndArriving(s) /\ ~Evicting(s) /\ ~EndQueued(s) /\ ~Releases(s)
  BY <1>8 DEF Apart
<1>10. ~Evicting(s)' /\ ~EndQueued(s)' /\ ~Releases(s)'
  BY <1>5, <1>9 DEF Evicting, EndQueued, Releases
<1>11. CASE end
  <2>1. ~Owned(s)' /\ EndArriving(s)'
    BY <1>2, <1>5, <1>9, <1>11 DEF Owned, EndArriving
  <2>2. \A e \in delivering' : e.slot = s /\ e.request.end => e = d
    BY <1>5, <1>9 DEF EndArriving
  <2>3. Apart(s)'
    BY <1>5, <1>8, <1>10, <2>1, <2>2 DEF Apart, Owned, EndQueued
  <2>4. QED
    BY <1>1, <1>3, <1>6, <1>7, <2>1, <2>3, OneClaimMoves DEF Claimed
<1>12. CASE ~end
  <2>1. \A e \in Correlations : slotOf'[e] = s <=> e = c
    BY <1>2, <1>3, <1>9, <1>12 DEF Owned
  <2>2. Owned(s)' /\ ~EndArriving(s)'
    BY <1>5, <1>9, <1>12, <2>1 DEF Owned, EndArriving
  <2>3. Apart(s)'
    BY <1>8, <1>10, <2>1, <2>2 DEF Apart, EndArriving, EndQueued
  <2>4. QED
    BY <1>1, <1>3, <1>6, <1>7, <2>2, <2>3, OneClaimMoves DEF Claimed
<1>13. QED
  BY <1>11, <1>12

\* A request put in the queue of a slot, which is an END only if one was due there.
LEMMA PutClaims ==
    ASSUME TypeOK, ClaimInv, NEW s \in Slots, NEW p \in Payloads, Put(s, p),
           UNCHANGED <<slotOf, ready, work>>,
           \A q \in Slots : q # s \/ ~p.end =>
              /\ SameArrivals(q)
              /\ reaper'.pc = "enqueue" /\ reaper'.slot = q <=> Evicting(q),
           p.end => /\ EndArriving(s) \/ Evicting(s)
                    /\ ~EndArriving(s)' /\ ~Evicting(s)'
    PROVE  ClaimInv'
<1>1. ASSUME NEW q \in Slots PROVE SameOwner(q)
  BY DEF SameOwner
<1>2. ASSUME NEW q \in Slots
      PROVE  pc'[q[1]] \in {"release", "corrupt"} /\ work'[q[1]].slot = q[2] <=> Releases(q)
  BY PutThread
<1>3. ASSUME NEW q \in Slots, q # s \/ ~p.end PROVE SameArrivals(q) /\ SameRelease(q) /\ SameEnds(q)
  <2>1. SameArrivals(q) /\ SameRelease(q)
    BY <1>2, <1>3 DEF SameRelease, Evicting
  <2>2. SameEnds(q)
    BY <1>3, PutQueue DEF SameEnds
  <2>3. QED
    BY <2>1, <2>2
<1>4. CASE ~p.end
  BY <1>1, <1>3, <1>4, AllClaimsKept
<1>5. CASE p.end
  <2>1. /\ Apart(s)
        /\ ready[s] = 0 /\ ~Owned(s) /\ ~EndQueued(s) /\ ~Releases(s)
        /\ ready[s] \in Nat
    BY <1>5 DEF ClaimInv, Apart, TypeOK
  <2>2. ready'[s] = 0 /\ ~Owned(s)' /\ ~Releases(s)' /\ ~EndArriving(s)' /\ ~Evicting(s)'
    BY <1>2, <1>5, <2>1 DEF Owned, Releases
  <2>3. \A i \in DOMAIN queue'[s] : queue'[s][i].end <=> i = Len(queue[s]) + 1
    BY <1>5, <2>1, PutQueue DEF EndQueued
  <2>4. Len(queue[s]) + 1 \in DOMAIN queue'[s]
    BY PutQueue
  <2>5. EndQueued(s)'
    BY <2>3, <2>4 DEF EndQueued
  <2>6. Apart(s)'
    BY <2>2, <2>3, <2>5 DEF Apart, Owned, EndArriving
  <2>7. QED
    BY <1>1, <1>3, <2>5, <2>6, OneClaimMoves DEF Claimed
<1>6. QED
  BY <1>4, <1>5

\* The END on its way is now in the queue.
LEMMA DeliverClaims ==
    ASSUME BaseInv, NEW d \in delivering, Deliver(d)
    PROVE  ClaimInv'
<1>1. TypeOK /\ ClaimInv /\ d.slot \in Slots /\ d.request \in Payloads
  BY DEF BaseInv, TypeOK, Payloads
<1>2. /\ Put(d.slot, d.request)
      /\ delivering' = delivering \ {d}
      /\ UNCHANGED <<slotOf, ready, work, reaper>>
  BY DEF Deliver, maps, locals
<1>3. \A q \in Slots : q # d.slot \/ ~d.request.end =>
              /\ SameArrivals(q)
              /\ reaper'.pc = "enqueue" /\ reaper'.slot = q <=> Evicting(q)
  BY <1>2 DEF SameArrivals, Evicting
<1>4. d.request.end => EndArriving(d.slot) /\ ~EndArriving(d.slot)' /\ ~Evicting(d.slot)'
  <2>1. SUFFICES ASSUME d.request.end PROVE EndArriving(d.slot) /\ ~EndArriving(d.slot)' /\ ~Evicting(d.slot)'
    OBVIOUS
  <2>2. EndArriving(d.slot) /\ Apart(d.slot)
    BY <1>1, <2>1 DEF EndArriving, ClaimInv
  <2>3. QED
    BY <1>2, <2>1, <2>2 DEF EndArriving, Evicting, Apart
<1>5. QED
  BY <1>1, <1>2, <1>3, <1>4, PutClaims

\* The reaper's END is now in the queue.
LEMMA ForceEndClaims == ASSUME BaseInv, EnqueueForceEnd PROVE ClaimInv'
<1>1. PICK s : s = reaper.slot
  OBVIOUS
<1>2. TypeOK /\ ClaimInv /\ s \in Slots /\ ForceEnd \in Payloads /\ ForceEnd.end
  BY <1>1 DEF BaseInv, TypeOK, Payloads, EnqueueForceEnd, ForceEnd
<1>3. /\ Put(s, ForceEnd)
      /\ reaper.pc = "enqueue"
      /\ reaper'.pc = "scan"
      /\ UNCHANGED <<slotOf, ready, work, delivering>>
  BY <1>1 DEF EnqueueForceEnd, maps, locals, BaseInv, TypeOK, Reapers
<1>4. \A q \in Slots : q # s \/ ~ForceEnd.end =>
              /\ SameArrivals(q)
              /\ reaper'.pc = "enqueue" /\ reaper'.slot = q <=> Evicting(q)
  BY <1>1, <1>2, <1>3 DEF SameArrivals, Evicting
<1>5. Evicting(s) /\ ~EndArriving(s)' /\ ~Evicting(s)'
  <2>1. Evicting(s) /\ Apart(s)
    BY <1>1, <1>2, <1>3 DEF Evicting, ClaimInv
  <2>2. QED
    BY <1>3, <2>1 DEF EndArriving, Evicting, Apart
<1>6. QED
  BY <1>2, <1>3, <1>4, <1>5, PutClaims

\* An idle sequence gives its slot to the reaper.
LEMMA EvictClaims == ASSUME BaseInv, NEW c \in Correlations, Evict(c) PROVE ClaimInv'
<1>1. TypeOK /\ ClaimInv
  BY DEF BaseInv
<1>2. PICK s : s = slotOf[c]
  OBVIOUS
<1>3. /\ s \in Slots /\ slotOf \in [Correlations -> Slots \cup {None}]
      /\ slotOf' = Unmapped(c)
      /\ reaper.pc = "scan" /\ reaper'.pc = "enqueue" /\ reaper'.slot = s
      /\ UNCHANGED <<ready, delivering, queue, pc, work>>
  BY <1>1, <1>2 DEF Evict, TypeOK, Reapers, slots, locals
<1>4. ASSUME NEW q \in Slots PROVE SameArrivals(q) /\ SameEnds(q)
  BY <1>3 DEF SameArrivals, SameEnds
<1>5. ASSUME NEW q \in Slots, q # s PROVE SameOwner(q) /\ SameRelease(q)
  BY <1>2, <1>3, <1>5, NoneAssumption DEF SameOwner, SameRelease, Releases, Unmapped
<1>6. Apart(s) /\ Owned(s)
  BY <1>1, <1>2, <1>3 DEF ClaimInv, Owned
<1>7. \A e \in Correlations : slotOf'[e] # s
  BY <1>2, <1>3, <1>6, NoneAssumption DEF Apart, Unmapped
<1>8. Evicting(s)'
  BY <1>3 DEF Evicting
<1>9. Apart(s)'
  BY <1>3, <1>6, <1>7, <1>8 DEF Apart, Owned, EndArriving, EndQueued, Releases
<1>10. QED
  BY <1>1, <1>3, <1>4, <1>5, <1>8, <1>9, OneClaimMoves DEF Claimed

\* A payload is collected; an END makes the thread release the slot.
LEMMA CollectClaims == ASSUME BaseInv, NEW b \in Batchers, CollectSlot(b) PROVE ClaimInv'
<1>1. TypeOK /\ ClaimInv
  BY DEF BaseInv
<1>2. PICK s \in Slots : s = Slot(b)
  BY <1>1, CollectQueue
<1>3. PICK p \in Payloads : p = queue[s][1]
  BY <1>1, <1>2, CollectQueue
<1>4. /\ s = <<b, work[b].slot>> /\ s[1] = b /\ s[2] = work[b].slot
      /\ 1 \in DOMAIN queue[s]
      /\ \A q \in Slots : q # s => queue'[q] = queue[q]
      /\ \A i \in DOMAIN queue'[s] : i \in Nat /\ i + 1 \in DOMAIN queue[s] /\ queue'[s][i] = queue[s][i + 1]
      /\ \A i \in DOMAIN queue[s] : i # 1 => i - 1 \in DOMAIN queue'[s] /\ queue'[s][i - 1] = queue[s][i]
  <2>1. /\ Slot(b) = <<b, work[b].slot>>
        /\ 1 \in DOMAIN queue[Slot(b)]
        /\ \A q \in Slots : q # Slot(b) => queue'[q] = queue[q]
        /\ \A i \in DOMAIN queue'[Slot(b)] :
              i \in Nat /\ i + 1 \in DOMAIN queue[Slot(b)] /\ queue'[Slot(b)][i] = queue[Slot(b)][i + 1]
        /\ \A i \in DOMAIN queue[Slot(b)] :
              i # 1 => i - 1 \in DOMAIN queue'[Slot(b)] /\ queue'[Slot(b)][i - 1] = queue[Slot(b)][i]
    BY <1>1, CollectQueue
  <2>2. s = <<b, work[b].slot>> /\ s[1] = b /\ s[2] = work[b].slot
    BY <1>2, <2>1
  <2>3. QED
    BY <1>2, <2>1, <2>2
<1>5. /\ pc[b] = "collect" /\ pc \in [Batchers -> PCs] /\ work \in [Batchers -> Works]
      /\ pc' = [pc EXCEPT ![b] = IF p.end THEN "release" ELSE "collect"]
      /\ p.end => work' = work
      /\ \A e \in Batchers : e # b => work'[e] = work[e]
      /\ UNCHANGED <<slotOf, ready, delivering, reaper>>
  <2>1. Head(queue[Slot(b)]) = p
    BY <1>1, <1>2, <1>3, CollectQueue
  <2>2. work \in [Batchers -> Works] /\ (work' = IF p.end THEN work ELSE [work EXCEPT ![b].slot = @ + 1])
    BY <1>1, <2>1 DEF CollectSlot, TypeOK
  <2>3. QED
    BY <1>1, <2>1, <2>2 DEF CollectSlot, Collecting, GoTo, TypeOK, quietThread, maps
<1>6. ASSUME NEW q \in Slots PROVE SameOwner(q) /\ SameArrivals(q)
  BY <1>5 DEF SameOwner, SameArrivals
<1>7. ASSUME NEW q \in Slots, q # s PROVE SameRelease(q) /\ SameEnds(q)
  <2>1. q[1] \in Batchers /\ (q[1] = b => q[2] # work[b].slot)
    BY <1>4, <1>7 DEF Slots
  <2>2. SameRelease(q)
    BY <1>5, <2>1 DEF SameRelease, Releases
  <2>3. QED
    BY <1>4, <1>7, <2>2 DEF SameEnds
<1>8. ~Releases(s)
  BY <1>4, <1>5 DEF Releases
<1>9. Apart(s) /\ Claimed(s)
  BY <1>1 DEF ClaimInv
<1>10. CASE p.end
  <2>1. EndQueued(s)
    BY <1>3, <1>4, <1>10 DEF EndQueued
  <2>2. \A i \in DOMAIN queue'[s] : ~queue'[s][i].end
    <3>1. ASSUME NEW i \in DOMAIN queue'[s], queue'[s][i].end PROVE FALSE
      <4>1. i + 1 = 1 /\ i \in Nat
        BY <1>3, <1>4, <1>9, <1>10, <3>1 DEF Apart
      <4>2. i # 0
        BY <1>1, <1>2, <3>1, CollectQueue
      <4>3. QED
        BY <4>1, <4>2
    <3>2. QED
      BY <3>1
  <2>3. Releases(s)'
    BY <1>4, <1>5, <1>10 DEF Releases
  <2>4. ready'[s] = 0 /\ ~Owned(s)' /\ ~EndArriving(s)' /\ ~Evicting(s)'
    <3>1. ready[s] = 0 /\ ~Owned(s) /\ ~EndArriving(s) /\ ~Evicting(s)
      BY <1>1, <1>9, <2>1 DEF Apart, TypeOK
    <3>2. QED
      BY <1>5, <3>1 DEF Owned, EndArriving, Evicting
  <2>5. Apart(s)'
    BY <2>2, <2>3, <2>4 DEF Apart, Owned, EndArriving, EndQueued
  <2>6. QED
    BY <1>1, <1>6, <1>7, <2>3, <2>5, OneClaimMoves DEF Claimed
<1>11. CASE ~p.end
  <2>1. ~Releases(s)'
    BY <1>4, <1>5, <1>11 DEF Releases
  <2>2. ready'[s] = ready[s] /\ (Owned(s)' <=> Owned(s)) /\ (EndArriving(s)' <=> EndArriving(s)) /\ (Evicting(s)' <=> Evicting(s))
    BY <1>5 DEF Owned, EndArriving, Evicting
  <2>3. EndQueued(s)' <=> EndQueued(s)
    BY <1>3, <1>4, <1>11 DEF EndQueued
  <2>4. \A i, j \in DOMAIN queue'[s] : queue'[s][i].end /\ queue'[s][j].end => i = j
    <3>1. ASSUME NEW i \in DOMAIN queue'[s], NEW j \in DOMAIN queue'[s], queue'[s][i].end, queue'[s][j].end
          PROVE  i = j
      <4>1. i + 1 = j + 1
        BY <1>4, <1>9, <3>1 DEF Apart
      <4>2. i \in Nat /\ j \in Nat
        BY <1>4, <3>1
      <4>3. QED
        BY <4>1, <4>2
    <3>2. QED
      BY <3>1
  <2>5. /\ \A c, e \in Correlations : slotOf'[c] = s /\ slotOf'[e] = s => c = e
        /\ \A d, e \in delivering' : d.slot = s /\ d.request.end /\ e.slot = s /\ e.request.end => d = e
    BY <1>5, <1>9 DEF Apart
  <2>6. Apart(s)' /\ Claimed(s)'
    BY <1>8, <1>9, <2>1, <2>2, <2>3, <2>4, <2>5 DEF Apart, Claimed
  <2>7. QED
    BY <1>1, <1>6, <1>7, <2>6, OneClaimMoves
<1>12. QED
  BY <1>10, <1>11

\* The thread that releases a slot goes on, and nobody else moves.
LEMMA ReleaseEnds ==
    ASSUME BaseInv, NEW b \in Batchers, RefillSlot(b) \/ FreeSlot(b), NEW s \in Slots, s = Slot(b)
    PROVE  /\ s[1] = b /\ s[2] = work[b].slot
           /\ Releases(s) /\ ~Releases(s)'
           /\ \A q \in Slots : q # s => SameRelease(q)
<1>1. s[1] = b /\ s[2] = work[b].slot
  BY DEF Slot
<1>2. /\ pc[b] = "release" /\ pc' = [pc EXCEPT ![b] = "collect"] /\ pc \in [Batchers -> PCs]
      /\ reaper' = reaper
  BY DEF RefillSlot, FreeSlot, Releasing, GoTo, BaseInv, TypeOK
<1>3. \A e \in Batchers : e # b => work'[e] = work[e]
  BY DEF RefillSlot, FreeSlot, BaseInv, TypeOK
<1>4. Releases(s) /\ ~Releases(s)'
  BY <1>1, <1>2 DEF Releases
<1>5. ASSUME NEW q \in Slots, q # s PROVE SameRelease(q)
  <2>1. q[1] \in Batchers /\ (q[1] = b => q[2] # work[b].slot)
    BY <1>1, <1>5 DEF Slots, Slot
  <2>2. QED
    BY <1>2, <1>3, <2>1 DEF SameRelease, Releases
<1>6. QED
  BY <1>1, <1>4, <1>5

\* The backlog's first queue and its last request.
LEMMA HeadFacts ==
    ASSUME BaseInv, backlog # <<>>, NEW h, h = backlog[1]
    PROVE  /\ 1 \in DOMAIN backlog /\ Head(backlog) = h
           /\ h \in Seq(Requests) /\ h # <<>>
           /\ Len(h) \in DOMAIN h /\ h[Len(h)] \in Requests
           /\ h[Len(h)].cid = h[1].cid /\ h[1].cid \in Correlations
           /\ ~h[Len(h)].end => slotOf[h[1].cid] = None
<1>1. TypeOK
  BY DEF BaseInv
<1>2. 1 \in DOMAIN backlog /\ Head(backlog) = h
  <2>1. backlog \in Seq(Seq(Requests) \ {<<>>}) /\ backlog # <<>>
    BY DEF BaseInv, TypeOK
  <2>2. QED
    BY <2>1
<1>3. h \in Seq(Requests) /\ h # <<>>
  BY <1>1, <1>2, BacklogParts
<1>4. \A r \in Requests : r.cid \in Correlations
  BY DEF Requests
<1>5. QED
  BY <1>2, <1>3, <1>4, OpenQueue

\* The slot released belongs to the backlog's first sequence, or has its END.
LEMMA RefillClaims == ASSUME BaseInv, NEW b \in Batchers, RefillSlot(b) PROVE ClaimInv'
<1>1. TypeOK /\ ClaimInv /\ WholeInv
  BY DEF BaseInv
<1>2. PICK s \in Slots : s = Slot(b)
  BY DEF BaseInv, ReleaseInv, RefillSlot, Releasing
<1>3. /\ Releases(s) /\ ~Releases(s)'
      /\ \A q \in Slots : q # s => SameRelease(q)
  BY <1>2, ReleaseEnds
<1>4. PICK h : h = backlog[1]
  OBVIOUS
<1>5. /\ 1 \in DOMAIN backlog /\ Head(backlog) = h
      /\ h \in Seq(Requests) /\ h # <<>>
      /\ Len(h) \in DOMAIN h /\ h[Len(h)] \in Requests
      /\ h[Len(h)].cid = h[1].cid /\ h[1].cid \in Correlations
      /\ ~h[Len(h)].end => slotOf[h[1].cid] = None
  BY <1>4, HeadFacts DEF RefillSlot
<1>6. PICK r : r = h[Len(h)]
  OBVIOUS
<1>7. /\ queue' = [queue EXCEPT ![s] = h]
      /\ slotOf' = IF r.end THEN slotOf ELSE [slotOf EXCEPT ![r.cid] = s]
      /\ queue \in [Slots -> Seq(Payloads)]
      /\ slotOf \in [Correlations -> Slots \cup {None}]
      /\ UNCHANGED <<ready, delivering, reaper>>
  BY <1>1, <1>2, <1>5, <1>6 DEF RefillSlot, Adopt, maps, TypeOK
<1>8. \A q \in Slots : SameArrivals(q)
  BY <1>7 DEF SameArrivals
<1>9. ASSUME NEW q \in Slots, q # s PROVE SameOwner(q) /\ SameEnds(q)
  BY <1>5, <1>6, <1>7, <1>9, NoneAssumption DEF SameOwner, SameEnds
<1>10. /\ Apart(s)
       /\ ready[s] = 0 /\ ~Owned(s) /\ ~EndArriving(s) /\ ~Evicting(s)
  BY <1>1, <1>3 DEF ClaimInv, Apart, TypeOK
<1>11. ready'[s] = 0 /\ ~EndArriving(s)' /\ ~Evicting(s)'
  BY <1>7, <1>10 DEF EndArriving, Evicting
<1>12. \A k \in DOMAIN h : k # Len(h) => ~h[k].end
  <2>1. ASSUME NEW k \in DOMAIN h, k # Len(h) PROVE ~h[k].end
    <3>1. k + 1 \in DOMAIN h /\ k + 1 # 1 /\ (k + 1) - 1 = k
      BY <1>5, <2>1
    <3>2. Follows(h[k + 1], h[(k + 1) - 1])
      BY <1>1, <1>4, <1>5, <3>1 DEF WholeInv
    <3>3. QED
      BY <3>1, <3>2 DEF Follows
  <2>2. QED
    BY <2>1
<1>13. queue'[s] = h
  BY <1>7
<1>14. CASE r.end
  <2>1. EndQueued(s)' /\ ~Owned(s)'
    BY <1>5, <1>6, <1>7, <1>10, <1>13, <1>14 DEF EndQueued, Owned
  <2>2. \A i, j \in DOMAIN queue'[s] : queue'[s][i].end /\ queue'[s][j].end => i = j
    BY <1>12, <1>13
  <2>3. Apart(s)'
    BY <1>3, <1>11, <2>1, <2>2 DEF Apart, Owned, EndArriving
  <2>4. QED
    BY <1>1, <1>3, <1>8, <1>9, <2>1, <2>3, OneClaimMoves DEF Claimed
<1>15. CASE ~r.end
  <2>1. \A e \in Correlations : slotOf'[e] = s <=> e = r.cid
    BY <1>5, <1>6, <1>7, <1>10, <1>15 DEF Owned
  <2>2. Owned(s)'
    BY <1>5, <1>6, <2>1 DEF Owned
  <2>3. ~EndQueued(s)'
    BY <1>6, <1>12, <1>13, <1>15 DEF EndQueued
  <2>4. Apart(s)'
    BY <1>3, <1>11, <2>1, <2>2, <2>3 DEF Apart, EndArriving, EndQueued
  <2>5. QED
    BY <1>1, <1>3, <1>8, <1>9, <2>2, <2>4, OneClaimMoves DEF Claimed
<1>16. QED
  BY <1>14, <1>15

\* The slot released is ready.
LEMMA FreeClaims == ASSUME BaseInv, NEW b \in Batchers, FreeSlot(b) PROVE ClaimInv'
<1>1. TypeOK /\ ClaimInv
  BY DEF BaseInv
<1>2. PICK s \in Slots : s = Slot(b)
  BY DEF BaseInv, ReleaseInv, FreeSlot, Releasing
<1>3. /\ Releases(s) /\ ~Releases(s)'
      /\ \A q \in Slots : q # s => SameRelease(q)
  BY <1>2, ReleaseEnds
<1>4. /\ ready \in [Slots -> Nat] /\ ready' = [ready EXCEPT ![s] = @ + 1]
      /\ UNCHANGED <<slotOf, delivering, reaper, queue>>
  BY <1>1, <1>2 DEF FreeSlot, maps, TypeOK
<1>5. ASSUME NEW q \in Slots PROVE SameArrivals(q) /\ SameEnds(q)
  BY <1>4 DEF SameArrivals, SameEnds
<1>6. ASSUME NEW q \in Slots, q # s PROVE SameOwner(q)
  BY <1>4, <1>6 DEF SameOwner
<1>7. /\ Apart(s)
      /\ ready[s] = 0 /\ ~Owned(s) /\ ~EndArriving(s) /\ ~Evicting(s) /\ ~EndQueued(s)
  BY <1>1, <1>3 DEF ClaimInv, Apart, TypeOK
<1>8. ready'[s] = 1 /\ ~Owned(s)' /\ ~EndArriving(s)' /\ ~Evicting(s)' /\ ~EndQueued(s)'
  BY <1>4, <1>7 DEF Owned, EndArriving, Evicting, EndQueued
<1>9. Apart(s)'
  BY <1>3, <1>4, <1>7, <1>8 DEF Apart
<1>10. QED
  BY <1>1, <1>3, <1>5, <1>6, <1>8, <1>9, OneClaimMoves DEF Claimed

\* The steps of a thread that neither starts nor ends to release a slot.
Moves(b) ==
    \/ StartBatcher(b) \/ TestExit(b) \/ WaitForWork(b) \/ WakeUp(b) \/ Resume(b) \/ StartCollect(b)
    \/ SkipSlot(b) \/ ReleaseTooLate(b) \/ EndCollect(b) \/ Run(b) \/ DestroyBatcher(b)

\* What they leave as it is.
LEMMA MoveFrame ==
    ASSUME TypeOK, NEW b \in Batchers, Moves(b)
    PROVE  /\ UNCHANGED <<maps, backlog, ready, stamp, delivering, reaper, queue, active, issued, latest, tenant>>
           /\ \A e \in Batchers : e # b => work'[e] = work[e] /\ pc'[e] = pc[e]
           /\ \A q \in Slots : SameRelease(q)
<1>1. UNCHANGED <<maps, backlog, ready, stamp, delivering, reaper, queue, active, issued, latest, tenant>>
  BY DEF Moves, StartBatcher, TestExit, WaitForWork, WakeUp, Resume, StartCollect, SkipSlot, ReleaseTooLate,
     EndCollect, Run, DestroyBatcher, quietThread, history, slots
<1>2. \A e \in Batchers : e # b => work'[e] = work[e] /\ pc'[e] = pc[e]
  BY DEF Moves, StartBatcher, TestExit, WaitForWork, WakeUp, Resume, StartCollect, SkipSlot, ReleaseTooLate,
     EndCollect, Run, DestroyBatcher, GoTo, locals, TypeOK
<1>3. \/ pc[b] \notin {"release", "corrupt"} /\ pc'[b] \notin {"release", "corrupt"}
      \/ pc[b] \in {"release", "corrupt"} /\ pc'[b] \in {"release", "corrupt"} /\ work' = work
  BY DEF Moves, StartBatcher, TestExit, WaitForWork, WakeUp, Resume, StartCollect, SkipSlot, Collecting,
     ReleaseTooLate, EndCollect, Run, DestroyBatcher, BatchFree, Notified, GoTo, locals, TypeOK
<1>4. ASSUME NEW q \in Slots PROVE SameRelease(q)
  <2>1. q[1] \in Batchers
    BY DEF Slots
  <2>2. QED
    BY <1>1, <1>2, <1>3, <2>1 DEF SameRelease, Releases
<1>5. QED
  BY <1>1, <1>2, <1>4

\* They do not touch the claims on the slots.
LEMMA MoveClaims ==
    ASSUME TypeOK, ClaimInv, NEW b \in Batchers, Moves(b)
    PROVE  ClaimInv'
<1>1. UNCHANGED <<slotOf, ready, delivering, queue>> /\ \A q \in Slots : SameRelease(q)
  BY MoveFrame DEF maps
<1>2. ASSUME NEW q \in Slots PROVE SameOwner(q) /\ SameArrivals(q) /\ SameEnds(q)
  BY <1>1 DEF SameOwner, SameArrivals, SameEnds
<1>3. QED
  BY <1>1, <1>2, AllClaimsKept

\* No step leaks a slot, or gives it away twice.
LEMMA ClaimStep == ASSUME BaseInv, Next PROVE ClaimInv'
<1>1. TypeOK /\ ClaimInv
  BY DEF BaseInv
<1>2. ASSUME UNCHANGED <<slotOf, ready, queue, pc, work>>,
             (reaper.pc # "enqueue" /\ reaper'.pc # "enqueue") \/ reaper' = reaper,
             \A d : d.request.end => (d \in delivering' <=> d \in delivering)
      PROVE  ClaimInv'
  <2>1. ASSUME NEW q \in Slots PROVE SameOwner(q) /\ SameArrivals(q) /\ SameRelease(q) /\ SameEnds(q)
    BY <1>2 DEF SameOwner, SameArrivals, SameRelease, SameEnds, Releases
  <2>2. QED
    BY <1>1, <2>1, AllClaimsKept
<1>3. ASSUME NEW c \in Correlations, NEW start \in BOOLEAN, NEW end \in BOOLEAN, Enqueue(c, start, end)
      PROVE  ClaimInv'
  <2>1. CASE EnqueueToBacklog(c, start, end) \/ EnqueueToNewBacklog(c, end)
    BY <1>2, <2>1 DEF EnqueueToBacklog, EnqueueToNewBacklog, slots, locals
  <2>2. QED
    BY <1>3, <2>1, EnqueueToSlotClaims, EnqueueToNewSlotClaims DEF Enqueue
<1>4. CASE Refuse \/ Destroy \/ DestroyMembers \/ Gone
  <2>1. (reaper.pc # "enqueue" /\ reaper'.pc # "enqueue") \/ reaper' = reaper
    BY <1>1, <1>4 DEF Refuse, Destroy, DestroyMembers, Gone, vars, TypeOK, Reapers
  <2>2. UNCHANGED <<slotOf, ready, queue, pc, work, delivering>>
    BY <1>4 DEF Refuse, Destroy, DestroyMembers, Gone, vars, maps, slots, locals
  <2>3. QED
    BY <1>2, <2>1, <2>2
<1>5. ASSUME NEW d \in delivering, Deliver(d) PROVE ClaimInv'
  BY <1>5, DeliverClaims
<1>6. ASSUME NEW c \in Correlations, GoIdle(c) PROVE ClaimInv'
  BY <1>2, <1>6 DEF GoIdle, maps, slots, locals
<1>7. CASE Reap
  <2>1. ASSUME TestReaperExit \/ StartScan \/ EndScan \/ WakeReaper
        PROVE  ClaimInv'
    <3>1. reaper.pc # "enqueue" /\ reaper'.pc # "enqueue"
      BY <1>1, <2>1 DEF TestReaperExit, StartScan, EndScan, WakeReaper, TypeOK, Reapers
    <3>2. QED
      BY <1>2, <2>1, <3>1 DEF TestReaperExit, StartScan, EndScan, WakeReaper, quietReaper, maps, slots, locals
  <2>2. ASSUME NEW c \in Correlations, Spare(c) \/ DropStamp(c) PROVE ClaimInv'
    <3>1. reaper.pc # "enqueue" /\ reaper'.pc # "enqueue"
      BY <1>1, <2>2 DEF Spare, DropStamp, TypeOK, Reapers
    <3>2. QED
      BY <1>2, <2>2, <3>1 DEF Spare, DropStamp, quietReaper, maps, slots, locals
  <2>3. QED
    BY <1>7, <2>1, <2>2, EvictClaims, ForceEndClaims DEF Reap
<1>8. ASSUME NEW b \in Batchers, Step(b) \/ WakeUp(b) \/ DestroyBatcher(b) PROVE ClaimInv'
  BY <1>1, <1>8, MoveClaims, CollectClaims, RefillClaims, FreeClaims DEF Step, Moves
<1>9. QED
  BY <1>3, <1>4, <1>5, <1>6, <1>7, <1>8 DEF Next

\* What is claimed once, and in one way, is claimed by one thing.
LEMMA OneClaimant ==
    ASSUME TypeOK, NEW s \in Slots, Apart(s), Claimed(s)
    PROVE  Cardinality(Claims(s)) = 1
<1> DEFINE R == {<<"ready", i>> : i \in 1..ready[s]}
           O == {<<"sequence", c>> : c \in {c \in Correlations : slotOf[c] = s}}
           A == {<<"arriving", d>> : d \in {d \in delivering : d.slot = s /\ d.request.end}}
           E == IF reaper.pc = "enqueue" /\ reaper.slot = s THEN {<<"evicted", s>>} ELSE {}
           Q == {<<"queued", i>> : i \in {i \in DOMAIN queue[s] : queue[s][i].end}}
           T == {<<"released", b>> : b \in {b \in Batchers : pc[b] \in {"release", "corrupt"} /\ Slot(b) = s}}
<1>1. Claims(s) = R \cup O \cup A \cup E \cup Q \cup T
  BY DEF Claims
<1>2. ready[s] \in {0, 1}
  BY DEF TypeOK, Apart
<1>3. (ready[s] = 0 => R = {}) /\ (ready[s] # 0 => \E x : R = {x})
  <2>1. (ready[s] = 0 => 1..ready[s] = {}) /\ (ready[s] = 1 => 1..ready[s] = {1})
    OBVIOUS
  <2>2. (1..ready[s] = {} => R = {}) /\ (1..ready[s] = {1} => R = {<<"ready", 1>>})
    OBVIOUS
  <2> HIDE DEF R
  <2>3. QED
    BY <1>2, <2>1, <2>2
<1>4. (~Owned(s) => O = {}) /\ (Owned(s) => \E x : O = {x})
  <2>1. ~Owned(s) => O = {}
    BY DEF Owned
  <2>2. ASSUME Owned(s) PROVE \E x : O = {x}
    <3>1. PICK c \in Correlations : slotOf[c] = s
      BY <2>2 DEF Owned
    <3>2. {e \in Correlations : slotOf[e] = s} = {c}
      BY <3>1 DEF Apart
    <3>3. O = {<<"sequence", c>>}
      BY <3>2
    <3>4. QED
      BY <3>3
  <2>3. QED
    BY <2>1, <2>2
<1>5. (~EndArriving(s) => A = {}) /\ (EndArriving(s) => \E x : A = {x})
  <2>1. ~EndArriving(s) => A = {}
    BY DEF EndArriving
  <2>2. ASSUME EndArriving(s) PROVE \E x : A = {x}
    <3>1. PICK d \in delivering : d.slot = s /\ d.request.end
      BY <2>2 DEF EndArriving
    <3>2. {e \in delivering : e.slot = s /\ e.request.end} = {d}
      BY <3>1 DEF Apart
    <3>3. A = {<<"arriving", d>>}
      BY <3>2
    <3>4. QED
      BY <3>3
  <2>3. QED
    BY <2>1, <2>2
<1>6. (~Evicting(s) => E = {}) /\ (Evicting(s) => \E x : E = {x})
  BY DEF Evicting
<1>7. (~EndQueued(s) => Q = {}) /\ (EndQueued(s) => \E x : Q = {x})
  <2>1. ~EndQueued(s) => Q = {}
    BY DEF EndQueued
  <2>2. ASSUME EndQueued(s) PROVE \E x : Q = {x}
    <3>1. PICK i \in DOMAIN queue[s] : queue[s][i].end
      BY <2>2 DEF EndQueued
    <3>2. {k \in DOMAIN queue[s] : queue[s][k].end} = {i}
      BY <3>1 DEF Apart
    <3>3. Q = {<<"queued", i>>}
      BY <3>2
    <3>4. QED
      BY <3>3
  <2>3. QED
    BY <2>1, <2>2
<1>8. (~Releases(s) => T = {}) /\ (Releases(s) => \E x : T = {x})
  <2>1. \A b \in Batchers : pc[b] \in {"release", "corrupt"} /\ Slot(b) = s <=> b = s[1] /\ Releases(s)
    BY DEF Slot, Slots, Releases
  <2>2. s[1] \in Batchers
    BY DEF Slots
  <2>3. {b \in Batchers : pc[b] \in {"release", "corrupt"} /\ Slot(b) = s} = IF Releases(s) THEN {s[1]} ELSE {}
    BY <2>1, <2>2
  <2>4. T = IF Releases(s) THEN {<<"released", s[1]>>} ELSE {}
    BY <2>3
  <2>5. QED
    BY <2>4
<1> HIDE DEF R, O, A, E, Q, T
<1>9. \E x : Claims(s) = {x}
  BY <1>1, <1>3, <1>4, <1>5, <1>6, <1>7, <1>8 DEF Apart, Claimed
<1>10. QED
  BY <1>9, FS_Singleton

-----------------------------------------------------------------------------
(***************************************************************************)
(* Orderly clients: what is on its way.                                    *)
(***************************************************************************)
\* A request on its way has a slot to itself: that of its sequence, or, if it is
\* the END, one that waits for it.
LEMMA ArrivalFacts ==
    ASSUME BaseInv, SerialInv, NEW d \in delivering
    PROVE  /\ d.slot \in Slots /\ d.request \in Requests /\ d.request \in Payloads
           /\ d.request.cid \in Correlations /\ d.request.id \in 1..MaxRequests
           /\ d.request.end => EndArriving(d.slot) /\ slotOf[d.request.cid] = None
           /\ ~d.request.end => Owned(d.slot) /\ slotOf[d.request.cid] = d.slot
           /\ ready[d.slot] = 0 /\ ~Evicting(d.slot) /\ ~EndQueued(d.slot) /\ ~Releases(d.slot)
           /\ \A e \in delivering : e.slot = d.slot => e = d
<1>1. TypeOK /\ ClaimInv
  BY DEF BaseInv
<1>2. \A e \in delivering : e.slot \in Slots /\ e.request \in Requests /\ e.request.cid \in Correlations
  BY <1>1 DEF TypeOK, Requests
<1>3. d.request \in Payloads /\ d.request.id \in 1..MaxRequests
  BY <1>2 DEF Payloads, Requests
<1>4. \A e \in delivering : /\ e.request.end => EndArriving(e.slot) /\ slotOf[e.request.cid] = None
                            /\ ~e.request.end => Owned(e.slot) /\ slotOf[e.request.cid] = e.slot
  BY <1>2 DEF EndArriving, Owned, SerialInv, Known
<1>5. Apart(d.slot)
  BY <1>1, <1>2 DEF ClaimInv
<1>6. ready[d.slot] = 0 /\ ~Evicting(d.slot) /\ ~EndQueued(d.slot) /\ ~Releases(d.slot)
  BY <1>1, <1>2, <1>4, <1>5 DEF Apart, TypeOK
<1>7. ASSUME NEW e \in delivering, e.slot = d.slot PROVE e = d
  <2>1. CASE d.request.end /\ e.request.end
    BY <1>5, <1>7, <2>1 DEF Apart
  <2>2. CASE ~d.request.end /\ ~e.request.end
    <3>1. d.request.cid = e.request.cid
      BY <1>2, <1>4, <1>5, <1>7, <2>2 DEF Apart
    <3>2. QED
      BY <3>1 DEF SerialInv
  <2>3. CASE d.request.end # e.request.end
    <3>1. d.request.end \in BOOLEAN /\ e.request.end \in BOOLEAN
      BY <1>2 DEF Requests
    <3>2. Owned(d.slot) /\ EndArriving(d.slot)
      BY <1>4, <1>7, <2>3, <3>1
    <3>3. QED
      BY <1>5, <3>2 DEF Apart
  <2>4. d.request.end \in BOOLEAN /\ e.request.end \in BOOLEAN
    BY <1>2 DEF Requests
  <2>5. QED
    BY <2>1, <2>2, <2>3, <2>4
<1>8. QED
  BY <1>2, <1>3, <1>4, <1>6, <1>7

\* Nothing new is on its way, and what concerns its sequences does not change.
LEMMA SerialKept ==
    ASSUME BaseInv, SerialInv, delivering' \subseteq delivering,
           \A d \in delivering' :
               /\ slotOf'[d.request.cid] = slotOf[d.request.cid]
               /\ backlogOf'[d.request.cid] = backlogOf[d.request.cid]
               /\ stamp'[d.request.cid] = stamp[d.request.cid]
               /\ latest'[d.request.cid] = latest[d.request.cid],
           reaper'.pc \in {"scan", "enqueue"} => \A c \in reaper'.todo : stamp'[c] = "idle"
    PROVE  SerialInv'
  BY DEF SerialInv, Known

\* A request is accepted while no other of its correlation ID is on its way, and
\* the reaper is not looking for idle sequences.
LEMMA AcceptFacts ==
    ASSUME Orderly, TypeOK, NEW c \in Correlations, NEW start \in BOOLEAN, Accept(c, start)
    PROVE  /\ \A d \in delivering : d.request.cid # c
           /\ reaper.pc \notin {"scan", "enqueue"}
           /\ issued \in Nat /\ issued' = issued + 1
           /\ stamp' = [stamp EXCEPT ![c] = "fresh"]
           /\ latest' = [latest EXCEPT ![c] = issued + 1]
           /\ stamp \in [Correlations -> {"none", "fresh", "idle"}]
           /\ latest \in [Correlations -> 0..MaxRequests]
  BY BoundAssumption DEF Orderly, Accept, Serial, Callable, BaseFree, TypeOK

\* A request put on its way is the only one of its correlation ID.
LEMMA DispatchSerial ==
    ASSUME BaseInv, SerialInv, Orderly, NEW c \in Correlations, NEW start \in BOOLEAN, Accept(c, start),
           NEW d, delivering' = delivering \cup {d}, d.request.cid = c, d.request.id = issued + 1,
           IF d.request.end THEN slotOf'[c] = None ELSE slotOf'[c] = d.slot,
           \A e \in Correlations : e # c => slotOf'[e] = slotOf[e],
           backlogOf[c] = 0, UNCHANGED <<backlogOf, reaper>>
    PROVE  SerialInv'
<1>1. /\ \A e \in delivering : e.request.cid # c /\ e.request.cid \in Correlations
      /\ reaper.pc \notin {"scan", "enqueue"}
      /\ \A e \in Correlations : e # c => stamp'[e] = stamp[e] /\ latest'[e] = latest[e]
      /\ stamp'[c] = "fresh" /\ latest'[c] = issued + 1
  BY AcceptFacts, ArrivalFacts DEF BaseInv
<1>2. \A a, e \in delivering' : a.request.cid = e.request.cid => a = e
  BY <1>1 DEF SerialInv
<1>3. ASSUME NEW e \in delivering'
      PROVE  /\ IF e.request.end THEN ~Known(e.request.cid)' ELSE slotOf'[e.request.cid] = e.slot
             /\ stamp'[e.request.cid] = "fresh"
             /\ latest'[e.request.cid] = e.request.id
  <2>1. CASE e \in delivering
    BY <1>1, <2>1 DEF SerialInv, Known
  <2>2. CASE e = d
    BY <1>1, <2>2 DEF Known
  <2>3. QED
    BY <1>3, <2>1, <2>2
<1>4. QED
  BY <1>1, <1>2, <1>3 DEF SerialInv

\* Requests of one sequence are on their way one at a time.
LEMMA EnqueueSerial ==
    ASSUME BaseInv, SerialInv, Orderly,
           NEW c \in Correlations, NEW start \in BOOLEAN, NEW end \in BOOLEAN, Enqueue(c, start, end)
    PROVE  SerialInv'
<1>1. TypeOK /\ slotOf \in [Correlations -> Slots \cup {None}] /\ backlogOf \in [Correlations -> 0..MaxRequests]
  BY DEF BaseInv, TypeOK
<1>2. CASE EnqueueToSlot(c, start, end)
  <2>1. PICK d : d = [request |-> NewRequest(c, start, end), slot |-> slotOf[c]]
    OBVIOUS
  <2>2. /\ delivering' = delivering \cup {d} /\ d.request.cid = c /\ d.request.id = issued + 1
        /\ IF d.request.end THEN slotOf'[c] = None ELSE slotOf'[c] = d.slot
        /\ \A e \in Correlations : e # c => slotOf'[e] = slotOf[e]
    BY <1>1, <1>2, <2>1 DEF EnqueueToSlot, Dispatch, NewRequest, Unmapped
  <2>3. backlogOf[c] = 0
    BY <1>2 DEF EnqueueToSlot, BaseInv, BacklogConsistent
  <2>4. Accept(c, start) /\ UNCHANGED <<backlogOf, reaper>>
    BY <1>2 DEF EnqueueToSlot
  <2>5. QED
    BY <2>2, <2>3, <2>4, DispatchSerial
<1>3. CASE EnqueueToNewSlot(c, end)
  <2>1. PICK s \in Top :
           /\ Dispatch(NewRequest(c, TRUE, end), s)
           /\ slotOf' = IF end THEN slotOf ELSE [slotOf EXCEPT ![c] = s]
    BY <1>3 DEF EnqueueToNewSlot
  <2>2. PICK d : d = [request |-> NewRequest(c, TRUE, end), slot |-> s]
    OBVIOUS
  <2>3. slotOf[c] = None /\ backlogOf[c] = 0
    BY <1>3 DEF EnqueueToNewSlot, Known
  <2>4. /\ delivering' = delivering \cup {d} /\ d.request.cid = c /\ d.request.id = issued + 1
        /\ IF d.request.end THEN slotOf'[c] = None ELSE slotOf'[c] = d.slot
        /\ \A e \in Correlations : e # c => slotOf'[e] = slotOf[e]
    BY <1>1, <2>1, <2>2, <2>3 DEF Dispatch, NewRequest
  <2>5. Accept(c, TRUE) /\ UNCHANGED <<backlogOf, reaper>>
    BY <1>3 DEF EnqueueToNewSlot
  <2>6. QED
    BY <2>3, <2>4, <2>5, DispatchSerial
<1>4. CASE EnqueueToBacklog(c, start, end) \/ EnqueueToNewBacklog(c, end)
  <2>1. PICK st \in BOOLEAN : Accept(c, st)
    BY <1>4 DEF EnqueueToBacklog, EnqueueToNewBacklog
  <2>2. /\ delivering' = delivering /\ slotOf' = slotOf /\ reaper' = reaper
        /\ \A e \in Correlations : e # c => backlogOf'[e] = backlogOf[e]
    BY <1>1, <1>4 DEF EnqueueToBacklog, EnqueueToNewBacklog, Forgotten
  <2>3. /\ reaper.pc \notin {"scan", "enqueue"}
        /\ \A e \in Correlations : e # c => stamp'[e] = stamp[e] /\ latest'[e] = latest[e]
        /\ \A d \in delivering : d.request.cid # c /\ d.request.cid \in Correlations
    BY <1>1, <2>1, AcceptFacts, ArrivalFacts
  <2>4. QED
    BY <2>2, <2>3, SerialKept
<1>5. QED
  BY <1>2, <1>3, <1>4 DEF Enqueue

\* The reaper, and time, leave the sequences alone that have a request on its way.
LEMMA IdleSerial ==
    ASSUME BaseInv, SerialInv, Orderly, Reap \/ \E c \in Correlations : GoIdle(c)
    PROVE  SerialInv'
<1>1. /\ TypeOK /\ slotOf \in [Correlations -> Slots \cup {None}]
      /\ stamp \in [Correlations -> {"none", "fresh", "idle"}]
      /\ reaper \in Reapers /\ reaper.todo \subseteq Correlations
  BY DEF BaseInv, TypeOK, Reapers
<1>2. \A d \in delivering : d.request.cid \in Correlations /\ stamp[d.request.cid] = "fresh"
  BY ArrivalFacts DEF SerialInv
<1>3. ASSUME NEW c \in Correlations, GoIdle(c) PROVE SerialInv'
  <2>1. /\ \A d \in delivering : d.request.cid # c
        /\ reaper.pc \notin {"scan", "enqueue"} /\ reaper' = reaper
        /\ \A e \in Correlations : e # c => stamp'[e] = stamp[e]
        /\ UNCHANGED <<delivering, slotOf, backlogOf, latest>>
    BY <1>1, <1>3 DEF Orderly, GoIdle, BaseFree, maps, history
  <2>2. QED
    BY <1>2, <2>1, SerialKept
<1>4. CASE TestReaperExit \/ EndScan \/ WakeReaper
  <2>1. reaper'.pc \notin {"scan", "enqueue"}
    BY <1>1, <1>4 DEF TestReaperExit, EndScan, WakeReaper, Reapers
  <2>2. UNCHANGED <<delivering, slotOf, backlogOf, latest, stamp>>
    BY <1>4 DEF TestReaperExit, EndScan, WakeReaper, quietReaper, maps, history
  <2>3. QED
    BY <2>1, <2>2, SerialKept
<1>5. CASE StartScan
  <2>1. reaper'.todo = {c \in Correlations : stamp[c] = "idle"}
    BY <1>1, <1>5 DEF StartScan, Reapers
  <2>2. UNCHANGED <<delivering, slotOf, backlogOf, latest, stamp>>
    BY <1>5 DEF StartScan, quietReaper, maps, history
  <2>3. QED
    BY <2>1, <2>2, SerialKept
<1>6. CASE EnqueueForceEnd
  <2>1. reaper.pc = "enqueue" /\ reaper'.todo = reaper.todo
    BY <1>1, <1>6 DEF EnqueueForceEnd, Reapers
  <2>2. UNCHANGED <<delivering, slotOf, backlogOf, latest, stamp>>
    BY <1>6 DEF EnqueueForceEnd, maps, history
  <2>3. QED
    BY <2>1, <2>2, SerialKept DEF SerialInv
<1>7. ASSUME NEW c \in Correlations, Spare(c) \/ DropStamp(c) \/ Evict(c) PROVE SerialInv'
  <2>1. reaper.pc = "scan" /\ c \in reaper.todo /\ reaper'.todo = reaper.todo \ {c}
    BY <1>1, <1>7 DEF Spare, DropStamp, Evict, Reapers
  <2>2. stamp[c] = "idle" /\ \A e \in reaper.todo : stamp[e] = "idle"
    BY <2>1 DEF SerialInv
  <2>3. /\ UNCHANGED <<delivering, backlogOf, latest>>
        /\ \A e \in Correlations : e # c => stamp'[e] = stamp[e] /\ slotOf'[e] = slotOf[e]
    BY <1>1, <1>7 DEF Spare, DropStamp, Evict, Unmapped, quietReaper, maps, history
  <2>4. \A d \in delivering : d.request.cid # c
    BY <1>2, <2>2
  <2>5. QED
    BY <1>1, <1>2, <2>1, <2>2, <2>3, <2>4, SerialKept
<1>8. QED
  BY <1>3, <1>4, <1>5, <1>6, <1>7 DEF Reap

\* No step puts two requests of a sequence on their way.
LEMMA SerialStep == ASSUME BaseInv, SerialInv, Orderly, Next PROVE SerialInv'
<1>1. /\ TypeOK
      /\ slotOf \in [Correlations -> Slots \cup {None}] /\ backlogOf \in [Correlations -> 0..MaxRequests]
      /\ reaper \in Reapers
  BY DEF BaseInv, TypeOK
<1>2. ASSUME UNCHANGED <<maps, stamp, reaper, latest>>, delivering' \subseteq delivering
      PROVE  SerialInv'
  BY <1>2, SerialKept DEF SerialInv, maps
<1>3. ASSUME NEW c \in Correlations, NEW start \in BOOLEAN, NEW end \in BOOLEAN, Enqueue(c, start, end)
      PROVE  SerialInv'
  BY <1>3, EnqueueSerial
<1>4. CASE Refuse \/ DestroyMembers \/ Gone
  BY <1>2, <1>4 DEF Refuse, DestroyMembers, Gone, vars, maps, history
<1>5. CASE Destroy
  <2>1. reaper' = reaper \/ reaper'.pc = "test"
    BY <1>1, <1>5 DEF Destroy, Reapers
  <2>2. UNCHANGED <<maps, stamp, latest, delivering>>
    BY <1>5 DEF Destroy, history
  <2>3. QED
    BY <1>2, <2>1, <2>2, SerialKept DEF maps
<1>6. ASSUME NEW d \in delivering, Deliver(d) PROVE SerialInv'
  BY <1>2, <1>6 DEF Deliver, history
<1>7. CASE Reap \/ \E c \in Correlations : GoIdle(c)
  BY <1>7, IdleSerial
<1>8. ASSUME NEW b \in Batchers, RefillSlot(b) PROVE SerialInv'
  <2>1. PICK r : /\ r.end => UNCHANGED maps
                 /\ ~r.end => /\ backlogOf' = [backlogOf EXCEPT ![r.cid] = 0]
                              /\ slotOf' = [slotOf EXCEPT ![r.cid] = Slot(b)]
                              /\ backlogOf[r.cid] # 0
    <3>1. 1 \in DOMAIN backlog /\ Head(backlog) = backlog[1]
      <4>1. backlog \in Seq(Seq(Requests) \ {<<>>}) /\ backlog # <<>>
        BY <1>8 DEF BaseInv, RefillSlot, TypeOK
      <4>2. QED
        BY <4>1
    <3>2. PICK r : r = backlog[1][Len(backlog[1])]
      OBVIOUS
    <3>3. ~r.end => backlogOf[r.cid] # 0
      BY <1>1, <3>1, <3>2, OpenQueue, QueueFacts
    <3>4. IF r.end THEN UNCHANGED maps
                   ELSE /\ backlogOf' = [backlogOf EXCEPT ![r.cid] = 0]
                        /\ slotOf' = [slotOf EXCEPT ![r.cid] = Slot(b)]
      BY <1>8, <3>1, <3>2 DEF RefillSlot, Adopt
    <3>5. QED
      BY <3>3, <3>4
  <2>2. UNCHANGED <<delivering, stamp, reaper, latest>>
    BY <1>8 DEF RefillSlot, history
  <2>3. CASE r.end
    BY <1>2, <2>1, <2>2, <2>3
  <2>4. CASE ~r.end
    <3>1. ASSUME NEW d \in delivering PROVE d.request.cid # r.cid
      <4>1. ~d.request.end => slotOf[d.request.cid] # None /\ d.request.cid \in Correlations
        BY ArrivalFacts, NoneAssumption
      <4>2. backlogOf[d.request.cid] = 0
        BY <4>1 DEF SerialInv, Known, BaseInv, BacklogConsistent
      <4>3. QED
        BY <2>1, <2>4, <4>2
    <3>2. \A d \in delivering : d.request.cid \in Correlations
      BY ArrivalFacts
    <3>3. \A d \in delivering : slotOf'[d.request.cid] = slotOf[d.request.cid]
                                /\ backlogOf'[d.request.cid] = backlogOf[d.request.cid]
      BY <1>1, <2>1, <2>4, <3>1, <3>2
    <3>4. QED
      BY <2>2, <3>3, SerialKept DEF SerialInv
  <2>5. QED
    BY <2>3, <2>4
<1>9. ASSUME NEW b \in Batchers, FreeSlot(b) \/ CollectSlot(b) PROVE SerialInv'
  BY <1>2, <1>9 DEF FreeSlot, CollectSlot, quietThread, history
<1>10. ASSUME NEW b \in Batchers, Moves(b) PROVE SerialInv'
  BY <1>1, <1>2, <1>10, MoveFrame
<1>11. QED
  BY <1>3, <1>4, <1>5, <1>6, <1>7, <1>8, <1>9, <1>10 DEF Next, Step, Moves

-----------------------------------------------------------------------------
(***************************************************************************)
(* Orderly clients: slots whose sequence has ended are empty, and active   *)
(* slots are looked at.                                                    *)
(***************************************************************************)
\* Enqueue, time, the reaper's look at idle sequences and the start of the
\* destructor do not touch the batchers.
LEMMA QuietSlots ==
    ASSUME \/ Refuse \/ Destroy \/ DestroyMembers \/ Gone \/ (Reap /\ ~EnqueueForceEnd)
           \/ \E c \in Correlations : GoIdle(c)
           \/ \E c \in Correlations, start, end \in BOOLEAN : Enqueue(c, start, end)
    PROVE  UNCHANGED <<slots, pc, locals, tenant>>
<1>1. CASE Refuse \/ Destroy \/ DestroyMembers \/ Gone
  BY <1>1 DEF Refuse, Destroy, DestroyMembers, Gone, vars, history
<1>2. CASE Reap /\ ~EnqueueForceEnd
  BY <1>2 DEF Reap, TestReaperExit, StartScan, EndScan, WakeReaper, Evict, Spare, DropStamp, quietReaper, history
<1>3. ASSUME NEW c \in Correlations, GoIdle(c) PROVE UNCHANGED <<slots, pc, locals, tenant>>
  BY <1>3 DEF GoIdle, history
<1>4. ASSUME NEW c \in Correlations, NEW start \in BOOLEAN, NEW end \in BOOLEAN, Enqueue(c, start, end)
      PROVE  UNCHANGED <<slots, pc, locals, tenant>>
  BY <1>4 DEF Enqueue, EnqueueToSlot, EnqueueToBacklog, EnqueueToNewSlot, EnqueueToNewBacklog
<1>5. QED
  BY <1>1, <1>2, <1>3, <1>4

\* The parts of Next, as the proofs take them: what leaves the batchers alone,
\* what puts a payload in a slot, and the steps of the scheduler threads.
LEMMA NextParts ==
    ASSUME Next
    PROVE  \/ UNCHANGED <<slots, pc, locals, tenant>>
              /\ \/ Refuse \/ Destroy \/ DestroyMembers \/ Gone \/ (Reap /\ ~EnqueueForceEnd)
                 \/ \E c \in Correlations : GoIdle(c)
                 \/ \E c \in Correlations, start, end \in BOOLEAN : Enqueue(c, start, end)
           \/ \E d \in delivering : Deliver(d)
           \/ EnqueueForceEnd
           \/ \E b \in Batchers : CollectSlot(b) \/ RefillSlot(b) \/ FreeSlot(b) \/ Moves(b)
<1>1. \/ Refuse \/ Destroy \/ DestroyMembers \/ Gone \/ Reap
      \/ \E c \in Correlations : GoIdle(c)
      \/ \E c \in Correlations, start, end \in BOOLEAN : Enqueue(c, start, end)
      \/ \E d \in delivering : Deliver(d)
      \/ \E b \in Batchers : Step(b) \/ WakeUp(b) \/ DestroyBatcher(b)
  BY DEF Next
<1>2. ASSUME NEW b \in Batchers, Step(b) \/ WakeUp(b) \/ DestroyBatcher(b)
      PROVE  CollectSlot(b) \/ RefillSlot(b) \/ FreeSlot(b) \/ Moves(b)
  BY <1>2 DEF Step, Moves
<1>3. QED
  BY <1>1, <1>2, QuietSlots

\* A slot becomes ready only by FreeSlot.
LEMMA QuietReady ==
    ASSUME TypeOK, NEW s \in Slots, ready'[s] # 0,
           \/ Refuse \/ Destroy \/ DestroyMembers \/ Gone \/ Reap
           \/ \E c \in Correlations : GoIdle(c)
           \/ \E c \in Correlations, start, end \in BOOLEAN : Enqueue(c, start, end)
    PROVE  ready[s] # 0
<1>1. CASE Refuse \/ Destroy \/ DestroyMembers \/ Gone
  BY <1>1 DEF Refuse, Destroy, DestroyMembers, Gone, vars
<1>2. CASE Reap
  BY <1>2 DEF Reap, TestReaperExit, StartScan, EndScan, WakeReaper, EnqueueForceEnd, Evict, Spare, DropStamp, quietReaper
<1>3. ASSUME NEW c \in Correlations, GoIdle(c) PROVE ready[s] # 0
  BY <1>3 DEF GoIdle
<1>4. ASSUME NEW c \in Correlations, NEW start \in BOOLEAN, NEW end \in BOOLEAN, Enqueue(c, start, end)
      PROVE  ready[s] # 0
  <2>1. CASE EnqueueToNewSlot(c, end)
    BY <2>1 DEF EnqueueToNewSlot, Taken, Top, TypeOK
  <2>2. QED
    BY <1>4, <2>1 DEF Enqueue, EnqueueToSlot, EnqueueToBacklog, EnqueueToNewBacklog
<1>5. QED
  BY <1>1, <1>2, <1>3, <1>4

\* A payload is put in a slot only while a sequence, an END or the reaper has a
\* claim on the slot.
LEMMA PutEmpty ==
    ASSUME TypeOK, EmptyInv, NEW s \in Slots, NEW p \in Payloads, Put(s, p),
           UNCHANGED <<ready, work, tenant>>, ready[s] = 0, ~Releases(s)
    PROVE  EmptyInv'
<1>1. ASSUME NEW q \in Slots PROVE Releases(q)' <=> Releases(q)
  BY PutThread DEF Releases
<1>2. \A q \in Slots : q # s => queue'[q] = queue[q]
  BY PutQueue
<1>3. QED
  BY <1>1, <1>2 DEF EmptyInv

\* What is left of a queue whose head is taken; behind an END there is nothing.
LEMMA CollectEmpty ==
    ASSUME BaseInv, EmptyInv, ChainInv, NEW b \in Batchers, CollectSlot(b)
    PROVE  EmptyInv'
<1>1. TypeOK /\ ChainInv
  BY DEF BaseInv
<1>2. PICK s \in Slots : s = Slot(b)
  BY <1>1, CollectQueue
<1>3. PICK p \in Payloads : p = queue[s][1] /\ p = Head(queue[Slot(b)])
  BY <1>1, <1>2, CollectQueue
<1>4. /\ queue[s] # <<>> /\ s = <<b, work[b].slot>> /\ s[1] = b /\ s[2] = work[b].slot
      /\ \A q \in Slots : q # s => queue'[q] = queue[q] /\ tenant'[q] = tenant[q]
      /\ tenant'[s] = IF p.end THEN 0 ELSE p.id
      /\ ready' = ready
      /\ pc[b] = "collect"
      /\ pc' = [pc EXCEPT ![b] = IF p.end THEN "release" ELSE "collect"]
      /\ \A e \in Batchers : e # b => work'[e] = work[e]
      /\ p.end => work' = work
  <2>1. /\ tenant \in [Slots -> 0..MaxRequests] /\ work \in [Batchers -> Works]
        /\ tenant' = [tenant EXCEPT ![s] = IF p.end THEN 0 ELSE p.id]
        /\ work' = IF p.end THEN work ELSE [work EXCEPT ![b].slot = @ + 1]
    BY <1>1, <1>2, <1>3 DEF CollectSlot, TypeOK
  <2>2. /\ queue[s] # <<>> /\ s = <<b, work[b].slot>> /\ s[1] = b /\ s[2] = work[b].slot
        /\ \A q \in Slots : q # s => queue'[q] = queue[q]
    BY <1>1, <1>2, CollectQueue
  <2>3. QED
    BY <1>3, <2>1, <2>2 DEF CollectSlot, Collecting, GoTo, quietThread
<1>5. ready[s] = 0
  BY <1>4 DEF EmptyInv
<1>6. ASSUME NEW q \in Slots, q # s PROVE Releases(q)' => Releases(q)
  <2>1. q[1] \in Batchers /\ (q[1] = b => q[2] # work[b].slot) /\ pc \in [Batchers -> PCs]
    BY <1>1, <1>4, <1>6 DEF Slots, TypeOK
  <2>2. CASE q[1] # b
    BY <1>4, <2>1, <2>2 DEF Releases
  <2>3. CASE q[1] = b
    BY <1>4, <2>1, <2>3 DEF Releases
  <2>4. QED
    BY <2>2, <2>3
<1>7. Releases(s)' => p.end
  BY <1>1, <1>4 DEF Releases, TypeOK
<1>8. p.end => queue'[s] = <<>> /\ tenant'[s] = 0
  <2>1. SUFFICES ASSUME p.end PROVE queue'[s] = <<>>
    BY <1>4
  <2>2. /\ Len(queue[s]) \in Nat /\ DOMAIN queue[s] = 1..Len(queue[s])
        /\ queue[s] \in Seq(Payloads) /\ queue'[s] = Tail(queue[s])
    BY <1>1, <1>2, CollectQueue DEF TypeOK
  <2>3. 2 \notin DOMAIN queue[s]
    <3>1. \A k \in DOMAIN queue[s] : k # 1 => ~queue[s][k - 1].end
      BY <1>1, <1>4 DEF ChainInv, Chained
    <3>2. 2 - 1 = 1 /\ 2 # 1
      OBVIOUS
    <3>3. 2 \in DOMAIN queue[s] => ~queue[s][1].end
      BY <3>1, <3>2, Zenon
    <3>4. queue[s][1].end
      BY <1>3, <2>1
    <3>5. QED
      BY <3>3, <3>4
  <2>4. Len(queue[s]) <= 1
    BY <2>2, <2>3
  <2>5. QED
    BY <1>4, <2>2, <2>4
<1>9. QED
  BY <1>4, <1>5, <1>6, <1>7, <1>8 DEF EmptyInv

\* A slot whose sequence has ended has no payloads left.
LEMMA EmptyStep == ASSUME BaseInv, OrderInv, Next PROVE EmptyInv'
<1>1. TypeOK /\ SerialInv /\ EmptyInv /\ ChainInv
  BY DEF BaseInv, OrderInv
<1>2. CASE UNCHANGED <<slots, pc, locals, tenant>>
              /\ \/ Refuse \/ Destroy \/ DestroyMembers \/ Gone \/ (Reap /\ ~EnqueueForceEnd)
                 \/ \E c \in Correlations : GoIdle(c)
                 \/ \E c \in Correlations, start, end \in BOOLEAN : Enqueue(c, start, end)
  <2>1. \A s \in Slots : ready'[s] # 0 => ready[s] # 0
    BY <1>1, <1>2, QuietReady
  <2>2. QED
    BY <1>1, <1>2, <2>1 DEF EmptyInv, Releases, slots, locals
<1>3. ASSUME NEW d \in delivering, Deliver(d) PROVE EmptyInv'
  <2>1. d.slot \in Slots /\ d.request \in Payloads /\ ready[d.slot] = 0 /\ ~Releases(d.slot)
    BY <1>1, ArrivalFacts
  <2>2. Put(d.slot, d.request) /\ UNCHANGED <<ready, work, tenant>>
    BY <1>3 DEF Deliver, locals, history
  <2>3. QED
    BY <1>1, <2>1, <2>2, PutEmpty
<1>4. CASE EnqueueForceEnd
  <2>1. PICK s : s = reaper.slot
    OBVIOUS
  <2>2. s \in Slots /\ ForceEnd \in Payloads /\ Evicting(s)
    BY <1>1, <1>4, <2>1 DEF EnqueueForceEnd, TypeOK, Payloads, Evicting
  <2>3. ready[s] = 0 /\ ~Releases(s)
    BY <1>1, <2>2 DEF BaseInv, ClaimInv, Apart, TypeOK
  <2>4. Put(s, ForceEnd) /\ UNCHANGED <<ready, work, tenant>>
    BY <1>4, <2>1 DEF EnqueueForceEnd, locals, history
  <2>5. QED
    BY <1>1, <2>2, <2>3, <2>4, PutEmpty
<1>5. ASSUME NEW b \in Batchers, CollectSlot(b) PROVE EmptyInv'
  BY <1>1, <1>5, CollectEmpty
<1>6. ASSUME NEW b \in Batchers, RefillSlot(b) \/ FreeSlot(b) PROVE EmptyInv'
  <2>1. PICK s \in Slots : s = Slot(b)
    BY <1>6 DEF BaseInv, ReleaseInv, RefillSlot, FreeSlot, Releasing
  <2>2. /\ Releases(s) /\ ~Releases(s)'
        /\ \A q \in Slots : q # s => (Releases(q)' <=> Releases(q))
    BY <1>6, <2>1, ReleaseEnds DEF SameRelease, Releases
  <2>3. ready[s] = 0 /\ queue[s] = <<>> /\ tenant[s] = 0
    BY <1>1, <2>2 DEF BaseInv, ClaimInv, Apart, EmptyInv, TypeOK
  <2>4. tenant' = tenant /\ \A q \in Slots : q # s => ready'[q] = ready[q] /\ queue'[q] = queue[q]
    BY <1>1, <1>6, <2>1 DEF RefillSlot, FreeSlot, history, TypeOK
  <2>5. (RefillSlot(b) => ready'[s] = ready[s]) /\ (FreeSlot(b) => queue'[s] = queue[s])
    BY DEF RefillSlot, FreeSlot
  <2>6. QED
    BY <1>1, <1>6, <2>2, <2>3, <2>4, <2>5 DEF EmptyInv
<1>7. ASSUME NEW b \in Batchers, Moves(b) PROVE EmptyInv'
  <2>1. UNCHANGED <<ready, queue, tenant>> /\ \A q \in Slots : Releases(q)' <=> Releases(q)
    BY <1>1, <1>7, MoveFrame DEF SameRelease, Releases
  <2>2. QED
    BY <1>1, <2>1 DEF EmptyInv
<1>8. QED
  BY <1>2, <1>3, <1>4, <1>5, <1>6, <1>7, NextParts

\* SequenceBatch::Enqueue counts its slot as active, and wakes the thread.
LEMMA PutActive ==
    ASSUME TypeOK, ActiveInv, NEW s \in Slots, NEW p \in Payloads, Put(s, p), work' = work
    PROVE  ActiveInv'
<1>1. /\ s[1] \in Batchers /\ s[2] \in 0..MaxSlot
      /\ active' = active \cup {s}
      /\ maxActive \in [Batchers -> -1..MaxSlot]
      /\ maxActive' = [maxActive EXCEPT ![s[1]] = Raised(s)]
      /\ pc \in [Batchers -> PCs]
      /\ pc' = [pc EXCEPT ![s[1]] = Notified(s[1])]
  BY DEF Put, TypeOK, Slots
<1>2. \A q \in Slots : q # s => queue'[q] = queue[q]
  BY PutQueue
<1>3. \A q \in Slots : Releases(q)' <=> Releases(q)
  BY PutThread DEF Releases
<1>4. ASSUME NEW q \in Slots, queue'[q] # <<>> PROVE q \in active' /\ pc'[q[1]] # "wait"
  <2>1. q[1] \in Batchers
    BY DEF Slots
  <2>2. q = s \/ (q \in active /\ pc[q[1]] # "wait")
    BY <1>2, <1>4 DEF ActiveInv
  <2>3. QED
    BY <1>1, <2>1, <2>2 DEF Notified
<1>5. \A q \in Slots : Releases(q)' => q \in active'
  BY <1>1, <1>3 DEF ActiveInv
<1>6. ASSUME NEW q \in active' PROVE q[2] <= maxActive'[q[1]]
  <2>1. q \in Slots /\ q[1] \in Batchers /\ q[2] \in Nat
    <3>1. q \in Slots
      BY <1>1 DEF TypeOK
    <3>2. q[1] \in Batchers /\ q[2] \in 0..MaxSlot
      BY <3>1 DEF Slots
    <3>3. QED
      BY <3>1, <3>2, BatchersAssumption
  <2>2. maxActive[q[1]] \in Int /\ maxActive[s[1]] \in Int /\ s[2] \in Int
    BY <1>1, <2>1, BatchersAssumption
  <2>3. q = s \/ q[2] <= maxActive[q[1]]
    BY <1>1 DEF ActiveInv
  <2>4. QED
    BY <1>1, <2>1, <2>2, <2>3 DEF Raised
<1>7. QED
  BY <1>4, <1>5, <1>6 DEF ActiveInv

\* A thread waits only if it finds nothing in the slots up to the maximum, and
\* lowers the maximum to the last slot that is active.
LEMMA MoveActive ==
    ASSUME TypeOK, ActiveInv, NEW b \in Batchers, Moves(b)
    PROVE  ActiveInv'
<1>1. /\ UNCHANGED <<queue, active>>
      /\ \A e \in Batchers : e # b => pc'[e] = pc[e]
      /\ \A q \in Slots : Releases(q)' <=> Releases(q)
  BY MoveFrame DEF SameRelease, Releases
<1>2. \A q \in Slots : q[1] \in Batchers /\ q[2] \in 0..MaxSlot /\ q = <<q[1], q[2]>>
  BY DEF Slots
<1>3. active \subseteq Slots /\ maxActive \in [Batchers -> -1..MaxSlot] /\ pc \in [Batchers -> PCs]
  BY DEF TypeOK
<1>4. ASSUME NEW q \in Slots, queue[q] # <<>> PROVE pc'[q[1]] # "wait"
  <2>1. q \in active /\ pc[q[1]] # "wait" /\ q[2] <= maxActive[q[1]]
    BY <1>4 DEF ActiveInv
  <2>2. CASE q[1] # b
    BY <1>1, <1>2, <2>1, <2>2
  <2>3. CASE q[1] = b
    <3>1. q[2] \in Pending(b)
      <4>1. q[2] \in 0..maxActive[b]
        BY <1>2, <1>3, <2>1, <2>3, BatchersAssumption
      <4>2. q = <<b, q[2]>>
        BY <1>2, <2>3
      <4>3. QED
        BY <1>4, <4>1, <4>2 DEF Pending
    <3>2. ~WaitForWork(b)
      BY <3>1 DEF WaitForWork
    <3>3. QED
      BY <1>3, <2>1, <2>3, <3>2 DEF Moves, StartBatcher, TestExit, WakeUp, Resume, StartCollect, SkipSlot,
         Collecting, ReleaseTooLate, EndCollect, Run, DestroyBatcher, Notified, GoTo
  <2>4. QED
    BY <2>2, <2>3
<1>5. ASSUME NEW q \in active PROVE q[2] <= maxActive'[q[1]]
  <2>1. q[2] <= maxActive[q[1]]
    BY DEF ActiveInv
  <2>2. CASE EndCollect(b)
    <3>1. PICK k \in IF work[b].adjust THEN Shrunk(b) ELSE {maxActive[b]} :
             maxActive' = [maxActive EXCEPT ![b] = k]
      BY <2>2 DEF EndCollect
    <3>2. CASE q[1] = b /\ work[b].adjust
      <4>1. k \in -1..maxActive[b] /\ \A j \in 0..maxActive[b] : j > k => <<b, j>> \notin active
        BY <3>1, <3>2 DEF Shrunk
      <4>2. q \in Slots /\ q[2] \in 0..maxActive[b] /\ q = <<b, q[2]>>
        BY <1>2, <1>3, <2>1, <3>2, BatchersAssumption
      <4>3. ~(q[2] > k)
        BY <4>1, <4>2
      <4>4. k \in Int /\ q[2] \in Int
        BY <4>1, <4>2, <1>3
      <4>5. QED
        BY <1>3, <3>1, <3>2, <4>3, <4>4
    <3>3. CASE q[1] # b \/ ~work[b].adjust
      BY <1>2, <1>3, <2>1, <3>1, <3>3
    <3>4. QED
      BY <3>2, <3>3
  <2>3. CASE ~EndCollect(b)
    <3>1. maxActive' = maxActive
      BY <2>3 DEF Moves, StartBatcher, TestExit, WaitForWork, WakeUp, Resume, StartCollect, SkipSlot,
         ReleaseTooLate, Run, DestroyBatcher, slots
    <3>2. QED
      BY <2>1, <3>1
  <2>4. QED
    BY <2>2, <2>3
<1>6. QED
  BY <1>1, <1>4, <1>5 DEF ActiveInv

\* No step leaves a request where no thread looks.
LEMMA ActiveStep == ASSUME BaseInv, OrderInv, Next PROVE ActiveInv'
<1>1. TypeOK /\ SerialInv /\ EmptyInv /\ ActiveInv
  BY DEF BaseInv, OrderInv
<1>2. CASE UNCHANGED <<slots, pc, locals, tenant>>
  BY <1>1, <1>2 DEF ActiveInv, Releases, slots, locals
<1>3. ASSUME NEW d \in delivering, Deliver(d) PROVE ActiveInv'
  <2>1. d.slot \in Slots /\ d.request \in Payloads
    BY <1>1, ArrivalFacts
  <2>2. Put(d.slot, d.request) /\ work' = work
    BY <1>3 DEF Deliver, locals
  <2>3. QED
    BY <1>1, <2>1, <2>2, PutActive
<1>4. CASE EnqueueForceEnd
  <2>1. reaper.slot \in Slots /\ ForceEnd \in Payloads
    BY <1>1, <1>4 DEF EnqueueForceEnd, TypeOK, Payloads
  <2>2. Put(reaper.slot, ForceEnd) /\ work' = work
    BY <1>4 DEF EnqueueForceEnd, locals
  <2>3. QED
    BY <1>1, <2>1, <2>2, PutActive
<1>5. ASSUME NEW b \in Batchers, CollectSlot(b) PROVE ActiveInv'
  <2>1. PICK s \in Slots : s = Slot(b)
    BY <1>1, <1>5, CollectQueue
  <2>2. /\ queue[s] # <<>> /\ s = <<b, work[b].slot>>
        /\ \A q \in Slots : q # s => queue'[q] = queue[q]
    BY <1>1, <1>5, <2>1, CollectQueue
  <2>3. PICK end : /\ pc' = [pc EXCEPT ![b] = IF end THEN "release" ELSE "collect"]
                   /\ work' = IF end THEN work ELSE [work EXCEPT ![b].slot = @ + 1]
    BY <1>5 DEF CollectSlot, GoTo
  <2>4. /\ pc[b] = "collect" /\ pc \in [Batchers -> PCs] /\ work \in [Batchers -> Works]
        /\ UNCHANGED <<active, maxActive>>
    BY <1>1, <1>5 DEF CollectSlot, Collecting, TypeOK
  <2>5. \A e \in Batchers : e # b => work'[e] = work[e] /\ pc'[e] = pc[e]
    BY <2>3, <2>4
  <2>6. pc'[b] # "wait" /\ (pc'[b] \in {"release", "corrupt"} => work'[b] = work[b])
    BY <2>3, <2>4
  <2>7. ASSUME NEW q \in Slots, Releases(q)' PROVE q \in active
    <3>1. q[1] \in Batchers /\ q = <<q[1], q[2]>>
      BY DEF Slots
    <3>2. CASE q[1] # b
      BY <1>1, <2>5, <2>7, <3>1, <3>2 DEF Releases, ActiveInv
    <3>3. CASE q[1] = b
      <4>1. q = s
        BY <2>2, <2>6, <2>7, <3>1, <3>3 DEF Releases
      <4>2. QED
        BY <1>1, <2>2, <4>1 DEF ActiveInv
    <3>4. QED
      BY <3>2, <3>3
  <2>8. ASSUME NEW q \in Slots, queue'[q] # <<>> PROVE q \in active /\ pc'[q[1]] # "wait"
    <3>1. queue[q] # <<>>
      BY <2>2, <2>8
    <3>2. q \in active /\ pc[q[1]] # "wait" /\ q[1] \in Batchers
      BY <1>1, <3>1 DEF ActiveInv, Slots
    <3>3. QED
      BY <2>5, <2>6, <3>2
  <2>9. QED
    BY <1>1, <2>4, <2>7, <2>8 DEF ActiveInv
<1>6. ASSUME NEW b \in Batchers, RefillSlot(b) \/ FreeSlot(b) PROVE ActiveInv'
  <2>1. PICK s \in Slots : s = Slot(b)
    BY <1>6 DEF BaseInv, ReleaseInv, RefillSlot, FreeSlot, Releasing
  <2>2. /\ Releases(s) /\ ~Releases(s)'
        /\ \A q \in Slots : q # s => (Releases(q)' <=> Releases(q))
    BY <1>6, <2>1, ReleaseEnds DEF SameRelease, Releases
  <2>3. s \in active /\ queue[s] = <<>>
    BY <1>1, <2>2 DEF ActiveInv, EmptyInv
  <2>4. /\ \A q \in Slots : q # s => queue'[q] = queue[q]
        /\ maxActive' = maxActive
        /\ pc' = [pc EXCEPT ![b] = "collect"] /\ pc \in [Batchers -> PCs]
    BY <1>1, <1>6, <2>1 DEF RefillSlot, FreeSlot, GoTo, TypeOK
  <2>5. \A q \in Slots : q[1] \in Batchers /\ (pc[q[1]] # "wait" => pc'[q[1]] # "wait")
    BY <2>4 DEF Slots
  <2>6. CASE RefillSlot(b)
    <3>1. active' = active
      BY <2>6 DEF RefillSlot
    <3>2. s[1] = b /\ pc'[b] # "wait"
      BY <2>1, <2>4 DEF Slot
    <3>3. QED
      BY <1>1, <2>2, <2>3, <2>4, <2>5, <3>1, <3>2 DEF ActiveInv
  <2>7. CASE FreeSlot(b)
    <3>1. active' = active \ {s} /\ queue' = queue
      BY <2>1, <2>7 DEF FreeSlot
    <3>2. QED
      BY <1>1, <2>2, <2>3, <2>4, <2>5, <3>1 DEF ActiveInv
  <2>8. QED
    BY <1>6, <2>6, <2>7
<1>7. ASSUME NEW b \in Batchers, Moves(b) PROVE ActiveInv'
  BY <1>1, <1>7, MoveActive
<1>8. QED
  BY <1>2, <1>3, <1>4, <1>5, <1>6, <1>7, NextParts

-----------------------------------------------------------------------------
(***************************************************************************)
(* Orderly clients: the order of the requests of a sequence.               *)
(***************************************************************************)
\* What does not end a sequence is a request.
LEMMA PayloadFacts ==
    ASSUME NEW p \in Payloads
    PROVE  /\ p.end \in BOOLEAN
           /\ ~p.end => p \in Requests /\ p # ForceEnd /\ p.id # 0
           /\ p # ForceEnd => p \in Requests
<1>1. ForceEnd.end
  BY DEF ForceEnd
<1>2. ASSUME p \in Requests PROVE p.end \in BOOLEAN /\ p.id # 0
  BY <1>2, BoundAssumption DEF Requests
<1>3. p \in Requests \/ p = ForceEnd
  BY DEF Payloads
<1>4. ForceEnd.end \in BOOLEAN
  BY DEF ForceEnd
<1>5. QED
  BY <1>1, <1>2, <1>3, <1>4

\* The last payload of a queue.
LEMMA LastFacts ==
    ASSUME TypeOK, NEW s \in Slots, queue[s] # <<>>
    PROVE  /\ queue[s] \in Seq(Payloads) /\ Len(queue[s]) \in Nat /\ DOMAIN queue[s] = 1..Len(queue[s])
           /\ 1 \in DOMAIN queue[s] /\ Len(queue[s]) \in DOMAIN queue[s]
           /\ queue[s][Len(queue[s])] \in Payloads
           /\ Last(s) = queue[s][Len(queue[s])].id
<1>1. queue[s] \in Seq(Payloads)
  BY DEF TypeOK
<1>2. QED
  BY <1>1 DEF Last

\* The last request of a slot in the next state.
LEMMA LastNext ==
    ASSUME NEW s \in Slots
    PROVE  /\ queue'[s] = queue[s] /\ tenant'[s] = tenant[s] =>
                 Last(s)' = Last(s) /\ (Chained(s) => Chained(s)')
           /\ queue'[s] # <<>> => Last(s)' = queue'[s][Len(queue'[s])].id
           /\ queue'[s] = <<>> => Last(s)' = tenant'[s]
  BY DEF Last, Chained, InSequence

\* The last request of a sequence in the next state.
LEMMA UpToDateNext ==
    ASSUME NEW c \in Correlations, NEW s, slotOf'[c] = s,
           s # None => /\ latest'[c] # 0
                       /\ Last(s)' = latest'[c] \/ \E d \in delivering' : d.request.cid = c
    PROVE  UpToDate(c)'
  BY DEF UpToDate, Last

\* The queues of the slots stay as they are; what is put on its way continues
\* its slot, and is the latest request of its sequence.
LEMMA ChainKept ==
    ASSUME TypeOK, ChainInv, UNCHANGED <<queue, tenant>>, delivering \subseteq delivering',
           \A d \in delivering' : d \in delivering \/ (d.slot \in Slots /\ Continues(d.request, d.slot)),
           \A c \in Correlations :
               \/ slotOf'[c] = None
               \/ slotOf'[c] = slotOf[c] /\ latest'[c] = latest[c]
               \/ latest'[c] # 0 /\ \E d \in delivering' : d.request.cid = c
    PROVE  ChainInv'
<1>1. \A s \in Slots : Last(s)' = Last(s) /\ (Chained(s) => Chained(s)')
  BY LastNext
<1>2. \A d \in delivering' : d.slot \in Slots /\ Continues(d.request, d.slot)
  BY DEF ChainInv, TypeOK
<1>3. \A d \in delivering' : Continues(d.request, d.slot)'
  BY <1>1, <1>2 DEF Continues
<1>4. ASSUME NEW c \in Correlations PROVE UpToDate(c)'
  <2>1. PICK s : s = slotOf'[c]
    OBVIOUS
  <2>2. CASE slotOf'[c] = slotOf[c] /\ latest'[c] = latest[c] /\ s # None
    <3>1. s \in Slots
      BY <2>1, <2>2 DEF TypeOK
    <3>2. latest[c] # 0 /\ (Last(s) = latest[c] \/ \E d \in delivering : d.request.cid = c)
      BY <2>1, <2>2 DEF ChainInv, UpToDate
    <3>3. latest'[c] # 0 /\ (Last(s)' = latest'[c] \/ \E d \in delivering' : d.request.cid = c)
      BY <1>1, <2>2, <3>1, <3>2
    <3>4. QED
      BY <2>1, <3>3, UpToDateNext
  <2>3. CASE s = None \/ (latest'[c] # 0 /\ \E d \in delivering' : d.request.cid = c)
    BY <2>1, <2>3, UpToDateNext
  <2>4. QED
    BY <2>1, <2>2, <2>3
<1>5. QED
  BY <1>1, <1>3, <1>4 DEF ChainInv

\* A request accepted for a slot continues what is there.
LEMMA EnqueueChain ==
    ASSUME BaseInv, OrderInv, Orderly,
           NEW c \in Correlations, NEW start \in BOOLEAN, NEW end \in BOOLEAN, Enqueue(c, start, end)
    PROVE  ChainInv'
<1>1. /\ TypeOK /\ SerialInv /\ EmptyInv /\ ChainInv
      /\ slotOf \in [Correlations -> Slots \cup {None}] /\ issued \in Nat
  BY BoundAssumption DEF BaseInv, OrderInv, TypeOK
<1>2. CASE EnqueueToSlot(c, start, end)
  <2>1. PICK d : d = [request |-> NewRequest(c, start, end), slot |-> slotOf[c]]
    OBVIOUS
  <2>2. /\ delivering' = delivering \cup {d}
        /\ d.slot = slotOf[c] /\ d.request.cid = c /\ d.request.prev = latest[c]
        /\ UNCHANGED <<queue, tenant>>
        /\ slotOf[c] # None /\ slotOf' = IF end THEN Unmapped(c) ELSE slotOf
    BY <1>2, <2>1 DEF EnqueueToSlot, Dispatch, NewRequest, slots
  <2>3. /\ \A e \in delivering : e.request.cid # c
        /\ latest' = [latest EXCEPT ![c] = issued + 1] /\ latest \in [Correlations -> 0..MaxRequests]
    BY <1>1, <1>2, AcceptFacts DEF EnqueueToSlot
  <2>4. d.slot \in Slots /\ Last(d.slot) = latest[c] /\ latest[c] # 0
    BY <1>1, <2>2, <2>3 DEF ChainInv, UpToDate
  <2>5. Continues(d.request, d.slot)
    BY <2>2, <2>4 DEF Continues
  <2>6. \A e \in Correlations :
               \/ slotOf'[e] = slotOf[e] /\ latest'[e] = latest[e]
               \/ latest'[e] # 0 /\ \E a \in delivering' : a.request.cid = e
    BY <1>1, <2>2, <2>3 DEF Unmapped
  <2>7. QED
    BY <1>1, <2>2, <2>4, <2>5, <2>6, ChainKept
<1>3. CASE EnqueueToNewSlot(c, end)
  <2>1. PICK s \in Top :
           /\ Dispatch(NewRequest(c, TRUE, end), s)
           /\ slotOf' = IF end THEN slotOf ELSE [slotOf EXCEPT ![c] = s]
    BY <1>3 DEF EnqueueToNewSlot
  <2>2. PICK d : d = [request |-> NewRequest(c, TRUE, end), slot |-> s]
    OBVIOUS
  <2>3. /\ delivering' = delivering \cup {d}
        /\ d.slot = s /\ d.request.cid = c /\ d.request.start
        /\ UNCHANGED <<queue, tenant>>
    BY <1>3, <2>1, <2>2 DEF EnqueueToNewSlot, Dispatch, NewRequest, slots
  <2>4. latest' = [latest EXCEPT ![c] = issued + 1] /\ latest \in [Correlations -> 0..MaxRequests]
    BY <1>1, <1>3, AcceptFacts DEF EnqueueToNewSlot
  <2>5. s \in Slots /\ ready[s] # 0
    BY <1>1 DEF Top, TypeOK
  <2>6. Last(s) = 0
    BY <1>1, <2>5 DEF EmptyInv, Last
  <2>7. Continues(d.request, d.slot)
    BY <2>3, <2>6 DEF Continues
  <2>8. \A e \in Correlations :
               \/ slotOf'[e] = slotOf[e] /\ latest'[e] = latest[e]
               \/ latest'[e] # 0 /\ \E a \in delivering' : a.request.cid = e
    BY <1>1, <2>1, <2>3, <2>4
  <2>9. QED
    BY <1>1, <2>3, <2>5, <2>7, <2>8, ChainKept
<1>4. CASE EnqueueToBacklog(c, start, end) \/ EnqueueToNewBacklog(c, end)
  <2>1. slotOf[c] = None /\ UNCHANGED <<slotOf, delivering, queue, tenant>>
    BY <1>4 DEF EnqueueToBacklog, EnqueueToNewBacklog, Known, slots
  <2>2. PICK st \in BOOLEAN : Accept(c, st)
    BY <1>4 DEF EnqueueToBacklog, EnqueueToNewBacklog
  <2>3. latest' = [latest EXCEPT ![c] = issued + 1] /\ latest \in [Correlations -> 0..MaxRequests]
    BY <1>1, <2>2, AcceptFacts
  <2>4. \A e \in Correlations : slotOf'[e] = None \/ (slotOf'[e] = slotOf[e] /\ latest'[e] = latest[e])
    BY <2>1, <2>3
  <2>5. QED
    BY <1>1, <2>1, <2>4, ChainKept
<1>5. QED
  BY <1>2, <1>3, <1>4 DEF Enqueue

\* A payload put behind others that do not end their sequence, and that continues them.
LEMMA PutChained ==
    ASSUME TypeOK, NEW s \in Slots, NEW p \in Payloads, Put(s, p), tenant' = tenant,
           Chained(s), ~EndQueued(s),
           p = ForceEnd \/ Continues(p, s)
    PROVE  Chained(s)'
<1>1. /\ queue'[s] # <<>> /\ Len(queue[s]) \in Nat /\ DOMAIN queue[s] = 1..Len(queue[s])
      /\ DOMAIN queue'[s] = DOMAIN queue[s] \cup {Len(queue[s]) + 1}
      /\ queue'[s][Len(queue[s]) + 1] = p
      /\ \A i \in DOMAIN queue[s] : queue'[s][i] = queue[s][i]
  BY PutQueue
<1>2. CASE queue[s] = <<>>
  <2>1. Last(s) = tenant[s] /\ Len(queue[s]) = 0
    BY <1>2 DEF Last
  <2>2. queue'[s][1] = p /\ DOMAIN queue'[s] = {1}
    BY <1>1, <2>1
  <2>3. p = ForceEnd \/ InSequence(p, s)'
    BY <2>1 DEF Continues, InSequence
  <2>4. QED
    BY <2>2, <2>3 DEF Chained, InSequence
<1>3. CASE queue[s] # <<>>
  <2>1. /\ 1 \in DOMAIN queue[s] /\ Len(queue[s]) \in DOMAIN queue[s]
        /\ queue[s][Len(queue[s])] \in Payloads
        /\ Last(s) = queue[s][Len(queue[s])].id
    BY <1>3, LastFacts
  <2>2. ~queue[s][Len(queue[s])].end
    BY <2>1 DEF EndQueued
  <2>3. Last(s) # 0
    BY <2>1, <2>2, PayloadFacts
  <2>4. p = ForceEnd \/ Follows(p, queue[s][Len(queue[s])])
    BY <2>1, <2>2, <2>3 DEF Continues, Follows
  <2>5. /\ queue[s][1] = ForceEnd \/ InSequence(queue[s][1], s)
        /\ \A k \in DOMAIN queue[s] : k # 1 =>
              ~queue[s][k - 1].end /\ (queue[s][k] = ForceEnd \/ Follows(queue[s][k], queue[s][k - 1]))
    BY <1>3 DEF Chained
  <2>6. queue'[s][1] = ForceEnd \/ InSequence(queue[s][1], s)'
    BY <1>1, <2>1, <2>5 DEF InSequence
  <2>7. ASSUME NEW k \in DOMAIN queue'[s], k # 1
        PROVE  ~queue'[s][k - 1].end /\ (queue'[s][k] = ForceEnd \/ Follows(queue'[s][k], queue'[s][k - 1]))
    <3>1. CASE k \in DOMAIN queue[s]
      <4>1. k - 1 \in DOMAIN queue[s]
        BY <1>1, <2>7, <3>1
      <4>2. QED
        BY <1>1, <2>5, <2>7, <3>1, <4>1
    <3>2. CASE k = Len(queue[s]) + 1
      <4>1. k - 1 = Len(queue[s])
        BY <1>1, <3>2
      <4>2. QED
        BY <1>1, <2>1, <2>2, <2>4, <3>2, <4>1
    <3>3. QED
      BY <1>1, <2>7, <3>1, <3>2
  <2>8. QED
    BY <1>1, <2>6, <2>7 DEF Chained, InSequence
<1>4. QED
  BY <1>2, <1>3

\* One slot gets other contents; nothing is on its way there then, and its owner,
\* if there is one, is up to date.
LEMMA ChainMoves ==
    ASSUME TypeOK, ChainInv, NEW s \in Slots, Chained(s)', delivering' \subseteq delivering,
           \A q \in Slots : q # s => queue'[q] = queue[q] /\ tenant'[q] = tenant[q],
           \A d \in delivering' : d.slot # s,
           \A c \in Correlations :
               \/ slotOf'[c] = None
               \/ /\ slotOf'[c] = slotOf[c] /\ slotOf[c] # s /\ latest'[c] = latest[c]
                  /\ \A d \in delivering : d.request.cid = c => d \in delivering'
               \/ slotOf'[c] = s /\ latest'[c] # 0 /\ Last(s)' = latest'[c]
    PROVE  ChainInv'
<1>1. \A q \in Slots : q # s => Last(q)' = Last(q) /\ Chained(q)'
  BY LastNext DEF ChainInv
<1>2. \A q \in Slots : Chained(q)'
  BY <1>1
<1>3. \A d \in delivering' : d.slot \in Slots /\ d.slot # s /\ Continues(d.request, d.slot)
  BY DEF ChainInv, TypeOK
<1>4. \A d \in delivering' : Continues(d.request, d.slot)'
  BY <1>1, <1>3 DEF Continues
<1>5. ASSUME NEW c \in Correlations PROVE UpToDate(c)'
  <2>1. PICK q : q = slotOf'[c]
    OBVIOUS
  <2>2. CASE q = None
    BY <2>1, <2>2, UpToDateNext
  <2>3. CASE /\ q # None /\ slotOf'[c] = slotOf[c] /\ slotOf[c] # s /\ latest'[c] = latest[c]
             /\ \A d \in delivering : d.request.cid = c => d \in delivering'
    <3>1. q \in Slots /\ q # s
      BY <2>1, <2>3 DEF TypeOK
    <3>2. latest[c] # 0 /\ (Last(q) = latest[c] \/ \E d \in delivering : d.request.cid = c)
      BY <2>1, <2>3 DEF ChainInv, UpToDate
    <3>3. latest'[c] # 0 /\ (Last(q)' = latest'[c] \/ \E d \in delivering' : d.request.cid = c)
      BY <1>1, <2>3, <3>1, <3>2
    <3>4. QED
      BY <2>1, <3>3, UpToDateNext
  <2>4. CASE slotOf'[c] = s /\ latest'[c] # 0 /\ Last(s)' = latest'[c]
    BY <2>4, UpToDateNext
  <2>5. QED
    BY <2>1, <2>2, <2>3, <2>4
<1>6. QED
  BY <1>2, <1>4, <1>5 DEF ChainInv

\* A request that arrives is the latest of its sequence, and the last in the slot.
LEMMA DeliverChain ==
    ASSUME BaseInv, OrderInv, NEW d \in delivering, Deliver(d)
    PROVE  ChainInv'
<1>1. TypeOK /\ ClaimInv /\ SerialInv /\ ChainInv
  BY DEF BaseInv, OrderInv
<1>2. PICK s : s = d.slot
  OBVIOUS
<1>3. /\ s \in Slots /\ d.request \in Payloads /\ d.request.cid \in Correlations /\ d.request.id \in 1..MaxRequests
      /\ d.request.end => EndArriving(s) /\ slotOf[d.request.cid] = None
      /\ ~d.request.end => Owned(s) /\ slotOf[d.request.cid] = s
      /\ ~EndQueued(s)
      /\ \A e \in delivering : e.slot = s => e = d
  BY <1>1, <1>2, ArrivalFacts
<1>4. /\ Put(s, d.request) /\ delivering' = delivering \ {d}
      /\ UNCHANGED <<slotOf, latest, tenant>>
  BY <1>2 DEF Deliver, maps, history
<1>5. Chained(s) /\ Continues(d.request, s) /\ latest[d.request.cid] = d.request.id /\ Apart(s)
  BY <1>1, <1>2, <1>3 DEF ChainInv, SerialInv, ClaimInv
<1>6. Chained(s)'
  BY <1>1, <1>3, <1>4, <1>5, PutChained
<1>7. \A q \in Slots : q # s => queue'[q] = queue[q] /\ tenant'[q] = tenant[q]
  BY <1>1, <1>3, <1>4, PutQueue
<1>8. Last(s)' = d.request.id
  <2>1. queue'[s] # <<>> /\ queue'[s][Len(queue'[s])] = d.request
    BY <1>1, <1>3, <1>4, PutQueue
  <2>2. QED
    BY <1>3, <2>1, LastNext
<1>9. ASSUME NEW c \in Correlations
      PROVE  \/ slotOf'[c] = None
             \/ /\ slotOf'[c] = slotOf[c] /\ slotOf[c] # s /\ latest'[c] = latest[c]
                /\ \A e \in delivering : e.request.cid = c => e \in delivering'
             \/ slotOf'[c] = s /\ latest'[c] # 0 /\ Last(s)' = latest'[c]
  <2>1. CASE c = d.request.cid
    <3>1. slotOf[c] = None \/ slotOf[c] = s
      BY <1>1, <1>3, <2>1 DEF TypeOK, Requests
    <3>2. latest'[c] = d.request.id /\ d.request.id # 0
      BY <1>3, <1>4, <1>5, <2>1
    <3>3. QED
      BY <1>4, <1>8, <3>1, <3>2
  <2>2. CASE c # d.request.cid
    <3>1. slotOf[c] # s
      <4>1. ASSUME slotOf[c] = s PROVE FALSE
        <5>1. Owned(s)
          BY <4>1 DEF Owned
        <5>2. ~d.request.end
          BY <1>3, <1>5, <5>1 DEF Apart
        <5>3. QED
          BY <1>3, <1>5, <2>2, <4>1, <5>2 DEF Apart
      <4>2. QED
        BY <4>1
    <3>2. QED
      BY <1>4, <2>2, <3>1
  <2>3. QED
    BY <2>1, <2>2
<1>10. QED
  BY <1>1, <1>2, <1>3, <1>4, <1>6, <1>7, <1>9, ChainMoves

\* Nothing is on its way to a slot that has no owner and waits for no END, and no
\* sequence is mapped to it.
LEMMA NothingComes ==
    ASSUME BaseInv, SerialInv, NEW s \in Slots, Evicting(s) \/ EndQueued(s) \/ Releases(s)
    PROVE  (\A d \in delivering : d.slot # s) /\ (\A c \in Correlations : slotOf[c] # s)
<1>1. \A d \in delivering : ~Evicting(d.slot) /\ ~EndQueued(d.slot) /\ ~Releases(d.slot)
  BY ArrivalFacts
<1>2. Apart(s)
  BY DEF BaseInv, ClaimInv
<1>3. ~Owned(s)
  BY <1>2 DEF Apart
<1>4. QED
  BY <1>1, <1>3 DEF Owned

\* The reaper's END goes to a slot that nothing else is on its way to.
LEMMA ForceEndChain == ASSUME BaseInv, OrderInv, EnqueueForceEnd PROVE ChainInv'
<1>1. TypeOK /\ ClaimInv /\ SerialInv /\ ChainInv
  BY DEF BaseInv, OrderInv
<1>2. PICK s : s = reaper.slot
  OBVIOUS
<1>3. /\ s \in Slots /\ ForceEnd \in Payloads /\ Evicting(s)
      /\ Put(s, ForceEnd)
      /\ UNCHANGED <<delivering, slotOf, latest, tenant>>
  BY <1>1, <1>2 DEF EnqueueForceEnd, TypeOK, Payloads, Evicting, maps, history
<1>4. (\A d \in delivering : d.slot # s) /\ (\A c \in Correlations : slotOf[c] # s)
  BY <1>1, <1>3, NothingComes
<1>5. Chained(s) /\ ~EndQueued(s)
  BY <1>1, <1>3 DEF ChainInv, ClaimInv, Apart
<1>6. Chained(s)'
  BY <1>1, <1>3, <1>5, PutChained
<1>7. \A q \in Slots : q # s => queue'[q] = queue[q] /\ tenant'[q] = tenant[q]
  BY <1>1, <1>3, PutQueue
<1>8. QED
  BY <1>1, <1>3, <1>4, <1>6, <1>7, ChainMoves

\* What follows the payload collected continues it.
LEMMA CollectChain ==
    ASSUME BaseInv, OrderInv, NEW b \in Batchers, CollectSlot(b)
    PROVE  ChainInv'
<1>1. TypeOK /\ ClaimInv /\ SerialInv /\ ChainInv
  BY DEF BaseInv, OrderInv
<1>2. PICK s \in Slots : s = Slot(b)
  BY <1>1, CollectQueue
<1>3. PICK p \in Payloads : p = queue[s][1] /\ p = Head(queue[Slot(b)])
  BY <1>1, <1>2, CollectQueue
<1>4. /\ queue[s] # <<>> /\ 1 \in DOMAIN queue[s]
      /\ Len(queue[s]) \in Nat /\ DOMAIN queue[s] = 1..Len(queue[s])
      /\ Len(queue'[s]) = Len(queue[s]) - 1
      /\ DOMAIN queue'[s] = 1..Len(queue'[s])
      /\ queue'[s] = Tail(queue[s])
      /\ \A q \in Slots : q # s => queue'[q] = queue[q]
      /\ \A i \in DOMAIN queue'[s] : i \in Nat /\ i + 1 \in DOMAIN queue[s] /\ queue'[s][i] = queue[s][i + 1]
  BY <1>1, <1>2, CollectQueue
<1>5. /\ tenant'[s] = IF p.end THEN 0 ELSE p.id
      /\ \A q \in Slots : q # s => tenant'[q] = tenant[q]
      /\ UNCHANGED <<delivering, slotOf, latest>>
  <2>1. tenant \in [Slots -> 0..MaxRequests] /\ tenant' = [tenant EXCEPT ![s] = IF p.end THEN 0 ELSE p.id]
    BY <1>1, <1>2, <1>3 DEF CollectSlot, TypeOK
  <2>2. QED
    BY <2>1 DEF CollectSlot, quietThread, maps
<1>6. \A k \in DOMAIN queue[s] : k # 1 =>
         ~queue[s][k - 1].end /\ (queue[s][k] = ForceEnd \/ Follows(queue[s][k], queue[s][k - 1]))
  BY <1>1, <1>4 DEF ChainInv, Chained
<1>7. Chained(s)'
  <2>1. SUFFICES ASSUME queue'[s] # <<>> PROVE Chained(s)'
    BY DEF Chained
  <2>2. 2 \in DOMAIN queue[s] /\ 1 \in DOMAIN queue'[s] /\ queue'[s][1] = queue[s][2]
    <3>1. queue[s] \in Seq(Payloads)
      BY <1>1 DEF TypeOK
    <3>2. Len(queue'[s]) # 0
      BY <1>4, <2>1, <3>1
    <3>3. 1 \in DOMAIN queue'[s] /\ 1 + 1 = 2
      <4>1. PICK n, m : n = Len(queue[s]) /\ m = Len(queue'[s])
        OBVIOUS
      <4>2. n \in Nat /\ m = n - 1 /\ m # 0 /\ 1 \in 1..n
        BY <1>4, <3>2, <4>1
      <4>3. 1 \in 1..m
        BY <4>2
      <4>4. QED
        BY <1>4, <4>1, <4>3
    <3>4. 1 + 1 \in DOMAIN queue[s] /\ queue'[s][1] = queue[s][1 + 1]
      BY <1>4, <3>3, Zenon
    <3>5. QED
      BY <3>3, <3>4
  <2>3. ~p.end /\ (queue[s][2] = ForceEnd \/ Follows(queue[s][2], p))
    <3>1. 2 - 1 = 1 /\ 2 # 1
      OBVIOUS
    <3>2. ~queue[s][1].end /\ (queue[s][2] = ForceEnd \/ Follows(queue[s][2], queue[s][1]))
      BY <1>6, <2>2, <3>1, Zenon
    <3>3. QED
      BY <1>3, <3>2
  <2>4. tenant'[s] = p.id /\ p.id # 0
    BY <1>3, <1>5, <2>3, PayloadFacts
  <2>5. PICK r : r = queue'[s][1] /\ (r = ForceEnd \/ InSequence(r, s)')
    <3>1. PICK r : r = queue[s][2]
      OBVIOUS
    <3>2. r = ForceEnd \/ InSequence(r, s)'
      BY <2>3, <2>4, <3>1 DEF InSequence, Follows
    <3>3. QED
      BY <2>2, <3>1, <3>2
  <2>6. ASSUME NEW k \in DOMAIN queue'[s], k # 1
        PROVE  ~queue'[s][k - 1].end /\ (queue'[s][k] = ForceEnd \/ Follows(queue'[s][k], queue'[s][k - 1]))
    <3>1. k - 1 \in DOMAIN queue'[s] /\ k + 1 # 1 /\ k + 1 \in DOMAIN queue[s]
      BY <1>4, <2>6
    <3>2. queue'[s][k - 1] = queue[s][k] /\ queue'[s][k] = queue[s][k + 1]
      <4>1. (k - 1) + 1 = k
        BY <1>4, <2>6
      <4>2. QED
        BY <1>4, <3>1, <4>1
    <3>3. ~queue[s][(k + 1) - 1].end
          /\ (queue[s][k + 1] = ForceEnd \/ Follows(queue[s][k + 1], queue[s][(k + 1) - 1]))
      BY <1>6, <3>1
    <3>4. (k + 1) - 1 = k
      BY <1>4, <2>6
    <3>5. QED
      BY <3>2, <3>3, <3>4
  <2>7. QED
    BY <2>5, <2>6 DEF Chained, InSequence
<1>8. CASE p.end
  <2>1. EndQueued(s)
    BY <1>3, <1>4, <1>8 DEF EndQueued
  <2>2. (\A d \in delivering : d.slot # s) /\ (\A c \in Correlations : slotOf[c] # s)
    BY <1>1, <2>1, NothingComes
  <2>3. QED
    BY <1>1, <1>4, <1>5, <1>7, <2>2, ChainMoves
<1>9. CASE ~p.end
  <2>1. Last(s)' = Last(s)
    <3>1. CASE queue'[s] = <<>>
      <4>1. Len(queue[s]) = 1
        <5>1. Len(queue'[s]) = 0
          BY <3>1
        <5>2. QED
          BY <1>4, <5>1
      <4>2. Last(s) = p.id
        BY <1>1, <1>3, <1>4, <4>1, LastFacts
      <4>3. QED
        BY <1>5, <1>9, <3>1, <4>2, LastNext
    <3>2. CASE queue'[s] # <<>>
      <4>1. queue[s] \in Seq(Payloads)
        BY <1>1 DEF TypeOK
      <4>2. Len(queue'[s]) \in DOMAIN queue'[s] /\ Len(queue'[s]) + 1 = Len(queue[s])
        BY <1>4, <3>2, <4>1
      <4>3. queue'[s][Len(queue'[s])] = queue[s][Len(queue[s])]
        BY <1>4, <4>2
      <4>4. QED
        BY <1>1, <1>4, <3>2, <4>3, LastFacts, LastNext
    <3>3. QED
      BY <3>1, <3>2
  <2>2. \A q \in Slots : Last(q)' = Last(q) /\ Chained(q)'
    BY <1>1, <1>4, <1>5, <1>7, <2>1, LastNext DEF ChainInv
  <2>3. \A d \in delivering' : Continues(d.request, d.slot)'
    <3>1. \A d \in delivering : d.slot \in Slots /\ Continues(d.request, d.slot)
      BY <1>1 DEF ChainInv, TypeOK
    <3>2. QED
      BY <1>5, <2>2, <3>1 DEF Continues
  <2>4. ASSUME NEW c \in Correlations PROVE UpToDate(c)'
    <3>1. PICK q : q = slotOf'[c]
      OBVIOUS
    <3>2. q # None => /\ q \in Slots /\ latest[c] # 0
                      /\ Last(q) = latest[c] \/ \E d \in delivering : d.request.cid = c
      BY <1>1, <1>5, <3>1 DEF ChainInv, UpToDate, TypeOK
    <3>3. q # None => /\ latest'[c] # 0
                      /\ Last(q)' = latest'[c] \/ \E d \in delivering' : d.request.cid = c
      BY <1>5, <2>2, <3>2
    <3>4. QED
      BY <3>1, <3>3, UpToDateNext
  <2>5. QED
    BY <2>2, <2>3, <2>4 DEF ChainInv
<1>10. QED
  BY <1>3, <1>8, <1>9, PayloadFacts

\* The slot gets the backlog's first sequence, of which it has executed nothing.
LEMMA RefillChain ==
    ASSUME BaseInv, OrderInv, NEW b \in Batchers, RefillSlot(b)
    PROVE  ChainInv'
<1>1. TypeOK /\ ClaimInv /\ WholeInv /\ SerialInv /\ EmptyInv /\ ChainInv
  BY DEF BaseInv, OrderInv
<1>2. PICK s \in Slots : s = Slot(b)
  BY DEF BaseInv, ReleaseInv, RefillSlot, Releasing
<1>3. Releases(s) /\ tenant[s] = 0
  BY <1>1, <1>2, ReleaseEnds DEF EmptyInv
<1>4. (\A d \in delivering : d.slot # s) /\ (\A c \in Correlations : slotOf[c] # s)
  BY <1>1, <1>3, NothingComes
<1>5. PICK h : h = backlog[1]
  OBVIOUS
<1>6. /\ 1 \in DOMAIN backlog /\ Head(backlog) = h
      /\ h \in Seq(Requests) /\ h # <<>>
      /\ Len(h) \in DOMAIN h /\ h[Len(h)] \in Requests
      /\ h[Len(h)].cid = h[1].cid /\ h[1].cid \in Correlations
  BY <1>5, HeadFacts DEF RefillSlot
<1>7. PICK r : r = h[Len(h)]
  OBVIOUS
<1>8. /\ queue' = [queue EXCEPT ![s] = h] /\ queue \in [Slots -> Seq(Payloads)]
      /\ slotOf' = IF r.end THEN slotOf ELSE [slotOf EXCEPT ![r.cid] = s]
      /\ slotOf \in [Correlations -> Slots \cup {None}]
      /\ UNCHANGED <<delivering, latest, tenant>>
  BY <1>1, <1>2, <1>6, <1>7 DEF RefillSlot, Adopt, maps, history, TypeOK
<1>9. queue'[s] = h /\ \A q \in Slots : q # s => queue'[q] = queue[q]
  BY <1>8
<1>10. /\ h[1].start
       /\ \A k \in DOMAIN h : k # 1 => Follows(h[k], h[k - 1])
       /\ ~r.end => latest[r.cid] = r.id
  BY <1>1, <1>5, <1>6, <1>7 DEF WholeInv
<1>11. Chained(s)'
  <2>1. InSequence(h[1], s)'
    <3>1. PICK x : x = h[1]
      OBVIOUS
    <3>2. InSequence(x, s)'
      BY <1>3, <1>8, <1>10, <3>1 DEF InSequence
    <3>3. QED
      BY <3>1, <3>2
  <2>2. \A k \in DOMAIN h : k # 1 => ~h[k - 1].end /\ Follows(h[k], h[k - 1])
    BY <1>10 DEF Follows
  <2>3. QED
    BY <1>9, <2>1, <2>2 DEF Chained, InSequence
<1>12. ASSUME NEW c \in Correlations
       PROVE  \/ slotOf'[c] = None
              \/ /\ slotOf'[c] = slotOf[c] /\ slotOf[c] # s /\ latest'[c] = latest[c]
                 /\ \A d \in delivering : d.request.cid = c => d \in delivering'
              \/ slotOf'[c] = s /\ latest'[c] # 0 /\ Last(s)' = latest'[c]
  <2>1. CASE c = r.cid /\ ~r.end
    <3>1. Last(s)' = r.id
      BY <1>6, <1>7, <1>9, LastNext
    <3>2. r.id # 0
      BY <1>6, <1>7 DEF Requests
    <3>3. QED
      BY <1>8, <1>10, <2>1, <3>1, <3>2
  <2>2. CASE c # r.cid \/ r.end
    BY <1>4, <1>8, <2>2
  <2>3. QED
    BY <2>1, <2>2
<1>13. QED
  BY <1>1, <1>4, <1>8, <1>9, <1>11, <1>12, ChainMoves

\* No step lets a request overtake another of its sequence, or get lost between
\* them: what is queued continues what the slot executed.
LEMMA ChainStep == ASSUME BaseInv, OrderInv, Orderly, Next PROVE ChainInv'
<1>1. TypeOK /\ ChainInv /\ slotOf \in [Correlations -> Slots \cup {None}]
  BY DEF BaseInv, OrderInv, TypeOK
<1>2. ASSUME UNCHANGED <<queue, tenant, delivering, latest>>,
             \A c \in Correlations : slotOf'[c] = None \/ slotOf'[c] = slotOf[c]
      PROVE  ChainInv'
  BY <1>1, <1>2, ChainKept
<1>3. ASSUME NEW c \in Correlations, NEW start \in BOOLEAN, NEW end \in BOOLEAN, Enqueue(c, start, end)
      PROVE  ChainInv'
  BY <1>3, EnqueueChain
<1>4. CASE Refuse \/ Destroy \/ DestroyMembers \/ Gone
  BY <1>2, <1>4 DEF Refuse, Destroy, DestroyMembers, Gone, vars, maps, slots, history
<1>5. ASSUME NEW d \in delivering, Deliver(d) PROVE ChainInv'
  BY <1>5, DeliverChain
<1>6. ASSUME NEW c \in Correlations, GoIdle(c) PROVE ChainInv'
  BY <1>2, <1>6 DEF GoIdle, maps, slots, history
<1>7. CASE Reap
  <2>1. CASE TestReaperExit \/ StartScan \/ EndScan \/ WakeReaper
    BY <1>2, <2>1 DEF TestReaperExit, StartScan, EndScan, WakeReaper, quietReaper, maps, slots, history
  <2>2. ASSUME NEW c \in Correlations, Spare(c) \/ DropStamp(c) PROVE ChainInv'
    BY <1>2, <2>2 DEF Spare, DropStamp, quietReaper, maps, slots, history
  <2>3. ASSUME NEW c \in Correlations, Evict(c) PROVE ChainInv'
    <3>1. \A e \in Correlations : slotOf'[e] = None \/ slotOf'[e] = slotOf[e]
      BY <1>1, <2>3 DEF Evict, Unmapped
    <3>2. UNCHANGED <<queue, tenant, delivering, latest>>
      BY <2>3 DEF Evict, slots, history
    <3>3. QED
      BY <1>2, <3>1, <3>2
  <2>4. QED
    BY <1>7, <2>1, <2>2, <2>3, ForceEndChain DEF Reap
<1>8. ASSUME NEW b \in Batchers, CollectSlot(b) \/ RefillSlot(b) PROVE ChainInv'
  BY <1>8, CollectChain, RefillChain
<1>9. ASSUME NEW b \in Batchers, FreeSlot(b) PROVE ChainInv'
  BY <1>2, <1>9 DEF FreeSlot, maps, history
<1>10. ASSUME NEW b \in Batchers, Moves(b) PROVE ChainInv'
  BY <1>1, <1>2, <1>10, MoveFrame DEF maps
<1>11. CASE EnqueueForceEnd
  BY <1>11, ForceEndChain
<1>12. QED
  BY <1>3, <1>4, <1>5, <1>6, <1>7, <1>8, <1>9, <1>10, <1>11, NextParts

-----------------------------------------------------------------------------
(***************************************************************************)
(* Orderly clients: where requests are.                                    *)
(***************************************************************************)
\* What a step may leave as it is for a request.
SameBacklog(i) == (InBacklog(i)' <=> InBacklog(i)) /\ OnceInBacklog(i)'
SameQueue(i) == (InQueue(i)' <=> InQueue(i)) /\ OnceInQueue(i)'
SameArriving(i) == (Arriving(i)' <=> Arriving(i)) /\ OnceArriving(i)'
SameBatch(i) == (InBatch(i)' <=> InBatch(i)) /\ OnceInBatch(i)' /\ (i \in done' <=> i \in done)

\* Then the request is where it was.
LEMMA PlaceKept ==
    ASSUME NEW i, Placed(i), SameBacklog(i), SameQueue(i), SameArriving(i), SameBatch(i),
           i <= issued' <=> i <= issued
    PROVE  Placed(i)'
  BY DEF Placed, OnePlace, Somewhere, SameBacklog, SameQueue, SameArriving, SameBatch

\* Variables that do not change leave requests where they are.
LEMMA PlaceFrame ==
    ASSUME NEW i, Placed(i)
    PROVE  /\ backlog' = backlog => SameBacklog(i)
           /\ queue' = queue => SameQueue(i)
           /\ delivering' = delivering => SameArriving(i)
           /\ batch' = batch /\ done' = done => SameBatch(i)
<1>1. OnceInBacklog(i) /\ OnceInQueue(i) /\ OnceArriving(i) /\ OnceInBatch(i)
  BY DEF Placed
<1>2. backlog' = backlog => SameBacklog(i)
  BY <1>1 DEF SameBacklog, InBacklog, OnceInBacklog
<1>3. queue' = queue => SameQueue(i)
  BY <1>1 DEF SameQueue, InQueue, OnceInQueue
<1>4. delivering' = delivering => SameArriving(i)
  BY <1>1 DEF SameArriving, Arriving, OnceArriving
<1>5. batch' = batch /\ done' = done => SameBatch(i)
  BY <1>1 DEF SameBatch, InBatch, OnceInBatch
<1>6. QED
  BY <1>2, <1>3, <1>4, <1>5

\* A request that has not been enqueued is nowhere.
LEMMA NotYet ==
    ASSUME NEW i \in 1..MaxRequests, Placed(i), ~(i <= issued)
    PROVE  ~InBacklog(i) /\ ~InQueue(i) /\ ~Arriving(i) /\ ~InBatch(i) /\ i \notin done
  BY DEF Placed, Somewhere

\* The next request is nowhere yet, and the others are counted as before.
LEMMA NextRequest ==
    ASSUME TypeOK, PlaceInv, NEW c \in Correlations, NEW start, Accept(c, start)
    PROVE  /\ issued + 1 \in 1..MaxRequests /\ issued' = issued + 1
           /\ ~InBacklog(issued + 1) /\ ~InQueue(issued + 1) /\ ~Arriving(issued + 1)
           /\ ~InBatch(issued + 1) /\ issued + 1 \notin done
           /\ Placed(issued + 1)
           /\ \A i \in 1..MaxRequests : i # issued + 1 => (i <= issued' <=> i <= issued)
<1>1. issued \in Nat /\ issued + 1 \in 1..MaxRequests /\ ~(issued + 1 <= issued) /\ issued' = issued + 1
  BY BoundAssumption DEF Accept, Callable, TypeOK
<1>2. Placed(issued + 1)
  BY <1>1 DEF PlaceInv
<1>3. \A i \in 1..MaxRequests : i # issued + 1 => (i <= issued' <=> i <= issued)
  BY <1>1, BoundAssumption
<1>4. QED
  BY <1>1, <1>2, <1>3, NotYet

\* A request is on its way.
LEMMA DispatchPlace ==
    ASSUME TypeOK, PlaceInv, NEW c \in Correlations, NEW start, Accept(c, start),
           NEW d, d.request.id = issued + 1, delivering' = delivering \cup {d},
           UNCHANGED <<backlog, queue, batch, done>>
    PROVE  PlaceInv'
<1>1. PICK n : n = issued + 1
  OBVIOUS
<1>2. /\ n \in 1..MaxRequests /\ n <= issued' /\ Placed(n)
      /\ ~InBacklog(n) /\ ~InQueue(n) /\ ~Arriving(n) /\ ~InBatch(n) /\ n \notin done
      /\ \A i \in 1..MaxRequests : i # n => (i <= issued' <=> i <= issued)
  BY <1>1, NextRequest
<1>3. ASSUME NEW i \in 1..MaxRequests, i # n PROVE Placed(i)'
  <2>1. Placed(i)
    BY DEF PlaceInv
  <2>2. SameArriving(i)
    BY <1>1, <1>3, <2>1 DEF SameArriving, Arriving, OnceArriving, Placed
  <2>3. QED
    BY <1>2, <1>3, <2>1, <2>2, PlaceFrame, PlaceKept
<1>4. Placed(n)'
  <2>1. Arriving(n)' /\ OnceArriving(n)'
    BY <1>1, <1>2 DEF Arriving, OnceArriving
  <2>2. SameBacklog(n) /\ SameQueue(n) /\ SameBatch(n)
    BY <1>2, PlaceFrame
  <2>3. QED
    BY <1>2, <2>1, <2>2 DEF Placed, OnePlace, Somewhere, SameBacklog, SameQueue, SameBatch
<1>5. QED
  BY <1>3, <1>4 DEF PlaceInv

\* A request joins its backlog queue, or starts one.
LEMMA BacklogPlace ==
    ASSUME TypeOK, PlaceInv, NEW c \in Correlations, NEW start, Accept(c, start),
           NEW j \in DOMAIN backlog', NEW k \in DOMAIN backlog'[j],
           backlog'[j][k].id = issued + 1,
           \A l \in DOMAIN backlog : l \in DOMAIN backlog' /\ \A m \in DOMAIN backlog[l] :
              m \in DOMAIN backlog'[l] /\ backlog'[l][m] = backlog[l][m],
           \A l \in DOMAIN backlog' : \A m \in DOMAIN backlog'[l] :
              (l = j /\ m = k) \/ (l \in DOMAIN backlog /\ m \in DOMAIN backlog[l]),
           UNCHANGED <<delivering, queue, batch, done>>
    PROVE  PlaceInv'
<1>1. PICK n : n = issued + 1
  OBVIOUS
<1>2. /\ n \in 1..MaxRequests /\ n <= issued' /\ Placed(n)
      /\ ~InBacklog(n) /\ ~InQueue(n) /\ ~Arriving(n) /\ ~InBatch(n) /\ n \notin done
      /\ \A i \in 1..MaxRequests : i # n => (i <= issued' <=> i <= issued)
  BY <1>1, NextRequest
<1>3. ASSUME NEW i \in 1..MaxRequests, i # n PROVE Placed(i)'
  <2>1. Placed(i)
    BY DEF PlaceInv
  <2>2. InBacklog(i)' <=> InBacklog(i)
    BY <1>1, <1>3 DEF InBacklog
  <2>3. OnceInBacklog(i)'
    <3>1. ASSUME NEW a \in DOMAIN backlog', NEW x \in DOMAIN backlog'[a],
                 NEW e \in DOMAIN backlog', NEW y \in DOMAIN backlog'[e],
                 backlog'[a][x].id = i, backlog'[e][y].id = i
          PROVE  a = e /\ x = y
      <4>1. a \in DOMAIN backlog /\ x \in DOMAIN backlog[a] /\ e \in DOMAIN backlog /\ y \in DOMAIN backlog[e]
        BY <1>1, <1>3, <3>1
      <4>2. backlog[a][x].id = i /\ backlog[e][y].id = i
        BY <3>1, <4>1
      <4>3. QED
        BY <2>1, <4>1, <4>2 DEF Placed, OnceInBacklog
    <3>2. QED
      BY <3>1 DEF OnceInBacklog
  <2>4. SameBacklog(i)
    BY <2>2, <2>3 DEF SameBacklog
  <2>5. QED
    BY <1>2, <1>3, <2>1, <2>4, PlaceFrame, PlaceKept
<1>4. Placed(n)'
  <2>1. \A l \in DOMAIN backlog' : \A m \in DOMAIN backlog'[l] : backlog'[l][m].id = n => l = j /\ m = k
    BY <1>2 DEF InBacklog
  <2>2. InBacklog(n)' /\ OnceInBacklog(n)'
    BY <1>1, <2>1 DEF InBacklog, OnceInBacklog
  <2>3. SameArriving(n) /\ SameQueue(n) /\ SameBatch(n)
    BY <1>2, PlaceFrame
  <2>4. QED
    BY <1>2, <2>2, <2>3 DEF Placed, OnePlace, Somewhere, SameArriving, SameQueue, SameBatch
<1>5. QED
  BY <1>3, <1>4 DEF PlaceInv

\* Enqueue puts the request in one place.
LEMMA EnqueuePlace ==
    ASSUME BaseInv, PlaceInv,
           NEW c \in Correlations, NEW start \in BOOLEAN, NEW end \in BOOLEAN, Enqueue(c, start, end)
    PROVE  PlaceInv'
<1>1. TypeOK /\ QueuesInv /\ MapInv
  BY MapPart DEF BaseInv
<1>2. CASE EnqueueToSlot(c, start, end)
  <2>1. PICK d : d = [request |-> NewRequest(c, start, end), slot |-> slotOf[c]]
    OBVIOUS
  <2>2. /\ Accept(c, start) /\ d.request.id = issued + 1 /\ delivering' = delivering \cup {d}
        /\ UNCHANGED <<backlog, queue, batch, done>>
    BY <1>2, <2>1 DEF EnqueueToSlot, Dispatch, NewRequest, slots, locals
  <2>3. QED
    BY <1>1, <2>2, DispatchPlace
<1>3. CASE EnqueueToNewSlot(c, end)
  <2>1. PICK s \in Top : Dispatch(NewRequest(c, TRUE, end), s)
    BY <1>3 DEF EnqueueToNewSlot
  <2>2. PICK d : d = [request |-> NewRequest(c, TRUE, end), slot |-> s]
    OBVIOUS
  <2>3. /\ Accept(c, TRUE) /\ d.request.id = issued + 1 /\ delivering' = delivering \cup {d}
        /\ UNCHANGED <<backlog, queue, batch, done>>
    BY <1>3, <2>1, <2>2 DEF EnqueueToNewSlot, Dispatch, NewRequest, slots, locals
  <2>4. QED
    BY <1>1, <2>3, DispatchPlace
<1>4. CASE EnqueueToBacklog(c, start, end)
  <2>1. PICK r : r = NewRequest(c, start, end)
    OBVIOUS
  <2>2. PICK j \in DOMAIN backlog : backlog[j][1].id = backlogOf[c]
    BY <1>1, <1>4 DEF EnqueueToBacklog, MapInv
  <2>3. /\ DOMAIN backlog' = DOMAIN backlog
        /\ backlog'[j] = Append(backlog[j], r)
        /\ \A i \in DOMAIN backlog : i # j => backlog'[i] = backlog[i]
    BY <1>1, <1>4, <2>1, <2>2 DEF EnqueueToBacklog, QueuesInv
  <2>4. backlog[j] \in Seq(Requests) /\ r \in Requests
    BY <1>1, <1>4, <2>1, QueueFacts, AcceptType DEF EnqueueToBacklog
  <2>5. PICK k : k = Len(backlog[j]) + 1
    OBVIOUS
  <2>6. /\ DOMAIN backlog'[j] = DOMAIN backlog[j] \cup {k} /\ backlog'[j][k] = r
        /\ \A m \in DOMAIN backlog[j] : backlog'[j][m] = backlog[j][m]
    BY <2>3, <2>4, <2>5, AppendFacts
  <2>7. /\ Accept(c, start) /\ r.id = issued + 1
        /\ UNCHANGED <<delivering, queue, batch, done>>
    BY <1>4, <2>1 DEF EnqueueToBacklog, NewRequest, slots, locals
  <2>8. j \in DOMAIN backlog' /\ k \in DOMAIN backlog'[j] /\ backlog'[j][k].id = issued + 1
    BY <2>3, <2>6, <2>7
  <2>9. \A l \in DOMAIN backlog : l \in DOMAIN backlog' /\ \A m \in DOMAIN backlog[l] :
           m \in DOMAIN backlog'[l] /\ backlog'[l][m] = backlog[l][m]
    BY <2>3, <2>6
  <2>10. \A l \in DOMAIN backlog' : \A m \in DOMAIN backlog'[l] :
            (l = j /\ m = k) \/ (l \in DOMAIN backlog /\ m \in DOMAIN backlog[l])
    BY <2>3, <2>6
  <2>11. QED
    BY <1>1, <2>7, <2>8, <2>9, <2>10, BacklogPlace
<1>5. CASE EnqueueToNewBacklog(c, end)
  <2>1. PICK r : r = NewRequest(c, TRUE, end)
    OBVIOUS
  <2>2. r \in Requests
    BY <1>1, <1>5, <2>1, AcceptType DEF EnqueueToNewBacklog
  <2>3. <<r>> \in Seq(Requests) \ {<<>>} /\ DOMAIN <<r>> = {1} /\ <<r>>[1] = r
    BY <2>2
  <2>4. PICK j : j = Len(backlog) + 1
    OBVIOUS
  <2>5. backlog \in Seq(Seq(Requests) \ {<<>>}) /\ backlog' = Append(backlog, <<r>>)
    BY <1>1, <1>5, <2>1 DEF EnqueueToNewBacklog, TypeOK
  <2>6. /\ DOMAIN backlog' = DOMAIN backlog \cup {j} /\ backlog'[j] = <<r>>
        /\ \A i \in DOMAIN backlog : backlog'[i] = backlog[i]
    BY <2>3, <2>4, <2>5, AppendFacts
  <2>7. /\ Accept(c, TRUE) /\ r.id = issued + 1
        /\ UNCHANGED <<delivering, queue, batch, done>>
    BY <1>5, <2>1 DEF EnqueueToNewBacklog, NewRequest, slots, locals
  <2>8. PICK k \in DOMAIN backlog'[j] : j \in DOMAIN backlog' /\ k = 1 /\ backlog'[j][k].id = issued + 1
    BY <2>3, <2>6, <2>7
  <2>9. \A l \in DOMAIN backlog : l \in DOMAIN backlog' /\ \A m \in DOMAIN backlog[l] :
           m \in DOMAIN backlog'[l] /\ backlog'[l][m] = backlog[l][m]
    BY <2>6
  <2>10. \A l \in DOMAIN backlog' : \A m \in DOMAIN backlog'[l] :
            (l = j /\ m = k) \/ (l \in DOMAIN backlog /\ m \in DOMAIN backlog[l])
    BY <2>3, <2>6, <2>8
  <2>11. TypeOK /\ PlaceInv /\ UNCHANGED <<delivering, queue, batch, done>>
    BY <1>1, <2>7
  <2>12. j \in DOMAIN backlog' /\ k \in DOMAIN backlog'[j] /\ backlog'[j][k].id = issued + 1
    BY <2>8
  <2>13. QED
    BY <2>7, <2>9, <2>10, <2>11, <2>12, BacklogPlace
<1>6. QED
  BY <1>2, <1>3, <1>4, <1>5 DEF Enqueue

\* A request refused is completed at once.
LEMMA RefusePlace == ASSUME TypeOK, PlaceInv, Refuse PROVE PlaceInv'
<1>1. PICK n : n = issued + 1
  OBVIOUS
<1>2. /\ issued \in Nat /\ n \in 1..MaxRequests /\ ~(n <= issued) /\ issued' = n
      /\ done' = done \cup {n} /\ UNCHANGED <<backlog, queue, delivering, batch>>
  BY <1>1, BoundAssumption DEF Refuse, Callable, TypeOK, slots, locals
<1>3. ASSUME NEW i \in 1..MaxRequests, i # n PROVE Placed(i)'
  <2>1. Placed(i) /\ (i <= issued' <=> i <= issued)
    BY <1>1, <1>2, <1>3, BoundAssumption DEF PlaceInv
  <2>2. SameBatch(i)
    BY <1>2, <1>3, <2>1 DEF SameBatch, InBatch, OnceInBatch, Placed
  <2>3. QED
    BY <1>2, <2>1, <2>2, PlaceFrame, PlaceKept
<1>4. Placed(n)'
  <2>1. /\ Placed(n) /\ n <= issued'
        /\ ~InBacklog(n) /\ ~InQueue(n) /\ ~Arriving(n) /\ ~InBatch(n)
    BY <1>2, NotYet, BoundAssumption DEF PlaceInv
  <2>2. SameBacklog(n) /\ SameQueue(n) /\ SameArriving(n)
    BY <1>2, <2>1, PlaceFrame
  <2>3. n \in done' /\ (InBatch(n)' <=> InBatch(n)) /\ OnceInBatch(n)'
    BY <1>2, <2>1 DEF InBatch, OnceInBatch, Placed
  <2>4. QED
    BY <2>1, <2>2, <2>3 DEF Placed, OnePlace, Somewhere, SameBacklog, SameQueue, SameArriving
<1>5. QED
  BY <1>3, <1>4 DEF PlaceInv

\* A payload put in a slot is in its queue; the others are where they were.
LEMMA PutPlace ==
    ASSUME TypeOK, NEW s \in Slots, NEW p \in Payloads, Put(s, p), NEW i \in 1..MaxRequests, OnceInQueue(i)
    PROVE  /\ i # p.id => SameQueue(i)
           /\ i = p.id /\ ~InQueue(i) => InQueue(i)' /\ OnceInQueue(i)'
<1>1. PICK n : n = Len(queue[s]) + 1
  OBVIOUS
<1>2. /\ \A q \in Slots : q # s => queue'[q] = queue[q]
      /\ DOMAIN queue'[s] = DOMAIN queue[s] \cup {n}
      /\ queue'[s][n] = p
      /\ \A k \in DOMAIN queue[s] : queue'[s][k] = queue[s][k]
  BY <1>1, PutQueue
<1>3. ASSUME i # p.id PROVE SameQueue(i)
  <2>1. \A q \in Slots : \A k : k \in DOMAIN queue'[q] /\ queue'[q][k].id = i <=> k \in DOMAIN queue[q] /\ queue[q][k].id = i
    BY <1>2, <1>3
  <2>2. InQueue(i)' <=> InQueue(i)
    BY <2>1 DEF InQueue
  <2>3. OnceInQueue(i)'
    BY <2>1 DEF OnceInQueue
  <2>4. QED
    BY <2>2, <2>3 DEF SameQueue
<1>4. ASSUME i = p.id, ~InQueue(i) PROVE InQueue(i)' /\ OnceInQueue(i)'
  <2>1. \A q \in Slots : \A k : k \in DOMAIN queue'[q] /\ queue'[q][k].id = i <=> q = s /\ k = n
    BY <1>2, <1>4 DEF InQueue
  <2>2. QED
    BY <2>1 DEF InQueue, OnceInQueue
<1>5. QED
  BY <1>3, <1>4

\* A request on its way is put in its slot.
LEMMA DeliverPlace ==
    ASSUME TypeOK, PlaceInv, NEW d \in delivering, Deliver(d)
    PROVE  PlaceInv'
<1>1. PICK s, p : s = d.slot /\ p = d.request
  OBVIOUS
<1>2. /\ s \in Slots /\ p \in Payloads /\ p.id \in 1..MaxRequests
      /\ Put(s, p) /\ delivering' = delivering \ {d}
      /\ UNCHANGED <<backlog, batch, done, issued>>
  BY <1>1 DEF Deliver, TypeOK, Payloads, Requests, locals
<1>3. ASSUME NEW i \in 1..MaxRequests, i # p.id PROVE Placed(i)'
  <2>1. Placed(i)
    BY DEF PlaceInv
  <2>2. SameArriving(i)
    BY <1>1, <1>2, <1>3, <2>1 DEF SameArriving, Arriving, OnceArriving, Placed
  <2>3. SameQueue(i)
    BY <1>2, <1>3, <2>1, PutPlace DEF Placed
  <2>4. QED
    BY <1>2, <2>1, <2>2, <2>3, PlaceFrame, PlaceKept
<1>4. ASSUME NEW i \in 1..MaxRequests, i = p.id PROVE Placed(i)'
  <2>1. Placed(i) /\ Arriving(i)
    BY <1>1, <1>4 DEF PlaceInv, Arriving
  <2>2. ~InBacklog(i) /\ ~InQueue(i) /\ ~InBatch(i) /\ i \notin done /\ i <= issued
    BY <2>1 DEF Placed, OnePlace, Somewhere
  <2>3. ~Arriving(i)' /\ OnceArriving(i)'
    BY <1>1, <1>2, <1>4, <2>1 DEF Arriving, OnceArriving, Placed
  <2>4. InQueue(i)' /\ OnceInQueue(i)'
    BY <1>2, <1>4, <2>1, <2>2, PutPlace DEF Placed
  <2>5. SameBacklog(i) /\ SameBatch(i)
    BY <1>2, <2>1, PlaceFrame
  <2>6. QED
    BY <1>2, <2>2, <2>3, <2>4, <2>5 DEF Placed, OnePlace, Somewhere, SameBacklog, SameBatch
<1>5. QED
  BY <1>3, <1>4 DEF PlaceInv

\* The reaper's END is not a request.
LEMMA ForceEndPlace == ASSUME TypeOK, PlaceInv, EnqueueForceEnd PROVE PlaceInv'
<1>1. PICK s : s = reaper.slot
  OBVIOUS
<1>2. /\ s \in Slots /\ ForceEnd \in Payloads /\ Put(s, ForceEnd)
      /\ UNCHANGED <<backlog, delivering, batch, done, issued>>
  BY <1>1 DEF EnqueueForceEnd, TypeOK, Payloads, locals
<1>3. ASSUME NEW i \in 1..MaxRequests PROVE Placed(i)'
  <2>1. Placed(i) /\ i # ForceEnd.id
    BY DEF PlaceInv, ForceEnd
  <2>2. SameQueue(i)
    BY <1>2, <2>1, PutPlace DEF Placed
  <2>3. QED
    BY <1>2, <2>1, <2>2, PlaceFrame, PlaceKept
<1>4. QED
  BY <1>3 DEF PlaceInv

\* The requests that stay in a queue, one place further on, are in it as before.
LEMMA CollectRest ==
    ASSUME TypeOK, NEW b \in Batchers, CollectSlot(b), NEW s \in Slots, s = Slot(b),
           NEW p, p = queue[s][1], NEW i, OnceInQueue(i)
    PROVE  /\ i # p.id => SameQueue(i)
           /\ i = p.id => InQueue(i) /\ ~InQueue(i)' /\ OnceInQueue(i)'
<1>1. /\ \A q \in Slots : q # s => queue'[q] = queue[q]
      /\ 1 \in DOMAIN queue[s] /\ DOMAIN queue[s] \subseteq Nat
      /\ \A k \in DOMAIN queue'[s] : k \in Nat /\ k + 1 \in DOMAIN queue[s] /\ queue'[s][k] = queue[s][k + 1]
      /\ \A k \in DOMAIN queue[s] : k # 1 => k - 1 \in DOMAIN queue'[s] /\ queue'[s][k - 1] = queue[s][k]
  <2>1. /\ \A q \in Slots : q # s => queue'[q] = queue[q]
        /\ 1 \in DOMAIN queue[s] /\ DOMAIN queue[s] = 1..Len(queue[s])
        /\ \A k \in DOMAIN queue'[s] : k \in Nat /\ k + 1 \in DOMAIN queue[s] /\ queue'[s][k] = queue[s][k + 1]
        /\ \A k \in DOMAIN queue[s] : k # 1 => k - 1 \in DOMAIN queue'[s] /\ queue'[s][k - 1] = queue[s][k]
    BY CollectQueue
  <2>2. \A n : 1..n \subseteq Nat
    OBVIOUS
  <2>3. QED
    BY <2>1, <2>2
<1>2. OnceInQueue(i)'
  <2>1. ASSUME NEW q \in Slots, NEW t \in Slots, NEW k \in DOMAIN queue'[q], NEW m \in DOMAIN queue'[t],
               queue'[q][k].id = i, queue'[t][m].id = i
        PROVE  q = t /\ k = m
    <3>1. PICK x \in DOMAIN queue[q] : queue[q][x].id = i /\ (q = s => k \in Nat /\ x = k + 1) /\ (q # s => x = k)
      BY <1>1, <2>1
    <3>2. PICK y \in DOMAIN queue[t] : queue[t][y].id = i /\ (t = s => m \in Nat /\ y = m + 1) /\ (t # s => y = m)
      BY <1>1, <2>1
    <3>3. q = t /\ x = y
      BY <3>1, <3>2 DEF OnceInQueue
    <3>4. QED
      BY <3>1, <3>2, <3>3
  <2>2. QED
    BY <2>1 DEF OnceInQueue
<1>3. ASSUME i # p.id PROVE InQueue(i)' <=> InQueue(i)
  <2>1. ASSUME NEW q \in Slots, NEW k \in DOMAIN queue[q], queue[q][k].id = i PROVE InQueue(i)'
    <3>1. CASE q = s
      <4>1. k - 1 \in DOMAIN queue'[s] /\ queue'[s][k - 1].id = i
        BY <1>1, <1>3, <2>1, <3>1
      <4>2. QED
        BY <4>1 DEF InQueue
    <3>2. CASE q # s
      BY <1>1, <2>1, <3>2 DEF InQueue
    <3>3. QED
      BY <3>1, <3>2
  <2>2. ASSUME NEW q \in Slots, NEW k \in DOMAIN queue'[q], queue'[q][k].id = i PROVE InQueue(i)
    <3>1. CASE q = s
      <4>1. k + 1 \in DOMAIN queue[s] /\ queue[s][k + 1].id = i
        BY <1>1, <2>2, <3>1
      <4>2. QED
        BY <4>1 DEF InQueue
    <3>2. CASE q # s
      BY <1>1, <2>2, <3>2 DEF InQueue
    <3>3. QED
      BY <3>1, <3>2
  <2>3. QED
    BY <2>1, <2>2 DEF InQueue
<1>4. ASSUME i = p.id PROVE InQueue(i) /\ ~InQueue(i)'
  <2>1. queue[s][1].id = i
    BY <1>4
  <2>2. ASSUME NEW q \in Slots, NEW k \in DOMAIN queue'[q], queue'[q][k].id = i PROVE FALSE
    <3>1. PICK x \in DOMAIN queue[q] : queue[q][x].id = i /\ (q = s => k \in Nat /\ x = k + 1)
      BY <1>1, <2>2
    <3>2. q = s /\ x = 1
      BY <1>1, <2>1, <3>1 DEF OnceInQueue
    <3>3. k = 0
      BY <3>1, <3>2
    <3>4. 0 \notin DOMAIN queue'[s]
      BY CollectQueue
    <3>5. QED
      BY <2>2, <3>2, <3>3, <3>4
  <2>3. QED
    BY <1>1, <2>1, <2>2 DEF InQueue
<1>5. QED
  BY <1>2, <1>3, <1>4 DEF SameQueue

\* The request collected is in the batch of the thread.
LEMMA CollectPlace == ASSUME TypeOK, PlaceInv, NEW b \in Batchers, CollectSlot(b) PROVE PlaceInv'
<1>1. PICK s \in Slots : s = Slot(b)
  BY CollectQueue
<1>2. PICK p \in Payloads : p = queue[s][1] /\ p = Head(queue[Slot(b)])
  BY <1>1, CollectQueue
<1>3. /\ batch \in [Batchers -> SUBSET (1..MaxRequests)]
      /\ batch' = IF p = ForceEnd THEN batch ELSE [batch EXCEPT ![b] = @ \cup {p.id}]
      /\ UNCHANGED <<backlog, delivering, done, issued>>
  BY <1>2 DEF CollectSlot, quietThread, TypeOK
<1>4. p = ForceEnd \/ p \in Requests
  BY PayloadFacts
<1>5. ASSUME NEW i \in 1..MaxRequests, i # p.id PROVE Placed(i)'
  <2>1. Placed(i)
    BY DEF PlaceInv
  <2>2. SameQueue(i)
    BY <1>1, <1>2, <1>5, <2>1, CollectRest DEF Placed
  <2>3. \A e \in Batchers : i \in batch'[e] <=> i \in batch[e]
    BY <1>3, <1>5
  <2>4. SameBatch(i)
    BY <1>3, <2>1, <2>3 DEF SameBatch, InBatch, OnceInBatch, Placed
  <2>5. QED
    BY <1>3, <2>1, <2>2, <2>4, PlaceFrame, PlaceKept
<1>6. ASSUME NEW i \in 1..MaxRequests, i = p.id PROVE Placed(i)'
  <2>1. Placed(i)
    BY DEF PlaceInv
  <2>2. InQueue(i) /\ ~InQueue(i)' /\ OnceInQueue(i)'
    BY <1>1, <1>2, <1>6, <2>1, CollectRest DEF Placed
  <2>3. ~InBacklog(i) /\ ~Arriving(i) /\ ~InBatch(i) /\ i \notin done /\ i <= issued
    BY <2>1, <2>2 DEF Placed, OnePlace, Somewhere
  <2>4. p # ForceEnd
    BY <1>6 DEF ForceEnd
  <2>5. \A e \in Batchers : i \in batch'[e] <=> e = b
    BY <1>3, <1>6, <2>3, <2>4 DEF InBatch
  <2>6. InBatch(i)' /\ OnceInBatch(i)'
    BY <2>5 DEF InBatch, OnceInBatch
  <2>7. SameBacklog(i) /\ SameArriving(i)
    BY <1>3, <2>1, PlaceFrame
  <2>8. QED
    BY <1>3, <2>2, <2>3, <2>6, <2>7 DEF Placed, OnePlace, Somewhere, SameBacklog, SameArriving
<1>7. QED
  BY <1>5, <1>6 DEF PlaceInv

\* The requests of a batch are completed.
LEMMA RunPlace == ASSUME TypeOK, PlaceInv, NEW b \in Batchers, Run(b) PROVE PlaceInv'
<1>1. /\ batch \in [Batchers -> SUBSET (1..MaxRequests)]
      /\ batch' = [batch EXCEPT ![b] = {}] /\ done' = done \cup batch[b]
      /\ UNCHANGED <<backlog, queue, delivering, issued>>
  BY DEF Run, quietThread, slots, TypeOK
<1>2. ASSUME NEW i \in 1..MaxRequests PROVE Placed(i)'
  <2>1. Placed(i)
    BY DEF PlaceInv
  <2>2. SameBacklog(i) /\ SameQueue(i) /\ SameArriving(i)
    BY <1>1, <2>1, PlaceFrame
  <2>3. CASE i \in batch[b]
    <3>1. InBatch(i) /\ \A e \in Batchers : i \in batch[e] => e = b
      BY <2>1, <2>3 DEF InBatch, Placed, OnceInBatch
    <3>2. ~InBacklog(i) /\ ~InQueue(i) /\ ~Arriving(i) /\ i <= issued
      BY <2>1, <3>1 DEF Placed, OnePlace, Somewhere
    <3>3. ~InBatch(i)' /\ OnceInBatch(i)' /\ i \in done'
      BY <1>1, <2>3, <3>1 DEF InBatch, OnceInBatch
    <3>4. QED
      BY <1>1, <2>2, <3>2, <3>3 DEF Placed, OnePlace, Somewhere, SameBacklog, SameQueue, SameArriving
  <2>4. CASE i \notin batch[b]
    <3>1. \A e \in Batchers : i \in batch'[e] <=> i \in batch[e]
      BY <1>1, <2>4
    <3>2. SameBatch(i)
      BY <1>1, <2>1, <2>4, <3>1 DEF SameBatch, InBatch, OnceInBatch, Placed
    <3>3. QED
      BY <1>1, <2>1, <2>2, <3>2, PlaceKept
  <2>5. QED
    BY <2>3, <2>4
<1>3. QED
  BY <1>2 DEF PlaceInv

\* The requests of the backlog's first sequence move to the slot released, where
\* there was nothing left to lose.
LEMMA RefillPlace == ASSUME BaseInv, EmptyInv, PlaceInv, NEW b \in Batchers, RefillSlot(b) PROVE PlaceInv'
<1>1. PICK s \in Slots : s = Slot(b)
  BY DEF BaseInv, ReleaseInv, RefillSlot, Releasing
<1>2. queue[s] = <<>>
  BY <1>1, ReleaseEnds DEF EmptyInv
<1>3. PICK h : h = backlog[1]
  OBVIOUS
<1>4. 1 \in DOMAIN backlog /\ Head(backlog) = h /\ h \in Seq(Requests)
  BY <1>3, HeadFacts DEF RefillSlot
<1>5. /\ \A q \in Slots : q # s => queue'[q] = queue[q]
      /\ queue'[s] = h
      /\ UNCHANGED <<delivering, batch, done, issued>>
  BY <1>1, <1>4 DEF RefillSlot, BaseInv, TypeOK
<1>6. /\ \A j \in DOMAIN backlog' : j \in Nat /\ j + 1 \in DOMAIN backlog /\ backlog'[j] = backlog[j + 1] /\ j + 1 # 1
      /\ \A j \in DOMAIN backlog : j # 1 => j - 1 \in DOMAIN backlog' /\ backlog'[j - 1] = backlog[j]
  <2>1. backlog \in Seq(Seq(Requests) \ {<<>>}) /\ backlog # <<>> /\ backlog' = Tail(backlog)
    BY DEF RefillSlot, BaseInv, TypeOK
  <2>2. QED
    BY <2>1, TailFacts
<1>7. ASSUME NEW i \in 1..MaxRequests, NEW n \in DOMAIN h, h[n].id = i PROVE Placed(i)'
  <2>1. Placed(i) /\ InBacklog(i)
    BY <1>3, <1>4, <1>7 DEF PlaceInv, InBacklog
  <2>2. ~InQueue(i) /\ ~Arriving(i) /\ ~InBatch(i) /\ i \notin done /\ i <= issued
    BY <2>1 DEF Placed, OnePlace, Somewhere
  <2>3. \A j \in DOMAIN backlog : \A k \in DOMAIN backlog[j] : backlog[j][k].id = i => j = 1 /\ k = n
    BY <1>3, <1>4, <1>7, <2>1 DEF Placed, OnceInBacklog
  <2>4. \A j \in DOMAIN backlog' : \A k \in DOMAIN backlog'[j] : backlog'[j][k].id # i
    <3>1. ASSUME NEW j \in DOMAIN backlog', NEW k \in DOMAIN backlog'[j], backlog'[j][k].id = i PROVE FALSE
      <4>1. PICK l \in DOMAIN backlog : l # 1 /\ backlog'[j] = backlog[l]
        BY <1>6
      <4>2. QED
        BY <2>3, <3>1, <4>1
    <3>2. QED
      BY <3>1
  <2>5. ~InBacklog(i)' /\ OnceInBacklog(i)'
    BY <2>4 DEF InBacklog, OnceInBacklog
  <2>6. \A q \in Slots : \A k \in DOMAIN queue'[q] : queue'[q][k].id = i <=> q = s /\ k = n
    <3>1. \A k \in DOMAIN h : h[k].id = i <=> k = n
      BY <1>3, <1>4, <1>7, <2>3
    <3>2. \A q \in Slots : \A k \in DOMAIN queue[q] : queue[q][k].id # i
      BY <2>2 DEF InQueue
    <3>3. QED
      BY <1>5, <3>1, <3>2
  <2>7. n \in DOMAIN queue'[s]
    BY <1>5
  <2>8. InQueue(i)' /\ OnceInQueue(i)'
    BY <2>6, <2>7 DEF InQueue, OnceInQueue
  <2>9. SameArriving(i) /\ SameBatch(i)
    BY <1>5, <2>1, PlaceFrame
  <2>10. QED
    BY <1>5, <2>2, <2>5, <2>8, <2>9 DEF Placed, OnePlace, Somewhere, SameArriving, SameBatch
<1>8. ASSUME NEW i \in 1..MaxRequests, \A n \in DOMAIN h : h[n].id # i PROVE Placed(i)'
  <2>1. Placed(i)
    BY DEF PlaceInv
  <2>2. \A q \in Slots : \A k : k \in DOMAIN queue'[q] /\ queue'[q][k].id = i <=> k \in DOMAIN queue[q] /\ queue[q][k].id = i
    <3>1. DOMAIN queue[s] = {}
      BY <1>2
    <3>2. QED
      BY <1>5, <1>8, <3>1
  <2>3. InQueue(i)' <=> InQueue(i)
    BY <2>2 DEF InQueue
  <2>4. OnceInQueue(i)'
    BY <2>1, <2>2 DEF OnceInQueue, Placed
  <2>5. OnceInBacklog(i)'
    <3>1. ASSUME NEW j \in DOMAIN backlog', NEW k \in DOMAIN backlog'[j],
                 NEW l \in DOMAIN backlog', NEW m \in DOMAIN backlog'[l],
                 backlog'[j][k].id = i, backlog'[l][m].id = i
          PROVE  j = l /\ k = m
      <4>1. PICK x \in DOMAIN backlog : j \in Nat /\ x = j + 1 /\ backlog'[j] = backlog[x]
        BY <1>6
      <4>2. PICK y \in DOMAIN backlog : l \in Nat /\ y = l + 1 /\ backlog'[l] = backlog[y]
        BY <1>6
      <4>3. k \in DOMAIN backlog[x] /\ m \in DOMAIN backlog[y] /\ backlog[x][k].id = i /\ backlog[y][m].id = i
        BY <3>1, <4>1, <4>2
      <4>4. x = y /\ k = m
        BY <2>1, <4>3 DEF OnceInBacklog, Placed
      <4>5. QED
        BY <4>1, <4>2, <4>4
    <3>2. QED
      BY <3>1 DEF OnceInBacklog
  <2>6. InBacklog(i)' => InBacklog(i)
    <3>1. ASSUME NEW j \in DOMAIN backlog', NEW k \in DOMAIN backlog'[j], backlog'[j][k].id = i PROVE InBacklog(i)
      <4>1. PICK x \in DOMAIN backlog : backlog'[j] = backlog[x]
        BY <1>6
      <4>2. QED
        BY <3>1, <4>1 DEF InBacklog
    <3>2. QED
      BY <3>1 DEF InBacklog
  <2>7. InBacklog(i) => InBacklog(i)'
    <3>1. ASSUME NEW j \in DOMAIN backlog, NEW k \in DOMAIN backlog[j], backlog[j][k].id = i PROVE InBacklog(i)'
      <4>1. j # 1
        BY <1>3, <1>8, <3>1
      <4>2. PICK x \in DOMAIN backlog' : backlog'[x] = backlog[j]
        BY <1>6, <4>1
      <4>3. QED
        BY <3>1, <4>2 DEF InBacklog
    <3>2. QED
      BY <3>1 DEF InBacklog
  <2>8. SameBacklog(i) /\ SameQueue(i)
    BY <2>3, <2>4, <2>5, <2>6, <2>7 DEF SameBacklog, SameQueue
  <2>9. QED
    BY <1>5, <2>1, <2>8, PlaceFrame, PlaceKept
<1>9. QED
  BY <1>7, <1>8 DEF PlaceInv

\* Nothing moves.
LEMMA PlacesSame ==
    ASSUME PlaceInv, UNCHANGED <<backlog, queue, delivering, batch, done, issued>>
    PROVE  PlaceInv'
<1>1. ASSUME NEW i \in 1..MaxRequests PROVE Placed(i)'
  <2>1. Placed(i)
    BY DEF PlaceInv
  <2>2. QED
    BY <2>1, PlaceFrame, PlaceKept
<1>2. QED
  BY <1>1 DEF PlaceInv

\* No step loses a request or puts it in a second place.
LEMMA PlaceStep == ASSUME BaseInv, OrderInv, Next PROVE PlaceInv'
<1>1. TypeOK /\ EmptyInv /\ PlaceInv
  BY DEF BaseInv, OrderInv
<1>2. ASSUME UNCHANGED <<backlog, queue, delivering, batch, done, issued>> PROVE PlaceInv'
  BY <1>1, <1>2, PlacesSame
<1>3. ASSUME NEW c \in Correlations, NEW start \in BOOLEAN, NEW end \in BOOLEAN, Enqueue(c, start, end)
      PROVE  PlaceInv'
  BY <1>1, <1>3, EnqueuePlace
<1>4. CASE Refuse
  BY <1>1, <1>4, RefusePlace
<1>5. CASE Destroy \/ DestroyMembers \/ Gone
  BY <1>2, <1>5 DEF Destroy, DestroyMembers, Gone, vars, maps, slots, locals
<1>6. ASSUME NEW d \in delivering, Deliver(d) PROVE PlaceInv'
  BY <1>1, <1>6, DeliverPlace
<1>7. ASSUME NEW c \in Correlations, GoIdle(c) PROVE PlaceInv'
  BY <1>2, <1>7 DEF GoIdle, maps, slots, locals
<1>8. CASE Reap /\ ~EnqueueForceEnd
  BY <1>2, <1>8 DEF Reap, TestReaperExit, StartScan, EndScan, WakeReaper, Evict, Spare, DropStamp, quietReaper,
     slots, locals
<1>9. CASE EnqueueForceEnd
  BY <1>1, <1>9, ForceEndPlace
<1>10. ASSUME NEW b \in Batchers, CollectSlot(b) \/ RefillSlot(b) PROVE PlaceInv'
  BY <1>1, <1>10, CollectPlace, RefillPlace
<1>11. ASSUME NEW b \in Batchers, FreeSlot(b) PROVE PlaceInv'
  BY <1>2, <1>11 DEF FreeSlot
<1>12. ASSUME NEW b \in Batchers, Moves(b) PROVE PlaceInv'
  <2>1. CASE Run(b)
    BY <1>1, <2>1, RunPlace
  <2>2. CASE ~Run(b)
    <3>1. UNCHANGED <<batch, done>>
      BY <1>12, <2>2 DEF Moves, StartBatcher, TestExit, WaitForWork, WakeUp, Resume, StartCollect, SkipSlot,
         ReleaseTooLate, EndCollect, DestroyBatcher, locals
    <3>2. QED
      BY <1>1, <1>2, <1>12, <3>1, MoveFrame
  <2>3. QED
    BY <2>1, <2>2
<1>13. QED
  BY <1>3, <1>4, <1>5, <1>6, <1>7, <1>8, <1>9, <1>10, <1>11, <1>12, NextParts

-----------------------------------------------------------------------------
(***************************************************************************)
(* The theorems.                                                           *)
(***************************************************************************)
\* Every step keeps the types.
LEMMA TypeStep == ASSUME TypeOK, ReleaseInv, Next PROVE TypeOK'
<1>1. ASSUME NEW c \in Correlations, NEW start \in BOOLEAN, NEW end \in BOOLEAN, Enqueue(c, start, end)
      PROVE  TypeOK'
  BY <1>1, EnqueueToSlotType, EnqueueToBacklogType, EnqueueToNewSlotType, EnqueueToNewBacklogType DEF Enqueue
<1>2. ASSUME NEW b \in Batchers, Step(b) \/ WakeUp(b) PROVE TypeOK'
  BY <1>2, MoveType, StartCollectType, SkipSlotType, CollectSlotType, RefillSlotType, FreeSlotType,
     EndCollectType, RunType DEF Step
<1>3. QED
  BY <1>1, <1>2, DeliverType, ReapType, OtherType DEF Next

\* The invariant of all clients holds at first: there is no backlog, every slot is
\* ready once, and no thread has started.
LEMMA InitBase == Init => BaseInv
<1>1. SUFFICES ASSUME Init PROVE BaseInv
  OBVIOUS
<1>2. TypeOK
  BY <1>1, InitType
<1>3. ReleaseInv
  BY <1>1 DEF Init, ReleaseInv
<1>4. QueuesInv /\ BacklogConsistent /\ WholeInv
  BY <1>1 DEF Init, QueuesInv, BacklogConsistent, WholeInv
<1>5. ClaimInv
  <2>1. ASSUME NEW s \in Slots PROVE Apart(s) /\ Claimed(s)
    <3>1. s[1] \in Batchers
      BY DEF Slots
    <3>2. ready[s] = 1 /\ ~Owned(s) /\ ~EndArriving(s) /\ ~Evicting(s) /\ ~EndQueued(s) /\ ~Releases(s)
      BY <1>1, <3>1, NoneAssumption DEF Init, Owned, EndArriving, Evicting, EndQueued, Releases
    <3>3. QED
      BY <1>1, <3>2 DEF Init, Apart, Claimed, Owned, EndArriving, EndQueued
  <2>2. QED
    BY <2>1 DEF ClaimInv
<1>6. QED
  BY <1>2, <1>3, <1>4, <1>5 DEF BaseInv

\* It is inductive.
LEMMA BaseStep == BaseInv /\ [Next]_vars => BaseInv'
<1>1. SUFFICES ASSUME BaseInv, [Next]_vars PROVE BaseInv'
  OBVIOUS
<1>2. CASE Next
  <2>1. TypeOK' /\ ReleaseInv'
    BY <1>1, <1>2, TypeStep, ReleaseStep DEF BaseInv
  <2>2. QueuesInv' /\ BacklogConsistent' /\ WholeInv' /\ ClaimInv'
    BY <1>1, <1>2, BacklogStep, WholeStep, ClaimStep
  <2>3. QED
    BY <2>1, <2>2 DEF BaseInv
<1>3. CASE UNCHANGED vars
  <2>1. TypeOK /\ ReleaseInv /\ QueuesInv /\ BacklogConsistent /\ WholeInv /\ ClaimInv
    BY <1>1 DEF BaseInv
  <2>2. TypeOK'
    BY <1>3, <2>1 DEF TypeOK, vars, maps, slots, locals, ending, history
  <2>3. ReleaseInv' /\ QueuesInv' /\ BacklogConsistent' /\ WholeInv'
    BY <1>3, <2>1 DEF ReleaseInv, Slot, QueuesInv, BacklogConsistent, WholeInv, vars, maps, locals, history
  <2>4. ClaimInv'
    BY <1>3, <2>1, AllClaimsKept DEF vars, maps, slots, locals, SameOwner, SameArrivals, SameRelease, SameEnds, Releases
  <2>5. QED
    BY <2>2, <2>3, <2>4 DEF BaseInv
<1>4. QED
  BY <1>1, <1>2, <1>3

\* What holds of orderly clients does so at first: nothing is on its way or queued.
LEMMA InitOrder == Init => OrderInv
<1>1. SUFFICES ASSUME Init PROVE OrderInv
  OBVIOUS
<1>2. SerialInv
  BY <1>1 DEF Init, SerialInv
<1>3. EmptyInv
  BY <1>1 DEF Init, EmptyInv
<1>4. ChainInv
  BY <1>1, NoneAssumption DEF Init, ChainInv, Chained, UpToDate
<1>5. ActiveInv
  <2>1. \A s \in Slots : queue[s] = <<>> /\ ~Releases(s)
    BY <1>1 DEF Init, Slots, Releases
  <2>2. QED
    BY <1>1, <2>1 DEF Init, ActiveInv
<1>6. PlaceInv
  <2>1. ASSUME NEW i \in 1..MaxRequests PROVE Placed(i)
    <3>1. ~InBacklog(i) /\ ~InQueue(i) /\ ~Arriving(i) /\ ~InBatch(i) /\ i \notin done /\ ~(i <= issued)
      BY <1>1 DEF Init, InBacklog, InQueue, Arriving, InBatch
    <3>2. OnceInBacklog(i) /\ OnceInQueue(i) /\ OnceArriving(i) /\ OnceInBatch(i)
      BY <3>1 DEF InBacklog, InQueue, Arriving, InBatch, OnceInBacklog, OnceInQueue, OnceArriving, OnceInBatch
    <3>3. QED
      BY <3>1, <3>2 DEF Placed, OnePlace, Somewhere
  <2>2. QED
    BY <2>1 DEF PlaceInv
<1>7. QED
  BY <1>2, <1>3, <1>4, <1>5, <1>6 DEF OrderInv

\* It is inductive, beside what holds of every client.
LEMMA OrderStep == ASSUME BaseInv, OrderInv, Orderly, [Next]_vars PROVE OrderInv'
<1>1. CASE Next
  <2>1. SerialInv'
    BY <1>1, SerialStep DEF OrderInv
  <2>2. EmptyInv' /\ ActiveInv' /\ PlaceInv'
    BY <1>1, EmptyStep, ActiveStep, PlaceStep
  <2>3. ChainInv'
    BY <1>1, ChainStep
  <2>4. QED
    BY <2>1, <2>2, <2>3 DEF OrderInv
<1>2. CASE UNCHANGED vars
  <2>1. SerialInv /\ EmptyInv /\ ChainInv /\ ActiveInv /\ PlaceInv /\ TypeOK
    BY DEF OrderInv, BaseInv
  <2>2. UNCHANGED <<slotOf, backlogOf, backlog, ready, stamp, delivering, reaper, queue, active, maxActive, pc,
                    work, batch, issued, latest, tenant, done>>
    BY <1>2 DEF vars, maps, slots, locals, history
  <2>3. SerialInv' /\ EmptyInv' /\ ActiveInv'
    BY <2>1, <2>2 DEF SerialInv, Known, EmptyInv, ActiveInv, Releases
  <2>4. ChainInv'
    BY <2>1, <2>2, ChainKept
  <2>5. PlaceInv'
    BY <2>1, <2>2, PlacesSame
  <2>6. QED
    BY <2>3, <2>4, <2>5 DEF OrderInv
<1>3. QED
  BY <1>1, <1>2

\* The invariant holds at first.
LEMMA InitInv == Init => IInv
  BY InitBase, InitOrder DEF IInv

\* The invariant is inductive.
LEMMA StepInv == IInv /\ [Next]_vars => IInv'
<1>1. SUFFICES ASSUME IInv, [Next]_vars PROVE IInv'
  OBVIOUS
<1>2. BaseInv /\ BaseInv'
  BY <1>1, BaseStep DEF IInv
<1>3. Orderly => OrderInv'
  BY <1>1, <1>2, OrderStep DEF IInv
<1>4. QED
  BY <1>2, <1>3 DEF IInv, Orderly

\* A request that is in one place, once, is counted once.
LEMMA OneOfPlaces ==
    ASSUME TypeOK, NEW i \in 1..MaxRequests, Placed(i)
    PROVE  Cardinality(Places(i)) = IF i <= issued THEN 1 ELSE 0
<1> DEFINE K == BacklogPlaces(i)
           Q == SlotPlaces(i)
           A == {<<"arriving", d>> : d \in {d \in delivering : d.request.id = i}}
           B == {<<"batch", b>> : b \in {b \in Batchers : i \in batch[b]}}
           D == IF i \in done THEN {<<"done", i>>} ELSE {}
<1>1. Places(i) = K \cup Q \cup A \cup B \cup D
  BY DEF Places
<1>2. (~InBacklog(i) => K = {}) /\ (InBacklog(i) => \E x : K = {x})
  <2>1. ~InBacklog(i) => K = {}
    BY DEF InBacklog, BacklogPlaces
  <2>2. ASSUME InBacklog(i) PROVE \E x : K = {x}
    <3>1. PICK j \in DOMAIN backlog : \E k \in DOMAIN backlog[j] : backlog[j][k].id = i
      BY <2>2 DEF InBacklog
    <3>2. PICK k \in DOMAIN backlog[j] : backlog[j][k].id = i
      BY <3>1
    <3>3. \A l \in DOMAIN backlog : \A m \in DOMAIN backlog[l] : backlog[l][m].id = i => l = j /\ m = k
      BY <3>2 DEF Placed, OnceInBacklog
    <3>4. K = {<<"backlog", j, k>>}
      BY <3>2, <3>3 DEF BacklogPlaces
    <3>5. QED
      BY <3>4
  <2>3. QED
    BY <2>1, <2>2
<1>3. (~InQueue(i) => Q = {}) /\ (InQueue(i) => \E x : Q = {x})
  <2>1. ~InQueue(i) => Q = {}
    BY DEF InQueue, SlotPlaces
  <2>2. ASSUME InQueue(i) PROVE \E x : Q = {x}
    <3>1. PICK s \in Slots : \E k \in DOMAIN queue[s] : queue[s][k].id = i
      BY <2>2 DEF InQueue
    <3>2. PICK k \in DOMAIN queue[s] : queue[s][k].id = i
      BY <3>1
    <3>3. \A t \in Slots : \A m \in DOMAIN queue[t] : queue[t][m].id = i => t = s /\ m = k
      BY <3>2 DEF Placed, OnceInQueue
    <3>4. Q = {<<"slot", s, k>>}
      BY <3>2, <3>3 DEF SlotPlaces
    <3>5. QED
      BY <3>4
  <2>3. QED
    BY <2>1, <2>2
<1>4. (~Arriving(i) => A = {}) /\ (Arriving(i) => \E x : A = {x})
  <2>1. ~Arriving(i) => A = {}
    BY DEF Arriving
  <2>2. ASSUME Arriving(i) PROVE \E x : A = {x}
    <3>1. PICK d \in delivering : d.request.id = i
      BY <2>2 DEF Arriving
    <3>2. {e \in delivering : e.request.id = i} = {d}
      BY <3>1 DEF Placed, OnceArriving
    <3>3. A = {<<"arriving", d>>}
      BY <3>2
    <3>4. QED
      BY <3>3
  <2>3. QED
    BY <2>1, <2>2
<1>5. (~InBatch(i) => B = {}) /\ (InBatch(i) => \E x : B = {x})
  <2>1. ~InBatch(i) => B = {}
    BY DEF InBatch
  <2>2. ASSUME InBatch(i) PROVE \E x : B = {x}
    <3>1. PICK b \in Batchers : i \in batch[b]
      BY <2>2 DEF InBatch
    <3>2. {e \in Batchers : i \in batch[e]} = {b}
      BY <3>1 DEF Placed, OnceInBatch
    <3>3. B = {<<"batch", b>>}
      BY <3>2
    <3>4. QED
      BY <3>3
  <2>3. QED
    BY <2>1, <2>2
<1>6. (i \notin done => D = {}) /\ (i \in done => \E x : D = {x})
  OBVIOUS
<1> HIDE DEF K, Q, A, B, D
<1>7. CASE i <= issued
  <2>1. \E x : Places(i) = {x}
    BY <1>1, <1>2, <1>3, <1>4, <1>5, <1>6, <1>7 DEF Placed, OnePlace, Somewhere
  <2>2. QED
    BY <1>7, <2>1, FS_Singleton
<1>8. CASE ~(i <= issued)
  <2>1. Places(i) = {}
    BY <1>1, <1>2, <1>3, <1>4, <1>5, <1>6, <1>8 DEF Placed, Somewhere
  <2>2. QED
    BY <1>8, <2>1, FS_EmptySet
<1>9. QED
  BY <1>7, <1>8

\* The scheduler's maps, slots and backlog are what the invariant says, whatever
\* callers, the reaper, time and the scheduler threads do, for any number of
\* correlation IDs, batchers, slots and requests; for orderly clients, so are the
\* order and the places of the requests.
THEOREM Invariance == Spec => []IInv
  BY InitInv, StepInv, PTL DEF Spec

\* All variables keep their types: among others, the reaper and the scheduler
\* threads never name a slot that does not exist.
THEOREM TypeCorrect == Spec => []TypeOK
<1>1. IInv => TypeOK
  BY DEF IInv, BaseInv
<1>2. QED
  BY <1>1, Invariance, PTL

\* Sequences wait in the backlog only while every slot is in use; a sequence is
\* collected in the backlog or in a slot, never in both; and the backlog map leads
\* to the queues whose sequence has not ended: no request can be appended to the
\* queue of another sequence, nor to one that was given to a slot.
THEOREM BacklogIsConsistent == Spec => []BacklogConsistent
<1>1. IInv => BacklogConsistent
  BY DEF IInv, BaseInv
<1>2. QED
  BY <1>1, Invariance, PTL

\* No slot is leaked and none given away twice, whatever the clients do: a slot is
\* ready once, or mapped to one sequence, or waits for exactly one end of sequence.
THEOREM SlotsClaimedOnce == Spec => []OneClaim
<1>1. IInv => OneClaim
  BY OneClaimant DEF IInv, BaseInv, ClaimInv, OneClaim
<1>2. QED
  BY <1>1, Invariance, PTL

\* The state of a sequence lives in one slot and its requests are executed in the
\* order in which they were accepted, none left out, for clients that are orderly.
THEOREM SequencesIntact == ASSUME Orderly PROVE Spec => SequenceIntegrity
<1>1. ASSUME IInv, NEW b \in Batchers, Collecting(b), queue[Slot(b)] # <<>>
      PROVE  Head(queue[Slot(b)]) = ForceEnd \/ InSequence(Head(queue[Slot(b)]), Slot(b))
  <2>1. TypeOK /\ ChainInv
    BY <1>1 DEF IInv, BaseInv, OrderInv
  <2>2. PICK s \in Slots : s = Slot(b)
    BY <1>1, <2>1, BatchersAssumption DEF Collecting, Slot, Slots, TypeOK, Works
  <2>3. queue[s][1] = ForceEnd \/ InSequence(queue[s][1], s)
    BY <1>1, <2>1, <2>2 DEF ChainInv, Chained
  <2>4. Head(queue[s]) = queue[s][1]
    BY <1>1, <2>1, <2>2 DEF TypeOK
  <2>5. QED
    BY <2>2, <2>3, <2>4
<1>2. IInv => \A b \in Batchers :
          Collecting(b) /\ queue[Slot(b)] # <<>> /\ queue'[Slot(b)] = Tail(queue[Slot(b)]) =>
              LET p == Head(queue[Slot(b)]) IN p = ForceEnd \/ InSequence(p, Slot(b))
  BY <1>1
<1>3. QED
  BY <1>2, Invariance, PTL DEF SequenceIntegrity

\* "Should never be anything in a queue after the END marker": a request that
\* replaces or follows the end of a sequence would be lost with its slot.
THEOREM NothingFollowsEnd == ASSUME Orderly PROVE Spec => []NothingAfterEnd
<1>1. ASSUME IInv PROVE NothingAfterEnd
  <2>1. ASSUME NEW s \in Slots, NEW i \in 1..(Len(queue[s]) - 1) PROVE ~queue[s][i].end
    <3>1. TypeOK /\ Chained(s)
      BY <1>1 DEF IInv, BaseInv, OrderInv, ChainInv
    <3>2. Len(queue[s]) \in Nat /\ DOMAIN queue[s] = 1..Len(queue[s])
      BY <3>1 DEF TypeOK
    <3>3. i + 1 \in DOMAIN queue[s] /\ i + 1 # 1 /\ (i + 1) - 1 = i
      BY <2>1, <3>2
    <3>4. ~queue[s][(i + 1) - 1].end
      BY <3>1, <3>3 DEF Chained
    <3>5. QED
      BY <3>3, <3>4
  <2>2. QED
    BY <2>1 DEF NothingAfterEnd
<1>2. IInv => NothingAfterEnd
  BY <1>1
<1>3. QED
  BY <1>2, Invariance, PTL

\* A scheduler thread, which looks at the slots up to max_active_slot_ only, never
\* overlooks a request, nor waits while one is queued.
THEOREM AllLookedAt == ASSUME Orderly PROVE Spec => []NoneOverlooked
<1>1. ASSUME IInv PROVE NoneOverlooked
  <2>1. ASSUME NEW b \in Batchers, NEW k \in 0..MaxSlot, queue[<<b, k>>] # <<>>
        PROVE  k <= maxActive[b] /\ pc[b] # "wait"
    <3>1. PICK s \in Slots : s = <<b, k>> /\ s[1] = b /\ s[2] = k
      BY <2>1 DEF Slots
    <3>2. ActiveInv
      BY <1>1 DEF IInv, OrderInv
    <3>3. s \in active /\ pc[s[1]] # "wait"
      BY <2>1, <3>1, <3>2 DEF ActiveInv
    <3>4. s[2] <= maxActive[s[1]]
      BY <3>2, <3>3 DEF ActiveInv
    <3>5. QED
      BY <3>1, <3>3, <3>4
  <2>2. QED
    BY <2>1 DEF NoneOverlooked
<1>2. IInv => NoneOverlooked
  BY <1>1
<1>3. QED
  BY <1>2, Invariance, PTL

\* Every request accepted is in the backlog, on its way, queued, in a batch or
\* completed, and is there once: none is lost when a slot is refilled, none
\* executed twice.
THEOREM NoneLost == ASSUME Orderly PROVE Spec => []NotLost
<1>1. IInv => NotLost
  BY OneOfPlaces DEF IInv, BaseInv, OrderInv, PlaceInv, NotLost
<1>2. QED
  BY <1>1, Invariance, PTL
=============================================================================
