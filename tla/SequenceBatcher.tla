--------------------------- MODULE SequenceBatcher ---------------------------
(***************************************************************************)
(* SequenceBatchScheduler: routes the requests of a sequence, known by its *)
(* correlation ID, to one slot of one batcher, keeps the sequences that    *)
(* have no slot in a backlog, and ends the sequences that are idle.        *)
(*                                                                         *)
(* Threads: callers of Enqueue, the reaper, one scheduler thread per       *)
(* SequenceBatch, and the destructor.  The scheduler's mu_ (base) guards   *)
(* the maps, the backlog and the ready slots; the mu_ of each batcher its  *)
(* queues.  A critical section is one step where it takes no second lock;  *)
(* the reaper holds the base lock while it takes that of a batcher, a      *)
(* scheduler thread its own while it takes the base lock.                  *)
(***************************************************************************)
EXTENDS Integers, Sequences, FiniteSets

CONSTANTS
    Correlations,  \* correlation IDs
    Batchers,      \* batchers_
    Fallible,      \* the batchers whose OnInit may fail
    MaxSlot,       \* the last slot of every batcher, max_batch_size - 1
    Idlers,        \* the correlation IDs that may be idle for too long
    Pipelined,     \* whether two requests of a sequence may be inside Enqueue at once
    Stalls,        \* whether a sequence may become idle inside its Enqueue
    MaxRequests,   \* bound: requests enqueued
    None           \* no slot, no correlation ID

ASSUME BatchersAssumption == IsFiniteSet(Batchers) /\ Fallible \subseteq Batchers /\ MaxSlot \in Nat
ASSUME IdlersAssumption == Idlers \subseteq Correlations /\ None \notin Correlations
ASSUME FlagsAssumption == Pipelined \in BOOLEAN /\ Stalls \in BOOLEAN
ASSUME BoundAssumption == MaxRequests \in Nat

VARIABLES
    slotOf,      \* sequence_to_batchslot_map_
    backlogOf,   \* sequence_to_backlog_map_: the id of the first request in the queue, or 0
    backlog,     \* backlog_queues_
    ready,       \* ready_batch_slots_: how often it holds each slot
    stamp,       \* correlation_id_timestamps_: whether that is too long ago
    delivering,  \* Enqueue calls between the base lock and the lock of the batcher
    reaper,      \* where ReaperThread is, and its locals
    queue,       \* queues_ of all batchers
    active,      \* the slots whose slot_correlation_ids_ is not 0
    maxActive,   \* max_active_slot_ of each batcher
    pc,          \* where each SchedulerThread is
    work,        \* the locals of each SchedulerThread
    batch,       \* the requests in each SchedulerThread's payloads
    closing,     \* how far the destructor is
    told,        \* the batchers whose scheduler_thread_exit_ is set
    issued,      \* requests enqueued so far
    latest,      \* history: the last request accepted of each correlation ID
    tenant,      \* history: the last request a slot executed of a sequence that goes on
    done         \* requests whose completion function was called

maps == <<slotOf, backlogOf>>
slots == <<queue, active, maxActive>>
locals == <<work, batch>>
ending == <<closing, told>>
history == <<latest, tenant>>
vars == <<maps, backlog, ready, stamp, delivering, reaper, slots, pc, locals, ending, issued, history, done>>

Slots == Batchers \X (0..MaxSlot)

ASSUME NoneAssumption == None \notin Slots

\* `prev' is history: the request of the same correlation ID accepted before.
Requests ==
    [id : 1..MaxRequests, cid : Correlations, start : BOOLEAN, end : BOOLEAN, prev : 0..MaxRequests]

\* The payload without providers that ends an idle sequence.
ForceEnd == [id |-> 0, cid |-> None, start |-> FALSE, end |-> TRUE, prev |-> 0]

Payloads == Requests \cup {ForceEnd}

\* Where a scheduler thread is: before OnInit, given up, at the test of the exit
\* flag, about to lock, collecting payloads, about to release a slot (both with
\* its mu_ held), waiting, out of the wait but without mu_, running, beyond the
\* definition of the language.
PCs == {"init", "failed", "test", "lock", "collect", "release", "wait", "woken", "run", "exited", "corrupt"}

\* The slot being collected, the last one to collect, adjust_max_active_slot.
Works == [slot : Nat, last : -1..MaxSlot, adjust : BOOLEAN]
NoWork == [slot |-> 0, last |-> -1, adjust |-> FALSE]

\* Where the reaper is, the idle sequences it has still to look at, and the slot
\* whose sequence it is about to end.
Reapers ==
    [pc : {"test", "lock", "scan", "enqueue", "wait", "exited"},
     todo : SUBSET Correlations, slot : Slots \cup {None}]

BaseFree == reaper.pc \notin {"scan", "enqueue"}
BatchFree(b) == pc[b] \notin {"collect", "release"}

Init ==
    /\ slotOf = [c \in Correlations |-> None]
    /\ backlogOf = [c \in Correlations |-> 0]
    /\ backlog = <<>>
    /\ ready = [s \in Slots |-> 1]
    /\ stamp = [c \in Correlations |-> "none"]
    /\ delivering = {}
    /\ reaper = [pc |-> "test", todo |-> {}, slot |-> None]
    /\ queue = [s \in Slots |-> <<>>]
    /\ active = {}
    /\ maxActive = [b \in Batchers |-> -1]
    /\ pc = [b \in Batchers |-> "init"]
    /\ work = [b \in Batchers |-> NoWork]
    /\ batch = [b \in Batchers |-> {}]
    /\ closing = "no"
    /\ told = {}
    /\ issued = 0
    /\ latest = [c \in Correlations |-> 0]
    /\ tenant = [s \in Slots |-> 0]
    /\ done = {}

-----------------------------------------------------------------------------
(***************************************************************************)
(* SequenceBatchScheduler::Enqueue.                                        *)
(***************************************************************************)
Known(c) == slotOf[c] # None \/ backlogOf[c] # 0

Callable == BaseFree /\ closing = "no" /\ issued < MaxRequests

\* A request without a correlation ID, of a batch size other than 1, or of a
\* sequence that was not started, completes with an error.
Refuse ==
    /\ Callable
    /\ issued' = issued + 1
    /\ done' = done \cup {issued + 1}
    /\ UNCHANGED <<maps, backlog, ready, stamp, delivering, reaper, slots, pc, locals, ending, history>>

\* Callers that wait for the response, or use a stream, are never inside Enqueue
\* with two requests of a sequence.
Serial(c) == Pipelined \/ \A d \in delivering : d.request.cid # c

NewRequest(c, start, end) ==
    [id |-> issued + 1, cid |-> c, start |-> start, end |-> end, prev |-> latest[c]]

\* The request is accepted: it carries START or its sequence is known.
Accept(c, start) ==
    /\ Callable
    /\ Serial(c)
    /\ start \/ Known(c)
    /\ stamp' = [stamp EXCEPT ![c] = "fresh"]
    /\ issued' = issued + 1
    /\ latest' = [latest EXCEPT ![c] = issued + 1]

Dispatch(r, s) == delivering' = delivering \cup {[request |-> r, slot |-> s]}

\* Mutant of Unmapped: the sequence stays in the map.
StillMapped(c) == slotOf

Unmapped(c) == [slotOf EXCEPT ![c] = None]

\* The sequence has a slot; its END makes the scheduler forget that.
EnqueueToSlot(c, start, end) ==
    /\ Accept(c, start)
    /\ slotOf[c] # None
    /\ Dispatch(NewRequest(c, start, end), slotOf[c])
    /\ slotOf' = IF end THEN Unmapped(c) ELSE slotOf
    /\ UNCHANGED <<backlogOf, backlog, ready, reaper, slots, pc, locals, ending, tenant, done>>

\* Mutant of Forgotten: the queue stays in the map when its sequence ends.
StillCollected(c, end) == backlogOf

\* The backlog map after a request of the sequence.
Forgotten(c, end) == IF end THEN [backlogOf EXCEPT ![c] = 0] ELSE backlogOf

\* The sequence has a queue in the backlog.
EnqueueToBacklog(c, start, end) ==
    /\ Accept(c, start)
    /\ slotOf[c] = None /\ backlogOf[c] # 0
    /\ backlog' = [i \in DOMAIN backlog |->
                      IF backlog[i][1].id = backlogOf[c]
                      THEN Append(backlog[i], NewRequest(c, start, end)) ELSE backlog[i]]
    /\ backlogOf' = Forgotten(c, end)
    /\ UNCHANGED <<slotOf, ready, delivering, reaper, slots, pc, locals, ending, tenant, done>>

\* Slots that may be on top of ready_batch_slots_: those with the lowest number.
Top == {s \in Slots : ready[s] > 0 /\ \A q \in Slots : ready[q] > 0 => s[2] <= q[2]}

\* Mutant of Taken: the slot taken stays ready.
StillReady(s) == ready

Taken(s) == [ready EXCEPT ![s] = @ - 1]

\* A new sequence takes a ready slot.
EnqueueToNewSlot(c, end) ==
    /\ Accept(c, TRUE)
    /\ ~Known(c)
    /\ \E s \in Top :
          /\ ready' = Taken(s)
          /\ Dispatch(NewRequest(c, TRUE, end), s)
          /\ slotOf' = IF end THEN slotOf ELSE [slotOf EXCEPT ![c] = s]
    /\ UNCHANGED <<backlogOf, backlog, reaper, slots, pc, locals, ending, tenant, done>>

\* No slot is ready: a new sequence gets a queue in the backlog.
EnqueueToNewBacklog(c, end) ==
    /\ Accept(c, TRUE)
    /\ ~Known(c)
    /\ \A s \in Slots : ready[s] = 0
    /\ backlog' = Append(backlog, <<NewRequest(c, TRUE, end)>>)
    /\ backlogOf' = IF end THEN backlogOf ELSE [backlogOf EXCEPT ![c] = issued + 1]
    /\ UNCHANGED <<slotOf, ready, delivering, reaper, slots, pc, locals, ending, tenant, done>>

Enqueue(c, start, end) ==
    \/ EnqueueToSlot(c, start, end)
    \/ EnqueueToBacklog(c, start, end)
    \/ start /\ EnqueueToNewSlot(c, end)
    \/ start /\ EnqueueToNewBacklog(c, end)

\* Mutant of Raised: the maximum of a batcher in use is not raised.
RaisedOnce(s) == IF maxActive[s[1]] = -1 THEN s[2] ELSE maxActive[s[1]]

Raised(s) == IF s[2] > maxActive[s[1]] THEN s[2] ELSE maxActive[s[1]]

\* Mutant of Notified: the scheduler thread is not notified.
NotNotified(b) == pc[b]

\* Where the thread of a batcher is after notify_one.
Notified(b) == IF pc[b] = "wait" THEN "woken" ELSE pc[b]

\* SequenceBatch::Enqueue, and its notify_one.
Put(s, p) ==
    /\ BatchFree(s[1])
    /\ queue' = [queue EXCEPT ![s] = Append(@, p)]
    /\ active' = active \cup {s}
    /\ maxActive' = [maxActive EXCEPT ![s[1]] = Raised(s)]
    /\ pc' = [pc EXCEPT ![s[1]] = Notified(s[1])]

\* A call of Enqueue goes on to the batcher, without the base lock.
Deliver(d) ==
    /\ d \in delivering
    /\ delivering' = delivering \ {d}
    /\ Put(d.slot, d.request)
    /\ UNCHANGED <<maps, backlog, ready, stamp, reaper, locals, ending, issued, history, done>>

-----------------------------------------------------------------------------
(***************************************************************************)
(* ReaperThread.                                                           *)
(***************************************************************************)
\* Time passes: no request of the sequence came for max_sequence_idle_microseconds_.
GoIdle(c) ==
    /\ c \in Idlers
    /\ BaseFree
    /\ stamp[c] = "fresh"
    /\ Stalls \/ \A d \in delivering : d.request.cid # c
    /\ stamp' = [stamp EXCEPT ![c] = "idle"]
    /\ UNCHANGED <<maps, backlog, ready, delivering, reaper, slots, pc, locals, ending, issued, history, done>>

quietReaper == <<maps, backlog, ready, stamp, delivering, slots, pc, locals, ending, issued, history, done>>

TestReaperExit ==
    /\ reaper.pc = "test"
    /\ reaper' = [reaper EXCEPT !.pc = IF closing = "no" THEN "lock" ELSE "exited"]
    /\ UNCHANGED quietReaper

StartScan ==
    /\ reaper.pc = "lock"
    /\ reaper' = [reaper EXCEPT !.pc = "scan", !.todo = {c \in Correlations : stamp[c] = "idle"}]
    /\ UNCHANGED quietReaper

\* An idle sequence loses its slot.
Evict(c) ==
    /\ reaper.pc = "scan" /\ c \in reaper.todo
    /\ slotOf[c] # None
    /\ slotOf' = Unmapped(c)
    /\ stamp' = [stamp EXCEPT ![c] = "none"]
    /\ reaper' = [reaper EXCEPT !.pc = "enqueue", !.todo = @ \ {c}, !.slot = slotOf[c]]
    /\ UNCHANGED <<backlogOf, backlog, ready, delivering, slots, pc, locals, ending, issued, history, done>>

\* The slot's batcher is told, with the base lock still held.
EnqueueForceEnd ==
    /\ reaper.pc = "enqueue"
    /\ Put(reaper.slot, ForceEnd)
    /\ reaper' = [reaper EXCEPT !.pc = "scan", !.slot = None]
    /\ UNCHANGED <<maps, backlog, ready, stamp, delivering, locals, ending, issued, history, done>>

\* An idle sequence in the backlog is left alone.
Spare(c) ==
    /\ reaper.pc = "scan" /\ c \in reaper.todo
    /\ slotOf[c] = None /\ backlogOf[c] # 0
    /\ reaper' = [reaper EXCEPT !.todo = @ \ {c}]
    /\ UNCHANGED quietReaper

\* The timestamp of a sequence that has ended is dropped.
DropStamp(c) ==
    /\ reaper.pc = "scan" /\ c \in reaper.todo
    /\ ~Known(c)
    /\ stamp' = [stamp EXCEPT ![c] = "none"]
    /\ reaper' = [reaper EXCEPT !.todo = @ \ {c}]
    /\ UNCHANGED <<maps, backlog, ready, delivering, slots, pc, locals, ending, issued, history, done>>

EndScan ==
    /\ reaper.pc = "scan" /\ reaper.todo = {}
    /\ reaper' = [reaper EXCEPT !.pc = "wait"]
    /\ UNCHANGED quietReaper

\* reaper_cv_.wait_for returns: by timeout, by notification or spuriously.
WakeReaper ==
    /\ reaper.pc = "wait"
    /\ reaper' = [reaper EXCEPT !.pc = "test"]
    /\ UNCHANGED quietReaper

Reap ==
    \/ TestReaperExit \/ StartScan \/ EnqueueForceEnd \/ EndScan \/ WakeReaper
    \/ \E c \in Correlations : Evict(c) \/ Spare(c) \/ DropStamp(c)

-----------------------------------------------------------------------------
(***************************************************************************)
(* SequenceBatch::SchedulerThread.                                         *)
(***************************************************************************)
Slot(b) == <<b, work[b].slot>>

GoTo(b, to) == pc' = [pc EXCEPT ![b] = to]

quietThread == <<maps, backlog, ready, stamp, delivering, reaper, ending, issued, latest>>

\* OnInit; a thread whose initialization fails is gone, its slots stay ready.
StartBatcher(b) ==
    /\ pc[b] = "init"
    /\ \E to \in IF b \in Fallible THEN {"test", "failed"} ELSE {"test"} : GoTo(b, to)
    /\ UNCHANGED <<quietThread, slots, locals, tenant, done>>

TestExit(b) ==
    /\ pc[b] = "test"
    /\ GoTo(b, IF b \in told THEN "exited" ELSE "lock")
    /\ UNCHANGED <<quietThread, slots, locals, tenant, done>>

\* The slots up to the maximum active one that have payloads.
Pending(b) == {k \in 0..maxActive[b] : queue[<<b, k>>] # <<>>}

WaitForWork(b) ==
    /\ pc[b] = "lock"
    /\ Pending(b) = {}
    /\ GoTo(b, "wait")
    /\ UNCHANGED <<quietThread, slots, locals, tenant, done>>

\* cv_.wait_for returns by timeout, or spuriously.
WakeUp(b) ==
    /\ pc[b] = "wait"
    /\ GoTo(b, "woken")
    /\ UNCHANGED <<quietThread, slots, locals, tenant, done>>

\* Mutant of Resume: the queues are looked at again without testing the exit flag.
ResumeLocks(b) ==
    /\ pc[b] = "woken"
    /\ GoTo(b, "lock")
    /\ UNCHANGED <<quietThread, slots, locals, tenant, done>>

Resume(b) ==
    /\ pc[b] = "woken"
    /\ GoTo(b, "test")
    /\ UNCHANGED <<quietThread, slots, locals, tenant, done>>

\* Payloads are collected from slot 0 to the last that has some.
StartCollect(b) ==
    /\ pc[b] = "lock"
    /\ \E last \in Pending(b) :
          /\ \A k \in Pending(b) : k <= last
          /\ work' = [work EXCEPT ![b] = [slot |-> 0, last |-> last, adjust |-> FALSE]]
    /\ GoTo(b, "collect")
    /\ UNCHANGED <<quietThread, slots, batch, tenant, done>>

Collecting(b) == pc[b] = "collect" /\ work[b].slot <= work[b].last

\* A slot without requests gets a null payload.
SkipSlot(b) ==
    /\ Collecting(b)
    /\ queue[Slot(b)] = <<>>
    /\ work' = [work EXCEPT ![b].slot = @ + 1]
    /\ UNCHANGED <<quietThread, slots, pc, batch, tenant, done>>

\* The payload of the slot is taken; one that ends its sequence frees the slot.
CollectSlot(b) ==
    /\ Collecting(b)
    /\ queue[Slot(b)] # <<>>
    /\ LET p == Head(queue[Slot(b)])
       IN  /\ queue' = [queue EXCEPT ![Slot(b)] = Tail(@)]
           /\ batch' = IF p = ForceEnd THEN batch ELSE [batch EXCEPT ![b] = @ \cup {p.id}]
           /\ tenant' = [tenant EXCEPT ![Slot(b)] = IF p.end THEN 0 ELSE p.id]
           /\ GoTo(b, IF p.end THEN "release" ELSE "collect")
           /\ work' = IF p.end THEN work ELSE [work EXCEPT ![b].slot = @ + 1]
    /\ UNCHANGED <<quietThread, active, maxActive, done>>

\* ReleaseBatchSlot needs the base lock; the destructor must not have ended.
Releasing(b) == pc[b] = "release" /\ BaseFree /\ closing # "members"

\* Mutant of Adopt: a sequence that goes on is not redirected to the slot.
AdoptNone(s, payloads) == UNCHANGED maps

\* A sequence whose END has not arrived yet moves from the backlog to a slot.
Adopt(s, payloads) ==
    LET r == payloads[Len(payloads)]
    IN  IF r.end
        THEN UNCHANGED maps
        ELSE /\ backlogOf' = [backlogOf EXCEPT ![r.cid] = 0]
             /\ slotOf' = [slotOf EXCEPT ![r.cid] = s]

\* ReleaseBatchSlot: the slot goes to the first sequence of the backlog, whose
\* payloads replace what is in the queue of the slot.
RefillSlot(b) ==
    /\ Releasing(b)
    /\ backlog # <<>>
    /\ queue' = [queue EXCEPT ![Slot(b)] = Head(backlog)]
    /\ backlog' = Tail(backlog)
    /\ Adopt(Slot(b), Head(backlog))
    /\ GoTo(b, "collect")
    /\ work' = [work EXCEPT ![b].slot = @ + 1]
    /\ UNCHANGED <<ready, stamp, delivering, reaper, active, maxActive, batch, ending, issued, history, done>>

\* ReleaseBatchSlot: there is no backlog, the slot is ready again.
FreeSlot(b) ==
    /\ Releasing(b)
    /\ backlog = <<>>
    /\ ready' = [ready EXCEPT ![Slot(b)] = @ + 1]
    /\ active' = active \ {Slot(b)}
    /\ GoTo(b, "collect")
    /\ work' = [work EXCEPT ![b].slot = @ + 1, ![b].adjust = @ \/ work[b].slot = maxActive[b]]
    /\ UNCHANGED <<maps, backlog, stamp, delivering, reaper, queue, maxActive, batch, ending, issued, history, done>>

\* The members of the scheduler are destroyed: whatever follows is undefined.
ReleaseTooLate(b) ==
    /\ pc[b] = "release" /\ closing = "members"
    /\ GoTo(b, "corrupt")
    /\ UNCHANGED <<quietThread, slots, locals, tenant, done>>

\* The largest slot that is still active, or -1.
Shrunk(b) ==
    {k \in -1..maxActive[b] :
        /\ k = -1 \/ <<b, k>> \in active
        /\ \A j \in 0..maxActive[b] : j > k => <<b, j>> \notin active}

\* All slots are collected: max_active_slot_ is adjusted, mu_ is given up.
EndCollect(b) ==
    /\ pc[b] = "collect" /\ work[b].slot > work[b].last
    /\ \E k \in IF work[b].adjust THEN Shrunk(b) ELSE {maxActive[b]} :
          maxActive' = [maxActive EXCEPT ![b] = k]
    /\ work' = [work EXCEPT ![b] = NoWork]
    /\ GoTo(b, "run")
    /\ UNCHANGED <<quietThread, queue, active, batch, tenant, done>>

\* OnSchedule_ executes the payloads and completes them.
Run(b) ==
    /\ pc[b] = "run"
    /\ done' = done \cup batch[b]
    /\ batch' = [batch EXCEPT ![b] = {}]
    /\ GoTo(b, "test")
    /\ UNCHANGED <<quietThread, slots, work, tenant>>

-----------------------------------------------------------------------------
(***************************************************************************)
(* Destruction, by whoever gives up the last handle on the backend: the    *)
(* callers and the completion functions of requests hold one.              *)
(***************************************************************************)
Stopped(b) == pc[b] \in {"failed", "exited"}

\* The reaper is told to exit, and notified.
Destroy ==
    /\ closing = "no"
    /\ BaseFree
    /\ done = 1..issued
    /\ closing' = "reaper"
    /\ reaper' = IF reaper.pc = "wait" THEN [reaper EXCEPT !.pc = "test"] ELSE reaper
    /\ UNCHANGED <<maps, backlog, ready, stamp, delivering, slots, pc, locals, told, issued, history, done>>

\* The reaper is joined; the maps, the backlog and the ready slots are destroyed.
DestroyMembers ==
    /\ closing = "reaper"
    /\ reaper.pc = "exited"
    /\ closing' = "members"
    /\ UNCHANGED <<maps, backlog, ready, stamp, delivering, reaper, slots, pc, locals, told, issued, history, done>>

\* The batchers are destroyed one after the other: exit flag, notify_one, join.
DestroyBatcher(b) ==
    /\ closing = "members"
    /\ b \notin told /\ \A t \in told : Stopped(t)
    /\ BatchFree(b)
    /\ told' = told \cup {b}
    /\ pc' = [pc EXCEPT ![b] = Notified(b)]
    /\ UNCHANGED <<maps, backlog, ready, stamp, delivering, reaper, slots, locals, closing, issued, history, done>>

\* Nothing is left to do.
Gone == closing = "members" /\ told = Batchers /\ UNCHANGED vars

\* What a scheduler thread does by itself, its wait apart.
Step(b) ==
    \/ StartBatcher(b) \/ TestExit(b) \/ WaitForWork(b) \/ Resume(b)
    \/ StartCollect(b) \/ SkipSlot(b) \/ CollectSlot(b)
    \/ RefillSlot(b) \/ FreeSlot(b) \/ ReleaseTooLate(b) \/ EndCollect(b) \/ Run(b)

Next ==
    \/ Refuse
    \/ \E c \in Correlations, start, end \in BOOLEAN : Enqueue(c, start, end)
    \/ \E d \in delivering : Deliver(d)
    \/ \E c \in Correlations : GoIdle(c)
    \/ Reap
    \/ \E b \in Batchers : Step(b) \/ WakeUp(b) \/ DestroyBatcher(b)
    \/ Destroy \/ DestroyMembers
    \/ Gone

Spec == Init /\ [][Next]_vars

\* Threads that can go on do; one that needs the base lock gets it at last, since
\* the reaper gives it up between its scans.  Waits of scheduler threads may be
\* as long as they like; no sequence has to become idle.
Fairness ==
    /\ WF_vars(\E d \in delivering : Deliver(d))
    /\ WF_vars(Reap) /\ WF_vars(DestroyMembers)
    /\ \A b \in Batchers :
          /\ WF_vars(Step(b)) /\ WF_vars(DestroyBatcher(b))
          /\ SF_vars(RefillSlot(b)) /\ SF_vars(FreeSlot(b))

FairSpec == Spec /\ Fairness

\* Waits of scheduler threads end at the latest when their timeout is reached.
WaitsEnd == \A b \in Batchers : WF_vars(WakeUp(b))

TimelySpec == FairSpec /\ WaitsEnd

-----------------------------------------------------------------------------
(***************************************************************************)
(* Properties.                                                             *)
(***************************************************************************)
\* Every variable has its type.
TypeOK ==
    /\ slotOf \in [Correlations -> Slots \cup {None}]
    /\ backlogOf \in [Correlations -> 0..MaxRequests]
    /\ backlog \in Seq(Seq(Requests) \ {<<>>})
    /\ ready \in [Slots -> Nat]
    /\ stamp \in [Correlations -> {"none", "fresh", "idle"}]
    /\ delivering \subseteq [request : Requests, slot : Slots]
    /\ reaper \in Reapers
    /\ reaper.pc = "enqueue" => reaper.slot \in Slots
    /\ queue \in [Slots -> Seq(Payloads)]
    /\ active \subseteq Slots
    /\ maxActive \in [Batchers -> -1..MaxSlot]
    /\ pc \in [Batchers -> PCs]
    /\ work \in [Batchers -> Works]
    /\ batch \in [Batchers -> SUBSET (1..MaxRequests)]
    /\ closing \in {"no", "reaper", "members"}
    /\ told \subseteq Batchers
    /\ issued \in 0..MaxRequests
    /\ latest \in [Correlations -> 0..MaxRequests]
    /\ tenant \in [Slots -> 0..MaxRequests]
    /\ done \subseteq 1..MaxRequests

\* A sequence's state lives in one slot: what a slot executes is the request that
\* follows the one it executed last, among all requests accepted with that
\* correlation ID, or, if that one ended its sequence, the start of another.
\* No request overtakes another, is left out or runs in the slot of another sequence.
InSequence(p, s) == IF tenant[s] = 0 THEN p.start ELSE p.prev = tenant[s]

SequenceIntegrity ==
    [][\A b \in Batchers :
          Collecting(b) /\ queue[Slot(b)] # <<>> /\ queue'[Slot(b)] = Tail(queue[Slot(b)]) =>
              LET p == Head(queue[Slot(b)]) IN p = ForceEnd \/ InSequence(p, Slot(b))]_vars

\* "Should never be anything in a queue after the END marker."
NothingAfterEnd ==
    \A s \in Slots : \A i \in 1..(Len(queue[s]) - 1) : ~queue[s][i].end

\* No slot is leaked, none is given away twice: a slot is ready once, or belongs
\* to one sequence, or waits for one end of sequence, which is on its way from
\* Enqueue or from the reaper, queued, or collected and about to release it.
Claims(s) ==
    {<<"ready", i>> : i \in 1..ready[s]}
    \cup {<<"sequence", c>> : c \in {c \in Correlations : slotOf[c] = s}}
    \cup {<<"arriving", d>> : d \in {d \in delivering : d.slot = s /\ d.request.end}}
    \cup (IF reaper.pc = "enqueue" /\ reaper.slot = s THEN {<<"evicted", s>>} ELSE {})
    \cup {<<"queued", i>> : i \in {i \in DOMAIN queue[s] : queue[s][i].end}}
    \cup {<<"released", b>> : b \in {b \in Batchers : pc[b] \in {"release", "corrupt"} /\ Slot(b) = s}}

OneClaim == \A s \in Slots : Cardinality(Claims(s)) = 1

\* Where a request is: in the backlog, in the queue of a slot, on its way, in a
\* batch, completed.
BacklogPlaces(i) ==
    UNION {{<<"backlog", j, k>> : k \in {k \in DOMAIN backlog[j] : backlog[j][k].id = i}} : j \in DOMAIN backlog}

SlotPlaces(i) ==
    UNION {{<<"slot", s, k>> : k \in {k \in DOMAIN queue[s] : queue[s][k].id = i}} : s \in Slots}

Places(i) ==
    BacklogPlaces(i) \cup SlotPlaces(i)
    \cup {<<"arriving", d>> : d \in {d \in delivering : d.request.id = i}}
    \cup {<<"batch", b>> : b \in {b \in Batchers : i \in batch[b]}}
    \cup (IF i \in done THEN {<<"done", i>>} ELSE {})

\* Requests are neither lost nor executed twice: each one accepted is in the
\* backlog, on its way, in the queue of a slot, in a batch or completed, and there
\* once; no other is.
NotLost == \A i \in 1..MaxRequests : Cardinality(Places(i)) = IF i <= issued THEN 1 ELSE 0

\* Sequences wait in the backlog only while every slot is in use, and a sequence
\* is collected there or in a slot, never in both.  The backlog map leads to the
\* queues whose sequence has not ended, and to no other.
BacklogConsistent ==
    /\ backlog # <<>> => \A s \in Slots : ready[s] = 0
    /\ \A c \in Correlations : slotOf[c] # None => backlogOf[c] = 0
    /\ \A i \in DOMAIN backlog :
          LET last == backlog[i][Len(backlog[i])]
          IN  backlogOf[last.cid] = backlog[i][1].id <=> ~last.end
    /\ \A c \in Correlations : backlogOf[c] # 0 =>
          \E i \in DOMAIN backlog : backlog[i][1].id = backlogOf[c] /\ backlog[i][1].cid = c

\* A scheduler thread looks at the slots up to max_active_slot_ only: no request
\* is beyond, and none is left behind by a thread that waits.
NoneOverlooked ==
    \A b \in Batchers, k \in 0..MaxSlot :
        queue[<<b, k>>] # <<>> => k <= maxActive[b] /\ pc[b] # "wait"

\* The one deadlock of the scheduler: a thread that releases a slot holds mu_ of
\* its batcher and waits for the base lock; the reaper holds the base lock and
\* waits for mu_, to put the end of an idle sequence in a slot of that batcher.
LockCycle ==
    /\ closing # "members"
    /\ \E b \in Batchers : pc[b] = "release" /\ reaper.pc = "enqueue" /\ reaper.slot[1] = b

\* A request that has got past the backlog is executed, unless a batcher failed to
\* start or the two threads above block each other, and for that no thread needs
\* the default timeout of its wait.
Routed(i) ==
    \/ \E d \in delivering : d.request.id = i
    \/ \E s \in Slots : \E k \in DOMAIN queue[s] : queue[s][k].id = i

Served == \A i \in 1..MaxRequests :
    Routed(i) ~> i \in done \/ LockCycle \/ \E b \in Batchers : pc[b] = "failed"

\* The scheduler's destructor returns, if waits end: all the threads it joins
\* exit, unless two of them block each other or one used a destroyed member.
Exits ==
    WaitsEnd => (closing # "no" ~>
        \/ reaper.pc = "exited" /\ told = Batchers /\ \A b \in Batchers : Stopped(b)
        \/ LockCycle \/ \E b \in Batchers : pc[b] = "corrupt")

\* The slot of a sequence that is idle for too long is freed and made available.
IdleSlotsAreFreed ==
    \A s \in Slots : (reaper.pc = "enqueue" /\ reaper.slot = s)
        ~> (ready[s] > 0 \/ closing # "no" \/ \E c \in Correlations : slotOf[c] = s)

-----------------------------------------------------------------------------
(***************************************************************************)
(* The inductive invariant behind the proofs.                              *)
(***************************************************************************)
\* A backlog queue collects requests of one correlation ID, among those
\* enqueued; the map is known by the first one, which is in no other queue.
QueuesInv ==
    /\ \A i \in DOMAIN backlog : \A k \in DOMAIN backlog[i] :
          backlog[i][k].cid = backlog[i][1].cid /\ backlog[i][k].id <= issued
    /\ \A i, j \in DOMAIN backlog : backlog[i][1].id = backlog[j][1].id => i = j

\* A request follows another of its sequence; only the last of a queue ends it.
Follows(r, last) == ~last.end /\ r.prev = last.id

\* A backlog queue holds one sequence, whole so far: it starts with a START, each
\* request follows the one before it, and the last is the latest of its
\* correlation ID unless the sequence is complete.
WholeInv ==
    \A i \in DOMAIN backlog :
        /\ backlog[i][1].start
        /\ \A k \in DOMAIN backlog[i] : k # 1 => Follows(backlog[i][k], backlog[i][k - 1])
        /\ LET last == backlog[i][Len(backlog[i])]
           IN  ~last.end => latest[last.cid] = last.id

\* A scheduler thread releases one of its slots.
ReleaseInv == \A b \in Batchers : pc[b] = "release" => Slot(b) \in Slots

\* The ways in which a slot is not free to be given away, beside that a sequence
\* is mapped to it: an END is on its way to it, the reaper is about to end its
\* sequence, an END is queued, or collected and the slot about to be released.
Owned(s) == \E c \in Correlations : slotOf[c] = s
EndArriving(s) == \E d \in delivering : d.slot = s /\ d.request.end
Evicting(s) == reaper.pc = "enqueue" /\ reaper.slot = s
EndQueued(s) == \E i \in DOMAIN queue[s] : queue[s][i].end
Releases(s) == pc[s[1]] \in {"release", "corrupt"} /\ work[s[1]].slot = s[2]

\* At most one of the claims on a slot is there, and at most once.
Apart(s) ==
    /\ ready[s] <= 1
    /\ \A c, e \in Correlations : slotOf[c] = s /\ slotOf[e] = s => c = e
    /\ \A d, e \in delivering : d.slot = s /\ d.request.end /\ e.slot = s /\ e.request.end => d = e
    /\ \A i, j \in DOMAIN queue[s] : queue[s][i].end /\ queue[s][j].end => i = j
    /\ ready[s] # 0 =>
          ~Owned(s) /\ ~EndArriving(s) /\ ~Evicting(s) /\ ~EndQueued(s) /\ ~Releases(s)
    /\ Owned(s) => ~EndArriving(s) /\ ~Evicting(s) /\ ~EndQueued(s) /\ ~Releases(s)
    /\ EndArriving(s) => ~Evicting(s) /\ ~EndQueued(s) /\ ~Releases(s)
    /\ Evicting(s) => ~EndQueued(s) /\ ~Releases(s)
    /\ EndQueued(s) => ~Releases(s)

Claimed(s) ==
    ready[s] # 0 \/ Owned(s) \/ EndArriving(s) \/ Evicting(s) \/ EndQueued(s) \/ Releases(s)

ClaimInv == \A s \in Slots : Apart(s) /\ Claimed(s)

\* What holds of every client.
BaseInv == TypeOK /\ ReleaseInv /\ QueuesInv /\ BacklogConsistent /\ WholeInv /\ ClaimInv

\* Clients that send a request of a sequence when the one before it has got
\* through Enqueue, and that are not held up there beyond the idle limit.
Orderly == ~Pipelined /\ ~Stalls

\* One request of a sequence at a time is on its way to the slot of the sequence,
\* or, if it ends the sequence, to a slot the sequence just had; it is the latest
\* of its correlation ID, which is not about to be found idle.
SerialInv ==
    /\ \A d, e \in delivering : d.request.cid = e.request.cid => d = e
    /\ \A d \in delivering :
          /\ IF d.request.end THEN ~Known(d.request.cid) ELSE slotOf[d.request.cid] = d.slot
          /\ stamp[d.request.cid] = "fresh"
          /\ latest[d.request.cid] = d.request.id
    /\ reaper.pc \in {"scan", "enqueue"} => \A c \in reaper.todo : stamp[c] = "idle"

\* The last request put in a slot, 0 if that is the reaper's END or none.
Last(s) == IF queue[s] = <<>> THEN tenant[s] ELSE queue[s][Len(queue[s])].id

\* Nothing is left in a slot whose sequence has ended.
EmptyInv == \A s \in Slots : ready[s] # 0 \/ Releases(s) => queue[s] = <<>> /\ tenant[s] = 0

\* What the queue of a slot holds continues what the slot executed, request by
\* request, up to an END.
Chained(s) ==
    queue[s] # <<>> =>
        /\ queue[s][1] = ForceEnd \/ InSequence(queue[s][1], s)
        /\ \A k \in DOMAIN queue[s] : k # 1 =>
              ~queue[s][k - 1].end /\ (queue[s][k] = ForceEnd \/ Follows(queue[s][k], queue[s][k - 1]))

\* What is on its way to a slot will do so too.
Continues(r, s) == IF Last(s) = 0 THEN r.start ELSE r.prev = Last(s)

\* The last request in the slot of a sequence is its latest, or that is on its way.
UpToDate(c) ==
    slotOf[c] # None =>
        /\ latest[c] # 0
        /\ Last(slotOf[c]) = latest[c] \/ \E d \in delivering : d.request.cid = c

ChainInv ==
    /\ \A s \in Slots : Chained(s)
    /\ \A d \in delivering : Continues(d.request, d.slot)
    /\ \A c \in Correlations : UpToDate(c)

\* A slot with requests, or about to be released, counts as active; the threads
\* look at all active slots, and do not wait while there are requests.
ActiveInv ==
    /\ \A s \in Slots : queue[s] # <<>> => s \in active /\ pc[s[1]] # "wait"
    /\ \A s \in Slots : Releases(s) => s \in active
    /\ \A s \in active : s[2] <= maxActive[s[1]]

\* Where a request is.
InBacklog(i) == \E j \in DOMAIN backlog : \E k \in DOMAIN backlog[j] : backlog[j][k].id = i
InQueue(i) == \E s \in Slots : \E k \in DOMAIN queue[s] : queue[s][k].id = i
Arriving(i) == \E d \in delivering : d.request.id = i
InBatch(i) == \E b \in Batchers : i \in batch[b]

\* A request is nowhere twice.
OnceInBacklog(i) ==
    \A j, l \in DOMAIN backlog : \A k \in DOMAIN backlog[j], m \in DOMAIN backlog[l] :
        backlog[j][k].id = i /\ backlog[l][m].id = i => j = l /\ k = m
OnceInQueue(i) ==
    \A s, t \in Slots : \A k \in DOMAIN queue[s], m \in DOMAIN queue[t] :
        queue[s][k].id = i /\ queue[t][m].id = i => s = t /\ k = m
OnceArriving(i) == \A d, e \in delivering : d.request.id = i /\ e.request.id = i => d = e
OnceInBatch(i) == \A b, e \in Batchers : i \in batch[b] /\ i \in batch[e] => b = e

\* Nor is it in two kinds of places.
OnePlace(i) ==
    /\ InBacklog(i) => ~InQueue(i) /\ ~Arriving(i) /\ ~InBatch(i) /\ i \notin done
    /\ InQueue(i) => ~Arriving(i) /\ ~InBatch(i) /\ i \notin done
    /\ Arriving(i) => ~InBatch(i) /\ i \notin done
    /\ InBatch(i) => i \notin done

\* The requests enqueued are somewhere, and no others are.
Somewhere(i) == i <= issued <=> InBacklog(i) \/ InQueue(i) \/ Arriving(i) \/ InBatch(i) \/ i \in done

Placed(i) ==
    /\ OnceInBacklog(i) /\ OnceInQueue(i) /\ OnceArriving(i) /\ OnceInBatch(i)
    /\ OnePlace(i)
    /\ Somewhere(i)

PlaceInv == \A i \in 1..MaxRequests : Placed(i)

OrderInv == SerialInv /\ EmptyInv /\ ChainInv /\ ActiveInv /\ PlaceInv

IInv == BaseInv /\ (Orderly => OrderInv)
=============================================================================
