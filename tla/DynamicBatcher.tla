--------------------------- MODULE DynamicBatcher ---------------------------
(***************************************************************************)
(* DynamicBatchScheduler: the queue of a model's requests and the runner   *)
(* threads that form batches from it.                                      *)
(*                                                                         *)
(* Threads: callers of Enqueue, one runner thread per model instance, and  *)
(* the thread that destroys the scheduler.  mu_ guards the queue and the   *)
(* pending batch.  A critical section is one step, except GetDynamicBatch, *)
(* which examines one request per step with mu_ held throughout.           *)
(***************************************************************************)
EXTENDS Naturals, Sequences, FiniteSets

CONSTANTS
    Runners,       \* the scheduler threads
    Fallible,      \* the runners whose OnInit may fail
    Sizes,         \* batch sizes of requests
    Shapes,        \* the input shapes a request may have
    Modes,         \* how the scheduler may be set up: see mode
    Preferred,     \* preferred_batch_sizes_
    MaxPreferred,  \* max_preferred_batch_size_
    NeedShape,     \* need_pending_shape_
    Delay,         \* whether pending_batch_delay_ns_ is not zero
    MaxRequests,   \* bound: requests enqueued
    None           \* no shape

ASSUME RunnersAssumption == IsFiniteSet(Runners) /\ Fallible \subseteq Runners
ASSUME SizesAssumption == Sizes \subseteq Nat \ {0} /\ MaxPreferred \in Nat
ASSUME PreferredAssumption ==
    Preferred \subseteq 1..MaxPreferred /\ MaxPreferred \in Preferred \cup {0}
ASSUME FlagsAssumption ==
    NeedShape \in BOOLEAN /\ Delay \in BOOLEAN
ASSUME ModesAssumption == Modes \subseteq [dynamic : BOOLEAN, startDelay : Nat]
ASSUME BoundsAssumption == MaxRequests \in Nat

VARIABLES
    mode,       \* [dynamic, startDelay], given once at creation
    queue,      \* queue_
    pending,    \* pending_batch_size_, pending_batch_queue_cnt_, pending_batch_shapes_
    search,     \* the locals of GetDynamicBatch, while a runner is inside it
    aged,       \* whether the request at the front has been delayed long enough
    pc,         \* where each runner is
    batch,      \* the payloads each runner has taken from the queue
    delaying,   \* the runners whose delay_cnt is not zero
    notifying,  \* Enqueue calls that have left mu_ and have notify_one to call
    exit,       \* scheduler_threads_exit_
    issued,     \* requests enqueued so far
    done        \* requests whose completion function was called

batching == <<pending, search>>
threads == <<mode, delaying, notifying, exit>>
vars == <<queue, batching, aged, pc, batch, threads, issued, done>>

Dynamic == mode.dynamic        \* dynamic_batching_enabled_
StartDelay == mode.startDelay  \* TRTSERVER_DELAY_SCHEDULER
Delayed == Delay /\ Dynamic    \* pending_batch_delay_ns_ stays 0 without batching

\* `offset' is history: the batch sizes of the requests enqueued before this
\* one since the queue was last empty, added up.
Requests == [id : 1..MaxRequests, size : Sizes, shape : Shapes, offset : Nat]

\* Where a runner is: before OnInit, given up, at the test of the exit flag,
\* about to lock, in GetDynamicBatch, waiting with the default timeout or with
\* a timer set, out of the wait but without mu_, about to notify, running.
PCs == {"init", "failed", "test", "lock", "scan", "idle", "timer", "woken", "notify", "run", "exited"}

NoBatch == [size |-> 0, cnt |-> 0, shape |-> None]

Batches == [size : Nat, cnt : Nat, shape : Shapes \cup {None}]

NoSearch == [size |-> 0, cnt |-> 0, bestSize |-> 0, bestCnt |-> 0, sendNow |-> FALSE]

Searches == [size : Nat, cnt : Nat, bestSize : Nat, bestCnt : Nat, sendNow : BOOLEAN]

Scanning == {r \in Runners : pc[r] = "scan"}
Waiting == {r \in Runners : pc[r] \in {"idle", "timer"}}
Idle == Waiting \cup {r \in Runners : pc[r] = "woken"}  \* idle_scheduler_thread_cnt_

\* GetDynamicBatch is the one critical section that takes several steps.
Unlocked == Scanning = {}

Elements(s) == {s[i] : i \in DOMAIN s}
Ids(s) == {q.id : q \in Elements(s)}
Drop(s, n) == SubSeq(s, n + 1, Len(s))

Init ==
    /\ mode \in Modes
    /\ queue = <<>>
    /\ pending = NoBatch
    /\ search = NoSearch
    /\ aged = FALSE
    /\ pc = [r \in Runners |-> "init"]
    /\ batch = [r \in Runners |-> <<>>]
    /\ delaying = IF StartDelay > 0 THEN Runners ELSE {}
    /\ notifying = 0
    /\ exit = FALSE
    /\ issued = 0
    /\ done = {}

-----------------------------------------------------------------------------
(***************************************************************************)
(* Callers.                                                                *)
(***************************************************************************)
\* wake_runner: whether the call has a runner to notify.
Notifications == IF Idle # {} THEN 1 ELSE 0

\* The request enqueued next.
NewRequest(size, shape) ==
    [id |-> issued + 1, size |-> size, shape |-> shape,
     offset |-> IF queue = <<>> THEN 0 ELSE queue[Len(queue)].offset + queue[Len(queue)].size]

\* The critical section of Enqueue.
Enqueue(size, shape) ==
    /\ Unlocked
    /\ ~exit
    /\ issued < MaxRequests
    /\ queue' = Append(queue, NewRequest(size, shape))
    /\ issued' = issued + 1
    /\ notifying' = notifying + Notifications
    /\ UNCHANGED <<batching, aged, pc, batch, mode, delaying, exit, done>>

\* What notify_one may do to the pcs: wake one waiting runner, if there is one.
Woken(f) ==
    LET waiting == {r \in Runners : f[r] \in {"idle", "timer"}}
    IN  IF waiting = {} THEN {f} ELSE {[f EXCEPT ![r] = "woken"] : r \in waiting}

\* The notify_one of Enqueue, outside of the lock.
Notify ==
    /\ notifying > 0
    /\ notifying' = notifying - 1
    /\ pc' \in Woken(pc)
    /\ UNCHANGED <<queue, batching, aged, batch, mode, delaying, exit, issued, done>>

\* Time passes: the request at the front has waited for max_queue_delay, but for
\* a fraction of a microsecond.
Age ==
    /\ Delayed
    /\ queue # <<>>
    /\ ~aged
    /\ aged' = TRUE
    /\ UNCHANGED <<queue, batching, pc, batch, threads, issued, done>>

-----------------------------------------------------------------------------
(***************************************************************************)
(* SchedulerThread.                                                        *)
(***************************************************************************)
\* OnInit; a runner whose initialization fails is gone for good.
StartRunner(r) ==
    /\ pc[r] = "init"
    /\ \E to \in IF r \in Fallible THEN {"test", "failed"} ELSE {"test"} : pc' = [pc EXCEPT ![r] = to]
    /\ UNCHANGED <<queue, batching, aged, batch, threads, issued, done>>

\* The test of the exit flag at the top of the runner loop, without the lock.
TestExit(r) ==
    /\ pc[r] = "test"
    /\ pc' = [pc EXCEPT ![r] = IF exit THEN "exited" ELSE "lock"]
    /\ UNCHANGED <<queue, batching, aged, batch, threads, issued, done>>

\* A runner held back for debugging polls until the queue is long enough.
DelayStart(r) ==
    /\ pc[r] = "lock" /\ Unlocked
    /\ r \in delaying
    /\ delaying' = IF Len(queue) >= StartDelay THEN delaying \ {r} ELSE delaying
    /\ pc' = [pc EXCEPT ![r] = "timer"]
    /\ UNCHANGED <<queue, batching, aged, batch, mode, notifying, exit, issued, done>>

\* Nothing is queued: wait for notification or the default timeout.
WaitForWork(r) ==
    /\ pc[r] = "lock" /\ Unlocked
    /\ r \notin delaying
    /\ queue = <<>>
    /\ pc' = [pc EXCEPT ![r] = "idle"]
    /\ UNCHANGED <<queue, batching, aged, batch, threads, issued, done>>

\* Mutant of WakesAnother: remaining requests are left to the running runner.
WakesNobody(rest) == FALSE

\* wake_thread: whether a dispatch that leaves rest in the queue notifies.
WakesAnother(rest) == Dynamic /\ rest # <<>> /\ Idle # {}

\* Mutant of Take: the last request of the batch stays in the queue.
TakeKeepsLast(r, n) ==
    LET rest == Drop(queue, n - 1)
    IN  /\ queue' = rest
        /\ batch' = [batch EXCEPT ![r] = SubSeq(queue, 1, n)]
        /\ pc' = [pc EXCEPT ![r] = IF WakesAnother(rest) THEN "notify" ELSE "run"]
        /\ aged' \in IF Delayed /\ rest # <<>> THEN BOOLEAN ELSE {FALSE}

\* Runner r takes the first n requests of the queue.
Take(r, n) ==
    LET rest == Drop(queue, n)
    IN  /\ queue' = rest
        /\ batch' = [batch EXCEPT ![r] = SubSeq(queue, 1, n)]
        /\ pc' = [pc EXCEPT ![r] = IF WakesAnother(rest) THEN "notify" ELSE "run"]
        /\ aged' \in IF Delayed /\ rest # <<>> THEN BOOLEAN ELSE {FALSE}

\* No batching: the next request is executed by itself.
TakeOne(r) ==
    /\ pc[r] = "lock" /\ Unlocked
    /\ r \notin delaying
    /\ queue # <<>>
    /\ ~Dynamic
    /\ Take(r, 1)
    /\ UNCHANGED <<batching, threads, issued, done>>

\* GetDynamicBatch starts where the pending batch ended.
StartSearch(r) ==
    /\ pc[r] = "lock" /\ Unlocked
    /\ r \notin delaying
    /\ queue # <<>>
    /\ Dynamic
    /\ pc' = [pc EXCEPT ![r] = "scan"]
    /\ search' = [NoSearch EXCEPT !.size = pending.size, !.cnt = pending.cnt]
    /\ UNCHANGED <<queue, pending, aged, batch, threads, issued, done>>

Examined == queue[search.cnt + 1]

\* Mutant of Blocks: a batch may grow beyond the largest preferred size.
BlocksOnShape == search.cnt > 0 /\ NeedShape /\ Examined.shape # pending.shape

\* The request examined cannot join the batch.
Blocks ==
    /\ search.cnt > 0
    /\ \/ search.size + Examined.size > MaxPreferred
       \/ NeedShape /\ Examined.shape # pending.shape

\* The loop of GetDynamicBatch: the next request joins the batch.
Join(r) ==
    /\ pc[r] = "scan"
    /\ ~search.sendNow
    /\ search.cnt < Len(queue)
    /\ ~Blocks
    /\ LET size == search.size + Examined.size
           cnt == search.cnt + 1
       IN  search' = IF size \in Preferred
                     THEN [search EXCEPT !.size = size, !.cnt = cnt, !.bestSize = size, !.bestCnt = cnt]
                     ELSE [search EXCEPT !.size = size, !.cnt = cnt]
    /\ pending' = IF search.cnt = 0 /\ NeedShape THEN [pending EXCEPT !.shape = Examined.shape] ELSE pending
    /\ UNCHANGED <<queue, aged, pc, batch, threads, issued, done>>

\* The loop of GetDynamicBatch: the next request ends the search.
Block(r) ==
    /\ pc[r] = "scan"
    /\ ~search.sendNow
    /\ search.cnt < Len(queue)
    /\ Blocks
    /\ search' = [search EXCEPT !.sendNow = TRUE]
    /\ UNCHANGED <<queue, pending, aged, pc, batch, threads, issued, done>>

Searched(r) == pc[r] = "scan" /\ (search.sendNow \/ search.cnt = Len(queue))

\* Whether the pending batch is to be executed though its size is not preferred.
Sendable == search.cnt = 0 \/ search.sendNow \/ ~Delay \/ search.size >= MaxPreferred \/ aged

\* Mutant of Forget: the size of the pending batch survives its dispatch.
ForgetAllButSize == [NoBatch EXCEPT !.size = pending.size]

\* The pending batch after a dispatch.
Forget == NoBatch

\* The largest preferred size found is executed at once.
SendPreferred(r) ==
    /\ Searched(r)
    /\ search.bestSize # 0
    /\ Take(r, search.bestCnt)
    /\ pending' = Forget
    /\ search' = NoSearch
    /\ UNCHANGED <<threads, issued, done>>

\* No preferred size, and no reason to wait any longer.
SendPending(r) ==
    /\ Searched(r)
    /\ search.bestSize = 0
    /\ Sendable
    /\ Take(r, search.cnt)
    /\ pending' = Forget
    /\ search' = NoSearch
    /\ UNCHANGED <<threads, issued, done>>

\* Mutant of Postpone: the runner waits with the default timeout.
PostponeIdly(r) ==
    /\ Searched(r)
    /\ search.bestSize = 0
    /\ ~Sendable
    /\ pending' = [pending EXCEPT !.size = search.size, !.cnt = search.cnt]
    /\ search' = NoSearch
    /\ pc' = [pc EXCEPT ![r] = "idle"]
    /\ UNCHANGED <<queue, aged, batch, threads, issued, done>>

\* No preferred size: wait for more requests until the oldest has been delayed enough.
Postpone(r) ==
    /\ Searched(r)
    /\ search.bestSize = 0
    /\ ~Sendable
    /\ pending' = [pending EXCEPT !.size = search.size, !.cnt = search.cnt]
    /\ search' = NoSearch
    /\ pc' = [pc EXCEPT ![r] = "timer"]
    /\ UNCHANGED <<queue, aged, batch, threads, issued, done>>

\* cv_.wait_for returns by timeout, or spuriously.
WakeUp(r) ==
    /\ r \in Waiting
    /\ pc' = [pc EXCEPT ![r] = "woken"]
    /\ UNCHANGED <<queue, batching, aged, batch, threads, issued, done>>

\* Mutant of Resume: the queue is looked at again without testing the exit flag.
ResumeLocks(r) ==
    /\ pc[r] = "woken" /\ Unlocked
    /\ pc' = [pc EXCEPT ![r] = "lock"]
    /\ UNCHANGED <<queue, batching, aged, batch, threads, issued, done>>

\* The woken runner gets mu_ back, and gives it up.
Resume(r) ==
    /\ pc[r] = "woken" /\ Unlocked
    /\ pc' = [pc EXCEPT ![r] = "test"]
    /\ UNCHANGED <<queue, batching, aged, batch, threads, issued, done>>

\* The notify_one after a dispatch that left requests in the queue.
NotifyAnother(r) ==
    /\ pc[r] = "notify"
    /\ pc' \in Woken([pc EXCEPT ![r] = "run"])
    /\ UNCHANGED <<queue, batching, aged, batch, threads, issued, done>>

\* OnSchedule_ executes the payloads and calls OnCompleteQueuedPayloads.
Run(r) ==
    /\ pc[r] = "run"
    /\ done' = done \cup Ids(batch[r])
    /\ batch' = [batch EXCEPT ![r] = <<>>]
    /\ pc' = [pc EXCEPT ![r] = "test"]
    /\ UNCHANGED <<queue, batching, aged, threads, issued>>

-----------------------------------------------------------------------------
(***************************************************************************)
(* Destruction.  A request's completion function holds a handle on the     *)
(* backend, as does the caller of Enqueue; the last of them to go has the  *)
(* release thread or the server destroy the scheduler.                     *)
(***************************************************************************)
Destroy ==
    /\ ~exit
    /\ Unlocked
    /\ queue = <<>> /\ notifying = 0
    /\ \A r \in Runners : batch[r] = <<>>
    /\ exit' = TRUE
    /\ pc' = [r \in Runners |-> IF r \in Waiting THEN "woken" ELSE pc[r]]
    /\ UNCHANGED <<queue, batching, aged, batch, mode, delaying, notifying, issued, done>>

Stopped(r) == pc[r] \in {"failed", "exited"}

\* No runner is left.
Gone == (\A r \in Runners : Stopped(r)) /\ UNCHANGED vars

\* What a runner does by itself, its waits apart.
Step(r) ==
    \/ StartRunner(r) \/ TestExit(r)
    \/ DelayStart(r) \/ WaitForWork(r) \/ TakeOne(r)
    \/ StartSearch(r) \/ Join(r) \/ Block(r)
    \/ SendPreferred(r) \/ SendPending(r) \/ Postpone(r)
    \/ Resume(r) \/ NotifyAnother(r) \/ Run(r)

Next ==
    \/ \E size \in Sizes, shape \in Shapes : Enqueue(size, shape)
    \/ Notify
    \/ Age
    \/ \E r \in Runners : Step(r) \/ WakeUp(r)
    \/ Destroy
    \/ Gone

Spec == Init /\ [][Next]_vars

\* A waiting runner is sure to go on only when it is notified, or when the
\* timer it set for the pending batch fires: nothing waits for the default
\* timeout of half a second.
Prompt ==
    /\ WF_vars(Notify) /\ WF_vars(Age)
    /\ \A r \in Runners : WF_vars(Step(r)) /\ WF_vars(pc[r] = "timer" /\ WakeUp(r))

PromptSpec == Spec /\ Prompt

\* Waits end at the latest when their timeout is reached.
WaitsEnd == \A r \in Runners : WF_vars(WakeUp(r))

-----------------------------------------------------------------------------
(***************************************************************************)
(* Properties.                                                             *)
(***************************************************************************)
\* Every variable has its type.
TypeOK ==
    /\ mode \in Modes
    /\ queue \in Seq(Requests)
    /\ pending \in Batches
    /\ search \in Searches
    /\ aged \in BOOLEAN
    /\ pc \in [Runners -> PCs]
    /\ batch \in [Runners -> Seq(Requests)]
    /\ delaying \subseteq Runners
    /\ notifying \in Nat
    /\ exit \in BOOLEAN
    /\ issued \in 0..MaxRequests
    /\ done \subseteq 1..MaxRequests

\* BatchService has no threads: it sees whether requests are batched, the
\* queue, the payloads of the runners and what is completed.
Service == INSTANCE BatchService WITH dynamic <- Dynamic, closed <- exit

\* Exactly once: every request enqueued is in the queue, in the payloads of one
\* runner, or completed, and in one of these places only, once.
OncePerRequest ==
    /\ Ids(queue) \cup (UNION {Ids(batch[r]) : r \in Runners}) \cup done = 1..issued
    /\ \A i, j \in DOMAIN queue : queue[i].id = queue[j].id => i = j
    /\ Ids(queue) \cap done = {}
    /\ \A r \in Runners :
          /\ \A i, j \in DOMAIN batch[r] : batch[r][i].id = batch[r][j].id => i = j
          /\ Ids(batch[r]) \cap (Ids(queue) \cup done) = {}
          /\ \A q \in Runners : q # r => Ids(batch[q]) \cap Ids(batch[r]) = {}

\* Whatever wakeups, timers and arrivals interleave, a batch is made of requests
\* that arrived one after the other, exceeds the largest preferred size only if
\* it is a single request, and mixes no shapes when inputs have variable size.
BatchFits ==
    \A r \in Runners :
        LET b == batch[r]
        IN  Len(b) > 1 =>
               /\ Dynamic
               /\ Service!SizeOf(b, 1, Len(b)) <= MaxPreferred
               /\ \A i \in 2..Len(b) : b[i].id = b[1].id + i - 1
               /\ NeedShape => \A i \in 2..Len(b) : b[i].shape = b[1].shape

\* No lost wakeup: requests queued while some runner waits have a notification
\* under way or a runner about to look at them, not counting the runners busy
\* executing; requests held back for a larger batch have one even when all are
\* busy (idle_scheduler_thread_cnt_, wake_runner and wake_thread).  Without
\* batching a runner that TRTSERVER_DELAY_SCHEDULER holds back may swallow
\* notifications.
Watchful == {r \in Runners : pc[r] \in {"test", "lock", "scan", "timer", "woken"}}

NoStrandedWork ==
    /\ (Dynamic \/ StartDelay = 0) /\ queue # <<>> /\ Waiting # {} =>
          notifying > 0 \/ Watchful # {} \/ \E r \in Runners : pc[r] = "notify"
    /\ pending.cnt > 0 => Watchful # {}

\* The incremental search, which resumes at the pending batch that an earlier
\* call left behind, decides as a search of the whole queue would.
DecidesAfresh(r) ==
    pc[r] = "scan" /\ pc'[r] # "scan" => batch'[r] = SubSeq(queue, 1, Service!Chosen)
FreshDecision == [][\A r \in Runners : DecidesAfresh(r)]_vars

\* The runners, their waits and notifications and the search implement the
\* service: every step is one of BatchService or is not seen from outside.
ImplementsService == Service!Spec

\* Every request is completed, and without any runner having to sit out the
\* default timeout, as long as one runner could be initialized.
Served == \A i \in 1..MaxRequests : issued >= i ~> i \in done

\* The scheduler's destructor returns, if waits end: all the threads it joins exit.
Exits == WaitsEnd => (exit ~> \A r \in Runners : Stopped(r))

-----------------------------------------------------------------------------
(***************************************************************************)
(* The inductive invariant behind the safety properties, in parts.         *)
(***************************************************************************)
\* The requests dispatched are the first ones; the queue holds the others, in
\* order, with consistent offsets.
Dispatched == issued - Len(queue)

QueueInv ==
    /\ Len(queue) <= issued
    /\ \A i \in 1..Len(queue) : queue[i].id = Dispatched + i
    /\ \A i \in 1..(Len(queue) - 1) : queue[i + 1].offset = queue[i].offset + queue[i].size
    /\ exit => queue = <<>>

\* The payloads of a runner, or nothing, are a batch made of requests dispatched
\* and not yet completed.
BatchOf(b) ==
    /\ \A i \in 1..Len(b) : b[i].id = b[1].id + (i - 1) /\ b[i].id <= Dispatched /\ b[i].id \notin done
    /\ Len(b) > 1 =>
          /\ Dynamic
          /\ Service!SizeOf(b, 1, Len(b)) <= MaxPreferred
          /\ NeedShape => \A i \in 1..Len(b) : b[i].shape = b[1].shape

BatchInv ==
    /\ \A r \in Runners : BatchOf(batch[r])
    /\ \A r \in Runners : pc[r] \notin {"notify", "run"} => batch[r] = <<>>
    /\ \A r, q \in Runners : r # q => Ids(batch[r]) \cap Ids(batch[q]) = {}
    /\ done \subseteq 1..Dispatched
    /\ \A i \in 1..Dispatched : i \in done \/ \E r \in Runners : i \in Ids(batch[r])

\* The first n requests of the queue make a batch of that size, and shape.
PrefixOf(n, size, shape) ==
    /\ n <= Len(queue)
    /\ n = 0 => size = 0
    /\ n > 0 => size = Service!SizeOf(queue, 1, n) /\ (NeedShape => shape = queue[1].shape)
    /\ Service!Fit(n)

NonePreferred(i, j) == \A m \in i..j : Service!SizeOf(queue, 1, m) \notin Preferred

\* The pending batch is a prefix of the queue, with no preferred size in it.
PendingInv ==
    /\ PrefixOf(pending.cnt, pending.size, pending.shape)
    /\ NonePreferred(1, pending.cnt)
    /\ ~Dynamic => pending.cnt = 0

\* The search holds mu_; it has found the last preferred size of its prefix,
\* and what blocks it.
SearchInv ==
    \A r \in Scanning :
        /\ Dynamic
        /\ \A q \in Scanning : q = r
        /\ queue # <<>>
        /\ PrefixOf(search.cnt, search.size, pending.shape)
        /\ search.bestSize = 0 => NonePreferred(1, search.cnt)
        /\ search.bestSize # 0 =>
              /\ search.bestCnt \in 1..search.cnt
              /\ Service!SizeOf(queue, 1, search.bestCnt) \in Preferred
              /\ NonePreferred(search.bestCnt + 1, search.cnt)
        /\ search.sendNow => 0 < search.cnt /\ search.cnt < Len(queue) /\ ~Service!Fit(search.cnt + 1)

\* Without batching, as many notifications and runners about to look are there
\* as requests, while some runner waits.
WakeInv ==
    /\ NoStrandedWork
    /\ ~Dynamic /\ StartDelay = 0 =>
          /\ delaying = {}
          /\ \A r \in Runners : pc[r] # "timer"
          /\ Waiting # {} => Len(queue) <= notifying + Cardinality(Watchful)

IInv == TypeOK /\ QueueInv /\ BatchInv /\ PendingInv /\ SearchInv /\ WakeInv
=============================================================================
