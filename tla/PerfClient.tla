----------------------------- MODULE PerfClient -----------------------------
(***************************************************************************)
(* The performance client and the inference contexts of the client         *)
(* library under it (src/clients/c++): the main thread that raises the     *)
(* number of concurrent requests and measures, the worker threads that     *)
(* keep that many requests in flight, and in every inference context the   *)
(* thread that moves requests to and from the server, over HTTP, over      *)
(* unary gRPC or over a gRPC stream.                                       *)
(*                                                                         *)
(* A setup is chosen at the start and says which of them is used, whether  *)
(* the model is a sequence model, the largest number of worker threads and *)
(* the levels to measure.  The server (external) answers every request     *)
(* sooner or later and may end a stream, on which it answers as executions *)
(* end: in no order, except that a sequence's requests are executed one    *)
(* after the other; one refused before it is executed overtakes others.    *)
(*                                                                         *)
(* A thread that found the condition of its condition variable false does  *)
(* not sleep yet: a notify that is sent without the mutex in between does  *)
(* not reach it.  "missed" records which of the notifications that ask a   *)
(* thread to leave this happened to: the last one its thread will get.     *)
(***************************************************************************)
EXTENDS Naturals, Sequences, FiniteSets, SequencesExt, FiniteSetsExt

CONSTANTS
  Setups,       \* records [transport, sequence, threads, first, last]
  MaxThreads,   \* no setup allows more worker threads
  Lengths,      \* the lengths a sequence may be given
  MaxPasses     \* max_measurement_count_

ASSUME PerfClientAssumption ==
  /\ \A s \in Setups : /\ s.transport \in {"http", "grpc", "stream"}
                       /\ s.sequence \in BOOLEAN
                       /\ s.threads \in Nat \ {0}
                       /\ s.first \in Nat \ {0} /\ s.last \in Nat
                       /\ s.threads <= MaxThreads
  /\ MaxThreads \in Nat
  /\ Lengths \subseteq Nat \ {0}
  /\ MaxPasses \in Nat \ {0}

Threads == 1..MaxThreads

VARIABLES
  setup,        \* how the program was called
  main,         \* main thread: pc, level being measured, index, passes made
  early_exit,   \* the global flag
  workers,      \* threads_, each with its locals
  share,        \* threads_concurrency_
  ctxs,         \* the inference contexts of every worker
  timestamps,   \* whether request_timestamps_ holds any
  missed        \* notifications to leave that found a thread not yet asleep

vars == <<setup, main, early_exit, workers, share, ctxs, timestamps, missed>>

Marks == {"none", "start", "middle", "end", "both"}

(* A request in ongoing_async_requests_, in the order of the identifiers.    *)
Request == [at: {"server", "answered", "ready"}, mark: Marks, refused: BOOLEAN]

NewContext ==
  [reqs |-> <<>>, working |-> FALSE, exiting |-> FALSE, closed |-> FALSE,
   client |-> IF setup.transport = "stream" THEN "reading" ELSE "off"]

Idle == [pc |-> "none", err |-> FALSE, num |-> 0, idx |-> 1, len |-> 1,
         nth |-> 1, keep |-> FALSE]

Init ==
  /\ setup \in Setups
  /\ main = [pc |-> "launch", level |-> setup.first, idx |-> 1, passes |-> 0]
  /\ early_exit = FALSE
  /\ workers = [t \in Threads |-> Idle]
  /\ share = [t \in Threads |-> 0]
  /\ ctxs = [t \in Threads |-> <<>>]
  /\ timestamps = FALSE
  /\ missed = {}

Launched == {t \in Threads : workers[t].pc # "none"}

-----------------------------------------------------------------------------
(* Main thread: Profile at every level, then the destructors.                *)

At(pc) == main' = [main EXCEPT !.pc = pc]

(* ChangeConcurrencyLevel: new threads first.                                *)
Launch ==
  /\ main.pc = "launch"
  /\ LET n == Cardinality(Launched)
     IN  IF main.level > n /\ n < setup.threads
         THEN /\ workers' = [workers EXCEPT ![n + 1].pc =
                               IF setup.sequence THEN "create" ELSE "prepare"]
              /\ UNCHANGED main
         ELSE main' = [main EXCEPT !.pc = "spread", !.idx = 1] /\ UNCHANGED workers
  /\ UNCHANGED <<setup, early_exit, share, ctxs, timestamps, missed>>

(* Its second half: each thread's share, written without wake_mutex_.        *)
Part(level, n, t) == (level \div n) + (IF t - 1 < level % n THEN 1 ELSE 0)

Spread ==
  /\ main.pc = "spread"
  /\ LET n == Cardinality(Launched)
     IN  IF main.idx > n THEN At("notify") /\ UNCHANGED share
         ELSE /\ share' = [share EXCEPT ![main.idx] = Part(main.level, n, main.idx)]
              /\ main' = [main EXCEPT !.idx = @ + 1]
  /\ UNCHANGED <<setup, early_exit, workers, ctxs, timestamps, missed>>

(* wake_signal_.notify_all(), without the mutex: a worker that dozes does    *)
(* not notice, and may then sleep while the level is measured.               *)
NotifyAll ==
  workers' = [t \in Threads |-> IF workers[t].pc = "asleep"
                THEN [workers[t] EXCEPT !.pc = "waiting"] ELSE workers[t]]

Notify ==
  /\ main.pc = "notify"
  /\ NotifyAll
  /\ main' = [main EXCEPT !.pc = "check", !.passes = 0]
  /\ UNCHANGED <<setup, early_exit, share, ctxs, timestamps, missed>>

CheckHealth ==
  /\ main.pc = "check"
  /\ At(IF \E t \in Threads : workers[t].err THEN "quit" ELSE "measure")
  /\ UNCHANGED <<setup, early_exit, workers, share, ctxs, timestamps, missed>>

(* Measure: a window passes, the timestamps are taken over; none recorded,   *)
(* or none that ended inside the window, or no status from the server, is an *)
(* error.  Then another pass, the report of this level, or the end.          *)
Measure ==
  /\ main.pc = "measure"
  /\ timestamps' = FALSE
  /\ \/ At("quit")
     \/ /\ timestamps
        /\ LET n == main.passes + 1
           IN  IF early_exit THEN At("quit")
               ELSE \/ n < MaxPasses /\ main' = [main EXCEPT !.pc = "check", !.passes = n]
                    \/ At("report")
  /\ UNCHANGED <<setup, early_exit, workers, share, ctxs, missed>>

(* The loop over the levels in main.                                         *)
Report ==
  /\ main.pc = "report"
  /\ \/ /\ main.level < setup.last
        /\ main' = [main EXCEPT !.pc = "launch", !.level = @ + 1]
     \/ At("quit")
  /\ UNCHANGED <<setup, early_exit, workers, share, ctxs, timestamps, missed>>

SignalHandler ==
  /\ ~early_exit /\ main.pc # "ended"
  /\ early_exit' = TRUE
  /\ UNCHANGED <<setup, main, workers, share, ctxs, timestamps, missed>>

(* ~ConcurrencyManager.                                                      *)
Quit ==
  /\ main.pc = "quit"
  /\ early_exit' = TRUE
  /\ At("wake")
  /\ UNCHANGED <<setup, workers, share, ctxs, timestamps, missed>>

WakeMutant ==
  /\ main.pc = "wake"
  /\ At("join")
  /\ UNCHANGED <<setup, early_exit, workers, share, ctxs, timestamps, missed>>

Wake ==
  /\ main.pc = "wake"
  /\ NotifyAll
  /\ missed' = IF \E t \in Threads : workers[t].pc = "dozing"
               THEN missed \cup {"worker"} ELSE missed
  /\ At("join")
  /\ UNCHANGED <<setup, early_exit, share, ctxs, timestamps>>

Join ==
  /\ main.pc = "join"
  /\ \A t \in Launched : workers[t].pc = "done"
  /\ At("ended")
  /\ UNCHANGED <<setup, early_exit, workers, share, ctxs, timestamps, missed>>

-----------------------------------------------------------------------------
(* Worker threads.                                                           *)

Go(t, pc) == workers' = [workers EXCEPT ![t].pc = pc]
Fail(t) == workers' = [workers EXCEPT ![t].pc = "leave", ![t].err = TRUE]
Inflight(t, c) == Len(ctxs[t][c].reqs)
MainAsIs == UNCHANGED <<setup, main, early_exit, share, missed>>

(* AsyncInfer: PrepareInfer, which asks the server for the model and fails   *)
(* if it cannot be had or does not fit.                                      *)
Prepare(t) ==
  /\ workers[t].pc = "prepare"
  /\ \/ ctxs' = [ctxs EXCEPT ![t] = <<NewContext>>] /\ Go(t, "top")
     \/ Fail(t) /\ UNCHANGED ctxs
  /\ MainAsIs /\ UNCHANGED timestamps

(* The head of the loop: only a worker without a share waits.                *)
Top(t) ==
  /\ workers[t].pc = "top"
  /\ Go(t, IF share[t] = 0 THEN "waiting" ELSE "send")
  /\ MainAsIs /\ UNCHANGED <<ctxs, timestamps>>

(* The predicate of wake_signal_.wait, evaluated under wake_mutex_.          *)
AfterWait(t) == IF setup.sequence THEN "bottom" ELSE "send"

Waiting(t) ==
  /\ workers[t].pc = "waiting"
  /\ Go(t, IF early_exit \/ share[t] > 0 THEN AfterWait(t) ELSE "dozing")
  /\ MainAsIs /\ UNCHANGED <<ctxs, timestamps>>

Doze(t) ==
  /\ workers[t].pc = "dozing"
  /\ Go(t, "asleep")
  /\ MainAsIs /\ UNCHANGED <<ctxs, timestamps>>

(* AsyncRun over HTTP: the request enters the table and libcurl under the    *)
(* mutex; the first call starts the transfer thread.                         *)
Sent(mark) == [at |-> "server", mark |-> mark, refused |-> FALSE]
Rouse(client) == IF client \in {"off", "asleep"} THEN "awake" ELSE client

HttpAsyncRun(t, c, mark) ==
  /\ ctxs[t][c].client # "decided"
  /\ ctxs' = [ctxs EXCEPT ![t][c].reqs = Append(@, Sent(mark)),
                          ![t][c].client = Rouse(@)]

(* Over gRPC: entered under the mutex, the call started after it.            *)
GrpcAsyncRun(t, c, mark) ==
  /\ ctxs[t][c].client # "decided"
  /\ ctxs' = [ctxs EXCEPT ![t][c].reqs = Append(@, Sent(mark)),
                          ![t][c].client = Rouse(@)]

(* Over a stream: an entry whose write fails stays in the table.             *)
StreamAsyncRun(t, c, mark) ==
  ctxs' = [ctxs EXCEPT ![t][c].reqs = Append(@, Sent(mark))]

AsyncRun(t, c, mark) ==
  \/ setup.transport = "http" /\ HttpAsyncRun(t, c, mark)
  \/ setup.transport = "grpc" /\ GrpcAsyncRun(t, c, mark)
  \/ setup.transport = "stream" /\ StreamAsyncRun(t, c, mark)

AsyncRunFails(t, c) == setup.transport = "stream" /\ ctxs[t][c].closed

Send(t) ==
  /\ workers[t].pc = "send"
  /\ AsyncRun(t, 1, "none")
  /\ IF AsyncRunFails(t, 1) THEN Fail(t) ELSE Go(t, "collect")
  /\ MainAsIs /\ UNCHANGED timestamps

(* GetReadyAsyncRequest and IsRequestReady: HTTP keeps the requests in the   *)
(* order of their handles, which is no order; gRPC by identifier.            *)
Ready(t, c) ==
  LET ready == {i \in 1..Inflight(t, c) : ctxs[t][c].reqs[i].at = "ready"}
  IN  IF ready = {} \/ setup.transport = "http" THEN ready ELSE {Min(ready)}

CollectMutant(t) ==
  /\ workers[t].pc = "collect"
  /\ Go(t, IF Inflight(t, 1) > share[t] THEN "full"
           ELSE IF Ready(t, 1) # {} THEN "drain" ELSE "bottom")
  /\ MainAsIs /\ UNCHANGED <<ctxs, timestamps>>

(* The first call after a send waits if the worker has its share in flight:  *)
(* the share is read now, and not again while it waits.                      *)
Collect(t) ==
  /\ workers[t].pc = "collect"
  /\ Go(t, IF Inflight(t, 1) >= share[t] THEN "full"
           ELSE IF Ready(t, 1) # {} THEN "drain" ELSE "bottom")
  /\ MainAsIs /\ UNCHANGED <<ctxs, timestamps>>

Full(t) ==
  /\ workers[t].pc = "full"
  /\ Ready(t, 1) # {}
  /\ Go(t, "drain")
  /\ MainAsIs /\ UNCHANGED <<ctxs, timestamps>>

RetireMutant(t, c, i, go) ==
  \/ /\ ctxs' = [ctxs EXCEPT ![t][c].reqs = RemoveAt(@, i)]
     /\ Fail(t) /\ UNCHANGED timestamps
  \/ /\ ~ctxs[t][c].reqs[i].refused
     /\ ctxs' = [ctxs EXCEPT ![t][c].reqs = RemoveAt(@, i), ![t][c].working = FALSE]
     /\ timestamps' = TRUE /\ workers' = go

(* GetAsyncRunResults of a ready request, which the server or the transport  *)
(* may have failed, and what the worker records of one that succeeded.       *)
Retire(t, c, i, go) ==
  \/ /\ ctxs' = [ctxs EXCEPT ![t][c].reqs = RemoveAt(@, i)]
     /\ Fail(t) /\ UNCHANGED timestamps
  \/ /\ ~ctxs[t][c].reqs[i].refused
     /\ ctxs' = [ctxs EXCEPT
          ![t][c].reqs = RemoveAt(@, i),
          ![t][c].working = @ /\ ctxs[t][c].reqs[i].mark \notin {"end", "both"}]
     /\ timestamps' = TRUE /\ workers' = go

Drain(t) ==
  /\ workers[t].pc = "drain"
  /\ \/ /\ Ready(t, 1) = {}
        /\ Go(t, "bottom") /\ UNCHANGED <<ctxs, timestamps>>
     \/ \E i \in Ready(t, 1) : Retire(t, 1, i, workers)
  /\ MainAsIs

Bottom(t) ==
  /\ workers[t].pc = "bottom"
  /\ Go(t, IF early_exit THEN "leave" ELSE IF setup.sequence THEN "create" ELSE "top")
  /\ MainAsIs /\ UNCHANGED <<ctxs, timestamps>>

(* AsyncSequenceInfer: a context for every sequence of the share, read once  *)
(* per iteration, and the length of the sequences this iteration starts.     *)
Create(t) ==
  /\ workers[t].pc = "create"
  /\ \E len \in Lengths :
       workers' = [workers EXCEPT ![t].pc = "grow", ![t].num = share[t], ![t].len = len,
                                  ![t].idx = 1, ![t].nth = 1]
  /\ MainAsIs /\ UNCHANGED <<ctxs, timestamps>>

Grow(t) ==
  /\ workers[t].pc = "grow"
  /\ IF workers[t].num <= Len(ctxs[t]) THEN Go(t, "sequence") /\ UNCHANGED ctxs
     ELSE \/ ctxs' = [ctxs EXCEPT ![t] = Append(@, NewContext)] /\ UNCHANGED workers
          \/ Fail(t) /\ UNCHANGED ctxs
  /\ MainAsIs /\ UNCHANGED timestamps

(* The sequences of the contexts that have none, request after request.      *)
MarkOf(nth, len) ==
  IF len = 1 THEN "both" ELSE IF nth = 1 THEN "start"
  ELSE IF nth = len THEN "end" ELSE "middle"

SendSequence(t) ==
  LET w == workers[t]  c == w.idx
  IN  /\ w.pc = "sequence"
      /\ IF c > w.num
         THEN /\ workers' = [workers EXCEPT ![t].pc = "poll", ![t].idx = 1, ![t].keep = FALSE]
              /\ UNCHANGED ctxs
         ELSE IF ctxs[t][c].working /\ w.nth = 1
         THEN workers' = [workers EXCEPT ![t].idx = @ + 1] /\ UNCHANGED ctxs
         ELSE IF w.nth > w.len
         THEN /\ ctxs' = [ctxs EXCEPT ![t][c].working = TRUE]
              /\ workers' = [workers EXCEPT ![t].idx = @ + 1, ![t].nth = 1]
         ELSE /\ AsyncRun(t, c, MarkOf(w.nth, w.len))
              /\ IF AsyncRunFails(t, c) THEN Fail(t)
                 ELSE workers' = [workers EXCEPT ![t].nth = @ + 1]
      /\ MainAsIs /\ UNCHANGED timestamps

(* One turn of the polling loop, which goes on while a turn found a ready    *)
(* request; then the wait of a worker without a share.                       *)
Poll(t) ==
  LET w == workers[t]  c == w.idx
      next == [workers EXCEPT ![t].idx = @ + 1]
  IN  /\ w.pc = "poll"
      /\ IF c > Len(ctxs[t])
         THEN /\ workers' = [workers EXCEPT ![t].idx = 1, ![t].keep = FALSE,
                     ![t].pc = IF w.keep THEN "poll"
                               ELSE IF share[t] = 0 THEN "waiting" ELSE "bottom"]
              /\ UNCHANGED <<ctxs, timestamps>>
         ELSE IF ~ctxs[t][c].working \/ Ready(t, c) = {}
         THEN workers' = next /\ UNCHANGED <<ctxs, timestamps>>
         ELSE \E i \in Ready(t, c) : Retire(t, c, i, [next EXCEPT ![t].keep = TRUE])
      /\ MainAsIs

(* A worker that returns destroys its contexts, one after the other: the     *)
(* flag and the notify without the mutex (HTTP and gRPC), WritesDone         *)
(* (stream), and the join.                                                   *)
Destroy(t) ==
  /\ workers[t].pc = "leave"
  /\ IF ctxs[t] = <<>> THEN Go(t, "done") /\ UNCHANGED <<ctxs, missed>>
     ELSE LET c == Head(ctxs[t])
          IN  /\ Go(t, "joining")
              /\ ctxs' = [ctxs EXCEPT ![t][1].exiting = TRUE,
                            ![t][1].client = IF c.client = "asleep" THEN "awake" ELSE @]
              /\ missed' = IF c.client = "decided" THEN missed \cup {"client"} ELSE missed
  /\ UNCHANGED <<setup, main, early_exit, share, timestamps>>

(* The gRPC destructor also drains the completion queue.                     *)
Drained(c) == setup.transport = "grpc" =>
                \A i \in DOMAIN c.reqs : c.reqs[i].at # "server"

Destroyed(t) ==
  /\ workers[t].pc = "joining"
  /\ Head(ctxs[t]).client \in {"off", "ended"} /\ Drained(Head(ctxs[t]))
  /\ ctxs' = [ctxs EXCEPT ![t] = Tail(@)]
  /\ Go(t, "leave")
  /\ MainAsIs /\ UNCHANGED timestamps

-----------------------------------------------------------------------------
(* The transfer threads of the contexts.                                     *)

Unready(c) == \E i \in DOMAIN c.reqs : c.reqs[i].at # "ready"
Answered(c) == {i \in DOMAIN c.reqs : c.reqs[i].at = "answered"}
Client(t, c, pc) == ctxs' = [ctxs EXCEPT ![t][c].client = pc]
OthersAsIs == UNCHANGED <<setup, main, early_exit, workers, share, timestamps, missed>>

(* The predicate of the transfer threads, evaluated under the mutex.         *)
ClientWait(t, c) ==
  LET x == ctxs[t][c]
  IN  /\ x.client = "awake" /\ ~x.exiting /\ ~Unready(x)
      /\ Client(t, c, "decided")
      /\ OthersAsIs

ClientSleep(t, c) ==
  /\ ctxs[t][c].client = "decided"
  /\ Client(t, c, "asleep")
  /\ OthersAsIs

(* InferHttpContextImpl::AsyncTransfer: everything that has been answered is *)
(* ready after one curl_multi_perform, under the mutex.                      *)
HttpAsyncTransfer(t, c) ==
  LET x == ctxs[t][c]
  IN  /\ setup.transport = "http" /\ x.client = "awake"
      /\ x.exiting \/ Answered(x) # {}
      /\ ctxs' = [ctxs EXCEPT
           ![t][c].reqs = [i \in DOMAIN x.reqs |-> IF i \in Answered(x)
                             THEN [x.reqs[i] EXCEPT !.at = "ready"] ELSE x.reqs[i]],
           ![t][c].client = IF x.exiting THEN "ended" ELSE "awake"]
      /\ OthersAsIs

(* InferGrpcContextImpl::AsyncTransfer: it looks at the flag, then waits in  *)
(* Next for a completion, whatever happens to the flag meanwhile.            *)
GrpcNext(t, c) ==
  LET x == ctxs[t][c]
  IN  /\ setup.transport = "grpc" /\ x.client = "awake"
      /\ x.exiting \/ Unready(x)
      /\ Client(t, c, IF x.exiting THEN "ended" ELSE "polling")
      /\ OthersAsIs

GrpcAsyncTransfer(t, c) ==
  LET x == ctxs[t][c]
  IN  /\ setup.transport = "grpc" /\ x.client = "polling"
      /\ \E i \in Answered(x) :
           ctxs' = [ctxs EXCEPT ![t][c].reqs[i].at = "ready",
                      ![t][c].client = IF x.exiting THEN "ended" ELSE "awake"]
      /\ OthersAsIs

(* A stream on which the requests of one sequence are answered in order.     *)
Ordered == setup.transport = "stream" /\ setup.sequence

(* InferGrpcStreamContextImpl::AsyncTransfer: it reads, in the order they    *)
(* were written, until the stream has ended, and drops what it reads once    *)
(* the context is exiting.                                                   *)
StreamAsyncTransfer(t, c) ==
  LET x == ctxs[t][c]
  IN  /\ x.client = "reading"
      /\ IF Answered(x) # {}
         THEN \E i \in Answered(x) :
                /\ Ordered => x.reqs[i].refused \/ i = Min(Answered(x))
                /\ ctxs' = [ctxs EXCEPT ![t][c].reqs =
                     IF x.exiting THEN RemoveAt(@, i) ELSE [@ EXCEPT ![i].at = "ready"]]
         ELSE /\ x.closed \/ (x.exiting /\ ~\E i \in DOMAIN x.reqs : x.reqs[i].at = "server")
              /\ Client(t, c, "ended")
      /\ OthersAsIs

(* The server answers: the requests of a sequence in order, those it refuses *)
(* before they reach the sequence's slot as soon as it has read them.        *)
Answer(t, c) ==
  LET x == ctxs[t][c]
      waiting == {i \in DOMAIN x.reqs : x.reqs[i].at = "server"}
  IN  /\ ~x.closed
      /\ \E i \in waiting, refused \in IF Ordered THEN BOOLEAN ELSE {FALSE} :
           /\ Ordered => refused \/ i = Min(waiting)
           /\ ctxs' = [ctxs EXCEPT ![t][c].reqs[i] =
                         [@ EXCEPT !.at = "answered", !.refused = refused]]
      /\ OthersAsIs

StreamEnds(t, c) ==
  /\ ctxs[t][c].client = "reading" /\ ~ctxs[t][c].closed
  /\ ctxs' = [ctxs EXCEPT ![t][c].closed = TRUE]
  /\ OthersAsIs

-----------------------------------------------------------------------------
MainStep == \/ Launch \/ Spread \/ Notify \/ CheckHealth \/ Measure \/ Report
            \/ Quit \/ Wake \/ Join

WorkerStep(t) ==
  \/ Prepare(t) \/ Top(t) \/ Waiting(t) \/ Doze(t) \/ Send(t) \/ Collect(t) \/ Full(t)
  \/ Drain(t) \/ Bottom(t) \/ Create(t) \/ Grow(t) \/ SendSequence(t) \/ Poll(t)
  \/ Destroy(t) \/ Destroyed(t)

ClientStep(t, c) ==
  \/ ClientWait(t, c) \/ ClientSleep(t, c) \/ HttpAsyncTransfer(t, c) \/ GrpcNext(t, c)
  \/ GrpcAsyncTransfer(t, c) \/ StreamAsyncTransfer(t, c)

Contexts(t) == 1..Len(ctxs[t])

(* The program, or a thread whose wake-up got lost, may stay as it is.       *)
Stopped == main.pc = "ended" /\ UNCHANGED vars

Next ==
  \/ MainStep \/ SignalHandler \/ Stopped
  \/ \E t \in Threads :
       \/ WorkerStep(t)
       \/ \E c \in Contexts(t) : ClientStep(t, c) \/ Answer(t, c) \/ StreamEnds(t, c)

(* Every thread is scheduled, and the server answers while a stream lasts.   *)
SomeClientStep(t, c) == c \in Contexts(t) /\ ClientStep(t, c)
SomeAnswer(t, c) == c \in Contexts(t) /\ Answer(t, c)
Slots == 1..Max({s.last : s \in Setups})

Fairness ==
  /\ WF_vars(MainStep)
  /\ \A t \in Threads :
       /\ WF_vars(WorkerStep(t))
       /\ \A c \in Slots : WF_vars(SomeClientStep(t, c)) /\ WF_vars(SomeAnswer(t, c))

Spec == Init /\ [][Next]_vars
FairSpec == Spec /\ Fairness

-----------------------------------------------------------------------------
(* Properties.                                                               *)

(* The load the client puts on the server never exceeds the level it         *)
(* reports, whatever share a worker read before the shares were changed:     *)
(* requests in flight, or sequences for a sequence model, over all workers.  *)
Weight(t, c) ==
  IF ~setup.sequence THEN Inflight(t, c) ELSE IF Inflight(t, c) > 0 THEN 1 ELSE 0

Load ==
  UNION {UNION {{<<t, c, k>> : k \in 1..Weight(t, c)} : c \in Contexts(t)} : t \in Threads}

LoadBounded == Cardinality(Load) <= main.level

(* Over a stream a context never starts a sequence while requests of the     *)
(* one before are still in flight: both have the same correlation            *)
(* identifier, and the server would take them for one sequence.  A request   *)
(* that is refused may be collected before those it follows: the worker then *)
(* leaves.                                                                   *)
SequencesApart ==
  setup.transport = "stream" =>
    \A t \in Threads : \A c \in Contexts(t) :
      LET reqs == ctxs[t][c].reqs
      IN  \A i \in 1..(Len(reqs) - 1) : /\ reqs[i].mark \notin {"end", "both"}
                                       /\ reqs[i + 1].mark \notin {"start", "both"}

(* The client leaves: once the exit flag is raised every worker and every    *)
(* transfer thread ends and main returns, unless the notification to leave   *)
(* found a thread that had not yet gone to sleep, or the server ended a      *)
(* stream on which a worker waits for a response.  A worker that slept       *)
(* through the change of its share leaves with the others.                   *)
StreamLost == \E t \in Threads : \E c \in Contexts(t) : ctxs[t][c].closed

Leaves == early_exit ~> (main.pc = "ended" \/ missed # {} \/ StreamLost)
-----------------------------------------------------------------------------
(* The inductive invariant behind SequencesApart.                            *)

WorkerPcs ==
  {"none", "prepare", "top", "send", "collect", "full", "drain", "create", "grow",
   "sequence", "poll", "waiting", "dozing", "asleep", "bottom", "leave", "joining", "done"}

Worker == [pc: WorkerPcs, err: BOOLEAN, num: Nat, idx: Nat \ {0}, len: Nat \ {0},
           nth: Nat \ {0}, keep: BOOLEAN]

Context == [reqs: Seq(Request), working: BOOLEAN, exiting: BOOLEAN, closed: BOOLEAN,
            client: {"off", "reading", "awake", "decided", "asleep", "polling", "ended"}]

TypeOK ==
  /\ setup \in Setups
  /\ main \in [pc: {"launch", "spread", "notify", "check", "measure", "report", "quit",
                    "wake", "join", "ended"},
               level: Nat, idx: Nat \ {0}, passes: Nat]
  /\ early_exit \in BOOLEAN
  /\ workers \in [Threads -> Worker]
  /\ share \in [Threads -> Nat]
  /\ ctxs \in [Threads -> Seq(Context)]
  /\ timestamps \in BOOLEAN
  /\ missed \subseteq {"worker", "client"}

(* A worker runs one of the two loops, with the contexts it is going to use. *)
Leaving(worker) == worker.pc \in {"leave", "joining", "done"}

LoopInv(worker, contexts) ==
  /\ IF setup.sequence
     THEN /\ worker.pc \notin {"prepare", "top", "send", "collect", "full", "drain"}
          /\ worker.pc = "grow" => worker.nth = 1
          /\ worker.pc = "sequence" =>
                /\ worker.num <= Len(contexts)
                /\ worker.nth > 1 => worker.idx <= worker.num
     ELSE /\ worker.pc \notin {"create", "grow", "sequence", "poll"}
          /\ worker.pc \notin {"none", "prepare", "leave", "done"} => contexts # <<>>
  /\ worker.pc = "joining" => contexts # <<>>

(* The requests of a sequence that are not refused are answered in order,    *)
(* and the answers are read in order.                                        *)
InOrder(reqs) ==
  setup.sequence =>
    \A i, j \in DOMAIN reqs : i < j /\ ~reqs[j].refused =>
      /\ reqs[j].at = "ready" => reqs[i].at = "ready"
      /\ reqs[i].at = "server" => reqs[j].at = "server"

IsFirst(request) == request.mark \in {"start", "both"}
IsLast(request) == request.mark \in {"end", "both"}
Apart(reqs) == \A i \in 1..(Len(reqs) - 1) : ~IsLast(reqs[i]) /\ ~IsFirst(reqs[i + 1])
Unended(reqs) == \A i \in DOMAIN reqs : ~IsLast(reqs[i])
Ended(reqs) == reqs # <<>> /\ IsLast(reqs[Len(reqs)])

(* Until its worker leaves a context of a sequence model has the requests of *)
(* the sequence being sent, the rest of one whose end was sent, or none.     *)
Sending(worker, c) == worker.pc = "sequence" /\ worker.idx = c /\ worker.nth > 1

HoldsSequence(context, worker, c) ==
  IF Sending(worker, c)
  THEN /\ ~context.working
       /\ worker.nth <= worker.len => Unended(context.reqs)
       /\ worker.nth > worker.len => Ended(context.reqs)
  ELSE IF context.working THEN Ended(context.reqs) ELSE context.reqs = <<>>

ContextInv(context, worker, c) ==
  /\ InOrder(context.reqs)
  /\ Apart(context.reqs)
  /\ ~setup.sequence => Unended(context.reqs)
  /\ ~Leaving(worker) =>
        ~context.exiting /\ (setup.sequence => HoldsSequence(context, worker, c))

StreamInv(worker, contexts) ==
  setup.transport = "stream" =>
    \A c \in 1..Len(contexts) : ContextInv(contexts[c], worker, c)

(* Threads are launched one after the other.                                 *)
LaunchInv == \A t \in Launched : \A u \in 1..t : u \in Launched

IInv ==
  /\ TypeOK
  /\ LaunchInv
  /\ \A t \in Threads : /\ LoopInv(workers[t], ctxs[t])
                        /\ StreamInv(workers[t], ctxs[t])
-----------------------------------------------------------------------------
(* The inductive invariant behind LoadBounded.                               *)

(* The requests of a level are dealt out to its threads in turn: the m-th of *)
(* thread t is request t + (m - 1) * Target of the level.                    *)
Target == IF main.level < setup.threads THEN main.level ELSE setup.threads
Granted(t, m) == m > 0 => t <= Target /\ t + (m - 1) * Target <= main.level

(* A worker at these places may send one request more; one that drains has   *)
(* less than its share in flight, or a ready request to take first.          *)
Spare == {"top", "send", "bottom", "waiting", "dozing", "asleep"}
HasReady(reqs) == \E i \in DOMAIN reqs : reqs[i].at = "ready"

RequestsInv(t, pc, reqs) ==
  /\ Granted(t, Len(reqs))
  /\ pc \in Spare => Granted(t, Len(reqs) + 1)
  /\ pc = "drain" => Granted(t, Len(reqs) + 1) \/ HasReady(reqs)

LoadInv(t, worker, contexts) ==
  /\ worker.pc # "none" => Granted(t, 1)
  /\ Granted(t, worker.num)
  /\ IF setup.sequence THEN Granted(t, Len(contexts))
     ELSE /\ Len(contexts) <= 1
          /\ \A c \in 1..Len(contexts) : RequestsInv(t, worker.pc, contexts[c].reqs)

(* Every thread of the level is launched before its requests are dealt out.  *)
LevelInv ==
  /\ main.level > 0
  /\ Cardinality(Launched) <= Target
  /\ main.pc # "launch" => Cardinality(Launched) = Target

LInv ==
  /\ LevelInv
  /\ \A t \in Threads : Granted(t, share[t]) /\ LoadInv(t, workers[t], ctxs[t])
=============================================================================
