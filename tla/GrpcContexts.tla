---------------------------- MODULE GrpcContexts ----------------------------
(***************************************************************************)
(* The contexts of the gRPC server (nvrpc): a unary context serves one     *)
(* call at a time, a stream context one bidirectional stream at a time.    *)
(*                                                                         *)
(* One executor thread takes completed operations, in any order, off the   *)
(* completion queue and runs the context's next state.  Requests execute   *)
(* on other threads, which call CompleteExecution when they are done; a    *)
(* stream executes several requests at once and writes one response at a   *)
(* time.  The steps of a thread are those between two locks of             *)
(* m_QueueMutex; a request that completes inside of ExecuteRPC is the      *)
(* interleaving in which its thread runs before the executor goes on.      *)
(*                                                                         *)
(* gRPC itself is external: an operation completes once, ok or not; using  *)
(* a call against its rules aborts the process, and freeing what a thread  *)
(* or an operation still uses is undefined.  "fault" records the first of  *)
(* these, and nothing follows it.                                          *)
(***************************************************************************)
EXTENDS Naturals, Sequences, FiniteSets

CONSTANTS
    Streams,      \* StreamInferContext objects
    Unaries,      \* contexts of unary calls (infer, status, profile, health)
    MaxRequests,  \* bound: the messages clients send altogether
    Breaks,       \* whether clients may cancel or lose their connection
    None          \* no operation, no fault

ASSUME ContextsAssumption ==
    /\ IsFiniteSet(Streams) /\ IsFiniteSet(Unaries) /\ Streams \cap Unaries = {}
    /\ MaxRequests \in Nat /\ Breaks \in BOOLEAN /\ None \notin Nat

Contexts == Streams \cup Unaries
Ids == 1..MaxRequests

VARIABLES
    life,    \* per context: m_NextState, live_contexts and m_WriteBackQueue
    call,    \* per context: its gRPC call and the operations not yet reported
    client,  \* per context: the messages not yet read, half-closed, broken
    rpc,     \* the requests, by the order in which they were read
    exec,    \* the executor thread
    server,  \* how far Server::Shutdown has come
    sent,    \* how many messages clients have sent
    fault,   \* the first misuse of gRPC or of memory
    order    \* history: a stream's requests in the order they completed

vars == <<life, call, client, rpc, exec, server, sent, fault, order>>

States == {"InitializedDone", "RequestDone", "ResponseDone", "FinishedDone"}

Faults ==
    {"finished twice", "overlapping write", "cleared in execution", "cleared in use", "queued after shutdown"}

ASSUME NoneAssumption == None \notin Contexts \cup Faults

\* A call that m_QueuingFunc has requested and no client has made yet.
Queued == [arrival |-> TRUE, open |-> FALSE, read |-> FALSE, write |-> None, finish |-> "no"]

NoClient == [pending |-> 0, half |-> FALSE, dead |-> FALSE]

NewLife(c) ==
    [next |-> IF c \in Streams THEN "InitializedDone" ELSE "RequestDone", live |-> {}, queue |-> <<>>]

\* Executor::Run resets every context once before calls arrive.
Init ==
    /\ life = [c \in Contexts |-> NewLife(c)]
    /\ call = [c \in Contexts |-> Queued]
    /\ client = [c \in Contexts |-> NoClient]
    /\ rpc = [k \in Ids |-> [at |-> "unread", of |-> None, write |-> FALSE]]
    /\ exec = [at |-> "queue", ctx |-> None]
    /\ server = "running" /\ sent = 0 /\ fault = None
    /\ order = [c \in Contexts |-> <<>>]

----------------------------------------------------------------------------
(* Clients *)

Connect(c) ==
    /\ server = "running" /\ call[c].arrival /\ ~call[c].open
    /\ c \in Unaries => sent < MaxRequests
    /\ call' = [call EXCEPT ![c].open = TRUE]
    /\ sent' = IF c \in Unaries THEN sent + 1 ELSE sent
    /\ UNCHANGED <<life, client, rpc, exec, server, fault, order>>

\* A stream's client sends a request, ends its side of the stream, or breaks.
Talk(c) ==
    /\ c \in Streams /\ call[c].open /\ ~client[c].dead
    /\ \/ /\ ~client[c].half /\ sent < MaxRequests
          /\ client' = [client EXCEPT ![c].pending = @ + 1]
          /\ sent' = sent + 1
       \/ /\ ~client[c].half
          /\ client' = [client EXCEPT ![c].half = TRUE]
          /\ UNCHANGED sent
       \/ /\ Breaks
          /\ client' = [client EXCEPT ![c].dead = TRUE]
          /\ UNCHANGED sent
    /\ UNCHANGED <<life, call, rpc, exec, server, fault, order>>

----------------------------------------------------------------------------
(* What the life cycles do with a call *)

\* m_ReaderWriter->Write: one at a time, and none after Finish.
Write(c, k) ==
    IF call[c].write # None \/ call[c].finish # "no"
    THEN fault' = "overlapping write" /\ UNCHANGED call
    ELSE call' = [call EXCEPT ![c].write = k] /\ UNCHANGED fault

\* m_ReaderWriter->Finish, m_ResponseWriter->Finish, on a call in state "now":
\* once per call made.
Finish(c, now) ==
    IF now.finish # "no" \/ ~now.open
    THEN fault' = "finished twice" /\ call' = [call EXCEPT ![c] = now]
    ELSE call' = [call EXCEPT ![c] = [now EXCEPT !.finish = "called"]] /\ UNCHANGED fault

FinishResponse(c, now) ==
    /\ life' = [life EXCEPT ![c].next = "FinishedDone"]
    /\ Finish(c, now)

\* Finish is put off while requests execute.
CancelResponse(c, now) ==
    /\ life' = [life EXCEPT ![c].next = "FinishedDone"]
    /\ IF life[c].live = {} THEN Finish(c, now) ELSE call' = [call EXCEPT ![c] = now] /\ UNCHANGED fault

----------------------------------------------------------------------------
(* The executor thread *)

Idle == exec.at = "queue" /\ fault = None

\* A state that returns false has its context reset, unless m_Running is off.
ResetNext(c) ==
    exec' = IF server \in {"halted", "shut"} THEN exec ELSE [at |-> "reset", ctx |-> c]

\* The tag of the call itself, with ok only if a client made the call.
StateInitializedDone(c) ==
    /\ Idle /\ c \in Streams /\ call[c].arrival
    /\ \/ /\ call[c].open
          /\ life' = [life EXCEPT ![c].next = "RequestDone"]
          /\ call' = [call EXCEPT ![c].arrival = FALSE, ![c].read = TRUE]
          /\ UNCHANGED exec
       \/ /\ ~call[c].open /\ server # "running"
          /\ call' = [call EXCEPT ![c].arrival = FALSE]
          /\ ResetNext(c)
          /\ UNCHANGED life
    /\ UNCHANGED <<client, rpc, server, sent, fault, order>>

\* The next request read gets the next number.
Fresh(k) == rpc[k].at = "unread" /\ \A j \in 1..(k - 1) : rpc[j].at # "unread"

Start(k, c) == rpc' = [rpc EXCEPT ![k] = [at |-> "executing", of |-> c, write |-> FALSE]]

UnaryRequestDone(c) ==
    /\ Idle /\ c \in Unaries /\ call[c].arrival
    /\ call' = [call EXCEPT ![c].arrival = FALSE]
    /\ \/ call[c].open /\ (\E k \in Ids : Fresh(k) /\ Start(k, c)) /\ UNCHANGED exec
       \/ ~call[c].open /\ server # "running" /\ ResetNext(c) /\ UNCHANGED rpc
    /\ UNCHANGED <<life, client, server, sent, fault, order>>

\* A message was read: its request executes, and then the next Read is issued.
StateRequestDone(c) ==
    /\ Idle /\ call[c].read /\ client[c].pending > 0
    /\ \E k \in Ids :
          /\ Fresh(k) /\ Start(k, c)
          /\ life' = [life EXCEPT ![c].live = @ \cup {k}]
    /\ call' = [call EXCEPT ![c].read = FALSE]
    /\ client' = [client EXCEPT ![c].pending = @ - 1]
    /\ exec' = [at |-> "read", ctx |-> c]
    /\ UNCHANGED <<server, sent, fault, order>>

ReadNext ==
    /\ exec.at = "read" /\ fault = None
    /\ call' = [call EXCEPT ![exec.ctx].read = TRUE]
    /\ exec' = [at |-> "queue", ctx |-> None]
    /\ UNCHANGED <<life, client, rpc, server, sent, fault, order>>

\* Mutant: the end of the requests is not noted while responses are due.
ReadFailedUnnoted(c) ==
    /\ Idle /\ call[c].read
    /\ (client[c].half /\ client[c].pending = 0) \/ client[c].dead
    /\ LET now == [call[c] EXCEPT !.read = FALSE]
       IN  IF life[c].live # {} \/ life[c].queue # <<>>
           THEN call' = [call EXCEPT ![c] = now] /\ UNCHANGED <<life, fault>>
           ELSE FinishResponse(c, now)
    /\ UNCHANGED <<client, rpc, exec, server, sent, order>>

\* There is nothing more to read: the last response finishes the stream.
ReadFailed(c) ==
    /\ Idle /\ call[c].read
    /\ \/ client[c].half /\ client[c].pending = 0
       \/ client[c].dead \/ call[c].finish # "no"
    /\ LET now == [call[c] EXCEPT !.read = FALSE]
       IN  IF life[c].live # {} \/ life[c].queue # <<>>
           THEN /\ life' = [life EXCEPT ![c].next = IF @ = "RequestDone" THEN "ResponseDone" ELSE @]
                /\ call' = [call EXCEPT ![c] = now]
                /\ UNCHANGED fault
           ELSE FinishResponse(c, now)
    /\ UNCHANGED <<client, rpc, exec, server, sent, order>>

\* Mutant: the executions still running are not looked at.
StateResponseDoneEarly(c) ==
    /\ Idle /\ call[c].write # None
    /\ LET now == [call[c] EXCEPT !.write = None]
           rest == Tail(life[c].queue)
           done == rest = <<>> /\ life[c].next = "ResponseDone"
       IN  /\ life' = [life EXCEPT ![c].queue = rest, ![c].next = IF done THEN "FinishedDone" ELSE @]
           /\ exec' = IF rest # <<>> THEN [at |-> "write", ctx |-> c] ELSE exec
           /\ IF done THEN Finish(c, now) ELSE call' = [call EXCEPT ![c] = now] /\ UNCHANGED fault
    /\ UNCHANGED <<client, rpc, server, sent, order>>

\* A response was written: the next one is, or the stream is finished.
StateResponseDone(c) ==
    /\ Idle /\ call[c].write # None
    /\ LET now == [call[c] EXCEPT !.write = None]
           rest == Tail(life[c].queue)
       IN  \/ /\ rest # <<>>
              /\ life' = [life EXCEPT ![c].queue = rest]
              /\ call' = [call EXCEPT ![c] = now]
              /\ exec' = [at |-> "write", ctx |-> c]
              /\ UNCHANGED fault
           \/ /\ rest = <<>> /\ (life[c].live # {} \/ life[c].next # "ResponseDone")
              /\ life' = [life EXCEPT ![c].queue = rest]
              /\ call' = [call EXCEPT ![c] = now]
              /\ UNCHANGED <<exec, fault>>
           \/ /\ rest = <<>> /\ life[c].live = {} /\ life[c].next = "ResponseDone"
              /\ life' = [life EXCEPT ![c].queue = rest, ![c].next = "FinishedDone"]
              /\ Finish(c, now)
              /\ UNCHANGED exec
    /\ UNCHANGED <<client, rpc, server, sent, order>>

WriteNext ==
    /\ exec.at = "write" /\ fault = None
    /\ Write(exec.ctx, Head(life[exec.ctx].queue))
    /\ exec' = [at |-> "queue", ctx |-> None]
    /\ UNCHANGED <<life, client, rpc, server, sent, order>>

\* A response could not be written: the failed one stays in the queue.
WriteFailed(c) ==
    /\ Idle /\ call[c].write # None /\ client[c].dead
    /\ CancelResponse(c, [call[c] EXCEPT !.write = None])
    /\ UNCHANGED <<client, rpc, exec, server, sent, order>>

StateFinishedDone(c) ==
    /\ Idle /\ call[c].finish = "called"
    /\ call' = [call EXCEPT ![c].finish = "done"]
    /\ ResetNext(c)
    /\ UNCHANGED <<life, client, rpc, server, sent, fault, order>>

\* Reset clears the queue, the live requests and their messages, destroys the
\* call, and requests the next one.  An operation or a thread may still need them.
Executing(c) == \E k \in Ids : rpc[k].of = c /\ rpc[k].at \in {"executing", "cancel", "write"}

Reset ==
    /\ exec.at = "reset" /\ fault = None
    /\ LET c == exec.ctx
       IN  /\ life' = [life EXCEPT ![c] = NewLife(c)]
           /\ call' = [call EXCEPT ![c] = Queued]
           /\ client' = [client EXCEPT ![c] = NoClient]
           /\ order' = [order EXCEPT ![c] = <<>>]
           /\ fault' = IF Executing(c) THEN "cleared in execution"
                       ELSE IF call[c].read \/ call[c].write # None THEN "cleared in use"
                       ELSE IF server = "shut" THEN "queued after shutdown" ELSE None
    /\ exec' = [at |-> "queue", ctx |-> None]
    /\ UNCHANGED <<rpc, server, sent>>

----------------------------------------------------------------------------
(* The threads that execute requests *)

\* The locked part.  A request that is not live any more cancels the stream.
\* Mutant: every completion writes, whether a response is being written or not.
CompleteExecutionWriting(k) ==
    LET c == rpc[k].of
    IN  /\ rpc[k].at = "executing" /\ c \in Streams /\ fault = None
        /\ life' = [life EXCEPT ![c].live = @ \ {k}, ![c].queue = Append(@, k)]
        /\ order' = [order EXCEPT ![c] = Append(@, k)]
        /\ rpc' = [rpc EXCEPT ![k].write = TRUE,
                              ![k].at = IF life[c].next = "FinishedDone" THEN "cancel" ELSE "write"]
        /\ UNCHANGED <<call, client, exec, server, sent, fault>>

\* Mutant: the response is put at the front of the queue.
CompleteExecutionFirst(k) ==
    LET c == rpc[k].of
        write == life[c].queue = <<>>
    IN  /\ rpc[k].at = "executing" /\ c \in Streams /\ fault = None
        /\ life' = [life EXCEPT ![c].live = @ \ {k}, ![c].queue = <<k>> \o @]
        /\ order' = [order EXCEPT ![c] = Append(@, k)]
        /\ rpc' = [rpc EXCEPT ![k].write = write,
                              ![k].at = IF life[c].next = "FinishedDone" THEN "cancel" ELSE IF write THEN "write" ELSE "done"]
        /\ UNCHANGED <<call, client, exec, server, sent, fault>>

CompleteExecution(k) ==
    LET c == rpc[k].of
        found == k \in life[c].live
        write == found /\ life[c].queue = <<>>
        cancel == ~found \/ life[c].next = "FinishedDone"
    IN  /\ rpc[k].at = "executing" /\ c \in Streams /\ fault = None
        /\ life' = IF found
                   THEN [life EXCEPT ![c].live = @ \ {k}, ![c].queue = Append(@, k)]
                   ELSE life
        /\ order' = [order EXCEPT ![c] = Append(@, k)]
        /\ rpc' = [rpc EXCEPT ![k].write = write,
                              ![k].at = IF cancel THEN "cancel" ELSE IF write THEN "write" ELSE "done"]
        /\ UNCHANGED <<call, client, exec, server, sent, fault>>

Cancel(k) ==
    /\ rpc[k].at = "cancel" /\ fault = None
    /\ CancelResponse(rpc[k].of, call[rpc[k].of])
    /\ rpc' = [rpc EXCEPT ![k].at = IF rpc[k].write THEN "write" ELSE "done"]
    /\ UNCHANGED <<client, exec, server, sent, order>>

WriteFirst(k) ==
    /\ rpc[k].at = "write" /\ fault = None
    /\ Write(rpc[k].of, Head(life[rpc[k].of].queue))
    /\ rpc' = [rpc EXCEPT ![k].at = "done"]
    /\ UNCHANGED <<life, client, exec, server, sent, order>>

UnaryComplete(k) ==
    /\ rpc[k].at = "executing" /\ rpc[k].of \in Unaries /\ fault = None
    /\ FinishResponse(rpc[k].of, call[rpc[k].of])
    /\ rpc' = [rpc EXCEPT ![k].at = "done"]
    /\ UNCHANGED <<client, exec, server, sent, order>>

----------------------------------------------------------------------------
(* Server::Shutdown *)

\* No call is accepted any more; those made are waited for, however long their
\* clients keep them.
ShutdownServer ==
    /\ server = "running" /\ fault = None
    /\ server' = "draining"
    /\ UNCHANGED <<life, call, client, rpc, exec, sent, fault, order>>

\* Executor::Shutdown: m_Running is turned off, then the queue is shut down.
ShutdownExecutor ==
    /\ fault = None
    /\ \/ /\ server = "draining"
          /\ \A c \in Contexts : call[c].open => call[c].finish = "done"
          /\ server' = "halted"
       \/ server = "halted" /\ server' = "shut"
    /\ UNCHANGED <<life, call, client, rpc, exec, sent, fault, order>>

\* The executor thread has left, or the process is gone.
Ended ==
    /\ \/ fault # None
       \/ server = "shut" /\ exec.at = "queue" /\ \A c \in Contexts : ~call[c].arrival
    /\ UNCHANGED vars

----------------------------------------------------------------------------
Handle(c) ==
    \/ StateInitializedDone(c) \/ UnaryRequestDone(c)
    \/ StateRequestDone(c) \/ ReadFailed(c)
    \/ StateResponseDone(c) \/ WriteFailed(c)
    \/ StateFinishedDone(c)

Continue == ReadNext \/ WriteNext \/ Reset

Execute(k) == CompleteExecution(k) \/ Cancel(k) \/ WriteFirst(k) \/ UnaryComplete(k)

Next ==
    \/ \E c \in Contexts : (fault = None /\ (Connect(c) \/ Talk(c))) \/ Handle(c)
    \/ Continue
    \/ \E k \in Ids : Execute(k)
    \/ ShutdownServer \/ ShutdownExecutor
    \/ Ended

Spec == Init /\ [][Next]_vars

\* Every request that executes completes; an operation that can complete does,
\* and the executor takes completed operations in turn.
Fairness ==
    /\ WF_vars(Continue)
    /\ \A k \in Ids : WF_vars(Execute(k))
    /\ \A c \in Contexts : SF_vars(Handle(c))

FairSpec == Spec /\ Fairness

----------------------------------------------------------------------------
(* Properties *)

\* The values the members take.
Lives == [next : States, live : SUBSET Ids, queue : Seq(Ids)]
Calls ==
    [arrival : BOOLEAN, open : BOOLEAN, read : BOOLEAN,
     write : Ids \cup {None}, finish : {"no", "called", "done"}]
Clients == [pending : 0..MaxRequests, half : BOOLEAN, dead : BOOLEAN]
Rpcs ==
    [at : {"unread", "executing", "cancel", "write", "done"},
     of : Contexts \cup {None}, write : BOOLEAN]
Execs == [at : {"queue", "read", "write", "reset"}, ctx : Contexts \cup {None}]

TypeOK ==
    /\ life \in [Contexts -> Lives] /\ call \in [Contexts -> Calls]
    /\ client \in [Contexts -> Clients] /\ order \in [Contexts -> Seq(Ids)]
    /\ rpc \in [Ids -> Rpcs] /\ exec \in Execs
    /\ server \in {"running", "draining", "halted", "shut"}
    /\ sent \in 0..MaxRequests /\ fault \in Faults \cup {None}

\* As long as no client breaks, executor and request threads together use every
\* call by its rules: one write at a time, one Finish, and nothing is cleared
\* while a thread or an operation uses it.
CallsUsedRightly ==
    [][fault' \in Faults \ {"queued after shutdown"} =>
          \E c \in Streams : client[c].dead]_vars

\* Responses leave in the order in which requests complete, each once, whoever
\* of the executor and the request threads writes it.
InOrder(c) ==
    LET n == Len(order[c]) - Len(life[c].queue)
    IN  /\ n >= 0 /\ life[c].queue = SubSeq(order[c], n + 1, Len(order[c]))
        /\ call[c].write # None => life[c].queue # <<>> /\ call[c].write = Head(life[c].queue)

WrittenInOrder == \A c \in Streams : InOrder(c)

\* A stream is finished with an OK status only when every message of its client
\* was read, executed and answered, unless the client broke.
Answered(c) ==
    call[c].finish # "no" /\ ~client[c].dead =>
        /\ client[c].pending = 0 /\ client[c].half
        /\ life[c].live = {} /\ life[c].queue = <<>>
        /\ \A k \in Ids : rpc[k].of = c => rpc[k].at = "done"

AnsweredBeforeFinish == \A c \in Streams : Answered(c)

\* A stream that its client ends or breaks is finished, and its context serves
\* the next one, unless the process faults or shuts down.
Recycled ==
    \A c \in Streams :
        (call[c].open /\ (client[c].half \/ client[c].dead)) ~>
            (~call[c].open \/ fault # None \/ server \in {"halted", "shut"})

\* "Only call Finish() when no RPC is being executed to avoid clearing request
\* and response while they are being referenced in the RPC"
\* (BidirectionalStreamingLifeCycle.h:408), whatever the client does.
NotClearedInExecution == fault # "cleared in execution"

----------------------------------------------------------------------------
(***************************************************************************)
(* The inductive invariant behind the safety properties, in parts, each    *)
(* about one context.                                                      *)
(***************************************************************************)
\* The executor is about to do `step' for context c.
Doing(step, c) == exec.at = step /\ exec.ctx = c

\* A call that no client made, or whose arrival was not handled, is untouched.
Quiet(c) ==
    /\ ~call[c].read /\ call[c].write = None /\ call[c].finish = "no"
    /\ life[c] = NewLife(c) /\ ~Executing(c)
    /\ ~Doing("read", c) /\ ~Doing("write", c)

QuietInv(c) ==
    /\ call[c].arrival \/ ~call[c].open => Quiet(c)
    /\ ~call[c].open => client[c] = NoClient
    /\ call[c].arrival => ~Doing("reset", c)
    /\ Doing("reset", c) => call[c].finish = "done" \/ ~call[c].open

\* A unary context executes at most one request, on a call not yet finished.
UnaryInv(c) ==
    /\ ~call[c].read /\ call[c].write = None
    /\ ~Doing("read", c) /\ ~Doing("write", c)
    /\ \A k \in Ids : rpc[k].of = c =>
          /\ rpc[k].at \in {"executing", "done"}
          /\ rpc[k].at = "executing" => call[c].finish = "no"
          /\ \A j \in Ids : rpc[j].of = c /\ rpc[j].at = "executing" /\ rpc[k].at = "executing" => j = k

\* A request thread that will write the response of the first request queued.
Writer(k, c) == rpc[k].of = c /\ rpc[k].at \in {"cancel", "write"} /\ rpc[k].write

\* One writer: a write is under way, or the executor or one request thread is
\* about to issue one, and never two of these.
OneWriter(c) ==
    /\ call[c].write # None => ~Doing("write", c) /\ \A k \in Ids : ~Writer(k, c)
    /\ Doing("write", c) => life[c].queue # <<>> /\ \A k \in Ids : ~Writer(k, c)
    /\ \A k \in Ids : Writer(k, c) =>
          life[c].queue # <<>> /\ \A j \in Ids : Writer(j, c) => j = k

\* What executes is live, and a thread at its write is the writer.
LiveInv(c) ==
    \A k \in Ids : rpc[k].of = c =>
        /\ rpc[k].at = "executing" => k \in life[c].live
        /\ rpc[k].at = "write" => rpc[k].write

\* How far the stream of a client that did not break has come.
EndInv(c) ==
    ~client[c].dead =>
        /\ life[c].next = "FinishedDone" => call[c].finish # "no"
        /\ life[c].next = "ResponseDone" =>
              client[c].half /\ client[c].pending = 0 /\ ~call[c].read /\ ~Doing("read", c)
        /\ call[c].finish # "no" => ~call[c].read /\ ~Doing("read", c)
        /\ \A k \in Ids : rpc[k].of = c => rpc[k].at # "cancel"

\* The invariant of a context in a process that has not faulted.
ContextInv(c) ==
    /\ QuietInv(c)
    /\ c \in Unaries => UnaryInv(c)
    /\ c \in Streams => OneWriter(c) /\ LiveInv(c) /\ EndInv(c)

\* Numbers and contexts are those of requests that were sent and read.
CountInv ==
    /\ \A c \in Contexts : client[c].pending <= sent
    /\ \A k \in Ids : rpc[k].at = "unread" <=> rpc[k].of = None
    /\ exec.at # "queue" => exec.ctx \in Contexts

IInv ==
    /\ TypeOK /\ CountInv /\ WrittenInOrder /\ AnsweredBeforeFinish
    /\ fault = None => \A c \in Contexts : ContextInv(c)
=============================================================================
