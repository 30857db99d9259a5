------------------------- MODULE GrpcContextsProofs -------------------------
(***************************************************************************)
(* The safety properties of GrpcContexts, for any number of streams, unary *)
(* contexts and messages.                                                  *)
(***************************************************************************)
EXTENDS GrpcContexts, SequenceTheorems, TLAPS

(***************************************************************************)
(* Queues that are the end of a history.                                   *)
(***************************************************************************)

\* Being the end of a sequence, element by element.
LEMMA EndOf ==
    ASSUME NEW S, NEW q \in Seq(S), NEW o \in Seq(S), Len(q) <= Len(o)
    PROVE  q = SubSeq(o, Len(o) - Len(q) + 1, Len(o))
             <=> \A i \in 1..Len(q) : q[i] = o[Len(o) - Len(q) + i]
<1> DEFINE n == Len(o) - Len(q)
           e == SubSeq(o, n + 1, Len(o))
<1>1. n \in Nat /\ Len(o) \in Nat /\ Len(q) \in Nat /\ n + Len(q) = Len(o)
  OBVIOUS
<1>2. e = [i \in 1..Len(q) |-> o[n + i]]
  <2>1. e = [i \in 1..(Len(o) - (n + 1) + 1) |-> o[n + 1 + i - 1]]
    BY <1>1
  <2>2. Len(o) - (n + 1) + 1 = Len(q)
    BY <1>1
  <2>3. \A i \in 1..Len(q) : n + 1 + i - 1 = n + i
    BY <1>1
  <2>4. QED
    BY <2>1, <2>2, <2>3
<1>3. q = [i \in 1..Len(q) |-> q[i]]
  OBVIOUS
<1>4. QED
  BY <1>2, <1>3

\* The sequence q is the end of o.
EndsIn(q, o) == Len(q) <= Len(o) /\ q = SubSeq(o, Len(o) - Len(q) + 1, Len(o))

\* A response is put at the end of the queue when its request completes.
LEMMA AppendBoth ==
    ASSUME NEW S, NEW q \in Seq(S), NEW o \in Seq(S), NEW k \in S, EndsIn(q, o)
    PROVE  EndsIn(Append(q, k), Append(o, k))
<1>0. PICK p, h : p = Append(q, k) /\ h = Append(o, k)
  OBVIOUS
<1>1. /\ p \in Seq(S) /\ h \in Seq(S) /\ Len(p) = Len(q) + 1 /\ Len(h) = Len(o) + 1
      /\ Len(q) \in Nat /\ Len(o) \in Nat
      /\ \A i \in 1..Len(q) : p[i] = q[i]
      /\ \A i \in 1..Len(o) : h[i] = o[i]
      /\ p[Len(q) + 1] = k /\ h[Len(o) + 1] = k /\ Len(q) <= Len(o)
  BY <1>0 DEF EndsIn
<1>2. \A i \in 1..Len(q) : q[i] = o[Len(o) - Len(q) + i]
  BY EndOf DEF EndsIn
<1>3. \A i \in 1..Len(p) : p[i] = h[Len(h) - Len(p) + i]
  <2>1. ASSUME NEW i \in 1..Len(q) PROVE p[i] = h[Len(h) - Len(p) + i]
    <3>1. Len(o) - Len(q) + i \in 1..Len(o) /\ Len(h) - Len(p) + i = Len(o) - Len(q) + i
      BY <1>1
    <3>2. QED
      BY <1>1, <1>2, <3>1
  <2>2. p[Len(q) + 1] = h[Len(h) - Len(p) + (Len(q) + 1)]
    BY <1>1
  <2>3. \A i \in 1..Len(p) : i \in 1..Len(q) \/ i = Len(q) + 1
    BY <1>1
  <2>4. QED
    BY <2>1, <2>2, <2>3
<1>4. p = SubSeq(h, Len(h) - Len(p) + 1, Len(h))
  <2>1. p \in Seq(S) /\ h \in Seq(S) /\ Len(p) <= Len(h)
    BY <1>1
  <2>2. QED
    BY <1>3, <2>1, EndOf, Zenon
<1>5. Len(p) <= Len(h)
  BY <1>1
<1>6. EndsIn(p, h)
  BY <1>4, <1>5, Zenon DEF EndsIn
<1>7. QED
  BY <1>0, <1>6, Zenon

\* A response that was written leaves the queue.
LEMMA TailEnd ==
    ASSUME NEW S, NEW q \in Seq(S), NEW o \in Seq(S), Len(q) <= Len(o), q # <<>>,
           q = SubSeq(o, Len(o) - Len(q) + 1, Len(o))
    PROVE  LET p == Tail(q)
           IN  /\ p \in Seq(S) /\ Len(p) <= Len(o)
               /\ p = SubSeq(o, Len(o) - Len(p) + 1, Len(o))
<1> DEFINE p == Tail(q)
<1>1. /\ p \in Seq(S) /\ Len(p) = Len(q) - 1 /\ Len(q) \in Nat \ {0} /\ Len(o) \in Nat
      /\ \A i \in 1..Len(p) : p[i] = q[i + 1]
  OBVIOUS
<1>2. \A i \in 1..Len(q) : q[i] = o[Len(o) - Len(q) + i]
  BY EndOf
<1>3. \A i \in 1..Len(p) : p[i] = o[Len(o) - Len(p) + i]
  <2> HIDE DEF p
  <2>1. ASSUME NEW i \in 1..Len(p) PROVE p[i] = o[Len(o) - Len(p) + i]
    <3>1. i + 1 \in 1..Len(q) /\ Len(o) - Len(q) + (i + 1) = Len(o) - Len(p) + i
      BY <1>1
    <3>2. QED
      BY <1>1, <1>2, <3>1
  <2>2. QED
    BY <2>1
<1>4. QED
  <2> HIDE DEF p
  <2>1. Len(p) <= Len(o)
    BY <1>1
  <2>2. p = SubSeq(o, Len(o) - Len(p) + 1, Len(o))
    BY <1>1, <1>3, <2>1, EndOf
  <2>3. QED
    BY <1>1, <2>1, <2>2 DEF p

(***************************************************************************)
(* What a step of one context does to the others: nothing.                 *)
(***************************************************************************)

Steps == {"read", "write", "reset"}

\* Nothing of context d changes.
Same(d) ==
    /\ life'[d] = life[d] /\ call'[d] = call[d] /\ client'[d] = client[d] /\ order'[d] = order[d]
    /\ \A k \in Ids : rpc'[k].of = d \/ rpc[k].of = d => rpc'[k] = rpc[k]
    /\ \A step \in Steps : Doing(step, d)' => Doing(step, d)

LEMMA SameContext ==
    ASSUME NEW d \in Contexts, ContextInv(d), Same(d) PROVE ContextInv(d)'
<1>1. QuietInv(d)'
  BY DEF ContextInv, QuietInv, Quiet, Same, Steps, NewLife, Executing
<1>2. ASSUME d \in Unaries PROVE UnaryInv(d)'
  BY <1>2 DEF ContextInv, UnaryInv, Same, Steps
<1>3. ASSUME d \in Streams PROVE OneWriter(d)'
  BY <1>3 DEF ContextInv, OneWriter, Same, Steps, Writer
<1>4. ASSUME d \in Streams PROVE LiveInv(d)' /\ EndInv(d)'
  BY <1>4 DEF ContextInv, LiveInv, EndInv, Same, Steps
<1>5. QED
  BY <1>1, <1>2, <1>3, <1>4 DEF ContextInv

LEMMA SameStream ==
    ASSUME NEW d \in Streams, InOrder(d), Answered(d), Same(d) PROVE InOrder(d)' /\ Answered(d)'
BY DEF InOrder, Answered, Same

\* A call is misused only on behalf of a stream whose client broke.
Right == fault' \in Faults \ {"queued after shutdown"} => \E c \in Streams : client[c].dead

\* What is to be shown of a step of context c.
Keeps(c) ==
    /\ TypeOK' /\ CountInv'
    /\ \A d \in Contexts : d # c => Same(d)
    /\ c \in Streams => InOrder(c)' /\ Answered(c)'
    /\ fault' = None => ContextInv(c)'
    /\ Right

LEMMA KeepsAll ==
    ASSUME IInv, fault = None, NEW c \in Contexts, Keeps(c) PROVE IInv' /\ Right
<1>1. ASSUME NEW d \in Streams PROVE InOrder(d)' /\ Answered(d)'
  <2>1. CASE d = c
    BY <2>1, <1>1 DEF Keeps
  <2>2. CASE d # c
    BY <2>2, <1>1, SameStream DEF Keeps, IInv, WrittenInOrder, AnsweredBeforeFinish, Contexts
  <2>3. QED
    BY <2>1, <2>2
<1>2. ASSUME NEW d \in Contexts, fault' = None PROVE ContextInv(d)'
  <2>1. CASE d = c
    BY <2>1, <1>2 DEF Keeps
  <2>2. CASE d # c
    BY <2>2, <1>2, SameContext DEF Keeps, IInv
  <2>3. QED
    BY <2>1, <2>2
<1>3. QED
  BY <1>1, <1>2 DEF IInv, Keeps, WrittenInOrder, AnsweredBeforeFinish

\* Only context c changes, only its requests, and the executor serves none else.
Only(c) ==
    /\ life' = [life EXCEPT ![c] = life'[c]] /\ call' = [call EXCEPT ![c] = call'[c]]
    /\ client' = [client EXCEPT ![c] = client'[c]] /\ order' = [order EXCEPT ![c] = order'[c]]
    /\ \A k \in Ids : rpc'[k] = rpc[k] \/ (rpc'[k].of = c /\ rpc[k].of \in {c, None})
    /\ exec' = exec \/ exec'.at = "queue" \/ exec'.ctx = c

LEMMA OnlyOthers ==
    ASSUME TypeOK, NEW c \in Contexts, Only(c) PROVE \A d \in Contexts : d # c => Same(d)
<1> SUFFICES ASSUME NEW d \in Contexts, d # c PROVE Same(d)
  OBVIOUS
<1>1. life'[d] = life[d] /\ call'[d] = call[d] /\ client'[d] = client[d] /\ order'[d] = order[d]
  BY DEF Only, TypeOK
<1>2. ASSUME NEW k \in Ids, rpc'[k].of = d \/ rpc[k].of = d PROVE rpc'[k] = rpc[k]
  BY <1>2, NoneAssumption DEF Only
<1>3. ASSUME NEW step \in Steps, Doing(step, d)' PROVE Doing(step, d)
  BY <1>3 DEF Only, Doing, Steps
<1>4. QED
  BY <1>1, <1>2, <1>3 DEF Same

LEMMA OnlyTypes ==
    ASSUME TypeOK, NEW c \in Contexts, Only(c),
           life'[c] \in Lives, call'[c] \in Calls, client'[c] \in Clients, order'[c] \in Seq(Ids),
           rpc' \in [Ids -> Rpcs], exec' \in Execs, sent' \in 0..MaxRequests,
           server' = server, fault' \in Faults \cup {None}
    PROVE  TypeOK'
BY DEF TypeOK, Only

(***************************************************************************)
(* Clients.                                                                *)
(***************************************************************************)

LEMMA ConnectKeeps ==
    ASSUME IInv, fault = None, NEW c \in Contexts, Connect(c) PROVE Keeps(c)
<1>1. TypeOK /\ CountInv /\ ContextInv(c) /\ (c \in Streams => InOrder(c) /\ Answered(c))
  BY DEF IInv, WrittenInOrder, AnsweredBeforeFinish
<1>2. /\ life' = life /\ client' = client /\ rpc' = rpc /\ exec' = exec /\ order' = order
      /\ fault' = fault /\ server' = server /\ ~call[c].open /\ call[c].arrival
  BY DEF Connect
<1>3. call' = [call EXCEPT ![c] = call'[c]] /\ call'[c] = [call[c] EXCEPT !.open = TRUE]
  BY <1>1 DEF Connect, TypeOK
<1>4. call[c] \in Calls
  BY <1>1 DEF TypeOK
<1>5. /\ call'[c] \in Calls /\ call'[c].arrival = call[c].arrival /\ call'[c].open
      /\ call'[c].read = call[c].read /\ call'[c].write = call[c].write /\ call'[c].finish = call[c].finish
  BY <1>3, <1>4 DEF Calls
<1>6. sent' \in 0..MaxRequests /\ sent <= sent'
  BY <1>1, ContextsAssumption DEF Connect, TypeOK
<1>7. Only(c)
  BY <1>1, <1>2, <1>3 DEF Only, TypeOK
<1>8. TypeOK'
  BY <1>1, <1>2, <1>5, <1>6, <1>7, OnlyTypes DEF TypeOK
<1>9. CountInv'
  BY <1>1, <1>2, <1>6, ContextsAssumption DEF TypeOK, CountInv, Clients
<1>10. c \in Streams => InOrder(c)' /\ Answered(c)'
  BY <1>1, <1>2, <1>5 DEF InOrder, Answered
<1>11. ContextInv(c)'
  BY <1>1, <1>2, <1>5 DEF ContextInv, QuietInv, Quiet, UnaryInv, OneWriter, LiveInv, EndInv, Doing, Writer,
     Executing, NewLife
<1>12. Right
  BY <1>2, NoneAssumption DEF Right
<1>13. QED
  BY <1>1, <1>7, <1>8, <1>9, <1>10, <1>11, <1>12, OnlyOthers DEF Keeps

LEMMA TalkKeeps ==
    ASSUME IInv, fault = None, NEW c \in Contexts, Talk(c) PROVE Keeps(c)
<1>1. TypeOK /\ CountInv /\ ContextInv(c) /\ c \in Streams /\ InOrder(c) /\ Answered(c)
  BY DEF IInv, WrittenInOrder, AnsweredBeforeFinish, Talk
<1>2. /\ life' = life /\ call' = call /\ rpc' = rpc /\ exec' = exec /\ order' = order
      /\ fault' = fault /\ server' = server /\ call[c].open /\ ~client[c].dead
      /\ client' = [client EXCEPT ![c] = client'[c]]
  BY <1>1 DEF Talk, TypeOK
<1>3. \/ /\ ~client[c].half /\ client'[c] = [client[c] EXCEPT !.pending = @ + 1]
         /\ sent < MaxRequests /\ sent' = sent + 1
      \/ /\ ~client[c].half /\ client'[c] = [client[c] EXCEPT !.half = TRUE] /\ sent' = sent
      \/ client'[c] = [client[c] EXCEPT !.dead = TRUE] /\ sent' = sent
  BY <1>1 DEF Talk, TypeOK, Clients
<1>4. Only(c)
  BY <1>1, <1>2 DEF Only, TypeOK
<1>5. TypeOK' /\ CountInv'
  <2>1. client[c] \in Clients /\ sent \in 0..MaxRequests /\ client[c].pending <= sent
    BY <1>1 DEF TypeOK, CountInv
  <2>2. /\ client'[c] \in Clients /\ sent' \in 0..MaxRequests
        /\ client'[c].pending <= sent' /\ sent <= sent'
    <3>1. client[c].pending \in 0..MaxRequests /\ MaxRequests \in Nat
      BY <2>1, ContextsAssumption DEF Clients
    <3>2. ASSUME client'[c] = [client[c] EXCEPT !.pending = @ + 1], sent < MaxRequests, sent' = sent + 1
          PROVE  client'[c] \in Clients /\ client'[c].pending = client[c].pending + 1
      <4>1. client[c].pending + 1 \in 0..MaxRequests
        BY <2>1, <3>1, <3>2
      <4>2. QED
        BY <2>1, <3>2, <4>1 DEF Clients
    <3>3. ASSUME client'[c] = [client[c] EXCEPT !.half = TRUE]
          PROVE  client'[c] \in Clients /\ client'[c].pending = client[c].pending
      BY <2>1, <3>3 DEF Clients
    <3>4. ASSUME client'[c] = [client[c] EXCEPT !.dead = TRUE]
          PROVE  client'[c] \in Clients /\ client'[c].pending = client[c].pending
      BY <2>1, <3>4 DEF Clients
    <3>5. QED
      BY <1>3, <2>1, <3>1, <3>2, <3>3, <3>4
  <2>3. TypeOK'
    BY <1>1, <1>2, <1>4, <2>2, OnlyTypes DEF TypeOK
  <2>4. \A d \in Contexts : client[d].pending \in Nat /\ sent \in Nat
    BY <1>1, ContextsAssumption DEF TypeOK, Clients
  <2>5. ASSUME NEW d \in Contexts PROVE client'[d].pending <= sent'
    <3>1. CASE d = c
      BY <3>1, <2>2
    <3>2. CASE d # c
      <4>1. client'[d] = client[d]
        BY <1>1, <1>2, <3>2 DEF TypeOK
      <4>2. QED
        BY <1>1, <2>2, <2>4, <4>1, ContextsAssumption DEF CountInv
    <3>3. QED
      BY <3>1, <3>2
  <2>6. QED
    BY <1>1, <1>2, <2>3, <2>5 DEF CountInv
<1>6. client'[c].dead \/ (~client[c].dead /\ ~client[c].half /\ ~client'[c].dead)
  BY <1>1, <1>2, <1>3 DEF TypeOK, Clients
<1>7. InOrder(c)' /\ Answered(c)'
  BY <1>1, <1>2, <1>6 DEF InOrder, Answered
<1>8. ContextInv(c)'
  <2>1. QuietInv(c)'
    BY <1>1, <1>2 DEF ContextInv, QuietInv, Quiet, Doing, Executing, NewLife
  <2>2. OneWriter(c)' /\ LiveInv(c)'
    BY <1>1, <1>2 DEF ContextInv, OneWriter, LiveInv, Doing, Writer
  <2>3. EndInv(c)'
    BY <1>1, <1>2, <1>6 DEF ContextInv, EndInv, Doing
  <2>4. c \notin Unaries
    BY <1>1, ContextsAssumption
  <2>5. QED
    BY <2>1, <2>2, <2>3, <2>4 DEF ContextInv
<1>9. Right
  BY <1>2, NoneAssumption DEF Right
<1>10. QED
  BY <1>1, <1>4, <1>5, <1>7, <1>8, <1>9, OnlyOthers DEF Keeps

(***************************************************************************)
(* The executor: the arrival of a call, and what was read of it.           *)
(***************************************************************************)

LEMMA StateInitializedDoneKeeps ==
    ASSUME IInv, fault = None, NEW c \in Contexts, StateInitializedDone(c) PROVE Keeps(c)
<1>1. TypeOK /\ CountInv /\ ContextInv(c) /\ c \in Streams /\ InOrder(c) /\ Answered(c) /\ c \notin Unaries
  BY ContextsAssumption DEF IInv, WrittenInOrder, AnsweredBeforeFinish, StateInitializedDone
<1>2. /\ client' = client /\ rpc' = rpc /\ order' = order /\ fault' = fault /\ sent' = sent /\ server' = server
      /\ exec.at = "queue" /\ call[c].arrival /\ Quiet(c)
  BY <1>1 DEF StateInitializedDone, Idle, ContextInv, QuietInv
<1>3. /\ life' = [life EXCEPT ![c] = life'[c]] /\ call' = [call EXCEPT ![c] = call'[c]]
      /\ \/ /\ call[c].open /\ exec' = exec
            /\ life'[c] = [life[c] EXCEPT !.next = "RequestDone"]
            /\ call'[c] = [call[c] EXCEPT !.arrival = FALSE, !.read = TRUE]
         \/ /\ ~call[c].open /\ life'[c] = life[c]
            /\ call'[c] = [call[c] EXCEPT !.arrival = FALSE]
            /\ exec' = exec \/ exec' = [at |-> "reset", ctx |-> c]
  BY <1>1 DEF StateInitializedDone, ResetNext, TypeOK
<1>4. Only(c)
  BY <1>1, <1>2, <1>3 DEF Only, TypeOK
<1>5. life[c] \in Lives /\ call[c] \in Calls /\ exec \in Execs
  BY <1>1 DEF TypeOK
<1>6. TypeOK' /\ CountInv'
  <2>1. life'[c] \in Lives
    BY <1>3, <1>5 DEF Lives, States
  <2>2. call'[c] \in Calls
    BY <1>3, <1>5 DEF Calls
  <2>3. exec' \in Execs
    BY <1>3, <1>5 DEF Execs
  <2>4. TypeOK'
    BY <1>1, <1>2, <1>4, <2>1, <2>2, <2>3, OnlyTypes DEF TypeOK
  <2>5. CountInv'
    BY <1>1, <1>2, <1>3 DEF CountInv
  <2>6. QED
    BY <2>4, <2>5
<1>7. /\ call'[c].write = None /\ call'[c].finish = "no" /\ (call'[c].open <=> call[c].open) /\ ~call'[c].arrival
      /\ life'[c].queue = <<>> /\ life'[c].live = {} /\ life'[c].next \in {"InitializedDone", "RequestDone"}
      /\ (call'[c].read <=> call[c].open) /\ (~call[c].open => life'[c] = life[c])
      /\ exec'.at = "queue" \/ (exec'.at = "reset" /\ exec'.ctx = c /\ ~call[c].open)
  <2>1. /\ call[c].write = None /\ call[c].finish = "no" /\ ~call[c].read
        /\ life[c].queue = <<>> /\ life[c].live = {} /\ life[c].next = "InitializedDone"
    BY <1>1, <1>2 DEF Quiet, NewLife
  <2>2. ASSUME call'[c] = [call[c] EXCEPT !.arrival = FALSE, !.read = TRUE]
        PROVE  /\ call'[c].write = call[c].write /\ call'[c].finish = call[c].finish /\ ~call'[c].arrival
               /\ call'[c].open = call[c].open /\ call'[c].read
    BY <1>5, <2>2 DEF Calls
  <2>3. ASSUME call'[c] = [call[c] EXCEPT !.arrival = FALSE]
        PROVE  /\ call'[c].write = call[c].write /\ call'[c].finish = call[c].finish /\ ~call'[c].arrival
               /\ call'[c].open = call[c].open /\ call'[c].read = call[c].read
    BY <1>5, <2>3 DEF Calls
  <2>4. ASSUME life'[c] = [life[c] EXCEPT !.next = "RequestDone"]
        PROVE  /\ life'[c].queue = life[c].queue /\ life'[c].live = life[c].live
               /\ life'[c].next = "RequestDone"
    BY <1>5, <2>4 DEF Lives
  <2>5. CASE call[c].open
    <3>1. call'[c].read /\ call'[c].open
      BY <1>3, <2>2, <2>5
    <3>2. QED
      BY <1>2, <1>3, <2>1, <2>2, <2>4, <2>5, <3>1
  <2>6. CASE ~call[c].open
    <3>1. ~call'[c].read /\ ~call'[c].open
      BY <1>3, <2>1, <2>3, <2>6
    <3>2. QED
      BY <1>2, <1>3, <2>1, <2>3, <2>6, <3>1
  <2>7. QED
    BY <2>5, <2>6
<1>8. InOrder(c)' /\ Answered(c)'
  <2>1. life[c].queue = life'[c].queue
    BY <1>1, <1>2, <1>7 DEF Quiet, NewLife
  <2>2. QED
    BY <1>1, <1>2, <1>7, <2>1 DEF InOrder, Answered
<1>9. ContextInv(c)'
  <2>1. QuietInv(c)'
    BY <1>1, <1>2, <1>7 DEF ContextInv, QuietInv, Quiet, Doing, Executing, NewLife
  <2>2. OneWriter(c)' /\ LiveInv(c)' /\ EndInv(c)'
    BY <1>1, <1>2, <1>7 DEF ContextInv, OneWriter, LiveInv, EndInv, Doing, Writer, Quiet, Executing
  <2>3. QED
    BY <1>1, <2>1, <2>2 DEF ContextInv
<1>10. Right
  BY <1>2, NoneAssumption DEF Right
<1>11. QED
  BY <1>1, <1>4, <1>6, <1>8, <1>9, <1>10, OnlyOthers DEF Keeps

\* A request that was read begins to execute for context c.
LEMMA StartFacts ==
    ASSUME TypeOK, CountInv, NEW c \in Contexts, NEW k \in Ids, Fresh(k), Start(k, c)
    PROVE  /\ rpc' \in [Ids -> Rpcs] /\ rpc[k].of = None
           /\ rpc'[k].at = "executing" /\ rpc'[k].of = c /\ ~rpc'[k].write
           /\ \A j \in Ids : j # k => rpc'[j] = rpc[j]
           /\ \A j \in Ids : rpc'[j] = rpc[j] \/ (rpc'[j].of = c /\ rpc[j].of \in {c, None})
           /\ \A j \in Ids : rpc'[j].at = "unread" <=> rpc'[j].of = None
<1>1. rpc \in [Ids -> Rpcs] /\ rpc[k].of = None
  BY DEF TypeOK, CountInv, Fresh
<1>2. [at |-> "executing", of |-> c, write |-> FALSE] \in Rpcs
  BY DEF Rpcs
<1>3. rpc' \in [Ids -> Rpcs] /\ rpc'[k] = [at |-> "executing", of |-> c, write |-> FALSE]
      /\ \A j \in Ids : j # k => rpc'[j] = rpc[j]
  BY <1>1, <1>2 DEF Start
<1>4. rpc'[k].at = "executing" /\ rpc'[k].of = c /\ ~rpc'[k].write
  BY <1>3
<1>5. \A j \in Ids : rpc'[j].at = "unread" <=> rpc'[j].of = None
  BY <1>3, <1>4, NoneAssumption DEF CountInv
<1>6. QED
  BY <1>1, <1>3, <1>4, <1>5

LEMMA UnaryRequestDoneKeeps ==
    ASSUME IInv, fault = None, NEW c \in Contexts, UnaryRequestDone(c) PROVE Keeps(c)
<1>1. TypeOK /\ CountInv /\ ContextInv(c) /\ c \in Unaries /\ c \notin Streams /\ UnaryInv(c)
  BY ContextsAssumption DEF IInv, UnaryRequestDone, ContextInv
<1>2. /\ life' = life /\ client' = client /\ order' = order /\ fault' = fault /\ sent' = sent
      /\ server' = server /\ exec.at = "queue" /\ call[c].arrival /\ Quiet(c)
  BY <1>1 DEF UnaryRequestDone, Idle, ContextInv, QuietInv
<1>3. call' = [call EXCEPT ![c] = call'[c]] /\ call'[c] = [call[c] EXCEPT !.arrival = FALSE]
  BY <1>1 DEF UnaryRequestDone, TypeOK
<1>4. call[c] \in Calls /\ exec \in Execs
  BY <1>1 DEF TypeOK
<1>5. /\ call'[c] \in Calls /\ ~call'[c].arrival /\ call'[c].open = call[c].open
      /\ call'[c].read = call[c].read /\ call'[c].write = call[c].write /\ call'[c].finish = call[c].finish
  BY <1>3, <1>4 DEF Calls
<1>6. rpc' \in [Ids -> Rpcs] /\ rpc \in [Ids -> Rpcs] /\ exec' \in Execs
  <2>1. CASE rpc' = rpc /\ ResetNext(c)
    BY <1>1, <1>4, <2>1 DEF TypeOK, ResetNext, Execs
  <2>2. CASE exec' = exec /\ \E k \in Ids : Fresh(k) /\ Start(k, c)
    BY <1>1, <1>4, <2>2, StartFacts DEF TypeOK
  <2>3. QED
    BY <2>1, <2>2 DEF UnaryRequestDone
<1>7. \/ rpc' = rpc /\ ~call[c].open /\ (exec' = exec \/ (exec'.at = "reset" /\ exec'.ctx = c))
      \/ call[c].open /\ exec' = exec /\ \E k \in Ids : Fresh(k) /\ Start(k, c)
  BY DEF UnaryRequestDone, ResetNext
<1>8. Only(c)
  <2>1. \A j \in Ids : rpc'[j] = rpc[j] \/ (rpc'[j].of = c /\ rpc[j].of \in {c, None})
    BY <1>1, <1>7, StartFacts
  <2>2. QED
    BY <1>1, <1>2, <1>3, <1>7, <2>1 DEF Only, TypeOK
<1>9. TypeOK'
  BY <1>1, <1>2, <1>5, <1>6, <1>8, OnlyTypes DEF TypeOK
<1>10. CountInv'
  <2>1. \A j \in Ids : rpc'[j].at = "unread" <=> rpc'[j].of = None
    BY <1>1, <1>7, StartFacts DEF CountInv
  <2>2. QED
    BY <1>1, <1>2, <1>7, <2>1 DEF CountInv
<1>11. ContextInv(c)'
  <2>1. CASE rpc' = rpc /\ ~call[c].open /\ (exec' = exec \/ (exec'.at = "reset" /\ exec'.ctx = c))
    BY <1>1, <1>2, <1>5, <2>1 DEF ContextInv, QuietInv, UnaryInv, Quiet, Doing, Executing, NewLife
  <2>2. ASSUME call[c].open, exec' = exec, NEW k \in Ids, Fresh(k), Start(k, c) PROVE ContextInv(c)'
    <3>1. QuietInv(c)'
      BY <1>1, <1>2, <1>5, <2>2 DEF QuietInv, Doing
    <3>2. /\ rpc'[k].at = "executing" /\ rpc'[k].of = c
          /\ \A j \in Ids : j # k => rpc'[j] = rpc[j]
      BY <1>1, <2>2, StartFacts
    <3>3. \A j \in Ids : rpc[j].of = c => rpc[j].at = "done"
      BY <1>1, <1>2 DEF Quiet, Executing, UnaryInv
    <3>4. UnaryInv(c)'
      <4>1. ~call'[c].read /\ call'[c].write = None /\ ~Doing("read", c)' /\ ~Doing("write", c)' /\ call'[c].finish = "no"
        BY <1>1, <1>2, <1>5, <2>2 DEF UnaryInv, Doing, Quiet
      <4>2. QED
        BY <3>2, <3>3, <4>1 DEF UnaryInv
    <3>5. QED
      BY <1>1, <3>1, <3>4 DEF ContextInv
  <2>3. QED
    BY <1>7, <2>1, <2>2
<1>12. Right
  BY <1>2, NoneAssumption DEF Right
<1>13. QED
  BY <1>1, <1>8, <1>9, <1>10, <1>11, <1>12, OnlyOthers DEF Keeps

LEMMA StateRequestDoneKeeps ==
    ASSUME IInv, fault = None, NEW c \in Contexts, StateRequestDone(c) PROVE Keeps(c)
<1>1. TypeOK /\ CountInv /\ ContextInv(c)
  BY DEF IInv
<1>2. c \in Streams /\ c \notin Unaries /\ call[c].read /\ OneWriter(c) /\ LiveInv(c) /\ EndInv(c) /\ QuietInv(c)
  BY <1>1, ContextsAssumption DEF StateRequestDone, ContextInv, UnaryInv, Contexts
<1>3. InOrder(c) /\ Answered(c)
  BY <1>2 DEF IInv, WrittenInOrder, AnsweredBeforeFinish
<1>4. PICK k \in Ids : Fresh(k) /\ Start(k, c) /\ life' = [life EXCEPT ![c].live = @ \cup {k}]
  BY DEF StateRequestDone
<1>5. /\ order' = order /\ fault' = fault /\ sent' = sent /\ server' = server
      /\ exec.at = "queue" /\ client[c].pending > 0 /\ exec' = [at |-> "read", ctx |-> c]
      /\ call' = [call EXCEPT ![c] = call'[c]] /\ call'[c] = [call[c] EXCEPT !.read = FALSE]
      /\ client' = [client EXCEPT ![c] = client'[c]]
      /\ client'[c] = [client[c] EXCEPT !.pending = client[c].pending - 1]
      /\ life' = [life EXCEPT ![c] = life'[c]] /\ life'[c] = [life[c] EXCEPT !.live = life[c].live \cup {k}]
  BY <1>1, <1>4 DEF StateRequestDone, Idle, TypeOK
<1>6. call[c] \in Calls /\ client[c] \in Clients /\ life[c] \in Lives
  BY <1>1 DEF TypeOK
<1>7. /\ call'[c] \in Calls /\ call'[c].arrival = call[c].arrival /\ call'[c].open = call[c].open
      /\ ~call'[c].read /\ call'[c].write = call[c].write /\ call'[c].finish = call[c].finish
  BY <1>5, <1>6 DEF Calls
<1>8. /\ life'[c] \in Lives /\ life'[c].next = life[c].next /\ life'[c].queue = life[c].queue
      /\ life'[c].live = life[c].live \cup {k}
  <2>1. PICK l, m : l = life[c] /\ m = life'[c]
    OBVIOUS
  <2>2. l \in Lives /\ m = [l EXCEPT !.live = l.live \cup {k}] /\ l.live \cup {k} \subseteq Ids
    BY <1>5, <1>6, <2>1 DEF Lives
  <2>3. /\ m \in Lives /\ m.next = l.next /\ m.queue = l.queue
        /\ m.live = l.live \cup {k}
    BY <2>2 DEF Lives
  <2>4. QED
    BY <2>1, <2>3
<1>9. /\ client'[c] \in Clients /\ client'[c].pending <= sent
      /\ client'[c].half = client[c].half /\ client'[c].dead = client[c].dead
  <2>1. /\ client[c].pending \in 0..MaxRequests /\ sent \in 0..MaxRequests /\ client[c].pending <= sent
        /\ MaxRequests \in Nat
    BY <1>1, <1>6, ContextsAssumption DEF Clients, TypeOK, CountInv
  <2>2. client[c].pending - 1 \in 0..MaxRequests /\ client[c].pending - 1 <= sent
    BY <1>5, <2>1
  <2>3. QED
    BY <1>5, <1>6, <2>2 DEF Clients
<1>10. exec' \in Execs /\ exec'.at = "read" /\ exec'.ctx = c
  BY <1>5 DEF Execs
<1>11. Only(c)
  BY <1>1, <1>4, <1>5, <1>10, StartFacts DEF Only, TypeOK
<1>12. TypeOK'
  BY <1>1, <1>4, <1>5, <1>7, <1>8, <1>9, <1>10, <1>11, StartFacts, OnlyTypes DEF TypeOK
<1>13. CountInv'
  <2>1. \A d \in Contexts : client'[d].pending <= sent
    BY <1>1, <1>5, <1>9 DEF CountInv, TypeOK
  <2>2. QED
    BY <1>1, <1>4, <1>5, <1>10, <2>1, StartFacts DEF CountInv
<1>14. client[c].dead \/ (call[c].finish = "no" /\ life[c].next \notin {"ResponseDone", "FinishedDone"})
  BY <1>2 DEF EndInv
<1>15. InOrder(c)' /\ Answered(c)'
  BY <1>3, <1>5, <1>7, <1>8, <1>9, <1>14 DEF InOrder, Answered
<1>16. ContextInv(c)'
  <2>1. call[c].open /\ ~call[c].arrival
    BY <1>2 DEF QuietInv, Quiet
  <2>2. QuietInv(c)'
    BY <1>7, <1>10, <2>1 DEF QuietInv, Doing
  <2>3. /\ rpc'[k].at = "executing" /\ rpc'[k].of = c
        /\ \A j \in Ids : j # k => rpc'[j] = rpc[j]
    BY <1>1, <1>4, StartFacts
  <2>4. OneWriter(c)'
    BY <1>2, <1>7, <1>8, <1>10, <2>3 DEF OneWriter, Writer, Doing
  <2>5. LiveInv(c)'
    BY <1>2, <1>8, <2>3 DEF LiveInv
  <2>6. EndInv(c)'
    BY <1>2, <1>7, <1>8, <1>9, <1>14, <2>3 DEF EndInv
  <2>7. QED
    BY <1>2, <2>2, <2>4, <2>5, <2>6 DEF ContextInv
<1>17. Right
  BY <1>5, NoneAssumption DEF Right
<1>18. QED
  BY <1>1, <1>11, <1>12, <1>13, <1>15, <1>16, <1>17, OnlyOthers DEF Keeps

LEMMA ReadNextKeeps ==
    ASSUME IInv, fault = None, NEW c \in Contexts, Doing("read", c), ReadNext PROVE Keeps(c)
<1>1. TypeOK /\ CountInv
  BY DEF IInv
<1>2. Doing("read", c) /\ ContextInv(c) /\ exec.ctx = c
  BY DEF Doing, IInv
<1>3. c \in Streams /\ c \notin Unaries /\ OneWriter(c) /\ LiveInv(c) /\ EndInv(c) /\ QuietInv(c)
  BY <1>1, <1>2, ContextsAssumption DEF ContextInv, UnaryInv, Contexts
<1>4. InOrder(c) /\ Answered(c)
  BY <1>3 DEF IInv, WrittenInOrder, AnsweredBeforeFinish
<1>5. /\ life' = life /\ client' = client /\ rpc' = rpc /\ order' = order /\ fault' = fault
      /\ sent' = sent /\ server' = server /\ exec' = [at |-> "queue", ctx |-> None]
      /\ call' = [call EXCEPT ![c] = call'[c]] /\ call'[c] = [call[c] EXCEPT !.read = TRUE]
  BY <1>1, <1>2 DEF ReadNext, TypeOK
<1>6. call[c] \in Calls
  BY <1>1 DEF TypeOK
<1>7. /\ call'[c] \in Calls /\ call'[c].arrival = call[c].arrival /\ call'[c].open = call[c].open
      /\ call'[c].read /\ call'[c].write = call[c].write /\ call'[c].finish = call[c].finish
  BY <1>5, <1>6 DEF Calls
<1>8. exec' \in Execs /\ exec'.at = "queue"
  BY <1>5 DEF Execs
<1>9. Only(c)
  BY <1>1, <1>5, <1>8 DEF Only, TypeOK
<1>10. TypeOK'
  BY <1>1, <1>5, <1>7, <1>8, <1>9, OnlyTypes DEF TypeOK
<1>11. CountInv'
  BY <1>1, <1>5, <1>8 DEF CountInv
<1>12. InOrder(c)' /\ Answered(c)'
  BY <1>4, <1>5, <1>7 DEF InOrder, Answered
<1>13. ContextInv(c)'
  <2>1. client[c].dead \/ (call[c].finish = "no" /\ life[c].next # "ResponseDone")
    BY <1>2, <1>3 DEF EndInv
  <2>2. QuietInv(c)'
    BY <1>2, <1>3, <1>5, <1>7, <1>8 DEF QuietInv, Quiet, Doing
  <2>3. OneWriter(c)' /\ LiveInv(c)'
    BY <1>3, <1>5, <1>7, <1>8 DEF OneWriter, LiveInv, Writer, Doing
  <2>4. EndInv(c)'
    BY <1>3, <1>5, <1>7, <1>8, <2>1 DEF EndInv
  <2>5. QED
    BY <1>3, <2>2, <2>3, <2>4 DEF ContextInv
<1>14. Right
  BY <1>5, NoneAssumption DEF Right
<1>15. QED
  BY <1>1, <1>9, <1>10, <1>11, <1>12, <1>13, <1>14, OnlyOthers DEF Keeps

(***************************************************************************)
(* Finishing a call.                                                       *)
(***************************************************************************)

\* Finish succeeds on a call that is open and not finished, and faults on any
\* other.
LEMMA FinishFacts ==
    ASSUME TypeOK, NEW c \in Contexts, NEW now \in Calls, fault = None, Finish(c, now)
    PROVE  /\ call' = [call EXCEPT ![c] = call'[c]] /\ call'[c] \in Calls
           /\ call'[c].arrival = now.arrival /\ call'[c].open = now.open
           /\ call'[c].read = now.read /\ call'[c].write = now.write
           /\ now.open => call'[c].finish # "no"
           /\ \/ now.finish = "no" /\ now.open /\ fault' = None
              \/ (now.finish # "no" \/ ~now.open) /\ fault' = "finished twice"
<1>1. call \in [Contexts -> Calls]
  BY DEF TypeOK
<1>2. CASE now.finish # "no" \/ ~now.open
  <2>1. call' = [call EXCEPT ![c] = now] /\ fault' = "finished twice"
    BY <1>2 DEF Finish
  <2>2. call'[c] = now
    BY <1>1, <2>1
  <2>3. QED
    BY <1>1, <1>2, <2>1, <2>2
<1>3. CASE now.finish = "no" /\ now.open
  <2>1. call' = [call EXCEPT ![c] = [now EXCEPT !.finish = "called"]] /\ fault' = None
    BY <1>3 DEF Finish
  <2>2. call'[c] = [now EXCEPT !.finish = "called"]
    BY <1>1, <2>1
  <2>3. /\ call'[c] \in Calls /\ call'[c].arrival = now.arrival /\ call'[c].open = now.open
        /\ call'[c].read = now.read /\ call'[c].write = now.write /\ call'[c].finish = "called"
    BY <2>2 DEF Calls
  <2>4. QED
    BY <1>1, <1>3, <2>1, <2>2, <2>3
<1>4. QED
  BY <1>2, <1>3

\* When the stream of a client that did not break is finished, all its requests
\* have completed.
LEMMA AllDone ==
    ASSUME TypeOK, CountInv, NEW c \in Streams, OneWriter(c), LiveInv(c), EndInv(c), ~client[c].dead,
           life[c].live = {}, \A k \in Ids : ~Writer(k, c)
    PROVE  \A k \in Ids : rpc[k].of = c => rpc[k].at = "done"
<1> SUFFICES ASSUME NEW k \in Ids, rpc[k].of = c PROVE rpc[k].at = "done"
  OBVIOUS
<1>1. rpc[k].at \in {"unread", "executing", "cancel", "write", "done"}
  BY DEF TypeOK, Rpcs
<1>2. rpc[k].at # "unread"
  BY NoneAssumption DEF CountInv, Contexts
<1>3. rpc[k].at # "executing" /\ rpc[k].at # "cancel"
  BY DEF LiveInv, EndInv
<1>4. rpc[k].at # "write"
  BY DEF LiveInv, Writer
<1>5. QED
  BY <1>1, <1>2, <1>3, <1>4

LEMMA ReadFailedKeeps ==
    ASSUME IInv, fault = None, NEW c \in Contexts, ReadFailed(c) PROVE Keeps(c)
<1> DEFINE now == [call[c] EXCEPT !.read = FALSE]
           due == life[c].live # {} \/ life[c].queue # <<>>
<1>1. TypeOK /\ CountInv /\ ContextInv(c)
  BY DEF IInv
<1>2. c \in Streams /\ c \notin Unaries /\ call[c].read /\ OneWriter(c) /\ LiveInv(c) /\ EndInv(c) /\ QuietInv(c)
  BY <1>1, ContextsAssumption DEF ReadFailed, ContextInv, UnaryInv, Contexts
<1>3. InOrder(c) /\ Answered(c)
  BY <1>2 DEF IInv, WrittenInOrder, AnsweredBeforeFinish
<1>4. /\ client' = client /\ rpc' = rpc /\ exec' = exec /\ order' = order /\ sent' = sent
      /\ server' = server /\ exec.at = "queue"
  BY DEF ReadFailed, Idle
<1>5. call[c] \in Calls /\ life[c] \in Lives /\ exec \in Execs
  BY <1>1 DEF TypeOK
<1>6. /\ now \in Calls /\ now.arrival = call[c].arrival /\ now.open = call[c].open
      /\ ~now.read /\ now.write = call[c].write /\ now.finish = call[c].finish
  BY <1>5 DEF Calls
<1>7. call[c].open /\ ~call[c].arrival
  BY <1>2 DEF QuietInv, Quiet
<1>8. client[c].dead \/ (call[c].finish = "no" /\ client[c].half /\ client[c].pending = 0)
  BY <1>2 DEF EndInv, ReadFailed
<1>9. ASSUME due PROVE
      /\ fault' = None /\ call' = [call EXCEPT ![c] = call'[c]] /\ call'[c] = now
      /\ life' = [life EXCEPT ![c] = life'[c]] /\ life'[c] \in Lives
      /\ life'[c].live = life[c].live /\ life'[c].queue = life[c].queue
      /\ life'[c].next = life[c].next \/ life'[c].next = "ResponseDone"
  <2> DEFINE next == IF life[c].next = "RequestDone" THEN "ResponseDone" ELSE life[c].next
  <2>1. life' = [life EXCEPT ![c].next = next] /\ call' = [call EXCEPT ![c] = now] /\ fault' = None
    BY <1>9 DEF ReadFailed
  <2>2. next \in States
    BY <1>5 DEF Lives, States
  <2> HIDE DEF next
  <2>3. life' = [life EXCEPT ![c] = life'[c]] /\ life'[c] = [life[c] EXCEPT !.next = next]
    BY <1>1, <2>1 DEF TypeOK
  <2>4. /\ life'[c] \in Lives /\ life'[c].live = life[c].live /\ life'[c].queue = life[c].queue
        /\ life'[c].next = next
    BY <1>5, <2>2, <2>3 DEF Lives
  <2>5. call' = [call EXCEPT ![c] = call'[c]] /\ call'[c] = now
    BY <1>1, <2>1 DEF TypeOK
  <2>6. QED
    BY <2>1, <2>3, <2>4, <2>5 DEF next
<1>10. ASSUME ~due PROVE
      /\ Finish(c, now)
      /\ life' = [life EXCEPT ![c] = life'[c]] /\ life'[c] \in Lives
      /\ life'[c].live = life[c].live /\ life'[c].queue = life[c].queue /\ life'[c].next = "FinishedDone"
  <2>1. life' = [life EXCEPT ![c].next = "FinishedDone"] /\ Finish(c, now)
    BY <1>10 DEF ReadFailed, FinishResponse
  <2>2. life' = [life EXCEPT ![c] = life'[c]] /\ life'[c] = [life[c] EXCEPT !.next = "FinishedDone"]
    BY <1>1, <2>1 DEF TypeOK
  <2>3. QED
    BY <1>5, <2>1, <2>2 DEF Lives, States
<1> HIDE DEF now
<1>11. /\ call' = [call EXCEPT ![c] = call'[c]] /\ call'[c] \in Calls /\ ~call'[c].arrival
       /\ call'[c].open /\ ~call'[c].read /\ call'[c].write = call[c].write
       /\ life' = [life EXCEPT ![c] = life'[c]] /\ life'[c] \in Lives
       /\ life'[c].live = life[c].live /\ life'[c].queue = life[c].queue
       /\ fault' = None \/ (fault' = "finished twice" /\ client[c].dead)
  <2>1. CASE due
    BY <1>6, <1>7, <1>9, <2>1
  <2>2. CASE ~due
    <3>1. Finish(c, now) /\ now \in Calls
      BY <1>6, <1>10, <2>2
    <3>2. TypeOK /\ fault = None
      BY <1>1
    <3>3. /\ call' = [call EXCEPT ![c] = call'[c]] /\ call'[c] \in Calls
          /\ call'[c].arrival = now.arrival /\ call'[c].open = now.open
          /\ call'[c].read = now.read /\ call'[c].write = now.write
          /\ \/ now.finish = "no" /\ now.open /\ fault' = None
             \/ (now.finish # "no" \/ ~now.open) /\ fault' = "finished twice"
      BY <3>1, <3>2, FinishFacts
    <3>4. fault' = None \/ (fault' = "finished twice" /\ client[c].dead)
      BY <1>6, <1>7, <1>8, <3>3
    <3>5. QED
      BY <1>6, <1>7, <1>10, <2>2, <3>3, <3>4
  <2>3. QED
    BY <2>1, <2>2
<1>12. Only(c)
  BY <1>1, <1>4, <1>11 DEF Only, TypeOK
<1>13. TypeOK'
  <2>1. fault' \in Faults \cup {None}
    BY <1>11 DEF Faults
  <2>2. QED
    BY <1>1, <1>4, <1>11, <1>12, <2>1, OnlyTypes DEF TypeOK
<1>14. CountInv'
  BY <1>1, <1>4 DEF CountInv
<1>15. ASSUME ~client[c].dead
       PROVE  \/ /\ call'[c].finish = "no" /\ life'[c].next # "FinishedDone"
              \/ ~due /\ call'[c].finish # "no" /\ life'[c].next = "FinishedDone"
  <2>1. CASE due
    BY <1>2, <1>6, <1>8, <1>9, <1>15, <2>1 DEF EndInv
  <2>2. CASE ~due
    BY <1>1, <1>6, <1>7, <1>10, <2>2, FinishFacts
  <2>3. QED
    BY <2>1, <2>2
<1>16. InOrder(c)'
  BY <1>3, <1>4, <1>11 DEF InOrder
<1>17. Answered(c)'
  <2> SUFFICES ASSUME ~client[c].dead, ~due, call'[c].finish # "no" PROVE Answered(c)'
    BY <1>4, <1>15 DEF Answered
  <2>1. \A k \in Ids : rpc[k].of = c => rpc[k].at = "done"
    BY <1>1, <1>2, AllDone DEF OneWriter
  <2>2. QED
    BY <1>4, <1>8, <1>11, <2>1 DEF Answered
<1>18. ContextInv(c)'
  <2>1. QuietInv(c)'
    BY <1>4, <1>11 DEF QuietInv, Doing
  <2>2. OneWriter(c)' /\ LiveInv(c)'
    BY <1>2, <1>4, <1>11 DEF OneWriter, LiveInv, Writer, Doing
  <2>3. EndInv(c)'
    BY <1>2, <1>4, <1>8, <1>11, <1>15 DEF EndInv, Doing
  <2>4. QED
    BY <1>2, <2>1, <2>2, <2>3 DEF ContextInv
<1>19. Right
  BY <1>2, <1>11, NoneAssumption DEF Right
<1>20. QED
  BY <1>1, <1>12, <1>13, <1>14, <1>16, <1>17, <1>18, <1>19, OnlyOthers DEF Keeps

(***************************************************************************)
(* Writing the responses.                                                  *)
(***************************************************************************)

\* Write succeeds on a call that has no write under way and is not finished,
\* and faults on any other.
LEMMA WriteFacts ==
    ASSUME TypeOK, NEW c \in Contexts, NEW k \in Ids, fault = None, Write(c, k)
    PROVE  /\ call' = [call EXCEPT ![c] = call'[c]] /\ call'[c] \in Calls
           /\ call'[c].arrival = call[c].arrival /\ call'[c].open = call[c].open
           /\ call'[c].read = call[c].read /\ call'[c].finish = call[c].finish
           /\ \/ /\ call[c].write = None /\ call[c].finish = "no"
                 /\ fault' = None /\ call'[c].write = k
              \/ /\ call[c].write # None \/ call[c].finish # "no"
                 /\ fault' = "overlapping write" /\ call'[c].write = call[c].write
<1>1. call \in [Contexts -> Calls] /\ call[c] \in Calls
  BY DEF TypeOK
<1>2. CASE call[c].write # None \/ call[c].finish # "no"
  <2>1. call' = call /\ fault' = "overlapping write"
    BY <1>2 DEF Write
  <2>2. QED
    BY <1>1, <1>2, <2>1
<1>3. CASE call[c].write = None /\ call[c].finish = "no"
  <2>1. call' = [call EXCEPT ![c].write = k] /\ fault' = None
    BY <1>3 DEF Write
  <2>2. call' = [call EXCEPT ![c] = call'[c]] /\ call'[c] = [call[c] EXCEPT !.write = k]
    BY <1>1, <2>1
  <2>3. /\ call'[c] \in Calls /\ call'[c].arrival = call[c].arrival /\ call'[c].open = call[c].open
        /\ call'[c].read = call[c].read /\ call'[c].finish = call[c].finish /\ call'[c].write = k
    BY <1>1, <2>2 DEF Calls
  <2>4. QED
    BY <1>3, <2>1, <2>2, <2>3
<1>4. QED
  BY <1>2, <1>3

LEMMA WriteNextKeeps ==
    ASSUME IInv, fault = None, NEW c \in Contexts, Doing("write", c), WriteNext PROVE Keeps(c)
<1> DEFINE h == Head(life[c].queue)
<1>1. TypeOK /\ CountInv /\ ContextInv(c) /\ exec.ctx = c
  BY DEF IInv, Doing
<1>2. c \in Streams /\ c \notin Unaries /\ OneWriter(c) /\ LiveInv(c) /\ EndInv(c) /\ QuietInv(c)
  BY <1>1, ContextsAssumption DEF ContextInv, UnaryInv, Contexts
<1>3. InOrder(c) /\ Answered(c)
  BY <1>2 DEF IInv, WrittenInOrder, AnsweredBeforeFinish
<1>4. /\ life' = life /\ client' = client /\ rpc' = rpc /\ order' = order /\ sent' = sent
      /\ server' = server /\ exec' = [at |-> "queue", ctx |-> None] /\ Write(c, h)
  BY <1>1 DEF WriteNext
<1>5. life[c].queue \in Seq(Ids) /\ life[c].queue # <<>>
  BY <1>1, <1>2 DEF TypeOK, Lives, OneWriter
<1>6. h \in Ids
  BY <1>5
<1> HIDE DEF h
<1>7. /\ call' = [call EXCEPT ![c] = call'[c]] /\ call'[c] \in Calls
      /\ call'[c].arrival = call[c].arrival /\ call'[c].open = call[c].open
      /\ call'[c].read = call[c].read /\ call'[c].finish = call[c].finish
      /\ \/ fault' = None /\ call'[c].write = h
         \/ /\ call[c].write # None \/ call[c].finish # "no"
            /\ fault' = "overlapping write" /\ call'[c].write = call[c].write
  BY <1>1, <1>4, <1>6, WriteFacts
<1>8. exec' \in Execs /\ exec'.at = "queue"
  BY <1>4 DEF Execs
<1>9. Only(c)
  BY <1>1, <1>4, <1>7, <1>8 DEF Only, TypeOK
<1>10. TypeOK'
  <2>1. fault' \in Faults \cup {None}
    BY <1>7 DEF Faults
  <2>2. QED
    BY <1>1, <1>4, <1>7, <1>8, <1>9, <2>1, OnlyTypes DEF TypeOK
<1>11. CountInv'
  BY <1>1, <1>4, <1>8 DEF CountInv
<1>12. InOrder(c)' /\ Answered(c)'
  <2>1. InOrder(c)'
    BY <1>3, <1>4, <1>5, <1>7 DEF InOrder, h
  <2>2. Answered(c)'
    BY <1>3, <1>4, <1>7 DEF Answered
  <2>3. QED
    BY <2>1, <2>2
<1>13. ASSUME fault' = None PROVE ContextInv(c)'
  <2>1. QuietInv(c)'
    <3>1. ~call[c].arrival /\ call[c].open
      BY <1>2 DEF QuietInv, Quiet
    <3>2. QED
      BY <1>7, <1>8, <3>1 DEF QuietInv, Doing
  <2>2. OneWriter(c)'
    BY <1>2, <1>4, <1>7, <1>8 DEF OneWriter, Writer, Doing
  <2>3. LiveInv(c)' /\ EndInv(c)'
    BY <1>2, <1>4, <1>7, <1>8 DEF LiveInv, EndInv, Doing
  <2>4. QED
    BY <1>2, <2>1, <2>2, <2>3 DEF ContextInv
<1>14. Right
  <2>1. call[c].write = None
    BY <1>2 DEF OneWriter
  <2>2. call[c].finish # "no" => client[c].dead
    BY <1>3, <1>5 DEF Answered
  <2>3. QED
    BY <1>2, <1>7, <2>1, <2>2, NoneAssumption DEF Right
<1>15. QED
  BY <1>1, <1>9, <1>10, <1>11, <1>12, <1>13, <1>14, OnlyOthers DEF Keeps

LEMMA StateResponseDoneKeeps ==
    ASSUME IInv, fault = None, NEW c \in Contexts, StateResponseDone(c) PROVE Keeps(c)
<1> DEFINE now == [call[c] EXCEPT !.write = None]
           rest == Tail(life[c].queue)
           last == rest = <<>> /\ life[c].live = {} /\ life[c].next = "ResponseDone"
<1>1. TypeOK /\ CountInv /\ ContextInv(c)
  BY DEF IInv
<1>2. c \in Streams /\ c \notin Unaries /\ call[c].write # None
      /\ OneWriter(c) /\ LiveInv(c) /\ EndInv(c) /\ QuietInv(c)
  BY <1>1, ContextsAssumption DEF StateResponseDone, ContextInv, UnaryInv, Contexts
<1>3. InOrder(c) /\ Answered(c)
  BY <1>2 DEF IInv, WrittenInOrder, AnsweredBeforeFinish
<1>4. /\ client' = client /\ rpc' = rpc /\ order' = order /\ sent' = sent /\ server' = server
      /\ exec.at = "queue"
  BY DEF StateResponseDone, Idle
<1>5. call[c] \in Calls /\ life[c] \in Lives /\ exec \in Execs /\ order[c] \in Seq(Ids)
  BY <1>1 DEF TypeOK
<1>6. /\ now \in Calls /\ now.arrival = call[c].arrival /\ now.open = call[c].open
      /\ now.read = call[c].read /\ now.write = None /\ now.finish = call[c].finish
  BY <1>5 DEF Calls
<1>7. call[c].open /\ ~call[c].arrival
  BY <1>2 DEF QuietInv, Quiet
<1>8. life[c].queue \in Seq(Ids) /\ life[c].queue # <<>>
  BY <1>2, <1>3, <1>5 DEF InOrder, Lives
<1>9. /\ rest \in Seq(Ids) /\ Len(rest) <= Len(order[c])
      /\ rest = SubSeq(order[c], Len(order[c]) - Len(rest) + 1, Len(order[c]))
  <2>1. Len(life[c].queue) <= Len(order[c])
    BY <1>3, <1>5, <1>8 DEF InOrder
  <2>2. QED
    BY <1>3, <1>5, <1>8, <2>1, TailEnd DEF InOrder
<1>10. \A k \in Ids : ~Writer(k, c)
  BY <1>2 DEF OneWriter
<1>11. client[c].dead \/ call[c].finish = "no"
  BY <1>3, <1>8 DEF Answered
<1> HIDE DEF now, rest
<1>12. /\ life' = [life EXCEPT ![c] = life'[c]] /\ life'[c] \in Lives
       /\ life'[c].queue = rest /\ life'[c].live = life[c].live
       /\ life'[c].next = IF last THEN "FinishedDone" ELSE life[c].next
  <2>1. CASE life' = [life EXCEPT ![c].queue = rest] /\ ~last
    <3>1. life' = [life EXCEPT ![c] = life'[c]] /\ life'[c] = [life[c] EXCEPT !.queue = rest]
      BY <1>1, <2>1 DEF TypeOK
    <3>2. /\ life'[c] \in Lives /\ life'[c].queue = rest /\ life'[c].live = life[c].live
          /\ life'[c].next = life[c].next
      BY <1>5, <1>9, <3>1 DEF Lives
    <3>3. QED
      BY <2>1, <3>1, <3>2
  <2>2. CASE life' = [life EXCEPT ![c].queue = rest, ![c].next = "FinishedDone"] /\ last
    <3>1. /\ life' = [life EXCEPT ![c] = life'[c]]
          /\ life'[c] = [life[c] EXCEPT !.queue = rest, !.next = "FinishedDone"]
      BY <1>1, <2>2 DEF TypeOK
    <3>2. /\ life'[c] \in Lives /\ life'[c].queue = rest /\ life'[c].live = life[c].live
          /\ life'[c].next = "FinishedDone"
      BY <1>5, <1>9, <3>1 DEF Lives, States
    <3>3. QED
      BY <2>2, <3>1, <3>2
  <2>3. QED
    BY <2>1, <2>2 DEF StateResponseDone, rest
<1>13. /\ call' = [call EXCEPT ![c] = call'[c]] /\ call'[c] \in Calls /\ ~call'[c].arrival
       /\ call'[c].open /\ call'[c].read = call[c].read /\ call'[c].write = None
       /\ ~last => call'[c].finish = call[c].finish
       /\ last => call'[c].finish # "no"
       /\ fault' = None \/ (fault' = "finished twice" /\ client[c].dead)
  <2>1. CASE ~last
    <3>1. call' = [call EXCEPT ![c] = now] /\ fault' = fault
      BY <2>1 DEF StateResponseDone, rest, now
    <3>2. call' = [call EXCEPT ![c] = call'[c]] /\ call'[c] = now
      BY <1>1, <3>1 DEF TypeOK
    <3>3. QED
      BY <1>6, <1>7, <2>1, <3>1, <3>2
  <2>2. CASE last
    <3>1. Finish(c, now) /\ now \in Calls
      BY <1>6, <2>2 DEF StateResponseDone, rest, now
    <3>2. TypeOK /\ fault = None
      BY <1>1
    <3>3. /\ call' = [call EXCEPT ![c] = call'[c]] /\ call'[c] \in Calls
          /\ call'[c].arrival = now.arrival /\ call'[c].open = now.open
          /\ call'[c].read = now.read /\ call'[c].write = now.write
          /\ now.open => call'[c].finish # "no"
          /\ \/ now.finish = "no" /\ now.open /\ fault' = None
             \/ (now.finish # "no" \/ ~now.open) /\ fault' = "finished twice"
      BY <3>1, <3>2, FinishFacts
    <3>4. fault' = None \/ (fault' = "finished twice" /\ client[c].dead)
      BY <1>6, <1>7, <1>11, <3>3
    <3>5. QED
      BY <1>6, <1>7, <2>2, <3>3, <3>4
  <2>3. QED
    BY <2>1, <2>2
<1>14. /\ exec' \in Execs
       /\ exec' = exec \/ exec'.ctx = c
       /\ exec'.at = "queue" \/ (exec'.at = "write" /\ exec'.ctx = c /\ rest # <<>>)
  <2>1. CASE exec' = exec
    BY <1>4, <1>5, <2>1
  <2>2. CASE exec' = [at |-> "write", ctx |-> c] /\ rest # <<>>
    BY <2>2 DEF Execs
  <2>3. QED
    BY <2>1, <2>2 DEF StateResponseDone, rest
<1>15. Only(c)
  BY <1>1, <1>4, <1>12, <1>13, <1>14 DEF Only, TypeOK
<1>16. TypeOK'
  <2>1. fault' \in Faults \cup {None}
    BY <1>13 DEF Faults
  <2>2. QED
    BY <1>1, <1>4, <1>12, <1>13, <1>14, <1>15, <2>1, OnlyTypes DEF TypeOK
<1>17. CountInv'
  BY <1>1, <1>4, <1>14 DEF CountInv
<1>18. InOrder(c)'
  <2>1. Len(rest) \in Nat /\ Len(order[c]) \in Nat
    BY <1>5, <1>9
  <2>2. Len(order[c]) - Len(rest) >= 0
    BY <1>9, <2>1
  <2>3. order'[c] = order[c] /\ life'[c].queue = rest /\ call'[c].write = None
    BY <1>4, <1>12, <1>13
  <2>4. QED
    BY <1>9, <2>2, <2>3 DEF InOrder
<1>19. Answered(c)'
  <2> SUFFICES ASSUME ~client[c].dead, last PROVE Answered(c)'
    BY <1>4, <1>11, <1>13 DEF Answered
  <2>1. \A k \in Ids : rpc[k].of = c => rpc[k].at = "done"
    BY <1>1, <1>2, <1>10, AllDone
  <2>2. client[c].half /\ client[c].pending = 0
    BY <1>2 DEF EndInv
  <2>3. QED
    BY <1>4, <1>12, <1>13, <2>1, <2>2 DEF Answered
<1>20. ContextInv(c)'
  <2>1. QuietInv(c)'
    BY <1>13, <1>14 DEF QuietInv, Doing
  <2>2. OneWriter(c)'
    BY <1>4, <1>10, <1>12, <1>13, <1>14 DEF OneWriter, Writer, Doing
  <2>3. LiveInv(c)'
    BY <1>2, <1>4, <1>12 DEF LiveInv
  <2>4. EndInv(c)'
    BY <1>2, <1>4, <1>11, <1>12, <1>13, <1>14 DEF EndInv, Doing
  <2>5. QED
    BY <1>2, <2>1, <2>2, <2>3, <2>4 DEF ContextInv
<1>21. Right
  BY <1>2, <1>13, NoneAssumption DEF Right
<1>22. QED
  BY <1>1, <1>15, <1>16, <1>17, <1>18, <1>19, <1>20, <1>21, OnlyOthers DEF Keeps

(***************************************************************************)
(* Cancelling, and the end of a call.                                      *)
(***************************************************************************)

\* CancelResponse finishes the call, now or later.
LEMMA CancelFacts ==
    ASSUME TypeOK, NEW c \in Contexts, NEW now \in Calls, fault = None, CancelResponse(c, now)
    PROVE  /\ life' = [life EXCEPT ![c] = life'[c]] /\ life'[c] \in Lives
           /\ life'[c].live = life[c].live /\ life'[c].queue = life[c].queue
           /\ call' = [call EXCEPT ![c] = call'[c]] /\ call'[c] \in Calls
           /\ call'[c].arrival = now.arrival /\ call'[c].open = now.open
           /\ call'[c].read = now.read /\ call'[c].write = now.write
           /\ fault' \in {None, "finished twice"}
           /\ fault' = None => call'[c].finish = now.finish \/ now.finish = "no"
<1>1. life \in [Contexts -> Lives] /\ life[c] \in Lives /\ call \in [Contexts -> Calls]
  BY DEF TypeOK
<1>2. life' = [life EXCEPT ![c].next = "FinishedDone"]
  BY DEF CancelResponse
<1>3. life' = [life EXCEPT ![c] = life'[c]] /\ life'[c] = [life[c] EXCEPT !.next = "FinishedDone"]
  BY <1>1, <1>2
<1>4. life'[c] \in Lives /\ life'[c].live = life[c].live /\ life'[c].queue = life[c].queue
  BY <1>1, <1>3 DEF Lives, States
<1>5. CASE life[c].live = {}
  <2>1. Finish(c, now)
    BY <1>5 DEF CancelResponse
  <2>2. /\ call' = [call EXCEPT ![c] = call'[c]] /\ call'[c] \in Calls
        /\ call'[c].arrival = now.arrival /\ call'[c].open = now.open
        /\ call'[c].read = now.read /\ call'[c].write = now.write
        /\ \/ now.finish = "no" /\ now.open /\ fault' = None
           \/ (now.finish # "no" \/ ~now.open) /\ fault' = "finished twice"
    BY <2>1, FinishFacts
  <2>3. fault' \in {None, "finished twice"} /\ (fault' = None => now.finish = "no")
    BY <2>2, NoneAssumption DEF Faults
  <2>4. QED
    BY <1>3, <1>4, <2>2, <2>3
<1>6. CASE life[c].live # {}
  <2>1. call' = [call EXCEPT ![c] = now] /\ fault' = None
    BY <1>6 DEF CancelResponse
  <2>2. call' = [call EXCEPT ![c] = call'[c]] /\ call'[c] = now
    BY <1>1, <2>1
  <2>3. QED
    BY <1>3, <1>4, <2>1, <2>2
<1>7. QED
  BY <1>5, <1>6

LEMMA WriteFailedKeeps ==
    ASSUME IInv, fault = None, NEW c \in Contexts, WriteFailed(c) PROVE Keeps(c)
<1> DEFINE now == [call[c] EXCEPT !.write = None]
<1>1. TypeOK /\ CountInv /\ ContextInv(c)
  BY DEF IInv
<1>2. /\ c \in Streams /\ c \notin Unaries /\ call[c].write # None /\ client[c].dead
      /\ OneWriter(c) /\ LiveInv(c) /\ QuietInv(c) /\ InOrder(c)
  BY <1>1, ContextsAssumption DEF WriteFailed, ContextInv, UnaryInv, Contexts, IInv, WrittenInOrder
<1>3. /\ client' = client /\ rpc' = rpc /\ exec' = exec /\ order' = order /\ sent' = sent
      /\ server' = server /\ exec.at = "queue" /\ CancelResponse(c, now)
  BY DEF WriteFailed, Idle
<1>4. call[c] \in Calls
  BY <1>1 DEF TypeOK
<1>5. /\ now \in Calls /\ now.arrival = call[c].arrival /\ now.open = call[c].open
      /\ now.read = call[c].read /\ now.write = None /\ now.finish = call[c].finish
  BY <1>4 DEF Calls
<1> HIDE DEF now
<1>6. /\ life' = [life EXCEPT ![c] = life'[c]] /\ life'[c] \in Lives
      /\ life'[c].live = life[c].live /\ life'[c].queue = life[c].queue
      /\ call' = [call EXCEPT ![c] = call'[c]] /\ call'[c] \in Calls
      /\ call'[c].arrival = call[c].arrival /\ call'[c].open = call[c].open
      /\ call'[c].write = None /\ fault' \in {None, "finished twice"}
  BY <1>1, <1>3, <1>5, CancelFacts
<1>7. call[c].open /\ ~call[c].arrival
  BY <1>2 DEF QuietInv, Quiet
<1>8. Only(c)
  BY <1>1, <1>3, <1>6 DEF Only, TypeOK
<1>9. TypeOK'
  <2>1. fault' \in Faults \cup {None}
    BY <1>6 DEF Faults
  <2>2. QED
    BY <1>1, <1>3, <1>6, <1>8, <2>1, OnlyTypes DEF TypeOK
<1>10. CountInv'
  BY <1>1, <1>3 DEF CountInv
<1>11. InOrder(c)' /\ Answered(c)'
  BY <1>2, <1>3, <1>6 DEF InOrder, Answered
<1>12. ContextInv(c)'
  <2>1. QuietInv(c)'
    BY <1>3, <1>6, <1>7 DEF QuietInv, Doing
  <2>2. OneWriter(c)' /\ LiveInv(c)' /\ EndInv(c)'
    BY <1>2, <1>3, <1>6 DEF OneWriter, LiveInv, EndInv, Writer, Doing
  <2>3. QED
    BY <1>2, <2>1, <2>2 DEF ContextInv
<1>13. Right
  BY <1>2 DEF Right
<1>14. QED
  BY <1>1, <1>8, <1>9, <1>10, <1>11, <1>12, <1>13, OnlyOthers DEF Keeps

LEMMA StateFinishedDoneKeeps ==
    ASSUME IInv, fault = None, NEW c \in Contexts, StateFinishedDone(c) PROVE Keeps(c)
<1>1. TypeOK /\ CountInv /\ ContextInv(c) /\ (c \in Streams => InOrder(c) /\ Answered(c))
  BY DEF IInv, WrittenInOrder, AnsweredBeforeFinish
<1>2. /\ life' = life /\ client' = client /\ rpc' = rpc /\ order' = order /\ sent' = sent
      /\ server' = server /\ fault' = fault /\ exec.at = "queue" /\ call[c].finish = "called"
      /\ exec' = exec \/ exec' = [at |-> "reset", ctx |-> c]
  BY DEF StateFinishedDone, Idle, ResetNext
<1>3. call' = [call EXCEPT ![c] = call'[c]] /\ call'[c] = [call[c] EXCEPT !.finish = "done"]
  BY <1>1 DEF StateFinishedDone, TypeOK
<1>4. call[c] \in Calls /\ exec \in Execs
  BY <1>1 DEF TypeOK
<1>5. /\ call'[c] \in Calls /\ call'[c].arrival = call[c].arrival /\ call'[c].open = call[c].open
      /\ call'[c].read = call[c].read /\ call'[c].write = call[c].write /\ call'[c].finish = "done"
  BY <1>3, <1>4 DEF Calls
<1>6. exec' \in Execs /\ (exec'.at = "queue" \/ (exec'.at = "reset" /\ exec'.ctx = c))
  BY <1>2, <1>4 DEF Execs
<1>7. call[c].open /\ ~call[c].arrival
  BY <1>1, <1>2 DEF ContextInv, QuietInv, Quiet
<1>8. Only(c)
  BY <1>1, <1>2, <1>3, <1>6 DEF Only, TypeOK
<1>9. TypeOK'
  BY <1>1, <1>2, <1>5, <1>6, <1>8, OnlyTypes DEF TypeOK
<1>10. CountInv'
  BY <1>1, <1>2, <1>6 DEF CountInv
<1>11. c \in Streams => InOrder(c)' /\ Answered(c)'
  BY <1>1, <1>2, <1>5 DEF InOrder, Answered
<1>12. ContextInv(c)'
  <2>1. QuietInv(c)'
    BY <1>5, <1>6, <1>7 DEF QuietInv, Doing
  <2>2. ASSUME c \in Unaries PROVE UnaryInv(c)'
    <3>1. UnaryInv(c)
      BY <1>1, <2>2 DEF ContextInv
    <3>2. QED
      BY <1>2, <1>5, <1>6, <3>1 DEF UnaryInv, Doing
  <2>3. ASSUME c \in Streams PROVE OneWriter(c)' /\ LiveInv(c)' /\ EndInv(c)'
    <3>1. OneWriter(c) /\ LiveInv(c) /\ EndInv(c)
      BY <1>1, <2>3 DEF ContextInv
    <3>2. QED
      BY <1>2, <1>5, <1>6, <3>1 DEF OneWriter, LiveInv, EndInv, Writer, Doing
  <2>4. QED
    BY <2>1, <2>2, <2>3 DEF ContextInv
<1>13. Right
  BY <1>2, NoneAssumption DEF Right
<1>14. QED
  BY <1>1, <1>8, <1>9, <1>10, <1>11, <1>12, <1>13, OnlyOthers DEF Keeps

\* Nothing is left of the call of a context that is reset, unless the client
\* of a stream broke.
LEMMA ResetUnused ==
    ASSUME IInv, fault = None, NEW c \in Contexts, Doing("reset", c),
           ~(c \in Streams /\ client[c].dead)
    PROVE  ~Executing(c) /\ ~call[c].read /\ call[c].write = None
<1>1. ContextInv(c)
  BY DEF IInv
<1>2. CASE ~call[c].open
  BY <1>1, <1>2 DEF ContextInv, QuietInv, Quiet
<1>3. CASE call[c].finish = "done" /\ c \in Unaries
  BY <1>1, <1>3 DEF ContextInv, UnaryInv, Executing
<1>4. CASE call[c].finish = "done" /\ c \in Streams
  <2>1. Answered(c) /\ InOrder(c) /\ EndInv(c)
    BY <1>1, <1>4 DEF IInv, WrittenInOrder, AnsweredBeforeFinish, ContextInv
  <2>2. QED
    BY <1>4, <2>1 DEF Answered, InOrder, EndInv, Executing
<1>5. QED
  BY <1>1, <1>2, <1>3, <1>4 DEF ContextInv, QuietInv, Contexts

LEMMA ResetKeeps ==
    ASSUME IInv, fault = None, NEW c \in Contexts, Doing("reset", c), Reset PROVE Keeps(c)
<1>1. TypeOK /\ CountInv /\ ContextInv(c) /\ exec.ctx = c
  BY DEF IInv, Doing
<1>2. /\ life' = [life EXCEPT ![c] = NewLife(c)] /\ call' = [call EXCEPT ![c] = Queued]
      /\ client' = [client EXCEPT ![c] = NoClient] /\ order' = [order EXCEPT ![c] = <<>>]
      /\ fault' = IF Executing(c) THEN "cleared in execution"
                  ELSE IF call[c].read \/ call[c].write # None THEN "cleared in use"
                  ELSE IF server = "shut" THEN "queued after shutdown" ELSE None
      /\ exec' = [at |-> "queue", ctx |-> None] /\ rpc' = rpc /\ server' = server /\ sent' = sent
  BY <1>1 DEF Reset
<1>3. life'[c] = NewLife(c) /\ call'[c] = Queued /\ client'[c] = NoClient /\ order'[c] = <<>>
  BY <1>1, <1>2 DEF TypeOK
<1>4. /\ NewLife(c) \in Lives /\ Queued \in Calls /\ NoClient \in Clients
      /\ NewLife(c).queue = <<>> /\ NewLife(c).live = {} /\ NewLife(c).next \in {"InitializedDone", "RequestDone"}
      /\ Queued.arrival /\ ~Queued.open /\ ~Queued.read /\ Queued.write = None /\ Queued.finish = "no"
      /\ NoClient.pending = 0 /\ ~NoClient.dead
  <2>1. <<>> \in Seq(Ids) /\ {} \in SUBSET Ids /\ 0 \in 0..MaxRequests
    BY ContextsAssumption
  <2>2. NewLife(c) \in Lives
    BY <2>1 DEF NewLife, Lives, States
  <2>3. Queued \in Calls /\ NoClient \in Clients
    BY <2>1 DEF Queued, Calls, NoClient, Clients
  <2>4. QED
    BY <2>2, <2>3 DEF NewLife, Queued, NoClient
<1>5. exec' \in Execs /\ exec'.at = "queue"
  BY <1>2 DEF Execs
<1>6. Only(c)
  BY <1>1, <1>2, <1>3, <1>5 DEF Only, TypeOK
<1>7. TypeOK'
  <2>1. fault' \in Faults \cup {None}
    BY <1>2 DEF Faults
  <2>2. order'[c] \in Seq(Ids)
    BY <1>3
  <2>3. QED
    BY <1>1, <1>2, <1>3, <1>4, <1>5, <1>6, <2>1, <2>2, OnlyTypes DEF TypeOK
<1>8. CountInv'
  <2>1. 0 <= sent
    BY <1>1, ContextsAssumption DEF TypeOK
  <2>2. \A d \in Contexts : client'[d].pending <= sent
    BY <1>1, <1>2, <1>3, <1>4, <2>1 DEF CountInv, TypeOK
  <2>3. QED
    BY <1>1, <1>2, <1>5, <2>2 DEF CountInv
<1>9. InOrder(c)' /\ Answered(c)'
  <2>1. life'[c].queue = <<>> /\ order'[c] = <<>> /\ call'[c].write = None /\ call'[c].finish = "no"
    BY <1>3, <1>4
  <2>2. Len(<<>>) - Len(<<>>) >= 0 /\ <<>> = SubSeq(<<>>, Len(<<>>) - Len(<<>>) + 1, Len(<<>>))
    OBVIOUS
  <2>3. QED
    BY <2>1, <2>2 DEF InOrder, Answered
<1>10. ASSUME fault' = None PROVE ContextInv(c)'
  <2>1. ~Executing(c) /\ ~Executing(c)'
    BY <1>2, <1>10, NoneAssumption DEF Executing, Faults
  <2>2. QuietInv(c)'
    BY <1>3, <1>4, <1>5, <2>1 DEF QuietInv, Quiet, Doing, NewLife
  <2>3. ASSUME c \in Unaries PROVE UnaryInv(c)'
    <3>1. \A k \in Ids : rpc[k].of = c => rpc[k].at = "done"
      BY <1>1, <2>1, <2>3 DEF ContextInv, UnaryInv, Executing
    <3>2. QED
      BY <1>2, <1>3, <1>4, <1>5, <3>1 DEF UnaryInv, Doing
  <2>4. OneWriter(c)' /\ LiveInv(c)' /\ EndInv(c)'
    BY <1>2, <1>3, <1>4, <1>5, <2>1 DEF OneWriter, LiveInv, EndInv, Doing, Writer, Executing
  <2>5. QED
    BY <2>2, <2>3, <2>4 DEF ContextInv
<1>11. Right
  BY <1>2, ResetUnused, NoneAssumption DEF Right, Faults
<1>12. QED
  BY <1>1, <1>6, <1>7, <1>8, <1>9, <1>10, <1>11, OnlyOthers DEF Keeps

(***************************************************************************)
(* The threads that execute requests.                                      *)
(***************************************************************************)

\* Where a request is once it was read.
Places == {"executing", "cancel", "write", "done"}

\* A step of a request of context c, and what it leaves alone.
RpcSteps(k, at, write) ==
    rpc' = [rpc EXCEPT ![k] = [of |-> rpc[k].of, at |-> at, write |-> write]]

Stepped(k, c, at, write) ==
    /\ rpc' \in [Ids -> Rpcs]
    /\ rpc'[k].at = at /\ rpc'[k].of = c /\ rpc'[k].write = write
    /\ \A j \in Ids : j # k => rpc'[j] = rpc[j]
    /\ \A j \in Ids : rpc'[j] = rpc[j] \/ (rpc'[j].of = c /\ rpc[j].of \in {c, None})
    /\ \A j \in Ids : rpc'[j].at = "unread" <=> rpc'[j].of = None

LEMMA RequestFacts ==
    ASSUME TypeOK, CountInv, NEW k \in Ids, NEW c \in Contexts, rpc[k].of = c,
           NEW at \in Places, NEW write \in BOOLEAN, RpcSteps(k, at, write)
    PROVE  Stepped(k, c, at, write)
<1>1. rpc \in [Ids -> Rpcs] /\ rpc[k] \in Rpcs /\ c # None
  BY NoneAssumption DEF TypeOK
<1>2. rpc'[k] = [of |-> rpc[k].of, at |-> at, write |-> write] /\ \A j \in Ids : j # k => rpc'[j] = rpc[j]
  BY <1>1 DEF RpcSteps
<1>3. rpc'[k] \in Rpcs /\ rpc'[k].at = at /\ rpc'[k].of = c /\ rpc'[k].write = write
  BY <1>1, <1>2 DEF Rpcs, Places
<1>4. rpc' \in [Ids -> Rpcs]
  <2>1. PICK f : f = [of |-> rpc[k].of, at |-> at, write |-> write]
    OBVIOUS
  <2>2. rpc' = [rpc EXCEPT ![k] = f] /\ f \in Rpcs
    BY <1>1, <1>2, <1>3, <2>1 DEF RpcSteps
  <2>3. QED
    BY <1>1, <2>2
<1>5. ASSUME NEW j \in Ids PROVE rpc'[j].at = "unread" <=> rpc'[j].of = None
  <2>1. CASE j = k
    BY <1>1, <1>3, <2>1 DEF Places
  <2>2. CASE j # k
    BY <1>2, <2>2 DEF CountInv
  <2>3. QED
    BY <2>1, <2>2
<1>6. QED
  BY <1>2, <1>3, <1>4, <1>5 DEF Stepped

\* The same for a step that leaves what is to be written.
LEMMA RequestSteps ==
    ASSUME TypeOK, NEW k \in Ids, NEW at, rpc' = [rpc EXCEPT ![k].at = at]
    PROVE  RpcSteps(k, at, rpc[k].write) /\ rpc[k].write \in BOOLEAN
<1>1. rpc \in [Ids -> Rpcs] /\ rpc[k] \in Rpcs
  BY DEF TypeOK
<1>2. [rpc[k] EXCEPT !.at = at] = [of |-> rpc[k].of, at |-> at, write |-> rpc[k].write] /\ rpc[k].write \in BOOLEAN
  BY <1>1 DEF Rpcs
<1>3. rpc' = [rpc EXCEPT ![k] = [rpc[k] EXCEPT !.at = at]]
  BY <1>1
<1>4. QED
  BY <1>2, <1>3 DEF RpcSteps

LEMMA CompleteExecutionKeeps ==
    ASSUME IInv, fault = None, NEW k \in Ids, NEW c \in Contexts, rpc[k].of = c, CompleteExecution(k)
    PROVE  Keeps(c)
<1> DEFINE queue == Append(life[c].queue, k)
<1>write. PICK write \in BOOLEAN : write = (life[c].queue = <<>>)
  OBVIOUS
<1>at. PICK at \in Places :
          at = IF life[c].next = "FinishedDone" THEN "cancel" ELSE IF write THEN "write" ELSE "done"
  BY DEF Places
<1>1. TypeOK /\ CountInv /\ ContextInv(c)
  BY DEF IInv
<1>2. /\ c \in Streams /\ c \notin Unaries /\ rpc[k].at = "executing"
      /\ OneWriter(c) /\ LiveInv(c) /\ EndInv(c) /\ QuietInv(c) /\ InOrder(c) /\ Answered(c)
  BY <1>1, ContextsAssumption DEF CompleteExecution, ContextInv, IInv, WrittenInOrder, AnsweredBeforeFinish
<1>3. k \in life[c].live
  BY <1>2 DEF LiveInv
<1>4. /\ call' = call /\ client' = client /\ exec' = exec /\ sent' = sent /\ server' = server /\ fault' = fault
      /\ life' = [life EXCEPT ![c].live = @ \ {k}, ![c].queue = queue]
      /\ order' = [order EXCEPT ![c] = Append(@, k)]
      /\ rpc' = [rpc EXCEPT ![k].write = write, ![k].at = at]
  BY <1>3, <1>write, <1>at DEF CompleteExecution
<1>5. life[c] \in Lives /\ life[c].queue \in Seq(Ids) /\ order[c] \in Seq(Ids)
  BY <1>1 DEF TypeOK, Lives
<1>6. Len(life[c].queue) <= Len(order[c])
  BY <1>2, <1>5 DEF InOrder
<1>7. /\ Len(queue) <= Len(Append(order[c], k)) /\ queue \in Seq(Ids) /\ Append(order[c], k) \in Seq(Ids)
      /\ queue # <<>> /\ (life[c].queue # <<>> => Head(queue) = Head(life[c].queue))
      /\ queue = SubSeq(Append(order[c], k), Len(Append(order[c], k)) - Len(queue) + 1, Len(Append(order[c], k)))
  <2>1. life[c].queue = SubSeq(order[c], Len(order[c]) - Len(life[c].queue) + 1, Len(order[c]))
    BY <1>2 DEF InOrder
  <2>2. EndsIn(Append(life[c].queue, k), Append(order[c], k))
    <3>1. EndsIn(life[c].queue, order[c])
      BY <1>6, <2>1, Zenon DEF EndsIn
    <3>2. QED
      BY <1>5, <3>1, AppendBoth
  <2>3. queue \in Seq(Ids) /\ Append(order[c], k) \in Seq(Ids) /\ queue # <<>>
    BY <1>5
  <2>4. life[c].queue # <<>> => Head(queue) = Head(life[c].queue)
    BY <1>5
  <2>5. QED
    BY <2>2, <2>3, <2>4 DEF EndsIn
<1>8. at = "cancel" => life[c].next = "FinishedDone"
  BY <1>at
<1>9. write <=> life[c].queue = <<>>
  BY <1>write
<1> HIDE DEF queue
<1>10. /\ rpc' \in [Ids -> Rpcs] /\ rpc'[k].at = at /\ rpc'[k].of = c /\ rpc'[k].write = write
       /\ \A j \in Ids : j # k => rpc'[j] = rpc[j]
       /\ \A j \in Ids : rpc'[j] = rpc[j] \/ (rpc'[j].of = c /\ rpc[j].of \in {c, None})
       /\ \A j \in Ids : rpc'[j].at = "unread" <=> rpc'[j].of = None
  <2>1. PICK g : g = [rpc[k] EXCEPT !.write = write]
    OBVIOUS
  <2>2. [g EXCEPT !.at = at] = [of |-> rpc[k].of, at |-> at, write |-> write]
    <3>1. PICK q \in Rpcs : q = rpc[k]
      BY <1>1 DEF TypeOK
    <3>2. g = [of |-> q.of, at |-> q.at, write |-> write]
      BY <2>1, <3>1 DEF Rpcs
    <3>3. QED
      BY <3>1, <3>2
  <2>3. rpc' = [rpc EXCEPT ![k] = [g EXCEPT !.at = at]]
    <3>1. PICK f : f = [rpc EXCEPT ![k].write = write]
      OBVIOUS
    <3>2. rpc' = [f EXCEPT ![k].at = at]
      BY <1>4, <3>1
    <3>3. f = [rpc EXCEPT ![k] = g] /\ f[k] = g
      BY <1>1, <2>1, <3>1 DEF TypeOK
    <3>4. QED
      BY <3>2, <3>3
  <2>4. RpcSteps(k, at, write)
    BY <2>2, <2>3 DEF RpcSteps
  <2>5. Stepped(k, c, at, write)
    BY <1>1, <2>4, RequestFacts
  <2>6. QED
    BY <2>5 DEF Stepped
<1>11. /\ life' = [life EXCEPT ![c] = life'[c]] /\ order' = [order EXCEPT ![c] = order'[c]]
       /\ life'[c] = [life[c] EXCEPT !.live = @ \ {k}, !.queue = queue]
       /\ order'[c] = Append(order[c], k)
  BY <1>1, <1>4 DEF TypeOK
<1>12. /\ life'[c] \in Lives /\ life'[c].next = life[c].next /\ life'[c].queue = queue
       /\ life'[c].live = life[c].live \ {k}
  <2>1. life[c] \in Lives /\ queue \in Seq(Ids) /\ life'[c] = [life[c] EXCEPT !.live = @ \ {k}, !.queue = queue]
    BY <1>5, <1>7, <1>11
  <2>2. PICK x, l, q, n : x = life'[c] /\ l = life[c] /\ q = queue /\ n = life[c].live \ {k}
    OBVIOUS
  <2>3. l \in Lives /\ q \in Seq(Ids) /\ n \in SUBSET Ids /\ x = [l EXCEPT !.live = n, !.queue = q]
    BY <2>1, <2>2 DEF Lives
  <2>4. x \in Lives /\ x.next = l.next /\ x.queue = q /\ x.live = n
    BY <2>3 DEF Lives
  <2>5. QED
    BY <2>2, <2>4
<1>13. Only(c)
  BY <1>1, <1>4, <1>10, <1>11 DEF Only, TypeOK
<1>14. TypeOK'
  BY <1>1, <1>4, <1>7, <1>10, <1>11, <1>12, <1>13, OnlyTypes DEF TypeOK
<1>15. CountInv'
  BY <1>1, <1>4, <1>10 DEF CountInv
<1>16. call[c].open /\ ~call[c].arrival
  BY <1>2 DEF QuietInv, Quiet, Executing
<1>17. client[c].dead \/ (call[c].finish = "no" /\ life[c].next # "FinishedDone")
  BY <1>2 DEF Answered, EndInv
<1>18. InOrder(c)'
  <2>1. Len(queue) \in Nat /\ Len(Append(order[c], k)) \in Nat
    BY <1>7
  <2>2. Len(order'[c]) - Len(life'[c].queue) >= 0
    BY <1>7, <1>11, <1>12, <2>1
  <2>3. life'[c].queue = SubSeq(order'[c], Len(order'[c]) - Len(life'[c].queue) + 1, Len(order'[c]))
    BY <1>7, <1>11, <1>12
  <2>4. call'[c].write # None => life'[c].queue # <<>> /\ call'[c].write = Head(life'[c].queue)
    BY <1>2, <1>4, <1>7, <1>12 DEF InOrder
  <2>5. QED
    BY <2>2, <2>3, <2>4 DEF InOrder
<1>19. Answered(c)'
  BY <1>4, <1>17 DEF Answered
<1>20. ContextInv(c)'
  <2>1. QuietInv(c)'
    BY <1>2, <1>4, <1>16 DEF QuietInv, Doing
  <2>2. OneWriter(c)'
    <3>1. CASE write
      <4>1. call[c].write = None /\ ~Doing("write", c) /\ \A j \in Ids : ~Writer(j, c)
        BY <1>2, <1>9, <3>1 DEF InOrder, OneWriter
      <4>2. \A j \in Ids : Writer(j, c)' => j = k
        BY <1>10, <4>1 DEF Writer
      <4>3. QED
        BY <1>4, <1>7, <1>12, <4>1, <4>2 DEF OneWriter, Doing
    <3>2. CASE ~write
      <4>1. \A j \in Ids : Writer(j, c)' => Writer(j, c)
        BY <1>10, <3>2 DEF Writer
      <4>2. QED
        BY <1>2, <1>4, <1>7, <1>12, <4>1 DEF OneWriter, Doing
    <3>3. QED
      BY <3>1, <3>2
  <2>3. LiveInv(c)'
    <3>1. rpc'[k].at = "write" => rpc'[k].write
      BY <1>at, <1>10
    <3>2. rpc'[k].at # "executing"
      BY <1>at, <1>10
    <3>3. QED
      BY <1>2, <1>10, <1>12, <3>1, <3>2 DEF LiveInv
  <2>4. EndInv(c)'
    BY <1>2, <1>4, <1>8, <1>10, <1>12, <1>17 DEF EndInv, Doing
  <2>5. QED
    BY <1>2, <2>1, <2>2, <2>3, <2>4 DEF ContextInv
<1>21. Right
  BY <1>4, NoneAssumption DEF Right
<1>22. QED
  BY <1>1, <1>13, <1>14, <1>15, <1>18, <1>19, <1>20, <1>21, OnlyOthers DEF Keeps

LEMMA CancelKeeps ==
    ASSUME IInv, fault = None, NEW k \in Ids, NEW c \in Contexts, rpc[k].of = c, Cancel(k)
    PROVE  Keeps(c)
<1>at. PICK at \in Places : at = IF rpc[k].write THEN "write" ELSE "done"
  BY DEF Places
<1>1. TypeOK /\ CountInv /\ ContextInv(c)
  BY DEF IInv
<1>2. rpc[k].at = "cancel"
  BY DEF Cancel
<1>3. c \notin Unaries /\ c \in Streams
  BY <1>1, <1>2 DEF ContextInv, UnaryInv, Contexts
<1>4. OneWriter(c) /\ LiveInv(c) /\ QuietInv(c) /\ InOrder(c) /\ client[c].dead
  BY <1>1, <1>2, <1>3 DEF ContextInv, IInv, WrittenInOrder, EndInv
<1>5. /\ client' = client /\ exec' = exec /\ order' = order /\ sent' = sent /\ server' = server
      /\ CancelResponse(c, call[c]) /\ rpc' = [rpc EXCEPT ![k].at = at]
  BY <1>at DEF Cancel
<1>6. RpcSteps(k, at, rpc[k].write) /\ rpc[k].write \in BOOLEAN
  BY <1>1, <1>5, RequestSteps
<1>7. /\ rpc' \in [Ids -> Rpcs] /\ rpc'[k].at = at /\ rpc'[k].of = c /\ rpc'[k].write = rpc[k].write
      /\ \A j \in Ids : j # k => rpc'[j] = rpc[j]
      /\ \A j \in Ids : rpc'[j] = rpc[j] \/ (rpc'[j].of = c /\ rpc[j].of \in {c, None})
      /\ \A j \in Ids : rpc'[j].at = "unread" <=> rpc'[j].of = None
  <2>1. Stepped(k, c, at, rpc[k].write)
    BY <1>1, <1>6, RequestFacts
  <2>2. QED
    BY <2>1 DEF Stepped
<1>8. call[c] \in Calls
  BY <1>1 DEF TypeOK
<1>9. /\ life' = [life EXCEPT ![c] = life'[c]] /\ life'[c] \in Lives
      /\ life'[c].live = life[c].live /\ life'[c].queue = life[c].queue
      /\ call' = [call EXCEPT ![c] = call'[c]] /\ call'[c] \in Calls
      /\ call'[c].arrival = call[c].arrival /\ call'[c].open = call[c].open
      /\ call'[c].write = call[c].write /\ fault' \in {None, "finished twice"}
      /\ fault' = None => call'[c].finish = call[c].finish \/ call[c].finish = "no"
  BY <1>1, <1>5, <1>8, CancelFacts
<1>10. call[c].open /\ ~call[c].arrival
  BY <1>2, <1>4 DEF QuietInv, Quiet, Executing
<1>11. Only(c)
  BY <1>1, <1>5, <1>7, <1>9 DEF Only, TypeOK
<1>12. TypeOK'
  <2>1. fault' \in Faults \cup {None}
    BY <1>9 DEF Faults
  <2>2. QED
    BY <1>1, <1>5, <1>7, <1>9, <1>11, <2>1, OnlyTypes DEF TypeOK
<1>13. CountInv'
  BY <1>1, <1>5, <1>7 DEF CountInv
<1>14. InOrder(c)' /\ Answered(c)'
  BY <1>4, <1>5, <1>9 DEF InOrder, Answered
<1>15. ASSUME fault' = None PROVE ContextInv(c)'
  <2>1. QuietInv(c)'
    BY <1>4, <1>5, <1>9, <1>10, <1>15 DEF QuietInv, Doing
  <2>2. \A j \in Ids : Writer(j, c)' <=> Writer(j, c)
    BY <1>2, <1>at, <1>7 DEF Writer
  <2>3. OneWriter(c)'
    BY <1>4, <1>5, <1>9, <2>2 DEF OneWriter, Doing
  <2>4. rpc'[k].at # "executing" /\ (rpc'[k].at = "write" => rpc'[k].write)
    BY <1>at, <1>7
  <2>5. LiveInv(c)'
    BY <1>4, <1>7, <1>9, <2>4 DEF LiveInv
  <2>6. EndInv(c)'
    BY <1>4, <1>5 DEF EndInv
  <2>7. QED
    BY <1>3, <2>1, <2>3, <2>5, <2>6 DEF ContextInv
<1>16. Right
  BY <1>3, <1>4 DEF Right
<1>17. QED
  BY <1>1, <1>11, <1>12, <1>13, <1>14, <1>15, <1>16, OnlyOthers DEF Keeps

LEMMA WriteFirstKeeps ==
    ASSUME IInv, fault = None, NEW k \in Ids, NEW c \in Contexts, rpc[k].of = c, WriteFirst(k)
    PROVE  Keeps(c)
<1> DEFINE h == Head(life[c].queue)
<1>1. TypeOK /\ CountInv /\ ContextInv(c)
  BY DEF IInv
<1>2. rpc[k].at = "write"
  BY DEF WriteFirst
<1>3. c \notin Unaries /\ c \in Streams
  BY <1>1, <1>2 DEF ContextInv, UnaryInv, Contexts
<1>4. OneWriter(c) /\ LiveInv(c) /\ EndInv(c) /\ QuietInv(c) /\ InOrder(c) /\ Answered(c) /\ Writer(k, c)
  BY <1>1, <1>2, <1>3 DEF ContextInv, IInv, WrittenInOrder, AnsweredBeforeFinish, LiveInv, Writer
<1>5. /\ life' = life /\ client' = client /\ exec' = exec /\ order' = order /\ sent' = sent /\ server' = server
      /\ Write(c, h) /\ rpc' = [rpc EXCEPT ![k].at = "done"]
  BY DEF WriteFirst
<1>6. life[c].queue \in Seq(Ids) /\ life[c].queue # <<>> /\ call[c].write = None /\ ~Doing("write", c)
  BY <1>1, <1>4 DEF TypeOK, Lives, OneWriter
<1>7. h \in Ids
  BY <1>6
<1>8. RpcSteps(k, "done", rpc[k].write) /\ rpc[k].write \in BOOLEAN
  BY <1>1, <1>5, RequestSteps
<1>9. /\ rpc' \in [Ids -> Rpcs] /\ rpc'[k].at = "done" /\ rpc'[k].of = c
      /\ \A j \in Ids : j # k => rpc'[j] = rpc[j]
      /\ \A j \in Ids : rpc'[j] = rpc[j] \/ (rpc'[j].of = c /\ rpc[j].of \in {c, None})
      /\ \A j \in Ids : rpc'[j].at = "unread" <=> rpc'[j].of = None
  <2>1. "done" \in Places
    BY DEF Places
  <2>2. Stepped(k, c, "done", rpc[k].write)
    BY <1>1, <1>8, <2>1, RequestFacts
  <2>3. QED
    BY <2>2 DEF Stepped
<1>10. h = Head(life[c].queue)
  OBVIOUS
<1> HIDE DEF h
<1>11. /\ call' = [call EXCEPT ![c] = call'[c]] /\ call'[c] \in Calls
       /\ call'[c].arrival = call[c].arrival /\ call'[c].open = call[c].open
       /\ call'[c].read = call[c].read /\ call'[c].finish = call[c].finish
       /\ \/ /\ fault' = None /\ call'[c].write = h /\ call[c].finish = "no"
          \/ /\ call[c].finish # "no"
             /\ fault' = "overlapping write" /\ call'[c].write = None
  BY <1>1, <1>5, <1>6, <1>7, WriteFacts
<1>12. call[c].open /\ ~call[c].arrival
  BY <1>2, <1>4 DEF QuietInv, Quiet, Executing
<1>13. Only(c)
  BY <1>1, <1>5, <1>9, <1>11 DEF Only, TypeOK
<1>14. TypeOK'
  <2>1. fault' \in Faults \cup {None}
    BY <1>11 DEF Faults
  <2>2. QED
    BY <1>1, <1>5, <1>9, <1>11, <1>13, <2>1, OnlyTypes DEF TypeOK
<1>15. CountInv'
  BY <1>1, <1>5, <1>9 DEF CountInv
<1>16. client[c].dead \/ call[c].finish = "no"
  BY <1>2, <1>4 DEF Answered
<1>17. InOrder(c)' /\ Answered(c)'
  <2>1. InOrder(c)'
    BY <1>4, <1>5, <1>6, <1>10, <1>11 DEF InOrder
  <2>2. Answered(c)'
    BY <1>5, <1>11, <1>16 DEF Answered
  <2>3. QED
    BY <2>1, <2>2
<1>18. ASSUME fault' = None PROVE ContextInv(c)'
  <2>1. QuietInv(c)'
    BY <1>4, <1>5, <1>11, <1>12 DEF QuietInv, Doing
  <2>2. \A j \in Ids : ~Writer(j, c)'
    <3>1. ASSUME NEW j \in Ids, Writer(j, c)' PROVE j # k
      BY <1>9, <3>1 DEF Writer
    <3>2. ASSUME NEW j \in Ids, Writer(j, c)', j # k PROVE Writer(j, c)
      BY <1>9, <3>2 DEF Writer
    <3>3. QED
      BY <1>4, <3>1, <3>2 DEF OneWriter
  <2>3. OneWriter(c)'
    BY <1>5, <1>6, <2>2 DEF OneWriter, Doing
  <2>4. LiveInv(c)' /\ EndInv(c)'
    BY <1>4, <1>5, <1>9, <1>11 DEF LiveInv, EndInv, Doing
  <2>5. QED
    BY <1>3, <2>1, <2>3, <2>4 DEF ContextInv
<1>19. Right
  BY <1>3, <1>11, <1>16, NoneAssumption DEF Right
<1>20. QED
  BY <1>1, <1>13, <1>14, <1>15, <1>17, <1>18, <1>19, OnlyOthers DEF Keeps

LEMMA UnaryCompleteKeeps ==
    ASSUME IInv, fault = None, NEW k \in Ids, NEW c \in Contexts, rpc[k].of = c, UnaryComplete(k)
    PROVE  Keeps(c)
<1>1. TypeOK /\ CountInv /\ ContextInv(c)
  BY DEF IInv
<1>2. /\ c \in Unaries /\ c \notin Streams /\ UnaryInv(c) /\ QuietInv(c) /\ rpc[k].at = "executing"
  BY <1>1, ContextsAssumption DEF UnaryComplete, ContextInv
<1>3. /\ client' = client /\ exec' = exec /\ order' = order /\ sent' = sent /\ server' = server
      /\ life' = [life EXCEPT ![c].next = "FinishedDone"] /\ Finish(c, call[c])
      /\ rpc' = [rpc EXCEPT ![k].at = "done"]
  BY DEF UnaryComplete, FinishResponse
<1>4. call[c].open /\ ~call[c].arrival /\ call[c].finish = "no"
  BY <1>2 DEF QuietInv, Quiet, Executing, UnaryInv
<1>5. call[c] \in Calls /\ life[c] \in Lives
  BY <1>1 DEF TypeOK
<1>6. /\ call' = [call EXCEPT ![c] = call'[c]] /\ call'[c] \in Calls
      /\ call'[c].arrival = call[c].arrival /\ call'[c].open = call[c].open
      /\ call'[c].read = call[c].read /\ call'[c].write = call[c].write /\ fault' = None
  BY <1>1, <1>3, <1>4, <1>5, FinishFacts
<1>7. life' = [life EXCEPT ![c] = life'[c]] /\ life'[c] = [life[c] EXCEPT !.next = "FinishedDone"]
  BY <1>1, <1>3 DEF TypeOK
<1>8. life'[c] \in Lives
  BY <1>5, <1>7 DEF Lives, States
<1>9. RpcSteps(k, "done", rpc[k].write) /\ rpc[k].write \in BOOLEAN
  BY <1>1, <1>3, RequestSteps
<1>10. /\ rpc' \in [Ids -> Rpcs] /\ rpc'[k].at = "done" /\ rpc'[k].of = c
       /\ \A j \in Ids : j # k => rpc'[j] = rpc[j]
       /\ \A j \in Ids : rpc'[j] = rpc[j] \/ (rpc'[j].of = c /\ rpc[j].of \in {c, None})
       /\ \A j \in Ids : rpc'[j].at = "unread" <=> rpc'[j].of = None
  <2>1. "done" \in Places
    BY DEF Places
  <2>2. Stepped(k, c, "done", rpc[k].write)
    BY <1>1, <1>9, <2>1, RequestFacts
  <2>3. QED
    BY <2>2 DEF Stepped
<1>11. Only(c)
  BY <1>1, <1>3, <1>6, <1>7, <1>10 DEF Only, TypeOK
<1>12. TypeOK'
  BY <1>1, <1>3, <1>6, <1>8, <1>10, <1>11, OnlyTypes DEF TypeOK
<1>13. CountInv'
  BY <1>1, <1>3, <1>10 DEF CountInv
<1>14. ContextInv(c)'
  <2>1. QuietInv(c)'
    BY <1>2, <1>3, <1>4, <1>6 DEF QuietInv, Doing
  <2>2. \A j \in Ids : rpc'[j].of = c => rpc'[j].at = "done"
    <3>1. ASSUME NEW j \in Ids, rpc[j].of = c, j # k PROVE rpc[j].at = "done"
      BY <1>2, <3>1 DEF UnaryInv
    <3>2. QED
      BY <1>10, <3>1
  <2>3. UnaryInv(c)'
    BY <1>2, <1>3, <1>6, <2>2 DEF UnaryInv, Doing
  <2>4. QED
    BY <1>2, <2>1, <2>3 DEF ContextInv
<1>15. Right
  BY <1>6, NoneAssumption DEF Right
<1>16. QED
  BY <1>1, <1>2, <1>11, <1>12, <1>13, <1>14, <1>15, OnlyOthers DEF Keeps

(***************************************************************************)
(* The theorems.                                                           *)
(***************************************************************************)

LEMMA InitIInv == Init => IInv
<1> SUFFICES ASSUME Init PROVE IInv
  OBVIOUS
<1>1. ASSUME NEW c \in Contexts
      PROVE  /\ life[c] = NewLife(c) /\ call[c] = Queued /\ client[c] = NoClient /\ order[c] = <<>>
  BY DEF Init
<1>2. \A k \in Ids : rpc[k].at = "unread" /\ rpc[k].of = None /\ ~rpc[k].write
  BY DEF Init
<1>3. ASSUME NEW c \in Contexts
      PROVE  /\ NewLife(c) \in Lives /\ Queued \in Calls /\ NoClient \in Clients /\ <<>> \in Seq(Ids)
             /\ NewLife(c).queue = <<>> /\ NewLife(c).live = {}
             /\ NewLife(c).next \in {"InitializedDone", "RequestDone"}
             /\ ~Queued.open /\ ~Queued.read /\ Queued.write = None /\ Queued.finish = "no"
             /\ NoClient.pending = 0 /\ ~NoClient.dead
  <2>1. <<>> \in Seq(Ids) /\ {} \in SUBSET Ids /\ 0 \in 0..MaxRequests
    BY ContextsAssumption
  <2>2. NewLife(c) \in Lives
    BY <2>1 DEF NewLife, Lives, States
  <2>3. Queued \in Calls /\ NoClient \in Clients
    BY <2>1 DEF Queued, Calls, NoClient, Clients
  <2>4. QED
    BY <2>1, <2>2, <2>3 DEF NewLife, Queued, NoClient
<1>4. exec.at = "queue" /\ exec.ctx = None /\ exec \in Execs
  BY DEF Init, Execs
<1>5. TypeOK
  <2>1. [at |-> "unread", of |-> None, write |-> FALSE] \in Rpcs
    BY DEF Rpcs
  <2>2. rpc \in [Ids -> Rpcs]
    BY <2>1 DEF Init
  <2>3. /\ life \in [Contexts -> Lives] /\ call \in [Contexts -> Calls]
        /\ client \in [Contexts -> Clients] /\ order \in [Contexts -> Seq(Ids)]
    BY <1>3 DEF Init
  <2>4. server = "running" /\ sent \in 0..MaxRequests /\ fault = None
    BY ContextsAssumption DEF Init
  <2>5. QED
    BY <1>4, <2>2, <2>3, <2>4 DEF TypeOK
<1>6. CountInv
  BY <1>1, <1>2, <1>3, <1>4 DEF CountInv, Init
<1>7. ASSUME NEW c \in Contexts PROVE InOrder(c) /\ Answered(c)
  <2>1. life[c].queue = <<>> /\ order[c] = <<>> /\ call[c].write = None /\ call[c].finish = "no"
    BY <1>1, <1>3
  <2>2. Len(<<>>) - Len(<<>>) >= 0 /\ <<>> = SubSeq(<<>>, Len(<<>>) - Len(<<>>) + 1, Len(<<>>))
    OBVIOUS
  <2>3. QED
    BY <2>1, <2>2 DEF InOrder, Answered
<1>8. ASSUME NEW c \in Contexts PROVE ContextInv(c)
  <2>1. \A k \in Ids : rpc[k].of # c
    BY <1>2, NoneAssumption
  <2>2. /\ ~Executing(c) /\ \A k \in Ids : ~Writer(k, c)
    BY <2>1 DEF Executing, Writer
  <2>3. QuietInv(c)
    BY <1>1, <1>3, <1>4, <2>2 DEF QuietInv, Quiet, Doing
  <2>4. UnaryInv(c) /\ OneWriter(c) /\ LiveInv(c) /\ EndInv(c)
    BY <1>1, <1>3, <1>4, <2>1, <2>2 DEF UnaryInv, OneWriter, LiveInv, EndInv, Doing
  <2>5. QED
    BY <2>3, <2>4 DEF ContextInv
<1>9. QED
  BY <1>5, <1>6, <1>7, <1>8 DEF IInv, WrittenInOrder, AnsweredBeforeFinish, Contexts

\* Every step keeps the invariant, and misuses a call only for a client that broke.
LEMMA NextIInv == IInv /\ [Next]_vars => IInv' /\ (Right \/ UNCHANGED vars)
<1> SUFFICES ASSUME IInv, [Next]_vars PROVE IInv' /\ (Right \/ UNCHANGED vars)
  OBVIOUS
<1>1. CASE UNCHANGED vars
  <2>1. \A d \in Contexts : Same(d)
    BY <1>1 DEF vars, Same, Doing
  <2>2. TypeOK' /\ CountInv'
    BY <1>1 DEF vars, IInv, TypeOK, CountInv
  <2>3. \A d \in Streams : InOrder(d)' /\ Answered(d)'
    BY <2>1, SameStream DEF IInv, WrittenInOrder, AnsweredBeforeFinish, Contexts
  <2>4. fault' = None => \A d \in Contexts : ContextInv(d)'
    BY <1>1, <2>1, SameContext DEF IInv, vars
  <2>5. QED
    BY <1>1, <2>2, <2>3, <2>4 DEF IInv, WrittenInOrder, AnsweredBeforeFinish
<1>2. ASSUME NEW c \in Contexts, fault = None, Connect(c) \/ Talk(c) \/ Handle(c) PROVE IInv' /\ Right
  <2>1. Keeps(c)
    BY <1>2, ConnectKeeps, TalkKeeps, StateInitializedDoneKeeps, UnaryRequestDoneKeeps, StateRequestDoneKeeps,
       ReadFailedKeeps, StateResponseDoneKeeps, WriteFailedKeeps, StateFinishedDoneKeeps DEF Handle
  <2>2. QED
    BY <1>2, <2>1, KeepsAll
<1>3. ASSUME fault = None, Continue PROVE IInv' /\ Right
  <2>1. PICK c \in Contexts : c = exec.ctx
    BY <1>3 DEF Continue, ReadNext, WriteNext, Reset, IInv, CountInv
  <2>2. Keeps(c)
    BY <1>3, <2>1, ReadNextKeeps, WriteNextKeeps, ResetKeeps DEF Continue, Doing, ReadNext, WriteNext, Reset
  <2>3. QED
    BY <1>3, <2>2, KeepsAll
<1>4. ASSUME NEW k \in Ids, fault = None, Execute(k) PROVE IInv' /\ Right
  <2>1. rpc[k].of \in Contexts
    <3>1. rpc[k].at # "unread" /\ rpc[k].of \in Contexts \cup {None}
      BY <1>4 DEF Execute, CompleteExecution, Cancel, WriteFirst, UnaryComplete, IInv, TypeOK, Rpcs
    <3>2. QED
      BY <3>1 DEF IInv, CountInv
  <2>2. PICK c \in Contexts : rpc[k].of = c
    BY <2>1
  <2>3. Keeps(c)
    BY <1>4, <2>2, CompleteExecutionKeeps, CancelKeeps, WriteFirstKeeps, UnaryCompleteKeeps DEF Execute
  <2>4. QED
    BY <1>4, <2>3, KeepsAll
<1>5. ASSUME fault = None, ShutdownServer \/ ShutdownExecutor PROVE IInv' /\ Right
  <2>1. /\ life' = life /\ call' = call /\ client' = client /\ rpc' = rpc /\ exec' = exec
        /\ order' = order /\ sent' = sent /\ fault' = fault
        /\ server' \in {"running", "draining", "halted", "shut"}
    BY <1>5 DEF ShutdownServer, ShutdownExecutor
  <2>2. \A d \in Contexts : Same(d)
    BY <2>1 DEF Same, Doing
  <2>3. TypeOK' /\ CountInv'
    BY <2>1 DEF IInv, TypeOK, CountInv
  <2>4. \A d \in Streams : InOrder(d)' /\ Answered(d)'
    BY <2>2, SameStream DEF IInv, WrittenInOrder, AnsweredBeforeFinish, Contexts
  <2>5. \A d \in Contexts : ContextInv(d)'
    BY <1>5, <2>2, SameContext DEF IInv
  <2>6. Right
    BY <1>5, <2>1, NoneAssumption DEF Right
  <2>7. QED
    BY <2>3, <2>4, <2>5, <2>6 DEF IInv, WrittenInOrder, AnsweredBeforeFinish
<1>6. CASE fault # None
  <2>1. UNCHANGED vars
    BY <1>6 DEF Next, Handle, StateInitializedDone, UnaryRequestDone, StateRequestDone, ReadFailed,
       StateResponseDone, WriteFailed, StateFinishedDone, Idle, Continue, ReadNext, WriteNext, Reset,
       Execute, CompleteExecution, Cancel, WriteFirst, UnaryComplete, ShutdownServer, ShutdownExecutor, Ended
  <2>2. QED
    BY <1>1, <2>1
<1>7. CASE fault = None
  BY <1>1, <1>2, <1>3, <1>4, <1>5, <1>7 DEF Next, Ended
<1>8. QED
  BY <1>6, <1>7

\* The inductive invariant holds in every state.
THEOREM Invariance == Spec => []IInv
<1>1. IInv /\ [Next]_vars => IInv'
  BY NextIInv
<1>2. QED
  BY InitIInv, <1>1, PTL DEF Spec

\* The members keep the values they were declared to take.
THEOREM TypeCorrect == Spec => []TypeOK
<1>1. IInv => TypeOK
  BY DEF IInv
<1>2. QED
  BY <1>1, Invariance, PTL

\* Whoever of the executor and the request threads writes a response, each
\* leaves once and in the order in which the requests completed.
THEOREM InOrderAlways == Spec => []WrittenInOrder
<1>1. IInv => WrittenInOrder
  BY DEF IInv
<1>2. QED
  BY <1>1, Invariance, PTL

\* A stream whose client did not break is finished only when every message was
\* read, executed and answered.
THEOREM AnsweredFirst == Spec => []AnsweredBeforeFinish
<1>1. IInv => AnsweredBeforeFinish
  BY DEF IInv
<1>2. QED
  BY <1>1, Invariance, PTL

\* While no client breaks, no write overlaps another, no call is finished
\* twice, and nothing is cleared while an operation or a thread uses it.
THEOREM CallsRight == Spec => CallsUsedRightly
<1> DEFINE A == fault' \in Faults \ {"queued after shutdown"} => \E c \in Streams : client[c].dead
<1>1. IInv /\ [Next]_vars => [A]_vars
  BY NextIInv DEF Right
<1> HIDE DEF A
<1>2. Spec => [][A]_vars
  BY <1>1, Invariance, PTL DEF Spec
<1>3. QED
  BY <1>2 DEF A, CallsUsedRightly
=============================================================================
