-------------------------- MODULE PerfClientProofs --------------------------
(***************************************************************************)
(* The performance client keeps the sequences of a stream apart, and its   *)
(* load within the level it measures, for any setups, numbers of workers,  *)
(* levels and lengths of sequences.                                        *)
(***************************************************************************)
EXTENDS PerfClient, NaturalsInduction, WellFoundedInduction, FiniteSetTheorems,
        SequenceTheorems, TLAPS

-----------------------------------------------------------------------------
(* Numbers and sequences.                                                    *)

(* The indices of the requests in some condition have a least one.           *)
LEMMA LeastIsLeast ==
  ASSUME NEW T \in SUBSET Nat, T # {}
  PROVE  Min(T) \in T /\ \A n \in T : Min(T) <= n
<1>1. PICK R : R = {ss \in Nat \X Nat : ss[1] < ss[2]}
  OBVIOUS
<1>2. R = OpToRel(<, Nat)
  BY <1>1 DEF OpToRel
<1>3. PICK m \in T : \A n \in T : ~ (<<n, m>> \in R)
  BY <1>2, NatLessThanWellFounded, WFMin
<1>4. ASSUME NEW n \in T PROVE m <= n
  <2>1. <<n, m>> \notin R /\ m \in Nat /\ n \in Nat
    BY <1>3
  <2>2. QED
    BY <1>1, <2>1
<1>5. \E x \in T : \A y \in T : x <= y
  BY <1>4
<1>6. Min(T) = CHOOSE x \in T : \A y \in T : x <= y
  BY DEF Min
<1>7. QED
  BY <1>5, <1>6

(* What taking an element out of a sequence leaves.                          *)
LEMMA RemoveAtLeaves ==
  ASSUME NEW S, NEW q \in Seq(S), NEW i \in 1..Len(q), NEW r, r = RemoveAt(q, i)
  PROVE  /\ r \in Seq(S)
         /\ Len(r) = Len(q) - 1
         /\ \A k \in 1..Len(r) : r[k] = IF k < i THEN q[k] ELSE q[k + 1]
<1>1. PICK a, b : a = SubSeq(q, 1, i - 1) /\ b = SubSeq(q, i + 1, Len(q))
  OBVIOUS
<1>2. Len(q) \in Nat /\ i \in Nat /\ 1 <= i /\ i <= Len(q)
  OBVIOUS
<1>3. a \in Seq(S) /\ Len(a) = i - 1 /\ \A k \in 1..(i - 1) : a[k] = q[k]
  BY <1>1, <1>2
<1>4. b \in Seq(S) /\ Len(b) = Len(q) - i /\ \A k \in 1..(Len(q) - i) : b[k] = q[i + k]
  BY <1>1, <1>2
<1>5. r = a \o b
  BY <1>1 DEF RemoveAt
<1>6. r \in Seq(S) /\ Len(r) = Len(q) - 1
  BY <1>2, <1>3, <1>4, <1>5
<1>7. ASSUME NEW k \in 1..Len(r) PROVE r[k] = IF k < i THEN q[k] ELSE q[k + 1]
  <2>1. CASE k < i
    BY <1>2, <1>3, <1>4, <1>5, <1>6, <2>1
  <2>2. CASE ~(k < i)
    <3>1. k - (i - 1) \in 1..(Len(q) - i) /\ i + (k - (i - 1)) = k + 1
      BY <1>2, <1>6, <2>2
    <3>2. r[k] = b[k - (i - 1)]
      BY <1>2, <1>3, <1>4, <1>5, <1>6, <2>2
    <3>3. QED
      BY <1>4, <2>2, <3>1, <3>2
  <2>3. QED
    BY <2>1, <2>2
<1>8. QED
  BY <1>6, <1>7

-----------------------------------------------------------------------------
(* What the operations do to the requests of a context.                      *)

(* One request more.                                                         *)
LEMMA OneMore ==
  ASSUME NEW q \in Seq(Request), InOrder(q), Unended(q), Apart(q), NEW m \in Marks,
         m \in {"start", "both"} => q = <<>>,
         NEW r, r = Append(q, Sent(m))
  PROVE  /\ r \in Seq(Request) /\ InOrder(r) /\ Apart(r)
         /\ m \in {"end", "both"} => Ended(r)
         /\ m \notin {"end", "both"} => Unended(r)
<1>1. PICK e : e = Sent(m)
  OBVIOUS
<1>2. e \in Request /\ e.at = "server" /\ e.mark = m
  BY <1>1 DEF Sent, Request
<1>3. /\ r \in Seq(Request) /\ Len(r) = Len(q) + 1 /\ Len(q) \in Nat
      /\ \A k \in 1..Len(q) : r[k] = q[k]
      /\ r[Len(q) + 1] = e
  BY <1>1, <1>2
<1>4. DOMAIN r = 1..(Len(q) + 1) /\ DOMAIN q = 1..Len(q)
  BY <1>3
<1>5. InOrder(r)
  <2>1. ASSUME setup.sequence, NEW i \in DOMAIN r, NEW j \in DOMAIN r, i < j, ~r[j].refused
        PROVE  /\ r[j].at = "ready" => r[i].at = "ready"
               /\ r[i].at = "server" => r[j].at = "server"
    <3>1. CASE j \in 1..Len(q)
      <4>1. i \in 1..Len(q)
        BY <1>3, <1>4, <2>1, <3>1
      <4>2. QED
        BY <1>3, <1>4, <2>1, <3>1, <4>1 DEF InOrder
    <3>2. CASE j = Len(q) + 1
      BY <1>2, <1>3, <3>2
    <3>3. QED
      BY <1>3, <1>4, <3>1, <3>2
  <2>2. QED
    BY <2>1 DEF InOrder
<1>6. \A i \in 1..Len(q) : ~IsLast(r[i])
  BY <1>3, <1>4 DEF Unended
<1>7. Apart(r)
  <2>1. ASSUME NEW i \in 1..(Len(r) - 1) PROVE ~IsLast(r[i]) /\ ~IsFirst(r[i + 1])
    <3>1. i \in 1..Len(q) /\ q # <<>> /\ i \in Nat
      BY <1>3
    <3>2. ~IsFirst(e)
      BY <1>2, <3>1 DEF IsFirst
    <3>3. CASE i = Len(q)
      BY <1>3, <1>6, <3>1, <3>2, <3>3
    <3>4. CASE i # Len(q)
      <4>1. i \in 1..(Len(q) - 1) /\ i + 1 \in 1..Len(q)
        BY <1>3, <3>1, <3>4
      <4>2. ~IsFirst(q[i + 1])
        BY <4>1 DEF Apart
      <4>3. QED
        BY <1>3, <1>6, <3>1, <4>1, <4>2
    <3>5. QED
      BY <3>3, <3>4
  <2>2. QED
    BY <2>1 DEF Apart
<1>8. IsLast(e) <=> m \in {"end", "both"}
  BY <1>2 DEF IsLast
<1>9. m \in {"end", "both"} => Ended(r)
  <2>1. r # <<>>
    BY <1>3
  <2>2. QED
    BY <1>3, <1>8, <2>1 DEF Ended
<1>10. m \notin {"end", "both"} => Unended(r)
  BY <1>3, <1>4, <1>6, <1>8 DEF Unended
<1>11. QED
  BY <1>3, <1>5, <1>7, <1>9, <1>10

(* One request less, anywhere.                                               *)
LEMMA OneLess ==
  ASSUME NEW q \in Seq(Request), NEW i \in 1..Len(q), InOrder(q), Apart(q),
         NEW r, r = RemoveAt(q, i)
  PROVE  r \in Seq(Request) /\ InOrder(r) /\ Apart(r) /\ (Unended(q) => Unended(r))
<1>1. /\ r \in Seq(Request) /\ Len(r) = Len(q) - 1 /\ Len(q) \in Nat /\ i \in Nat
      /\ \A k \in 1..Len(r) : r[k] = IF k < i THEN q[k] ELSE q[k + 1]
  BY RemoveAtLeaves
<1>2. DOMAIN r = 1..(Len(q) - 1) /\ DOMAIN q = 1..Len(q)
  BY <1>1
<1>3. InOrder(r)
  <2>1. ASSUME setup.sequence, NEW k \in DOMAIN r, NEW j \in DOMAIN r, k < j, ~r[j].refused
        PROVE  /\ r[j].at = "ready" => r[k].at = "ready"
               /\ r[k].at = "server" => r[j].at = "server"
    <3>1. PICK x, y : /\ x \in DOMAIN q /\ y \in DOMAIN q /\ x < y
                      /\ r[k] = q[x] /\ r[j] = q[y]
      <4>1. CASE k < i /\ j < i
        BY <1>1, <1>2, <2>1, <4>1
      <4>2. CASE k < i /\ ~(j < i)
        <5>1. j + 1 \in DOMAIN q /\ k \in DOMAIN q /\ k < j + 1 /\ r[k] = q[k] /\ r[j] = q[j + 1]
          BY <1>1, <1>2, <2>1, <4>2
        <5>2. QED
          BY <5>1
      <4>3. CASE ~(k < i)
        <5>1. /\ j + 1 \in DOMAIN q /\ k + 1 \in DOMAIN q /\ k + 1 < j + 1
              /\ r[k] = q[k + 1] /\ r[j] = q[j + 1]
          BY <1>1, <1>2, <2>1, <4>3
        <5>2. QED
          BY <5>1
      <4>4. QED
        BY <4>1, <4>2, <4>3
    <3>2. QED
      BY <2>1, <3>1 DEF InOrder
  <2>2. QED
    BY <2>1 DEF InOrder
<1>4. Apart(r)
  <2>1. ASSUME NEW k \in 1..(Len(r) - 1) PROVE ~IsLast(r[k]) /\ ~IsFirst(r[k + 1])
    <3>1. /\ k \in 1..(Len(q) - 1) /\ k + 1 \in 1..(Len(q) - 1)
          /\ k \in 1..Len(r) /\ k + 1 \in 1..Len(r)
      BY <1>1
    <3>2. r[k] = q[k] \/ r[k] = q[k + 1]
      BY <1>1, <3>1
    <3>3. r[k + 1] = q[k + 1] \/ r[k + 1] = q[k + 1 + 1]
      BY <1>1, <3>1
    <3>4. ~IsFirst(q[k + 1]) /\ ~IsFirst(q[k + 1 + 1])
      BY <3>1 DEF Apart
    <3>5. QED
      BY <3>1, <3>2, <3>3, <3>4 DEF Apart
  <2>2. QED
    BY <2>1 DEF Apart
<1>5. ASSUME Unended(q) PROVE Unended(r)
  <2>1. ASSUME NEW k \in DOMAIN r PROVE ~IsLast(r[k])
    <3>1. k \in DOMAIN q /\ k + 1 \in DOMAIN q /\ k \in 1..Len(r)
      BY <1>1, <1>2
    <3>2. r[k] = q[k] \/ r[k] = q[k + 1]
      BY <1>1, <3>1
    <3>3. QED
      BY <1>5, <3>1, <3>2 DEF Unended
  <2>2. QED
    BY <2>1 DEF Unended
<1>6. QED
  BY <1>1, <1>3, <1>4, <1>5

(* The oldest request of an ended sequence is taken: what is left is still   *)
(* the rest of that sequence, or that was its end.                           *)
LEMMA OldestTaken ==
  ASSUME NEW q \in Seq(Request), 1 \in 1..Len(q), Apart(q), Ended(q),
         NEW r, r = RemoveAt(q, 1)
  PROVE  IF IsLast(q[1]) THEN r = <<>> ELSE Ended(r)
<1>0. PICK i : i = 1
  OBVIOUS
<1>1. /\ r \in Seq(Request) /\ Len(r) = Len(q) - 1 /\ Len(q) \in Nat
      /\ \A k \in 1..Len(r) : r[k] = IF k < i THEN q[k] ELSE q[k + 1]
  <2>1. i \in 1..Len(q) /\ r = RemoveAt(q, i)
    BY <1>0
  <2>2. QED
    BY <2>1, RemoveAtLeaves
<1>2. PICK n : n = Len(q)
  OBVIOUS
<1>3. n \in Nat /\ 1 <= n /\ IsLast(q[n]) /\ \A k \in 1..(n - 1) : ~IsLast(q[k])
  BY <1>1, <1>2 DEF Apart, Ended
<1>4. CASE IsLast(q[1])
  <2>1. n = 1
    BY <1>3, <1>4
  <2>2. Len(r) = 0
    BY <1>1, <1>2, <2>1
  <2>3. QED
    BY <1>1, <1>4, <2>2
<1>5. CASE ~IsLast(q[1])
  <2>1. n # 1
    BY <1>3, <1>5
  <2>2. n - 1 \in 1..Len(r) /\ Len(r) = n - 1 /\ n - 1 >= 1 /\ n - 1 + 1 = n
    BY <1>1, <1>2, <1>3, <2>1
  <2>3. r[n - 1] = q[n - 1 + 1]
    BY <1>0, <1>1, <2>2
  <2>4. r[Len(r)] = q[n]
    BY <2>2, <2>3, Zenon
  <2>5. r # <<>>
    BY <1>1, <2>2
  <2>6. QED
    BY <1>3, <1>5, <2>4, <2>5 DEF Ended
<1>6. QED
  BY <1>4, <1>5

(* Progress of a request changes no mark.                                    *)
LEMMA SameMarks ==
  ASSUME NEW q \in Seq(Request), NEW r \in Seq(Request), Len(r) = Len(q),
         \A k \in 1..Len(q) : r[k].mark = q[k].mark
  PROVE  /\ Apart(r) <=> Apart(q)
         /\ Unended(r) <=> Unended(q)
         /\ Ended(r) <=> Ended(q)
         /\ r = <<>> <=> q = <<>>
<1>1. Len(q) \in Nat /\ DOMAIN q = 1..Len(q) /\ DOMAIN r = 1..Len(q)
  OBVIOUS
<1>2. \A k \in 1..Len(q) : (IsLast(r[k]) <=> IsLast(q[k])) /\ (IsFirst(r[k]) <=> IsFirst(q[k]))
  BY DEF IsLast, IsFirst
<1>3. r = <<>> <=> q = <<>>
  BY <1>1
<1>4. q # <<>> => Len(q) \in 1..Len(q)
  BY <1>1
<1>5. \A k \in 1..(Len(q) - 1) : k \in 1..Len(q) /\ k + 1 \in 1..Len(q)
  BY <1>1
<1>6. QED
  BY <1>1, <1>2, <1>3, <1>4, <1>5 DEF Apart, Unended, Ended

(* The first request that waits for the server or the reader moves on, or    *)
(* one that is refused.                                                      *)
MovesFirst(q, r, i, from, to) ==
  /\ \/ from = "server" /\ to = "answered"
     \/ from = "answered" /\ to = "ready"
  /\ q[i].at = from
  /\ r[i].refused \/ \A k \in 1..Len(q) : k < i => q[k].at # from
  /\ from = "answered" => r[i].refused = q[i].refused
  /\ Len(r) = Len(q)
  /\ r[i].at = to
  /\ \A k \in 1..Len(q) : k # i => r[k] = q[k]

LEMMA FirstMoves ==
  ASSUME NEW q \in Seq(Request), InOrder(q), NEW i \in 1..Len(q), NEW from, NEW to,
         NEW r \in Seq(Request), MovesFirst(q, r, i, from, to)
  PROVE  InOrder(r)
<1>1. PICK n : n = Len(q)
  OBVIOUS
<1>2. n \in Nat /\ DOMAIN q = 1..n /\ \A k \in 1..n : q[k] \in Request
  BY <1>1
<1>3. i \in 1..n /\ q[i].at = from /\ r[i].at = to
  BY <1>1 DEF MovesFirst
<1>4. r[i].refused \/ \A k \in 1..n : k < i => q[k].at # from
  BY <1>1 DEF MovesFirst
<1>5. DOMAIN r = 1..n /\ \A k \in 1..n : k # i => r[k] = q[k]
  BY <1>1 DEF MovesFirst
<1>6. setup.sequence => \A j, k \in 1..n : j < k /\ ~q[k].refused =>
                           /\ q[k].at = "ready" => q[j].at = "ready"
                           /\ q[j].at = "server" => q[k].at = "server"
  BY <1>2 DEF InOrder
<1>7. \A k \in 1..n : q[k].at \in {"server", "answered", "ready"}
  BY <1>2 DEF Request
<1>8. ASSUME setup.sequence, NEW j \in 1..n, NEW k \in 1..n, j < k, ~r[k].refused
      PROVE  /\ r[k].at = "ready" => r[j].at = "ready"
             /\ r[j].at = "server" => r[k].at = "server"
  <2>0. \/ from = "server" /\ to = "answered"
        \/ from = "answered" /\ to = "ready" /\ r[i].refused = q[i].refused
    BY DEF MovesFirst
  <2>1. CASE j = i
    <3>1. k # i /\ r[j].at = to /\ r[k] = q[k] /\ ~q[k].refused
      BY <1>2, <1>3, <1>5, <1>8, <2>1
    <3>2. q[k].at = "ready" => q[j].at = "ready"
      BY <1>6, <1>8, <3>1
    <3>3. QED
      BY <1>3, <2>0, <2>1, <3>1, <3>2
  <2>2. CASE k = i
    <3>1. j # i /\ r[k].at = to /\ r[j] = q[j] /\ q[j].at # from
      BY <1>2, <1>3, <1>4, <1>5, <1>8, <2>2
    <3>2. CASE from = "server"
      BY <2>0, <3>1, <3>2
    <3>3. CASE from # "server"
      <4>1. from = "answered" /\ to = "ready" /\ ~q[k].refused /\ q[k].at = "answered"
        BY <1>3, <1>8, <2>0, <2>2, <3>3
      <4>2. q[j].at # "server"
        BY <1>6, <1>8, <4>1
      <4>3. q[j].at = "ready"
        BY <1>7, <3>1, <4>1, <4>2
      <4>4. QED
        BY <3>1, <4>1, <4>3
    <3>4. QED
      BY <3>2, <3>3
  <2>3. CASE j # i /\ k # i
    <3>1. r[j] = q[j] /\ r[k] = q[k]
      BY <1>5, <2>3
    <3>2. /\ q[k].at = "ready" => q[j].at = "ready"
          /\ q[j].at = "server" => q[k].at = "server"
      BY <1>6, <1>8, <3>1
    <3>3. QED
      BY <3>1, <3>2
  <2>4. QED
    BY <2>1, <2>2, <2>3
<1>9. QED
  BY <1>5, <1>8 DEF InOrder

(* Over a stream the ready request is the oldest of the sequence, unless it  *)
(* was refused.                                                              *)
LEMMA ReadyIsOldest ==
  ASSUME NEW q \in Seq(Request), InOrder(q), setup.sequence,
         NEW T, T = {k \in 1..Len(q) : q[k].at = "ready"}, T # {},
         ~q[Min(T)].refused
  PROVE  Min(T) = 1 /\ 1 \in 1..Len(q)
<1>1. Len(q) \in Nat /\ DOMAIN q = 1..Len(q) /\ T \in SUBSET Nat
  OBVIOUS
<1>2. Min(T) \in T /\ \A k \in T : Min(T) <= k
  BY <1>1, LeastIsLeast
<1>3. PICK i : i = Min(T)
  OBVIOUS
<1>4. i \in 1..Len(q) /\ q[i].at = "ready"
  BY <1>2, <1>3
<1>5. 1 \in 1..Len(q)
  BY <1>1, <1>4
<1>6. 1 < i => q[1].at = "ready"
  BY <1>1, <1>3, <1>4, <1>5 DEF InOrder
<1>7. 1 \in T
  BY <1>1, <1>4, <1>5, <1>6
<1>8. i <= 1
  BY <1>2, <1>3, <1>7
<1>9. QED
  BY <1>3, <1>4, <1>5, <1>8
-----------------------------------------------------------------------------
(* One thread takes a step.                                                  *)

(* Its locals and its contexts become those of a state in order.             *)
Moves(t) ==
  \E w \in Worker, q \in Seq(Context) :
    /\ workers' = [workers EXCEPT ![t] = w]
    /\ ctxs' = [ctxs EXCEPT ![t] = q]
    /\ LoopInv(w, q) /\ StreamInv(w, q)

(* What IInv says of one thread.                                             *)
LEMMA OfThread ==
  ASSUME IInv, NEW t \in Threads
  PROVE  /\ workers[t] \in Worker /\ ctxs[t] \in Seq(Context)
         /\ LoopInv(workers[t], ctxs[t]) /\ StreamInv(workers[t], ctxs[t])
         /\ workers = [workers EXCEPT ![t] = workers[t]]
         /\ ctxs = [ctxs EXCEPT ![t] = ctxs[t]]
BY DEF IInv, TypeOK

(* A worker goes on to another place in its loop.                            *)
LEMMA GoesTo ==
  ASSUME IInv, NEW t \in Threads, NEW p \in WorkerPcs, Go(t, p)
  PROVE  \E w \in Worker : /\ workers' = [workers EXCEPT ![t] = w]
                           /\ w = [workers[t] EXCEPT !.pc = p]
<1>1. PICK w : w = [workers[t] EXCEPT !.pc = p]
  OBVIOUS
<1>2. workers[t] \in Worker
  BY OfThread
<1>3. w \in Worker
  BY <1>1, <1>2 DEF Worker
<1>4. workers' = [workers EXCEPT ![t] = w]
  BY <1>1 DEF Go
<1>5. QED
  BY <1>1, <1>3, <1>4

(* A worker gives up: an error, or a return.                                 *)
LEMMA FailsTo ==
  ASSUME IInv, NEW t \in Threads, Fail(t)
  PROVE  \E w \in Worker : workers' = [workers EXCEPT ![t] = w] /\ w.pc = "leave"
<1>1. PICK w : w = [workers[t] EXCEPT !.pc = "leave", !.err = TRUE]
  OBVIOUS
<1>2. workers[t] \in Worker
  BY OfThread
<1>3. w \in Worker /\ w.pc = "leave"
  BY <1>1, <1>2 DEF Worker, WorkerPcs
<1>4. workers' = [workers EXCEPT ![t] = w]
  BY <1>1 DEF Fail
<1>5. QED
  BY <1>3, <1>4

(* While no sequence is being sent, a worker's place says nothing of its     *)
(* contexts, and nothing is asked of those it is about to destroy.           *)
LEMMA SameContext ==
  ASSUME NEW x, NEW w, NEW v, NEW c, ContextInv(x, w, c),
         Leaving(w) => Leaving(v),
         Leaving(v) \/ (~Sending(w, c) /\ ~Sending(v, c))
  PROVE  ContextInv(x, v, c)
BY DEF ContextInv, HoldsSequence

LEMMA SameContexts ==
  ASSUME NEW w, NEW v, NEW q, StreamInv(w, q), Leaving(w) => Leaving(v),
         Leaving(v) \/ (w.pc # "sequence" /\ (v.pc # "sequence" \/ v.nth = 1))
  PROVE  StreamInv(v, q)
<1>1. ASSUME NEW c PROVE Leaving(v) \/ (~Sending(w, c) /\ ~Sending(v, c))
  BY DEF Sending
<1>2. QED
  BY <1>1, SameContext DEF StreamInv

(* One context changes.                                                      *)
LEMMA OneContext ==
  ASSUME NEW q \in Seq(Context), NEW c \in 1..Len(q), NEW x \in Context,
         NEW w, StreamInv(w, q), NEW v, Leaving(w) => Leaving(v),
         NEW r, r = [q EXCEPT ![c] = x],
         setup.transport = "stream" => ContextInv(x, v, c),
         \A d \in 1..Len(q) : d # c => Leaving(v) \/ (~Sending(w, d) /\ ~Sending(v, d))
  PROVE  r \in Seq(Context) /\ Len(r) = Len(q) /\ StreamInv(v, r) /\ r # <<>>
<1>1. /\ r \in Seq(Context) /\ Len(r) = Len(q) /\ r[c] = x
      /\ \A d \in 1..Len(q) : d # c => r[d] = q[d]
  OBVIOUS
<1>2. ASSUME setup.transport = "stream", NEW d \in 1..Len(q) PROVE ContextInv(r[d], v, d)
  <2>1. CASE d = c
    BY <1>1, <1>2, <2>1
  <2>2. CASE d # c
    <3>1. ContextInv(q[d], w, d)
      BY <1>2 DEF StreamInv
    <3>2. ContextInv(q[d], v, d)
      BY <2>2, <3>1, SameContext
    <3>3. QED
      BY <1>1, <2>2, <3>2
  <2>3. QED
    BY <2>1, <2>2
<1>3. r # <<>>
  BY <1>1
<1>4. QED
  BY <1>1, <1>2, <1>3 DEF StreamInv

(* A step within the loops that touches no context.                          *)
LEMMA Passes ==
  ASSUME IInv, NEW t \in Threads, NEW p \in WorkerPcs, Go(t, p), ctxs' = ctxs,
         workers[t].pc \notin {"sequence", "leave", "joining", "done"}, p # "sequence",
         \A w \in Worker : w.pc = p => LoopInv(w, ctxs[t])
  PROVE  Moves(t)
<1>1. PICK w \in Worker : /\ workers' = [workers EXCEPT ![t] = w]
                          /\ w = [workers[t] EXCEPT !.pc = p]
  BY GoesTo
<1>2. workers[t] \in Worker /\ ctxs[t] \in Seq(Context) /\ StreamInv(workers[t], ctxs[t])
      /\ ctxs' = [ctxs EXCEPT ![t] = ctxs[t]]
  BY OfThread
<1>3. w.pc = p
  BY <1>1, <1>2 DEF Worker
<1>4. ~Leaving(workers[t])
  BY DEF Leaving
<1>5. StreamInv(w, ctxs[t])
  BY <1>2, <1>3, <1>4, SameContexts
<1>6. LoopInv(w, ctxs[t])
  BY <1>3
<1>7. QED
  BY <1>1, <1>2, <1>5, <1>6 DEF Moves

(* A worker gives up, with its contexts as they are.                         *)
LEMMA GivesUp ==
  ASSUME IInv, NEW t \in Threads, Fail(t), ctxs' = ctxs
  PROVE  Moves(t)
<1>1. PICK w \in Worker : workers' = [workers EXCEPT ![t] = w] /\ w.pc = "leave"
  BY FailsTo
<1>2. ctxs[t] \in Seq(Context) /\ StreamInv(workers[t], ctxs[t])
      /\ ctxs' = [ctxs EXCEPT ![t] = ctxs[t]]
  BY OfThread
<1>3. Leaving(w) /\ LoopInv(w, ctxs[t])
  BY <1>1 DEF Leaving, LoopInv
<1>4. StreamInv(w, ctxs[t])
  BY <1>2, <1>3, SameContexts
<1>5. QED
  BY <1>1, <1>2, <1>3, <1>4 DEF Moves

LEMMA TopMoves == ASSUME IInv, NEW t \in Threads, Top(t) PROVE Moves(t)
<1>1. PICK p : p = IF share[t] = 0 THEN "waiting" ELSE "send"
  OBVIOUS
<1>2. p \in {"waiting", "send"} /\ Go(t, p) /\ workers[t].pc = "top" /\ ctxs' = ctxs
  BY <1>1 DEF Top
<1>3. LoopInv(workers[t], ctxs[t])
  BY OfThread
<1>4. \A w \in Worker : w.pc = p => LoopInv(w, ctxs[t])
  BY <1>2, <1>3 DEF LoopInv
<1>5. p \in WorkerPcs /\ p # "sequence" /\ workers[t].pc \notin {"sequence", "leave", "joining", "done"}
  BY <1>2 DEF WorkerPcs
<1>6. QED
  BY <1>2, <1>4, <1>5, Passes

LEMMA WaitingMoves == ASSUME IInv, NEW t \in Threads, Waiting(t) PROVE Moves(t)
<1>1. PICK p : p = IF early_exit \/ share[t] > 0 THEN AfterWait(t) ELSE "dozing"
  OBVIOUS
<1>2. /\ p = "dozing" \/ (setup.sequence /\ p = "bottom") \/ (~setup.sequence /\ p = "send")
      /\ Go(t, p) /\ workers[t].pc = "waiting" /\ ctxs' = ctxs
  BY <1>1 DEF Waiting, AfterWait
<1>3. LoopInv(workers[t], ctxs[t])
  BY OfThread
<1>4. \A w \in Worker : w.pc = p => LoopInv(w, ctxs[t])
  BY <1>2, <1>3 DEF LoopInv
<1>5. p \in WorkerPcs /\ p # "sequence" /\ workers[t].pc \notin {"sequence", "leave", "joining", "done"}
  BY <1>2 DEF WorkerPcs
<1>6. QED
  BY <1>2, <1>4, <1>5, Passes

LEMMA DozeMoves == ASSUME IInv, NEW t \in Threads, Doze(t) PROVE Moves(t)
<1>1. PICK p : p = "asleep"
  OBVIOUS
<1>2. Go(t, p) /\ workers[t].pc = "dozing" /\ ctxs' = ctxs
  BY <1>1 DEF Doze
<1>3. LoopInv(workers[t], ctxs[t])
  BY OfThread
<1>4. \A w \in Worker : w.pc = p => LoopInv(w, ctxs[t])
  BY <1>1, <1>2, <1>3 DEF LoopInv
<1>5. p \in WorkerPcs /\ p # "sequence" /\ workers[t].pc \notin {"sequence", "leave", "joining", "done"}
  BY <1>1, <1>2 DEF WorkerPcs
<1>6. QED
  BY <1>2, <1>4, <1>5, Passes

LEMMA CollectMoves == ASSUME IInv, NEW t \in Threads, Collect(t) PROVE Moves(t)
<1>1. PICK p : p = IF Inflight(t, 1) >= share[t] THEN "full"
                   ELSE IF Ready(t, 1) # {} THEN "drain" ELSE "bottom"
  OBVIOUS
<1>2. p \in {"full", "drain", "bottom"} /\ Go(t, p) /\ workers[t].pc = "collect" /\ ctxs' = ctxs
  BY <1>1 DEF Collect
<1>3. LoopInv(workers[t], ctxs[t])
  BY OfThread
<1>4. \A w \in Worker : w.pc = p => LoopInv(w, ctxs[t])
  BY <1>2, <1>3 DEF LoopInv
<1>5. p \in WorkerPcs /\ p # "sequence" /\ workers[t].pc \notin {"sequence", "leave", "joining", "done"}
  BY <1>2 DEF WorkerPcs
<1>6. QED
  BY <1>2, <1>4, <1>5, Passes

LEMMA FullMoves == ASSUME IInv, NEW t \in Threads, Full(t) PROVE Moves(t)
<1>1. PICK p : p = "drain"
  OBVIOUS
<1>2. Go(t, p) /\ workers[t].pc = "full" /\ ctxs' = ctxs
  BY <1>1 DEF Full
<1>3. LoopInv(workers[t], ctxs[t])
  BY OfThread
<1>4. \A w \in Worker : w.pc = p => LoopInv(w, ctxs[t])
  BY <1>1, <1>2, <1>3 DEF LoopInv
<1>5. p \in WorkerPcs /\ p # "sequence" /\ workers[t].pc \notin {"sequence", "leave", "joining", "done"}
  BY <1>1, <1>2 DEF WorkerPcs
<1>6. QED
  BY <1>2, <1>4, <1>5, Passes

LEMMA BottomMoves == ASSUME IInv, NEW t \in Threads, Bottom(t) PROVE Moves(t)
<1>1. PICK p : p = IF early_exit THEN "leave" ELSE IF setup.sequence THEN "create" ELSE "top"
  OBVIOUS
<1>2. /\ p = "leave" \/ (setup.sequence /\ p = "create") \/ (~setup.sequence /\ p = "top")
      /\ Go(t, p) /\ workers[t].pc = "bottom" /\ ctxs' = ctxs
  BY <1>1 DEF Bottom
<1>3. LoopInv(workers[t], ctxs[t])
  BY OfThread
<1>4. \A w \in Worker : w.pc = p => LoopInv(w, ctxs[t])
  BY <1>2, <1>3 DEF LoopInv
<1>5. p \in WorkerPcs /\ p # "sequence" /\ workers[t].pc \notin {"sequence", "leave", "joining", "done"}
  BY <1>2 DEF WorkerPcs
<1>6. QED
  BY <1>2, <1>4, <1>5, Passes

(* A context is created: nothing is in flight in it.                         *)
LEMMA FreshContext ==
  ASSUME IInv
  PROVE  /\ NewContext \in Context
         /\ \A w, c : ~Sending(w, c) => ContextInv(NewContext, w, c)
<1>1. PICK x : x = NewContext
  OBVIOUS
<1>2. PICK n : n = IF setup.transport = "stream" THEN "reading" ELSE "off"
  OBVIOUS
<1>3. x = [reqs |-> <<>>, working |-> FALSE, exiting |-> FALSE, closed |-> FALSE, client |-> n]
  BY <1>1, <1>2 DEF NewContext
<1>4. n \in {"off", "reading"}
  BY <1>2
<1>5. x \in Context
  BY <1>3, <1>4 DEF Context
<1>6. x.reqs = <<>> /\ ~x.working /\ ~x.exiting
  BY <1>3
<1>7. InOrder(x.reqs) /\ Apart(x.reqs) /\ Unended(x.reqs)
  BY <1>6 DEF InOrder, Apart, Unended
<1>8. ASSUME NEW w, NEW c, ~Sending(w, c) PROVE ContextInv(x, w, c)
  BY <1>6, <1>7, <1>8 DEF ContextInv, HoldsSequence
<1>9. QED
  BY <1>1, <1>5, <1>8

LEMMA PrepareMoves == ASSUME IInv, NEW t \in Threads, Prepare(t) PROVE Moves(t)
<1>1. PICK x : x = NewContext
  OBVIOUS
<1>2. CASE ctxs' = [ctxs EXCEPT ![t] = <<x>>] /\ Go(t, "top")
  <2>1. PICK w \in Worker : /\ workers' = [workers EXCEPT ![t] = w]
                            /\ w = [workers[t] EXCEPT !.pc = "top"]
    BY <1>2, GoesTo DEF WorkerPcs
  <2>2. workers[t] \in Worker /\ LoopInv(workers[t], ctxs[t]) /\ workers[t].pc = "prepare"
    BY OfThread DEF Prepare
  <2>3. w.pc = "top" /\ ~setup.sequence
    BY <2>1, <2>2 DEF Worker, LoopInv
  <2>4. PICK q : q = <<x>>
    OBVIOUS
  <2>5. q \in Seq(Context) /\ Len(q) = 1 /\ q[1] = x /\ q # <<>>
    BY <1>1, <2>4, FreshContext
  <2>6. LoopInv(w, q)
    BY <2>3, <2>5 DEF LoopInv
  <2>7. \A c : ContextInv(x, w, c)
    BY <1>1, <2>3, FreshContext DEF Sending
  <2>8. \A c \in 1..Len(q) : q[c] = x
    BY <2>5
  <2>9. StreamInv(w, q)
    BY <2>7, <2>8 DEF StreamInv
  <2>10. QED
    BY <1>2, <2>1, <2>4, <2>5, <2>6, <2>9 DEF Moves
<1>3. CASE Fail(t) /\ ctxs' = ctxs
  BY <1>3, GivesUp
<1>4. QED
  BY <1>1, <1>2, <1>3 DEF Prepare

LEMMA CreateMoves == ASSUME IInv, NEW t \in Threads, Create(t) PROVE Moves(t)
<1>1. PICK len \in Lengths :
        workers' = [workers EXCEPT ![t].pc = "grow", ![t].num = share[t], ![t].len = len,
                                   ![t].idx = 1, ![t].nth = 1]
  BY DEF Create
<1>2. PICK w : w = [workers[t] EXCEPT !.pc = "grow", !.num = share[t], !.len = len,
                                      !.idx = 1, !.nth = 1]
  OBVIOUS
<1>3. /\ workers[t] \in Worker /\ ctxs[t] \in Seq(Context) /\ ctxs' = ctxs
      /\ LoopInv(workers[t], ctxs[t]) /\ StreamInv(workers[t], ctxs[t])
      /\ ctxs = [ctxs EXCEPT ![t] = ctxs[t]] /\ workers[t].pc = "create"
  BY OfThread DEF Create
<1>4. share[t] \in Nat /\ len \in Nat \ {0}
  BY PerfClientAssumption DEF IInv, TypeOK
<1>5. w \in Worker /\ w.pc = "grow" /\ w.nth = 1
  <2>1. "grow" \in WorkerPcs /\ 1 \in Nat \ {0}
    BY DEF WorkerPcs
  <2>2. QED
    BY <1>2, <1>3, <1>4, <2>1 DEF Worker
<1>6. workers' = [workers EXCEPT ![t] = w]
  BY <1>1, <1>2
<1>7. LoopInv(w, ctxs[t])
  BY <1>3, <1>5 DEF LoopInv
<1>8. StreamInv(w, ctxs[t])
  BY <1>3, <1>5, SameContexts DEF Leaving
<1>9. QED
  BY <1>3, <1>5, <1>6, <1>7, <1>8 DEF Moves

LEMMA GrowMoves == ASSUME IInv, NEW t \in Threads, Grow(t) PROVE Moves(t)
<1>0. /\ workers[t] \in Worker /\ ctxs[t] \in Seq(Context)
      /\ LoopInv(workers[t], ctxs[t]) /\ StreamInv(workers[t], ctxs[t])
      /\ ctxs = [ctxs EXCEPT ![t] = ctxs[t]] /\ workers = [workers EXCEPT ![t] = workers[t]]
      /\ workers[t].pc = "grow" /\ setup.sequence
  BY OfThread DEF Grow, LoopInv
<1>1. CASE workers[t].num <= Len(ctxs[t]) /\ Go(t, "sequence") /\ ctxs' = ctxs
  <2>1. PICK w \in Worker : /\ workers' = [workers EXCEPT ![t] = w]
                            /\ w = [workers[t] EXCEPT !.pc = "sequence"]
    BY <1>1, GoesTo DEF WorkerPcs
  <2>2. w.pc = "sequence" /\ w.num = workers[t].num
    BY <1>0, <2>1 DEF Worker
  <2>3. LoopInv(w, ctxs[t])
    <3>1. w.nth = 1
      BY <1>0, <2>1 DEF LoopInv, Worker
    <3>2. QED
      BY <1>0, <1>1, <2>2, <3>1 DEF LoopInv
  <2>4. StreamInv(w, ctxs[t])
    <3>1. ~Leaving(workers[t]) /\ w.nth = 1
      BY <1>0, <2>1 DEF Leaving, LoopInv, Worker
    <3>2. QED
      BY <1>0, <2>2, <3>1, SameContexts
  <2>5. QED
    BY <1>0, <1>1, <2>1, <2>3, <2>4 DEF Moves
<1>2. CASE ctxs' = [ctxs EXCEPT ![t] = Append(@, NewContext)] /\ workers' = workers
  <2>1. PICK x, q : x = NewContext /\ q = Append(ctxs[t], x)
    OBVIOUS
  <2>2. /\ x \in Context /\ q \in Seq(Context) /\ Len(q) = Len(ctxs[t]) + 1
        /\ Len(ctxs[t]) \in Nat /\ q[Len(ctxs[t]) + 1] = x
        /\ \A c \in 1..Len(ctxs[t]) : q[c] = ctxs[t][c]
    BY <1>0, <2>1, FreshContext
  <2>3. ctxs' = [ctxs EXCEPT ![t] = q]
    BY <1>2, <2>1
  <2>4. LoopInv(workers[t], q)
    BY <1>0 DEF LoopInv
  <2>5. \A c : ContextInv(x, workers[t], c)
    BY <1>0, <2>1, FreshContext DEF Sending
  <2>6. StreamInv(workers[t], q)
    BY <1>0, <2>2, <2>5 DEF StreamInv
  <2>7. QED
    BY <1>0, <1>2, <2>2, <2>3, <2>4, <2>6 DEF Moves
<1>3. CASE Fail(t) /\ ctxs' = ctxs
  BY <1>3, GivesUp
<1>4. QED
  BY <1>1, <1>2, <1>3 DEF Grow

-----------------------------------------------------------------------------
(* Requests are sent.                                                        *)

(* A request that moves on is a request, with the mark it had.               *)
Moved(q, i, to) == [q EXCEPT ![i].at = to]

LEMMA StillRequests ==
  ASSUME NEW q \in Seq(Request), NEW i \in 1..Len(q), NEW to \in {"server", "answered", "ready"},
         NEW r, r = Moved(q, i, to)
  PROVE  /\ r \in Seq(Request) /\ Len(r) = Len(q)
         /\ \A k \in 1..Len(q) : k # i => r[k] = q[k]
         /\ r[i].at = to
         /\ \A k \in 1..Len(q) : r[k].mark = q[k].mark
<1>1. PICK e : e = [q[i] EXCEPT !.at = to]
  OBVIOUS
<1>2. q[i] \in Request
  OBVIOUS
<1>3. e \in Request /\ e.at = to /\ e.mark = q[i].mark
  BY <1>1, <1>2 DEF Request
<1>4. r = [q EXCEPT ![i] = e]
  BY <1>1 DEF Moved
<1>5. r \in Seq(Request) /\ Len(r) = Len(q) /\ r[i] = e /\ \A k \in 1..Len(q) : k # i => r[k] = q[k]
  BY <1>3, <1>4
<1>6. QED
  BY <1>3, <1>5

LEMMA StillRefused ==
  ASSUME NEW q \in Seq(Request), NEW i \in 1..Len(q), NEW to, NEW r, r = Moved(q, i, to)
  PROVE  r[i].refused = q[i].refused
<1>1. PICK e : e = [q[i] EXCEPT !.at = to]
  OBVIOUS
<1>2. q[i] \in Request
  OBVIOUS
<1>3. e.refused = q[i].refused
  BY <1>1, <1>2 DEF Request
<1>4. r[i] = e
  BY <1>1 DEF Moved
<1>5. QED
  BY <1>3, <1>4

(* So is one that the server answers or refuses.                             *)
Replied(q, i, refused) == [q EXCEPT ![i] = [@ EXCEPT !.at = "answered", !.refused = refused]]

LEMMA RepliedRequests ==
  ASSUME NEW q \in Seq(Request), NEW i \in 1..Len(q), NEW b \in BOOLEAN,
         NEW r, r = Replied(q, i, b)
  PROVE  /\ r \in Seq(Request) /\ Len(r) = Len(q)
         /\ \A k \in 1..Len(q) : k # i => r[k] = q[k]
         /\ r[i].at = "answered" /\ r[i].refused = b
         /\ \A k \in 1..Len(q) : r[k].mark = q[k].mark
<1>1. PICK e : e = [q[i] EXCEPT !.at = "answered", !.refused = b]
  OBVIOUS
<1>2. q[i] \in Request
  OBVIOUS
<1>3. e \in Request /\ e.at = "answered" /\ e.refused = b /\ e.mark = q[i].mark
  BY <1>1, <1>2 DEF Request
<1>4. r = [q EXCEPT ![i] = e]
  BY <1>1 DEF Replied
<1>5. r \in Seq(Request) /\ Len(r) = Len(q) /\ r[i] = e /\ \A k \in 1..Len(q) : k # i => r[k] = q[k]
  BY <1>3, <1>4
<1>6. QED
  BY <1>3, <1>5

(* A context gets other requests, and its thread another state.              *)
Becomes(t, c, r, k) ==
  ctxs' = [[ctxs EXCEPT ![t][c].reqs = r] EXCEPT ![t][c].client = k]

LEMMA BothChange ==
  ASSUME IInv, NEW t \in Threads, NEW c \in 1..Len(ctxs[t]), NEW y \in Context, y = ctxs[t][c],
         NEW r \in Seq(Request),
         NEW k \in {"off", "reading", "awake", "decided", "asleep", "polling", "ended"},
         Becomes(t, c, r, k)
  PROVE  \E x \in Context :
            /\ ctxs' = [ctxs EXCEPT ![t] = [ctxs[t] EXCEPT ![c] = x]]
            /\ x.reqs = r /\ x.working = y.working /\ x.exiting = y.exiting
<1>1. PICK z, q, f : /\ z = [y EXCEPT !.reqs = r] /\ q = [ctxs[t] EXCEPT ![c] = z]
                     /\ f = [ctxs EXCEPT ![t] = q]
  OBVIOUS
<1>2. ctxs[t] \in Seq(Context)
  BY OfThread
<1>3. f = [ctxs EXCEPT ![t][c].reqs = r]
  BY <1>1
<1>4. f[t] = q
  BY <1>1 DEF IInv, TypeOK
<1>5. q[c] = z
  BY <1>1, <1>2
<1>6. PICK x : x = [z EXCEPT !.client = k]
  OBVIOUS
<1>7. z \in Context /\ z.reqs = r /\ z.working = y.working /\ z.exiting = y.exiting
  BY <1>1 DEF Context
<1>8. x \in Context /\ x.reqs = r /\ x.working = y.working /\ x.exiting = y.exiting
  BY <1>6, <1>7 DEF Context
<1>9. ctxs' = [f EXCEPT ![t][c].client = k]
  BY <1>3 DEF Becomes
<1>10. ctxs' = [f EXCEPT ![t] = [q EXCEPT ![c] = x]]
  BY <1>4, <1>5, <1>6, <1>9
<1>11. [q EXCEPT ![c] = x] = [ctxs[t] EXCEPT ![c] = x]
  BY <1>1, <1>2
<1>12. ctxs' = [ctxs EXCEPT ![t] = [ctxs[t] EXCEPT ![c] = x]]
  BY <1>1, <1>10, <1>11
<1>13. QED
  BY <1>8, <1>12

(* Over any transport a request enters the table of its context.             *)
LEMMA Enters ==
  ASSUME IInv, NEW t \in Threads, NEW c \in 1..Len(ctxs[t]), NEW m \in Marks, AsyncRun(t, c, m)
  PROVE  \E x \in Context :
            /\ ctxs' = [ctxs EXCEPT ![t] = [ctxs[t] EXCEPT ![c] = x]]
            /\ x.reqs = Append(ctxs[t][c].reqs, Sent(m))
            /\ x.working = ctxs[t][c].working
            /\ x.exiting = ctxs[t][c].exiting
<1>1. PICK y, r : y = ctxs[t][c] /\ r = Append(ctxs[t][c].reqs, Sent(m))
  OBVIOUS
<1>2. ctxs[t] \in Seq(Context) /\ y \in Context
  BY <1>1, OfThread
<1>3. Sent(m) \in Request
  BY DEF Sent, Request
<1>4. r \in Seq(Request)
  BY <1>1, <1>2, <1>3 DEF Context
<1>5. PICK k : k = Rouse(y.client)
  OBVIOUS
<1>6. k \in {"off", "reading", "awake", "decided", "asleep", "polling", "ended"}
  BY <1>2, <1>5 DEF Rouse, Context
<1>7. CASE ctxs' = [ctxs EXCEPT ![t][c].reqs = Append(@, Sent(m)), ![t][c].client = Rouse(@)]
  <2>1. PICK f : f = [ctxs EXCEPT ![t][c].reqs = r]
    OBVIOUS
  <2>2. f[t][c].client = y.client
    BY <1>1, <1>2, <2>1 DEF IInv, TypeOK, Context
  <2>3. ctxs' = [f EXCEPT ![t][c].client = k]
    BY <1>1, <1>5, <1>7, <2>1, <2>2
  <2>4. Becomes(t, c, r, k)
    BY <2>1, <2>3 DEF Becomes
  <2>5. PICK x \in Context :
            /\ ctxs' = [ctxs EXCEPT ![t] = [ctxs[t] EXCEPT ![c] = x]]
            /\ x.reqs = r /\ x.working = y.working /\ x.exiting = y.exiting
    <3>1. y \in Context /\ y = ctxs[t][c] /\ r \in Seq(Request)
      BY <1>1, <1>2, <1>4
    <3>2. QED
      BY <1>6, <2>4, <3>1, BothChange
  <2>6. QED
    BY <1>1, <2>5
<1>8. CASE ctxs' = [ctxs EXCEPT ![t][c].reqs = Append(@, Sent(m))]
  <2>1. PICK x : x = [y EXCEPT !.reqs = r]
    OBVIOUS
  <2>2. x \in Context /\ x.reqs = r /\ x.working = y.working /\ x.exiting = y.exiting
    BY <1>2, <1>4, <2>1 DEF Context
  <2>3. ctxs' = [ctxs EXCEPT ![t] = [ctxs[t] EXCEPT ![c] = x]]
    BY <1>1, <1>2, <1>8, <2>1 DEF IInv, TypeOK
  <2>4. QED
    BY <1>1, <2>2, <2>3
<1>9. QED
  BY <1>7, <1>8 DEF AsyncRun, HttpAsyncRun, GrpcAsyncRun, StreamAsyncRun

(* What holds of one context while its worker has not left.                  *)
LEMMA OfContext ==
  ASSUME IInv, NEW t \in Threads, NEW c \in 1..Len(ctxs[t]), setup.transport = "stream"
  PROVE  /\ ctxs[t][c] \in Context /\ ctxs[t][c].reqs \in Seq(Request)
         /\ ContextInv(ctxs[t][c], workers[t], c)
<1>1. ctxs[t] \in Seq(Context) /\ StreamInv(workers[t], ctxs[t])
  BY OfThread
<1>2. ctxs[t][c] \in Context
  BY <1>1
<1>3. ctxs[t][c].reqs \in Seq(Request)
  BY <1>2 DEF Context
<1>4. QED
  BY <1>1, <1>2, <1>3 DEF StreamInv

LEMMA SendMoves == ASSUME IInv, NEW t \in Threads, Send(t) PROVE Moves(t)
<1>1. PICK w \in Worker : /\ workers' = [workers EXCEPT ![t] = w]
                          /\ w.pc = "leave" \/ w = [workers[t] EXCEPT !.pc = "collect"]
  BY FailsTo, GoesTo DEF Send, WorkerPcs
<1>2. /\ workers[t] \in Worker /\ ctxs[t] \in Seq(Context) /\ LoopInv(workers[t], ctxs[t])
      /\ StreamInv(workers[t], ctxs[t]) /\ workers[t].pc = "send"
  BY OfThread DEF Send
<1>3. ~setup.sequence /\ ctxs[t] # <<>> /\ w.pc \in {"leave", "collect"} /\ ~Leaving(workers[t])
  BY <1>1, <1>2 DEF LoopInv, Worker, Leaving
<1>4. PICK c : c = 1
  OBVIOUS
<1>5. c \in 1..Len(ctxs[t]) /\ AsyncRun(t, c, "none") /\ "none" \in Marks
  BY <1>2, <1>3, <1>4 DEF Send, Marks
<1>6. PICK x \in Context : /\ ctxs' = [ctxs EXCEPT ![t] = [ctxs[t] EXCEPT ![c] = x]]
                           /\ x.reqs = Append(ctxs[t][c].reqs, Sent("none"))
                           /\ x.working = ctxs[t][c].working
                           /\ x.exiting = ctxs[t][c].exiting
  <2>1. PICK m \in Marks : m = "none"
    BY <1>5
  <2>2. AsyncRun(t, c, m)
    BY <1>5, <2>1
  <2>3. QED
    BY <1>5, <2>1, <2>2, Enters
<1>7. ASSUME setup.transport = "stream" PROVE ContextInv(x, w, c)
  <2>1. /\ ctxs[t][c].reqs \in Seq(Request)
        /\ ContextInv(ctxs[t][c], workers[t], c)
    BY <1>5, <1>7, OfContext
  <2>2. /\ InOrder(ctxs[t][c].reqs) /\ Unended(ctxs[t][c].reqs) /\ Apart(ctxs[t][c].reqs)
        /\ ~x.exiting
    BY <1>3, <1>6, <2>1 DEF ContextInv
  <2>3. InOrder(x.reqs) /\ Apart(x.reqs) /\ Unended(x.reqs)
    BY <1>5, <1>6, <2>1, <2>2, OneMore
  <2>4. QED
    BY <1>3, <2>2, <2>3 DEF ContextInv
<1>8. PICK q : q = [ctxs[t] EXCEPT ![c] = x]
  OBVIOUS
<1>9. \A d : ~Sending(workers[t], d) /\ ~Sending(w, d)
  BY <1>2, <1>3 DEF Sending
<1>10. q \in Seq(Context) /\ q # <<>> /\ StreamInv(w, q)
  BY <1>2, <1>3, <1>5, <1>7, <1>8, <1>9, OneContext
<1>11. LoopInv(w, q)
  BY <1>3, <1>10 DEF LoopInv
<1>12. QED
  BY <1>1, <1>6, <1>8, <1>10, <1>11 DEF Moves

LEMMA SendSequenceMoves == ASSUME IInv, NEW t \in Threads, SendSequence(t) PROVE Moves(t)
<1>1. PICK v, c : v = workers[t] /\ c = v.idx
  OBVIOUS
<1>2. /\ v \in Worker /\ ctxs[t] \in Seq(Context) /\ LoopInv(v, ctxs[t])
      /\ StreamInv(v, ctxs[t]) /\ v.pc = "sequence"
      /\ ctxs = [ctxs EXCEPT ![t] = ctxs[t]]
  BY <1>1, OfThread DEF SendSequence
<1>3. setup.sequence /\ v.num <= Len(ctxs[t]) /\ ~Leaving(v)
  BY <1>2 DEF LoopInv, Leaving
<1>4. /\ c \in Nat \ {0} /\ v.num \in Nat /\ v.nth \in Nat \ {0} /\ v.len \in Nat \ {0}
      /\ Len(ctxs[t]) \in Nat
  BY <1>1, <1>2 DEF Worker
<1>5. CASE c > v.num
  <2>1. workers' = [workers EXCEPT ![t].pc = "poll", ![t].idx = 1, ![t].keep = FALSE] /\ ctxs' = ctxs
    BY <1>1, <1>5 DEF SendSequence
  <2>2. PICK w : w = [v EXCEPT !.pc = "poll", !.idx = 1, !.keep = FALSE]
    OBVIOUS
  <2>3. "poll" \in WorkerPcs /\ 1 \in Nat \ {0}
    BY DEF WorkerPcs
  <2>4. w \in Worker /\ w.pc = "poll"
    BY <1>2, <2>2, <2>3 DEF Worker
  <2>5. workers' = [workers EXCEPT ![t] = w]
    BY <1>1, <2>1, <2>2
  <2>6. LoopInv(w, ctxs[t])
    BY <1>3, <2>4 DEF LoopInv
  <2>7. v.nth = 1
    BY <1>1, <1>2, <1>3, <1>4, <1>5 DEF LoopInv
  <2>8. \A d : ~Sending(v, d) /\ ~Sending(w, d)
    BY <2>4, <2>7 DEF Sending
  <2>9. StreamInv(w, ctxs[t])
    BY <1>2, <1>3, <2>8, SameContext DEF StreamInv
  <2>10. QED
    BY <1>2, <2>1, <2>4, <2>5, <2>6, <2>9 DEF Moves
<1>6. ASSUME ~(c > v.num)
      PROVE  /\ c \in 1..Len(ctxs[t])
             /\ setup.transport = "stream" =>
                  /\ ctxs[t][c] \in Context /\ ctxs[t][c].reqs \in Seq(Request)
                  /\ ContextInv(ctxs[t][c], v, c)
  <2>1. c \in 1..Len(ctxs[t])
    BY <1>3, <1>4, <1>6
  <2>2. QED
    BY <1>1, <2>1, OfContext
<1>7. CASE ~(c > v.num) /\ ctxs[t][c].working /\ v.nth = 1
  <2>1. workers' = [workers EXCEPT ![t].idx = @ + 1] /\ ctxs' = ctxs
    BY <1>1, <1>7 DEF SendSequence
  <2>2. PICK w : w = [v EXCEPT !.idx = c + 1]
    OBVIOUS
  <2>3. w \in Worker /\ w.pc = "sequence" /\ w.nth = 1 /\ w.num = v.num
    BY <1>2, <1>4, <1>7, <2>2 DEF Worker
  <2>4. workers' = [workers EXCEPT ![t] = w]
    BY <1>1, <2>1, <2>2
  <2>5. LoopInv(w, ctxs[t])
    BY <1>3, <2>3 DEF LoopInv
  <2>6. \A d : ~Sending(v, d) /\ ~Sending(w, d)
    BY <1>7, <2>3 DEF Sending
  <2>7. StreamInv(w, ctxs[t])
    BY <1>2, <1>3, <2>6, SameContext DEF StreamInv
  <2>8. QED
    BY <1>2, <2>1, <2>3, <2>4, <2>5, <2>7 DEF Moves
<1>8. CASE ~(c > v.num) /\ ~(ctxs[t][c].working /\ v.nth = 1) /\ v.nth > v.len
  <2>1. /\ ctxs' = [ctxs EXCEPT ![t][c].working = TRUE]
        /\ workers' = [workers EXCEPT ![t].idx = @ + 1, ![t].nth = 1]
    BY <1>1, <1>8 DEF SendSequence
  <2>2. PICK w : w = [v EXCEPT !.idx = c + 1, !.nth = 1]
    OBVIOUS
  <2>3. w \in Worker /\ w.pc = "sequence" /\ w.nth = 1 /\ w.num = v.num
    <3>1. c + 1 \in Nat \ {0} /\ 1 \in Nat \ {0}
      BY <1>4
    <3>2. QED
      BY <1>2, <2>2, <3>1 DEF Worker
  <2>4. workers' = [workers EXCEPT ![t] = w]
    BY <1>1, <2>1, <2>2
  <2>5. PICK y, x, q : /\ y = ctxs[t][c] /\ x = [y EXCEPT !.working = TRUE]
                       /\ q = [ctxs[t] EXCEPT ![c] = x]
    OBVIOUS
  <2>6. c \in 1..Len(ctxs[t])
    BY <1>6, <1>8
  <2>7. y \in Context
    BY <1>2, <2>5, <2>6
  <2>8. x \in Context /\ x.reqs = y.reqs /\ x.exiting = y.exiting /\ x.working
    BY <2>5, <2>7 DEF Context
  <2>9. ctxs' = [ctxs EXCEPT ![t] = q]
    BY <2>1, <2>5
  <2>10. \A d : ~Sending(w, d)
    BY <2>3 DEF Sending
  <2>11. ASSUME setup.transport = "stream" PROVE ContextInv(x, w, c)
    <3>1. v.nth > 1
      BY <1>4, <1>8
    <3>2. Sending(v, c)
      BY <1>1, <1>2, <3>1 DEF Sending
    <3>3. ContextInv(y, v, c)
      BY <1>6, <1>8, <2>5, <2>11
    <3>4. Ended(y.reqs) /\ InOrder(y.reqs) /\ Apart(y.reqs) /\ ~y.exiting
      BY <1>3, <1>8, <3>2, <3>3 DEF ContextInv, HoldsSequence
    <3>5. QED
      BY <1>3, <2>8, <2>10, <3>4 DEF ContextInv, HoldsSequence
  <2>12. \A d \in 1..Len(ctxs[t]) : d # c => Leaving(w) \/ (~Sending(v, d) /\ ~Sending(w, d))
    BY <1>1, <2>10 DEF Sending
  <2>13. q \in Seq(Context) /\ Len(q) = Len(ctxs[t]) /\ StreamInv(w, q)
    <3>1. Leaving(v) => Leaving(w)
      BY <1>3
    <3>2. setup.transport = "stream" => ContextInv(x, w, c)
      BY <2>11
    <3>3. ctxs[t] \in Seq(Context) /\ StreamInv(v, ctxs[t]) /\ q = [ctxs[t] EXCEPT ![c] = x]
      BY <1>2, <2>5
    <3>4. x \in Context
      BY <2>8
    <3>5. QED
      BY <2>6, <2>12, <3>1, <3>2, <3>3, <3>4, OneContext
  <2>14. LoopInv(w, q)
    BY <1>3, <2>3, <2>13 DEF LoopInv
  <2>15. QED
    BY <2>3, <2>4, <2>9, <2>13, <2>14 DEF Moves
<1>9. CASE ~(c > v.num) /\ ~(ctxs[t][c].working /\ v.nth = 1) /\ ~(v.nth > v.len)
  <2>1. PICK m : m = MarkOf(v.nth, v.len)
    OBVIOUS
  <2>2. /\ AsyncRun(t, c, m)
        /\ Fail(t) \/ workers' = [workers EXCEPT ![t].nth = @ + 1]
    BY <1>1, <1>9, <2>1 DEF SendSequence
  <2>3. /\ m \in Marks /\ (m \in {"end", "both"} <=> v.nth = v.len)
        /\ m \in {"start", "both"} => v.nth = 1
    <3>1. v.nth <= v.len /\ (v.len = 1 => v.nth = 1)
      BY <1>4, <1>9
    <3>2. QED
      BY <1>4, <2>1, <3>1 DEF MarkOf, Marks
  <2>4. c \in 1..Len(ctxs[t])
    BY <1>6, <1>9
  <2>5. PICK y : y = ctxs[t][c]
    OBVIOUS
  <2>6. PICK x \in Context : /\ ctxs' = [ctxs EXCEPT ![t] = [ctxs[t] EXCEPT ![c] = x]]
                             /\ x.reqs = Append(y.reqs, Sent(m))
                             /\ x.working = y.working
                             /\ x.exiting = y.exiting
    <3>1. m \in Marks
      BY <2>3
    <3>2. AsyncRun(t, c, m)
      BY <2>2
    <3>3. \E x \in Context :
             /\ ctxs' = [ctxs EXCEPT ![t] = [ctxs[t] EXCEPT ![c] = x]]
             /\ x.reqs = Append(ctxs[t][c].reqs, Sent(m))
             /\ x.working = ctxs[t][c].working
             /\ x.exiting = ctxs[t][c].exiting
      BY <2>4, <3>1, <3>2, Enters
    <3>4. QED
      BY <2>5, <3>3
  <2>7. PICK w \in Worker :
          /\ workers' = [workers EXCEPT ![t] = w]
          /\ \/ w.pc = "leave"
             \/ /\ w.pc = "sequence" /\ w.idx = c /\ w.nth = v.nth + 1
                /\ w.num = v.num /\ w.len = v.len
    <3>1. CASE Fail(t)
      BY <3>1, FailsTo
    <3>2. CASE workers' = [workers EXCEPT ![t].nth = @ + 1]
      <4>1. PICK w : w = [v EXCEPT !.nth = v.nth + 1]
        OBVIOUS
      <4>2. /\ w \in Worker /\ w.pc = "sequence" /\ w.idx = c /\ w.nth = v.nth + 1
            /\ w.num = v.num /\ w.len = v.len
        BY <1>1, <1>2, <1>4, <4>1 DEF Worker
      <4>3. workers' = [workers EXCEPT ![t] = w]
        BY <1>1, <3>2, <4>1
      <4>4. QED
        BY <4>2, <4>3
    <3>3. QED
      BY <2>2, <3>1, <3>2
  <2>8. ASSUME setup.transport = "stream" PROVE ContextInv(x, w, c)
    <3>1. y.reqs \in Seq(Request) /\ ContextInv(y, v, c)
      BY <1>6, <1>9, <2>5, <2>8
    <3>2. /\ InOrder(y.reqs) /\ Unended(y.reqs) /\ Apart(y.reqs) /\ ~x.exiting /\ ~y.working
          /\ v.nth = 1 => y.reqs = <<>>
      <4>1. CASE v.nth = 1
        <5>1. ~Sending(v, c) /\ ~y.working
          BY <1>9, <2>5, <4>1 DEF Sending
        <5>2. y.reqs = <<>>
          BY <1>3, <3>1, <5>1 DEF ContextInv, HoldsSequence
        <5>3. QED
          BY <1>3, <2>6, <3>1, <5>1, <5>2 DEF ContextInv, Unended
      <4>2. CASE v.nth # 1
        <5>1. Sending(v, c) /\ v.nth <= v.len
          BY <1>1, <1>2, <1>4, <1>9, <4>2 DEF Sending
        <5>2. QED
          BY <1>3, <2>6, <3>1, <4>2, <5>1 DEF ContextInv, HoldsSequence
      <4>3. QED
        BY <4>1, <4>2
    <3>3. /\ InOrder(x.reqs) /\ Apart(x.reqs)
          /\ m \in {"end", "both"} => Ended(x.reqs)
          /\ m \notin {"end", "both"} => Unended(x.reqs)
      BY <2>3, <2>6, <3>1, <3>2, OneMore
    <3>4. CASE w.pc = "leave"
      BY <1>3, <3>3, <3>4 DEF ContextInv, Leaving
    <3>5. CASE w.pc # "leave"
      <4>1. /\ Sending(w, c)
            /\ w.nth <= w.len => v.nth # v.len
            /\ w.nth > w.len => v.nth = v.len
        BY <1>4, <1>9, <2>7, <3>5 DEF Sending
      <4>2. HoldsSequence(x, w, c)
        BY <2>3, <2>6, <3>2, <3>3, <4>1 DEF HoldsSequence
      <4>3. QED
        BY <1>3, <3>2, <3>3, <4>2 DEF ContextInv
    <3>6. QED
      BY <3>4, <3>5
  <2>9. \A d \in 1..Len(ctxs[t]) : d # c => Leaving(w) \/ (~Sending(v, d) /\ ~Sending(w, d))
    BY <1>1, <2>7 DEF Sending
  <2>10. PICK q : q = [ctxs[t] EXCEPT ![c] = x]
    OBVIOUS
  <2>11. q \in Seq(Context) /\ Len(q) = Len(ctxs[t]) /\ StreamInv(w, q)
    <3>1. Leaving(v) => Leaving(w)
      BY <1>3
    <3>2. setup.transport = "stream" => ContextInv(x, w, c)
      BY <2>8
    <3>3. ctxs[t] \in Seq(Context) /\ StreamInv(v, ctxs[t])
      BY <1>2
    <3>4. QED
      BY <2>4, <2>9, <2>10, <3>1, <3>2, <3>3, OneContext
  <2>12. LoopInv(w, q)
    BY <1>3, <1>4, <1>9, <2>7, <2>11 DEF LoopInv
  <2>13. QED
    BY <2>6, <2>7, <2>10, <2>11, <2>12 DEF Moves
<1>10. QED
  BY <1>5, <1>7, <1>8, <1>9

-----------------------------------------------------------------------------
(* Requests are taken from their context.                                    *)

(* The results of a ready request are taken, or the worker gives up.         *)
LEMMA Taken ==
  ASSUME IInv, NEW t \in Threads, NEW c \in 1..Len(ctxs[t]), NEW i \in Ready(t, c), NEW go,
         Retire(t, c, i, go)
  PROVE  \E x \in Context :
            /\ ctxs' = [ctxs EXCEPT ![t] = [ctxs[t] EXCEPT ![c] = x]]
            /\ i \in 1..Len(ctxs[t][c].reqs)
            /\ x.reqs = RemoveAt(ctxs[t][c].reqs, i)
            /\ x.exiting = ctxs[t][c].exiting
            /\ \/ Fail(t)
               \/ /\ workers' = go /\ ~ctxs[t][c].reqs[i].refused
                  /\ x.working = (ctxs[t][c].working /\ ~IsLast(ctxs[t][c].reqs[i]))
<1>1. PICK y, r : y = ctxs[t][c] /\ r = RemoveAt(ctxs[t][c].reqs, i)
  OBVIOUS
<1>2. ctxs[t] \in Seq(Context) /\ y \in Context /\ y.reqs \in Seq(Request) /\ y.working \in BOOLEAN
  <2>1. ctxs[t] \in Seq(Context)
    BY OfThread
  <2>2. y \in Context
    BY <1>1, <2>1
  <2>3. QED
    BY <2>1, <2>2 DEF Context
<1>3. i \in 1..Len(y.reqs)
  <2>1. PICK T : T = {k \in 1..Inflight(t, c) : ctxs[t][c].reqs[k].at = "ready"}
    OBVIOUS
  <2>2. T \in SUBSET Nat /\ T \subseteq 1..Len(y.reqs)
    BY <1>1, <2>1 DEF Inflight
  <2>3. i \in T \/ (T # {} /\ i = Min(T))
    BY <2>1 DEF Ready
  <2>4. QED
    BY <2>2, <2>3, LeastIsLeast
<1>4. r \in Seq(Request)
  BY <1>1, <1>2, <1>3, RemoveAtLeaves
<1>5. CASE ctxs' = [ctxs EXCEPT ![t][c].reqs = RemoveAt(@, i)] /\ Fail(t)
  <2>1. PICK x : x = [y EXCEPT !.reqs = r]
    OBVIOUS
  <2>2. x \in Context /\ x.reqs = r /\ x.exiting = y.exiting
    BY <1>2, <1>4, <2>1 DEF Context
  <2>3. ctxs' = [ctxs EXCEPT ![t] = [ctxs[t] EXCEPT ![c] = x]]
    BY <1>1, <1>2, <1>5, <2>1 DEF IInv, TypeOK
  <2>4. QED
    BY <1>1, <1>3, <1>5, <2>2, <2>3
<1>6. CASE /\ ~ctxs[t][c].reqs[i].refused
           /\ ctxs' = [ctxs EXCEPT
                ![t][c].reqs = RemoveAt(@, i),
                ![t][c].working = @ /\ ctxs[t][c].reqs[i].mark \notin {"end", "both"}]
           /\ workers' = go
  <2>1. PICK b : b = (y.working /\ ~IsLast(y.reqs[i]))
    OBVIOUS
  <2>2. b \in BOOLEAN
    BY <2>1
  <2>3. PICK z, q, f : /\ z = [y EXCEPT !.reqs = r] /\ q = [ctxs[t] EXCEPT ![c] = z]
                       /\ f = [ctxs EXCEPT ![t] = q]
    OBVIOUS
  <2>4. PICK x : x = [z EXCEPT !.working = b]
    OBVIOUS
  <2>5. z \in Context /\ z.working = y.working /\ z.reqs = r /\ z.exiting = y.exiting
    BY <1>2, <1>4, <2>3 DEF Context
  <2>6. x \in Context /\ x.reqs = r /\ x.exiting = y.exiting /\ x.working = b
    BY <2>2, <2>4, <2>5 DEF Context
  <2>7. f = [ctxs EXCEPT ![t][c].reqs = RemoveAt(@, i)]
    BY <1>1, <2>3
  <2>8. ctxs' = [f EXCEPT ![t][c].working = @ /\ ctxs[t][c].reqs[i].mark \notin {"end", "both"}]
    BY <1>6, <2>7
  <2>9. f[t] = q /\ q[c] = z
    BY <1>2, <2>3 DEF IInv, TypeOK
  <2>10. (f[t][c].working /\ ctxs[t][c].reqs[i].mark \notin {"end", "both"}) = b
    BY <1>1, <2>1, <2>5, <2>9 DEF IsLast
  <2>11. ctxs' = [f EXCEPT ![t][c].working = b]
    BY <2>8, <2>10
  <2>12. [q EXCEPT ![c] = x] = [ctxs[t] EXCEPT ![c] = x]
    BY <1>2, <2>3
  <2>13. ctxs' = [ctxs EXCEPT ![t] = [ctxs[t] EXCEPT ![c] = x]]
    BY <2>3, <2>4, <2>9, <2>11, <2>12
  <2>14. QED
    BY <1>1, <1>3, <1>6, <2>1, <2>6, <2>13
<1>7. QED
  BY <1>5, <1>6 DEF Retire

(* Over a stream that leaves the context of a worker that waits in order.    *)
LEMMA TakenInOrder ==
  ASSUME IInv, NEW t \in Threads, NEW c \in 1..Len(ctxs[t]), NEW i \in Ready(t, c),
         setup.transport = "stream", i \in 1..Len(ctxs[t][c].reqs),
         ~Leaving(workers[t]), ~Sending(workers[t], c), setup.sequence => ctxs[t][c].working,
         NEW x \in Context, x.reqs = RemoveAt(ctxs[t][c].reqs, i), x.exiting = ctxs[t][c].exiting,
         NEW w, ~Sending(w, c),
         \/ Leaving(w)
         \/ /\ ~ctxs[t][c].reqs[i].refused
            /\ x.working = (ctxs[t][c].working /\ ~IsLast(ctxs[t][c].reqs[i]))
  PROVE  ContextInv(x, w, c)
<1>1. PICK y : y = ctxs[t][c]
  OBVIOUS
<1>2. PICK q : q = y.reqs
  OBVIOUS
<1>3. q \in Seq(Request) /\ ContextInv(y, workers[t], c)
  BY <1>1, <1>2, OfContext
<1>4. /\ InOrder(q) /\ Apart(q) /\ ~x.exiting
      /\ ~setup.sequence => Unended(q)
      /\ setup.sequence => Ended(q)
  BY <1>1, <1>2, <1>3 DEF ContextInv, HoldsSequence
<1>5. i \in 1..Len(q) /\ x.reqs = RemoveAt(q, i)
  BY <1>1, <1>2
<1>6. InOrder(x.reqs) /\ Apart(x.reqs) /\ (Unended(q) => Unended(x.reqs))
  BY <1>3, <1>4, <1>5, OneLess
<1>7. ASSUME setup.sequence, ~Leaving(w) PROVE i = 1 /\ 1 \in 1..Len(q)
  <2>1. PICK T : T = {k \in 1..Len(q) : q[k].at = "ready"}
    OBVIOUS
  <2>2. Ready(t, c) = IF T = {} THEN T ELSE {Min(T)}
    BY <1>1, <1>2, <2>1 DEF Ready, Inflight
  <2>3. T # {} /\ i = Min(T)
    BY <2>2
  <2>4. ~q[i].refused
    BY <1>1, <1>2, <1>7
  <2>5. QED
    BY <1>3, <1>4, <1>7, <2>1, <2>3, <2>4, ReadyIsOldest
<1>8. CASE Leaving(w) \/ ~setup.sequence
  BY <1>4, <1>6, <1>8 DEF ContextInv
<1>9. CASE ~Leaving(w) /\ setup.sequence
  <2>0. i = 1 /\ 1 \in 1..Len(q)
    BY <1>7, <1>9
  <2>1. x.reqs = RemoveAt(q, 1)
    BY <1>5, <2>0
  <2>2. IF IsLast(q[1]) THEN x.reqs = <<>> ELSE Ended(x.reqs)
    BY <1>3, <1>4, <1>9, <2>0, <2>1, OldestTaken
  <2>3. x.working = ~IsLast(q[1])
    BY <1>1, <1>2, <1>9, <2>0
  <2>4. HoldsSequence(x, w, c)
    BY <2>2, <2>3 DEF HoldsSequence
  <2>5. QED
    BY <1>4, <1>6, <1>9, <2>4 DEF ContextInv
<1>10. QED
  BY <1>8, <1>9

LEMMA DrainMoves == ASSUME IInv, NEW t \in Threads, Drain(t) PROVE Moves(t)
<1>1. /\ workers[t] \in Worker /\ ctxs[t] \in Seq(Context) /\ LoopInv(workers[t], ctxs[t])
      /\ StreamInv(workers[t], ctxs[t]) /\ workers[t].pc = "drain"
      /\ workers = [workers EXCEPT ![t] = workers[t]]
  BY OfThread DEF Drain
<1>2. ~setup.sequence /\ ctxs[t] # <<>> /\ ~Leaving(workers[t])
  BY <1>1 DEF LoopInv, Leaving
<1>3. CASE Go(t, "bottom") /\ ctxs' = ctxs
  <2>1. PICK p : p = "bottom"
    OBVIOUS
  <2>2. \A w \in Worker : w.pc = p => LoopInv(w, ctxs[t])
    BY <1>2, <2>1 DEF LoopInv
  <2>3. p \in WorkerPcs /\ p # "sequence"
    BY <2>1 DEF WorkerPcs
  <2>4. workers[t].pc \notin {"sequence", "leave", "joining", "done"} /\ Go(t, p)
    BY <1>1, <1>3, <2>1
  <2>5. QED
    BY <1>3, <2>2, <2>3, <2>4, Passes
<1>4. CASE \E i \in Ready(t, 1) : Retire(t, 1, i, workers)
  <2>1. PICK c : c = 1
    OBVIOUS
  <2>2. c \in 1..Len(ctxs[t])
    BY <1>1, <1>2, <2>1
  <2>3. PICK i \in Ready(t, c) : Retire(t, c, i, workers)
    BY <1>4, <2>1
  <2>4. PICK x \in Context :
            /\ ctxs' = [ctxs EXCEPT ![t] = [ctxs[t] EXCEPT ![c] = x]]
            /\ i \in 1..Len(ctxs[t][c].reqs)
            /\ x.reqs = RemoveAt(ctxs[t][c].reqs, i)
            /\ x.exiting = ctxs[t][c].exiting
            /\ \/ Fail(t)
               \/ /\ workers' = workers /\ ~ctxs[t][c].reqs[i].refused
                  /\ x.working = (ctxs[t][c].working /\ ~IsLast(ctxs[t][c].reqs[i]))
    BY <2>2, <2>3, Taken
  <2>5. PICK w \in Worker :
            /\ workers' = [workers EXCEPT ![t] = w]
            /\ w.pc \in {"leave", "drain"}
            /\ \/ Leaving(w)
               \/ /\ ~ctxs[t][c].reqs[i].refused
                  /\ x.working = (ctxs[t][c].working /\ ~IsLast(ctxs[t][c].reqs[i]))
    <3>1. CASE Fail(t)
      BY <3>1, FailsTo DEF Leaving
    <3>2. CASE /\ workers' = workers /\ ~ctxs[t][c].reqs[i].refused
               /\ x.working = (ctxs[t][c].working /\ ~IsLast(ctxs[t][c].reqs[i]))
      BY <1>1, <3>2
    <3>3. QED
      BY <2>4, <3>1, <3>2
  <2>6. \A d : ~Sending(workers[t], d) /\ ~Sending(w, d)
    BY <1>1, <2>5 DEF Sending
  <2>7. ASSUME setup.transport = "stream" PROVE ContextInv(x, w, c)
    BY <1>2, <2>2, <2>4, <2>5, <2>6, <2>7, TakenInOrder
  <2>8. PICK q : q = [ctxs[t] EXCEPT ![c] = x]
    OBVIOUS
  <2>9. q \in Seq(Context) /\ q # <<>> /\ StreamInv(w, q)
    BY <1>1, <1>2, <2>2, <2>6, <2>7, <2>8, OneContext
  <2>10. LoopInv(w, q)
    BY <1>2, <2>5, <2>9 DEF LoopInv
  <2>11. QED
    BY <2>4, <2>5, <2>8, <2>9, <2>10 DEF Moves
<1>5. QED
  BY <1>3, <1>4 DEF Drain

LEMMA PollMoves == ASSUME IInv, NEW t \in Threads, Poll(t) PROVE Moves(t)
<1>1. PICK v, c : v = workers[t] /\ c = v.idx
  OBVIOUS
<1>2. /\ v \in Worker /\ ctxs[t] \in Seq(Context) /\ LoopInv(v, ctxs[t])
      /\ StreamInv(v, ctxs[t]) /\ v.pc = "poll"
      /\ ctxs = [ctxs EXCEPT ![t] = ctxs[t]]
  BY <1>1, OfThread DEF Poll
<1>3. setup.sequence /\ ~Leaving(v) /\ \A d : ~Sending(v, d)
  BY <1>2 DEF LoopInv, Leaving, Sending
<1>4. c \in Nat \ {0} /\ c + 1 \in Nat \ {0} /\ Len(ctxs[t]) \in Nat /\ 1 \in Nat \ {0}
  BY <1>1, <1>2 DEF Worker
<1>5. ASSUME NEW w \in Worker, w.pc \in {"poll", "waiting", "bottom"},
             workers' = [workers EXCEPT ![t] = w], ctxs' = ctxs
      PROVE  Moves(t)
  <2>1. LoopInv(w, ctxs[t])
    BY <1>3, <1>5 DEF LoopInv
  <2>2. StreamInv(w, ctxs[t])
    BY <1>2, <1>3, <1>5, SameContexts
  <2>3. QED
    BY <1>2, <1>5, <2>1, <2>2 DEF Moves
<1>6. CASE c > Len(ctxs[t])
  <2>1. PICK p : p = IF v.keep THEN "poll" ELSE IF share[t] = 0 THEN "waiting" ELSE "bottom"
    OBVIOUS
  <2>2. PICK w : w = [v EXCEPT !.idx = 1, !.keep = FALSE, !.pc = p]
    OBVIOUS
  <2>3. workers' = [workers EXCEPT ![t].idx = 1, ![t].keep = FALSE, ![t].pc = p] /\ ctxs' = ctxs
    BY <1>1, <1>6, <2>1 DEF Poll
  <2>4. workers' = [workers EXCEPT ![t] = w]
    BY <1>1, <2>2, <2>3
  <2>5. p \in WorkerPcs /\ p \in {"poll", "waiting", "bottom"}
    BY <2>1 DEF WorkerPcs
  <2>6. w \in Worker /\ w.pc = p
    BY <1>2, <1>4, <2>2, <2>5 DEF Worker
  <2>7. QED
    BY <1>5, <2>3, <2>4, <2>5, <2>6
<1>7. CASE ~(c > Len(ctxs[t])) /\ (~ctxs[t][c].working \/ Ready(t, c) = {})
  <2>1. PICK w : w = [v EXCEPT !.idx = c + 1]
    OBVIOUS
  <2>2. workers' = [workers EXCEPT ![t].idx = @ + 1] /\ ctxs' = ctxs
    BY <1>1, <1>7 DEF Poll
  <2>3. workers' = [workers EXCEPT ![t] = w]
    BY <1>1, <2>1, <2>2
  <2>4. w \in Worker /\ w.pc = "poll"
    BY <1>2, <1>4, <2>1 DEF Worker
  <2>5. QED
    BY <1>5, <2>2, <2>3, <2>4
<1>8. CASE ~(c > Len(ctxs[t])) /\ ~(~ctxs[t][c].working \/ Ready(t, c) = {})
  <2>1. PICK go : go = [[workers EXCEPT ![t].idx = @ + 1] EXCEPT ![t].keep = TRUE]
    OBVIOUS
  <2>2. PICK i \in Ready(t, c) : Retire(t, c, i, go)
    BY <1>1, <1>8, <2>1 DEF Poll
  <2>3. c \in 1..Len(ctxs[t])
    BY <1>4, <1>8
  <2>4. PICK x \in Context :
            /\ ctxs' = [ctxs EXCEPT ![t] = [ctxs[t] EXCEPT ![c] = x]]
            /\ i \in 1..Len(ctxs[t][c].reqs)
            /\ x.reqs = RemoveAt(ctxs[t][c].reqs, i)
            /\ x.exiting = ctxs[t][c].exiting
            /\ \/ Fail(t)
               \/ /\ workers' = go /\ ~ctxs[t][c].reqs[i].refused
                  /\ x.working = (ctxs[t][c].working /\ ~IsLast(ctxs[t][c].reqs[i]))
    BY <2>2, <2>3, Taken
  <2>5. PICK w \in Worker :
            /\ workers' = [workers EXCEPT ![t] = w]
            /\ w.pc \in {"leave", "poll"}
            /\ \/ Leaving(w)
               \/ /\ ~ctxs[t][c].reqs[i].refused
                  /\ x.working = (ctxs[t][c].working /\ ~IsLast(ctxs[t][c].reqs[i]))
    <3>1. CASE Fail(t)
      BY <3>1, FailsTo DEF Leaving
    <3>2. CASE /\ workers' = go /\ ~ctxs[t][c].reqs[i].refused
               /\ x.working = (ctxs[t][c].working /\ ~IsLast(ctxs[t][c].reqs[i]))
      <4>1. PICK w : w = [v EXCEPT !.idx = c + 1, !.keep = TRUE]
        OBVIOUS
      <4>2. w \in Worker /\ w.pc = "poll"
        BY <1>2, <1>4, <4>1 DEF Worker
      <4>3. go = [workers EXCEPT ![t] = w]
        BY <1>1, <1>2, <2>1, <4>1 DEF IInv, TypeOK, Worker
      <4>4. QED
        BY <3>2, <4>2, <4>3
    <3>3. QED
      BY <2>4, <3>1, <3>2
  <2>6. \A d : ~Sending(workers[t], d) /\ ~Sending(w, d)
    BY <1>1, <1>2, <2>5 DEF Sending
  <2>7. ASSUME setup.transport = "stream" PROVE ContextInv(x, w, c)
    <3>1. ~Leaving(workers[t]) /\ ctxs[t][c].working
      BY <1>1, <1>3, <1>8
    <3>2. QED
      BY <2>3, <2>4, <2>5, <2>6, <2>7, <3>1, TakenInOrder
  <2>8. PICK q : q = [ctxs[t] EXCEPT ![c] = x]
    OBVIOUS
  <2>9. q \in Seq(Context) /\ q # <<>> /\ StreamInv(w, q)
    <3>1. ctxs[t] \in Seq(Context) /\ StreamInv(workers[t], ctxs[t])
      BY <1>1, <1>2
    <3>2. ~Leaving(workers[t])
      BY <1>1, <1>3
    <3>3. \A d \in 1..Len(ctxs[t]) : d # c => Leaving(w) \/ (~Sending(workers[t], d) /\ ~Sending(w, d))
      BY <2>6
    <3>4. QED
      BY <2>3, <2>7, <2>8, <3>1, <3>2, <3>3, OneContext
  <2>10. LoopInv(w, q)
    BY <1>3, <2>5, <2>9 DEF LoopInv
  <2>11. QED
    BY <2>4, <2>5, <2>8, <2>9, <2>10 DEF Moves
<1>9. QED
  BY <1>6, <1>7, <1>8

-----------------------------------------------------------------------------
(* Contexts are destroyed.                                                   *)

(* Of a worker that leaves little is asked.                                  *)
LEMMA LeavingContext ==
  ASSUME NEW x, NEW w, NEW v, NEW c, ContextInv(x, w, c), Leaving(v),
         NEW y, y.reqs = x.reqs, NEW d
  PROVE  ContextInv(y, v, d)
BY DEF ContextInv

LEMMA DestroyMoves == ASSUME IInv, NEW t \in Threads, Destroy(t) PROVE Moves(t)
<1>1. /\ workers[t] \in Worker /\ ctxs[t] \in Seq(Context) /\ LoopInv(workers[t], ctxs[t])
      /\ StreamInv(workers[t], ctxs[t]) /\ workers[t].pc = "leave"
      /\ ctxs = [ctxs EXCEPT ![t] = ctxs[t]]
  BY OfThread DEF Destroy
<1>2. CASE ctxs[t] = <<>>
  <2>1. Go(t, "done") /\ ctxs' = ctxs
    BY <1>2 DEF Destroy
  <2>2. PICK w \in Worker : /\ workers' = [workers EXCEPT ![t] = w]
                            /\ w = [workers[t] EXCEPT !.pc = "done"]
    BY <2>1, GoesTo DEF WorkerPcs
  <2>3. w.pc = "done"
    BY <1>1, <2>2 DEF Worker
  <2>4. LoopInv(w, ctxs[t]) /\ StreamInv(w, ctxs[t])
    BY <1>1, <2>3, SameContexts DEF LoopInv, Leaving
  <2>5. QED
    BY <1>1, <2>1, <2>2, <2>4 DEF Moves
<1>3. CASE ctxs[t] # <<>>
  <2>1. PICK y, k : /\ y = ctxs[t][1]
                    /\ k = IF Head(ctxs[t]).client = "asleep" THEN "awake" ELSE y.client
    OBVIOUS
  <2>2. PICK c : c = 1
    OBVIOUS
  <2>3. c \in 1..Len(ctxs[t])
    BY <1>1, <1>3, <2>2
  <2>4. y \in Context
    BY <1>1, <2>1, <2>2, <2>3
  <2>5. PICK x : x = [y EXCEPT !.exiting = TRUE, !.client = k]
    OBVIOUS
  <2>6. k \in {"off", "reading", "awake", "decided", "asleep", "polling", "ended"}
    BY <2>1, <2>4 DEF Context
  <2>7. x \in Context /\ x.reqs = y.reqs
    BY <2>4, <2>5, <2>6 DEF Context
  <2>8. /\ Go(t, "joining")
        /\ ctxs' = [ctxs EXCEPT ![t][c].exiting = TRUE,
                      ![t][c].client = IF Head(ctxs[t]).client = "asleep" THEN "awake" ELSE @]
    BY <1>3, <2>2 DEF Destroy
  <2>9. PICK q : q = [ctxs[t] EXCEPT ![c] = x]
    OBVIOUS
  <2>10. ctxs' = [ctxs EXCEPT ![t] = q]
    <3>1. PICK z, p, f : /\ z = [y EXCEPT !.exiting = TRUE] /\ p = [ctxs[t] EXCEPT ![c] = z]
                         /\ f = [ctxs EXCEPT ![t] = p]
      OBVIOUS
    <3>2. f = [ctxs EXCEPT ![t][c].exiting = TRUE]
      BY <2>1, <2>2, <3>1
    <3>3. f[t] = p /\ p[c] = z /\ z.client = y.client
      BY <1>1, <2>3, <2>4, <3>1 DEF IInv, TypeOK, Context
    <3>4. ctxs' = [f EXCEPT ![t][c].client = IF Head(ctxs[t]).client = "asleep" THEN "awake" ELSE @]
      BY <2>8, <3>2
    <3>5. (IF Head(ctxs[t]).client = "asleep" THEN "awake" ELSE f[t][c].client) = k
      BY <2>1, <3>3
    <3>6. ctxs' = [f EXCEPT ![t][c].client = k]
      BY <3>4, <3>5
    <3>7. x = [z EXCEPT !.client = k]
      BY <2>4, <2>5, <3>1 DEF Context
    <3>8. [p EXCEPT ![c] = x] = q
      BY <1>1, <2>9, <3>1
    <3>9. ctxs' = [f EXCEPT ![t] = [p EXCEPT ![c] = [z EXCEPT !.client = k]]]
      BY <3>3, <3>6
    <3>10. ctxs' = [f EXCEPT ![t] = q]
      BY <3>7, <3>8, <3>9
    <3>11. QED
      BY <3>1, <3>10
  <2>11. PICK w \in Worker : /\ workers' = [workers EXCEPT ![t] = w]
                             /\ w = [workers[t] EXCEPT !.pc = "joining"]
    BY <2>8, GoesTo DEF WorkerPcs
  <2>12. w.pc = "joining" /\ Leaving(w)
    BY <1>1, <2>11 DEF Worker, Leaving
  <2>13. ASSUME setup.transport = "stream" PROVE ContextInv(x, w, c)
    <3>1. ContextInv(y, workers[t], c)
      BY <2>1, <2>2, <2>3, <2>13, OfContext
    <3>2. QED
      BY <2>7, <2>12, <3>1, LeavingContext
  <2>14. q \in Seq(Context) /\ q # <<>> /\ StreamInv(w, q)
    BY <1>1, <2>3, <2>7, <2>9, <2>12, <2>13, OneContext
  <2>15. LoopInv(w, q)
    BY <2>12, <2>14 DEF LoopInv
  <2>16. QED
    BY <2>10, <2>11, <2>14, <2>15 DEF Moves
<1>4. QED
  BY <1>2, <1>3

LEMMA DestroyedMoves == ASSUME IInv, NEW t \in Threads, Destroyed(t) PROVE Moves(t)
<1>1. /\ workers[t] \in Worker /\ ctxs[t] \in Seq(Context) /\ LoopInv(workers[t], ctxs[t])
      /\ StreamInv(workers[t], ctxs[t]) /\ workers[t].pc = "joining"
  BY OfThread DEF Destroyed
<1>2. ctxs[t] # <<>>
  BY <1>1 DEF LoopInv
<1>3. PICK q : q = Tail(ctxs[t])
  OBVIOUS
<1>4. /\ q \in Seq(Context) /\ Len(q) = Len(ctxs[t]) - 1 /\ Len(q) \in Nat /\ Len(ctxs[t]) \in Nat
      /\ \A c \in 1..Len(q) : q[c] = ctxs[t][c + 1]
  BY <1>1, <1>2, <1>3
<1>5. ctxs' = [ctxs EXCEPT ![t] = q] /\ Go(t, "leave")
  BY <1>3 DEF Destroyed
<1>6. PICK w \in Worker : /\ workers' = [workers EXCEPT ![t] = w]
                          /\ w = [workers[t] EXCEPT !.pc = "leave"]
  BY <1>5, GoesTo DEF WorkerPcs
<1>7. w.pc = "leave" /\ Leaving(w)
  BY <1>1, <1>6 DEF Worker, Leaving
<1>8. LoopInv(w, q)
  BY <1>7 DEF LoopInv
<1>9. ASSUME setup.transport = "stream", NEW c \in 1..Len(q) PROVE ContextInv(q[c], w, c)
  <2>1. c + 1 \in 1..Len(ctxs[t])
    BY <1>4
  <2>2. ContextInv(ctxs[t][c + 1], workers[t], c + 1)
    BY <1>9, <2>1, OfContext
  <2>3. q[c] = ctxs[t][c + 1]
    BY <1>4
  <2>4. q[c].reqs = ctxs[t][c + 1].reqs
    BY <2>3
  <2>5. QED
    BY <1>7, <2>2, <2>4, LeavingContext
<1>10. QED
  BY <1>4, <1>5, <1>6, <1>8, <1>9 DEF Moves, StreamInv

LEMMA WorkerMoves ==
  ASSUME IInv, NEW t \in Threads, WorkerStep(t)
  PROVE  /\ Moves(t)
         /\ UNCHANGED <<setup, main, early_exit, share>>
         /\ timestamps' \in BOOLEAN /\ missed' \subseteq {"worker", "client"}
<1>1. Moves(t)
  BY PrepareMoves, TopMoves, WaitingMoves, DozeMoves, SendMoves, CollectMoves, FullMoves,
     DrainMoves, BottomMoves, CreateMoves, GrowMoves, SendSequenceMoves, PollMoves,
     DestroyMoves, DestroyedMoves DEF WorkerStep
<1>2. timestamps \in BOOLEAN /\ missed \subseteq {"worker", "client"}
  BY DEF IInv, TypeOK
<1>3. CASE Destroy(t)
  BY <1>1, <1>2, <1>3 DEF Destroy
<1>4. CASE Drain(t)
  BY <1>1, <1>2, <1>4 DEF Drain, Retire, MainAsIs
<1>5. CASE Poll(t)
  BY <1>1, <1>2, <1>5 DEF Poll, Retire, MainAsIs
<1>6. CASE Prepare(t) \/ Top(t) \/ Waiting(t) \/ Doze(t) \/ Send(t)
  BY <1>1, <1>2, <1>6 DEF Prepare, Top, Waiting, Doze, Send, MainAsIs
<1>7. CASE Collect(t) \/ Full(t) \/ Bottom(t) \/ Create(t) \/ Grow(t)
  BY <1>1, <1>2, <1>7 DEF Collect, Full, Bottom, Create, Grow, MainAsIs
<1>8. CASE SendSequence(t) \/ Destroyed(t)
  BY <1>1, <1>2, <1>8 DEF SendSequence, Destroyed, MainAsIs
<1>9. QED
  BY <1>3, <1>4, <1>5, <1>6, <1>7, <1>8 DEF WorkerStep

-----------------------------------------------------------------------------
(* The transfer threads and the server.                                      *)

(* A context changes while its worker does not.                              *)
LEMMA Beside ==
  ASSUME IInv, NEW t \in Threads, NEW c \in 1..Len(ctxs[t]), NEW x \in Context,
         ctxs' = [ctxs EXCEPT ![t] = [ctxs[t] EXCEPT ![c] = x]], workers' = workers,
         setup.transport = "stream" => ContextInv(x, workers[t], c)
  PROVE  Moves(t)
<1>1. /\ workers[t] \in Worker /\ ctxs[t] \in Seq(Context) /\ LoopInv(workers[t], ctxs[t])
      /\ StreamInv(workers[t], ctxs[t]) /\ workers = [workers EXCEPT ![t] = workers[t]]
  BY OfThread
<1>2. PICK q : q = [ctxs[t] EXCEPT ![c] = x]
  OBVIOUS
<1>3. /\ q \in Seq(Context) /\ Len(q) = Len(ctxs[t]) /\ q # <<>> /\ q[c] = x
      /\ \A d \in 1..Len(q) : d # c => q[d] = ctxs[t][d]
  BY <1>1, <1>2
<1>4. LoopInv(workers[t], q)
  BY <1>1, <1>3 DEF LoopInv
<1>5. StreamInv(workers[t], q)
  BY <1>1, <1>3 DEF StreamInv
<1>6. QED
  BY <1>1, <1>2, <1>3, <1>4, <1>5 DEF Moves

(* What is known of a context does not depend on its thread, nor on whether  *)
(* the stream was closed.                                                    *)
LEMMA SameRequests ==
  ASSUME NEW x, NEW y, NEW w, NEW c, ContextInv(x, w, c),
         y.reqs = x.reqs, y.working = x.working, y.exiting = x.exiting
  PROVE  ContextInv(y, w, c)
BY DEF ContextInv, HoldsSequence

(* Nor on how far its requests got.                                          *)
LEMMA Progress ==
  ASSUME NEW x, NEW y, NEW w, NEW c, ContextInv(x, w, c),
         x.reqs \in Seq(Request), y.reqs \in Seq(Request), InOrder(y.reqs),
         Len(y.reqs) = Len(x.reqs), \A k \in 1..Len(x.reqs) : y.reqs[k].mark = x.reqs[k].mark,
         y.working = x.working, y.exiting = x.exiting
  PROVE  ContextInv(y, w, c)
<1>1. PICK q, r : q = x.reqs /\ r = y.reqs
  OBVIOUS
<1>2. q \in Seq(Request) /\ r \in Seq(Request) /\ Len(r) = Len(q)
      /\ \A k \in 1..Len(q) : r[k].mark = q[k].mark
  BY <1>1
<1>3. /\ Apart(r) <=> Apart(q)
      /\ Unended(r) <=> Unended(q)
      /\ Ended(r) <=> Ended(q)
      /\ r = <<>> <=> q = <<>>
  BY <1>2, SameMarks
<1>4. QED
  BY <1>1, <1>3 DEF ContextInv, HoldsSequence

LEMMA ThreadChanges ==
  ASSUME IInv, NEW t \in Threads, NEW c \in 1..Len(ctxs[t]), workers' = workers,
         NEW k \in {"off", "reading", "awake", "decided", "asleep", "polling", "ended"},
         Client(t, c, k)
  PROVE  Moves(t)
<1>1. PICK y, x : y = ctxs[t][c] /\ x = [y EXCEPT !.client = k]
  OBVIOUS
<1>2. ctxs[t] \in Seq(Context)
  BY OfThread
<1>3. y \in Context
  BY <1>1, <1>2
<1>4. /\ x \in Context
      /\ x.reqs = y.reqs /\ x.working = y.working /\ x.exiting = y.exiting
  BY <1>1, <1>3 DEF Context
<1>5. ctxs' = [ctxs EXCEPT ![t] = [ctxs[t] EXCEPT ![c] = x]]
  BY <1>1 DEF Client
<1>6. ASSUME setup.transport = "stream" PROVE ContextInv(x, workers[t], c)
  <2>1. ContextInv(y, workers[t], c)
    BY <1>1, <1>6, OfContext
  <2>2. QED
    BY <1>4, <2>1, SameRequests
<1>7. QED
  BY <1>4, <1>5, <1>6, Beside

LEMMA ClientWaitMoves ==
  ASSUME IInv, NEW t \in Threads, NEW c \in 1..Len(ctxs[t]), ClientWait(t, c) PROVE Moves(t)
BY ThreadChanges DEF ClientWait, OthersAsIs

LEMMA ClientSleepMoves ==
  ASSUME IInv, NEW t \in Threads, NEW c \in 1..Len(ctxs[t]), ClientSleep(t, c) PROVE Moves(t)
BY ThreadChanges DEF ClientSleep, OthersAsIs

LEMMA GrpcNextMoves ==
  ASSUME IInv, NEW t \in Threads, NEW c \in 1..Len(ctxs[t]), GrpcNext(t, c) PROVE Moves(t)
<1>1. PICK k : k = IF ctxs[t][c].exiting THEN "ended" ELSE "polling"
  OBVIOUS
<1>2. k \in {"ended", "polling"} /\ Client(t, c, k) /\ workers' = workers
  BY <1>1 DEF GrpcNext, OthersAsIs
<1>3. QED
  BY <1>2, ThreadChanges

LEMMA HttpAsyncTransferMoves ==
  ASSUME IInv, NEW t \in Threads, NEW c \in 1..Len(ctxs[t]), HttpAsyncTransfer(t, c) PROVE Moves(t)
<1>1. PICK y : y = ctxs[t][c]
  OBVIOUS
<1>2. ctxs[t] \in Seq(Context)
  BY OfThread
<1>3. y \in Context /\ y.reqs \in Seq(Request)
  <2>1. y \in Context
    BY <1>1, <1>2
  <2>2. QED
    BY <2>1 DEF Context
<1>4. PICK r : r = [i \in DOMAIN y.reqs |-> IF i \in Answered(y)
                      THEN [y.reqs[i] EXCEPT !.at = "ready"] ELSE y.reqs[i]]
  OBVIOUS
<1>5. r \in Seq(Request)
  <2>1. ASSUME NEW i \in 1..Len(y.reqs) PROVE r[i] \in Request
    <3>1. y.reqs[i] \in Request
      BY <1>3
    <3>2. [y.reqs[i] EXCEPT !.at = "ready"] \in Request
      BY <3>1 DEF Request
    <3>3. QED
      BY <1>3, <1>4, <3>1, <3>2
  <2>2. r = [i \in 1..Len(y.reqs) |-> r[i]] /\ Len(y.reqs) \in Nat
    BY <1>3, <1>4
  <2>3. QED
    BY <2>1, <2>2
<1>6. PICK k : k = IF y.exiting THEN "ended" ELSE "awake"
  OBVIOUS
<1>7. /\ setup.transport = "http" /\ workers' = workers
      /\ ctxs' = [ctxs EXCEPT ![t][c].reqs = r, ![t][c].client = k]
  BY <1>1, <1>4, <1>6 DEF HttpAsyncTransfer, OthersAsIs
<1>8. PICK f : f = [ctxs EXCEPT ![t][c].reqs = r]
  OBVIOUS
<1>9. ctxs' = [f EXCEPT ![t][c].client = k]
  BY <1>7, <1>8
<1>10. k \in {"off", "reading", "awake", "decided", "asleep", "polling", "ended"}
  BY <1>6
<1>11. \E x \in Context : ctxs' = [ctxs EXCEPT ![t] = [ctxs[t] EXCEPT ![c] = x]]
  <2>1. Becomes(t, c, r, k)
    BY <1>8, <1>9 DEF Becomes
  <2>2. QED
    BY <1>1, <1>3, <1>5, <1>10, <2>1, BothChange
<1>12. QED
  BY <1>7, <1>11, Beside

LEMMA GrpcAsyncTransferMoves ==
  ASSUME IInv, NEW t \in Threads, NEW c \in 1..Len(ctxs[t]), GrpcAsyncTransfer(t, c) PROVE Moves(t)
<1>1. PICK y : y = ctxs[t][c]
  OBVIOUS
<1>2. ctxs[t] \in Seq(Context)
  BY OfThread
<1>3. y \in Context /\ y.reqs \in Seq(Request)
  <2>1. y \in Context
    BY <1>1, <1>2
  <2>2. QED
    BY <2>1 DEF Context
<1>4. PICK k : k = IF y.exiting THEN "ended" ELSE "awake"
  OBVIOUS
<1>5. PICK i \in Answered(y) : ctxs' = [ctxs EXCEPT ![t][c].reqs[i].at = "ready", ![t][c].client = k]
  BY <1>1, <1>4 DEF GrpcAsyncTransfer
<1>6. setup.transport = "grpc" /\ workers' = workers
  BY DEF GrpcAsyncTransfer, OthersAsIs
<1>7. PICK r : r = [y.reqs EXCEPT ![i].at = "ready"]
  OBVIOUS
<1>8. i \in 1..Len(y.reqs)
  BY <1>3, <1>5 DEF Answered
<1>9. r \in Seq(Request)
  <2>1. r = Moved(y.reqs, i, "ready")
    BY <1>7 DEF Moved
  <2>2. QED
    BY <1>3, <1>8, <2>1, StillRequests
<1>10. PICK f : f = [ctxs EXCEPT ![t][c].reqs = r]
  OBVIOUS
<1>11. f = [ctxs EXCEPT ![t][c].reqs[i].at = "ready"]
  BY <1>1, <1>7, <1>10
<1>12. ctxs' = [f EXCEPT ![t][c].client = k]
  BY <1>5, <1>11
<1>13. k \in {"off", "reading", "awake", "decided", "asleep", "polling", "ended"}
  BY <1>4
<1>14. \E x \in Context : ctxs' = [ctxs EXCEPT ![t] = [ctxs[t] EXCEPT ![c] = x]]
  <2>1. Becomes(t, c, r, k)
    BY <1>10, <1>12 DEF Becomes
  <2>2. QED
    BY <1>1, <1>3, <1>9, <1>13, <2>1, BothChange
<1>15. QED
  BY <1>6, <1>14, Beside

LEMMA StreamAsyncTransferMoves ==
  ASSUME IInv, NEW t \in Threads, NEW c \in 1..Len(ctxs[t]), StreamAsyncTransfer(t, c) PROVE Moves(t)
<1>1. PICK y : y = ctxs[t][c]
  OBVIOUS
<1>2. ctxs[t] \in Seq(Context) /\ workers' = workers
  BY OfThread DEF StreamAsyncTransfer, OthersAsIs
<1>3. y \in Context /\ y.reqs \in Seq(Request)
  <2>1. y \in Context
    BY <1>1, <1>2
  <2>2. QED
    BY <2>1 DEF Context
<1>4. CASE Answered(y) # {}
  <2>1. PICK T : T = Answered(y)
    OBVIOUS
  <2>2. T \in SUBSET Nat /\ T # {} /\ T = {k \in DOMAIN y.reqs : y.reqs[k].at = "answered"}
    BY <1>3, <1>4, <2>1 DEF Answered
  <2>2a. PICK i \in T : /\ Ordered => y.reqs[i].refused \/ i = Min(T)
                       /\ ctxs' = [ctxs EXCEPT ![t][c].reqs =
                            IF y.exiting THEN RemoveAt(@, i) ELSE [@ EXCEPT ![i].at = "ready"]]
    BY <1>1, <1>4, <2>1 DEF StreamAsyncTransfer
  <2>3. i \in 1..Len(y.reqs)
    BY <1>3, <2>2
  <2>4. PICK r : r = IF y.exiting THEN RemoveAt(y.reqs, i) ELSE [y.reqs EXCEPT ![i].at = "ready"]
    OBVIOUS
  <2>5. ctxs' = [ctxs EXCEPT ![t][c].reqs = r]
    BY <1>1, <2>4, <2>2a
  <2>6. r \in Seq(Request)
    <3>1. PICK q : q = y.reqs
      OBVIOUS
    <3>2. q \in Seq(Request) /\ i \in 1..Len(q)
      BY <1>3, <2>3, <3>1
    <3>3. CASE ~y.exiting
      <4>1. r = Moved(q, i, "ready")
        BY <2>4, <3>1, <3>3 DEF Moved
      <4>2. QED
        BY <3>2, <4>1, StillRequests
    <3>4. CASE y.exiting
      <4>1. r = RemoveAt(q, i)
        BY <2>4, <3>1, <3>4
      <4>2. QED
        BY <3>2, <4>1, RemoveAtLeaves
    <3>5. QED
      BY <3>3, <3>4
  <2>7. PICK x : x = [y EXCEPT !.reqs = r]
    OBVIOUS
  <2>8. x \in Context /\ x.reqs = r /\ x.working = y.working /\ x.exiting = y.exiting
    BY <1>3, <2>6, <2>7 DEF Context
  <2>9. ctxs' = [ctxs EXCEPT ![t] = [ctxs[t] EXCEPT ![c] = x]]
    BY <1>1, <2>5, <2>7
  <2>10. ASSUME setup.transport = "stream" PROVE ContextInv(x, workers[t], c)
    <3>1. ContextInv(y, workers[t], c)
      BY <1>1, <2>10, OfContext
    <3>2. InOrder(y.reqs) /\ Apart(y.reqs) /\ (~setup.sequence => Unended(y.reqs))
      BY <3>1 DEF ContextInv
    <3>3. CASE y.exiting
      <4>1. Leaving(workers[t])
        BY <3>1, <3>3 DEF ContextInv
      <4>2. r = RemoveAt(y.reqs, i)
        BY <2>4, <3>3
      <4>3. InOrder(r) /\ Apart(r) /\ (Unended(y.reqs) => Unended(r))
        BY <1>3, <2>3, <3>2, <4>2, OneLess
      <4>4. QED
        BY <2>8, <3>2, <4>1, <4>3 DEF ContextInv
    <3>4. CASE ~y.exiting
      <4>1. r = [y.reqs EXCEPT ![i].at = "ready"]
        BY <2>4, <3>4
      <4>2. /\ Len(r) = Len(y.reqs) /\ r[i].at = "ready"
            /\ \A k \in 1..Len(y.reqs) : k # i => r[k] = y.reqs[k]
            /\ \A k \in 1..Len(y.reqs) : r[k].mark = y.reqs[k].mark
            /\ r[i].refused = y.reqs[i].refused
        <5>1. r = Moved(y.reqs, i, "ready")
          BY <4>1 DEF Moved
        <5>2. r[i].refused = y.reqs[i].refused
          BY <1>3, <2>3, <5>1, StillRefused
        <5>3. /\ Len(r) = Len(y.reqs) /\ r[i].at = "ready"
              /\ \A k \in 1..Len(y.reqs) : k # i => r[k] = y.reqs[k]
              /\ \A k \in 1..Len(y.reqs) : r[k].mark = y.reqs[k].mark
          <6>1. PICK q : q = y.reqs
            OBVIOUS
          <6>2. q \in Seq(Request) /\ i \in 1..Len(q) /\ r = Moved(q, i, "ready")
            BY <1>3, <2>3, <5>1, <6>1
          <6>3. /\ Len(r) = Len(q) /\ r[i].at = "ready"
                /\ \A k \in 1..Len(q) : k # i => r[k] = q[k]
                /\ \A k \in 1..Len(q) : r[k].mark = q[k].mark
            BY <6>2, StillRequests
          <6>4. QED
            BY <6>1, <6>3
        <5>4. QED
          BY <5>2, <5>3
      <4>3. /\ y.reqs[i].at = "answered"
            /\ setup.sequence => \/ r[i].refused
                                 \/ \A k \in 1..Len(y.reqs) : k < i => y.reqs[k].at # "answered"
        <5>1. y.reqs[i].at = "answered"
          BY <1>3, <2>2, <2>2a
        <5>2. ASSUME setup.sequence, ~r[i].refused, NEW k \in 1..Len(y.reqs), k < i
              PROVE  y.reqs[k].at # "answered"
          <6>1. i = Min(T)
            BY <2>10, <2>2a, <4>2, <5>2 DEF Ordered
          <6>2. \A j \in T : i <= j
            BY <2>2, <6>1, LeastIsLeast
          <6>3. k \in Nat /\ i \in Nat /\ k \in DOMAIN y.reqs
            BY <1>3, <2>3
          <6>4. QED
            BY <2>2, <5>2, <6>2, <6>3
        <5>3. QED
          BY <5>1, <5>2
      <4>4. setup.sequence => MovesFirst(y.reqs, r, i, "answered", "ready")
        BY <4>2, <4>3 DEF MovesFirst
      <4>5. InOrder(r)
        <5>1. CASE setup.sequence
          BY <1>3, <2>3, <2>6, <3>2, <4>4, <5>1, FirstMoves
        <5>2. CASE ~setup.sequence
          BY <5>2 DEF InOrder
        <5>3. QED
          BY <5>1, <5>2
      <4>6. QED
        BY <1>3, <2>6, <2>8, <3>1, <4>2, <4>5, Progress
    <3>5. QED
      BY <3>3, <3>4
  <2>11. QED
    BY <1>2, <2>8, <2>9, <2>10, Beside
<1>5. CASE Answered(y) = {}
  <2>1. Client(t, c, "ended")
    BY <1>1, <1>5 DEF StreamAsyncTransfer
  <2>2. QED
    BY <1>2, <2>1, ThreadChanges
<1>6. QED
  BY <1>4, <1>5

LEMMA AnswerMoves ==
  ASSUME IInv, NEW t \in Threads, NEW c \in 1..Len(ctxs[t]), Answer(t, c) PROVE Moves(t)
<1>1. PICK y : y = ctxs[t][c]
  OBVIOUS
<1>2. ctxs[t] \in Seq(Context) /\ workers' = workers
  BY OfThread DEF Answer, OthersAsIs
<1>3. y \in Context /\ y.reqs \in Seq(Request)
  <2>1. y \in Context
    BY <1>1, <1>2
  <2>2. QED
    BY <2>1 DEF Context
<1>4. PICK T : T = {k \in DOMAIN y.reqs : y.reqs[k].at = "server"}
  OBVIOUS
<1>5. PICK i \in T, b \in BOOLEAN :
         /\ Ordered => b \/ i = Min(T)
         /\ ctxs' = [ctxs EXCEPT ![t][c].reqs[i] = [@ EXCEPT !.at = "answered", !.refused = b]]
  BY <1>1, <1>4 DEF Answer
<1>6. PICK r, x : r = Replied(y.reqs, i, b) /\ x = [y EXCEPT !.reqs = r]
  OBVIOUS
<1>7. i \in 1..Len(y.reqs)
  BY <1>3, <1>4, <1>5
<1>8. /\ r \in Seq(Request) /\ Len(r) = Len(y.reqs) /\ r[i].at = "answered" /\ r[i].refused = b
      /\ \A k \in 1..Len(y.reqs) : k # i => r[k] = y.reqs[k]
      /\ \A k \in 1..Len(y.reqs) : r[k].mark = y.reqs[k].mark
  BY <1>3, <1>6, <1>7, RepliedRequests
<1>9. x \in Context /\ x.reqs = r /\ x.working = y.working /\ x.exiting = y.exiting
  BY <1>3, <1>6, <1>8 DEF Context
<1>10. ctxs' = [ctxs EXCEPT ![t] = [ctxs[t] EXCEPT ![c] = x]]
  BY <1>1, <1>5, <1>6 DEF Replied
<1>11. ASSUME setup.transport = "stream" PROVE ContextInv(x, workers[t], c)
  <2>1. ContextInv(y, workers[t], c) /\ InOrder(y.reqs)
    BY <1>1, <1>11, OfContext DEF ContextInv
  <2>2. y.reqs[i].at = "server"
    BY <1>4, <1>5
  <2>3. ASSUME setup.sequence, ~b, NEW k \in 1..Len(y.reqs), k < i
        PROVE  y.reqs[k].at # "server"
    <3>1. T \in SUBSET Nat /\ T # {} /\ i = Min(T)
      BY <1>3, <1>4, <1>5, <1>11, <2>3 DEF Ordered
    <3>2. \A j \in T : i <= j
      BY <3>1, LeastIsLeast
    <3>3. k \in Nat /\ i \in Nat /\ k \in DOMAIN y.reqs
      BY <1>3, <1>7
    <3>4. QED
      BY <1>4, <2>3, <3>2, <3>3
  <2>4. setup.sequence => MovesFirst(y.reqs, r, i, "server", "answered")
    BY <1>8, <2>2, <2>3 DEF MovesFirst
  <2>5. InOrder(r)
    <3>1. CASE setup.sequence
      BY <1>3, <1>7, <1>8, <2>1, <2>4, <3>1, FirstMoves
    <3>2. CASE ~setup.sequence
      BY <3>2 DEF InOrder
    <3>3. QED
      BY <3>1, <3>2
  <2>6. QED
    BY <1>3, <1>8, <1>9, <2>1, <2>5, Progress
<1>12. QED
  BY <1>2, <1>9, <1>10, <1>11, Beside

LEMMA StreamEndsMoves ==
  ASSUME IInv, NEW t \in Threads, NEW c \in 1..Len(ctxs[t]), StreamEnds(t, c) PROVE Moves(t)
<1>1. PICK y, x : y = ctxs[t][c] /\ x = [y EXCEPT !.closed = TRUE]
  OBVIOUS
<1>2. ctxs[t] \in Seq(Context) /\ workers' = workers
  BY OfThread DEF StreamEnds, OthersAsIs
<1>3. y \in Context
  BY <1>1, <1>2
<1>4. /\ x \in Context
      /\ x.reqs = y.reqs /\ x.working = y.working /\ x.exiting = y.exiting
  BY <1>1, <1>3 DEF Context
<1>5. ctxs' = [ctxs EXCEPT ![t] = [ctxs[t] EXCEPT ![c] = x]]
  BY <1>1 DEF StreamEnds
<1>6. ASSUME setup.transport = "stream" PROVE ContextInv(x, workers[t], c)
  <2>1. ContextInv(y, workers[t], c)
    BY <1>1, <1>6, OfContext
  <2>2. QED
    BY <1>4, <2>1, SameRequests
<1>7. QED
  BY <1>2, <1>4, <1>5, <1>6, Beside

LEMMA ContextMoves ==
  ASSUME IInv, NEW t \in Threads, NEW c \in Contexts(t),
         ClientStep(t, c) \/ Answer(t, c) \/ StreamEnds(t, c)
  PROVE  Moves(t) /\ UNCHANGED <<setup, main, early_exit, share, timestamps, missed>>
<1>1. c \in 1..Len(ctxs[t])
  BY DEF Contexts
<1>2. Moves(t)
  BY <1>1, ClientWaitMoves, ClientSleepMoves, HttpAsyncTransferMoves, GrpcNextMoves,
     GrpcAsyncTransferMoves, StreamAsyncTransferMoves, AnswerMoves, StreamEndsMoves DEF ClientStep
<1>3. OthersAsIs
  BY DEF ClientStep, ClientWait, ClientSleep, HttpAsyncTransfer, GrpcNext, GrpcAsyncTransfer,
         StreamAsyncTransfer, Answer, StreamEnds
<1>4. QED
  BY <1>2, <1>3 DEF OthersAsIs

-----------------------------------------------------------------------------
(* The main thread.                                                          *)

(* A step that leaves the contexts, and the loops of the workers, as they    *)
(* are, but for wake-ups and one worker more.                                *)
LEMMA Calm ==
  ASSUME IInv, setup' = setup, ctxs' = ctxs, workers' \in [Threads -> Worker],
         \A t \in Threads :
            \/ workers'[t] = workers[t]
            \/ /\ workers[t].pc = "asleep" /\ workers'[t].pc = "waiting"
            \/ /\ workers[t].pc = "none"
               /\ workers'[t].pc = IF setup.sequence THEN "create" ELSE "prepare"
  PROVE  \A t \in Threads : LoopInv(workers'[t], ctxs[t]) /\ StreamInv(workers'[t], ctxs[t])
<1>1. TAKE t \in Threads
<1>2. PICK w : w = workers'[t]
  OBVIOUS
<1>3. LoopInv(workers[t], ctxs[t]) /\ StreamInv(workers[t], ctxs[t])
  BY OfThread
<1>4. CASE w = workers[t]
  BY <1>2, <1>3, <1>4
<1>5. CASE workers[t].pc = "asleep" /\ w.pc = "waiting"
  <2>1. LoopInv(w, ctxs[t])
    BY <1>3, <1>5 DEF LoopInv
  <2>2. ~Leaving(workers[t]) /\ workers[t].pc # "sequence" /\ w.pc # "sequence"
    BY <1>5 DEF Leaving
  <2>3. StreamInv(w, ctxs[t])
    BY <1>3, <2>2, SameContexts
  <2>4. QED
    BY <1>2, <2>1, <2>3
<1>6. CASE workers[t].pc = "none" /\ w.pc = IF setup.sequence THEN "create" ELSE "prepare"
  <2>1. LoopInv(w, ctxs[t])
    BY <1>3, <1>6 DEF LoopInv
  <2>2. ~Leaving(workers[t]) /\ workers[t].pc # "sequence" /\ w.pc # "sequence"
    BY <1>6 DEF Leaving
  <2>3. StreamInv(w, ctxs[t])
    BY <1>3, <2>2, SameContexts
  <2>4. QED
    BY <1>2, <2>1, <2>3
<1>7. QED
  BY <1>2, <1>4, <1>5, <1>6

(* What the main thread's own variables may become.                          *)
MainPcs ==
  {"launch", "spread", "notify", "check", "measure", "report", "quit", "wake", "join", "ended"}

MainTypes ==
  /\ setup' = setup
  /\ main' \in [pc: MainPcs, level: Nat, idx: Nat \ {0}, passes: Nat]
  /\ early_exit' \in BOOLEAN
  /\ share' \in [Threads -> Nat]
  /\ timestamps' \in BOOLEAN
  /\ missed' \subseteq {"worker", "client"}

(* The definitions of the invariant mention no variable but setup.           *)
LEMMA InvariantNext ==
  ASSUME setup' = setup, MainTypes, workers' \in [Threads -> Worker],
         ctxs' \in [Threads -> Seq(Context)], setup \in Setups, LaunchInv',
         \A t \in Threads : LoopInv(workers'[t], ctxs'[t]) /\ StreamInv(workers'[t], ctxs'[t])
  PROVE  IInv'
<1>1. TypeOK'
  BY DEF TypeOK, MainTypes, MainPcs
<1>2. ASSUME NEW w, NEW q PROVE LoopInv(w, q)' <=> LoopInv(w, q)
  BY DEF LoopInv
<1>3. ASSUME NEW w, NEW q PROVE StreamInv(w, q)' <=> StreamInv(w, q)
  BY DEF StreamInv, ContextInv, InOrder
<1>4. ASSUME NEW t \in Threads
      PROVE  LoopInv(workers[t], ctxs[t])' /\ StreamInv(workers[t], ctxs[t])'
  <2>1. PICK w, q : w = workers'[t] /\ q = ctxs'[t]
    OBVIOUS
  <2>2. LoopInv(w, q) /\ StreamInv(w, q)
    BY <2>1
  <2>3. LoopInv(w, q)' /\ StreamInv(w, q)'
    BY <1>2, <1>3, <2>2
  <2>4. QED
    BY <2>1, <2>3 DEF LoopInv, StreamInv, ContextInv, InOrder
<1>5. QED
  BY <1>1, <1>4 DEF IInv

(* A worker that runs was launched, and stays so.                            *)
LEMMA StaysLaunched ==
  ASSUME IInv, NEW t \in Threads, WorkerStep(t)
  PROVE  workers[t].pc # "none" /\ workers'[t].pc # "none"
<1>0. workers \in [Threads -> Worker]
  BY DEF IInv, TypeOK
<1>1. ASSUME NEW p \in WorkerPcs \ {"none"}, Go(t, p) PROVE workers'[t].pc # "none"
  BY <1>0, <1>1 DEF Go, Worker
<1>2. ASSUME Fail(t) PROVE workers'[t].pc # "none"
  BY <1>0, <1>2 DEF Fail, Worker
<1>3. CASE Prepare(t)
  BY <1>1, <1>2, <1>3 DEF Prepare, WorkerPcs
<1>4. CASE Top(t)
  BY <1>1, <1>4 DEF Top, WorkerPcs
<1>5. CASE Waiting(t)
  BY <1>1, <1>5 DEF Waiting, AfterWait, WorkerPcs
<1>6. CASE Doze(t)
  BY <1>1, <1>6 DEF Doze, WorkerPcs
<1>7. CASE Send(t)
  BY <1>1, <1>2, <1>7 DEF Send, WorkerPcs
<1>8. CASE Collect(t)
  BY <1>1, <1>8 DEF Collect, WorkerPcs
<1>9. CASE Full(t)
  BY <1>1, <1>9 DEF Full, WorkerPcs
<1>10. CASE Drain(t)
  BY <1>1, <1>2, <1>10 DEF Drain, Retire, WorkerPcs
<1>11. CASE Bottom(t)
  BY <1>1, <1>11 DEF Bottom, WorkerPcs
<1>12. CASE Create(t)
  BY <1>0, <1>12 DEF Create, Worker
<1>13. CASE Grow(t)
  BY <1>1, <1>2, <1>13 DEF Grow, WorkerPcs
<1>14. CASE SendSequence(t)
  BY <1>0, <1>2, <1>14 DEF SendSequence, Worker
<1>15. CASE Poll(t)
  <2>1. PICK next : next = [workers EXCEPT ![t].idx = @ + 1]
    OBVIOUS
  <2>2. PICK keep : keep = [next EXCEPT ![t].keep = TRUE]
    OBVIOUS
  <2>3. next[t].pc = workers[t].pc /\ keep[t].pc = workers[t].pc /\ workers[t].pc = "poll"
    BY <1>0, <1>15, <2>1, <2>2 DEF Poll, Worker
  <2>4. CASE workers' = next \/ workers' = keep
    BY <2>3, <2>4
  <2>5. CASE \E p \in {"poll", "waiting", "bottom"} :
               workers' = [workers EXCEPT ![t].idx = 1, ![t].keep = FALSE, ![t].pc = p]
    BY <1>0, <2>3, <2>5 DEF Worker
  <2>6. CASE Fail(t)
    BY <1>2, <2>3, <2>6
  <2>7. QED
    BY <1>15, <2>1, <2>2, <2>4, <2>5, <2>6 DEF Poll, Retire
<1>16. CASE Destroy(t)
  BY <1>1, <1>16 DEF Destroy, WorkerPcs
<1>17. CASE Destroyed(t)
  BY <1>1, <1>17 DEF Destroyed, WorkerPcs
<1>18. QED
  BY <1>3, <1>4, <1>5, <1>6, <1>7, <1>8, <1>9, <1>10, <1>11, <1>12, <1>13, <1>14, <1>15,
     <1>16, <1>17 DEF WorkerStep

(* A step of one thread keeps the invariant.                                 *)
LEMMA MovesKeeps ==
  ASSUME IInv, NEW t \in Threads, Moves(t), workers'[t].pc = "none" <=> workers[t].pc = "none",
         UNCHANGED <<setup, main, early_exit, share>>,
         timestamps' \in BOOLEAN, missed' \subseteq {"worker", "client"}
  PROVE  IInv'
<1>1. PICK w \in Worker, q \in Seq(Context) :
         /\ workers' = [workers EXCEPT ![t] = w]
         /\ ctxs' = [ctxs EXCEPT ![t] = q]
         /\ LoopInv(w, q) /\ StreamInv(w, q)
  BY DEF Moves
<1>2. workers \in [Threads -> Worker] /\ ctxs \in [Threads -> Seq(Context)]
  BY DEF IInv, TypeOK
<1>3. workers' \in [Threads -> Worker] /\ ctxs' \in [Threads -> Seq(Context)]
  BY <1>1, <1>2
<1>4. \A u \in Threads : LoopInv(workers'[u], ctxs'[u]) /\ StreamInv(workers'[u], ctxs'[u])
  <2>1. TAKE u \in Threads
  <2>2. CASE u = t
    <3>1. workers'[u] = w /\ ctxs'[u] = q
      BY <1>1, <1>2, <2>2
    <3>2. QED
      BY <1>1, <3>1
  <2>3. CASE u # t
    <3>1. workers'[u] = workers[u] /\ ctxs'[u] = ctxs[u]
      BY <1>1, <1>2, <2>3
    <3>2. QED
      BY <3>1, OfThread
  <2>4. QED
    BY <2>2, <2>3
<1>5. MainTypes /\ setup \in Setups
  BY DEF MainTypes, MainPcs, IInv, TypeOK
<1>6. LaunchInv'
  <2>1. LaunchInv
    BY DEF IInv
  <2>2. \A u \in Threads : workers'[u].pc = "none" <=> workers[u].pc = "none"
    BY <1>1, <1>2
  <2>3. QED
    BY <2>1, <2>2 DEF LaunchInv, Launched
<1>7. QED
  BY <1>3, <1>4, <1>5, <1>6, InvariantNext

(* The shares of the workers are numbers.                                    *)
LEMMA Shares ==
  ASSUME IInv, NEW i \in Nat \ {0}, NEW n, n = Cardinality(Launched), ~(i > n)
  PROVE  n \in Nat \ {0} /\ Part(main.level, n, i) \in Nat
<1>1. IsFiniteSet(Threads) /\ Launched \subseteq Threads
  <2>1. MaxThreads \in Int /\ 1 \in Int
    BY PerfClientAssumption
  <2>2. QED
    BY <2>1, FS_Interval DEF Threads, Launched
<1>2. n \in Nat
  BY <1>1, FS_Subset, FS_CardinalityType
<1>3. n # 0
  BY <1>2
<1>4. main.level \in Nat
  BY DEF IInv, TypeOK
<1>5. main.level \div n \in Nat
  BY <1>2, <1>3, <1>4
<1>6. QED
  BY <1>2, <1>3, <1>5 DEF Part

(* The next thread to launch is the one after those that were.               *)
LEMMA NextThread ==
  ASSUME IInv, NEW n, n = Cardinality(Launched)
  PROVE  n \in Nat /\ Launched = 1..n
<1>1. MaxThreads \in Nat /\ Launched \subseteq 1..MaxThreads
  BY PerfClientAssumption DEF Launched, Threads
<1>2. PICK T : T = {m \in Nat : m # 0 /\ m \notin Launched}
  OBVIOUS
<1>3. MaxThreads + 1 \in T
  BY <1>1, <1>2
<1>4. PICK m \in T : \A k \in T : m <= k
  <2>1. T \in SUBSET Nat /\ T # {}
    BY <1>2, <1>3
  <2>2. QED
    BY <2>1, LeastIsLeast
<1>5. m \in Nat /\ m # 0 /\ m \notin Launched /\ m - 1 \in Nat
  BY <1>2, <1>4
<1>6. \A k \in 1..(m - 1) : k \in Launched
  <2>1. TAKE k \in 1..(m - 1)
  <2>2. k \in Nat /\ k # 0 /\ ~(m <= k)
    BY <1>5
  <2>3. QED
    BY <1>2, <1>4, <2>2
<1>7. \A t \in Launched : t \in 1..(m - 1)
  <2>1. TAKE t \in Launched
  <2>2. t \in Nat /\ 1 <= t
    BY <1>1
  <2>3. ~(m <= t)
    BY <1>5, <2>2 DEF IInv, LaunchInv
  <2>4. QED
    BY <1>5, <2>2, <2>3
<1>8. Launched = 1..(m - 1)
  BY <1>6, <1>7
<1>9. Cardinality(1..(m - 1)) = m - 1
  <2>1. m - 1 \in Int /\ 1 \in Int /\ (1 > m - 1 => m - 1 = 0)
    BY <1>5
  <2>2. PICK a, b : a = 1 /\ b = m - 1
    OBVIOUS
  <2>3. Cardinality(a..b) = IF a > b THEN 0 ELSE b - a + 1
    BY <2>1, <2>2, FS_Interval
  <2>4. QED
    BY <1>5, <2>1, <2>2, <2>3
<1>10. n = m - 1
  BY <1>8, <1>9
<1>11. QED
  BY <1>5, <1>8, <1>10

LEMMA MainKeeps == ASSUME IInv, MainStep \/ SignalHandler PROVE IInv'
<1>1. /\ main \in [pc: MainPcs, level: Nat, idx: Nat \ {0}, passes: Nat]
      /\ early_exit \in BOOLEAN /\ share \in [Threads -> Nat] /\ timestamps \in BOOLEAN
      /\ missed \subseteq {"worker", "client"} /\ setup \in Setups
      /\ workers \in [Threads -> Worker] /\ ctxs \in [Threads -> Seq(Context)]
  BY DEF IInv, TypeOK, MainPcs
<1>2. setup' = setup /\ ctxs' = ctxs
  BY DEF MainStep, SignalHandler, Launch, Spread, Notify, CheckHealth, Measure, Report, Quit,
         Wake, Join, At
<1>3. ASSUME NotifyAll
      PROVE  /\ workers' \in [Threads -> Worker]
             /\ \A t \in Threads :
                  \/ workers'[t] = workers[t]
                  \/ workers[t].pc = "asleep" /\ workers'[t].pc = "waiting"
             /\ LaunchInv'
  <2>1. ASSUME NEW t \in Threads
        PROVE  /\ workers'[t] \in Worker
               /\ \/ workers'[t] = workers[t]
                  \/ workers[t].pc = "asleep" /\ workers'[t].pc = "waiting"
    <3>1. PICK v, w : v = workers[t] /\ w = workers'[t]
      OBVIOUS
    <3>2. v \in Worker /\ w = IF v.pc = "asleep" THEN [v EXCEPT !.pc = "waiting"] ELSE v
      BY <1>1, <1>3, <3>1 DEF NotifyAll
    <3>3. w \in Worker /\ (w = v \/ (v.pc = "asleep" /\ w.pc = "waiting"))
      BY <3>2 DEF Worker, WorkerPcs
    <3>4. QED
      BY <3>1, <3>3
  <2>2. workers' = [t \in Threads |-> workers'[t]]
    BY <1>3 DEF NotifyAll
  <2>3. \A t \in Threads : workers'[t].pc = "none" <=> workers[t].pc = "none"
    BY <2>1
  <2>4. LaunchInv
    BY DEF IInv
  <2>5. LaunchInv'
    BY <2>3, <2>4 DEF LaunchInv, Launched
  <2>6. QED
    BY <2>1, <2>2, <2>5
<1>4. ASSUME Launch
      PROVE  /\ workers' \in [Threads -> Worker]
             /\ \A t \in Threads :
                  \/ workers'[t] = workers[t]
                  \/ /\ workers[t].pc = "none"
                     /\ workers'[t].pc = IF setup.sequence THEN "create" ELSE "prepare"
             /\ LaunchInv'
  <2>1. PICK n, p : n = Cardinality(Launched) /\ p = IF setup.sequence THEN "create" ELSE "prepare"
    OBVIOUS
  <2>2. p \in {"create", "prepare"} /\ p \in WorkerPcs
    BY <2>1 DEF WorkerPcs
  <2>3. n \in Nat /\ Launched = 1..n /\ n + 1 \notin Launched
    <3>1. n \in Nat /\ Launched = 1..n
      BY <2>1, NextThread
    <3>2. QED
      BY <3>1
  <2>4. LaunchInv
    BY DEF IInv
  <2>5. CASE workers' = workers
    <3>1. LaunchInv'
      BY <2>4, <2>5 DEF LaunchInv, Launched
    <3>2. QED
      BY <1>1, <2>5, <3>1
  <2>6. CASE workers' = [workers EXCEPT ![n + 1].pc = p]
    <3>1. PICK k, w : k = n + 1 /\ w = [workers[k] EXCEPT !.pc = p]
      OBVIOUS
    <3>2. workers' = [workers EXCEPT ![k] = w]
      BY <2>6, <3>1
    <3>3. k \in Threads => workers[k] \in Worker /\ workers[k].pc = "none"
      BY <1>1, <2>3, <3>1 DEF Launched
    <3>4. k \in Threads => w \in Worker /\ w.pc = p
      BY <2>2, <3>1, <3>3 DEF Worker
    <3>5. workers' \in [Threads -> Worker]
      BY <1>1, <3>2, <3>4
    <3>6. \A t \in Threads : workers'[t] = IF t = k THEN w ELSE workers[t]
      BY <1>1, <3>2
    <3>7. \A t \in Threads : t \in Launched' <=> t \in Launched \/ t = k
      BY <2>2, <3>4, <3>6 DEF Launched
    <3>8. Launched' = Launched \/ Launched' = 1..k
      <4>1. Launched' \subseteq Threads /\ Launched \subseteq Threads
        BY DEF Launched
      <4>2. CASE k \in Threads
        <5>1. \A x : x \in Launched' <=> x \in 1..n \/ x = k
          BY <2>3, <3>7, <4>1, <4>2
        <5>2. \A x : x \in 1..n \/ x = k <=> x \in 1..k
          BY <2>3, <3>1
        <5>3. QED
          BY <5>1, <5>2
      <4>3. CASE k \notin Threads
        BY <3>7, <4>1, <4>3
      <4>4. QED
        BY <4>2, <4>3
    <3>9. LaunchInv'
      <4>1. CASE Launched' = Launched
        BY <2>4, <4>1 DEF LaunchInv
      <4>2. CASE Launched' = 1..k
        BY <2>3, <3>1, <4>2 DEF LaunchInv
      <4>3. QED
        BY <3>8, <4>1, <4>2
    <3>10. \A t \in Threads :
             \/ workers'[t] = workers[t]
             \/ workers[t].pc = "none" /\ workers'[t].pc = p
      BY <3>3, <3>4, <3>6
    <3>11. QED
      BY <2>1, <3>5, <3>9, <3>10
  <2>7. workers' = workers \/ workers' = [workers EXCEPT ![n + 1].pc = p]
    BY <1>4, <2>1 DEF Launch
  <2>8. QED
    BY <2>5, <2>6, <2>7
<1>5. /\ workers' \in [Threads -> Worker]
      /\ \A t \in Threads :
            \/ workers'[t] = workers[t]
            \/ /\ workers[t].pc = "asleep" /\ workers'[t].pc = "waiting"
            \/ /\ workers[t].pc = "none"
               /\ workers'[t].pc = IF setup.sequence THEN "create" ELSE "prepare"
      /\ LaunchInv'
  <2>1. CASE Launch
    BY <1>4, <2>1
  <2>2. CASE NotifyAll
    BY <1>3, <2>2
  <2>3. CASE workers' = workers
    <3>1. LaunchInv
      BY DEF IInv
    <3>2. LaunchInv'
      BY <2>3, <3>1 DEF LaunchInv, Launched
    <3>3. QED
      BY <1>1, <2>3, <3>2
  <2>4. QED
    BY <2>1, <2>2, <2>3 DEF MainStep, SignalHandler, Spread, Notify, CheckHealth, Measure,
       Report, Quit, Wake, Join
<1>6. MainTypes
  <2>0. ASSUME NEW m \in Nat, NEW p \in MainPcs,
               \/ main' = main \/ At(p)
               \/ main' = [main EXCEPT !.pc = p, !.idx = 1]
               \/ main' = [main EXCEPT !.pc = p, !.passes = m]
               \/ main' = [main EXCEPT !.pc = p, !.level = m]
        PROVE  main' \in [pc: MainPcs, level: Nat, idx: Nat \ {0}, passes: Nat]
    <3>1. 1 \in Nat \ {0}
      OBVIOUS
    <3>2. CASE main' = main
      BY <1>1, <3>2
    <3>3. CASE At(p)
      BY <1>1, <3>3 DEF At
    <3>4. CASE main' = [main EXCEPT !.pc = p, !.idx = 1]
      BY <1>1, <3>1, <3>4
    <3>5. CASE main' = [main EXCEPT !.pc = p, !.passes = m]
      BY <1>1, <3>5
    <3>6. CASE main' = [main EXCEPT !.pc = p, !.level = m]
      BY <1>1, <3>6
    <3>7. QED
      BY <2>0, <3>2, <3>3, <3>4, <3>5, <3>6
  <2>1. CASE Launch
    <3>1. main' = main \/ main' = [main EXCEPT !.pc = "spread", !.idx = 1]
      BY <2>1 DEF Launch
    <3>2. "spread" \in MainPcs /\ 0 \in Nat
      BY DEF MainPcs
    <3>3. main' \in [pc: MainPcs, level: Nat, idx: Nat \ {0}, passes: Nat]
      BY <2>0, <3>1, <3>2
    <3>4. QED
      BY <1>1, <2>1, <3>3 DEF Launch, MainTypes
  <2>2. CASE Spread
    <3>1. PICK n, i : n = Cardinality(Launched) /\ i = main.idx
      OBVIOUS
    <3>2. i \in Nat \ {0} /\ i + 1 \in Nat \ {0}
      BY <1>1, <3>1
    <3>3. CASE i > n
      BY <1>1, <2>2, <3>1, <3>3 DEF Spread, At, MainTypes, MainPcs
    <3>4. CASE ~(i > n)
      <4>1. PICK m : m = Part(main.level, n, i)
        OBVIOUS
      <4>2. m \in Nat
        BY <3>1, <3>2, <3>4, <4>1, Shares
      <4>3. share' = [share EXCEPT ![i] = m] /\ main' = [main EXCEPT !.idx = i + 1]
        BY <2>2, <3>1, <3>4, <4>1 DEF Spread
      <4>4. share' \in [Threads -> Nat]
        BY <1>1, <4>2, <4>3
      <4>5. main' \in [pc: MainPcs, level: Nat, idx: Nat \ {0}, passes: Nat]
        BY <1>1, <3>2, <4>3
      <4>6. QED
        BY <1>1, <2>2, <4>4, <4>5 DEF Spread, MainTypes
    <3>5. QED
      BY <3>3, <3>4
  <2>3. CASE Notify
    BY <1>1, <2>3 DEF Notify, MainTypes, MainPcs
  <2>4. CASE CheckHealth
    BY <1>1, <2>4 DEF CheckHealth, At, MainTypes, MainPcs
  <2>5. CASE Measure
    <3>1. main.passes + 1 \in Nat
      BY <1>1
    <3>2. \/ At("quit") \/ At("report")
          \/ main' = [main EXCEPT !.pc = "check", !.passes = main.passes + 1]
      BY <2>5 DEF Measure
    <3>3. "quit" \in MainPcs /\ "report" \in MainPcs /\ "check" \in MainPcs
      BY DEF MainPcs
    <3>4. main' \in [pc: MainPcs, level: Nat, idx: Nat \ {0}, passes: Nat]
      BY <2>0, <3>1, <3>2, <3>3
    <3>5. QED
      BY <1>1, <2>5, <3>4 DEF Measure, MainTypes
  <2>6. CASE Report
    <3>1. main.level + 1 \in Nat
      BY <1>1
    <3>2. At("quit") \/ main' = [main EXCEPT !.pc = "launch", !.level = main.level + 1]
      BY <2>6 DEF Report
    <3>3. "quit" \in MainPcs /\ "launch" \in MainPcs
      BY DEF MainPcs
    <3>4. main' \in [pc: MainPcs, level: Nat, idx: Nat \ {0}, passes: Nat]
      BY <2>0, <3>1, <3>2, <3>3
    <3>5. QED
      BY <1>1, <2>6, <3>4 DEF Report, MainTypes
  <2>7. CASE Quit \/ Join \/ SignalHandler
    BY <1>1, <2>7 DEF Quit, Join, SignalHandler, At, MainTypes, MainPcs
  <2>8. CASE Wake
    BY <1>1, <2>8 DEF Wake, At, MainTypes, MainPcs
  <2>9. QED
    BY <2>1, <2>2, <2>3, <2>4, <2>5, <2>6, <2>7, <2>8 DEF MainStep
<1>7. \A t \in Threads : LoopInv(workers'[t], ctxs'[t]) /\ StreamInv(workers'[t], ctxs'[t])
  BY <1>2, <1>5, Calm
<1>8. ctxs' \in [Threads -> Seq(Context)]
  BY <1>1, <1>2
<1>9. QED
  BY <1>1, <1>2, <1>5, <1>6, <1>7, <1>8, InvariantNext

-----------------------------------------------------------------------------
(* The invariant, and what it was for.                                       *)

LEMMA InitOK == Init => IInv
<1>1. ASSUME Init PROVE IInv
  <2>1. TypeOK
    <3>1. PICK w : w = Idle
      OBVIOUS
    <3>2. w \in Worker
      BY <3>1 DEF Idle, Worker, WorkerPcs
    <3>3. workers \in [Threads -> Worker] /\ ctxs \in [Threads -> Seq(Context)]
      BY <1>1, <3>1, <3>2 DEF Init
    <3>4. setup.first \in Nat /\ setup \in Setups
      BY <1>1, PerfClientAssumption DEF Init
    <3>5. main \in [pc: MainPcs, level: Nat, idx: Nat \ {0}, passes: Nat]
      BY <1>1, <3>4 DEF Init, MainPcs
    <3>6. share \in [Threads -> Nat] /\ early_exit \in BOOLEAN /\ timestamps \in BOOLEAN
          /\ missed \subseteq {"worker", "client"}
      BY <1>1 DEF Init
    <3>7. QED
      BY <3>3, <3>4, <3>5, <3>6 DEF TypeOK, MainPcs
  <2>2. \A t \in Threads : workers[t].pc = "none" /\ ctxs[t] = <<>>
    BY <1>1 DEF Init, Idle
  <2>3. LaunchInv
    BY <2>2 DEF LaunchInv, Launched
  <2>4. ASSUME NEW t \in Threads PROVE LoopInv(workers[t], ctxs[t]) /\ StreamInv(workers[t], ctxs[t])
    BY <2>2 DEF LoopInv, StreamInv
  <2>5. QED
    BY <2>1, <2>3, <2>4 DEF IInv
<1>2. QED
  BY <1>1

LEMMA NextOK == IInv /\ [Next]_vars => IInv'
<1>1. ASSUME IInv, Next PROVE IInv'
  <2>1. CASE MainStep \/ SignalHandler
    BY <1>1, <2>1, MainKeeps
  <2>2. ASSUME NEW t \in Threads, WorkerStep(t) PROVE IInv'
    BY <1>1, <2>2, WorkerMoves, StaysLaunched, MovesKeeps
  <2>3. ASSUME NEW t \in Threads, NEW c \in Contexts(t),
               ClientStep(t, c) \/ Answer(t, c) \/ StreamEnds(t, c)
        PROVE  IInv'
    <3>1. OthersAsIs
      BY <2>3 DEF ClientStep, ClientWait, ClientSleep, HttpAsyncTransfer, GrpcNext,
         GrpcAsyncTransfer, StreamAsyncTransfer, Answer, StreamEnds
    <3>2. Moves(t) /\ workers' = workers /\ UNCHANGED <<setup, main, early_exit, share, timestamps, missed>>
      BY <1>1, <2>3, <3>1, ContextMoves DEF OthersAsIs
    <3>3. timestamps' \in BOOLEAN /\ missed' \subseteq {"worker", "client"}
      BY <1>1, <3>2 DEF IInv, TypeOK
    <3>4. workers'[t].pc = "none" <=> workers[t].pc = "none"
      BY <3>2
    <3>5. QED
      BY <1>1, <3>2, <3>3, <3>4, MovesKeeps
  <2>4. CASE Stopped
    BY <1>1, <2>4 DEF Stopped, vars, IInv, TypeOK, LaunchInv, Launched, LoopInv, StreamInv,
       ContextInv, InOrder
  <2>5. QED
    BY <1>1, <2>1, <2>2, <2>3, <2>4 DEF Next
<1>2. ASSUME IInv, UNCHANGED vars PROVE IInv'
  BY <1>2 DEF vars, IInv, TypeOK, LaunchInv, Launched, LoopInv, StreamInv, ContextInv, InOrder
<1>3. QED
  BY <1>1, <1>2

(* In every reachable state the workers are in their loops with the contexts *)
(* they use, and every context of a stream holds the requests of one         *)
(* sequence at most, in the order in which the stream answers.               *)
THEOREM Invariance == Spec => []IInv
<1>1. Init => IInv
  BY InitOK
<1>2. IInv /\ [Next]_vars => IInv'
  BY NextOK
<1>3. QED
  BY <1>1, <1>2, PTL DEF Spec

(* Every thread, context and request keeps its type; the shares, which       *)
(* ChangeConcurrencyLevel divides among the workers, stay numbers.           *)
THEOREM TypeCorrect == Spec => []TypeOK
<1>1. IInv => TypeOK
  BY DEF IInv
<1>2. QED
  BY <1>1, Invariance, PTL

(* Over a stream no context has requests of two sequences in flight, for any *)
(* number of workers, contexts and levels and any lengths of the sequences.  *)
THEOREM StreamsApart == Spec => []SequencesApart
<1>1. ASSUME IInv PROVE SequencesApart
  <2>1. ASSUME setup.transport = "stream", NEW t \in Threads, NEW c \in Contexts(t),
               NEW i \in 1..(Len(ctxs[t][c].reqs) - 1)
        PROVE  /\ ctxs[t][c].reqs[i].mark \notin {"end", "both"}
               /\ ctxs[t][c].reqs[i + 1].mark \notin {"start", "both"}
    <3>1. c \in 1..Len(ctxs[t])
      BY DEF Contexts
    <3>2. Apart(ctxs[t][c].reqs)
      BY <1>1, <2>1, <3>1 DEF IInv, StreamInv, ContextInv
    <3>3. QED
      BY <3>2 DEF Apart, IsLast, IsFirst
  <2>2. QED
    BY <2>1 DEF SequencesApart
<1>2. QED
  BY <1>1, Invariance, PTL

-----------------------------------------------------------------------------
(* A level is dealt out to its threads.                                      *)

(* Multiplication keeps the order of natural numbers.                        *)
LEMMA TimesMonotone ==
  ASSUME NEW a \in Nat, NEW b \in Nat, NEW n \in Nat, a <= b
  PROVE  a * n \in Nat /\ b * n \in Nat /\ a * n <= b * n
<1>1. PICK d \in Nat : b = a + d
  <2>1. b - a \in Nat /\ b = a + (b - a)
    OBVIOUS
  <2>2. QED
    BY <2>1
<1>2. a * n \in Nat /\ d * n \in Nat
  OBVIOUS
<1>3. b * n = a * n + d * n
  BY <1>1
<1>4. QED
  BY <1>2, <1>3

(* What the numbers of a level are.                                          *)
Numbers ==
  /\ setup.threads \in Nat \ {0}
  /\ main.level \in Nat \ {0}

LEMMA TargetNumber == ASSUME Numbers PROVE Target \in Nat \ {0} /\ Target <= main.level
BY DEF Numbers, Target

(* Who may have so many requests in flight may have fewer.                   *)
LEMMA GrantedLess ==
  ASSUME Numbers, NEW t \in Nat, NEW a \in Nat, NEW b \in Nat, a <= b, Granted(t, b)
  PROVE  Granted(t, a)
<1>1. CASE a = 0
  BY <1>1 DEF Granted
<1>2. CASE a # 0
  <2>1. a > 0 /\ b > 0 /\ a - 1 \in Nat /\ b - 1 \in Nat /\ a - 1 <= b - 1
    BY <1>2
  <2>2. PICK n \in Nat : n = Target
    BY TargetNumber
  <2>3. /\ (a - 1) * n \in Nat /\ (b - 1) * n \in Nat /\ (a - 1) * n <= (b - 1) * n
    BY <2>1, TimesMonotone
  <2>4. t <= n /\ t + (b - 1) * n <= main.level
    BY <2>1, <2>2 DEF Granted
  <2>5. t + (a - 1) * n <= main.level
    <3>1. PICK x, y : x = (a - 1) * n /\ y = (b - 1) * n
      OBVIOUS
    <3>2. x \in Nat /\ y \in Nat /\ x <= y /\ t + y <= main.level
      BY <2>3, <2>4, <3>1
    <3>3. t + x <= main.level
      BY <3>2 DEF Numbers
    <3>4. QED
      BY <3>1, <3>3
  <2>6. QED
    BY <2>2, <2>4, <2>5 DEF Granted
<1>3. QED
  BY <1>1, <1>2

(* The shares into which a level is divided are what is granted.             *)
LEMMA PartGranted ==
  ASSUME Numbers, NEW t \in 1..Target
  PROVE  Granted(t, Part(main.level, Target, t)) /\ Part(main.level, Target, t) \in Nat
<1>1. PICK n, l, m : n = Target /\ l = main.level /\ m = Part(main.level, Target, t)
  OBVIOUS
<1>2. n \in Nat \ {0} /\ l \in Nat \ {0} /\ t \in 1..n /\ t \in Nat
  BY <1>1, TargetNumber DEF Numbers
<1>3. PICK q, r : q = l \div n /\ r = l % n
  OBVIOUS
<1>4. q \in Nat /\ r \in Nat /\ r < n
  BY <1>2, <1>3
<1>5. l = n * q + r
  BY <1>2, <1>3
<1>6. m = q + (IF t - 1 < r THEN 1 ELSE 0)
  BY <1>1, <1>3 DEF Part
<1>7. PICK p : p = n * q
  OBVIOUS
<1>8. p \in Nat /\ l = p + r
  BY <1>2, <1>4, <1>5, <1>7
<1>9. CASE t - 1 < r
  <2>1. m = q + 1 /\ m - 1 = q
    BY <1>4, <1>6, <1>9
  <2>2. (m - 1) * n = p
    BY <1>2, <1>4, <1>7, <2>1
  <2>3. t + p <= l
    BY <1>2, <1>4, <1>8, <1>9
  <2>4. t + (m - 1) * n <= l
    BY <2>2, <2>3
  <2>5. QED
    BY <1>1, <1>2, <1>4, <2>1, <2>4 DEF Granted
<1>10. CASE ~(t - 1 < r)
  <2>1. m = q
    BY <1>4, <1>6, <1>10
  <2>2. CASE q = 0
    BY <1>1, <2>1, <2>2 DEF Granted
  <2>3. CASE q # 0
    <3>1. (q - 1) * n = p - n
      BY <1>2, <1>4, <1>7, <2>3
    <3>2. p - n \in Int /\ t + (p - n) <= l
      BY <1>2, <1>4, <1>8
    <3>3. t + (m - 1) * n <= l
      BY <2>1, <3>1, <3>2
    <3>4. QED
      BY <1>1, <1>2, <1>4, <2>1, <3>3 DEF Granted
  <2>4. QED
    BY <2>2, <2>3
<1>11. QED
  BY <1>9, <1>10

(* What is granted at a level is granted at the next one.                    *)
LEMMA GrantedNext ==
  ASSUME Numbers, setup' = setup, main'.level = main.level + 1, NEW t \in Nat \ {0}, NEW m \in Nat,
         Granted(t, m)
  PROVE  Granted(t, m)'
<1>1. CASE m = 0
  BY <1>1 DEF Granted
<1>2. CASE m # 0 /\ ~(main.level < setup.threads)
  <2>1. Target' = Target
    BY <1>2 DEF Numbers, Target
  <2>2. PICK x : x = (m - 1) * Target
    OBVIOUS
  <2>3. x \in Nat
    <3>1. m - 1 \in Nat /\ Target \in Nat
      BY <1>2, TargetNumber
    <3>2. QED
      BY <2>2, <3>1
  <2>4. t <= Target /\ t + x <= main.level
    BY <1>2, <2>2 DEF Granted
  <2>5. t + x <= main'.level
    BY <2>3, <2>4 DEF Numbers
  <2>6. QED
    BY <2>1, <2>2, <2>4, <2>5 DEF Granted
<1>3. CASE m # 0 /\ main.level < setup.threads
  <2>1. PICK n \in Nat \ {0} : n = Target /\ n = main.level
    BY <1>3, TargetNumber DEF Target
  <2>2. t <= n /\ t + (m - 1) * n <= n
    BY <1>3, <2>1 DEF Granted
  <2>3. m = 1
    <3>1. CASE m - 1 >= 1
      <4>1. 1 * n <= (m - 1) * n /\ (m - 1) * n \in Nat
        <5>1. m - 1 \in Nat
          BY <3>1
        <5>2. QED
          BY <3>1, <5>1, TimesMonotone
      <4>2. PICK x : x = (m - 1) * n
        OBVIOUS
      <4>3. x \in Nat /\ n <= x /\ t + x <= n
        BY <2>2, <4>1, <4>2
      <4>4. QED
        BY <4>3
    <3>2. QED
      BY <1>3, <3>1
  <2>4. t <= Target'
    BY <1>3, <2>1, <2>2 DEF Numbers, Target
  <2>5. PICK k \in Nat : k = Target'
    BY <1>3, <2>1 DEF Numbers, Target
  <2>6. (m - 1) * k = 0
    <3>1. m - 1 = 0
      BY <2>3
    <3>2. \A j \in Nat : 0 * j = 0
      OBVIOUS
    <3>3. QED
      BY <2>5, <3>1, <3>2
  <2>7. t + (m - 1) * k <= main'.level
    BY <2>1, <2>2, <2>3, <2>6
  <2>8. QED
    BY <2>4, <2>5, <2>7 DEF Granted
<1>4. QED
  BY <1>1, <1>2, <1>3
-----------------------------------------------------------------------------
(* What is granted to all threads is no more than the level.                 *)

(* Two requests of a level that are dealt the same place are the same.       *)
LEMMA SamePlace ==
  ASSUME NEW n \in Nat, NEW t \in 1..n, NEW u \in 1..n, NEW a \in Nat, NEW b \in Nat,
         t + a * n = u + b * n
  PROVE  t = u /\ a = b
<1>1. ASSUME NEW v \in 1..n, NEW w \in 1..n, NEW c \in Nat, NEW d \in Nat,
             v + c * n = w + d * n, c < d
      PROVE  FALSE
  <2>1. c + 1 \in Nat /\ c + 1 <= d
    BY <1>1
  <2>2. (c + 1) * n <= d * n /\ d * n \in Nat
    BY <2>1, TimesMonotone
  <2>3. (c + 1) * n = c * n + n /\ c * n \in Nat
    OBVIOUS
  <2>4. PICK x, y : x = c * n /\ y = d * n
    OBVIOUS
  <2>5. x \in Nat /\ y \in Nat /\ x + n <= y /\ v + x = w + y
    BY <1>1, <2>2, <2>3, <2>4
  <2>6. QED
    BY <2>5
<1>2. ~(a < b)
  BY <1>1
<1>3. ~(b < a)
  <2>1. u + b * n = t + a * n
    OBVIOUS
  <2>2. QED
    BY <1>1, <2>1
<1>4. a = b
  BY <1>2, <1>3
<1>5. a * n \in Nat
  OBVIOUS
<1>6. QED
  BY <1>4, <1>5

(* The m-th request of thread t in the order in which they are dealt out:    *)
(* the k-th of its only context, or the sequence of its c-th.                *)
Place(x) == IF setup.sequence THEN x[2] ELSE x[3]

LEMMA WithinLevel ==
  ASSUME Numbers, MaxThreads \in Nat,
         \A x \in Load : /\ x[1] \in Threads /\ Place(x) \in Nat \ {0}
                         /\ Granted(x[1], Place(x))
                         /\ \A y \in Load : x[1] = y[1] /\ Place(x) = Place(y) => x = y
  PROVE  Cardinality(Load) <= main.level
<1>1. PICK n \in Nat \ {0}, l \in Nat : n = Target /\ l = main.level
  BY TargetNumber DEF Numbers
<1>2. PICK f : f = [x \in Load |-> x[1] + (Place(x) - 1) * n]
  OBVIOUS
<1>3. ASSUME NEW x \in Load
      PROVE  /\ x[1] \in 1..n /\ Place(x) - 1 \in Nat /\ f[x] = x[1] + (Place(x) - 1) * n
             /\ f[x] \in 1..l
  <2>1. PICK t, m : t = x[1] /\ m = Place(x)
    OBVIOUS
  <2>2. t \in Nat \ {0} /\ m \in Nat \ {0} /\ m - 1 \in Nat /\ Granted(t, m)
    BY <2>1 DEF Threads
  <2>3. t <= n /\ t + (m - 1) * n <= l
    BY <1>1, <2>2 DEF Granted
  <2>4. PICK p : p = (m - 1) * n
    OBVIOUS
  <2>5. p \in Nat
    BY <2>2, <2>4
  <2>6. t + p \in 1..l
    BY <2>2, <2>3, <2>4, <2>5
  <2>7. QED
    BY <1>2, <2>1, <2>2, <2>3, <2>4, <2>6
<1>4. ASSUME NEW x \in Load, NEW y \in Load, f[x] = f[y] PROVE x = y
  <2>1. PICK t, u, a, b : t = x[1] /\ u = y[1] /\ a = Place(x) - 1 /\ b = Place(y) - 1
    OBVIOUS
  <2>2. t \in 1..n /\ u \in 1..n /\ a \in Nat /\ b \in Nat /\ t + a * n = u + b * n
    BY <1>3, <1>4, <2>1
  <2>3. t = u /\ a = b
    BY <2>2, SamePlace
  <2>4. Place(x) \in Nat /\ Place(y) \in Nat
    OBVIOUS
  <2>5. x[1] = y[1] /\ Place(x) = Place(y)
    BY <2>1, <2>3, <2>4
  <2>6. QED
    BY <2>5
<1>5. f \in Injection(Load, 1..l)
  <2>1. f \in [Load -> 1..l]
    BY <1>2, <1>3
  <2>2. QED
    BY <1>4, <2>1 DEF Injection, IsInjective
<1>6. IsFiniteSet(1..l) /\ Cardinality(1..l) = l
  <2>1. PICK a, b : a = 1 /\ b = l
    OBVIOUS
  <2>2. IsFiniteSet(a..b) /\ Cardinality(a..b) = IF a > b THEN 0 ELSE b - a + 1
    BY <2>1, FS_Interval
  <2>3. QED
    BY <2>1, <2>2
<1>7. Cardinality(Load) <= Cardinality(1..l)
  BY <1>5, <1>6, FS_Injection
<1>8. QED
  BY <1>1, <1>6, <1>7

-----------------------------------------------------------------------------
(* A worker's requests, and its contexts.                                    *)

LEMMA LevelNumbers == ASSUME IInv, LInv PROVE Numbers
<1>1. setup \in Setups /\ main.level \in Nat /\ main.level > 0
  BY DEF IInv, TypeOK, LInv, LevelInv
<1>2. setup.threads \in Nat \ {0}
  BY <1>1, PerfClientAssumption
<1>3. QED
  BY <1>1, <1>2 DEF Numbers

(* What LInv says of one thread.                                             *)
LEMMA OfLoad ==
  ASSUME IInv, LInv, NEW t \in Threads
  PROVE  /\ Numbers /\ t \in Nat \ {0}
         /\ LoadInv(t, workers[t], ctxs[t]) /\ Granted(t, share[t])
         /\ workers[t] \in Worker /\ ctxs[t] \in Seq(Context) /\ share[t] \in Nat
<1>1. workers[t] \in Worker /\ ctxs[t] \in Seq(Context) /\ share[t] \in Nat
  BY DEF IInv, TypeOK
<1>2. t \in Nat \ {0}
  BY DEF Threads
<1>3. QED
  BY <1>1, <1>2, LevelNumbers DEF LInv

(* Fewer requests, or as many and none of them less ready.                   *)
Milder(q, r) == Len(r) < Len(q) \/ (Len(r) = Len(q) /\ (HasReady(q) => HasReady(r)))

LEMMA MilderRequests ==
  ASSUME Numbers, NEW t \in Nat, NEW pc, NEW q \in Seq(Request), NEW r \in Seq(Request),
         RequestsInv(t, pc, q), Milder(q, r)
  PROVE  RequestsInv(t, pc, r)
<1>1. PICK m \in Nat, n \in Nat : m = Len(q) /\ n = Len(r)
  OBVIOUS
<1>2. Granted(t, m)
  BY <1>1 DEF RequestsInv
<1>3. CASE n < m
  <2>1. n + 1 \in Nat /\ n + 1 <= m /\ n <= m
    BY <1>3
  <2>2. Granted(t, n) /\ Granted(t, n + 1)
    BY <1>2, <2>1, GrantedLess
  <2>3. QED
    BY <1>1, <2>2 DEF RequestsInv
<1>4. CASE n = m /\ (HasReady(q) => HasReady(r))
  BY <1>1, <1>4 DEF RequestsInv
<1>5. QED
  BY <1>1, <1>3, <1>4 DEF Milder

(* The worker is elsewhere: a place where it may send is only reached from   *)
(* one, or with what such a place asks for.                                  *)
LEMMA Passing ==
  ASSUME NEW t, NEW v, NEW w, NEW q, LoadInv(t, v, q), w.num = v.num, v.pc # "none",
         v.pc \in Spare \/ w.pc \notin Spare \cup {"drain"}
  PROVE  LoadInv(t, w, q)
<1>1. ASSUME NEW reqs, RequestsInv(t, v.pc, reqs) PROVE RequestsInv(t, w.pc, reqs)
  BY <1>1 DEF RequestsInv, Spare
<1>2. QED
  BY <1>1 DEF LoadInv

(* One context changes.                                                      *)
LEMMA OneLoad ==
  ASSUME NEW t, NEW v, NEW w, NEW q \in Seq(Context), LoadInv(t, v, q), w.num = v.num,
         w.pc # "none" => v.pc # "none", NEW c \in 1..Len(q), NEW x \in Context,
         NEW r, r = [q EXCEPT ![c] = x],
         ~setup.sequence => RequestsInv(t, w.pc, x.reqs)
  PROVE  LoadInv(t, w, r)
<1>1. Len(r) = Len(q) /\ Len(q) \in Nat /\ r[c] = x
  OBVIOUS
<1>2. CASE setup.sequence
  BY <1>1, <1>2 DEF LoadInv
<1>3. CASE ~setup.sequence
  <2>1. Len(q) <= 1
    BY <1>3 DEF LoadInv
  <2>2. \A d \in 1..Len(r) : d = c
    BY <1>1, <2>1
  <2>3. \A d \in 1..Len(r) : RequestsInv(t, w.pc, r[d].reqs)
    BY <1>1, <1>3, <2>2
  <2>4. QED
    BY <1>1, <1>3, <2>1, <2>3 DEF LoadInv
<1>4. QED
  BY <1>2, <1>3

LEMMA Goes ==
  ASSUME IInv, NEW t \in Threads, NEW p, Go(t, p)
  PROVE  workers'[t].pc = p /\ workers'[t].num = workers[t].num
<1>1. workers[t] \in Worker /\ workers \in [Threads -> Worker]
  BY DEF IInv, TypeOK
<1>2. workers'[t] = [workers[t] EXCEPT !.pc = p]
  BY <1>1 DEF Go
<1>3. QED
  BY <1>1, <1>2 DEF Worker

LEMMA Fails ==
  ASSUME IInv, NEW t \in Threads, Fail(t)
  PROVE  workers'[t].pc = "leave" /\ workers'[t].num = workers[t].num
<1>1. workers[t] \in Worker /\ workers \in [Threads -> Worker]
  BY DEF IInv, TypeOK
<1>2. workers'[t] = [workers[t] EXCEPT !.pc = "leave", !.err = TRUE]
  BY <1>1 DEF Fail
<1>3. QED
  BY <1>1, <1>2 DEF Worker

(* A thread gets other contexts.                                             *)
LEMMA OneReplaced ==
  ASSUME IInv, NEW t \in Threads, NEW q, ctxs' = [ctxs EXCEPT ![t] = q]
  PROVE  ctxs'[t] = q
BY DEF IInv, TypeOK

-----------------------------------------------------------------------------
(* The steps of a worker: what it then holds is granted.                     *)

LEMMA IdleLoad ==
  ASSUME IInv, LInv, NEW t \in Threads, Top(t) \/ Waiting(t) \/ Doze(t) \/ Bottom(t)
  PROVE  LoadInv(t, workers'[t], ctxs'[t])
<1>1. ctxs' = ctxs /\ workers[t].pc \in Spare
  BY DEF Top, Waiting, Doze, Bottom, Spare
<1>2. PICK p : Go(t, p)
  BY DEF Top, Waiting, Doze, Bottom
<1>3. workers'[t].num = workers[t].num /\ LoadInv(t, workers[t], ctxs[t])
  BY <1>2, Goes, OfLoad
<1>4. workers[t].pc # "none"
  BY <1>1 DEF Spare
<1>5. QED
  BY <1>1, <1>3, <1>4, Passing

LEMMA PrepareLoad ==
  ASSUME IInv, LInv, NEW t \in Threads, Prepare(t)
  PROVE  LoadInv(t, workers'[t], ctxs'[t])
<1>1. LoadInv(t, workers[t], ctxs[t]) /\ workers[t].pc = "prepare"
  BY OfLoad DEF Prepare
<1>2. CASE ctxs' = [ctxs EXCEPT ![t] = <<NewContext>>] /\ Go(t, "top")
  <2>1. ctxs'[t] = <<NewContext>>
    BY <1>2 DEF IInv, TypeOK
  <2>2. Granted(t, 0)
    BY DEF Granted
  <2>3. workers'[t].pc = "top" /\ workers'[t].num = workers[t].num
    BY <1>2, Goes
  <2>4. Granted(t, 1) /\ Granted(t, workers[t].num)
    BY <1>1 DEF LoadInv
  <2>5. NewContext.reqs = <<>>
    BY DEF NewContext
  <2>6. RequestsInv(t, "top", <<>>)
    BY <2>2, <2>4 DEF RequestsInv
  <2>7. ~setup.sequence
    BY <1>1, OfThread DEF LoopInv
  <2>8. \A c \in 1..Len(ctxs'[t]) : ctxs'[t][c].reqs = <<>>
    BY <2>1, <2>5
  <2>9. Len(ctxs'[t]) = 1
    BY <2>1
  <2>10. QED
    BY <2>3, <2>4, <2>6, <2>7, <2>8, <2>9 DEF LoadInv
<1>3. CASE Fail(t) /\ ctxs' = ctxs
  <2>1. workers'[t].pc = "leave" /\ workers'[t].num = workers[t].num
    BY <1>3, Fails
  <2>2. QED
    BY <1>1, <1>3, <2>1, Passing DEF Spare
<1>4. QED
  BY <1>2, <1>3 DEF Prepare

(* What an ordinary worker in its loop has in its only context.              *)
LEMMA OnlyContext ==
  ASSUME IInv, LInv, NEW t \in Threads, ~setup.sequence,
         workers[t].pc \notin {"none", "prepare", "leave", "done"}
  PROVE  /\ 1 \in 1..Len(ctxs[t]) /\ ctxs[t][1] \in Context /\ ctxs[t][1].reqs \in Seq(Request)
         /\ Inflight(t, 1) = Len(ctxs[t][1].reqs) /\ Inflight(t, 1) \in Nat
         /\ RequestsInv(t, workers[t].pc, ctxs[t][1].reqs)
         /\ \A i \in Ready(t, 1) : i \in 1..Inflight(t, 1)
         /\ Ready(t, 1) # {} <=> HasReady(ctxs[t][1].reqs)
<1>1. ctxs[t] \in Seq(Context) /\ LoadInv(t, workers[t], ctxs[t]) /\ LoopInv(workers[t], ctxs[t])
  BY OfLoad, OfThread
<1>2. ctxs[t] # <<>>
  BY <1>1 DEF LoopInv
<1>3. 1 \in 1..Len(ctxs[t]) /\ ctxs[t][1] \in Context
  BY <1>1, <1>2
<1>4. ctxs[t][1].reqs \in Seq(Request)
  BY <1>3 DEF Context
<1>5. RequestsInv(t, workers[t].pc, ctxs[t][1].reqs)
  BY <1>1, <1>3 DEF LoadInv
<1>6. PICK q : q = ctxs[t][1].reqs
  OBVIOUS
<1>7. q \in Seq(Request) /\ Inflight(t, 1) = Len(q) /\ Inflight(t, 1) \in Nat
  BY <1>4, <1>6 DEF Inflight
<1>8. PICK T : T = {i \in 1..Inflight(t, 1) : ctxs[t][1].reqs[i].at = "ready"}
  OBVIOUS
<1>9. T \in SUBSET Nat /\ T \subseteq 1..Len(q)
  BY <1>7, <1>8
<1>10. Ready(t, 1) = IF T = {} \/ setup.transport = "http" THEN T ELSE {Min(T)}
  BY <1>8 DEF Ready
<1>11. T # {} => Min(T) \in T
  BY <1>9, LeastIsLeast
<1>12. Ready(t, 1) # {} <=> T # {}
  BY <1>10
<1>13. T # {} <=> HasReady(q)
  BY <1>6, <1>7, <1>8 DEF HasReady
<1>14. QED
  BY <1>3, <1>4, <1>5, <1>6, <1>7, <1>9, <1>10, <1>11, <1>12, <1>13

(* Another place, the same requests.                                         *)
LEMMA OnlyPlace ==
  ASSUME IInv, LInv, NEW t \in Threads, ~setup.sequence, ctxs' = ctxs,
         workers[t].pc \notin {"none", "prepare", "leave", "done"},
         NEW p, Go(t, p), RequestsInv(t, p, ctxs[t][1].reqs)
  PROVE  LoadInv(t, workers'[t], ctxs'[t])
<1>1. LoadInv(t, workers[t], ctxs[t]) /\ ctxs[t] \in Seq(Context)
  BY OfLoad
<1>2. workers'[t].pc = p /\ workers'[t].num = workers[t].num
  BY Goes
<1>3. Len(ctxs[t]) <= 1
  BY <1>1 DEF LoadInv
<1>4. \A c \in 1..Len(ctxs[t]) : c = 1
  BY <1>1, <1>3
<1>5. \A c \in 1..Len(ctxs[t]) : RequestsInv(t, p, ctxs[t][c].reqs)
  BY <1>4
<1>6. QED
  BY <1>1, <1>2, <1>5 DEF LoadInv

LEMMA SendLoad ==
  ASSUME IInv, LInv, NEW t \in Threads, Send(t)
  PROVE  LoadInv(t, workers'[t], ctxs'[t])
<1>1. /\ LoadInv(t, workers[t], ctxs[t]) /\ LoopInv(workers[t], ctxs[t])
      /\ ctxs[t] \in Seq(Context) /\ workers[t].pc = "send"
  BY OfLoad, OfThread DEF Send
<1>2. ~setup.sequence /\ workers[t].pc \notin {"none", "prepare", "leave", "done"}
  BY <1>1 DEF LoopInv
<1>3. PICK c, q, n : c = 1 /\ q = ctxs[t][1].reqs /\ n = Len(ctxs[t][1].reqs)
  OBVIOUS
<1>4. c \in 1..Len(ctxs[t]) /\ q \in Seq(Request) /\ RequestsInv(t, "send", q) /\ n = Len(q)
      /\ n \in Nat
  BY <1>1, <1>2, <1>3, OnlyContext
<1>5. PICK m \in Marks : m = "none"
  BY DEF Marks
<1>6. AsyncRun(t, c, m)
  BY <1>3, <1>5 DEF Send
<1>7. PICK x \in Context : /\ ctxs' = [ctxs EXCEPT ![t] = [ctxs[t] EXCEPT ![c] = x]]
                           /\ x.reqs = Append(ctxs[t][c].reqs, Sent(m))
  BY <1>4, <1>6, Enters
<1>8. Len(x.reqs) = n + 1
  BY <1>3, <1>4, <1>7
<1>9. Granted(t, n + 1)
  BY <1>4 DEF RequestsInv, Spare
<1>10. workers'[t].pc \in {"leave", "collect"} /\ workers'[t].num = workers[t].num
  BY Goes, Fails DEF Send
<1>11. RequestsInv(t, workers'[t].pc, x.reqs)
  BY <1>8, <1>9, <1>10 DEF RequestsInv, Spare
<1>12. PICK r : r = [ctxs[t] EXCEPT ![c] = x]
  OBVIOUS
<1>13. ctxs' = [ctxs EXCEPT ![t] = r]
  BY <1>7, <1>12
<1>14. ctxs'[t] = r
  BY <1>13, OneReplaced
<1>15. workers[t].pc # "none"
  BY <1>1
<1>16. LoadInv(t, workers'[t], r)
  BY <1>1, <1>4, <1>10, <1>11, <1>12, <1>15, OneLoad
<1>17. QED
  BY <1>14, <1>16

LEMMA CollectLoad ==
  ASSUME IInv, LInv, NEW t \in Threads, Collect(t)
  PROVE  LoadInv(t, workers'[t], ctxs'[t])
<1>1. LoopInv(workers[t], ctxs[t]) /\ workers[t].pc = "collect" /\ ctxs' = ctxs
  BY OfThread DEF Collect
<1>2. ~setup.sequence /\ workers[t].pc \notin {"none", "prepare", "leave", "done"}
  BY <1>1 DEF LoopInv
<1>3. PICK q, n, s : q = ctxs[t][1].reqs /\ n = Inflight(t, 1) /\ s = share[t]
  OBVIOUS
<1>4. /\ n = Len(q) /\ n \in Nat /\ RequestsInv(t, "collect", q)
      /\ Ready(t, 1) # {} <=> HasReady(q)
  BY <1>1, <1>2, <1>3, OnlyContext
<1>5. s \in Nat /\ Granted(t, s) /\ t \in Nat /\ Numbers
  BY <1>3, OfLoad
<1>6. CASE n >= s
  <2>1. Go(t, "full")
    BY <1>3, <1>6 DEF Collect
  <2>2. RequestsInv(t, "full", q)
    BY <1>4 DEF RequestsInv, Spare
  <2>3. QED
    BY <1>1, <1>2, <1>3, <2>1, <2>2, OnlyPlace
<1>7. CASE ~(n >= s)
  <2>1. n + 1 \in Nat /\ n + 1 <= s
    BY <1>4, <1>5, <1>7
  <2>2. Granted(t, n + 1)
    BY <1>5, <2>1, GrantedLess
  <2>3. PICK p : p = IF Ready(t, 1) # {} THEN "drain" ELSE "bottom"
    OBVIOUS
  <2>4. Go(t, p)
    BY <1>3, <1>7, <2>3 DEF Collect
  <2>5. RequestsInv(t, p, q)
    BY <1>4, <2>2 DEF RequestsInv
  <2>6. QED
    BY <1>1, <1>2, <1>3, <2>4, <2>5, OnlyPlace
<1>8. QED
  BY <1>6, <1>7

LEMMA FullLoad ==
  ASSUME IInv, LInv, NEW t \in Threads, Full(t)
  PROVE  LoadInv(t, workers'[t], ctxs'[t])
<1>1. /\ LoopInv(workers[t], ctxs[t]) /\ workers[t].pc = "full" /\ ctxs' = ctxs
      /\ Ready(t, 1) # {} /\ Go(t, "drain")
  BY OfThread DEF Full
<1>2. ~setup.sequence /\ workers[t].pc \notin {"none", "prepare", "leave", "done"}
  BY <1>1 DEF LoopInv
<1>3. PICK q : q = ctxs[t][1].reqs
  OBVIOUS
<1>4. RequestsInv(t, "full", q) /\ HasReady(q)
  BY <1>1, <1>2, <1>3, OnlyContext
<1>5. RequestsInv(t, "drain", q)
  BY <1>4 DEF RequestsInv, Spare
<1>6. QED
  BY <1>1, <1>2, <1>3, <1>5, OnlyPlace

(* A request less makes room for another, wherever the worker goes.          *)
LEMMA RoomAgain ==
  ASSUME Numbers, NEW t \in Nat, NEW q \in Seq(Request), NEW i \in 1..Len(q), NEW p, NEW pc,
         RequestsInv(t, p, q), NEW r, r = RemoveAt(q, i)
  PROVE  RequestsInv(t, pc, r)
<1>1. r \in Seq(Request) /\ Len(r) = Len(q) - 1
  BY RemoveAtLeaves
<1>2. PICK m \in Nat, n \in Nat : m = Len(q) /\ n = Len(r)
  BY <1>1
<1>3. n \in Nat /\ n + 1 = m /\ n <= m
  BY <1>1, <1>2
<1>4. Granted(t, m)
  BY <1>2 DEF RequestsInv
<1>5. Granted(t, n)
  BY <1>3, <1>4, GrantedLess
<1>6. Granted(t, n + 1)
  BY <1>3, <1>4
<1>7. QED
  BY <1>2, <1>5, <1>6 DEF RequestsInv

LEMMA DrainLoad ==
  ASSUME IInv, LInv, NEW t \in Threads, Drain(t)
  PROVE  LoadInv(t, workers'[t], ctxs'[t])
<1>1. /\ LoopInv(workers[t], ctxs[t]) /\ workers[t].pc = "drain"
      /\ LoadInv(t, workers[t], ctxs[t]) /\ ctxs[t] \in Seq(Context)
      /\ t \in Nat /\ Numbers
  BY OfThread, OfLoad DEF Drain
<1>2. ~setup.sequence /\ workers[t].pc \notin {"none", "prepare", "leave", "done"}
  BY <1>1 DEF LoopInv
<1>3. PICK c, q : c = 1 /\ q = ctxs[t][1].reqs
  OBVIOUS
<1>4. /\ c \in 1..Len(ctxs[t]) /\ q \in Seq(Request) /\ RequestsInv(t, "drain", q)
      /\ Ready(t, 1) # {} <=> HasReady(q)
  BY <1>1, <1>2, <1>3, OnlyContext
<1>5. CASE Ready(t, 1) = {} /\ Go(t, "bottom") /\ ctxs' = ctxs
  <2>1. RequestsInv(t, "bottom", q)
    BY <1>4, <1>5 DEF RequestsInv
  <2>2. QED
    BY <1>2, <1>3, <1>5, <2>1, OnlyPlace
<1>6. CASE \E i \in Ready(t, 1) : Retire(t, 1, i, workers)
  <2>1. PICK i \in Ready(t, c) : Retire(t, c, i, workers)
    BY <1>3, <1>6
  <2>2. PICK x \in Context :
            /\ ctxs' = [ctxs EXCEPT ![t] = [ctxs[t] EXCEPT ![c] = x]]
            /\ i \in 1..Len(ctxs[t][c].reqs)
            /\ x.reqs = RemoveAt(ctxs[t][c].reqs, i)
            /\ Fail(t) \/ workers' = workers
    BY <1>4, <2>1, Taken
  <2>3. workers'[t].num = workers[t].num
    BY <2>2, Fails
  <2>4. PICK r : r = x.reqs
    OBVIOUS
  <2>5. i \in 1..Len(q) /\ r = RemoveAt(q, i)
    BY <1>3, <2>2, <2>4
  <2>6. RequestsInv(t, workers'[t].pc, r)
    BY <1>1, <1>4, <2>5, RoomAgain
  <2>7. PICK z : z = [ctxs[t] EXCEPT ![c] = x]
    OBVIOUS
  <2>8. ctxs' = [ctxs EXCEPT ![t] = z]
    BY <2>2, <2>7
  <2>9. ctxs'[t] = z
    BY <2>8, OneReplaced
  <2>10. workers[t].pc # "none"
    BY <1>1
  <2>11. LoadInv(t, workers'[t], z)
    BY <1>1, <1>4, <2>3, <2>4, <2>6, <2>7, <2>10, OneLoad
  <2>12. QED
    BY <2>9, <2>11
<1>7. QED
  BY <1>5, <1>6 DEF Drain

-----------------------------------------------------------------------------
(* A worker of a sequence model has no more contexts than are granted.       *)

LEMMA CreateLoad ==
  ASSUME IInv, LInv, NEW t \in Threads, Create(t)
  PROVE  LoadInv(t, workers'[t], ctxs'[t])
<1>1. /\ LoadInv(t, workers[t], ctxs[t]) /\ Granted(t, share[t]) /\ workers[t].pc = "create"
      /\ LoopInv(workers[t], ctxs[t]) /\ ctxs' = ctxs
  BY OfLoad, OfThread DEF Create
<1>2. setup.sequence
  BY <1>1 DEF LoopInv
<1>3. Granted(t, 1) /\ Granted(t, Len(ctxs[t]))
  BY <1>1, <1>2 DEF LoadInv
<1>4. PICK len \in Lengths :
        workers' = [workers EXCEPT ![t].pc = "grow", ![t].num = share[t], ![t].len = len,
                                   ![t].idx = 1, ![t].nth = 1]
  BY DEF Create
<1>5. PICK w : w = [workers[t] EXCEPT !.pc = "grow", !.num = share[t], !.len = len,
                                      !.idx = 1, !.nth = 1]
  OBVIOUS
<1>6. workers[t] \in Worker /\ workers \in [Threads -> Worker]
  BY DEF IInv, TypeOK
<1>7. workers'[t] = w
  BY <1>4, <1>5, <1>6
<1>8. w.num = share[t]
  BY <1>5, <1>6 DEF Worker
<1>9. QED
  BY <1>1, <1>2, <1>3, <1>7, <1>8 DEF LoadInv

LEMMA GrowLoad ==
  ASSUME IInv, LInv, NEW t \in Threads, Grow(t)
  PROVE  LoadInv(t, workers'[t], ctxs'[t])
<1>1. /\ LoadInv(t, workers[t], ctxs[t]) /\ workers[t].pc = "grow" /\ Numbers /\ t \in Nat
      /\ LoopInv(workers[t], ctxs[t]) /\ ctxs[t] \in Seq(Context) /\ workers[t] \in Worker
  BY OfLoad, OfThread DEF Grow
<1>2. setup.sequence
  BY <1>1 DEF LoopInv
<1>3. CASE ctxs' = ctxs /\ (Go(t, "sequence") \/ Fail(t))
  <2>1. workers'[t].num = workers[t].num
    BY <1>3, Goes, Fails
  <2>2. QED
    BY <1>1, <1>2, <1>3, <2>1 DEF LoadInv
<1>4. CASE /\ ~(workers[t].num <= Len(ctxs[t])) /\ workers' = workers
           /\ ctxs' = [ctxs EXCEPT ![t] = Append(@, NewContext)]
  <2>1. PICK n \in Nat, m \in Nat : n = workers[t].num /\ m = Len(ctxs[t])
    BY <1>1 DEF Worker
  <2>2. m + 1 \in Nat /\ m + 1 <= n /\ Granted(t, n)
    BY <1>1, <1>4, <2>1 DEF LoadInv
  <2>3. Granted(t, m + 1)
    BY <1>1, <2>2, GrantedLess
  <2>4. ctxs'[t] = Append(ctxs[t], NewContext)
    BY <1>4 DEF IInv, TypeOK
  <2>5. Len(ctxs'[t]) = m + 1
    BY <1>1, <2>1, <2>4
  <2>6. Granted(t, Len(ctxs'[t]))
    BY <2>3, <2>5
  <2>7. QED
    BY <1>1, <1>2, <1>4, <2>6 DEF LoadInv
<1>5. QED
  BY <1>3, <1>4 DEF Grow

(* While it sends and polls it has the same contexts.                        *)
LEMMA SameNumber ==
  ASSUME IInv, LInv, NEW t \in Threads, setup.sequence, workers[t].pc # "none",
         Len(ctxs'[t]) = Len(ctxs[t]), workers'[t].num = workers[t].num
  PROVE  LoadInv(t, workers'[t], ctxs'[t])
<1>1. LoadInv(t, workers[t], ctxs[t])
  BY OfLoad
<1>2. QED
  BY <1>1 DEF LoadInv

LEMMA SendSequenceLoad ==
  ASSUME IInv, LInv, NEW t \in Threads, SendSequence(t)
  PROVE  LoadInv(t, workers'[t], ctxs'[t])
<1>1. PICK v, c : v = workers[t] /\ c = v.idx
  OBVIOUS
<1>2. /\ v \in Worker /\ ctxs[t] \in Seq(Context) /\ LoopInv(v, ctxs[t]) /\ v.pc = "sequence"
      /\ workers \in [Threads -> Worker] /\ ctxs \in [Threads -> Seq(Context)]
  BY <1>1, OfThread DEF SendSequence, IInv, TypeOK
<1>3. setup.sequence /\ v.num <= Len(ctxs[t]) /\ c \in Nat \ {0} /\ v.num \in Nat
  BY <1>1, <1>2 DEF LoopInv, Worker
<1>4. CASE workers' = [workers EXCEPT ![t].pc = "poll", ![t].idx = 1, ![t].keep = FALSE]
           /\ ctxs' = ctxs
  <2>1. workers'[t] = [v EXCEPT !.pc = "poll", !.idx = 1, !.keep = FALSE]
    BY <1>1, <1>2, <1>4
  <2>2. workers'[t].num = v.num
    BY <1>2, <2>1 DEF Worker
  <2>3. QED
    BY <1>1, <1>2, <1>3, <1>4, <2>2, SameNumber
<1>5. CASE workers' = [workers EXCEPT ![t].idx = @ + 1] /\ ctxs' = ctxs
  <2>1. workers'[t] = [v EXCEPT !.idx = v.idx + 1]
    BY <1>1, <1>2, <1>5
  <2>2. workers'[t].num = v.num
    BY <1>2, <2>1 DEF Worker
  <2>3. QED
    BY <1>1, <1>2, <1>3, <1>5, <2>2, SameNumber
<1>6. CASE /\ ctxs' = [ctxs EXCEPT ![t][c].working = TRUE]
           /\ workers' = [workers EXCEPT ![t].idx = @ + 1, ![t].nth = 1]
  <2>1. workers'[t] = [v EXCEPT !.idx = v.idx + 1, !.nth = 1]
    BY <1>1, <1>2, <1>6
  <2>2. workers'[t].num = v.num
    BY <1>2, <2>1 DEF Worker
  <2>3. ctxs'[t] = [ctxs[t] EXCEPT ![c] = [ctxs[t][c] EXCEPT !.working = TRUE]]
    BY <1>2, <1>6
  <2>4. Len(ctxs'[t]) = Len(ctxs[t])
    BY <1>2, <2>3
  <2>5. QED
    BY <1>1, <1>2, <1>3, <2>2, <2>4, SameNumber
<1>7. CASE /\ ~(c > v.num) /\ AsyncRun(t, c, MarkOf(v.nth, v.len))
           /\ Fail(t) \/ workers' = [workers EXCEPT ![t].nth = @ + 1]
  <2>1. workers'[t].num = v.num
    <3>1. CASE workers' = [workers EXCEPT ![t].nth = @ + 1]
      <4>1. workers'[t] = [v EXCEPT !.nth = v.nth + 1]
        BY <1>1, <1>2, <3>1
      <4>2. QED
        BY <1>2, <4>1 DEF Worker
    <3>2. CASE Fail(t)
      BY <1>1, <3>2, Fails
    <3>3. QED
      BY <1>7, <3>1, <3>2
  <2>2. PICK m \in Marks : m = MarkOf(v.nth, v.len)
    BY DEF MarkOf, Marks
  <2>3. c \in 1..Len(ctxs[t])
    BY <1>2, <1>3, <1>7
  <2>4. AsyncRun(t, c, m)
    BY <1>7, <2>2
  <2>5. PICK x \in Context : ctxs' = [ctxs EXCEPT ![t] = [ctxs[t] EXCEPT ![c] = x]]
    BY <2>3, <2>4, Enters
  <2>6. Len(ctxs'[t]) = Len(ctxs[t])
    BY <1>2, <2>5
  <2>7. QED
    BY <1>1, <1>2, <1>3, <2>1, <2>6, SameNumber
<1>8. QED
  BY <1>1, <1>4, <1>5, <1>6, <1>7 DEF SendSequence

LEMMA PollLoad ==
  ASSUME IInv, LInv, NEW t \in Threads, Poll(t)
  PROVE  LoadInv(t, workers'[t], ctxs'[t])
<1>1. PICK v, c : v = workers[t] /\ c = v.idx
  OBVIOUS
<1>2. /\ v \in Worker /\ ctxs[t] \in Seq(Context) /\ LoopInv(v, ctxs[t]) /\ v.pc = "poll"
      /\ workers \in [Threads -> Worker] /\ ctxs \in [Threads -> Seq(Context)]
  BY <1>1, OfThread DEF Poll, IInv, TypeOK
<1>3. setup.sequence /\ c \in Nat \ {0}
  BY <1>1, <1>2 DEF LoopInv, Worker
<1>4. PICK next : next = [workers EXCEPT ![t].idx = @ + 1]
  OBVIOUS
<1>5. CASE ctxs' = ctxs /\ workers'[t].num = v.num
  BY <1>1, <1>2, <1>3, <1>5, SameNumber
<1>6. ASSUME NEW p, workers' = [workers EXCEPT ![t].idx = 1, ![t].keep = FALSE, ![t].pc = p]
      PROVE  workers'[t].num = v.num
  <2>1. workers'[t] = [v EXCEPT !.idx = 1, !.keep = FALSE, !.pc = p]
    BY <1>1, <1>2, <1>6
  <2>2. QED
    BY <1>2, <2>1 DEF Worker
<1>7. next[t].num = v.num /\ [next EXCEPT ![t].keep = TRUE][t].num = v.num
  <2>1. next[t] = [v EXCEPT !.idx = v.idx + 1]
    BY <1>1, <1>2, <1>4
  <2>2. [next EXCEPT ![t].keep = TRUE][t] = [v EXCEPT !.idx = v.idx + 1, !.keep = TRUE]
    BY <1>1, <1>2, <1>4
  <2>3. QED
    BY <1>2, <2>1, <2>2 DEF Worker
<1>8. ASSUME NEW i \in Ready(t, c), ~(c > Len(ctxs[t])),
             Retire(t, c, i, [next EXCEPT ![t].keep = TRUE])
      PROVE  LoadInv(t, workers'[t], ctxs'[t])
  <2>1. c \in 1..Len(ctxs[t])
    BY <1>2, <1>3, <1>8
  <2>2. PICK go : go = [next EXCEPT ![t].keep = TRUE]
    OBVIOUS
  <2>3. Retire(t, c, i, go)
    BY <1>8, <2>2
  <2>4. PICK x \in Context : /\ ctxs' = [ctxs EXCEPT ![t] = [ctxs[t] EXCEPT ![c] = x]]
                             /\ Fail(t) \/ workers' = go
    BY <2>1, <2>3, Taken
  <2>5. workers'[t].num = v.num
    BY <1>1, <1>7, <2>2, <2>4, Fails
  <2>6. Len(ctxs'[t]) = Len(ctxs[t])
    BY <1>2, <2>4
  <2>7. QED
    BY <1>1, <1>2, <1>3, <2>5, <2>6, SameNumber
<1>9. CASE c > Len(ctxs[t])
  <2>1. PICK p : p = IF v.keep THEN "poll" ELSE IF share[t] = 0 THEN "waiting" ELSE "bottom"
    OBVIOUS
  <2>2. ctxs' = ctxs /\ workers' = [workers EXCEPT ![t].idx = 1, ![t].keep = FALSE, ![t].pc = p]
    BY <1>1, <1>9, <2>1 DEF Poll
  <2>3. QED
    BY <1>5, <1>6, <2>2
<1>10. CASE ~(c > Len(ctxs[t]))
  <2>1. \/ workers' = next /\ ctxs' = ctxs
        \/ \E i \in Ready(t, c) : Retire(t, c, i, [next EXCEPT ![t].keep = TRUE])
    BY <1>1, <1>4, <1>10 DEF Poll
  <2>2. QED
    BY <1>5, <1>7, <1>8, <1>10, <2>1
<1>11. QED
  BY <1>9, <1>10

-----------------------------------------------------------------------------
(* A worker that leaves.                                                     *)

LEMMA DestroyLoad ==
  ASSUME IInv, LInv, NEW t \in Threads, Destroy(t)
  PROVE  LoadInv(t, workers'[t], ctxs'[t])
<1>1. /\ LoadInv(t, workers[t], ctxs[t]) /\ workers[t].pc = "leave"
      /\ ctxs[t] \in Seq(Context) /\ ctxs \in [Threads -> Seq(Context)]
  BY OfLoad DEF Destroy, IInv, TypeOK
<1>2. workers'[t].pc \in {"done", "joining"} /\ workers'[t].num = workers[t].num
  BY Goes DEF Destroy
<1>3. CASE ctxs' = ctxs
  BY <1>1, <1>2, <1>3, Passing DEF Spare
<1>4. CASE ctxs[t] # <<>>
  <2>1. PICK c, y, k : /\ c = 1 /\ y = ctxs[t][1]
                       /\ k = IF ctxs[t][1].client = "asleep" THEN "awake" ELSE ctxs[t][1].client
    OBVIOUS
  <2>2. c \in 1..Len(ctxs[t]) /\ y \in Context /\ Head(ctxs[t]) = y
    BY <1>1, <1>4, <2>1
  <2>3. PICK x : x = [y EXCEPT !.exiting = TRUE, !.client = k]
    OBVIOUS
  <2>4. x \in Context /\ x.reqs = y.reqs
    BY <2>1, <2>2, <2>3 DEF Context
  <2>5. ctxs'[t] = [ctxs[t] EXCEPT ![c] = x]
    <3>1. ctxs' = [ctxs EXCEPT ![t][1].exiting = TRUE,
                     ![t][1].client = IF y.client = "asleep" THEN "awake" ELSE @]
      BY <1>4, <2>2 DEF Destroy
    <3>2. QED
      BY <1>1, <2>1, <2>2, <2>3, <3>1 DEF Context
  <2>6. ~setup.sequence => RequestsInv(t, workers'[t].pc, x.reqs)
    <3>1. ~setup.sequence => RequestsInv(t, "leave", y.reqs)
      BY <1>1, <2>1, <2>2 DEF LoadInv
    <3>2. QED
      BY <1>2, <2>4, <3>1 DEF RequestsInv, Spare
  <2>7. workers[t].pc # "none"
    BY <1>1
  <2>8. QED
    BY <1>1, <1>2, <2>2, <2>4, <2>5, <2>6, <2>7, OneLoad
<1>5. QED
  BY <1>3, <1>4 DEF Destroy

LEMMA DestroyedLoad ==
  ASSUME IInv, LInv, NEW t \in Threads, Destroyed(t)
  PROVE  LoadInv(t, workers'[t], ctxs'[t])
<1>1. /\ LoadInv(t, workers[t], ctxs[t]) /\ workers[t].pc = "joining"
      /\ ctxs[t] \in Seq(Context) /\ ctxs[t] # <<>> /\ t \in Nat /\ Numbers
  BY OfLoad, OfThread DEF Destroyed, LoopInv
<1>2. workers'[t].pc = "leave" /\ workers'[t].num = workers[t].num
  BY Goes DEF Destroyed
<1>3. ctxs'[t] = Tail(ctxs[t])
  BY DEF Destroyed, IInv, TypeOK
<1>4. PICK q, r, n : q = ctxs[t] /\ r = Tail(q) /\ n = Len(q)
  OBVIOUS
<1>5. n \in Nat /\ n - 1 \in Nat /\ Len(r) = n - 1 /\ n - 1 <= n
      /\ \A c \in 1..Len(r) : r[c] = q[c + 1] /\ c + 1 \in 1..Len(q)
  BY <1>1, <1>4
<1>6. CASE setup.sequence
  <2>1. Granted(t, n)
    BY <1>1, <1>4, <1>6 DEF LoadInv
  <2>2. Granted(t, Len(r))
    BY <1>1, <1>5, <2>1, GrantedLess
  <2>3. QED
    BY <1>1, <1>2, <1>3, <1>4, <1>6, <2>2 DEF LoadInv
<1>7. CASE ~setup.sequence
  <2>1. Len(r) <= 1
    BY <1>1, <1>4, <1>5, <1>7 DEF LoadInv
  <2>2. \A c \in 1..Len(r) : RequestsInv(t, "leave", r[c].reqs)
    <3>1. \A c \in 1..Len(q) : RequestsInv(t, "joining", q[c].reqs)
      BY <1>1, <1>4, <1>7 DEF LoadInv
    <3>2. QED
      BY <1>5, <3>1 DEF RequestsInv, Spare
  <2>3. QED
    BY <1>1, <1>2, <1>3, <1>4, <1>7, <2>1, <2>2 DEF LoadInv
<1>8. QED
  BY <1>6, <1>7

LEMMA WorkerLoad ==
  ASSUME IInv, LInv, NEW t \in Threads, WorkerStep(t)
  PROVE  LoadInv(t, workers'[t], ctxs'[t])
BY IdleLoad, PrepareLoad, SendLoad, CollectLoad, FullLoad, DrainLoad, CreateLoad, GrowLoad,
   SendSequenceLoad, PollLoad, DestroyLoad, DestroyedLoad DEF WorkerStep

-----------------------------------------------------------------------------
(* The transfer threads and the server add no request.                       *)

(* A request that moves on was not ready, or is.                             *)
LEMMA MovedMilder ==
  ASSUME NEW q \in Seq(Request), NEW i \in 1..Len(q), NEW to \in {"answered", "ready"},
         q[i].at # "ready" \/ to = "ready", NEW r, r = Moved(q, i, to)
  PROVE  Milder(q, r) /\ r \in Seq(Request)
<1>1. /\ r \in Seq(Request) /\ Len(r) = Len(q)
      /\ \A k \in 1..Len(q) : k # i => r[k] = q[k]
      /\ r[i].at = to
  BY StillRequests
<1>2. HasReady(q) => HasReady(r)
  <2>1. ASSUME NEW k \in DOMAIN q, q[k].at = "ready" PROVE k \in DOMAIN r /\ r[k].at = "ready"
    <3>1. k \in 1..Len(q)
      BY <2>1
    <3>2. QED
      BY <1>1, <2>1, <3>1
  <2>2. QED
    BY <2>1 DEF HasReady
<1>3. QED
  BY <1>1, <1>2 DEF Milder

LEMMA SameMilder == ASSUME NEW q PROVE Milder(q, q)
BY DEF Milder

(* Such a step, and what it does to the requests of its context.             *)
Serves(t, c) ==
  \E x \in Context : /\ ctxs' = [ctxs EXCEPT ![t] = [ctxs[t] EXCEPT ![c] = x]]
                     /\ Milder(ctxs[t][c].reqs, x.reqs)

LEMMA ContextRequests ==
  ASSUME IInv, NEW t \in Threads, NEW c \in 1..Len(ctxs[t])
  PROVE  ctxs[t][c] \in Context /\ ctxs[t][c].reqs \in Seq(Request)
<1>1. ctxs[t] \in Seq(Context)
  BY OfThread
<1>2. ctxs[t][c] \in Context
  BY <1>1
<1>3. QED
  BY <1>2 DEF Context

LEMMA ClientServes ==
  ASSUME IInv, NEW t \in Threads, NEW c \in 1..Len(ctxs[t]),
         NEW k \in {"off", "reading", "awake", "decided", "asleep", "polling", "ended"},
         Client(t, c, k)
  PROVE  Serves(t, c)
<1>1. PICK y, x : y = ctxs[t][c] /\ x = [y EXCEPT !.client = k]
  OBVIOUS
<1>2. y \in Context
  BY <1>1, ContextRequests
<1>3. x \in Context /\ x.reqs = y.reqs
  BY <1>1, <1>2 DEF Context
<1>4. ctxs' = [ctxs EXCEPT ![t] = [ctxs[t] EXCEPT ![c] = x]]
  BY <1>1 DEF Client
<1>5. QED
  BY <1>1, <1>3, <1>4, SameMilder DEF Serves

LEMMA ThreadServes ==
  ASSUME IInv, NEW t \in Threads, NEW c \in 1..Len(ctxs[t]),
         ClientWait(t, c) \/ ClientSleep(t, c) \/ GrpcNext(t, c)
  PROVE  Serves(t, c)
<1>1. CASE GrpcNext(t, c)
  <2>1. PICK k : k = IF ctxs[t][c].exiting THEN "ended" ELSE "polling"
    OBVIOUS
  <2>2. k \in {"ended", "polling"} /\ Client(t, c, k)
    BY <1>1, <2>1 DEF GrpcNext
  <2>3. QED
    BY <2>2, ClientServes
<1>2. QED
  BY <1>1, ClientServes DEF ClientWait, ClientSleep

LEMMA HttpServes ==
  ASSUME IInv, NEW t \in Threads, NEW c \in 1..Len(ctxs[t]), HttpAsyncTransfer(t, c)
  PROVE  Serves(t, c)
<1>1. PICK y : y = ctxs[t][c]
  OBVIOUS
<1>2. y \in Context /\ y.reqs \in Seq(Request)
  BY <1>1, ContextRequests
<1>3. PICK r : r = [i \in DOMAIN y.reqs |-> IF i \in Answered(y)
                      THEN [y.reqs[i] EXCEPT !.at = "ready"] ELSE y.reqs[i]]
  OBVIOUS
<1>4. ASSUME NEW i \in 1..Len(y.reqs)
      PROVE  r[i] \in Request /\ (y.reqs[i].at = "ready" => r[i].at = "ready")
  <2>1. PICK e, d : e = y.reqs[i] /\ d = [e EXCEPT !.at = "ready"]
    OBVIOUS
  <2>2. e \in Request
    BY <1>2, <2>1
  <2>3. d \in Request /\ d.at = "ready"
    BY <2>1, <2>2 DEF Request
  <2>4. r[i] = d \/ r[i] = e
    BY <1>2, <1>3, <2>1
  <2>5. QED
    BY <2>1, <2>2, <2>3, <2>4
<1>5. PICK n : n = Len(y.reqs)
  OBVIOUS
<1>6. r \in Seq(Request) /\ Len(r) = Len(y.reqs)
  <2>1. n \in Nat /\ r = [i \in 1..n |-> r[i]]
    BY <1>2, <1>3, <1>5
  <2>2. \A i \in 1..n : r[i] \in Request
    BY <1>4, <1>5
  <2>3. r \in Seq(Request) /\ Len(r) = n
    BY <2>1, <2>2
  <2>4. QED
    BY <1>5, <2>3
<1>7. PICK q : q = y.reqs
  OBVIOUS
<1>8. HasReady(q) => HasReady(r)
  <2>1. ASSUME NEW i \in DOMAIN q, q[i].at = "ready" PROVE i \in DOMAIN r /\ r[i].at = "ready"
    <3>1. i \in 1..Len(q)
      BY <1>2, <1>7, <2>1
    <3>2. QED
      BY <1>4, <1>6, <1>7, <2>1, <3>1
  <2>2. QED
    BY <2>1 DEF HasReady
<1>9. Milder(y.reqs, r)
  BY <1>6, <1>7, <1>8 DEF Milder
<1>10. PICK k : k = IF y.exiting THEN "ended" ELSE "awake"
  OBVIOUS
<1>11. k \in {"off", "reading", "awake", "decided", "asleep", "polling", "ended"}
  BY <1>10
<1>12. PICK f : f = [ctxs EXCEPT ![t][c].reqs = r]
  OBVIOUS
<1>13. ctxs' = [f EXCEPT ![t][c].client = k]
  BY <1>1, <1>3, <1>10, <1>12 DEF HttpAsyncTransfer
<1>14. Becomes(t, c, r, k)
  BY <1>12, <1>13 DEF Becomes
<1>15. PICK x \in Context : /\ ctxs' = [ctxs EXCEPT ![t] = [ctxs[t] EXCEPT ![c] = x]]
                            /\ x.reqs = r
  BY <1>1, <1>2, <1>6, <1>11, <1>14, BothChange
<1>16. QED
  BY <1>1, <1>9, <1>15 DEF Serves

LEMMA GrpcServes ==
  ASSUME IInv, NEW t \in Threads, NEW c \in 1..Len(ctxs[t]), GrpcAsyncTransfer(t, c)
  PROVE  Serves(t, c)
<1>1. PICK y, k : y = ctxs[t][c] /\ k = IF ctxs[t][c].exiting THEN "ended" ELSE "awake"
  OBVIOUS
<1>2. y \in Context /\ y.reqs \in Seq(Request)
      /\ k \in {"off", "reading", "awake", "decided", "asleep", "polling", "ended"}
  BY <1>1, ContextRequests
<1>3. PICK i \in Answered(y) : ctxs' = [ctxs EXCEPT ![t][c].reqs[i].at = "ready", ![t][c].client = k]
  BY <1>1 DEF GrpcAsyncTransfer
<1>4. PICK r : r = [y.reqs EXCEPT ![i].at = "ready"]
  OBVIOUS
<1>5. i \in 1..Len(y.reqs)
  BY <1>2, <1>3 DEF Answered
<1>6. r = Moved(y.reqs, i, "ready")
  BY <1>4 DEF Moved
<1>7. Milder(y.reqs, r) /\ r \in Seq(Request)
  BY <1>2, <1>5, <1>6, MovedMilder
<1>8. PICK f : f = [ctxs EXCEPT ![t][c].reqs = r]
  OBVIOUS
<1>9. f = [ctxs EXCEPT ![t][c].reqs[i].at = "ready"]
  BY <1>1, <1>4, <1>8
<1>10. ctxs' = [f EXCEPT ![t][c].client = k]
  BY <1>3, <1>9
<1>11. Becomes(t, c, r, k)
  BY <1>8, <1>10 DEF Becomes
<1>12. PICK x \in Context : /\ ctxs' = [ctxs EXCEPT ![t] = [ctxs[t] EXCEPT ![c] = x]]
                            /\ x.reqs = r
  BY <1>1, <1>2, <1>7, <1>11, BothChange
<1>13. QED
  BY <1>1, <1>7, <1>12 DEF Serves

(* Requests are replaced, and nothing else of the context.                   *)
LEMMA RequestsServe ==
  ASSUME IInv, NEW t \in Threads, NEW c \in 1..Len(ctxs[t]), NEW r \in Seq(Request),
         Milder(ctxs[t][c].reqs, r), ctxs' = [ctxs EXCEPT ![t][c].reqs = r]
  PROVE  Serves(t, c)
<1>1. PICK y, x : y = ctxs[t][c] /\ x = [y EXCEPT !.reqs = r]
  OBVIOUS
<1>2. y \in Context
  BY <1>1, ContextRequests
<1>3. x \in Context /\ x.reqs = r
  BY <1>1, <1>2 DEF Context
<1>4. ctxs' = [ctxs EXCEPT ![t] = [ctxs[t] EXCEPT ![c] = x]]
  BY <1>1
<1>5. QED
  BY <1>3, <1>4 DEF Serves

LEMMA StreamServes ==
  ASSUME IInv, NEW t \in Threads, NEW c \in 1..Len(ctxs[t]), StreamAsyncTransfer(t, c)
  PROVE  Serves(t, c)
<1>1. PICK y, q : y = ctxs[t][c] /\ q = ctxs[t][c].reqs
  OBVIOUS
<1>2. q \in Seq(Request) /\ q = y.reqs
  BY <1>1, ContextRequests
<1>3. CASE Answered(y) # {}
  <2>1. PICK T : T = Answered(y)
    OBVIOUS
  <2>2. PICK i \in T :
           ctxs' = [ctxs EXCEPT ![t][c].reqs =
                     IF y.exiting THEN RemoveAt(@, i) ELSE [@ EXCEPT ![i].at = "ready"]]
    BY <1>1, <1>3, <2>1 DEF StreamAsyncTransfer
  <2>3. i \in 1..Len(q)
    BY <1>2, <2>1 DEF Answered
  <2>4. PICK r : r = IF y.exiting THEN RemoveAt(q, i) ELSE [q EXCEPT ![i].at = "ready"]
    OBVIOUS
  <2>5. ctxs' = [ctxs EXCEPT ![t][c].reqs = r]
    BY <1>1, <2>2, <2>4
  <2>6. r \in Seq(Request) /\ Milder(q, r)
    <3>1. CASE ~y.exiting
      <4>1. r = Moved(q, i, "ready")
        BY <2>4, <3>1 DEF Moved
      <4>2. QED
        BY <1>2, <2>3, <4>1, MovedMilder
    <3>2. CASE y.exiting
      <4>1. r = RemoveAt(q, i)
        BY <2>4, <3>2
      <4>2. r \in Seq(Request) /\ Len(r) = Len(q) - 1 /\ Len(q) \in Nat
        BY <1>2, <2>3, <4>1, RemoveAtLeaves
      <4>3. QED
        BY <4>2 DEF Milder
    <3>3. QED
      BY <3>1, <3>2
  <2>7. QED
    BY <1>1, <2>5, <2>6, RequestsServe
<1>4. CASE Answered(y) = {}
  <2>1. Client(t, c, "ended")
    BY <1>1, <1>4 DEF StreamAsyncTransfer
  <2>2. QED
    BY <2>1, ClientServes
<1>5. QED
  BY <1>3, <1>4

LEMMA AnswerServes ==
  ASSUME IInv, NEW t \in Threads, NEW c \in 1..Len(ctxs[t]), Answer(t, c)
  PROVE  Serves(t, c)
<1>1. PICK y, q : y = ctxs[t][c] /\ q = ctxs[t][c].reqs
  OBVIOUS
<1>2. q \in Seq(Request) /\ q = y.reqs
  BY <1>1, ContextRequests
<1>3. PICK T : T = {k \in DOMAIN q : q[k].at = "server"}
  OBVIOUS
<1>4. PICK i \in T, b \in BOOLEAN :
         ctxs' = [ctxs EXCEPT ![t][c].reqs[i] = [@ EXCEPT !.at = "answered", !.refused = b]]
  BY <1>1, <1>2, <1>3 DEF Answer
<1>5. i \in 1..Len(q) /\ q[i].at # "ready"
  BY <1>2, <1>3, <1>4
<1>6. PICK r : r = Replied(q, i, b)
  OBVIOUS
<1>7. r \in Seq(Request) /\ Milder(q, r)
  <2>1. r \in Seq(Request) /\ Len(r) = Len(q) /\ \A k \in 1..Len(q) : k # i => r[k] = q[k]
    BY <1>2, <1>5, <1>6, RepliedRequests
  <2>2. HasReady(q) => HasReady(r)
    <3>1. ASSUME NEW k \in DOMAIN q, q[k].at = "ready" PROVE k \in DOMAIN r /\ r[k].at = "ready"
      BY <1>2, <1>5, <2>1, <3>1
    <3>2. QED
      BY <3>1 DEF HasReady
  <2>3. QED
    BY <2>1, <2>2 DEF Milder
<1>8. ctxs' = [ctxs EXCEPT ![t][c].reqs = r]
  BY <1>1, <1>4, <1>6 DEF Replied
<1>9. QED
  BY <1>1, <1>7, <1>8, RequestsServe

LEMMA StreamEndsServes ==
  ASSUME IInv, NEW t \in Threads, NEW c \in 1..Len(ctxs[t]), StreamEnds(t, c)
  PROVE  Serves(t, c)
<1>1. PICK y, x : y = ctxs[t][c] /\ x = [y EXCEPT !.closed = TRUE]
  OBVIOUS
<1>2. y \in Context
  BY <1>1, ContextRequests
<1>3. x \in Context /\ x.reqs = y.reqs
  BY <1>1, <1>2 DEF Context
<1>4. ctxs' = [ctxs EXCEPT ![t] = [ctxs[t] EXCEPT ![c] = x]]
  BY <1>1 DEF StreamEnds
<1>5. QED
  BY <1>1, <1>3, <1>4, SameMilder DEF Serves

LEMMA ContextLoad ==
  ASSUME IInv, LInv, NEW t \in Threads, NEW c \in 1..Len(ctxs[t]),
         ClientStep(t, c) \/ Answer(t, c) \/ StreamEnds(t, c)
  PROVE  LoadInv(t, workers'[t], ctxs'[t])
<1>1. Serves(t, c)
  BY ThreadServes, HttpServes, GrpcServes, StreamServes, AnswerServes, StreamEndsServes
     DEF ClientStep
<1>2. workers' = workers
  BY DEF ClientStep, ClientWait, ClientSleep, HttpAsyncTransfer, GrpcNext, GrpcAsyncTransfer,
         StreamAsyncTransfer, Answer, StreamEnds, OthersAsIs
<1>3. PICK x \in Context : /\ ctxs' = [ctxs EXCEPT ![t] = [ctxs[t] EXCEPT ![c] = x]]
                           /\ Milder(ctxs[t][c].reqs, x.reqs)
  BY <1>1 DEF Serves
<1>4. PICK q, r : q = ctxs[t][c].reqs /\ r = x.reqs
  OBVIOUS
<1>5. q \in Seq(Request) /\ r \in Seq(Request) /\ Milder(q, r)
  BY <1>3, <1>4, ContextRequests DEF Context
<1>6. LoadInv(t, workers[t], ctxs[t]) /\ ctxs[t] \in Seq(Context) /\ t \in Nat /\ Numbers
  BY OfLoad
<1>7. ASSUME ~setup.sequence PROVE RequestsInv(t, workers[t].pc, x.reqs)
  <2>1. RequestsInv(t, workers[t].pc, q)
    BY <1>4, <1>6, <1>7 DEF LoadInv
  <2>2. RequestsInv(t, workers[t].pc, r)
    BY <1>5, <1>6, <2>1, MilderRequests
  <2>3. QED
    BY <1>4, <2>2
<1>8. PICK z : z = [ctxs[t] EXCEPT ![c] = x]
  OBVIOUS
<1>9. ctxs' = [ctxs EXCEPT ![t] = z]
  BY <1>3, <1>8
<1>10. ctxs'[t] = z
  BY <1>9, OneReplaced
<1>11. LoadInv(t, workers[t], z)
  BY <1>6, <1>7, <1>8, OneLoad
<1>12. QED
  BY <1>2, <1>10, <1>11

-----------------------------------------------------------------------------
(* What is granted stays granted.                                            *)

LEMMA LoadRises ==
  ASSUME NEW t \in Nat, setup' = setup, \A m \in Nat : Granted(t, m) => Granted(t, m)',
         NEW w \in Worker, NEW q \in Seq(Context), LoadInv(t, w, q)
  PROVE  LoadInv(t, w, q)'
<1>1. w.num \in Nat /\ Len(q) \in Nat /\ 1 \in Nat
  BY DEF Worker
<1>2. ASSUME NEW c \in 1..Len(q), RequestsInv(t, w.pc, q[c].reqs)
      PROVE  RequestsInv(t, w.pc, q[c].reqs)'
  <2>1. q[c] \in Context
    OBVIOUS
  <2>2. q[c].reqs \in Seq(Request)
    BY <2>1 DEF Context
  <2>3. PICK r, n : r = q[c].reqs /\ n = Len(q[c].reqs)
    OBVIOUS
  <2>4. n \in Nat /\ n + 1 \in Nat /\ n = Len(r)
    BY <2>2, <2>3
  <2>5. RequestsInv(t, w.pc, r)
    BY <1>2, <2>3
  <2>6. RequestsInv(t, w.pc, r)'
    BY <2>4, <2>5 DEF RequestsInv
  <2>7. QED
    BY <2>3, <2>6
<1>3. QED
  BY <1>1, <1>2 DEF LoadInv

(* Nothing else matters to what is granted.                                  *)
LEMMA SameGranted ==
  ASSUME setup' = setup, main'.level = main.level, NEW t, NEW m
  PROVE  Granted(t, m)' <=> Granted(t, m)
BY DEF Granted, Target

LEMMA SameTarget ==
  ASSUME setup' = setup, main'.level = main.level PROVE Target' = Target
BY DEF Target

(* The level stays, and every thread takes what is granted, or nothing.      *)
LEMMA LInvNext ==
  ASSUME IInv, LInv, IInv', setup' = setup, main'.level = main.level,
         \A t \in Threads : LoadInv(t, workers'[t], ctxs'[t]),
         \A t \in Threads : Granted(t, share'[t]),
         LevelInv'
  PROVE  LInv'
<1>1. ASSUME NEW t \in Threads PROVE Granted(t, share[t])' /\ LoadInv(t, workers[t], ctxs[t])'
  <2>1. PICK w, q : w = workers'[t] /\ q = ctxs'[t]
    OBVIOUS
  <2>2. w \in Worker /\ q \in Seq(Context)
    BY <2>1 DEF IInv, TypeOK
  <2>3. t \in Nat
    BY DEF Threads
  <2>4. \A m \in Nat : Granted(t, m) => Granted(t, m)'
    BY SameGranted
  <2>5. LoadInv(t, w, q)
    BY <2>1
  <2>6. LoadInv(t, w, q)'
    BY <2>2, <2>3, <2>4, <2>5, LoadRises
  <2>7. LoadInv(t, workers[t], ctxs[t])'
    BY <2>1, <2>6 DEF LoadInv, RequestsInv, HasReady, Granted, Target
  <2>8. Granted(t, share[t])'
    BY DEF Granted, Target
  <2>9. QED
    BY <2>7, <2>8
<1>2. QED
  BY <1>1 DEF LInv

LEMMA SameLevel ==
  ASSUME LInv, setup' = setup, main'.level = main.level, Launched' = Launched,
         main.pc # "launch" \/ main'.pc = "launch"
  PROVE  LevelInv'
<1>1. Target' = Target
  BY SameTarget
<1>2. QED
  BY <1>1 DEF LInv, LevelInv

(* One thread takes a step.                                                  *)
LEMMA ThreadKeeps ==
  ASSUME IInv, LInv, IInv', NEW t \in Threads, Moves(t), LoadInv(t, workers'[t], ctxs'[t]),
         workers'[t].pc = "none" <=> workers[t].pc = "none",
         UNCHANGED <<setup, main, share>>
  PROVE  LInv'
<1>1. \A u \in Threads : u # t => workers'[u] = workers[u] /\ ctxs'[u] = ctxs[u]
  BY DEF Moves, IInv, TypeOK
<1>2. \A u \in Threads : LoadInv(u, workers'[u], ctxs'[u])
  BY <1>1 DEF LInv
<1>3. \A u \in Threads : Granted(u, share'[u])
  BY DEF LInv
<1>4. Launched' = Launched
  BY <1>1 DEF Launched
<1>5. setup' = setup /\ main' = main
  OBVIOUS
<1>6. LevelInv'
  BY <1>4, <1>5, SameLevel
<1>7. QED
  BY <1>2, <1>3, <1>5, <1>6, LInvNext

-----------------------------------------------------------------------------
(* The main thread raises the level and deals it out.                        *)

(* One thread more is launched, and it is one of those of the level.         *)
LEMMA LaunchLoad == ASSUME IInv, LInv, IInv', Launch PROVE LInv'
<1>1. PICK n, p : n = Cardinality(Launched) /\ p = IF setup.sequence THEN "create" ELSE "prepare"
  OBVIOUS
<1>2. n \in Nat /\ Launched = 1..n /\ n <= Target
  BY <1>1, NextThread DEF LInv, LevelInv
<1>3. Numbers /\ setup.threads <= MaxThreads /\ MaxThreads \in Nat
  BY LevelNumbers, PerfClientAssumption DEF IInv, TypeOK
<1>4. Target \in Nat \ {0}
  BY <1>3, TargetNumber
<1>5. UNCHANGED <<setup, share, ctxs>>
  BY DEF Launch
<1>6. CASE /\ main.level > n /\ n < setup.threads
           /\ workers' = [workers EXCEPT ![n + 1].pc = p] /\ main' = main
  <2>1. PICK k, w : k = n + 1 /\ w = [workers[k] EXCEPT !.pc = p]
    OBVIOUS
  <2>2. k \in Nat \ {0} /\ k <= Target /\ k \in Threads /\ k <= main.level
    <3>1. main.level \in Nat /\ setup.threads \in Nat
      BY <1>3 DEF Numbers
    <3>2. k \in Nat \ {0} /\ k <= main.level /\ k <= setup.threads
      BY <1>2, <1>6, <2>1, <3>1
    <3>3. k <= Target
      BY <3>2 DEF Target
    <3>4. k \in Threads
      BY <1>3, <3>1, <3>2 DEF Threads
    <3>5. QED
      BY <3>2, <3>3, <3>4
  <2>3. workers[k] \in Worker /\ workers \in [Threads -> Worker]
    BY <2>2 DEF IInv, TypeOK
  <2>4. w.pc = p /\ w.num = workers[k].num
    BY <2>1, <2>3 DEF Worker
  <2>5. \A t \in Threads : workers'[t] = IF t = k THEN w ELSE workers[t]
    BY <1>6, <2>1, <2>3
  <2>6. Granted(k, 1)
    <3>1. (1 - 1) * Target = 0
      BY <1>4
    <3>2. k + (1 - 1) * Target <= main.level
      BY <2>2, <3>1
    <3>3. QED
      BY <2>2, <3>2 DEF Granted
  <2>7. LoadInv(k, w, ctxs[k])
    <3>1. LoadInv(k, workers[k], ctxs[k])
      BY <2>2 DEF LInv
    <3>2. p \notin Spare \cup {"drain"}
      BY <1>1 DEF Spare
    <3>3. ASSUME NEW reqs, RequestsInv(k, workers[k].pc, reqs) PROVE RequestsInv(k, p, reqs)
      BY <3>2, <3>3 DEF RequestsInv
    <3>4. QED
      BY <2>4, <2>6, <3>1, <3>3 DEF LoadInv
  <2>8. \A t \in Threads : LoadInv(t, workers'[t], ctxs'[t])
    BY <1>5, <2>5, <2>7 DEF LInv
  <2>9. Launched' = 1..k
    <3>1. p # "none"
      BY <1>1
    <3>2. \A t \in Threads : t \in Launched' <=> t \in Launched \/ t = k
      BY <2>4, <2>5, <3>1 DEF Launched
    <3>3. Launched' \subseteq Threads /\ Launched \subseteq Threads
      BY DEF Launched
    <3>4. \A x : x \in Launched' <=> x \in 1..n \/ x = k
      BY <1>2, <2>2, <3>2, <3>3
    <3>5. \A x : x \in 1..n \/ x = k <=> x \in 1..k
      BY <1>2, <2>1
    <3>6. QED
      BY <3>4, <3>5
  <2>10. Cardinality(Launched') = k
    <3>1. PICK m : m = Cardinality(Launched')
      OBVIOUS
    <3>2. PICK a, b : a = 1 /\ b = k
      OBVIOUS
    <3>3. Cardinality(a..b) = IF a > b THEN 0 ELSE b - a + 1
      BY <2>2, <3>2, FS_Interval
    <3>4. QED
      BY <2>2, <2>9, <3>2, <3>3
  <2>11. main.pc = "launch" /\ main'.pc = "launch" /\ main'.level = main.level
    BY <1>6 DEF Launch
  <2>12. Target' = Target
    BY <1>5, <2>11, SameTarget
  <2>13. LevelInv'
    BY <2>2, <2>10, <2>11, <2>12 DEF LevelInv, LInv
  <2>14. \A t \in Threads : Granted(t, share'[t])
    BY <1>5 DEF LInv
  <2>15. QED
    BY <1>5, <2>8, <2>11, <2>13, <2>14, LInvNext
<1>7. CASE /\ ~(main.level > n /\ n < setup.threads)
           /\ main' = [main EXCEPT !.pc = "spread", !.idx = 1] /\ workers' = workers
  <2>1. n = Target
    BY <1>2, <1>3, <1>7 DEF Target, Numbers
  <2>2. main'.level = main.level
    BY <1>7 DEF IInv, TypeOK
  <2>3. Launched' = Launched
    BY <1>7 DEF Launched
  <2>4. Target' = Target
    BY <1>5, <2>2, SameTarget
  <2>5. LevelInv'
    BY <1>1, <2>1, <2>2, <2>3, <2>4 DEF LevelInv, LInv
  <2>6. /\ \A t \in Threads : LoadInv(t, workers'[t], ctxs'[t])
        /\ \A t \in Threads : Granted(t, share'[t])
    BY <1>5, <1>7 DEF LInv
  <2>7. QED
    BY <1>5, <2>2, <2>5, <2>6, LInvNext
<1>8. QED
  BY <1>1, <1>6, <1>7 DEF Launch

LEMMA SpreadLoad == ASSUME IInv, LInv, IInv', Spread PROVE LInv'
<1>1. PICK n, i : n = Cardinality(Launched) /\ i = main.idx
  OBVIOUS
<1>2. main.pc = "spread" /\ UNCHANGED <<setup, workers, ctxs>>
  BY DEF Spread
<1>3. n = Target /\ i \in Nat \ {0}
  BY <1>1, <1>2 DEF LInv, LevelInv, IInv, TypeOK
<1>4. Numbers
  BY LevelNumbers
<1>5. n \in Nat \ {0}
  BY <1>3, <1>4, TargetNumber
<1>6. \A t \in Threads : Granted(t, share'[t])
  <2>1. CASE share' = share
    BY <2>1 DEF LInv
  <2>2. CASE ~(i > n) /\ share' = [share EXCEPT ![i] = Part(main.level, n, i)]
    <3>1. i \in 1..Target
      BY <1>3, <1>5, <2>2
    <3>2. Granted(i, Part(main.level, n, i))
      BY <1>3, <1>4, <3>1, PartGranted
    <3>3. share \in [Threads -> Nat]
      BY DEF IInv, TypeOK
    <3>4. \A t \in Threads : share'[t] = IF t = i THEN Part(main.level, n, i) ELSE share[t]
      BY <2>2, <3>3
    <3>5. QED
      BY <3>2, <3>4 DEF LInv
  <2>3. QED
    BY <1>1, <2>1, <2>2 DEF Spread
<1>7. main'.level = main.level
  BY DEF Spread, At, IInv, TypeOK
<1>8. Launched' = Launched
  BY <1>2 DEF Launched
<1>9. LevelInv'
  BY <1>2, <1>7, <1>8, SameLevel
<1>10. \A t \in Threads : LoadInv(t, workers'[t], ctxs'[t])
  BY <1>2 DEF LInv
<1>11. QED
  BY <1>2, <1>6, <1>7, <1>9, <1>10, LInvNext

(* The level rises when its threads have been launched.                      *)
LEMMA ReportLoad ==
  ASSUME IInv, LInv, IInv', main.pc = "report", UNCHANGED <<setup, workers, share, ctxs>>,
         main' = [main EXCEPT !.pc = "launch", !.level = @ + 1]
  PROVE  LInv'
<1>1. main'.level = main.level + 1 /\ main'.pc = "launch" /\ setup' = setup
  BY DEF IInv, TypeOK
<1>2. Numbers
  BY LevelNumbers
<1>3. ASSUME NEW t \in Threads PROVE Granted(t, share[t])' /\ LoadInv(t, workers[t], ctxs[t])'
  <2>1. PICK w, q, s : w = workers[t] /\ q = ctxs[t] /\ s = share[t]
    OBVIOUS
  <2>2. /\ w \in Worker /\ q \in Seq(Context) /\ s \in Nat /\ t \in Nat \ {0}
        /\ LoadInv(t, w, q) /\ Granted(t, s)
    BY <2>1, OfLoad
  <2>3. \A m \in Nat : Granted(t, m) => Granted(t, m)'
    BY <1>1, <1>2, <2>2, GrantedNext
  <2>4. LoadInv(t, w, q)'
    BY <1>1, <2>2, <2>3, LoadRises
  <2>5. Granted(t, s)'
    BY <2>2, <2>3
  <2>6. LoadInv(t, workers[t], ctxs[t])'
    BY <2>1, <2>4 DEF LoadInv, RequestsInv, HasReady, Granted, Target
  <2>7. Granted(t, share[t])'
    BY <2>1, <2>5 DEF Granted, Target
  <2>8. QED
    BY <2>6, <2>7
<1>4. LevelInv'
  <2>1. Launched' = Launched
    BY DEF Launched
  <2>2. Cardinality(Launched) = Target
    BY DEF LInv, LevelInv
  <2>3. Target \in Nat /\ Target' \in Nat /\ Target <= Target' /\ main'.level > 0
    BY <1>1, <1>2 DEF Target, Numbers
  <2>4. QED
    BY <1>1, <2>1, <2>2, <2>3 DEF LevelInv
<1>5. QED
  BY <1>3, <1>4 DEF LInv

LEMMA NotifyLoad ==
  ASSUME IInv, LInv, NotifyAll, ctxs' = ctxs
  PROVE  (\A t \in Threads : LoadInv(t, workers'[t], ctxs'[t])) /\ Launched' = Launched
<1>1. ASSUME NEW t \in Threads
      PROVE  /\ LoadInv(t, workers'[t], ctxs'[t])
             /\ workers'[t].pc = "none" <=> workers[t].pc = "none"
  <2>1. PICK v, w : v = workers[t] /\ w = workers'[t]
    OBVIOUS
  <2>2. v \in Worker /\ LoadInv(t, v, ctxs[t])
    BY <2>1, OfLoad
  <2>3. w = IF v.pc = "asleep" THEN [v EXCEPT !.pc = "waiting"] ELSE v
    BY <2>1 DEF NotifyAll
  <2>4. CASE v.pc = "asleep"
    <3>1. w.pc = "waiting" /\ w.num = v.num /\ v.pc \in Spare
      BY <2>2, <2>3, <2>4 DEF Worker, Spare
    <3>2. LoadInv(t, w, ctxs[t])
      BY <2>2, <2>4, <3>1, Passing
    <3>3. QED
      BY <2>1, <2>4, <3>1, <3>2
  <2>5. CASE v.pc # "asleep"
    BY <2>1, <2>2, <2>3, <2>5
  <2>6. QED
    BY <2>4, <2>5
<1>2. Launched' = Launched
  BY <1>1 DEF Launched
<1>3. QED
  BY <1>1, <1>2

LEMMA MainLoad == ASSUME IInv, LInv, IInv', MainStep \/ SignalHandler PROVE LInv'
<1>1. CASE Launch
  BY <1>1, LaunchLoad
<1>2. CASE Spread
  BY <1>2, SpreadLoad
<1>3. ASSUME main'.level = main.level, UNCHANGED <<setup, share, ctxs>>,
             main.pc # "launch" \/ main'.pc = "launch", workers' = workers \/ NotifyAll
      PROVE  LInv'
  <2>1. (\A t \in Threads : LoadInv(t, workers'[t], ctxs'[t])) /\ Launched' = Launched
    <3>1. CASE workers' = workers
      BY <1>3, <3>1 DEF LInv, Launched
    <3>2. CASE NotifyAll
      BY <1>3, <3>2, NotifyLoad
    <3>3. QED
      BY <1>3, <3>1, <3>2
  <2>2. LevelInv'
    BY <1>3, <2>1, SameLevel
  <2>3. \A t \in Threads : Granted(t, share'[t])
    BY <1>3 DEF LInv
  <2>4. QED
    BY <1>3, <2>1, <2>2, <2>3, LInvNext
<1>4. CASE Report
  <2>1. main.pc = "report" /\ UNCHANGED <<setup, workers, share, ctxs>>
    BY <1>4 DEF Report
  <2>2. CASE At("quit")
    <3>1. main'.level = main.level
      BY <2>2 DEF At, IInv, TypeOK
    <3>2. QED
      BY <1>3, <2>1, <3>1
  <2>3. CASE main' = [main EXCEPT !.pc = "launch", !.level = @ + 1]
    BY <2>1, <2>3, ReportLoad
  <2>4. QED
    BY <1>4, <2>2, <2>3 DEF Report
<1>5. CASE Notify \/ CheckHealth \/ Measure \/ Quit \/ Wake \/ Join \/ SignalHandler
  <2>1. main'.level = main.level
    BY <1>5 DEF Notify, CheckHealth, Measure, Quit, Wake, Join, SignalHandler, At, IInv, TypeOK
  <2>2. UNCHANGED <<setup, share, ctxs>> /\ (workers' = workers \/ NotifyAll)
    BY <1>5 DEF Notify, CheckHealth, Measure, Quit, Wake, Join, SignalHandler
  <2>3. main.pc # "launch" \/ main' = main
    BY <1>5 DEF Notify, CheckHealth, Measure, Quit, Wake, Join, SignalHandler
  <2>4. QED
    BY <1>3, <2>1, <2>2, <2>3
<1>6. QED
  BY <1>1, <1>2, <1>4, <1>5 DEF MainStep

-----------------------------------------------------------------------------
(* The invariant of the load.                                                *)

LEMMA InitLoad == ASSUME Init, IInv PROVE LInv
<1>1. setup.first \in Nat \ {0} /\ setup.threads \in Nat \ {0} /\ main.level = setup.first
      /\ main.pc = "launch"
  BY PerfClientAssumption DEF Init
<1>2. Numbers
  BY <1>1 DEF Numbers
<1>3. Target \in Nat
  BY <1>2, TargetNumber
<1>4. Launched = {}
  BY DEF Init, Idle, Launched
<1>5. LevelInv
  <2>1. Cardinality({}) = 0
    BY FS_EmptySet
  <2>2. QED
    BY <1>1, <1>3, <1>4, <2>1 DEF LevelInv
<1>6. \A t : Granted(t, 0)
  BY DEF Granted
<1>7. ASSUME NEW t \in Threads PROVE Granted(t, share[t]) /\ LoadInv(t, workers[t], ctxs[t])
  <2>1. share[t] = 0 /\ ctxs[t] = <<>> /\ workers[t] = Idle
    BY DEF Init
  <2>2. Idle.pc = "none" /\ Idle.num = 0
    BY DEF Idle
  <2>3. QED
    BY <1>6, <2>1, <2>2 DEF LoadInv
<1>8. QED
  BY <1>5, <1>7 DEF LInv

LEMMA NextLoad == ASSUME IInv, LInv, IInv', [Next]_vars PROVE LInv'
<1>1. CASE MainStep \/ SignalHandler
  BY <1>1, MainLoad
<1>2. ASSUME NEW t \in Threads, WorkerStep(t) PROVE LInv'
  <2>1. Moves(t) /\ UNCHANGED <<setup, main, share>>
    BY <1>2, WorkerMoves
  <2>2. workers[t].pc # "none" /\ workers'[t].pc # "none"
    BY <1>2, StaysLaunched
  <2>3. LoadInv(t, workers'[t], ctxs'[t])
    BY <1>2, WorkerLoad
  <2>4. QED
    BY <2>1, <2>2, <2>3, ThreadKeeps
<1>3. ASSUME NEW t \in Threads, NEW c \in Contexts(t),
             ClientStep(t, c) \/ Answer(t, c) \/ StreamEnds(t, c)
      PROVE  LInv'
  <2>1. Moves(t) /\ UNCHANGED <<setup, main, share>>
    BY <1>3, ContextMoves
  <2>2. workers' = workers
    BY <1>3 DEF ClientStep, ClientWait, ClientSleep, HttpAsyncTransfer, GrpcNext,
       GrpcAsyncTransfer, StreamAsyncTransfer, Answer, StreamEnds, OthersAsIs
  <2>3. LoadInv(t, workers'[t], ctxs'[t])
    BY <1>3, ContextLoad DEF Contexts
  <2>4. QED
    BY <2>1, <2>2, <2>3, ThreadKeeps
<1>4. ASSUME UNCHANGED vars PROVE LInv'
  <2>1. UNCHANGED <<setup, main, share, workers, ctxs>>
    BY <1>4 DEF vars
  <2>2. Launched' = Launched
    BY <2>1 DEF Launched
  <2>3. LevelInv'
    BY <2>1, <2>2, SameLevel
  <2>4. /\ \A t \in Threads : LoadInv(t, workers'[t], ctxs'[t])
        /\ \A t \in Threads : Granted(t, share'[t])
    BY <2>1 DEF LInv
  <2>5. QED
    BY <2>1, <2>3, <2>4, LInvNext
<1>5. QED
  BY <1>1, <1>2, <1>3, <1>4 DEF Next, Stopped

(* In every reachable state what a worker has in flight, what it may still   *)
(* send and what it has read as its share are dealt to it at the level that  *)
(* is being measured.                                                        *)
THEOREM LoadInvariance == Spec => []LInv
<1>1. Init => IInv /\ LInv
  BY InitOK, InitLoad
<1>2. IInv /\ LInv /\ IInv' /\ [Next]_vars => LInv'
  BY NextLoad
<1>3. QED
  BY <1>1, <1>2, Invariance, PTL DEF Spec

(* The requests in flight, or the sequences, over all workers are never more *)
(* than the level that is measured, for any setups, levels and threads, and  *)
(* whenever a worker reads the share the main thread is rewriting.           *)
THEOREM LoadIsBounded == Spec => []LoadBounded
<1>1. ASSUME IInv, LInv PROVE LoadBounded
  <2>1. ASSUME NEW x \in Load
        PROVE  \E t \in Threads : \E c \in 1..Len(ctxs[t]) : \E k \in 1..Weight(t, c) :
                 x = <<t, c, k>>
    BY DEF Load, Contexts
  <2>2. ASSUME NEW t \in Threads, NEW c \in 1..Len(ctxs[t]), NEW k \in 1..Weight(t, c),
               NEW x, x = <<t, c, k>>
        PROVE  /\ x[1] = t /\ Place(x) \in Nat \ {0} /\ Granted(t, Place(x))
               /\ x = IF setup.sequence THEN <<t, Place(x), 1>> ELSE <<t, 1, Place(x)>>
    <3>1. /\ LoadInv(t, workers[t], ctxs[t]) /\ ctxs[t] \in Seq(Context) /\ t \in Nat
          /\ Numbers
      BY <1>1, OfLoad
    <3>2. PICK n \in Nat : n = Len(ctxs[t])
      BY <3>1
    <3>3. PICK i \in Nat : i = Inflight(t, c)
      <4>1. ctxs[t][c].reqs \in Seq(Request)
        BY <1>1, ContextRequests
      <4>2. QED
        BY <4>1 DEF Inflight
    <3>4. CASE setup.sequence
      <4>1. Granted(t, n)
        BY <3>1, <3>2, <3>4 DEF LoadInv
      <4>2. Weight(t, c) \in {0, 1}
        BY <3>4 DEF Weight
      <4>3. k = 1 /\ c \in Nat \ {0} /\ c <= n
        BY <3>2, <4>2
      <4>4. Granted(t, c)
        BY <3>1, <4>1, <4>3, GrantedLess
      <4>5. Place(x) = c
        BY <2>2, <3>4 DEF Place
      <4>6. QED
        BY <2>2, <3>4, <4>3, <4>4, <4>5
    <3>5. CASE ~setup.sequence
      <4>1. n <= 1 /\ RequestsInv(t, workers[t].pc, ctxs[t][c].reqs)
        BY <3>1, <3>2, <3>5 DEF LoadInv
      <4>2. Granted(t, i)
        BY <3>3, <4>1 DEF RequestsInv, Inflight
      <4>3. Weight(t, c) = i
        BY <3>3, <3>5 DEF Weight
      <4>4. c = 1 /\ k \in Nat \ {0} /\ k <= i
        BY <3>2, <3>3, <4>1, <4>3
      <4>5. Granted(t, k)
        BY <3>1, <4>2, <4>4, GrantedLess
      <4>6. Place(x) = k
        BY <2>2, <3>5 DEF Place
      <4>7. QED
        BY <2>2, <3>5, <4>4, <4>5, <4>6
    <3>6. QED
      BY <3>4, <3>5
  <2>3. ASSUME NEW x \in Load
        PROVE  /\ x[1] \in Threads /\ Place(x) \in Nat \ {0} /\ Granted(x[1], Place(x))
               /\ x = IF setup.sequence THEN <<x[1], Place(x), 1>> ELSE <<x[1], 1, Place(x)>>
    <3>1. PICK t \in Threads : \E c \in 1..Len(ctxs[t]) : \E k \in 1..Weight(t, c) : x = <<t, c, k>>
      BY <2>1
    <3>2. PICK c \in 1..Len(ctxs[t]) : \E k \in 1..Weight(t, c) : x = <<t, c, k>>
      BY <3>1
    <3>3. PICK k \in 1..Weight(t, c) : x = <<t, c, k>>
      BY <3>2
    <3>4. QED
      BY <2>2, <3>3
  <2>4. Numbers /\ MaxThreads \in Nat
    BY <1>1, LevelNumbers, PerfClientAssumption
  <2>5. \A x, y \in Load : x[1] = y[1] /\ Place(x) = Place(y) => x = y
    BY <2>3
  <2>6. QED
    BY <2>3, <2>4, <2>5, WithinLevel DEF LoadBounded
<1>2. QED
  BY <1>1, Invariance, LoadInvariance, PTL
=============================================================================
