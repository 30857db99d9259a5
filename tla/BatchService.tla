---------------------------- MODULE BatchService ----------------------------
(***************************************************************************)
(* What a batch scheduler promises: requests are taken in the order in     *)
(* which they came, in batches decided from all that is queued at once,    *)
(* and each is completed once.                                             *)
(*                                                                         *)
(* Abstract specification: a decision and its dispatch are one step, and   *)
(* nothing is left over from earlier ones; no lock, no threads that wait.  *)
(***************************************************************************)
EXTENDS Naturals, Sequences

CONSTANTS
    Runners,       \* who executes batches
    Sizes,         \* batch sizes of requests
    Shapes,        \* their input shapes
    Preferred,     \* the batch sizes preferred
    MaxPreferred,  \* the largest of them
    NeedShape,     \* whether the requests of a batch must be of one shape
    Delay,         \* whether a batch may wait for more requests
    MaxRequests    \* bound: requests that arrive

VARIABLES
    dynamic,  \* whether requests are batched at all
    queue,    \* the requests that wait, each with its distance from the first
    aged,     \* whether the first has waited long enough
    batch,    \* per runner: what it executes
    issued,   \* requests that have arrived
    done,     \* requests completed
    closed    \* whether the service has ended

vars == <<dynamic, queue, aged, batch, issued, done, closed>>

\* The batch sizes of the elements i to j of a sequence of requests, added up.
SizeOf(s, i, j) == s[j].offset + s[j].size - s[i].offset

\* The first n requests fit one batch, whatever the size of the first.
Fit(n) ==
    \A m \in 2..n :
        /\ SizeOf(queue, 1, m) <= MaxPreferred
        /\ NeedShape => queue[m].shape = queue[1].shape

Fitting == CHOOSE n \in 1..Len(queue) : Fit(n) /\ (n = Len(queue) \/ ~Fit(n + 1))

PreferredCounts == {n \in 1..Fitting : SizeOf(queue, 1, n) \in Preferred}

\* Waiting would not make the batch larger, or not usefully so.
Full == Fitting < Len(queue) \/ SizeOf(queue, 1, Fitting) >= MaxPreferred

\* How many requests to execute now: of the batches that start at the front the
\* largest of a preferred size, else all that fit, if there is nothing to wait
\* for, else none.
Chosen ==
    IF PreferredCounts # {} THEN CHOOSE n \in PreferredCounts : \A m \in PreferredCounts : m <= n
    ELSE IF Full \/ ~Delay \/ aged THEN Fitting ELSE 0

Init ==
    /\ dynamic \in BOOLEAN
    /\ queue = <<>>
    /\ aged = FALSE
    /\ batch = [r \in Runners |-> <<>>]
    /\ issued = 0
    /\ done = {}
    /\ closed = FALSE

\* The request that arrives next.
Arrival(size, shape) ==
    LET last == queue[Len(queue)]
    IN  [id |-> issued + 1, size |-> size, shape |-> shape,
         offset |-> IF queue = <<>> THEN 0 ELSE last.offset + last.size]

Arrive(size, shape) ==
    /\ ~closed
    /\ issued < MaxRequests
    /\ issued' = issued + 1
    /\ queue' = Append(queue, Arrival(size, shape))
    /\ UNCHANGED <<dynamic, aged, batch, done, closed>>

\* The first of the requests has waited long enough.
FallDue ==
    /\ dynamic /\ Delay
    /\ queue # <<>>
    /\ aged' = TRUE
    /\ UNCHANGED <<dynamic, queue, batch, issued, done, closed>>

\* A runner that is free executes the first n requests.
Dispatch(r, n) ==
    /\ batch[r] = <<>>
    /\ queue' = SubSeq(queue, n + 1, Len(queue))
    /\ batch' = [batch EXCEPT ![r] = SubSeq(queue, 1, n)]
    /\ aged' \in BOOLEAN /\ (aged' => dynamic /\ Delay /\ queue' # <<>>)
    /\ UNCHANGED <<dynamic, issued, done, closed>>

DispatchOne(r) == ~dynamic /\ queue # <<>> /\ Dispatch(r, 1)
DispatchBatch(r) == dynamic /\ queue # <<>> /\ Chosen > 0 /\ Dispatch(r, Chosen)

Complete(r) ==
    /\ batch[r] # <<>>
    /\ done' = done \cup {batch[r][i].id : i \in DOMAIN batch[r]}
    /\ batch' = [batch EXCEPT ![r] = <<>>]
    /\ UNCHANGED <<dynamic, queue, aged, issued, closed>>

\* The service ends when nothing is left to do.
Close ==
    /\ done = 1..issued
    /\ closed' = TRUE
    /\ UNCHANGED <<dynamic, queue, aged, batch, issued, done>>

Next ==
    \/ \E size \in Sizes, shape \in Shapes : Arrive(size, shape)
    \/ FallDue
    \/ \E r \in Runners : DispatchOne(r) \/ DispatchBatch(r) \/ Complete(r)
    \/ Close

Spec == Init /\ [][Next]_vars
=============================================================================
