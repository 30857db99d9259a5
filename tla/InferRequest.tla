---------------------------- MODULE InferRequest ----------------------------
(* One inference request on its way to a backend: the header is normalized   *)
(* against the model's configuration, the body is split into one buffer of   *)
(* blocks per input, and a provider hands these blocks out, one at a time,   *)
(* to the backend that gathers a batch.  Bytes are counted in rows: a        *)
(* fixed-size input takes one token per row of the request's batch, a string *)
(* input one token per string.  A token names the request, the input and the *)
(* row it was sent for, so that a result tells whose data it was made of.    *)
EXTENDS Integers, Sequences, FiniteSets, SequencesExt, FiniteSetsExt

CONSTANTS
  Inputs,   \* names of inputs in the models' configurations
  Outputs,  \* names of the outputs in the models' configurations
  Controls, \* names of the sequence control inputs
  Strings,  \* the inputs and outputs of TYPE_STRING in a string model
  Unknown   \* a name the configuration does not have

ASSUME NamesApart ==
  /\ IsFiniteSet(Inputs) /\ IsFiniteSet(Outputs) /\ IsFiniteSet(Controls)
  /\ Strings \subseteq Inputs \cup Outputs
  /\ Inputs \cap Outputs = {}
  /\ Controls \cap (Inputs \cup Outputs) = {}
  /\ Unknown \notin Inputs \cup Outputs \cup Controls

(* What a request may look like.  "null" stands for the provider that the    *)
(* sequence batcher puts in the place of an idle slot.                       *)
Requests == [
  via     : {"http", "grpc", "null"},
  names   : Seq(Inputs \cup {Unknown}),   \* header inputs, in order
  batch   : Nat,
  dims    : {"given", "absent", "wrong"},
  sizes   : {"absent", "right", "wrong"}, \* batch_byte_size of the header
  cuts    : SUBSET Nat,                   \* block boundaries in an HTTP body
  body    : {"exact", "short", "long"},
  strings : {"each", "few", "many", "cut"},
  asks    : UNION {[S -> {"raw", "class"}] : S \in SUBSET (Outputs \cup {Unknown})}]

(* Tokens that are nobody's data.                                           *)
Zero  == <<0, "zero", 0>>    \* what an idle slot reads
Cut   == <<0, "cut", 0>>     \* a string whose bytes end too early
Junk  == <<0, "junk", 0>>    \* a row of memory nothing was copied to
Empty == <<0, "empty", 0>>   \* an empty string
Stale == <<0, "stale", 0>>   \* what an earlier batch left behind

(* Whether the input or output i of model m holds strings.                   *)
IsString(m, i) == m.string /\ i \in Strings

Tokens(p, i, n) == [k \in 1..n |-> <<p, i, k>>]

(* The sender's tokens for input i: a row each, but a string input may hold  *)
(* too few strings, too many, or a truncated last one.                       *)
Sent(m, r, p, i) ==
  CASE ~IsString(m, i) \/ r.strings = "each" -> Tokens(p, i, r.batch)
    [] IsString(m, i) /\ r.strings = "few"  -> Tokens(p, i, r.batch - 1)
    [] IsString(m, i) /\ r.strings = "many" -> Tokens(p, i, r.batch + 1)
    [] IsString(m, i) /\ r.strings = "cut"  -> Append(Tokens(p, i, r.batch - 1), Cut)

(* The size the normalized header states for input i.                        *)
ByteSize(m, r, p, i) == Len(Sent(m, r, p, i))

NormalizeRequestHeader(m, r) ==
  IF \/ r.batch < 1
     \/ r.batch # 1 /\ r.batch > m.max
     \/ Len(r.names) # Cardinality(m.inputs)
     \/ \E j \in DOMAIN r.names :
          \/ r.names[j] \notin m.inputs
          \/ r.dims = "wrong"
          \/ (r.dims = "absent" /\ m.variable)
          \/ (r.sizes = "wrong" /\ ~IsString(m, r.names[j]))
  THEN "invalid"
  ELSE "ok"

(* A buffer of an input: its data, and where the blocks end that it is made  *)
(* of.  An HTTP body gives to the j-th input what lies between the sizes of  *)
(* the inputs before it and its own, cut where the body's blocks are cut.    *)
EVBufferToInputMap(m, r, p) ==
  LET size(j) == ByteSize(m, r, p, r.names[j])
      before(j) == MapThenSumSet(size, 1..(j - 1))
      ends(j) == {n \in 1..size(j) : n = size(j) \/ before(j) + n \in r.cuts}
  IN  IF r.body # "exact" THEN [status |-> "invalid", blocks |-> <<>>]
      ELSE [status |-> "ok",
            blocks |-> [j \in DOMAIN r.names |->
                          [data |-> Sent(m, r, p, r.names[j]), ends |-> ends(j)]]]

(* A gRPC request carries one string of bytes per input.                     *)
GRPCInferRequestToInputMap(m, r, p) ==
  IF r.body # "exact" THEN [status |-> "invalid", blocks |-> <<>>]
  ELSE [status |-> "ok",
        blocks |-> [j \in DOMAIN r.names |->
                      [data |-> Sent(m, r, p, r.names[j]),
                       ends |-> {ByteSize(m, r, p, r.names[j])}]]]

(* The provider keeps the first buffer of each name, and checks its size     *)
(* against the header's.                                                     *)
Create(m, r, p, blocks) ==
  LET first(i) == Min({j \in DOMAIN r.names : r.names[j] = i})
      kept == [i \in {r.names[j] : j \in DOMAIN r.names} |-> blocks[first(i)]]
      short == \E i \in DOMAIN kept : ByteSize(m, r, p, i) # Len(kept[i].data)
  IN  [status |-> IF short THEN "invalid" ELSE "ok", buffers |-> kept]

(* The whole admission of request r as payload p of model m.  An idle slot   *)
(* has only the header of a request that was admitted to the batch before.   *)
Admitted(m, r, p) ==
  LET head == NormalizeRequestHeader(m, r)
      map  == IF r.via = "grpc" THEN GRPCInferRequestToInputMap(m, r, p)
              ELSE EVBufferToInputMap(m, r, p)
  IN  IF head # "ok" \/ r.via = "null" THEN [status |-> head, buffers |-> <<>>]
      ELSE IF map.status # "ok" THEN [status |-> map.status, buffers |-> <<>>]
      ELSE Create(m, r, p, map.blocks)

-----------------------------------------------------------------------------
(* Reading an input.  A provider is [null, buffers, at]: at is how much of   *)
(* each input has been handed out, always whole blocks, or whether the       *)
(* payload's override of a sequence control has.                             *)

Provider(r, buffers) ==
  [null |-> r.via = "null", buffers |-> buffers,
   at |-> [i \in Inputs \cup Controls |-> 0]]

Nothing(q) == [data |-> <<>>, at |-> q.at, status |-> "ok"]

(* GetNextInputContent called until want rows are read, the blocks are used  *)
(* up, or a block does not fit into the room left: what every backend does   *)
(* to copy a fixed-size input.  The block that does not fit is handed out,   *)
(* but not copied.                                                           *)
CopyBlocks(q, i, want, room) ==
  LET data  == q.buffers[i].data
      from  == q.at[i]
      ends  == {e \in q.buffers[i].ends : e > from}
      stops == {e \in ends : e - from = want \/ e - from > room}
      upto  == IF stops = {} THEN Len(data) ELSE Min(stops)
      over  == upto - from > room
      kept  == IF over THEN Max({from} \cup {e \in ends : e < upto}) ELSE upto
  IN  [data |-> SubSeq(data, from + 1, kept),
       at |-> [q.at EXCEPT ![i] = upto],
       status |-> IF over THEN "invalid"
                  ELSE IF upto - from # want THEN "internal" ELSE "ok"]

(* A control is handed out once, for the one row of the payload.             *)
GetInputOverrideContent(q, p, i, want) ==
  LET fresh == q.at[i] = 0
  IN  [data |-> IF fresh THEN Tokens(p, i, 1) ELSE <<>>,
       at |-> [q.at EXCEPT ![i] = 1],
       status |-> IF fresh /\ want = 1 THEN "ok" ELSE "internal"]

(* A payload that has no request reads as many zeros as are asked for, which *)
(* are as many empty strings.  The zeros behind the first 16 MB, which the   *)
(* buffer announces and does not have (provider.cc:254-257), are taken to be *)
(* there.                                                                    *)
NullContent(q, want) ==
  [data |-> [k \in 1..want |-> Zero], at |-> q.at, status |-> "ok"]

Content(q, p, i, want, room) ==
  IF want = 0 THEN Nothing(q)
  ELSE IF i \in Controls THEN GetInputOverrideContent(q, p, i, want)
  ELSE IF q.null THEN NullContent(q, want)
  ELSE IF i \notin DOMAIN q.buffers THEN [Nothing(q) EXCEPT !.status = "internal"]
  ELSE CopyBlocks(q, i, want, room)

(* GetNextInputContent with force_contiguous: all that is left, in one       *)
(* block; only an idle slot looks at how much is wanted.                     *)
ContiguousContent(q, i, want) ==
  IF q.null THEN NullContent(q, want)
  ELSE IF i \notin DOMAIN q.buffers THEN [Nothing(q) EXCEPT !.status = "internal"]
  ELSE LET data == q.buffers[i].data
       IN  [data |-> SubSeq(data, q.at[i] + 1, Len(data)),
            at |-> [q.at EXCEPT ![i] = Len(data)], status |-> "ok"]
=============================================================================
