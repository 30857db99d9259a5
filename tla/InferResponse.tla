---------------------------- MODULE InferResponse ----------------------------
(* Where the outputs of a request are stored until its response is sent      *)
(* (core/provider.cc, core/label_provider.cc, servers/http_server.cc): a     *)
(* buffer of the HTTP body, a message of the gRPC response, a buffer other   *)
(* steps of an ensemble read, or one an in-process caller reads; and how a   *)
(* classification is made of an output's values.                             *)
EXTENDS Integers, Sequences, FiniteSets, SequencesExt, FiniteSetsExt

(* What a request asks of an output: raw values, or a number of classes.     *)
Raw == [cls |-> FALSE, count |-> 0]
Classes(n) == [cls |-> TRUE, count |-> n]

(* Memory that was allocated and never written.                              *)
Unwritten == <<"unwritten", 0>>

(* asks are the outputs of the request's header.  body is the HTTP body,     *)
(* raw_output the messages of a gRPC response, shared the buffers other      *)
(* steps read.                                                               *)
NewResponse(via, asks) ==
  [via |-> via, asks |-> asks, outputs |-> <<>>, body |-> <<>>, raw_output |-> <<>>,
   shared |-> <<>>]

(* A provider is asked for room for an output, and the backend writes there. *)
(* "kept" is the buffer AddClassResults reads, "ptr" what an in-process      *)
(* caller is shown.                                                          *)
CheckAndSetIfBufferedOutput(r, name, data) ==
  [r EXCEPT !.outputs = Append(@,
     [name |-> name, count |-> r.asks[name].count, size |-> Len(data),
      kept |-> IF r.asks[name].cls THEN data ELSE <<>>,
      ptr |-> IF r.asks[name].cls THEN data ELSE <<>>])]

(* The last output: ptr, and the buffer of its classes.                      *)
Stored(r, kept, ptr) ==
  [r EXCEPT !.outputs[Len(r.outputs)].kept = kept, !.outputs[Len(r.outputs)].ptr = ptr]

Written(name, data, shared) ==
  [n \in DOMAIN shared \cup {name} |-> IF n = name THEN data ELSE shared[n]]

(* The internal provider hands out the shared buffer of an output also when  *)
(* classes are asked for, and leaves the buffer they are read from as it is. *)
InternalAllocate(r, name, data) ==
  LET checked == CheckAndSetIfBufferedOutput(r, name, data)
      kept == [k \in DOMAIN data |-> Unwritten]
  IN  [Stored(checked, IF r.asks[name].cls THEN kept ELSE <<>>, data) EXCEPT
         !.shared = Written(name, data, @)]

(* Every output has an entry among the raw outputs, empty for classes.       *)
GrpcAllocate(r, name, data) ==
  LET checked == CheckAndSetIfBufferedOutput(r, name, data)
  IN  IF r.asks[name].cls THEN [checked EXCEPT !.raw_output = Append(@, <<>>)]
      ELSE [Stored(checked, <<>>, data) EXCEPT !.raw_output = Append(@, data)]

HttpAllocate(r, name, data) ==
  LET checked == CheckAndSetIfBufferedOutput(r, name, data)
  IN  IF r.asks[name].cls THEN checked
      ELSE [Stored(checked, <<>>, data) EXCEPT !.body = @ \o data]

(* The in-process provider keeps the values whatever is asked for.           *)
DelegatingAllocate(r, name, data) ==
  Stored(CheckAndSetIfBufferedOutput(r, name, data), data, data)

(* An output that was not asked for, or shared at another size, is refused.  *)
AllocateOutputBuffer(r, name, data) ==
  IF name \notin DOMAIN r.asks THEN [ok |-> FALSE, r |-> r]
  ELSE IF r.via = "internal" /\ name \in DOMAIN r.shared /\ Len(r.shared[name]) # Len(data)
  THEN [ok |-> FALSE, r |-> CheckAndSetIfBufferedOutput(r, name, data)]
  ELSE [ok |-> TRUE,
        r |-> CASE r.via = "internal" -> InternalAllocate(r, name, data)
                [] r.via = "grpc" -> GrpcAllocate(r, name, data)
                [] r.via = "http" -> HttpAllocate(r, name, data)
                [] r.via = "delegating" -> DelegatingAllocate(r, name, data)]

OutputBufferContents(r, name) ==
  LET mine == SelectSeq(r.outputs, LAMBDA o : o.name = name /\ o.count = 0)
  IN  IF mine = <<>> THEN [ok |-> FALSE, data |-> <<>>]
      ELSE [ok |-> TRUE, data |-> mine[1].ptr]

GetSystemMemory(r, name) ==
  IF name \in DOMAIN r.shared THEN [ok |-> TRUE, data |-> r.shared[name]]
  ELSE [ok |-> FALSE, data |-> <<>>]

-----------------------------------------------------------------------------
(* Labels: labels[name] is the sequence of the lines of the output's file.   *)

NoLabel == ""

GetLabel(labels, name, idx) ==
  IF name \in DOMAIN labels /\ idx < Len(labels[name]) THEN labels[name][idx + 1] ELSE NoLabel

AddLabels(labels, name, lines) ==
  IF name \in DOMAIN labels THEN [ok |-> FALSE, labels |-> labels]
  ELSE [ok |-> TRUE, labels |-> Written(name, lines, labels)]

(* An ensemble looks a label up with the model that wrote the tensor when it *)
(* has none of its own: secondary maps the output to that model's labels and *)
(* its name there.                                                           *)
LabelOf(labels, secondary, name, idx) ==
  LET own == GetLabel(labels, name, idx)
  IN  IF own # NoLabel \/ name \notin DOMAIN secondary THEN own
      ELSE GetLabel(secondary[name].labels, secondary[name].name, idx)

(* The ways the indexes (from 0) of the values can be sorted: the order of   *)
(* equal values is open.                                                     *)
Rankings(probs) ==
  {idx \in [DOMAIN probs -> {i - 1 : i \in DOMAIN probs}] :
     /\ \A i, j \in DOMAIN probs : i # j => idx[i] # idx[j]
     /\ \A i, j \in DOMAIN probs : i < j => probs[idx[i] + 1] >= probs[idx[j] + 1]}

(* What may be answered for one row of the batch.                            *)
RowClasses(name, probs, count, labels, secondary) ==
  {[k \in 1..(IF count < Len(probs) THEN count ELSE Len(probs)) |->
      [idx |-> idx[k], value |-> probs[idx[k] + 1],
       label |-> LabelOf(labels, secondary, name, idx[k])]] : idx \in Rankings(probs)}

(* The classes of a batch: a row of "entries" values after the other.        *)
AddClassResults(name, values, entries, batch, count, labels, secondary) ==
  [i \in 1..batch |->
     RowClasses(name, SubSeq(values, (i - 1) * entries + 1, i * entries), count, labels, secondary)]

ClassTypes == {"UINT8", "UINT16", "UINT32", "UINT64", "INT8", "INT16", "INT32", "INT64", "FP32", "FP64"}

(* What the response's header says of an output: a number of raw values, or  *)
(* the values its classes are made of.                                       *)
HeaderOutput(o) ==
  [name |-> o.name, raw |-> o.count = 0, size |-> IF o.count = 0 THEN o.size ELSE 0,
   from |-> IF o.count = 0 THEN <<>> ELSE o.kept]
ResponseHeader(r) == [k \in DOMAIN r.outputs |-> HeaderOutput(r.outputs[k])]

(* The HTTP body ends with the header; a failed request has a body without   *)
(* data and a header with nothing but its identifier.                        *)
HttpFinalize(r, ok, id) ==
  IF ok THEN [code |-> 200, id |-> id, header |-> ResponseHeader(r), body |-> r.body]
  ELSE [code |-> 400, id |-> id, header |-> <<>>, body |-> <<>>]

-----------------------------------------------------------------------------
(* What these definitions promise, for two outputs of up to two values that  *)
(* a backend writes in either order.                                         *)

Values(name, n) == [k \in 1..n |-> <<name, k>>]
SomeAsks == [{"X", "Y"} -> {Raw, Classes(0), Classes(1)}]
SomeSizes == [{"X", "Y"} -> 0..2]
Answered(via, asks, sizes, order) ==
  FoldLeft(LAMBDA r, name : AllocateOutputBuffer(r, name, Values(name, sizes[name])).r,
           NewResponse(via, asks), order)

(* The client takes the raw outputs of an HTTP body one after the other, by  *)
(* their sizes in the header, and those of a gRPC response by position.      *)
ReadHttp(r, k) ==
  LET header == ResponseHeader(r)
      before == FoldLeft(LAMBDA n, o : n + o.size, 0, SubSeq(header, 1, k - 1))
  IN  SubSeq(r.body, before + 1, before + header[k].size)
ReadGrpc(r, k) == r.raw_output[k]

(* Every transport gives the client the values the backend wrote - unless a  *)
(* request asks for no class at all, which the header reports as raw values  *)
(* that no body carries.                                                     *)
ASSUME OutputsAgree ==
  \A asks \in SomeAsks, sizes \in SomeSizes, order \in {<<"X", "Y">>, <<"Y", "X">>} :
    LET http == Answered("http", asks, sizes, order)
        grpc == Answered("grpc", asks, sizes, order)
        inprocess == Answered("delegating", asks, sizes, order)
        counted == \A o \in {"X", "Y"} : asks[o] # Classes(0) \/ sizes[o] = 0
        read == \A k \in 1..2 : ~asks[order[k]].cls =>
                  /\ ReadHttp(http, k) = Values(order[k], sizes[order[k]])
                  /\ ReadGrpc(grpc, k) = Values(order[k], sizes[order[k]])
        fits == \A k \in 1..2 : ResponseHeader(grpc)[k].raw =>
                  Len(ReadGrpc(grpc, k)) = ResponseHeader(grpc)[k].size
    IN  /\ counted => read
        /\ fits <=> counted
        /\ ResponseHeader(http) = ResponseHeader(grpc)
        /\ \A o \in {"X", "Y"} : asks[o] = Raw =>
             OutputBufferContents(inprocess, o).data = Values(o, sizes[o])

(* The classes are made of the values the backend wrote, except those of the *)
(* step of an ensemble, which would be made of memory nobody wrote: steps    *)
(* never ask for classes.                                                    *)
ASSUME ClassesOfOutput ==
  \A sizes \in SomeSizes, via \in {"http", "grpc", "delegating", "internal"} :
    LET r == Answered(via, [o \in {"X", "Y"} |-> Classes(1)], sizes, <<"X", "Y">>)
    IN  \A k \in 1..2 :
          (ResponseHeader(r)[k].from = Values(r.outputs[k].name, r.outputs[k].size))
            <=> (via # "internal" \/ r.outputs[k].size = 0)

(* The classes of a row are its largest values, whichever way equal values   *)
(* are sorted, and a row's classes do not depend on the rows before it.      *)
ASSUME ClassesAreLargest ==
  \A values \in [1..4 -> 0..2], count \in 1..3 :
    LET answers == AddClassResults("X", values, 2, 2, count, <<>>, <<>>)
        row(i) == SubSeq(values, 2 * i - 1, 2 * i)
    IN  \A i \in 1..2 : \A classes \in answers[i] :
          /\ Len(classes) = IF count < 2 THEN count ELSE 2
          /\ \A k \in DOMAIN classes :
               Cardinality({j \in 1..2 : row(i)[j] > classes[k].value}) < k
=============================================================================
