--------------------------- MODULE ClientRequests ---------------------------
(***************************************************************************)
(* What the client library does with the data of a request (src/clients/   *)
(* c++/request_common.cc, request_http.cc, request_grpc.cc), as operators: *)
(* the inputs a user sets and the transport reads, the results that arrive *)
(* in pieces, and the outcome a call reports.                              *)
(*                                                                         *)
(* Bytes are cells of a sequence.  A string is a cell with its length and  *)
(* as many cells.                                                          *)
(***************************************************************************)
EXTENDS Naturals, Integers, Sequences, FiniteSets, SequencesExt, FiniteSetsExt

Done(x) == [ok |-> TRUE, x |-> x]
Refused(x) == [ok |-> FALSE, x |-> x]

-----------------------------------------------------------------------------
(* InferContext::Options: flags and requested outputs.                       *)

Flag(flags, f) == f # "none" /\ f \in flags
SetFlag(flags, f, value) ==
  IF f = "none" THEN flags ELSE IF value THEN flags \cup {f} ELSE flags \ {f}
AddResult(options, output, format) ==
  [options EXCEPT !.outputs = Append(@, [name |-> output, format |-> format])]

(* SetRunOptions: batch size 0 stands for 1.                                 *)
SetRunOptions(ctx, options) ==
  LET Larger(a, b) == IF a > b THEN a ELSE b
  IN  IF options.batch > Larger(1, ctx.max) THEN Refused(ctx)
      ELSE Done([ctx EXCEPT !.batch = Larger(1, options.batch),
                            !.outputs = options.outputs, !.flags = options.flags,
                            !.inputs = [i \in DOMAIN @ |->
                                         [@[i] EXCEPT !.batch = Larger(1, options.batch)]]])

-----------------------------------------------------------------------------
(* InputImpl.                                                                *)

(* size is -1 until the shape of a variable-size input is set.               *)
NewInput(type, size) ==
  [type |-> type, size |-> size, needs_shape |-> size = -1, batch |-> 1,
   bufs |-> <<>>, total |-> 0, idx |-> 1, pos |-> 0]

SetShape(x, dims, size) ==
  IF \E d \in ToSet(dims) : d < 0 THEN Refused(x)
  ELSE Done([x EXCEPT !.needs_shape = FALSE, !.size = size])

(* A refusal drops the buffers but not the total they were counted in.       *)
Dropped(x) == [x EXCEPT !.bufs = <<>>]

SetRaw(x, data) ==
  IF \/ x.needs_shape
     \/ x.type = "fixed" /\ Len(data) # x.size
     \/ Len(x.bufs) >= x.batch
  THEN Refused(Dropped(x))
  ELSE Done([x EXCEPT !.total = @ + Len(data), !.bufs = Append(@, data)])

Serialized(strings) == FlattenSeq([i \in DOMAIN strings |-> <<Len(strings[i])>> \o strings[i]])

SetFromString(x, strings) ==
  IF x.type # "string" THEN Refused(Dropped(x))
  ELSE IF x.needs_shape THEN Refused(x)
  ELSE IF Len(strings) # x.size THEN Refused(Dropped(x))
  ELSE SetRaw(x, Serialized(strings))

Reset(x) == [x EXCEPT !.bufs = <<>>, !.idx = 1, !.pos = 0, !.total = 0]

PrepareForRequest(x) ==
  IF Len(x.bufs) # x.batch THEN Refused(x) ELSE Done([x EXCEPT !.idx = 1, !.pos = 0])

GetRaw(x, batch_idx) == IF batch_idx > x.batch THEN Refused(<<>>) ELSE Done(x.bufs[batch_idx])

(* GetNext: at most size cells from where the last call stopped.             *)
GetNext(x, size) ==
  LET rest == FlattenSeq(SubSeq(x.bufs, x.idx, Len(x.bufs)))
      from == SubSeq(rest, x.pos + 1, Len(rest))
      bytes == SubSeq(from, 1, IF size < Len(from) THEN size ELSE Len(from))
      before(n) == Len(FlattenSeq(SubSeq(x.bufs, 1, n)))
      at == before(x.idx - 1) + x.pos + Len(bytes)
      idx == IF size = 0 THEN x.idx
             ELSE 1 + Cardinality({n \in DOMAIN x.bufs : before(n) <= at})
  IN  [x |-> [x EXCEPT !.idx = idx, !.pos = at - before(idx - 1)],
       bytes |-> bytes, end |-> idx > Len(x.bufs)]

(* HttpRequestImpl::GetNextInput: input after input, as much as fits.        *)
GetNextInput(req, size) ==
  LET step(r, i) ==
        IF r.left = 0 \/ i < r.req.at THEN r
        ELSE LET g == GetNext(r.req.inputs[i], r.left)
             IN  [req |-> [r.req EXCEPT !.inputs[i] = g.x,
                                        !.at = IF g.end THEN i + 1 ELSE i],
                  left |-> r.left - Len(g.bytes), bytes |-> r.bytes \o g.bytes]
  IN  FoldLeft(step, [req |-> req, left |-> size, bytes |-> <<>>],
               [i \in DOMAIN req.inputs |-> i])

(* PreRunProcessing over HTTP: the inputs are rewound, and the size of the   *)
(* body is announced; that an input is incomplete is not noticed.            *)
HttpPreRunProcessing(inputs) ==
  [inputs |-> [i \in DOMAIN inputs |-> PrepareForRequest(inputs[i]).x],
   at |-> 1,
   announced |-> FoldLeft(LAMBDA n, x : n + x.total, 0, inputs)]

(* Over gRPC the body is put together at once, batch entry after entry.      *)
GrpcPreRunProcessing(inputs, batch) ==
  [i \in DOMAIN inputs |->
     FlattenSeq([b \in 1..batch |-> GetRaw(PrepareForRequest(inputs[i]).x, b).x])]

-----------------------------------------------------------------------------
(* ResultImpl.                                                               *)

(* size is the bytes of one batch entry of a fixed-size type, or -1.         *)
NewResult(format, size, elements, batch) ==
  [format |-> format, size |-> size, elements |-> elements,
   bufs |-> [b \in 1..batch |-> <<>>], idx |-> 1, inplace |-> FALSE, pending |-> <<>>,
   pos |-> [b \in 1..batch |-> 0]]

(* SetBatchRawResult: fill the batch entries one after the other.            *)
SetBatchRawResult(r, size, data) ==
  IF size = 0 THEN [r |-> [r EXCEPT !.idx = Len(r.bufs) + 1], taken |-> 0]
  ELSE LET fill(a, b) ==
             LET n == size - Len(a.r.bufs[b])
                 got == SubSeq(a.rest, 1, IF n < Len(a.rest) THEN n ELSE Len(a.rest))
             IN  IF b < a.r.idx \/ got = <<>> THEN a
                 ELSE [r |-> [a.r EXCEPT !.bufs[b] = @ \o got,
                                         !.idx = IF Len(got) = n THEN b + 1 ELSE b],
                       rest |-> SubSeq(a.rest, Len(got) + 1, Len(a.rest))]
           all == FoldLeft(fill, [r |-> r, rest |-> data], [b \in DOMAIN r.bufs |-> b])
       IN  [r |-> all.r, taken |-> Len(data) - Len(all.rest)]

(* Where the first n strings in data end; past its end, one more.            *)
Ends(data, n) ==
  FoldLeft(LAMBDA e, k :
             LET off == IF e = <<>> THEN 0 ELSE e[Len(e)]
             IN  Append(e, IF off >= Len(data) THEN Len(data) + 1
                           ELSE LET to == off + 1 + data[off + 1]
                                IN  IF to > Len(data) THEN Len(data) + 1 ELSE to),
           <<>>, [k \in 1..n |-> k])

(* SetNextRawResult: strings are kept until those of the whole batch are     *)
(* there; what is not taken belongs to the next output.                      *)
SetNextStrings(r, data) ==
  LET batch == Len(r.bufs)
      whole == r.pending \o data
      ends == Ends(whole, batch * r.elements)
      end(b) == IF b * r.elements = 0 THEN 0 ELSE ends[b * r.elements]
  IN  IF r.idx > batch THEN [r |-> r, taken |-> 0]
      ELSE IF end(batch) > Len(whole)
      THEN [r |-> [r EXCEPT !.pending = whole], taken |-> Len(data)]
      ELSE [r |-> [r EXCEPT !.pending = <<>>, !.idx = batch + 1,
                     !.bufs = [b \in 1..batch |-> SubSeq(whole, end(b - 1) + 1, end(b))]],
            taken |-> Len(data) - (Len(whole) - end(batch))]

SetNextRawResult(r, data, inplace) ==
  IF inplace /\ r.inplace THEN [r |-> r, taken |-> 0, ok |-> FALSE]
  ELSE LET x == [r EXCEPT !.inplace = inplace]
           s == IF r.size # -1 THEN SetBatchRawResult(x, r.size, data) ELSE SetNextStrings(x, data)
       IN  [r |-> s.r, taken |-> s.taken, ok |-> TRUE]

(* GetRaw and its cursor, GetClassCount and GetClassAtCursor.                *)
GetRawResult(r, b) ==
  IF r.format # "raw" \/ b > Len(r.bufs) THEN Refused(<<>>) ELSE Done(r.bufs[b])

GetRawAtCursor(r, b, n) ==
  IF r.format # "raw" \/ b > Len(r.bufs) THEN Refused(r)
  ELSE IF r.pos[b] + n > Len(r.bufs[b]) THEN Refused(r)
  ELSE Done([r EXCEPT !.pos[b] = @ + n])

(* A string at the cursor: its length, which stays read if the rest of it    *)
(* is not there.                                                             *)
GetStringAtCursor(r, b) ==
  LET len == GetRawAtCursor(r, b, 1)
  IN  IF ~len.ok THEN Refused(r) ELSE GetRawAtCursor(len.x, b, r.bufs[b][r.pos[b] + 1])

GetClassCount(r, classes, b) ==
  IF r.format # "class" \/ b > Len(classes) \/ b > Len(r.bufs) THEN Refused(0)
  ELSE Done(Len(classes[b]))

GetClassAtCursor(r, classes, b) ==
  IF r.format # "class" \/ b > Len(classes) \/ b > Len(r.bufs) THEN Refused(r)
  ELSE IF r.pos[b] >= Len(classes[b]) THEN Refused(r)
  ELSE Done([r EXCEPT !.pos[b] = @ + 1])

ResetCursors(r) == [r EXCEPT !.pos = [b \in DOMAIN r.pos |-> 0]]

(* HttpRequestImpl::SetNextRawResult: a piece of the body goes to the        *)
(* outputs in their order, the rest to the header behind them.               *)
HttpSetNextRawResult(resp, data) ==
  LET step(a, i) ==
        IF a.rest = <<>> \/ i < a.resp.at THEN a
        ELSE LET r == a.resp.results[i]
                 s == SetNextRawResult(r, a.rest, FALSE)
             IN  IF r.format # "raw" THEN [a EXCEPT !.resp.at = i + 1]
                 ELSE [resp |-> [a.resp EXCEPT !.results[i] = s.r,
                                   !.at = IF s.taken < Len(a.rest) THEN i + 1 ELSE i],
                       rest |-> SubSeq(a.rest, s.taken + 1, Len(a.rest))]
      a == FoldLeft(step, [resp |-> resp, rest |-> data], [i \in DOMAIN resp.results |-> i])
  IN  [a.resp EXCEPT !.header = @ \o a.rest]

(* GrpcRequestImpl::InitResult: the whole output at once, in place.          *)
InitResult(r, raws, i) ==
  IF r.format # "raw" THEN Done(r)
  ELSE IF Len(raws) < i THEN Refused(r)
  ELSE LET s == SetNextRawResult(r, raws[i], TRUE)
       IN  IF s.ok /\ s.taken = Len(raws[i]) THEN Done(s.r) ELSE Refused(s.r)

-----------------------------------------------------------------------------
(* Outcomes.                                                                 *)

(* The status headers of a response: absent or unreadable is "invalid".      *)
ResponseHeaderHandler(header) == IF header \in {"success", "failed"} THEN header ELSE "invalid"

(* InferHttpContextImpl::ResponseHeaderHandler: the header that announces    *)
(* the outputs; one the model does not have, and the header counts as absent *)
(* while the results made so far stay.                                       *)
CreateResults(outputs, known) ==
  [announced |-> outputs # <<>> /\ ToSet(outputs) \subseteq known,
   results |-> SelectSeq(outputs, LAMBDA o : o \in known)]

GetResults(curl, code, status, announced, header) ==
  IF curl # "ok" THEN "internal"
  ELSE LET s == IF status = "invalid" \/ (status = "success" /\ ~announced)
                THEN "internal" ELSE status
       IN  IF s # "success" THEN s
           ELSE IF code # 200 THEN "success, without results"
           ELSE IF header = <<>> THEN "internal" ELSE "success"

GrpcGetResults(rpc, status, results) ==
  IF rpc # "ok" THEN "internal"
  ELSE IF status # "success" THEN status
  ELSE IF \E r \in results : ~r.ok THEN "invalid" ELSE "success"

(* Health, status and profile over HTTP and over gRPC.                       *)
HttpGetHealth(curl, code) == IF curl # "ok" THEN Refused(FALSE) ELSE Done(code = 200)
GrpcGetHealth(rpc, status, health) == [ok |-> rpc = "ok" /\ status = "success", x |-> health]

HttpGetServerStatus(curl, code, header, parsed) ==
  LET s == ResponseHeaderHandler(header)
  IN  IF curl # "ok" \/ s = "invalid" THEN "internal"
      ELSE IF s # "success" \/ code # 200 THEN s
      ELSE IF parsed THEN s ELSE "internal"
GrpcGetServerStatus(rpc, status) == IF rpc # "ok" THEN "internal" ELSE status

HttpSendCommand(curl, header) ==
  LET s == ResponseHeaderHandler(header)
  IN  IF curl # "ok" \/ s = "invalid" THEN "internal" ELSE s
GrpcSendCommand(rpc, status) == IF rpc # "ok" THEN "internal" ELSE status

(* UpdateStat: a request whose timers are out of order is not counted.       *)
UpdateStat(stat, timer) ==
  IF \E k \in {"request", "send", "receive"} : timer[k][1] > timer[k][2] THEN Refused(stat)
  ELSE Done([count |-> stat.count + 1,
             request |-> stat.request + (timer.request[2] - timer.request[1]),
             send |-> stat.send + (timer.send[2] - timer.send[1]),
             receive |-> stat.receive + (timer.receive[2] - timer.receive[1])])
RequestTimers == [k \in {"request", "send", "receive"} |-> <<0, 0>>]

(* InferContextImpl::Init: the inputs and outputs of the served model, and   *)
(* never a batch size below zero.                                            *)
InitContext(status, model) ==
  IF model \notin DOMAIN status THEN Refused(<<>>)
  ELSE Done([max |-> IF status[model].max < 0 THEN 0 ELSE status[model].max,
             inputs |-> status[model].inputs, outputs |-> <<>>, flags |-> {}, batch |-> 0])

-----------------------------------------------------------------------------
(* Reference definitions, checked over all cases of a small size.            *)

Splits(s) == {<<SubSeq(s, 1, i), SubSeq(s, i + 1, j), SubSeq(s, j + 1, Len(s))>> :
                i \in 0..Len(s), j \in 0..Len(s)}
Pieces(s) == {p \in Splits(s) : FlattenSeq(p) = s}
Words == {<<>>, <<7>>, <<8, 9>>}

(* However small the pieces libcurl asks for, what the transport reads of an *)
(* input is what was set, and the end is reported with the last piece.       *)
Filled(a, b) ==
  LET x == [NewInput("string", 1) EXCEPT !.batch = 2]
  IN  SetFromString(SetFromString(x, <<a>>).x, <<b>>)

ASSUME InputsReadBack ==
  \A a, b \in Words, n, m \in 1..4 :
    LET set == Filled(a, b)
        req == HttpPreRunProcessing(<<set.x, set.x>>)
        body == Serialized(<<a, b, a, b>>)
        one == GetNextInput(req, n)
        two == GetNextInput(one.req, m)
        last == GetNextInput(two.req, Len(body))
    IN  /\ set.ok /\ req.announced = Len(body)
        /\ one.bytes \o two.bytes \o last.bytes = body
        /\ last.req.at = 3
        /\ GrpcPreRunProcessing(<<set.x>>, 2) = <<Serialized(<<a, b>>)>>

(* A refused SetRaw leaves an input whose announced size is larger than what *)
(* can be read of it, until Reset.                                           *)
ASSUME RefusalKeepsTotal ==
  \A a, b \in Words :
    LET third == SetFromString(Filled(a, b).x, <<a>>)
    IN  /\ ~third.ok
        /\ HttpPreRunProcessing(<<third.x>>).announced > Len(GetNext(third.x, 9).bytes)
        /\ Reset(third.x).total = 0

(* However the body is cut into pieces, every output gets its bytes, each    *)
(* batch entry its own, and the header behind them is complete.              *)
ASSUME ResultsReadBack ==
  \A a, b \in Words :
    LET strings == Serialized(<<a, b>>)
        body == strings \o <<1, 2, 3, 4>> \o <<5, 6>>
        resp == [at |-> 1, header |-> <<>>,
                 results |-> <<NewResult("raw", -1, 1, 2), NewResult("class", -1, 1, 2),
                               NewResult("raw", 2, 2, 2)>>]
    IN  \A p \in Pieces(body) :
          LET all == FoldLeft(HttpSetNextRawResult, resp, p)
          IN  /\ all.results[1].bufs = <<Serialized(<<a>>), Serialized(<<b>>)>>
              /\ GetStringAtCursor(all.results[1], 2).x.pos[2] = 1 + Len(b)
              /\ all.results[3].bufs = <<<<1, 2>>, <<3, 4>>>>
              /\ all.header = <<5, 6>>
              /\ InitResult(resp.results[1], <<strings>>, 1).x.bufs = all.results[1].bufs

(* Only a request that succeeded everywhere counts as one with results.      *)
ASSUME OutcomesAgree ==
  \A curl \in {"ok", "failed"}, code \in {200, 400, 500},
     status \in {"success", "failed", "garbled"}, announced \in BOOLEAN,
     header \in {<<>>, <<1>>} :
    LET got == GetResults(curl, code, ResponseHeaderHandler(status), announced, header)
    IN  got = "success" <=> /\ curl = "ok" /\ code = 200 /\ status = "success"
                            /\ announced /\ header # <<>>
=============================================================================
