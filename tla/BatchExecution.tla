--------------------------- MODULE BatchExecution ---------------------------
(* The execution of one batch by a backend: a model is loaded, requests are  *)
(* admitted as payloads, their inputs are gathered into one tensor per       *)
(* input, the framework runs, and every output is scattered over the         *)
(* payloads that asked for it.  Each backend has its own gathering and       *)
(* scattering code; a payload may fail at any point of it while the others   *)
(* go on.  A tensor is the sequence of its rows, a row the token it was      *)
(* copied from.                                                              *)
EXTENDS InferRequest

CONSTANTS
  Count,      \* payloads of a batch
  Kinds,      \* the requests considered
  Models,     \* the models considered
  FirstOut,   \* the output a TorchScript model returns at index 0
  Paired      \* the input that the identity library copies to each output

ASSUME CountIsPositive == Count \in Nat \ {0}
ASSUME KindsAreRequests == \A r \in Kinds : r \in Requests
ASSUME FirstOutIsOutput == FirstOut \in Outputs

Payloads == 1..Count

VARIABLES
  model,     \* [platform, inputs, given, made, string, sequence, variable, max,
             \*  groups, file]: inputs in the configuration, given and made in the
             \*  model file
  contexts,  \* the execution contexts created: the device of each
  phase,     \* "loading", "admitting", "starting", "gathering", "reading", "finishing", "done"
  request,   \* the request of each payload
  batch,     \* the payloads given to the runner, in order
  provider,  \* what each payload's request provider has handed out
  status,    \* the status of each payload
  todo,      \* the inputs to gather, then the outputs to read
  tensors,   \* the rows gathered for each input, in the order they were set
  produced,  \* the outputs the framework returned
  result,    \* the rows each payload got of each output
  verdict,   \* what Run returns: "ok" or an error for the whole batch
  fault      \* what the C++ program cannot recover from, "none" so far

vars == <<model, contexts, phase, request, batch, provider, status, todo,
          tensors, produced, result, verdict, fault>>

SizeOf(p) == request[p].batch
InBatch == {batch[n] : n \in DOMAIN batch}
Before(p) == {q \in InBatch : q < p}
Representative == batch[Len(batch)]
Named(p) == {request[p].names[j] : j \in DOMAIN request[p].names}

(* The rows of a batch: each payload's start behind those of the payloads    *)
(* before it, all of them or those that are counted.                         *)
RowsOf(S) == UNION {{p} \X (1..SizeOf(p)) : p \in S}
Behind(S) == Cardinality(RowsOf(S))
Offset(p) == Behind(Before(p))
Total == Behind(InBatch)
Owner(n) == CHOOSE p \in InBatch : n \in (Offset(p) + 1)..(Offset(p) + SizeOf(p))
Laid(rows) == [n \in 1..Total |-> rows[Owner(n)][n - Offset(Owner(n))]]

-----------------------------------------------------------------------------
(* Loading.                                                                  *)

(* A context per instance: the CPU, or each listed GPU, count times.         *)
Instances(groups) ==
  FlattenSeq([g \in DOMAIN groups |->
    FlattenSeq([c \in 1..groups[g].count |->
      IF groups[g].kind = "CPU" THEN <<"cpu">> ELSE groups[g].gpus])])

SequenceControls(m) == IF m.sequence THEN Controls ELSE {}

OnnxValidates(m) ==
  /\ SequenceControls(m) \subseteq m.given
  /\ Cardinality(m.given) = Cardinality(m.inputs) + Cardinality(SequenceControls(m))
  /\ m.inputs \subseteq m.given
  /\ Outputs \subseteq m.made

PlanBindsInputs(m) == m.inputs \subseteq m.given /\ SequenceControls(m) \subseteq m.given

PlanBindsOutputs(m) == Outputs \subseteq m.made

(* Every binding of the engine needs a buffer, and an instance needs a GPU.  *)
PlanValidates(m) ==
  /\ \A g \in DOMAIN m.groups : m.groups[g].kind = "GPU" /\ m.groups[g].gpus # <<>>
  /\ PlanBindsInputs(m) /\ PlanBindsOutputs(m)
  /\ m.given \subseteq m.inputs \cup SequenceControls(m)
  /\ m.made \subseteq Outputs
  /\ ~m.string

(* A graph lists only what could be an input or an output.                   *)
GraphDefValidates(m) == m.inputs \subseteq m.given /\ Outputs \subseteq m.made

SavedModelValidates(m) ==
  /\ SequenceControls(m) \subseteq m.given
  /\ Cardinality(m.given) = Cardinality(m.inputs) + Cardinality(SequenceControls(m))
  /\ m.inputs \subseteq m.given
  /\ Outputs \subseteq m.made

LibTorchValidates(m) == ~m.string

NetDefValidates(m) == m.inputs \subseteq m.given /\ Outputs \subseteq m.made /\ ~m.string

(* The identity library pairs each input with an output.                     *)
IdentityValidates(m) == Cardinality(m.inputs) = Cardinality(Outputs) /\ ~m.string

IsTf(m) == m.platform \in {"graphdef", "savedmodel"}

(* A context needs the model file, which a GPU of another compute capability *)
(* may have under another name, and a configuration that fits the model.     *)
OnnxCreateExecutionContext(m) == m.file /\ OnnxValidates(m)
PlanCreateExecutionContext(m) == m.file /\ PlanValidates(m)
TfCreateExecutionContext(m) ==
  m.file /\ IF m.platform = "graphdef" THEN GraphDefValidates(m) ELSE SavedModelValidates(m)
LibTorchCreateExecutionContext(m) == m.file /\ LibTorchValidates(m)
NetDefCreateExecutionContext(m) == m.file /\ NetDefValidates(m)
CustomCreateExecutionContext(m) == m.file /\ IdentityValidates(m)

ASSUME ModelsAreModels ==
  \A m \in Models :
    /\ m.platform \in {"onnx", "plan", "graphdef", "savedmodel", "libtorch", "netdef", "custom"}
    /\ m.inputs \subseteq Inputs /\ m.given \subseteq Inputs \cup Controls
    /\ {m.string, m.sequence, m.variable} \subseteq BOOLEAN /\ m.max \in Nat
    /\ m.platform = "libtorch" => m.given = m.inputs \cup SequenceControls(m)
    /\ m.platform = "custom" => \A o \in Outputs : Paired[o] \in m.inputs

CreateExecutionContext(m) ==
  CASE m.platform = "onnx" -> OnnxCreateExecutionContext(m)
    [] m.platform = "plan" -> PlanCreateExecutionContext(m)
    [] IsTf(m) -> TfCreateExecutionContext(m)
    [] m.platform = "libtorch" -> LibTorchCreateExecutionContext(m)
    [] m.platform = "netdef" -> NetDefCreateExecutionContext(m)
    [] m.platform = "custom" -> CustomCreateExecutionContext(m)

(* The contexts are created one by one; the first one that fails fails the   *)
(* load.                                                                     *)
CreateExecutionContexts ==
  /\ phase = "loading"
  /\ IF Instances(model.groups) = <<>> \/ CreateExecutionContext(model)
     THEN contexts' = Instances(model.groups) /\ phase' = "admitting"
     ELSE contexts' = <<>> /\ phase' = "done"
  /\ UNCHANGED <<model, request, batch, provider, status, todo, tensors, produced,
                 result, verdict, fault>>

(* The requests arrive one after the other; a sequence batcher takes only    *)
(* requests of one row, and its idle slots carry no request at all.          *)
Admit(p) ==
  LET r == request[p]
      a == Admitted(model, r, p)
      taken == a.status = "ok" /\ (model.sequence => r.batch = 1)
  IN  /\ phase = "admitting"
      /\ status[p] = "new" /\ \A q \in Payloads : q < p => status[q] # "new"
      /\ status' = [status EXCEPT ![p] = IF taken THEN "ok" ELSE "rejected"]
      /\ provider' = [provider EXCEPT ![p] = Provider(r, a.buffers)]
      /\ batch' = IF taken THEN Append(batch, p) ELSE batch
      /\ phase' = IF p = Count THEN "starting" ELSE phase
      /\ UNCHANGED <<model, contexts, request, todo, tensors, produced, result,
                     verdict, fault>>

-----------------------------------------------------------------------------
(* Gathering.                                                                *)

(* The inputs the framework is given: what the last payload's header and     *)
(* overrides name.                                                           *)
RepresentativeInputs == request[Representative].names \o SetToSeq(SequenceControls(model))

(* TensorFlow computes the outputs that some payload asks for, the other     *)
(* frameworks all outputs of the configuration.                              *)
Asked(p) == IF request[p].via = "null" THEN {} ELSE DOMAIN request[p].asks
RequiredOutputs == UNION {Asked(p) : p \in InBatch}

Fed == {tensors[t].input : t \in DOMAIN tensors}
FedOnce == Cardinality(Fed) = Len(tensors)

(* What the Run of each backend's context does: the inputs it sets, in       *)
(* order, whether the framework accepts them, whether the call throws an     *)
(* exception that nothing catches, the outputs it reads, and whether         *)
(* payloads in error are left out when outputs are read.                     *)
OnnxRun == [inputs |-> RepresentativeInputs, accepts |-> Fed = model.given /\ FedOnce,
            throws |-> FALSE, outputs |-> SetToSeq(Outputs), skips |-> FALSE]

(* TensorRT's bindings are the inputs of the engine.                         *)
PlanRun == [inputs |-> SetToSeq(model.given), accepts |-> TRUE,
            throws |-> FALSE, outputs |-> SetToSeq(Outputs), skips |-> TRUE]

TfRun == [inputs |-> RepresentativeInputs,
          accepts |-> Fed = model.given /\ FedOnce /\ RequiredOutputs \subseteq Outputs,
          throws |-> FALSE, outputs |-> SetToSeq(RequiredOutputs), skips |-> FALSE]

(* A TorchScript model with more than one input is called with an empty      *)
(* value for all but the first, and forward throws.                          *)
LibTorchRun ==
  [inputs |-> RepresentativeInputs, accepts |-> TRUE,
   throws |-> Len(request[Representative].names) # 1 \/ Cardinality(model.given) # 1,
   outputs |-> SetToSeq(Outputs), skips |-> FALSE]

NetDefRun == [inputs |-> RepresentativeInputs, accepts |-> TRUE,
              throws |-> FALSE, outputs |-> SetToSeq(Outputs), skips |-> FALSE]

(* A custom library reads the inputs it needs for the outputs asked for.     *)
ContextRun ==
  CASE model.platform = "onnx" -> OnnxRun
    [] model.platform = "plan" -> PlanRun
    [] IsTf(model) -> TfRun
    [] model.platform = "libtorch" -> LibTorchRun
    [] model.platform = "netdef" -> NetDefRun
    [] model.platform = "custom" -> [NetDefRun EXCEPT !.inputs = <<>>]

(* Run's checks, and the tensors still to be set.                            *)
Start ==
  /\ phase = "starting" /\ contexts # <<>>
  /\ IF batch = <<>>
     THEN phase' = "finishing" /\ UNCHANGED <<todo, verdict>>
     ELSE IF Total # 1 /\ Total > model.max
     THEN phase' = "finishing" /\ verdict' = "internal" /\ UNCHANGED todo
     ELSE phase' = "gathering" /\ todo' = ContextRun.inputs /\ UNCHANGED verdict
  /\ UNCHANGED <<model, contexts, request, batch, provider, status, tensors,
                 produced, result, fault>>

(* Where nothing was copied to, memory is as it was.                         *)
Padded(data, n, filler) == [k \in 1..n |-> IF k \in DOMAIN data THEN data[k] ELSE filler]

(* What is read of a payload that is to be read, and what of one in error.   *)
Copied(i, p, want, room) ==
  IF status[p] = "ok" THEN Content(provider[p], p, i, want, room)
  ELSE [Nothing(provider[p]) EXCEPT !.status = status[p]]

(* The loop that all backends have for fixed-size inputs: payloads in order, *)
(* each at the offset of those before it, those in error skipped but their   *)
(* rows left out.                                                            *)
CopyFixed(i, room) ==
  LET copy == [p \in InBatch |-> Copied(i, p, SizeOf(p), room[p])]
  IN  [rows |-> Laid([p \in InBatch |-> Padded(copy[p].data, SizeOf(p), Junk)]),
       copy |-> copy]

Gathered(i, g) ==
  /\ tensors' = Append(tensors, [input |-> i, rows |-> g.rows])
  /\ provider' = [p \in Payloads |-> IF p \in InBatch
                    THEN [provider[p] EXCEPT !.at = g.copy[p].at] ELSE provider[p]]
  /\ status' = [p \in Payloads |-> IF p \in InBatch THEN g.copy[p].status ELSE status[p]]

(* Room for a payload: what is left of the whole tensor, or its own share.   *)
Rest == [p \in InBatch |-> Total - Offset(p)]
Share == [p \in InBatch |-> SizeOf(p)]
Binding == [p \in InBatch |-> (IF model.max = 0 THEN 1 ELSE model.max) - Offset(p)]

OnnxSetInputBuffer(i) == CopyFixed(i, Share)
PlanCopyInput(i) == CopyFixed(i, Binding)
TfSetFixedSizedInputTensor(i) == CopyFixed(i, Rest)
LibTorchSetFixedSizedInputTensor(i) == CopyFixed(i, Rest)
NetDefSetFixedSizedInputTensor(i) == CopyFixed(i, Rest)

(* What parsing the strings of a payload yields: a length and as many bytes, *)
(* until the content is used up.                                             *)
Parsed(data, want) ==
  LET whole == IF \E k \in DOMAIN data : data[k] = Cut
               THEN Len(data) - 1 ELSE Len(data)
  IN  [strings |-> SubSeq(data, 1, IF whole < want THEN whole ELSE want),
       status |-> IF whole > want \/ whole < Len(data) THEN "invalid" ELSE "ok"]

(* TensorFlow strings: every payload is read whatever its status, and a      *)
(* payload without the input does not move the position of the next one.     *)
TfSetStringInputTensor(i) ==
  LET read == [p \in InBatch |-> ContiguousContent(provider[p], i, SizeOf(p))]
      present == {p \in InBatch : read[p].status = "ok"}
      parsed == [p \in InBatch |-> Parsed(read[p].data, SizeOf(p))]
      start(p) == Behind(Before(p) \cap present)
      writers(n) == {p \in InBatch : n \in (start(p) + 1)..(start(p) + SizeOf(p))}
      written(p) == Padded(IF p \in present THEN parsed[p].strings ELSE <<>>, SizeOf(p), Empty)
      outcome(p) == IF p \notin present THEN "internal"
                    ELSE IF parsed[p].status # "ok" THEN parsed[p].status
                    ELSE IF Len(parsed[p].strings) # SizeOf(p) THEN "internal" ELSE "ok"
  IN  [rows |-> [n \in 1..Total |->
                   IF writers(n) = {} THEN Empty
                   ELSE written(Max(writers(n)))[n - start(Max(writers(n)))]],
       copy |-> [p \in InBatch |-> [at |-> read[p].at, status |-> outcome(p)]]]

(* ONNX strings: the bytes of all payloads lie in one buffer, and a string   *)
(* is ended by the first byte of the size that follows it, which is cleared  *)
(* when that size is read.                                                   *)
OnnxSetStringInputBuffer(i) ==
  LET size(p) == ByteSize(model, request[p], p, i)
      copy == [p \in InBatch |-> Copied(i, p, size(p), size(p))]
      parsed == [p \in InBatch |-> IF copy[p].status = "ok"
                   THEN Parsed(copy[p].data, SizeOf(p))
                   ELSE [strings |-> <<>>, status |-> copy[p].status]]
      next(p) == {q \in InBatch : q > p /\ size(q) > 0}
      ended(p) == next(p) = {} \/ copy[Min(next(p))].status = "ok"
      strings(p) == [k \in DOMAIN parsed[p].strings |->
                       IF k = size(p) /\ ~ended(p) THEN Junk ELSE parsed[p].strings[k]]
  IN  [rows |-> Laid([p \in InBatch |-> Padded(strings(p), SizeOf(p), Empty)]),
       copy |-> [p \in InBatch |-> [at |-> copy[p].at, status |-> parsed[p].status]]]

OnnxSetInputTensor(i) ==
  IF IsString(model, i) THEN OnnxSetStringInputBuffer(i) ELSE OnnxSetInputBuffer(i)

TfSetInput(i) ==
  IF IsString(model, i) THEN TfSetStringInputTensor(i) ELSE TfSetFixedSizedInputTensor(i)

Gather(i) ==
  CASE model.platform = "plan" -> PlanCopyInput(i)
    [] model.platform = "onnx" -> OnnxSetInputTensor(i)
    [] model.platform = "libtorch" -> LibTorchSetFixedSizedInputTensor(i)
    [] model.platform = "netdef" -> NetDefSetFixedSizedInputTensor(i)
    [] IsTf(model) -> TfSetInput(i)

(* ONNX collects the string sizes of the payloads that name the input, and   *)
(* adds the last one collected for those that do not: with none collected it *)
(* reads in front of the vector; with fewer sizes than payloads the tensor   *)
(* gets too few strings, and the framework refuses it.                       *)
SizesMissing(i) ==
  /\ model.platform = "onnx" /\ IsString(model, i)
  /\ \E p \in InBatch : i \notin Named(p)

SetInput ==
  /\ phase = "gathering" /\ todo # <<>> /\ ~SizesMissing(Head(todo))
  /\ Gathered(Head(todo), Gather(Head(todo)))
  /\ todo' = Tail(todo)
  /\ UNCHANGED <<model, contexts, phase, request, batch, produced, result, verdict, fault>>

SetInputUnsized ==
  /\ phase = "gathering" /\ todo # <<>> /\ SizesMissing(Head(todo))
  /\ IF Head(todo) \notin Named(batch[1])
     THEN fault' = "size of no payload" /\ phase' = "done" /\ UNCHANGED verdict
     ELSE verdict' = "internal" /\ phase' = "finishing" /\ UNCHANGED fault
  /\ UNCHANGED <<model, contexts, request, batch, provider, status, todo, tensors,
                 produced, result>>

-----------------------------------------------------------------------------
(* Running the framework.                                                    *)

(* The row of input i at n: the tensor set last, or what an earlier batch    *)
(* left in the workspace.                                                    *)
Row(i, n) ==
  LET set == {t \in DOMAIN tensors : tensors[t].input = i}
  IN  IF set = {} THEN Stale ELSE tensors[Max(set)].rows[n]

(* A model maps the rows of its inputs to a row of each output.              *)
Computed(o, of) == [out |-> o, of |-> of]
Forward(o) == [n \in 1..Total |-> Computed(o, [i \in model.given |-> Row(i, n)])]

(* Every input and every output of a TorchScript model is taken to be the    *)
(* first: atoi reads the index from "__1".                                   *)
LibTorchForward(o) ==
  [n \in 1..Total |->
     Computed(FirstOut, [i \in model.given |-> tensors[Len(tensors)].rows[n]])]

Outcomes == {"good", "fails", "misshapen"}

Execute(outcome) ==
  /\ phase = "gathering" /\ todo = <<>> /\ model.platform # "custom"
  /\ IF ContextRun.throws
     THEN fault' = "uncaught exception" /\ phase' = "done" /\ UNCHANGED <<todo, produced, verdict>>
     ELSE IF outcome = "fails" \/ ~ContextRun.accepts
     THEN /\ verdict' = "internal" /\ phase' = "finishing"
          /\ produced' = [produced EXCEPT !.outcome = outcome]
          /\ UNCHANGED <<todo, fault>>
     ELSE /\ produced' = [outcome |-> outcome,
                          rows |-> [o \in Outputs |-> IF model.platform = "libtorch"
                                      THEN LibTorchForward(o) ELSE Forward(o)]]
          /\ todo' = ContextRun.outputs /\ phase' = "reading"
          /\ UNCHANGED <<verdict, fault>>
  /\ UNCHANGED <<model, contexts, request, batch, provider, status, tensors, result>>

(* A custom library is called once with all payloads.  It knows the shapes   *)
(* of the inputs that the first payload names; it reads an input when it is  *)
(* asked for the output, and sets an error code on the payload alone.        *)
CustomShapes == \A p \in InBatch : Named(p) \subseteq Named(batch[1])

IdentityExecute(p) ==
  LET known == Asked(p) \cap Outputs
      read == [o \in known |-> ContiguousContent(provider[p], Paired[o], SizeOf(p))]
  IN  [status |-> IF Unknown \in Asked(p) \/ \E o \in known : read[o].status # "ok"
                  THEN "internal" ELSE "ok",
       rows |-> [o \in known |-> [k \in DOMAIN read[o].data |->
                   Computed(o, [i \in {Paired[o]} |-> read[o].data[k]])]]]

ExecuteCustom(outcome) ==
  /\ phase = "gathering" /\ model.platform = "custom"
  /\ produced' = [produced EXCEPT !.outcome = outcome]
  /\ IF ~CustomShapes \/ outcome = "fails"
     THEN verdict' = "internal" /\ UNCHANGED <<status, result>>
     ELSE LET done == [p \in InBatch |-> IdentityExecute(p)]
          IN  /\ status' = [p \in Payloads |-> IF p \in InBatch THEN done[p].status ELSE status[p]]
              /\ result' = [p \in Payloads |-> IF p \in InBatch THEN done[p].rows ELSE result[p]]
              /\ UNCHANGED verdict
  /\ phase' = "finishing"
  /\ UNCHANGED <<model, contexts, request, batch, provider, todo, tensors, fault>>

-----------------------------------------------------------------------------
(* Scattering.                                                               *)

Portion(rows, offset, p) == [k \in 1..SizeOf(p) |-> rows[offset + k]]

OnnxSetFixedSizeOutputBufferGood(o, p) ==
  Portion(produced.rows[o], Behind({q \in Before(p) : status[q] = "ok"}), p)

OnnxSetFixedSizeOutputBuffer(o, p) == Portion(produced.rows[o], Offset(p), p)
OnnxSetStringOutputBuffer(o, p) == Portion(produced.rows[o], Offset(p), p)
OnnxReadOutputTensors(o, p) ==
  IF IsString(model, o) THEN OnnxSetStringOutputBuffer(o, p)
  ELSE OnnxSetFixedSizeOutputBuffer(o, p)
TfReadFixedSizedOutputTensor(o, p) == Portion(produced.rows[o], Offset(p), p)
TfReadStringOutputTensor(o, p) == Portion(produced.rows[o], Offset(p), p)
LibTorchReadFixedSizedOutputTensor(o, p) == Portion(produced.rows[o], Offset(p), p)
NetDefReadFixedSizedOutputTensor(o, p) == Portion(produced.rows[o], Offset(p), p)

(* TensorRT's bindings are copied back for the payloads that are still good, *)
(* and only those advance the position in the binding.                       *)
PlanReadOutput(o, p) ==
  Portion(produced.rows[o], Behind({q \in Before(p) : status[q] = "ok"}), p)

Read(o, p) ==
  CASE model.platform = "plan" -> PlanReadOutput(o, p)
    [] model.platform = "onnx" -> OnnxReadOutputTensors(o, p)
    [] IsTf(model) -> IF IsString(model, o) THEN TfReadStringOutputTensor(o, p)
                      ELSE TfReadFixedSizedOutputTensor(o, p)
    [] model.platform = "libtorch" -> LibTorchReadFixedSizedOutputTensor(o, p)
    [] model.platform = "netdef" -> NetDefReadFixedSizedOutputTensor(o, p)

(* Whether payload p is given output o: it asked for it and is not skipped.  *)
Receives(o, p) ==
  /\ p \in InBatch /\ o \in Asked(p)
  /\ ContextRun.skips => status[p] = "ok"

ReadOutput ==
  /\ phase = "reading" /\ todo # <<>>
  /\ result' = [p \in Payloads |-> IF Receives(Head(todo), p)
                  THEN [o \in DOMAIN result[p] \cup {Head(todo)} |->
                          IF o = Head(todo) THEN Read(o, p) ELSE result[p][o]]
                  ELSE result[p]]
  /\ todo' = Tail(todo)
  /\ phase' = IF Len(todo) = 1 THEN "finishing" ELSE phase
  /\ UNCHANGED <<model, contexts, request, batch, provider, status, tensors, produced,
                 verdict, fault>>

(* No output was asked for at all.                                           *)
ReadNothing ==
  /\ phase = "reading" /\ todo = <<>>
  /\ phase' = "finishing"
  /\ UNCHANGED <<model, contexts, request, batch, provider, status, todo, tensors,
                 produced, result, verdict, fault>>

(* The response of a payload: the shapes must be those of the configuration, *)
(* and classes need numbers.                                                 *)
FinalizeResponse(p) ==
  IF \E o \in DOMAIN result[p] :
       produced.outcome = "misshapen" \/ (request[p].asks[o] = "class" /\ IsString(model, o))
  THEN "invalid" ELSE "ok"

CompleteTogether ==
  /\ phase = "finishing"
  /\ status' = [p \in Payloads |->
       IF p \notin InBatch THEN status[p]
       ELSE IF verdict # "ok" \/ \E q \in InBatch : status[q] # "ok" THEN "internal"
       ELSE IF request[p].via = "null" THEN "ok" ELSE FinalizeResponse(p)]
  /\ phase' = "done"
  /\ UNCHANGED <<model, contexts, request, batch, provider, todo, tensors, produced,
                 result, verdict, fault>>

(* Each payload completes with its own error, or else with that of the run.  *)
Complete ==
  /\ phase = "finishing"
  /\ status' = [p \in Payloads |->
       CASE p \notin InBatch \/ status[p] # "ok" -> status[p]
         [] p \in InBatch /\ status[p] = "ok" /\ verdict # "ok" -> verdict
         [] OTHER -> IF request[p].via = "null" THEN "ok" ELSE FinalizeResponse(p)]
  /\ phase' = "done"
  /\ UNCHANGED <<model, contexts, request, batch, provider, todo, tensors, produced,
                 result, verdict, fault>>

-----------------------------------------------------------------------------
Init ==
  /\ model \in Models /\ request \in [Payloads -> Kinds]
  /\ \A p \in Payloads : request[p].via = "null" => model.sequence
  /\ contexts = <<>> /\ phase = "loading" /\ batch = <<>>
  /\ provider = [p \in Payloads |-> Provider(request[p], <<>>)]
  /\ status = [p \in Payloads |-> "new"]
  /\ todo = <<>> /\ tensors = <<>>
  /\ produced = [outcome |-> "good", rows |-> <<>>]
  /\ result = [p \in Payloads |-> <<>>]
  /\ verdict = "ok" /\ fault = "none"

Next ==
  \/ CreateExecutionContexts
  \/ \E p \in Payloads : Admit(p)
  \/ Start
  \/ SetInput \/ SetInputUnsized
  \/ \E outcome \in Outcomes : Execute(outcome) \/ ExecuteCustom(outcome)
  \/ ReadOutput \/ ReadNothing
  \/ Complete

Spec == Init /\ [][Next]_vars

-----------------------------------------------------------------------------
TypeOK ==
  /\ phase \in {"loading", "admitting", "starting", "gathering", "reading",
                "finishing", "done"}
  /\ status \in [Payloads -> {"new", "ok", "rejected", "invalid", "internal"}]
  /\ verdict \in {"ok", "internal"}
  /\ InBatch \subseteq Payloads

(* A payload's own inputs and controls, row by row, as the model sees them.  *)
OwnRow(o, p, k) ==
  LET of(i) == IF i \in Controls THEN <<p, i, 1>> ELSE <<p, i, k>>
      seen == IF model.platform = "custom" THEN {Paired[o]} ELSE model.given
  IN  Computed(o, [i \in seen |-> of(i)])
OwnRows(o, p) == [k \in 1..SizeOf(p) |-> OwnRow(o, p, k)]

InError(p) == status[p] \in {"invalid", "internal"}
Regular(p) == Named(p) = model.inputs

(* Whose data may be in a payload's response besides its own: the known      *)
(* deviations of the backends.                                               *)
Excused(p) ==
  CASE model.platform = "plan" -> \E q \in Before(p) : InError(q)
    [] IsTf(model) -> model.string /\ \E q \in Before(p) \cup {p} : ~Regular(q)
    [] model.platform = "onnx" ->
         model.string /\ (request[p].strings = "few" \/ \E q \in InBatch : InError(q))
    [] model.platform = "netdef" -> model.given # model.inputs \cup SequenceControls(model)
    [] OTHER -> FALSE

(* A request that succeeds gets the model's results for its own inputs, and  *)
(* for nobody else's, whatever becomes of the other payloads of the batch:   *)
(* the gathering and scattering of every backend agree on where a payload's  *)
(* rows are; but for the payloads in Excused, and for the outputs of a       *)
(* TorchScript model after the first.                                        *)
OwnResults ==
  phase = "done" /\ fault = "none" =>
    \A p \in InBatch :
      status[p] = "ok" /\ ~Excused(p) =>
        \A o \in Asked(p) \cap Outputs :
          \/ o \in DOMAIN result[p] /\ result[p][o] = OwnRows(o, p)
          \/ model.platform = "libtorch" /\ o # FirstOut

(* The same, of TensorRT, with no exception for the payloads that follow one *)
(* in error: "Skip payloads that had errors since they are not included in   *)
(* the dynamic batch".                                                       *)
SkippedPayloadsTakeNoRoom ==
  phase = "done" /\ model.platform = "plan" =>
    \A p \in InBatch : status[p] = "ok" =>
      \A o \in Asked(p) \cap Outputs : result[p][o] = OwnRows(o, p)

(* What is wrong with a request itself.                                      *)
OwnFault(p) ==
  \/ ~Regular(p)
  \/ model.string /\ request[p].strings # "each"
  \/ model.string /\ \E o \in Asked(p) \cap Strings : request[p].asks[o] = "class"
  \/ Unknown \in Asked(p)

(* What fails a batch as a whole: the framework, a header that stands for    *)
(* all payloads, a batch that is too large, a model that was not checked     *)
(* when it was loaded.                                                       *)
BatchFault ==
  \/ produced.outcome # "good"
  \/ Total > model.max /\ Total # 1
  \/ model.platform \notin {"plan", "custom"} /\ ~Regular(Representative)
  \/ model.platform = "custom" /\ ~Regular(batch[1])
  \/ model.platform = "onnx" /\ model.string /\ \E p \in InBatch : ~Regular(p)
  \/ IsTf(model) /\ Unknown \in RequiredOutputs
  \/ model.platform = "graphdef" /\ model.given # model.inputs \cup SequenceControls(model)

(* A request fails only by its own fault or with the whole batch: one        *)
(* client's truncated input does not fail the requests that happen to share  *)
(* its batch, and its misnamed input only as far as BatchFault says: as the  *)
(* header that stands for the others, or to an ONNX model of strings.        *)
ErrorsStayLocal ==
  phase = "done" /\ fault = "none" =>
    \A p \in InBatch : InError(p) => OwnFault(p) \/ BatchFault
=============================================================================
