---------------------------- MODULE ModelConfig ----------------------------
(***************************************************************************)
(* The configuration of a model: sizes and shapes (core/model_config.cc),  *)
(* completion and validation (core/model_config_utils.cc), and its         *)
(* derivation from the model's files (core/autofill.cc and the autofill.cc *)
(* of the backends), as operators.                                         *)
(*                                                                         *)
(* A field of the message that may be absent is the empty sequence or the  *)
(* sequence of its one value.  Names, files and data types are strings.    *)
(***************************************************************************)
EXTENDS Integers, Sequences, FiniteSets, SequencesExt, FiniteSetsExt

Absent == <<>>
Given(v) == <<v>>
Value(field) == field[1]
Has(field) == field # Absent

Checked(bad, code) == IF bad THEN code ELSE "SUCCESS"
FirstError(checks) ==
  LET errors == SelectSeq(checks, LAMBDA s : s # "SUCCESS")
  IN  IF errors = <<>> THEN "SUCCESS" ELSE errors[1]

Outcome(status, config) == [status |-> status, config |-> config]

-----------------------------------------------------------------------------
(* Sizes and shapes.                                                         *)

WILDCARD_DIM == -1

GetDataTypeByteSize ==
  [BOOL |-> 1, UINT8 |-> 1, UINT16 |-> 2, UINT32 |-> 4, UINT64 |-> 8, INT8 |-> 1,
   INT16 |-> 2, INT32 |-> 4, INT64 |-> 8, FP16 |-> 2, FP32 |-> 4, FP64 |-> 8,
   STRING |-> 0, INVALID |-> 0]

IsFixedSizeDataType(type) == type # "STRING"

(* No dimension counts no element, not one.                                  *)
GetElementCount(dims) ==
  IF WILDCARD_DIM \in ToSet(dims) THEN -1
  ELSE IF dims = <<>> THEN 0 ELSE FoldLeft(LAMBDA n, d : n * d, 1, dims)

GetByteSize(type, dims) ==
  IF GetDataTypeByteSize[type] = 0 \/ GetElementCount(dims) = -1
  THEN -1 ELSE GetElementCount(dims) * GetDataTypeByteSize[type]

GetBatchByteSize(batch, type, dims) ==
  IF dims = <<>> THEN batch * GetDataTypeByteSize[type]
  ELSE IF GetByteSize(type, dims) = -1 THEN -1
  ELSE (IF batch > 1 THEN batch ELSE 1) * GetByteSize(type, dims)

CompareDims(a, b) == a = b
CompareDimsWithWildcard(a, b) ==
  /\ Len(a) = Len(b)
  /\ \A i \in DOMAIN a : a[i] = WILDCARD_DIM \/ b[i] = WILDCARD_DIM \/ a[i] = b[i]

GetCpuNiceLevel(c) ==
  IF ~Has(c.optimization) THEN 5
  ELSE CASE Value(c.optimization) = "PRIORITY_MAX" -> 0
         [] Value(c.optimization) = "PRIORITY_MIN" -> 19
         [] OTHER -> 5

-----------------------------------------------------------------------------
(* Platforms and versions.                                                   *)

DefaultFilename ==
  [tensorflow_graphdef |-> "model.graphdef", tensorflow_savedmodel |-> "model.savedmodel",
   tensorrt_plan |-> "model.plan", caffe2_netdef |-> "model.netdef",
   custom |-> "libcustom.so", ensemble |-> "", onnxruntime_onnx |-> "model.onnx",
   pytorch_libtorch |-> "model.pt"]

GetPlatform(platform) == IF platform \in DOMAIN DefaultFilename THEN platform ELSE "unknown"

(* A version directory is named by the number it stands for: "digits" maps   *)
(* the names SimpleAtoi reads to their numbers.                              *)
GetModelVersionFromPath(dir, digits) ==
  IF dir \in DOMAIN digits THEN [status |-> "SUCCESS", version |-> digits[dir]]
  ELSE [status |-> "INTERNAL", version |-> 0]

-----------------------------------------------------------------------------
(* The control tensors of sequence batching.                                 *)

WellFormedControl(c) ==
  \/ Len(c.int32) = 2 /\ c.fp32 = <<>>
  \/ c.int32 = <<>> /\ Len(c.fp32) = 2

Mentions(controls, kind) ==
  {<<i, j>> \in UNION {{i} \X DOMAIN controls[i].control : i \in DOMAIN controls} :
      controls[i].control[j].kind = kind}

(* The tensor that carries a kind of control, its type and its two values.   *)
(* A kind that is not required and not mentioned has the empty name.         *)
GetSequenceControlProperties(controls, kind, required) ==
  LET mentions == Mentions(controls, kind)
      NoControl(status) == [status |-> status, tensor |-> "", type |-> "INVALID", values |-> <<>>]
  IN  IF \/ \E i \in DOMAIN controls :
              \/ controls[i].name = ""
              \/ \E k \in 1..(i - 1) : controls[k].name = controls[i].name
         \/ Cardinality(mentions) > 1
         \/ \E m \in mentions : ~WellFormedControl(controls[m[1]].control[m[2]])
         \/ required /\ mentions = {}
      THEN NoControl("INVALID_ARG")
      ELSE IF mentions = {} THEN NoControl("SUCCESS")
      ELSE LET m == CHOOSE m \in mentions : TRUE
               control == controls[m[1]].control[m[2]]
           IN  [status |-> "SUCCESS", tensor |-> controls[m[1]].name,
                type |-> IF control.int32 # <<>> THEN "INT32" ELSE "FP32",
                values |-> IF control.int32 # <<>> THEN control.int32 ELSE control.fp32]

-----------------------------------------------------------------------------
(* Completion.  devices is what cudaGetDeviceCount answers, -1 for an error. *)

EmptyConfig ==
  [name |-> "", platform |-> "", filename |-> "", max_batch |-> 0, policy |-> Absent,
   dynamic |-> Absent, sequence |-> Absent, ensemble |-> Absent, optimization |-> Absent,
   groups |-> <<>>, input |-> <<>>, output |-> <<>>]

NewGroup(name) == [name |-> name, kind |-> "AUTO", count |-> 0, gpus |-> <<>>]

NormalKind(g, devices) ==
  IF g.kind # "AUTO" THEN g.kind
  ELSE IF devices = 0 \/ \E d \in ToSet(g.gpus) : d < 0 \/ d >= devices THEN "CPU" ELSE "GPU"

NormalGroup(g, name, devices) ==
  LET kind == NormalKind(g, devices)
  IN  [name |-> IF g.name = "" THEN name ELSE g.name,
       kind |-> kind,
       count |-> IF g.count < 1 THEN 1 ELSE g.count,
       gpus |-> IF kind = "GPU" /\ g.gpus = <<>>
                THEN [d \in 1..devices |-> d - 1] ELSE g.gpus]

(* The name of a group without one ends with its position.                   *)
Numbered(name, n) == name \o "_" \o ToString(n)

NormalGroups(c, devices) ==
  LET groups == IF c.groups = <<>> THEN <<NewGroup(c.name)>> ELSE c.groups
  IN  [i \in DOMAIN groups |-> NormalGroup(groups[i], Numbered(c.name, i - 1), devices)]

PreferredSizes(c) ==
  IF ~Has(c.dynamic) \/ Value(c.dynamic) # <<>> THEN c.dynamic
  ELSE Given(SelectSeq(<<4, 8>>, LAMBDA size : size <= c.max_batch))

SequenceIdle(c) ==
  IF Has(c.sequence) /\ Value(c.sequence).idle = 0
  THEN Given([Value(c.sequence) EXCEPT !.idle = 1000000]) ELSE c.sequence

Normalize(c, devices) ==
  LET status == FirstError(<<
        Checked(c.platform = "", "INVALID_ARG"),
        Checked(c.filename = "" /\ GetPlatform(c.platform) = "unknown", "INTERNAL"),
        Checked(~Has(c.ensemble) /\ devices < 0, "INTERNAL")>>)
  IN  IF status # "SUCCESS" THEN Outcome(status, c)
      ELSE Outcome("SUCCESS",
             [c EXCEPT !.filename = IF @ = "" THEN DefaultFilename[c.platform] ELSE @,
                       !.policy = IF Has(@) THEN @ ELSE Given("latest 1"),
                       !.dynamic = PreferredSizes(c),
                       !.sequence = SequenceIdle(c),
                       !.groups = IF Has(c.ensemble) THEN @ ELSE NormalGroups(c, devices)])

-----------------------------------------------------------------------------
(* Validation.                                                               *)

ValidateModelOutput(io, max_batch) ==
  LET shape == Value(io.reshape)
      AtLeastOne(n) == IF n > 1 THEN n ELSE 1
  IN  Checked(\/ io.name = "" \/ io.type = "INVALID" \/ io.dims = <<>>
              \/ \E d \in ToSet(io.dims) : d < 1 /\ d # WILDCARD_DIM
              \/ /\ Has(io.reshape)
                 /\ \/ shape = <<>> /\ max_batch = 0
                    \/ WILDCARD_DIM \in ToSet(io.dims)
                    \/ \E d \in ToSet(shape) : d <= 0
                    \/ GetElementCount(io.dims) # AtLeastOne(GetElementCount(shape)),
              "INVALID_ARG")

ValidateModelInput(io, max_batch) ==
  FirstError(<<ValidateModelOutput(io, max_batch),
               Checked(io.format \in {"NHWC", "NCHW"} /\ Len(io.dims) # 3, "INVALID_ARG")>>)

CheckAllowed(io, allowed) == Checked(io.name \notin allowed, "INVALID_ARG")

ValidateDynamic(c) ==
  Checked(Has(c.dynamic) /\ \E s \in ToSet(Value(c.dynamic)) : s <= 0 \/ s > c.max_batch,
          "INVALID_ARG")

ValidateSequence(c) ==
  IF ~Has(c.sequence) THEN "SUCCESS"
  ELSE LET controls == Value(c.sequence).controls
       IN  FirstError(<<
             Checked(controls = <<>>, "INVALID_ARG"),
             GetSequenceControlProperties(controls, "START", TRUE).status,
             GetSequenceControlProperties(controls, "READY", TRUE).status>>)

(* The graph of the steps is the subject of EnsembleContext: here it is      *)
(* "valid", "invalid", or "none" without steps.                              *)
ValidateEnsembleSchedulingConfig(c) ==
  Checked(\/ c.platform # "ensemble"
          \/ c.groups # <<>>
          \/ Has(c.optimization)
          \/ Value(c.ensemble) # "valid", "INVALID_ARG")

ValidateGroup(g, devices) ==
  CASE g.kind = "GPU" -> Checked(\/ g.gpus = <<>>
                                 \/ \E d \in ToSet(g.gpus) : d < 0 \/ d >= devices, "INVALID_ARG")
    [] g.kind = "CPU" -> Checked(g.gpus # <<>>, "INVALID_ARG")
    [] g.kind = "AUTO" -> "INTERNAL"

ValidateGroups(c, devices) ==
  FirstError(<<Checked(c.platform = "ensemble" \/ c.groups = <<>>, "INVALID_ARG"),
               Checked(devices < 0, "INTERNAL")>>
             \o [i \in DOMAIN c.groups |-> ValidateGroup(c.groups[i], devices)])

ValidateModelConfig(c, expected, devices) ==
  FirstError(
    <<Checked(c.name = "" \/ c.platform = "", "INVALID_ARG"),
      Checked(expected # "" /\ c.platform # expected, "NOT_FOUND"),
      Checked(~Has(c.policy), "INVALID_ARG")>>
    \o [i \in DOMAIN c.input |-> ValidateModelInput(c.input[i], c.max_batch)]
    \o [i \in DOMAIN c.output |-> ValidateModelOutput(c.output[i], c.max_batch)]
    \o <<ValidateDynamic(c), ValidateSequence(c),
         IF Has(c.ensemble) THEN ValidateEnsembleSchedulingConfig(c)
         ELSE ValidateGroups(c, devices)>>)

-----------------------------------------------------------------------------
(* Autofill.  A model's directory is the sequence of its version             *)
(* directories, in the order of their names, each with the names of its      *)
(* files and of its subdirectories, what the framework that could read it    *)
(* answers ("SUCCESS", "OPSET", "ERROR") and the tensors and batch size it   *)
(* finds, in some order.                                                     *)

FoundTensor(info, batching) ==
  LET dims == SubSeq(info.dims, IF batching THEN 2 ELSE 1, Len(info.dims))
  IN  [name |-> info.name, type |-> info.type, format |-> "NONE",
       dims |-> IF dims = <<>> THEN <<1>> ELSE dims,
       reshape |-> IF dims = <<>> THEN Given(<<>>) ELSE Absent]

FoundTensors(infos, batching) == [i \in DOMAIN infos |-> FoundTensor(infos[i], batching)]

Supported(infos) == \A i \in DOMAIN infos : infos[i].type # "INVALID"

(* Every tensor has the batch dimension in front.                            *)
Batches(infos) ==
  \A i \in DOMAIN infos : infos[i].dims # <<>> /\ infos[i].dims[1] = WILDCARD_DIM

Named(c, name) == [c EXCEPT !.name = IF @ = "" THEN name ELSE @]
Filed(c, file) == [c EXCEPT !.filename = IF @ = "" THEN file ELSE @]

OnlyVersion(dir) == dir[1]

(* AutoFillSavedModel                                                        *)
CanFillSavedModel(dir) ==
  /\ Len(dir) = 1
  /\ Cardinality(OnlyVersion(dir).subdirs) = 1
  /\ OnlyVersion(dir).savedmodel = "SUCCESS"

FixSavedModel(c, name, dir) ==
  LET v == OnlyVersion(dir)
      ios == (IF c.input = <<>> THEN v.inputs ELSE <<>>)
                \o (IF c.output = <<>> THEN v.outputs ELSE <<>>)
      batching == Batches(ios)
  IN  IF (~batching /\ c.max_batch > 0) \/ ~Supported(ios) THEN Outcome("INTERNAL", c)
      ELSE Outcome("SUCCESS",
             [Filed(Named(c, name), CHOOSE d \in v.subdirs : TRUE) EXCEPT
                !.platform = "tensorflow_savedmodel",
                !.max_batch = IF batching /\ @ = 0 THEN 1 ELSE @,
                !.input = IF @ = <<>> THEN FoundTensors(v.inputs, batching) ELSE @,
                !.output = IF @ = <<>> THEN FoundTensors(v.outputs, batching) ELSE @])

(* AutoFillGraphDef                                                          *)
CanFillGraphDef(dir) == Len(dir) = 1 /\ OnlyVersion(dir).files = {"model.graphdef"}

FixGraphDef(c, name) == Outcome("SUCCESS", [Named(c, name) EXCEPT !.platform = "tensorflow_graphdef"])

(* AutoFillOnnx: the first version that loads; else, when only the opset of  *)
(* some versions is not supported, the last of those, of which the tensors   *)
(* are not known.  A version without exactly one file ends the search.       *)
OnnxVersion(dir) ==
  LET OneFile(i) == Cardinality(dir[i].files) = 1
      Stops(i) == ~OneFile(i) \/ dir[i].onnx = "SUCCESS"
      last == IF \E i \in DOMAIN dir : Stops(i)
              THEN CHOOSE i \in DOMAIN dir : Stops(i) /\ \A k \in 1..(i - 1) : ~Stops(k)
              ELSE Len(dir)
      opset == {i \in 1..last : dir[i].onnx = "OPSET"}
  IN  IF dir = <<>> \/ ~OneFile(last) THEN 0
      ELSE IF dir[last].onnx = "SUCCESS" THEN last
      ELSE IF opset # {} THEN CHOOSE i \in opset : \A k \in opset : k <= i ELSE 0

OnnxConfig(v) ==
  IF v.onnx # "SUCCESS" THEN [max_batch |-> 0, input |-> <<>>, output |-> <<>>]
  ELSE LET batching == Batches(v.inputs \o v.outputs)
       IN  [max_batch |-> IF batching THEN 1 ELSE 0,
            input |-> FoundTensors(v.inputs, batching),
            output |-> FoundTensors(v.outputs, batching)]

CanFillOnnx(dir) == OnnxVersion(dir) # 0

FixOnnx(c, name, dir) ==
  LET v == dir[OnnxVersion(dir)]
      found == OnnxConfig(v)
  IN  IF \/ (c.input = <<>> \/ c.output = <<>>) /\ found.max_batch = 0 /\ c.max_batch > 0
         \/ c.input = <<>> /\ ~Supported(found.input)
         \/ c.output = <<>> /\ ~Supported(found.output)
      THEN Outcome("INTERNAL", c)
      ELSE Outcome("SUCCESS",
             [Filed(Named(c, name), CHOOSE f \in v.files : TRUE) EXCEPT
                !.platform = "onnxruntime_onnx",
                !.max_batch = IF @ = 0 THEN found.max_batch ELSE @,
                !.input = IF @ = <<>> THEN found.input ELSE @,
                !.output = IF @ = <<>> THEN found.output ELSE @])

(* AutoFillPlan: the dimensions of an engine's bindings have no batch.       *)
CanFillPlan(dir) ==
  Len(dir) = 1 /\ Cardinality(OnlyVersion(dir).files) = 1 /\ OnlyVersion(dir).plan = "SUCCESS"

FixPlan(c, name, dir) ==
  LET v == OnlyVersion(dir)
      Binding(info) == [name |-> info.name, type |-> info.type, format |-> "NONE",
                        dims |-> info.dims, reshape |-> Absent]
      Bindings(infos) == [i \in DOMAIN infos |-> Binding(infos[i])]
  IN  Outcome("SUCCESS",
        [Filed(Named(c, name), CHOOSE f \in v.files : TRUE) EXCEPT
           !.platform = "tensorrt_plan",
           !.max_batch = IF @ = 0 THEN v.max_batch ELSE @,
           !.input = IF @ = <<>> THEN Bindings(v.inputs) ELSE @,
           !.output = IF @ = <<>> THEN Bindings(v.outputs) ELSE @])

(* AutoFillNetDef                                                            *)
CanFillNetDef(dir) ==
  Len(dir) = 1 /\ OnlyVersion(dir).files = {"model.netdef", "init_model.netdef"}

FixNetDef(c, name) == Outcome("SUCCESS", [Named(c, name) EXCEPT !.platform = "caffe2_netdef"])

FixSimple(c, name) == Outcome("SUCCESS", Named(c, name))

(* AutoFill::Create and Fix: the platform given, or the first that can       *)
(* read the files.                                                           *)
AutoFill(c, name, dir) ==
  LET Tried(platform) == GetPlatform(c.platform) \in {platform, "unknown"}
  IN  IF Tried("tensorflow_savedmodel") /\ CanFillSavedModel(dir) THEN FixSavedModel(c, name, dir)
      ELSE IF Tried("tensorflow_graphdef") /\ CanFillGraphDef(dir) THEN FixGraphDef(c, name)
      ELSE IF Tried("onnxruntime_onnx") /\ CanFillOnnx(dir) THEN FixOnnx(c, name, dir)
      ELSE IF Tried("tensorrt_plan") /\ CanFillPlan(dir) THEN FixPlan(c, name, dir)
      ELSE IF Tried("caffe2_netdef") /\ CanFillNetDef(dir) THEN FixNetDef(c, name)
      ELSE FixSimple(c, name)

(* text is the configuration file, absent when there is none.                *)
GetNormalizedModelConfig(text, autofill, name, dir, devices) ==
  IF ~Has(text) /\ ~autofill THEN Outcome("INTERNAL", EmptyConfig)
  ELSE LET config == IF Has(text) THEN Value(text) ELSE EmptyConfig
           filled == IF autofill THEN AutoFill(config, name, dir) ELSE Outcome("SUCCESS", config)
       IN  IF filled.status # "SUCCESS" THEN filled ELSE Normalize(filled.config, devices)
-----------------------------------------------------------------------------
(* What these definitions promise, over small inputs.                        *)

SomeDims == {<<>>, <<1>>, <<2>>, <<WILDCARD_DIM>>, <<2, 3>>, <<WILDCARD_DIM, 2>>}
SomeTensor(type, dims, reshape) ==
  [name |-> "t", type |-> type, dims |-> dims, reshape |-> reshape, format |-> "NONE"]

(* The size of a batch is that of the shape with the batch in front.         *)
ASSUME BatchSizeAgrees ==
  \A type \in DOMAIN GetDataTypeByteSize, dims \in SomeDims, batch \in 1..3 :
    GetDataTypeByteSize[type] # 0 =>
      GetBatchByteSize(batch, type, dims) = GetByteSize(type, <<batch>> \o dims)

(* A tensor that passes validation occupies the same bytes under its reshape,*)
(* whatever batch its model accepts (0 for a model that does not batch).     *)
ASSUME ReshapeKeepsSize ==
  \A dims \in SomeDims, shape \in SomeDims \cup {<<1, 1>>, <<3, 2>>, <<6>>}, max \in 0..2 :
    ValidateModelOutput(SomeTensor("FP32", dims, Given(shape)), max) = "SUCCESS" =>
      \A batch \in (IF max = 0 THEN {0} ELSE 1..max) :
        GetBatchByteSize(batch, "FP32", dims) = GetBatchByteSize(batch, "FP32", shape)

SomeGroups == [name : {"", "g"}, kind : {"AUTO", "GPU", "CPU"}, count : {0, 2},
               gpus : {<<>>, <<0>>, <<0, 1>>}]
SomeConfigs ==
  {[EmptyConfig EXCEPT !.name = "m", !.platform = "custom", !.groups = groups,
                       !.max_batch = max, !.dynamic = dynamic] :
     groups \in {<<>>} \cup {<<g>> : g \in SomeGroups}
                 \cup {<<NewGroup(""), g>> : g \in SomeGroups},
     max \in {0, 5, 8}, dynamic \in {Absent, Given(<<>>), Given(<<5>>)}}

(* Completing a complete configuration changes nothing: a model is not       *)
(* reloaded for having been completed twice.                                 *)
ASSUME CompletedOnce ==
  \A c \in SomeConfigs, devices \in 0..2 :
    Normalize(Normalize(c, devices).config, devices) = Normalize(c, devices)

(* A completed configuration is refused only for what the user wrote: a      *)
(* preferred size above the maximum, a group of kind GPU with an absent or   *)
(* no device, one of kind CPU with devices - and one of kind AUTO with an    *)
(* absent device, which the completion has made a CPU group.                 *)
ASSUME CompletionRefusals ==
  \A c \in SomeConfigs, devices \in 0..2 :
    LET Wrong(g) == \/ g.kind = "GPU" /\ devices = 0
                    \/ g.kind = "CPU" /\ g.gpus # <<>>
                    \/ g.kind # "CPU" /\ \E d \in ToSet(g.gpus) : d >= devices
    IN  (ValidateModelConfig(Normalize(c, devices).config, "custom", devices) = "SUCCESS")
          <=> /\ \A g \in ToSet(c.groups) : ~Wrong(g)
              /\ c.dynamic = Given(<<5>>) => c.max_batch >= 5

SomeInfos == {[name |-> "t", type |-> "FP32", dims |-> dims] : dims \in SomeDims}
SomeVersion(in, out) ==
  [files |-> {"model.any"}, subdirs |-> {}, savedmodel |-> "ERROR", onnx |-> "ERROR",
   plan |-> "ERROR", max_batch |-> 4, inputs |-> <<in>>, outputs |-> <<out>>]
SavedModelDir(in, out) ==
  <<[SomeVersion(in, out) EXCEPT !.subdirs = {"model.any"}, !.savedmodel = "SUCCESS"]>>
OnnxDir(in, out) == <<[SomeVersion(in, out) EXCEPT !.onnx = "SUCCESS"]>>
PlanDir(in, out) == <<[SomeVersion(in, out) EXCEPT !.plan = "SUCCESS"]>>

(* The configuration derived from a model's files alone is accepted, unless  *)
(* a tensor has no dimension where nothing can stand for it: in a model      *)
(* that does not batch, or in a TensorRT engine.                             *)
ASSUME FilledIsAccepted ==
  \A in, out \in SomeInfos :
    LET Result(dir) == GetNormalizedModelConfig(Absent, TRUE, "m", dir, 1)
        Accepted(dir) ==
          /\ Result(dir).status = "SUCCESS"
          /\ ValidateModelConfig(Result(dir).config, Result(dir).config.platform, 1) = "SUCCESS"
        dimensions == in.dims # <<>> /\ out.dims # <<>>
    IN  /\ Accepted(SavedModelDir(in, out)) <=> dimensions
        /\ Accepted(OnnxDir(in, out)) <=> dimensions
        /\ Accepted(PlanDir(in, out)) <=> dimensions

(* A saved model whose configuration lists its inputs and outputs is given   *)
(* the batch size 1, even when its signature has no batch dimension; ONNX    *)
(* looks at the signature.                                                   *)
ASSUME ListedTensorsBatch ==
  \A in, out \in SomeInfos :
    LET listed == [EmptyConfig EXCEPT !.input = <<SomeTensor("FP32", <<2>>, Absent)>>,
                                      !.output = <<SomeTensor("FP32", <<2>>, Absent)>>]
        FilledMax(dir) == AutoFill(listed, "m", dir).config.max_batch
    IN  /\ FilledMax(SavedModelDir(in, out)) = 1
        /\ FilledMax(OnnxDir(in, out)) = IF Batches(<<in, out>>) THEN 1 ELSE 0

(* A model that no framework can read keeps what its configuration says.     *)
ASSUME UnreadIsNamed ==
  \A c \in SomeConfigs : AutoFill(c, "m", <<>>) = Outcome("SUCCESS", c)
=============================================================================
