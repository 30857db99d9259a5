-------------------------- MODULE MCBatchExecution --------------------------
(* Three payloads of one or two rows, for models with the inputs A and B (A  *)
(* alone for TorchScript), the outputs X and Y, of which B and Y are strings *)
(* in a string model.                                                        *)
EXTENDS BatchExecution, InferResponse

Named2 == <<"A", "B">>
Plain == [via |-> "http", names |-> Named2, batch |-> 1, dims |-> "absent",
          sizes |-> "right", cuts |-> {1}, body |-> "exact", strings |-> "each",
          asks |-> [o \in {"X", "Y"} |-> "raw"]]

MCKinds == {
  Plain,
  [Plain EXCEPT !.batch = 2, !.cuts = {3}, !.asks = [o \in {"Y"} |-> "raw"]],
  [Plain EXCEPT !.names = <<"B", "B">>, !.via = "grpc"],
  [Plain EXCEPT !.names = <<"A", "A">>, !.cuts = {}],
  [Plain EXCEPT !.names = <<"B", "A">>, !.batch = 2, !.cuts = {1, 2},
                !.asks = [o \in {"X"} |-> "class"]],
  [Plain EXCEPT !.strings = "few", !.via = "grpc", !.dims = "given"],
  [Plain EXCEPT !.strings = "many", !.asks = [o \in {"X", "none"} |-> "raw"]],
  [Plain EXCEPT !.strings = "cut", !.body = "exact", !.asks = [o \in {"Y"} |-> "class"]],
  [Plain EXCEPT !.asks = [o \in {"Y"} |-> "class"]],
  [Plain EXCEPT !.body = "short"],
  [Plain EXCEPT !.sizes = "wrong"],
  [Plain EXCEPT !.names = <<"A">>],
  [Plain EXCEPT !.asks = [o \in {} |-> "raw"]],
  [Plain EXCEPT !.via = "null"],
  [Plain EXCEPT !.via = "null", !.strings = "many"] }

Cpu == <<[kind |-> "CPU", count |-> 1, gpus |-> <<>>]>>
Gpus == <<[kind |-> "GPU", count |-> 2, gpus |-> <<"gpu0">>]>>

Model(platform) ==
  [platform |-> platform, inputs |-> {"A", "B"}, given |-> {"A", "B"}, made |-> {"X", "Y"},
   string |-> FALSE, sequence |-> FALSE, variable |-> FALSE, max |-> 5,
   groups |-> IF platform = "plan" THEN Gpus ELSE Cpu, file |-> TRUE]

PlanModels == {Model("plan")}

Framed == {"onnx", "plan", "graphdef", "netdef", "custom"}

MCModels ==
  {Model(f) : f \in Framed}
  \cup {[Model(f) EXCEPT !.string = TRUE] : f \in {"onnx", "savedmodel", "libtorch"}}
  \cup {[Model("libtorch") EXCEPT !.inputs = {"A"}, !.given = {"A"}], Model("libtorch"),
        [Model("onnx") EXCEPT !.sequence = TRUE, !.given = {"A", "B", "START"}],
        [Model("onnx") EXCEPT !.sequence = TRUE, !.given = {"A", "B", "START"}, !.string = TRUE],
        [Model("savedmodel") EXCEPT !.sequence = TRUE, !.given = {"A", "B", "START"}, !.string = TRUE],
        [Model("plan") EXCEPT !.sequence = TRUE, !.given = {"A", "B", "START"}],
        [Model("graphdef") EXCEPT !.given = {"A", "B", "C"}],
        [Model("savedmodel") EXCEPT !.given = {"A", "B", "C"}],
        [Model("plan") EXCEPT !.groups = Cpu],
        [Model("custom") EXCEPT !.max = 3, !.file = FALSE],
        [Model("netdef") EXCEPT !.max = 3],
        [Model("netdef") EXCEPT !.given = {"A", "B", "C"}],
        [Model("netdef") EXCEPT !.sequence = TRUE, !.given = {"A", "B", "START"}]}

MCPaired == [o \in {"X", "Y"} |-> IF o = "X" THEN "A" ELSE "B"]
=============================================================================
