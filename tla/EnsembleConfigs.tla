-------------------------- MODULE EnsembleConfigs --------------------------
(***************************************************************************)
(* The configurations of a repository whose ensembles use one another      *)
(* (core/ensemble_utils.cc): every step names a model of the repository,   *)
(* its tensors fit those of the model, and no ensemble contains itself.    *)
(*                                                                         *)
(* configs maps a model's name to its configuration; steps is absent for a *)
(* model that is no ensemble.  A step maps the inputs and the outputs of   *)
(* its model to ensemble tensors.                                          *)
(***************************************************************************)
EXTENDS EnsembleContext, ModelConfig

Maps(f) == {f[k] : k \in DOMAIN f}

GraphOf(c) ==
  LET steps == Value(c.steps)
  IN  [inputs |-> DOMAIN c.input, outputs |-> DOMAIN c.output,
       needs |-> [s \in DOMAIN steps |-> Maps(steps[s].in)],
       makes |-> [s \in DOMAIN steps |-> Maps(steps[s].out)]]

(* The types and dimensions a tensor of an ensemble is said to have: by the  *)
(* ensemble, of whose output of the same name as an input nothing is looked  *)
(* at, and by the models that read and write it.                             *)
Declared(c, t) ==
  IF t \in DOMAIN c.input THEN {c.input[t]}
  ELSE IF t \in DOMAIN c.output THEN {c.output[t]} ELSE {}

Inferred(c, configs, t) ==
  Declared(c, t) \cup
    UNION {LET s == Value(c.steps)[k]
               model == configs[s.model]
           IN  {model.input[i] : i \in {j \in DOMAIN s.in : s.in[j] = t}}
                 \cup {model.output[o] : o \in {p \in DOMAIN s.out : s.out[p] = t}} :
             k \in DOMAIN Value(c.steps)}

TensorsConsistent(c, configs) ==
  \A t \in Mapped(GraphOf(c)) : Cardinality(Inferred(c, configs, t)) <= 1

(* The model of a step can be used by the ensemble, and all its inputs are   *)
(* mapped.                                                                   *)
StepFits(c, s, configs, invalid) ==
  /\ s.model \in DOMAIN configs \ invalid
  /\ configs[s.model].max_batch >= c.max_batch
  /\ DOMAIN s.in = DOMAIN configs[s.model].input
  /\ DOMAIN s.out \subseteq DOMAIN configs[s.model].output

DataFlows(g) ==
  /\ Mapped(g) \cup g.inputs \cup g.outputs \subseteq Ready(g)
  /\ \A t \in (Mapped(g) \cup g.inputs) \ g.outputs : \E s \in DOMAIN g.needs : t \in g.needs[s]

(* One ensemble, after the ensembles it uses.  "dependency" lists those that *)
(* are being examined around it, and "done" those found good.                *)
RECURSIVE ValidateEnsembleConfig(_, _, _, _, _)
ValidateEnsembleConfig(ensemble, configs, invalid, done, dependency) ==
  LET config == configs[ensemble]
      Refusal == [ok |-> FALSE, done |-> done]
      Step(sofar, s) ==
        IF ~sofar.ok \/ ~StepFits(config, s, configs, invalid) THEN Refusal
        ELSE IF ~Has(configs[s.model].steps) THEN sofar
        ELSE IF s.model \in ToSet(dependency) THEN Refusal
        ELSE IF s.model \in sofar.done THEN sofar
        ELSE ValidateEnsembleConfig(s.model, configs, invalid, sofar.done,
                                    Append(dependency, ensemble))
      used == FoldLeft(Step, [ok |-> TRUE, done |-> done], Value(config.steps))
  IN  IF used.ok /\ TensorsConsistent(config, configs) /\ DataFlows(GraphOf(config))
      THEN [ok |-> TRUE, done |-> used.done \cup {ensemble}]
      ELSE Refusal

EnsemblesOf(configs) == {n \in DOMAIN configs : Has(configs[n].steps)}

(* All ensembles, in the order of "order".  accepted names the models that   *)
(* ValidateModelConfig accepts: an ensemble outside it ends the search.      *)
ValidateEnsembleConfigs(configs, accepted, order) ==
  LET Examine(sofar, e) ==
        IF ~sofar.ok \/ e \in sofar.done THEN sofar
        ELSE ValidateEnsembleConfig(e, configs, DOMAIN configs \ accepted, sofar.done, <<>>)
  IN  /\ EnsemblesOf(configs) \subseteq accepted
      /\ FoldLeft(Examine, [ok |-> TRUE, done |-> {}], order).ok

-----------------------------------------------------------------------------
(* What these definitions promise, over repositories of two ensembles, a     *)
(* model, a model of another type and one of smaller batches.                *)

IoModel(type, max) ==
  [max_batch |-> max, input |-> [i |-> <<type, <<2>>>>], output |-> [o |-> <<type, <<2>>>>],
   steps |-> Absent]
IoStep(model, from, to) == [model |-> model, in |-> [i |-> from], out |-> [o |-> to]]
Chain(models) ==
  [IoModel("FP32", 2) EXCEPT !.steps =
     Given(IF Len(models) = 1 THEN <<IoStep(models[1], "i", "o")>>
           ELSE <<IoStep(models[1], "i", "t"), IoStep(models[2], "t", "o")>>)]
Repository(p, q) ==
  [E |-> Chain(p), F |-> Chain(q), M |-> IoModel("FP32", 2), D |-> IoModel("INT32", 2),
   S |-> IoModel("FP32", 1)]
Chains == LET used == {"E", "F", "M", "D", "S", "absent"}
          IN  {<<u>> : u \in used} \cup (used \X used)

(* Whatever ensemble the examination begins with, a repository is accepted   *)
(* exactly when every step fits, tensors agree, and the ensembles can be     *)
(* ranked so that each only uses lower ones.                                 *)
ASSUME EnsemblesWellFounded ==
  \A p, q \in Chains, accepted \in {{"E", "F", "M", "D", "S"}, {"E", "F", "D", "S"}} :
    LET configs == Repository(p, q)
        invalid == DOMAIN configs \ accepted
        Uses(e) == {s.model : s \in ToSet(Value(configs[e].steps))}
        wellFounded == \E rank \in [{"E", "F"} -> 1..2] :
          \A e \in {"E", "F"} : \A f \in Uses(e) \cap {"E", "F"} : rank[f] < rank[e]
        sound == \A e \in {"E", "F"} :
          /\ \A s \in ToSet(Value(configs[e].steps)) : StepFits(configs[e], s, configs, invalid)
          /\ "D" \notin Uses(e)
    IN  \A order \in {<<"E", "F">>, <<"F", "E">>} :
          ValidateEnsembleConfigs(configs, accepted, order) <=> sound /\ wellFounded
=============================================================================
