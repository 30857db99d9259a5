--------------------------- MODULE EnsembleContext ---------------------------
(***************************************************************************)
(* EnsembleScheduler and EnsembleContext: one request to an ensemble.      *)
(*                                                                         *)
(* The ensemble's configuration is a graph of steps (models) that read and *)
(* write ensemble tensors.  A context records which tensors have data; the *)
(* completion of a step, on the thread of that step's model, updates them  *)
(* under mutex_ and prepares the steps that became ready, which the same   *)
(* thread then schedules one by one without the mutex.                     *)
(*                                                                         *)
(* Contexts of different requests share nothing but the graph, which never *)
(* changes, so that one request says what any number of them do.           *)
(***************************************************************************)
EXTENDS Naturals, Sequences, FiniteSets

CONSTANTS
    Steps,      \* the steps an ensemble may have
    Tensors,    \* the names of ensemble tensors
    Ensembles   \* the configurations considered

\* The configuration of an ensemble: its inputs and outputs, and the tensors
\* each of its steps reads and writes.
IsEnsemble(g) ==
    /\ DOMAIN g.needs \subseteq Steps
    /\ g = [inputs |-> g.inputs, outputs |-> g.outputs, needs |-> g.needs, makes |-> g.makes]
    /\ g.inputs \subseteq Tensors /\ g.outputs \subseteq Tensors
    /\ g.needs \in [DOMAIN g.needs -> SUBSET Tensors]
    /\ g.makes \in [DOMAIN g.needs -> SUBSET Tensors]

ASSUME StepsAssumption == IsFiniteSet(Steps) /\ IsFiniteSet(Tensors)

VARIABLES
    info,      \* info_
    given,     \* the ensemble inputs the request carries
    required,  \* the outputs the request asks for
    data,      \* the tensors whose tensor_data_ holds data
    status,    \* ensemble_status_, "new" before the context is created
    inflight,  \* inflight_step_counter_
    pending,   \* the steps prepared whose completion was not processed yet
    runs,      \* history: how often each step was prepared
    answers    \* history: what OnComplete_ was called with, in order

request == <<info, given, required>>
vars == <<request, data, status, inflight, pending, runs, answers>>

----------------------------------------------------------------------------
(* Validation of the configuration *)

Mapped(g) == UNION {g.needs[s] \cup g.makes[s] : s \in DOMAIN g.needs}

Feeds(g, t) == UNION {g.needs[s] : s \in {r \in DOMAIN g.needs : t \in g.makes[r]}}

Written(g) == UNION {g.makes[s] : s \in DOMAIN g.needs}

\* The tensors the data-flow check finds ready: the inputs, and every tensor
\* in an output map once all tensors of that step's input map are.
Ready(g) ==
    LET ready[n \in 0..Cardinality(Tensors)] ==
            IF n = 0
            THEN g.inputs
            ELSE LET before == ready[n - 1]
                 IN  before \cup {t \in Written(g) : Feeds(g, t) \subseteq before}
    IN  ready[Cardinality(Tensors)]

MapsAreFilled(g) == \A s \in DOMAIN g.needs : g.needs[s] # {} /\ g.makes[s] # {}

OneOutputMap(g) ==
    \A r, s \in DOMAIN g.needs : r # s => g.makes[r] \cap g.makes[s] = {}

\* ValidateEnsembleSchedulingConfig accepts the configuration.
Valid(g) ==
    /\ DOMAIN g.needs # {}
    /\ MapsAreFilled(g)
    /\ OneOutputMap(g)
    /\ (g.inputs \cup g.outputs) \subseteq Mapped(g)
    /\ \A t \in Mapped(g) \ g.outputs : \E s \in DOMAIN g.needs : t \in g.needs[s]
    /\ Mapped(g) \subseteq Ready(g)

ASSUME EnsemblesAssumption == \A g \in Ensembles : IsEnsemble(g) /\ Valid(g)

\* What validation does not ask: no tensor is written twice, once by the
\* request and once by a step, and no name is both input and output.
InputsKept(g) == g.inputs \cap (g.outputs \cup Written(g)) = {}

----------------------------------------------------------------------------
(* The context *)

Results == {"success", "failed", "deadlock"}

\* A step that was prepared and whose completion was not processed: `turn'
\* counts the times this step was prepared.
StepRuns == [step : Steps, turn : Nat \ {0}, at : {"prepared", "running"}]

\* The tensors the request fills.  An ensemble output of the same name takes
\* the input's place in name_to_idx, and no step reads what the request sent.
Fed == given \ info.outputs

Init ==
    /\ info \in Ensembles
    /\ given \in (SUBSET info.inputs) \ {{}}
    /\ required \in SUBSET info.outputs
    /\ data = {}
    /\ status = "new"
    /\ inflight = 0
    /\ pending = {}
    /\ runs = [s \in DOMAIN info.needs |-> 0]
    /\ answers = <<>>

\* Mutant of NextSteps: a step is ready when one of its inputs was updated.
NextStepsOnAnyInput(updated, have) ==
    {s \in DOMAIN info.needs : info.needs[s] \cap updated # {}}

\* Mutant of NextSteps: all inputs of a step must have been updated at once.
NextStepsOnAllUpdated(updated, have) ==
    {s \in DOMAIN info.needs : info.needs[s] \subseteq updated}

\* Mutant of NextSteps: all steps are examined, not those of the updated tensors.
NextStepsOfAllTensors(updated, have) ==
    {s \in DOMAIN info.needs : info.needs[s] \subseteq have}

\* GetNextSteps: the steps that read one of `updated' and whose inputs all
\* have data.
NextSteps(updated, have) ==
    {s \in DOMAIN info.needs : info.needs[s] \subseteq have /\ info.needs[s] \cap updated # {}}

\* CheckAndSetEnsembleOutput: an output may be missing, and one that is there
\* may have an unexpected size or get no buffer.
Outcomes(have) ==
    (IF required \subseteq have THEN {"success"} ELSE {"deadlock"})
        \cup (IF required \cap have = {} THEN {} ELSE {"failed"})

FinishEnsemble(result) ==
    /\ status' = IF result = "success" THEN "ok" ELSE "failed"
    /\ answers' = Append(answers, result)

\* A context with an error, met in its constructor, in the completed step or
\* in InitStep: no step is prepared.
GiveUp(count, others) ==
    /\ inflight' = count
    /\ pending' = others
    /\ FinishEnsemble("failed")
    /\ UNCHANGED runs

Prepared(next) == {[step |-> s, turn |-> runs[s] + 1, at |-> "prepared"] : s \in next}

\* Mutant of PrepareSteps: the ensemble is finished when no step became ready.
PrepareStepsOrFinish(next, have, count, others) ==
    /\ inflight' = count + Cardinality(next)
    /\ pending' = others \cup Prepared(next)
    /\ runs' = [s \in DOMAIN runs |-> IF s \in next THEN runs[s] + 1 ELSE runs[s]]
    /\ IF next = {}
       THEN \E result \in Outcomes(have) : FinishEnsemble(result)
       ELSE status' = "ok" /\ UNCHANGED answers

\* `count' steps are in flight, those of `others', and `next' are ready.
PrepareSteps(next, have, count, others) ==
    /\ inflight' = count + Cardinality(next)
    /\ pending' = others \cup Prepared(next)
    /\ runs' = [s \in DOMAIN runs |-> IF s \in next THEN runs[s] + 1 ELSE runs[s]]
    /\ IF inflight' = 0
       THEN \E result \in Outcomes(have) : FinishEnsemble(result)
       ELSE status' = "ok" /\ UNCHANGED answers

\* EnsembleScheduler::Enqueue and the constructor, which fails when one of the
\* models has no backend to hold, or when InitStep fails.
Enqueue ==
    /\ status = "new"
    /\ \/ /\ data' = Fed
          /\ PrepareSteps(NextSteps(Fed, Fed), Fed, 0, {})
       \/ /\ data' \in {{}, Fed}
          /\ GiveUp(0, {})
    /\ UNCHANGED request

\* ScheduleSteps hands a step to HandleInfer, even if another step has failed
\* since this one was prepared.
Schedule(p) ==
    /\ p.at = "prepared"
    /\ pending' = (pending \ {p}) \cup {[p EXCEPT !.at = "running"]}
    /\ UNCHANGED <<request, data, status, inflight, runs, answers>>

\* Mutant of Succeed: the counter is not decremented.
SucceedKeepsCount(p, made) ==
    LET have == data \cup made
        next == NextSteps(made, have)
    IN  /\ status = "ok"
        /\ data' = have
        /\ \/ PrepareSteps(next, have, inflight, pending \ {p})
           \/ next # {} /\ GiveUp(inflight, pending \ {p})

\* The completion function of a step, while the ensemble has no error: the step
\* succeeded and returned the tensors `made', which may be fewer than its
\* output map names; then a step that became ready may not be initialised.
Succeed(p, made) ==
    LET have == data \cup made
        next == NextSteps(made, have)
    IN  /\ status = "ok"
        /\ data' = have
        /\ \/ PrepareSteps(next, have, inflight - 1, pending \ {p})
           \/ next # {} /\ GiveUp(inflight - 1, pending \ {p})

\* The step failed, or one of its outputs is not as expected, which is noticed
\* when those before it, `made', have been recorded.
Fail(p, made) ==
    /\ status = "ok"
    /\ data' = data \cup made
    /\ GiveUp(inflight - 1, pending \ {p})

\* The ensemble was answered with an error before: nothing is updated.
Ignore(p) ==
    /\ status = "failed"
    /\ pending' = pending \ {p}
    /\ UNCHANGED <<data, status, inflight, runs, answers>>

Complete(p) ==
    /\ p.at = "running"
    /\ \/ \E made \in SUBSET info.makes[p.step] : Succeed(p, made) \/ Fail(p, made)
       \/ Ignore(p)
    /\ UNCHANGED request

\* The last completion function releases the context.
Released ==
    /\ status # "new"
    /\ pending = {}
    /\ UNCHANGED vars

Next == Enqueue \/ (\E p \in pending : Schedule(p) \/ Complete(p)) \/ Released

Spec == Init /\ [][Next]_vars

\* The thread that prepared a step hands it over, and its model answers it.
Fairness == WF_vars(Enqueue) /\ WF_vars(\E p \in pending : Schedule(p) \/ Complete(p))

FairSpec == Spec /\ Fairness

----------------------------------------------------------------------------
(* Properties *)

\* The values the context's members take.
TypeOK ==
    /\ info \in Ensembles /\ given \subseteq info.inputs /\ required \subseteq info.outputs
    /\ data \subseteq Tensors
    /\ status \in {"new", "ok", "failed"}
    /\ inflight \in Nat
    /\ pending \subseteq StepRuns
    /\ runs \in [DOMAIN info.needs -> Nat]
    /\ answers \in Seq(Results)

\* While the ensemble has no error, inflight_step_counter_ counts exactly the
\* steps that will still call Proceed.
InflightCounts == status # "failed" => inflight = Cardinality(pending)

\* The request is answered at most once, and has not been answered exactly as
\* long as a step without whose completion it cannot be is in flight, although
\* steps keep completing after a failure was answered.
AnsweredOnce ==
    /\ Len(answers) <= 1
    /\ answers = <<>> <=> status = "new" \/ (status = "ok" /\ pending # {})

\* A step whose inputs become ready through several tensors, updated by
\* several threads, is nevertheless run once.
StepsOnce == InputsKept(info) => \A s \in DOMAIN runs : runs[s] <= 1

\* No step in flight writes a tensor that another step in flight was given.
InputsSettled ==
    InputsKept(info) =>
        \A p, q \in pending : info.makes[q.step] \cap info.needs[p.step] = {}

\* The search from the updated tensors alone misses no step: the steps that
\* were prepared are those whose inputs all have data.
NoneMissed ==
    status # "failed" =>
        {s \in DOMAIN runs : runs[s] > 0} = {s \in DOMAIN runs : info.needs[s] \subseteq data}

\* An ensemble that validation accepts ends in "unexpected deadlock" only if
\* the request left an input out or a model an output.
DeadlockExplained ==
    (InputsKept(info) /\ answers = <<"deadlock">>) =>
        \/ given # info.inputs
        \/ \E s \in DOMAIN runs :
              /\ runs[s] > 0 /\ ~(info.makes[s] \subseteq data)
              /\ \A p \in pending : p.step # s

\* Before the context is created there is nothing.
NewInv ==
    status = "new" =>
        pending = {} /\ data = {} /\ answers = <<>> /\ \A s \in DOMAIN runs : runs[s] = 0

\* The runs in flight are told apart by step and turn.
PendingInv ==
    /\ IsFiniteSet(pending)
    /\ \A p \in pending : p.step \in DOMAIN runs /\ p.turn <= runs[p.step]
    /\ \A p, q \in pending : p.step = q.step /\ p.turn = q.turn => p = q

\* What has data was sent by the request or is of a step that has completed.
Completed(t) ==
    \E s \in DOMAIN runs :
        t \in info.makes[s] /\ runs[s] > 0 /\ \A p \in pending : p.step # s

DataInv ==
    InputsKept(info) /\ status # "failed" => \A t \in data : t \in info.inputs \/ Completed(t)

\* The inductive invariant of the proofs.
IInv ==
    /\ TypeOK /\ NewInv /\ PendingInv /\ DataInv
    /\ InflightCounts /\ AnsweredOnce /\ NoneMissed /\ StepsOnce /\ InputsSettled

\* What the request sent has data, unless the ensemble has an error.
FedInv == status = "ok" => Fed \subseteq data

\* After "unexpected deadlock" no step is in flight, an output is missing, and all
\* steps whose inputs have data were run.
StuckInv ==
    answers = <<"deadlock">> =>
        /\ status = "failed" /\ pending = {}
        /\ Fed \subseteq data /\ ~(required \subseteq data)
        /\ \A s \in DOMAIN runs : info.needs[s] \subseteq data => runs[s] > 0

\* DataFlow sees the steps in flight, not how they were found or are counted,
\* and the answer.
Active == {p.step : p \in pending}
Answer == IF answers = <<>> THEN "none" ELSE answers[1]

Flow == INSTANCE DataFlow WITH active <- Active, answer <- Answer

\* Searched for from the tensors just updated, counted and prepared one by one,
\* the steps are evaluated as the tensors that have data make them due: each
\* once, and the request is answered once.
ImplementsDataFlow == Flow!Init /\ [][InputsKept(info) => Flow!Next]_(Flow!vars)

\* Every request is answered, and its context released.
Responds == <>(answers # <<>> /\ pending = {})
=============================================================================
