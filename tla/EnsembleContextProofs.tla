----------------------- MODULE EnsembleContextProofs -----------------------
(***************************************************************************)
(* The safety properties of EnsembleContext, for every valid ensemble.     *)
(***************************************************************************)
EXTENDS EnsembleContext, FiniteSetTheorems, FunctionTheorems, NaturalsInduction, WellFoundedInduction, TLAPS

(***************************************************************************)
(* The configuration, and the runs prepared.                               *)
(***************************************************************************)

\* What validation gives of an ensemble: its steps are finitely many, each
\* reads and writes tensors, and no two write the same one.
LEMMA EnsembleFacts ==
    ASSUME NEW g \in Ensembles
    PROVE  /\ DOMAIN g.needs \subseteq Steps
           /\ g.inputs \subseteq Tensors
           /\ \A s \in DOMAIN g.needs :
                 /\ g.needs[s] \subseteq Tensors /\ g.makes[s] \subseteq Tensors
                 /\ g.needs[s] # {}
                 /\ \A r \in DOMAIN g.needs : r # s => g.makes[r] \cap g.makes[s] = {}
           /\ InputsKept(g) => \A s \in DOMAIN g.needs : g.inputs \cap g.makes[s] = {}
<1>1. IsEnsemble(g) /\ Valid(g)
  BY EnsemblesAssumption
<1>2. /\ DOMAIN g.needs \subseteq Steps /\ g.inputs \subseteq Tensors
      /\ g.needs \in [DOMAIN g.needs -> SUBSET Tensors]
      /\ g.makes \in [DOMAIN g.needs -> SUBSET Tensors]
  BY <1>1 DEF IsEnsemble
<1>3. MapsAreFilled(g) /\ OneOutputMap(g)
  BY <1>1 DEF Valid
<1>4. InputsKept(g) => \A s \in DOMAIN g.needs : g.inputs \cap g.makes[s] = {}
  BY DEF InputsKept, Written
<1>5. QED
  BY <1>2, <1>3, <1>4 DEF MapsAreFilled, OneOutputMap

\* As many runs are prepared as steps are ready.
LEMMA PreparedCount ==
    ASSUME NEW next, IsFiniteSet(next)
    PROVE  IsFiniteSet(Prepared(next)) /\ Cardinality(Prepared(next)) = Cardinality(next)
<1> DEFINE run(s) == [step |-> s, turn |-> runs[s] + 1, at |-> "prepared"]
           f == [s \in next |-> run(s)]
<1>1. f \in Bijection(next, Prepared(next))
  <2>1. \A s \in next : f[s] = run(s) /\ run(s).step = s
    OBVIOUS
  <2>2. f \in [next -> Prepared(next)]
    BY DEF Prepared
  <2>3. \A s, r \in next : f[s] = f[r] => s = r
    BY <2>1
  <2>4. \A p \in Prepared(next) : \E s \in next : f[s] = p
    BY DEF Prepared
  <2>5. QED
    BY <2>2, <2>3, <2>4, Fun_IsBij
<1>2. QED
  BY <1>1, FS_Bijection DEF ExistsBijection

\* The runs prepared are new ones.
LEMMA PreparedFacts ==
    ASSUME TypeOK, PendingInv, NEW next \in SUBSET DOMAIN runs
    PROVE  /\ IsFiniteSet(next)
           /\ Prepared(next) \subseteq StepRuns
           /\ \A p \in Prepared(next) : p.step \in next /\ p.turn = runs[p.step] + 1
           /\ \A p, q \in Prepared(next) : p.step = q.step => p = q
           /\ Prepared(next) \cap pending = {}
<1>1. DOMAIN runs = DOMAIN info.needs /\ info \in Ensembles /\ \A s \in DOMAIN runs : runs[s] \in Nat
  BY DEF TypeOK
<1>2. next \subseteq Steps
  BY <1>1, EnsembleFacts
<1>3. IsFiniteSet(next)
  BY <1>2, StepsAssumption, FS_Subset
<1>4. \A p \in Prepared(next) : \E s \in next : p = [step |-> s, turn |-> runs[s] + 1, at |-> "prepared"]
  BY DEF Prepared
<1>5. Prepared(next) \subseteq StepRuns
  BY <1>1, <1>2, <1>4 DEF StepRuns
<1>6. /\ \A p \in Prepared(next) : p.step \in next /\ p.turn = runs[p.step] + 1
      /\ \A p, q \in Prepared(next) : p.step = q.step => p = q
  BY <1>4
<1>7. ASSUME NEW p \in Prepared(next), p \in pending PROVE FALSE
  <2>1. p.turn = runs[p.step] + 1 /\ p.turn <= runs[p.step] /\ runs[p.step] \in Nat
    BY <1>1, <1>6, <1>7 DEF PendingInv
  <2>2. QED
    BY <2>1
<1>8. QED
  BY <1>3, <1>5, <1>6, <1>7

\* With a run that is processed, one fewer is in flight.
LEMMA RemovedCount ==
    ASSUME PendingInv, InflightCounts, status = "ok", NEW p \in pending
    PROVE  inflight - 1 = Cardinality(pending \ {p}) /\ IsFiniteSet(pending \ {p})
  BY FS_RemoveElement, FS_CardinalityType DEF PendingInv, InflightCounts

(***************************************************************************)
(* The parts of the steps.                                                 *)
(***************************************************************************)

\* An answer ends the count of the steps in flight, or is one of many.
LEMMA FinishType ==
    ASSUME TypeOK, AnsweredOnce, status # "failed", status = "ok" => pending # {},
           NEW result \in Results, FinishEnsemble(result)
    PROVE  /\ status' \in {"ok", "failed"} /\ (status' = "ok" <=> result = "success")
           /\ answers' \in Seq(Results) /\ Len(answers') = 1 /\ answers' # <<>>
<1>1. answers = <<>>
  BY DEF AnsweredOnce, TypeOK
<1>2. answers' = <<result>>
  BY <1>1 DEF FinishEnsemble
<1>3. QED
  BY <1>2 DEF FinishEnsemble, Results

\* Giving up answers the request, which had no answer, whatever is in flight.
LEMMA GiveUpKeeps ==
    ASSUME IInv, status # "failed", status = "ok" => pending # {},
           NEW others \in SUBSET pending, NEW count \in Nat, GiveUp(count, others),
           UNCHANGED request, data' \subseteq Tensors
    PROVE  IInv'
<1>1. /\ status' = "failed" /\ answers' \in Seq(Results) /\ Len(answers') = 1 /\ answers' # <<>>
  <2>1. "failed" \in Results /\ FinishEnsemble("failed")
    BY DEF Results, GiveUp
  <2>2. QED
    BY <2>1, FinishType DEF IInv, FinishEnsemble
<1>2. /\ runs' = runs /\ pending' \subseteq pending /\ inflight' \in Nat
      /\ info' = info /\ given' = given /\ required' = required
  BY DEF GiveUp, request
<1>3. TypeOK'
  BY <1>1, <1>2 DEF IInv, TypeOK
<1>4. PendingInv'
  BY <1>2, FS_Subset DEF IInv, PendingInv
<1>5. StepsOnce' /\ InputsSettled'
  BY <1>2 DEF IInv, StepsOnce, InputsSettled
<1>6. NewInv' /\ InflightCounts' /\ NoneMissed' /\ DataInv' /\ AnsweredOnce'
  BY <1>1 DEF NewInv, InflightCounts, NoneMissed, DataInv, AnsweredOnce
<1>7. QED
  BY <1>3, <1>4, <1>5, <1>6 DEF IInv

\* Preparing the steps that became ready, after `made' was recorded, keeps the
\* invariant when no step that ran reads `made', and when the steps that wrote
\* it have completed.
LEMMA PrepareStepsKeeps ==
    ASSUME IInv, status # "failed", status = "ok" => pending # {},
           NEW made \in SUBSET Tensors, NEW have, have = data \cup made, data' = have,
           NEW others \in SUBSET pending, IsFiniteSet(others),
           NEW count, count = Cardinality(others),
           InputsKept(info) =>
               \A s \in DOMAIN runs : runs[s] > 0 => info.needs[s] \cap made = {},
           InputsKept(info) =>
               \A t \in made :
                   \/ t \in info.inputs
                   \/ \E s \in DOMAIN runs :
                          t \in info.makes[s] /\ runs[s] > 0 /\ \A p \in others : p.step # s,
           PrepareSteps(NextSteps(made, have), have, count, others),
           UNCHANGED request
    PROVE  IInv'
<1> DEFINE next == NextSteps(made, have)
<1>1. /\ info' = info /\ given' = given /\ required' = required
      /\ inflight' = count + Cardinality(next)
      /\ pending' = others \cup Prepared(next)
      /\ runs' = [s \in DOMAIN runs |-> IF s \in next THEN runs[s] + 1 ELSE runs[s]]
  BY DEF request, PrepareSteps
<1>2. /\ TypeOK /\ PendingInv /\ info \in Ensembles /\ DOMAIN runs = DOMAIN info.needs
      /\ \A s \in DOMAIN runs : runs[s] \in Nat
  BY DEF IInv, TypeOK
<1>3. /\ next = {s \in DOMAIN runs : info.needs[s] \subseteq have /\ info.needs[s] \cap made # {}}
      /\ next \in SUBSET DOMAIN runs
  BY <1>2 DEF NextSteps
<1>4. /\ IsFiniteSet(next)
      /\ Prepared(next) \subseteq StepRuns
      /\ \A p \in Prepared(next) : p.step \in next /\ p.turn = runs[p.step] + 1
      /\ \A p, q \in Prepared(next) : p.step = q.step => p = q
      /\ Prepared(next) \cap others = {}
  <2>1. PICK n \in SUBSET DOMAIN runs : n = next
    BY <1>3
  <2>2. /\ IsFiniteSet(n)
        /\ Prepared(n) \subseteq StepRuns
        /\ \A p \in Prepared(n) : p.step \in n /\ p.turn = runs[p.step] + 1
        /\ \A p, q \in Prepared(n) : p.step = q.step => p = q
        /\ Prepared(n) \cap pending = {}
    BY <1>2, PreparedFacts
  <2>3. QED
    BY <2>1, <2>2
<1> HIDE DEF next
<1>5. /\ DOMAIN runs' = DOMAIN runs
      /\ \A s \in DOMAIN runs : runs'[s] = IF s \in next THEN runs[s] + 1 ELSE runs[s]
      /\ \A s \in DOMAIN runs : runs'[s] \in Nat /\ runs'[s] >= runs[s]
  BY <1>1, <1>2
<1>6. IsFiniteSet(pending') /\ inflight' = Cardinality(pending') /\ inflight' \in Nat
  <2>1. IsFiniteSet(Prepared(next)) /\ Cardinality(Prepared(next)) = Cardinality(next)
    BY <1>4, PreparedCount
  <2>2. /\ IsFiniteSet(others \cup Prepared(next))
        /\ Cardinality(others \cup Prepared(next)) =
              Cardinality(others) + Cardinality(Prepared(next)) - Cardinality(others \cap Prepared(next))
    BY <2>1, FS_Union
  <2>3. Cardinality(others \cap Prepared(next)) = 0
    <3>1. others \cap Prepared(next) = {}
      BY <1>4
    <3>2. QED
      BY <3>1, FS_EmptySet, Zenon
  <2>4. Cardinality(others) \in Nat /\ Cardinality(next) \in Nat
    BY <1>4, FS_CardinalityType
  <2>5. Cardinality(others \cup Prepared(next)) = Cardinality(others) + Cardinality(next)
    BY <2>1, <2>2, <2>3, <2>4
  <2>6. Cardinality(others) + Cardinality(next) \in Nat
    BY <2>4
  <2>7. QED
    BY <1>1, <2>2, <2>5, <2>6
<1>7. inflight' = 0 <=> pending' = {}
  BY <1>6, FS_EmptySet
<1>8. /\ status' \in {"ok", "failed"} /\ answers' \in Seq(Results) /\ Len(answers') <= 1
      /\ answers' = <<>> <=> status' = "ok" /\ pending' # {}
  <2>1. CASE inflight' = 0
    <3>1. PICK result \in Outcomes(have) : FinishEnsemble(result)
      BY <2>1 DEF PrepareSteps
    <3>2. result \in Results
      BY DEF Outcomes, Results
    <3>3. /\ status' \in {"ok", "failed"} /\ answers' \in Seq(Results)
          /\ Len(answers') = 1 /\ answers' # <<>>
      BY <3>1, <3>2, FinishType DEF IInv
    <3>4. QED
      BY <1>7, <2>1, <3>3
  <2>2. CASE inflight' # 0
    <3>1. status' = "ok" /\ answers' = answers
      BY <2>2 DEF PrepareSteps
    <3>2. answers = <<>> /\ answers \in Seq(Results) /\ Len(answers) <= 1
      BY DEF IInv, AnsweredOnce, TypeOK
    <3>3. QED
      BY <1>7, <2>2, <3>1, <3>2
  <2>3. QED
    BY <2>1, <2>2
<1>9. TypeOK'
  <2>1. runs' \in [DOMAIN info.needs -> Nat]
    BY <1>1, <1>2, <1>5
  <2>2. pending' \subseteq StepRuns /\ data' \subseteq Tensors
    BY <1>1, <1>2, <1>4 DEF TypeOK
  <2>3. QED
    BY <1>1, <1>2, <1>6, <1>8, <2>1, <2>2 DEF TypeOK
<1>10. PendingInv'
  <2>1. \A p \in others : p.step \in DOMAIN runs /\ p.turn \in Nat /\ p.turn <= runs[p.step]
    BY <1>2 DEF PendingInv, TypeOK, StepRuns
  <2>2. \A p \in Prepared(next) : p.step \in DOMAIN runs /\ p.turn = runs'[p.step] /\ p.turn > runs[p.step]
    BY <1>2, <1>3, <1>4, <1>5
  <2>3. \A p \in pending' : p.step \in DOMAIN runs' /\ p.turn <= runs'[p.step]
    BY <1>1, <1>2, <1>5, <2>1, <2>2
  <2>4. \A p, q \in pending' : p.step = q.step /\ p.turn = q.turn => p = q
    <3>1. \A p, q \in others : p.step = q.step /\ p.turn = q.turn => p = q
      BY <1>2 DEF PendingInv
    <3>2. \A p \in others, q \in Prepared(next) : ~(p.step = q.step /\ p.turn = q.turn)
      BY <1>2, <2>1, <2>2
    <3>3. QED
      BY <1>1, <1>4, <3>1, <3>2
  <2>5. QED
    BY <1>6, <2>3, <2>4 DEF PendingInv
<1>11. \A s \in DOMAIN runs : runs[s] > 0 <=> info.needs[s] \subseteq data
  BY DEF IInv, NoneMissed
<1>12. \A s \in DOMAIN runs : runs'[s] > 0 <=> info.needs[s] \subseteq data'
  <2>1. \A s \in DOMAIN runs : runs'[s] > 0 <=> runs[s] > 0 \/ s \in next
    BY <1>2, <1>5
  <2>2. QED
    BY <1>3, <1>11, <2>1
<1>13. InputsKept(info) => \A s \in next : runs[s] = 0
  BY <1>2, <1>3
<1>14. InputsKept(info) => \A t \in data' : t \in info.inputs \/ Completed(t)'
  <2> SUFFICES ASSUME InputsKept(info), NEW t \in data', t \notin info.inputs
               PROVE  Completed(t)'
    OBVIOUS
  <2>1. PICK s \in DOMAIN runs :
            t \in info.makes[s] /\ runs[s] > 0 /\ \A p \in others : p.step # s
    BY DEF IInv, DataInv, Completed
  <2>2. runs'[s] > 0 /\ s \notin next
    BY <1>2, <1>5, <1>13, <2>1
  <2>3. \A p \in pending' : p.step # s
    BY <1>1, <1>4, <2>1, <2>2
  <2>4. QED
    BY <1>1, <1>5, <2>1, <2>2, <2>3 DEF Completed
<1>15. InputsSettled'
  <2> SUFFICES ASSUME InputsKept(info), NEW p \in pending', NEW q \in pending',
                      NEW t \in info.makes[q.step] \cap info.needs[p.step]
               PROVE  FALSE
    BY <1>1 DEF InputsSettled
  <2>1. p.step \in DOMAIN runs /\ q.step \in DOMAIN runs /\ runs'[p.step] > 0
    BY <1>5, <1>9, <1>10 DEF PendingInv, TypeOK, StepRuns
  <2>2. t \in data'
    BY <1>12, <2>1
  <2>3. t \notin info.inputs
    BY <1>2, <2>1, EnsembleFacts
  <2>4. PICK s \in DOMAIN runs : t \in info.makes[s] /\ \A r \in pending' : r.step # s
    BY <1>1, <1>5, <1>14, <2>2, <2>3 DEF Completed
  <2>5. QED
    BY <1>2, <2>1, <2>4, EnsembleFacts
<1>16. StepsOnce'
  BY <1>1, <1>2, <1>5, <1>13 DEF IInv, StepsOnce
<1>17. NewInv' /\ InflightCounts' /\ AnsweredOnce' /\ NoneMissed' /\ DataInv'
  BY <1>1, <1>5, <1>6, <1>8, <1>12, <1>14
     DEF NewInv, InflightCounts, AnsweredOnce, NoneMissed, DataInv
<1>18. QED
  BY <1>9, <1>10, <1>15, <1>16, <1>17 DEF IInv

(***************************************************************************)
(* The invariant.                                                          *)
(***************************************************************************)

\* A step handed to its model stays the same run.
LEMMA ScheduleKeeps ==
    ASSUME IInv, NEW p \in pending, Schedule(p)
    PROVE  IInv'
<1> DEFINE q == [p EXCEPT !.at = "running"]
<1>1. p \in StepRuns
  BY DEF IInv, TypeOK
<1>2. q \in StepRuns /\ q.step = p.step /\ q.turn = p.turn
  BY <1>1 DEF StepRuns
<1>3. /\ pending' = (pending \ {p}) \cup {q}
      /\ info' = info /\ given' = given /\ required' = required /\ data' = data
      /\ status' = status /\ inflight' = inflight /\ runs' = runs /\ answers' = answers
  BY DEF Schedule, request
<1>4. q \notin pending \ {p}
  BY <1>2 DEF IInv, PendingInv
<1> HIDE DEF q
<1>5. IsFiniteSet(pending') /\ Cardinality(pending') = Cardinality(pending)
  <2>1. IsFiniteSet(pending) /\ Cardinality(pending) \in Nat
    BY FS_CardinalityType DEF IInv, PendingInv
  <2>2. IsFiniteSet(pending \ {p}) /\ Cardinality(pending \ {p}) = Cardinality(pending) - 1
    BY <2>1, FS_RemoveElement
  <2>3. /\ IsFiniteSet((pending \ {p}) \cup {q})
        /\ Cardinality((pending \ {p}) \cup {q}) = Cardinality(pending \ {p}) + 1
    BY <1>4, <2>2, FS_AddElement
  <2>4. QED
    BY <1>3, <2>1, <2>2, <2>3
<1>6. /\ \A r \in pending' : \E o \in pending : o.step = r.step /\ o.turn = r.turn
      /\ \A o \in pending : \E r \in pending' : o.step = r.step /\ o.turn = r.turn
      /\ pending' # {} /\ pending # {}
  BY <1>2, <1>3
<1>7. TypeOK'
  BY <1>2, <1>3 DEF IInv, TypeOK
<1>8. PendingInv'
  BY <1>2, <1>3, <1>5 DEF IInv, PendingInv
<1>9. NewInv' /\ InflightCounts' /\ AnsweredOnce' /\ NoneMissed' /\ StepsOnce'
  BY <1>3, <1>5, <1>6 DEF IInv, NewInv, InflightCounts, AnsweredOnce, NoneMissed, StepsOnce
<1>10. InputsSettled'
  <2> SUFFICES ASSUME InputsKept(info), NEW r \in pending', NEW o \in pending'
               PROVE  info.makes[o.step] \cap info.needs[r.step] = {}
    BY <1>3 DEF InputsSettled
  <2>1. PICK r1 \in pending : r1.step = r.step
    BY <1>6
  <2>2. PICK o1 \in pending : o1.step = o.step
    BY <1>6
  <2>3. info.makes[o1.step] \cap info.needs[r1.step] = {}
    BY DEF IInv, InputsSettled
  <2>4. QED
    BY <2>1, <2>2, <2>3
<1>11. DataInv'
  BY <1>3, <1>6 DEF IInv, DataInv, Completed
<1>12. QED
  BY <1>7, <1>8, <1>9, <1>10, <1>11 DEF IInv

\* The context is created, and its first steps prepared, from nothing.
LEMMA EnqueueKeeps == ASSUME IInv, Enqueue PROVE IInv'
<1>1. /\ status = "new" /\ pending = {} /\ data = {} /\ inflight = 0
      /\ \A s \in DOMAIN runs : runs[s] = 0
      /\ UNCHANGED request
  <2>1. status = "new" /\ UNCHANGED request
    BY DEF Enqueue
  <2>2. pending = {} /\ data = {} /\ \A s \in DOMAIN runs : runs[s] = 0
    BY <2>1 DEF IInv, NewInv
  <2>3. inflight = 0
    BY <2>1, <2>2, FS_EmptySet DEF IInv, InflightCounts
  <2>4. QED
    BY <2>1, <2>2, <2>3
<1>2. Fed \subseteq info.inputs /\ Fed \subseteq Tensors
  BY EnsembleFacts DEF IInv, TypeOK, Fed
<1>3. IsFiniteSet({}) /\ Cardinality({}) = 0
  BY FS_EmptySet
<1>4. CASE data' = Fed /\ PrepareSteps(NextSteps(Fed, Fed), Fed, 0, {})
  <2>1. Fed = data \cup Fed /\ {} \in SUBSET pending /\ Fed \in SUBSET Tensors
    BY <1>1, <1>2
  <2>2. \A s \in DOMAIN runs : ~(runs[s] > 0)
    BY <1>1
  <2>3. \A t \in Fed : t \in info.inputs
    BY <1>2
  <2>4. status # "failed" /\ ~(status = "ok")
    BY <1>1
  <2>5. QED
    BY <1>1, <1>3, <1>4, <2>1, <2>2, <2>3, <2>4, PrepareStepsKeeps
<1>5. CASE data' \in {{}, Fed} /\ GiveUp(0, {})
  BY <1>1, <1>2, <1>5, GiveUpKeeps
<1>6. QED
  BY <1>4, <1>5 DEF Enqueue

\* What a step in flight returns was written and read by no step before.
LEMMA MadeFacts ==
    ASSUME IInv, NEW p \in pending, status = "ok", NEW made \in SUBSET info.makes[p.step]
    PROVE  /\ made \in SUBSET Tensors
           /\ InputsKept(info) =>
                  \A s \in DOMAIN runs : runs[s] > 0 => info.needs[s] \cap made = {}
           /\ InputsKept(info) =>
                  \A t \in made :
                      \/ t \in info.inputs
                      \/ \E s \in DOMAIN runs :
                             t \in info.makes[s] /\ runs[s] > 0 /\ \A q \in pending \ {p} : q.step # s
<1>1. /\ info \in Ensembles /\ DOMAIN runs = DOMAIN info.needs
      /\ p.step \in DOMAIN runs /\ p.turn \in Nat \ {0} /\ p.turn <= runs[p.step]
      /\ \A s \in DOMAIN runs : runs[s] \in Nat
  BY DEF IInv, TypeOK, PendingInv, StepRuns
<1>2. made \in SUBSET Tensors
  BY <1>1, EnsembleFacts
<1>3. ASSUME InputsKept(info), NEW s \in DOMAIN runs, runs[s] > 0, NEW t \in info.needs[s] \cap made
      PROVE  FALSE
  <2>1. t \in data
    BY <1>3 DEF IInv, NoneMissed
  <2>2. t \notin info.inputs
    BY <1>1, <1>3, EnsembleFacts
  <2>3. PICK r \in DOMAIN runs : t \in info.makes[r] /\ r # p.step
    BY <1>3, <2>1, <2>2 DEF IInv, DataInv, Completed
  <2>4. QED
    BY <1>1, <2>3, EnsembleFacts
<1>4. ASSUME InputsKept(info), NEW q \in pending \ {p}, q.step = p.step
      PROVE  FALSE
  <2>1. runs[p.step] <= 1 /\ q.turn \in Nat \ {0} /\ q.turn <= runs[q.step]
    BY <1>1, <1>4 DEF IInv, StepsOnce, TypeOK, PendingInv, StepRuns
  <2>2. q.turn = p.turn
    BY <1>1, <1>4, <2>1
  <2>3. QED
    BY <1>4, <2>2 DEF IInv, PendingInv
<1>5. runs[p.step] > 0
  BY <1>1
<1>6. QED
  BY <1>1, <1>2, <1>3, <1>4, <1>5

\* The completion function of a step.
LEMMA CompleteKeeps == ASSUME IInv, NEW p \in pending, Complete(p) PROVE IInv'
<1>1. UNCHANGED request
  BY DEF Complete
<1>2. ASSUME status = "ok", NEW made \in SUBSET info.makes[p.step]
      PROVE  /\ pending # {} /\ status # "failed"
             /\ pending \ {p} \in SUBSET pending /\ IsFiniteSet(pending \ {p})
             /\ inflight - 1 = Cardinality(pending \ {p}) /\ inflight - 1 \in Nat
             /\ data \cup made \subseteq Tensors
  <2>1. inflight - 1 = Cardinality(pending \ {p}) /\ IsFiniteSet(pending \ {p})
    BY <1>2, RemovedCount DEF IInv
  <2>2. Cardinality(pending \ {p}) \in Nat
    BY <2>1, FS_CardinalityType
  <2>3. data \subseteq Tensors /\ made \subseteq Tensors
    BY <1>2, MadeFacts DEF IInv, TypeOK
  <2>4. QED
    BY <1>2, <2>1, <2>2, <2>3
<1>3. ASSUME NEW made \in SUBSET info.makes[p.step], Succeed(p, made) PROVE IInv'
  <2> DEFINE have == data \cup made
             next == NextSteps(made, have)
  <2>1. status = "ok" /\ data' = have
    BY <1>3 DEF Succeed
  <2>2. CASE PrepareSteps(next, have, inflight - 1, pending \ {p})
    <3> HIDE DEF have, next
    <3>1. /\ made \in SUBSET Tensors
          /\ InputsKept(info) =>
                 \A s \in DOMAIN runs : runs[s] > 0 => info.needs[s] \cap made = {}
          /\ InputsKept(info) =>
                 \A t \in made :
                     \/ t \in info.inputs
                     \/ \E s \in DOMAIN runs :
                            t \in info.makes[s] /\ runs[s] > 0 /\ \A q \in pending \ {p} : q.step # s
      BY <2>1, MadeFacts, Zenon
    <3>2. /\ pending # {} /\ status # "failed" /\ pending \ {p} \in SUBSET pending
          /\ IsFiniteSet(pending \ {p}) /\ inflight - 1 = Cardinality(pending \ {p})
      BY <1>2, <2>1
    <3>3. have = data \cup made /\ next = NextSteps(made, have)
      BY DEF have, next
    <3>4. QED
      BY <1>1, <2>1, <2>2, <3>1, <3>2, <3>3, PrepareStepsKeeps
  <2>3. CASE GiveUp(inflight - 1, pending \ {p})
    BY <1>1, <1>2, <2>1, <2>3, GiveUpKeeps
  <2>4. QED
    BY <1>3, <2>2, <2>3 DEF Succeed
<1>4. ASSUME NEW made \in SUBSET info.makes[p.step], Fail(p, made) PROVE IInv'
  BY <1>1, <1>2, <1>4, GiveUpKeeps DEF Fail
<1>5. ASSUME Ignore(p) PROVE IInv'
  <2>1. /\ status = "failed" /\ pending' = pending \ {p}
        /\ info' = info /\ given' = given /\ required' = required /\ data' = data
        /\ status' = status /\ inflight' = inflight /\ runs' = runs /\ answers' = answers
    BY <1>1, <1>5 DEF Ignore, request
  <2>2. TypeOK' /\ StepsOnce' /\ InputsSettled'
    BY <2>1 DEF IInv, TypeOK, StepsOnce, InputsSettled
  <2>3. PendingInv'
    BY <2>1, FS_Subset DEF IInv, PendingInv
  <2>4. NewInv' /\ InflightCounts' /\ AnsweredOnce' /\ NoneMissed' /\ DataInv'
    BY <2>1 DEF IInv, NewInv, InflightCounts, AnsweredOnce, NoneMissed, DataInv
  <2>5. QED
    BY <2>2, <2>3, <2>4 DEF IInv
<1>6. QED
  BY <1>3, <1>4, <1>5 DEF Complete

\* Before its context is created the request satisfies the invariant.
LEMMA InitIInv == ASSUME Init PROVE IInv
<1>1. /\ info \in Ensembles /\ pending = {} /\ data = {} /\ answers = <<>> /\ inflight = 0
      /\ status = "new" /\ runs = [s \in DOMAIN info.needs |-> 0]
      /\ given \subseteq info.inputs /\ required \subseteq info.outputs
  BY DEF Init
<1>2. IsFiniteSet({}) /\ Cardinality({}) = 0
  BY FS_EmptySet
<1>3. \A s \in DOMAIN runs : runs[s] = 0 /\ info.needs[s] # {}
  BY <1>1, EnsembleFacts
<1>4. TypeOK
  BY <1>1 DEF TypeOK
<1>5. PendingInv /\ InflightCounts
  BY <1>1, <1>2, Zenon DEF PendingInv, InflightCounts
<1>6. NoneMissed
  BY <1>1, <1>3 DEF NoneMissed
<1>7. NewInv /\ DataInv /\ AnsweredOnce /\ StepsOnce /\ InputsSettled
  BY <1>1, <1>3 DEF NewInv, DataInv, AnsweredOnce, StepsOnce, InputsSettled
<1>8. QED
  BY <1>4, <1>5, <1>6, <1>7 DEF IInv

\* Every step of the ensemble keeps the invariant.
LEMMA NextIInv == ASSUME IInv, [Next]_vars PROVE IInv'
<1>1. CASE Enqueue
  BY <1>1, EnqueueKeeps
<1>2. ASSUME NEW p \in pending, Schedule(p) PROVE IInv'
  BY <1>2, ScheduleKeeps
<1>3. ASSUME NEW p \in pending, Complete(p) PROVE IInv'
  BY <1>3, CompleteKeeps
<1>4. CASE UNCHANGED vars
  <2>1. /\ info' = info /\ given' = given /\ required' = required /\ data' = data
        /\ status' = status /\ inflight' = inflight /\ runs' = runs /\ answers' = answers
        /\ pending' = pending
    BY <1>4 DEF vars, request
  <2>2. TypeOK' /\ NewInv' /\ PendingInv' /\ DataInv'
    BY <2>1 DEF IInv, TypeOK, NewInv, PendingInv, DataInv, Completed
  <2>3. InflightCounts' /\ AnsweredOnce' /\ NoneMissed' /\ StepsOnce' /\ InputsSettled'
    BY <2>1 DEF IInv, InflightCounts, AnsweredOnce, NoneMissed, StepsOnce, InputsSettled
  <2>4. QED
    BY <2>2, <2>3 DEF IInv
<1>5. QED
  BY <1>1, <1>2, <1>3, <1>4 DEF Next, Released

\* The inductive invariant holds throughout.
THEOREM Invariance == Spec => []IInv
<1>1. Init => IInv
  BY InitIInv
<1>2. IInv /\ [Next]_vars => IInv'
  BY NextIInv
<1>3. QED
  BY <1>1, <1>2, PTL DEF Spec

\* The members of the context have their types.
THEOREM TypeCorrect == Spec => []TypeOK
<1>1. IInv => TypeOK
  BY DEF IInv
<1>2. QED
  BY <1>1, Invariance, PTL

\* The counter of steps in flight is exact until the ensemble has an error.
THEOREM CountIsExact == Spec => []InflightCounts
<1>1. IInv => InflightCounts
  BY DEF IInv
<1>2. QED
  BY <1>1, Invariance, PTL

\* An ensemble request is answered once, whatever fails and in whichever order
\* its steps complete.
THEOREM AnsweredOnceOnly == Spec => []AnsweredOnce
<1>1. IInv => AnsweredOnce
  BY DEF IInv
<1>2. QED
  BY <1>1, Invariance, PTL

\* No step is run twice if the ensemble's inputs are written by no step.
THEOREM StepsRunOnce == Spec => []StepsOnce
<1>1. IInv => StepsOnce
  BY DEF IInv
<1>2. QED
  BY <1>1, Invariance, PTL

\* What a step in flight reads is written by no other in flight.
THEOREM InputsAreSettled == Spec => []InputsSettled
<1>1. IInv => InputsSettled
  BY DEF IInv
<1>2. QED
  BY <1>1, Invariance, PTL

\* The steps prepared are those whose inputs all have data.
THEOREM NoStepMissed == Spec => []NoneMissed
<1>1. IInv => NoneMissed
  BY DEF IInv
<1>2. QED
  BY <1>1, Invariance, PTL

(***************************************************************************)
(* The data-flow check of validation: what it finds ready is in every set  *)
(* of tensors that has the inputs and, with all a step reads, all that the *)
(* step writes.                                                            *)
(***************************************************************************)

\* A pass of the check, and its first n passes.
Advance(g, before) == before \cup {t \in Written(g) : Feeds(g, t) \subseteq before}

IsPasses(g, n, f) == f = [k \in 0..n |-> IF k = 0 THEN g.inputs ELSE Advance(g, f[k - 1])]

\* A set of natural numbers that is not empty has a least one.
LEMMA LeastNumber ==
    ASSUME NEW T \in SUBSET Nat, T # {}
    PROVE  \E m \in T : \A n \in T : m <= n
<1>1. PICK R : R = {ss \in Nat \X Nat : ss[1] < ss[2]}
  OBVIOUS
<1>2. R = OpToRel(<, Nat)
  BY <1>1 DEF OpToRel
<1>3. PICK m \in T : \A n \in T : ~ (<<n, m>> \in R)
  BY <1>2, NatLessThanWellFounded, WFMin
<1>4. ASSUME NEW n \in T PROVE m <= n
  <2>1. <<n, m>> \notin R /\ m \in Nat /\ n \in Nat
    BY <1>3
  <2>2. QED
    BY <1>1, <2>1
<1>5. QED
  BY <1>4

\* The passes are defined, as many as they may be.
LEMMA PassesExist == ASSUME NEW g, NEW n \in Nat PROVE \E f : IsPasses(g, n, f)
<1>1. PICK T : T = {m \in Nat : ~ \E f : IsPasses(g, m, f)}
  OBVIOUS
<1>2. ASSUME T # {} PROVE FALSE
  <2>1. PICK m \in T : \A k \in T : m <= k
    BY <1>1, <1>2, LeastNumber
  <2>2. m \in Nat /\ ~ \E f : IsPasses(g, m, f)
    BY <1>1, <2>1
  <2>3. CASE m = 0
    <3>1. PICK f : f = [k \in 0..0 |-> g.inputs]
      OBVIOUS
    <3>2. f = [k \in 0..0 |-> IF k = 0 THEN g.inputs ELSE Advance(g, f[k - 1])]
      BY <3>1
    <3>3. QED
      BY <2>2, <2>3, <3>2 DEF IsPasses
  <2>4. CASE m # 0
    <3>1. m - 1 \in Nat /\ ~(m <= m - 1)
      BY <2>2, <2>4
    <3>2. PICK h : IsPasses(g, m - 1, h)
      BY <1>1, <2>1, <3>1
    <3>3. PICK f : f = [k \in 0..m |-> IF k = m THEN Advance(g, h[m - 1]) ELSE h[k]]
      OBVIOUS
    <3>4. ASSUME NEW k \in 0..m
          PROVE  f[k] = IF k = 0 THEN g.inputs ELSE Advance(g, f[k - 1])
      <4>1. CASE k = m
        <5>1. f[k] = Advance(g, h[m - 1])
          BY <3>3, <4>1
        <5>2. m - 1 \in 0..m /\ m - 1 # m
          BY <2>2, <3>1
        <5>3. f[m - 1] = h[m - 1]
          BY <3>3, <5>2
        <5>4. QED
          BY <2>4, <4>1, <5>1, <5>3
      <4>2. CASE k # m /\ k = 0
        <5>1. f[k] = h[k] /\ k \in 0..(m - 1)
          BY <3>1, <3>3, <4>2
        <5>2. QED
          BY <3>2, <4>2, <5>1 DEF IsPasses
      <4>3. CASE k # m /\ k # 0
        <5>1. k \in 0..(m - 1) /\ k - 1 \in 0..m /\ k - 1 # m
          BY <2>2, <3>4, <4>3
        <5>2. f[k] = h[k] /\ f[k - 1] = h[k - 1]
          BY <3>3, <3>4, <4>3, <5>1
        <5>3. h[k] = Advance(g, h[k - 1])
          BY <3>2, <4>3, <5>1 DEF IsPasses
        <5>4. QED
          BY <4>3, <5>2, <5>3
      <4>4. QED
        BY <4>1, <4>2, <4>3
    <3>5. f = [k \in 0..m |-> IF k = 0 THEN g.inputs ELSE Advance(g, f[k - 1])]
      BY <3>3, <3>4
    <3>6. QED
      BY <2>2, <3>5 DEF IsPasses
  <2>5. QED
    BY <2>3, <2>4
<1>3. QED
  BY <1>1, <1>2

\* What has the inputs, and the tensors written by the steps it feeds, has all
\* that the check finds ready.
LEMMA ReadyWithin ==
    ASSUME NEW g, NEW have, g.inputs \subseteq have,
           \A s \in DOMAIN g.needs : g.needs[s] \subseteq have => g.makes[s] \subseteq have
    PROVE  Ready(g) \subseteq have
<1>1. PICK N : N = Cardinality(Tensors) /\ N \in Nat
  BY StepsAssumption, FS_CardinalityType
<1>2. PICK f : f = CHOOSE h : IsPasses(g, N, h)
  OBVIOUS
<1>3. IsPasses(g, N, f)
  BY <1>1, <1>2, PassesExist
<1>4. Ready(g) = f[N]
  BY <1>1, <1>2 DEF Ready, IsPasses, Advance
<1>5. ASSUME NEW before \in SUBSET have PROVE Advance(g, before) \subseteq have
  <2>1. ASSUME NEW t \in Written(g), Feeds(g, t) \subseteq before PROVE t \in have
    <3>1. PICK s \in DOMAIN g.needs : t \in g.makes[s]
      BY DEF Written
    <3>2. g.needs[s] \subseteq have
      BY <2>1, <3>1 DEF Feeds
    <3>3. QED
      BY <3>1, <3>2
  <2>2. QED
    BY <2>1 DEF Advance
<1>6. PICK T : T = {m \in 0..N : ~(f[m] \subseteq have)}
  OBVIOUS
<1>7. ASSUME T # {} PROVE FALSE
  <2>1. T \in SUBSET Nat
    BY <1>1, <1>6
  <2>2. PICK m \in T : \A k \in T : m <= k
    BY <1>7, <2>1, LeastNumber
  <2>3. m \in 0..N /\ ~(f[m] \subseteq have) /\ f[m] = IF m = 0 THEN g.inputs ELSE Advance(g, f[m - 1])
    BY <1>3, <1>6, <2>2 DEF IsPasses
  <2>4. m # 0 /\ f[m] = Advance(g, f[m - 1])
    BY <2>3
  <2>5. m - 1 \in 0..N /\ ~(m <= m - 1)
    BY <1>1, <2>3, <2>4
  <2>6. f[m - 1] \subseteq have
    BY <1>6, <2>2, <2>5
  <2>7. QED
    BY <1>5, <2>3, <2>4, <2>6
<1>8. QED
  BY <1>1, <1>4, <1>6, <1>7

(***************************************************************************)
(* The answer "unexpected deadlock".                                       *)
(***************************************************************************)

\* A context that gives up is not answered with a deadlock.
LEMMA GiveUpStuck ==
    ASSUME TypeOK, answers = <<>>, NEW count, NEW others, GiveUp(count, others)
    PROVE  FedInv' /\ StuckInv'
<1>1. status' = "failed" /\ answers' = <<"failed">>
  BY DEF GiveUp, FinishEnsemble
<1>2. answers' # <<"deadlock">> /\ status' # "ok"
  <2>1. PICK x : x = "failed" /\ x # "deadlock"
    OBVIOUS
  <2>2. <<x>> # <<"deadlock">>
    BY <2>1
  <2>3. QED
    BY <1>1, <2>1, <2>2
<1>3. QED
  BY <1>2 DEF FedInv, StuckInv

\* When none is in flight and none became ready, all that can run has run.
LEMMA PrepareStepsStuck ==
    ASSUME TypeOK, answers = <<>>, NEW have, data' = have, Fed \subseteq have,
           NEW others, IsFiniteSet(others), NEW count, count = Cardinality(others),
           NEW next \in SUBSET DOMAIN runs, IsFiniteSet(next),
           next = {} => \A s \in DOMAIN runs : info.needs[s] \subseteq have => runs[s] > 0,
           PrepareSteps(next, have, count, others), UNCHANGED request
    PROVE  FedInv' /\ StuckInv'
<1>1. info' = info /\ given' = given /\ required' = required
  BY DEF request
<1>2. FedInv'
  BY <1>1 DEF FedInv, Fed
<1>3. ASSUME answers' = <<"deadlock">>
      PROVE  /\ inflight' = 0 /\ status' = "failed" /\ ~(required \subseteq have)
  <2>1. answers' # answers
    BY <1>3
  <2>2. inflight' = 0
    BY <2>1 DEF PrepareSteps
  <2>3. PICK result \in Outcomes(have) : FinishEnsemble(result)
    BY <2>2 DEF PrepareSteps
  <2>4. answers' = <<result>>
    BY <2>3 DEF FinishEnsemble
  <2>5. result = "deadlock"
    BY <1>3, <2>4
  <2>6. ~(required \subseteq have)
    BY <2>3, <2>5 DEF Outcomes
  <2>7. QED
    BY <2>2, <2>3, <2>5, <2>6 DEF FinishEnsemble
<1>4. ASSUME inflight' = 0 PROVE next = {} /\ pending' = {} /\ UNCHANGED runs
  <2>1. /\ inflight' = Cardinality(others) + Cardinality(next)
        /\ Cardinality(others) \in Nat /\ Cardinality(next) \in Nat
    BY FS_CardinalityType DEF PrepareSteps
  <2>2. Cardinality(others) = 0 /\ Cardinality(next) = 0
    BY <1>4, <2>1
  <2>3. others = {} /\ next = {}
    BY <2>2, FS_EmptySet
  <2>4. Prepared(next) = {}
    BY <2>3 DEF Prepared
  <2>5. runs' = [s \in DOMAIN runs |-> IF s \in next THEN runs[s] + 1 ELSE runs[s]] /\ pending' = others \cup Prepared(next)
    BY DEF PrepareSteps
  <2>6. runs' = runs
    BY <2>3, <2>5 DEF TypeOK
  <2>7. QED
    BY <2>3, <2>4, <2>5, <2>6
<1>5. StuckInv'
  BY <1>1, <1>3, <1>4 DEF StuckInv, Fed
<1>6. QED
  BY <1>2, <1>5

\* The first steps, those that the inputs sent feed.
LEMMA EnqueueStuck == ASSUME IInv, Enqueue PROVE FedInv' /\ StuckInv'
<1>1. /\ TypeOK /\ status = "new" /\ answers = <<>> /\ UNCHANGED request
  BY DEF Enqueue, IInv, NewInv
<1>2. CASE data' = Fed /\ PrepareSteps(NextSteps(Fed, Fed), Fed, 0, {})
  <2>1. PICK next : next = NextSteps(Fed, Fed)
    OBVIOUS
  <2>2. IsFiniteSet({}) /\ Cardinality({}) = 0
    BY FS_EmptySet
  <2>3. /\ next = {s \in DOMAIN runs : info.needs[s] \subseteq Fed /\ info.needs[s] \cap Fed # {}}
        /\ info \in Ensembles /\ DOMAIN runs = DOMAIN info.needs
    BY <1>1, <2>1 DEF NextSteps, TypeOK
  <2>4. next \in SUBSET DOMAIN runs /\ IsFiniteSet(next)
    BY <2>3, EnsembleFacts, StepsAssumption, FS_Subset
  <2>5. next = {} => \A s \in DOMAIN runs : ~(info.needs[s] \subseteq Fed)
    BY <2>3, EnsembleFacts
  <2>6. PrepareSteps(next, Fed, 0, {}) /\ data' = Fed
    BY <1>2, <2>1
  <2>7. QED
    BY <1>1, <2>2, <2>4, <2>5, <2>6, PrepareStepsStuck
<1>3. CASE GiveUp(0, {})
  BY <1>1, <1>3, GiveUpStuck
<1>4. QED
  BY <1>2, <1>3 DEF Enqueue

\* Once the ensemble is answered with a deadlock no step completes.
LEMMA CompleteStuck == ASSUME IInv, FedInv, StuckInv, NEW p \in pending, Complete(p) PROVE FedInv' /\ StuckInv'
<1>1. TypeOK /\ PendingInv /\ InflightCounts /\ AnsweredOnce /\ UNCHANGED request
  BY DEF Complete, IInv
<1>2. answers # <<"deadlock">>
  BY DEF StuckInv
<1>3. status = "ok" => answers = <<>>
  BY <1>1 DEF AnsweredOnce
<1>4. ASSUME NEW made \in SUBSET info.makes[p.step], Succeed(p, made) PROVE FedInv' /\ StuckInv'
  <2>1. PICK have, next : have = data \cup made /\ next = NextSteps(made, have)
    OBVIOUS
  <2>2. /\ status = "ok" /\ data' = have
        /\ PrepareSteps(next, have, inflight - 1, pending \ {p}) \/ GiveUp(inflight - 1, pending \ {p})
    BY <1>4, <2>1 DEF Succeed
  <2>3. CASE PrepareSteps(next, have, inflight - 1, pending \ {p})
    <3>1. PICK others, count : others = pending \ {p} /\ count = inflight - 1
      OBVIOUS
    <3>2. IsFiniteSet(others) /\ count = Cardinality(others)
      BY <1>1, <2>2, <3>1, RemovedCount
    <3>3. /\ next = {s \in DOMAIN runs : info.needs[s] \subseteq have /\ info.needs[s] \cap made # {}}
          /\ info \in Ensembles /\ DOMAIN runs = DOMAIN info.needs
      BY <1>1, <2>1 DEF NextSteps, TypeOK
    <3>4. next \in SUBSET DOMAIN runs /\ IsFiniteSet(next)
      BY <3>3, EnsembleFacts, StepsAssumption, FS_Subset
    <3>5. ASSUME next = {}, NEW s \in DOMAIN runs, info.needs[s] \subseteq have PROVE runs[s] > 0
      <4>1. info.needs[s] \cap made = {}
        BY <3>3, <3>5
      <4>2. info.needs[s] \subseteq data
        BY <2>1, <3>5, <4>1
      <4>3. QED
        BY <2>2, <4>2 DEF IInv, NoneMissed
    <3>6. Fed \subseteq have
      BY <2>1, <2>2 DEF FedInv
    <3>7. PrepareSteps(next, have, count, others)
      BY <2>3, <3>1
    <3>8. QED
      BY <1>1, <1>3, <2>2, <3>2, <3>4, <3>5, <3>6, <3>7, PrepareStepsStuck
  <2>4. CASE GiveUp(inflight - 1, pending \ {p})
    BY <1>1, <1>3, <2>2, <2>4, GiveUpStuck
  <2>5. QED
    BY <2>2, <2>3, <2>4
<1>5. ASSUME NEW made \in SUBSET info.makes[p.step], Fail(p, made) PROVE FedInv' /\ StuckInv'
  <2>1. status = "ok" /\ GiveUp(inflight - 1, pending \ {p})
    BY <1>5 DEF Fail
  <2>2. QED
    BY <1>1, <1>3, <2>1, GiveUpStuck
<1>6. ASSUME Ignore(p) PROVE FedInv' /\ StuckInv'
  BY <1>2, <1>6 DEF Ignore, FedInv, StuckInv
<1>7. QED
  BY <1>4, <1>5, <1>6 DEF Complete

\* Every step keeps it so.
LEMMA NextStuck == ASSUME IInv, FedInv, StuckInv, [Next]_vars PROVE FedInv' /\ StuckInv'
<1>1. CASE Enqueue
  BY <1>1, EnqueueStuck
<1>2. ASSUME NEW p \in pending, Schedule(p) PROVE FedInv' /\ StuckInv'
  <2>1. UNCHANGED <<info, given, required, data, status, runs, answers>> /\ answers # <<"deadlock">>
    BY <1>2 DEF Schedule, request, StuckInv
  <2>2. QED
    BY <2>1 DEF FedInv, StuckInv, Fed
<1>3. ASSUME NEW p \in pending, Complete(p) PROVE FedInv' /\ StuckInv'
  BY <1>3, CompleteStuck
<1>4. CASE UNCHANGED vars
  BY <1>4 DEF vars, request, FedInv, StuckInv, Fed
<1>5. QED
  BY <1>1, <1>2, <1>3, <1>4 DEF Next, Released

\* At an "unexpected deadlock" of a request with all inputs, a step that ran left
\* an output of its out: else the data-flow check of validation says that every
\* tensor has data.
LEMMA Explained == ASSUME IInv, StuckInv PROVE DeadlockExplained
<1>1. SUFFICES ASSUME InputsKept(info), answers = <<"deadlock">>, given = info.inputs,
                      \A s \in DOMAIN runs : runs[s] > 0 => info.makes[s] \subseteq data
               PROVE  FALSE
  <2>1. answers = <<"deadlock">> => pending = {}
    BY DEF StuckInv
  <2>2. QED
    BY <1>1, <2>1 DEF DeadlockExplained
<1>2. /\ info \in Ensembles /\ DOMAIN runs = DOMAIN info.needs /\ required \subseteq info.outputs
      /\ Valid(info)
  BY EnsemblesAssumption DEF IInv, TypeOK
<1>3. /\ Fed \subseteq data /\ ~(required \subseteq data)
      /\ \A s \in DOMAIN runs : info.needs[s] \subseteq data => runs[s] > 0
  BY <1>1 DEF StuckInv
<1>4. info.inputs \subseteq data
  BY <1>1, <1>3 DEF InputsKept, Fed
<1>5. \A s \in DOMAIN info.needs : info.needs[s] \subseteq data => info.makes[s] \subseteq data
  BY <1>1, <1>2, <1>3
<1>6. Ready(info) \subseteq data
  BY <1>4, <1>5, ReadyWithin
<1>7. info.outputs \subseteq Mapped(info) /\ Mapped(info) \subseteq Ready(info)
  BY <1>2 DEF Valid
<1>8. QED
  BY <1>2, <1>3, <1>6, <1>7

\* A request is answered "unexpected deadlock, no step can be run but not all
\* outputs are set" only if it left out an input or a model left out an output:
\* what validation accepts does not deadlock by itself.
THEOREM DeadlocksExplained == Spec => []DeadlockExplained
<1>1. Init => FedInv /\ StuckInv
  BY DEF Init, FedInv, StuckInv
<1>2. IInv /\ (FedInv /\ StuckInv) /\ [Next]_vars => (FedInv /\ StuckInv)'
  BY NextStuck
<1>3. IInv /\ (FedInv /\ StuckInv) => DeadlockExplained
  BY Explained
<1>4. QED
  BY <1>1, <1>2, <1>3, Invariance, PTL DEF Spec

(***************************************************************************)
(* The refinement of DataFlow, step by step.                               *)
(***************************************************************************)

\* A context starts with nothing active, and without an answer.
LEMMA InitMaps == Init => Flow!Init
  BY DEF Init, Flow!Init, Active, Answer

\* What DataFlow sees when an answer is given for the first time.
LEMMA AnswerGiven ==
    ASSUME TypeOK, answers = <<>>, NEW result, FinishEnsemble(result)
    PROVE  Answer = "none" /\ Answer' = result
<1>1. answers' = <<result>>
  BY DEF FinishEnsemble
<1>2. answers'[1] = result /\ answers' # <<>>
  BY <1>1
<1>3. QED
  BY <1>2 DEF Answer

\* While the context has no error and steps are in flight there is no answer.
LEMMA Unanswered ==
    ASSUME IInv, status = "new" \/ (status = "ok" /\ pending # {})
    PROVE  answers = <<>> /\ Answer = "none"
BY DEF IInv, AnsweredOnce, Answer

\* Giving up is abandoning the request, with the steps that are still active.
LEMMA GiveUpMaps ==
    ASSUME TypeOK, answers = <<>>, NEW count, NEW others, GiveUp(count, others)
    PROVE  Answer = "none" /\ Flow!Abandon({p.step : p \in others}, data')
<1>1. Active' = {p.step : p \in others}
  BY DEF GiveUp, Active
<1>2. Answer = "none" /\ Answer' = "failed"
  BY AnswerGiven DEF GiveUp
<1>3. QED
  BY <1>1, <1>2 DEF Flow!Abandon

\* Preparing the steps `next' is evaluating them with the others, and the
\* request is answered exactly when there are none.
LEMMA PrepareStepsMaps ==
    ASSUME TypeOK, answers = <<>>, Answer = "none",
           NEW next, IsFiniteSet(next), NEW others, IsFiniteSet(others),
           NEW have, PrepareSteps(next, have, Cardinality(others), others), data' = have
    PROVE  Flow!Continue({p.step : p \in others} \cup next, have)
<1> DEFINE steps == {p.step : p \in others} \cup next
<1>1. Active' = steps
  <2>1. pending' = others \cup Prepared(next)
    BY DEF PrepareSteps
  <2>2. \A s \in next : \E p \in Prepared(next) : p.step = s
    <3>1. TAKE s \in next
    <3>2. PICK p \in Prepared(next) : p = [step |-> s, turn |-> runs[s] + 1, at |-> "prepared"]
      BY DEF Prepared
    <3>3. p.step = s
      BY <3>2
    <3>4. QED
      BY <3>3
  <2>3. \A p \in Prepared(next) : p.step \in next
    BY DEF Prepared
  <2>4. QED
    BY <2>1, <2>2, <2>3 DEF Active
<1>2. inflight' = 0 <=> steps = {}
  <2>1. inflight' = Cardinality(others) + Cardinality(next)
    BY DEF PrepareSteps
  <2>2. /\ Cardinality(others) \in Nat /\ Cardinality(next) \in Nat
        /\ Cardinality(others) = 0 <=> others = {}
        /\ Cardinality(next) = 0 <=> next = {}
    BY FS_CardinalityType, FS_EmptySet
  <2>3. steps = {} <=> others = {} /\ next = {}
    <3>1. others # {} => \E s : s \in {p.step : p \in others}
      OBVIOUS
    <3>2. others = {} => {p.step : p \in others} = {}
      OBVIOUS
    <3>3. QED
      BY <3>1, <3>2
  <2>4. Cardinality(others) + Cardinality(next) = 0 <=> others = {} /\ next = {}
    BY <2>2
  <2>5. QED
    BY <2>1, <2>3, <2>4
<1>3. CASE steps = {}
  <2>1. PICK result \in Outcomes(have) : FinishEnsemble(result)
    BY <1>2, <1>3 DEF PrepareSteps
  <2>2. Answer' = result
    BY <2>1, AnswerGiven
  <2>3. result \in {"failed", IF required \subseteq have THEN "success" ELSE "deadlock"}
    BY DEF Outcomes
  <2>4. QED
    BY <1>1, <1>3, <2>2, <2>3 DEF Flow!Continue
<1>4. CASE steps # {}
  <2>1. answers' = answers
    BY <1>2, <1>4 DEF PrepareSteps
  <2>2. Answer' = Answer
    BY <2>1 DEF Answer
  <2>3. QED
    BY <1>1, <1>4, <2>2 DEF Flow!Continue
<1>5. QED
  BY <1>3, <1>4

\* The creation of the context begins the evaluation.
LEMMA EnqueueMaps == ASSUME IInv, Enqueue PROVE Flow!Begin
<1>1. TypeOK /\ status = "new" /\ answers = <<>> /\ Answer = "none" /\ pending = {}
  BY Unanswered DEF Enqueue, IInv, NewInv
<1>2. Active = {} /\ UNCHANGED <<info, given, required>>
  BY <1>1 DEF Active, Enqueue, request
<1>3. NextSteps(Fed, Fed) = Flow!Enabled(Fed)
  <2>1. \A s \in DOMAIN info.needs : info.needs[s] # {}
    BY <1>1, EnsembleFacts DEF TypeOK
  <2>2. QED
    BY <2>1 DEF NextSteps, Flow!Enabled
<1>4. CASE data' = Fed /\ PrepareSteps(NextSteps(Fed, Fed), Fed, 0, {})
  <2>1. IsFiniteSet(NextSteps(Fed, Fed))
    <3>1. NextSteps(Fed, Fed) \in SUBSET DOMAIN runs
      BY <1>1 DEF NextSteps, TypeOK
    <3>2. QED
      BY <1>1, <3>1, PreparedFacts DEF IInv
  <2>2. IsFiniteSet({}) /\ Cardinality({}) = 0
    BY FS_EmptySet
  <2>3. Flow!Continue({p.step : p \in {}} \cup NextSteps(Fed, Fed), Fed)
    BY <1>1, <1>4, <2>1, <2>2, PrepareStepsMaps
  <2>4. {p.step : p \in {}} \cup NextSteps(Fed, Fed) = Flow!Enabled(Fed)
    BY <1>3
  <2>5. QED
    BY <1>1, <1>2, <2>3, <2>4 DEF Flow!Begin, Fed
<1>5. CASE data' \in {{}, Fed} /\ GiveUp(0, {})
  <2>1. Flow!Abandon({p.step : p \in {}}, data')
    BY <1>1, <1>5, GiveUpMaps
  <2>2. {p.step : p \in {}} = {}
    OBVIOUS
  <2>3. QED
    BY <1>1, <1>2, <1>5, <2>1, <2>2 DEF Flow!Begin, Fed
<1>6. QED
  BY <1>4, <1>5 DEF Enqueue

\* A step has one run in flight, if no step writes an input of the ensemble.
LEMMA OneRun ==
    ASSUME IInv, InputsKept(info), NEW p \in pending
    PROVE  {q.step : q \in pending \ {p}} = Active \ {p.step}
<1>1. ASSUME NEW q \in pending, q.step = p.step PROVE q = p
  <2>1. /\ p.turn \in Nat \ {0} /\ p.turn <= runs[p.step] /\ p.step \in DOMAIN runs
        /\ q.turn \in Nat \ {0} /\ q.turn <= runs[p.step]
        /\ runs[p.step] \in Nat /\ runs[p.step] <= 1
    BY <1>1 DEF IInv, TypeOK, PendingInv, StepRuns, StepsOnce
  <2>2. q.turn = p.turn
    BY <2>1
  <2>3. QED
    BY <1>1, <2>2 DEF IInv, PendingInv
<1>2. QED
  BY <1>1 DEF Active

\* The steps that read an updated tensor and have all they need are those that
\* became due: no tensor is updated that had data.
LEMMA FoundAreDue ==
    ASSUME IInv, InputsKept(info), NEW p \in pending, status = "ok",
           NEW made \in SUBSET info.makes[p.step]
    PROVE  NextSteps(made, data \cup made) = Flow!Enabled(data \cup made) \ Flow!Enabled(data)
<1>1. DOMAIN runs = DOMAIN info.needs
  BY DEF IInv, TypeOK
<1>2. \A s \in DOMAIN info.needs : info.needs[s] \subseteq data => info.needs[s] \cap made = {}
  BY <1>1, MadeFacts DEF IInv, NoneMissed
<1>3. QED
  BY <1>2 DEF NextSteps, Flow!Enabled

\* The completion function of a step ends its evaluation.
LEMMA CompleteMaps ==
    ASSUME IInv, InputsKept(info), NEW p \in pending, Complete(p)
    PROVE  \E s \in Active : Flow!Evaluate(s) \/ Flow!Discard(s)
<1>1. p.step \in Active /\ UNCHANGED <<info, given, required>>
  BY DEF Active, Complete, request
<1>2. {q.step : q \in pending \ {p}} = Active \ {p.step}
  BY OneRun
<1>3. ASSUME NEW made \in SUBSET info.makes[p.step], Succeed(p, made) \/ Fail(p, made)
      PROVE  Flow!Evaluate(p.step)
  <2> DEFINE have == data \cup made
             next == NextSteps(made, have)
  <2>1. TypeOK /\ status = "ok" /\ answers = <<>> /\ Answer = "none" /\ data' = have
    BY <1>3, Unanswered DEF IInv, Succeed, Fail
  <2>2. CASE GiveUp(inflight - 1, pending \ {p})
    <3>1. Flow!Abandon(Active \ {p.step}, have)
      BY <1>2, <2>1, <2>2, GiveUpMaps
    <3>2. QED
      BY <1>1, <2>1, <3>1 DEF Flow!Evaluate
  <2>3. CASE PrepareSteps(next, have, inflight - 1, pending \ {p})
    <3>1. inflight - 1 = Cardinality(pending \ {p}) /\ IsFiniteSet(pending \ {p})
      BY <2>1, RemovedCount DEF IInv
    <3>2. IsFiniteSet(next)
      <4>1. next \in SUBSET DOMAIN runs
        BY <2>1 DEF NextSteps, TypeOK
      <4>2. QED
        BY <2>1, <4>1, PreparedFacts DEF IInv
    <3>3. PrepareSteps(next, have, Cardinality(pending \ {p}), pending \ {p})
      BY <2>3, <3>1
    <3>4. Flow!Continue({q.step : q \in pending \ {p}} \cup next, have)
      <4> HIDE DEF next, have
      <4> QED
        BY <2>1, <3>1, <3>2, <3>3, PrepareStepsMaps
    <3>5. next = Flow!Enabled(have) \ Flow!Enabled(data)
      BY <2>1, FoundAreDue
    <3>6. Flow!Continue((Active \ {p.step}) \cup (Flow!Enabled(have) \ Flow!Enabled(data)), have)
      BY <1>2, <3>4, <3>5
    <3>7. QED
      BY <1>1, <2>1, <3>6 DEF Flow!Evaluate
  <2>4. QED
    BY <1>3, <2>2, <2>3 DEF Succeed, Fail
<1>4. CASE Ignore(p)
  <2>1. answers # <<>>
    BY <1>4 DEF IInv, AnsweredOnce, Ignore
  <2>2. answers[1] \in Results
    BY <2>1 DEF IInv, TypeOK
  <2>3. Answer # "none" /\ Answer' = Answer
    BY <1>4, <2>1, <2>2 DEF Answer, Ignore, Results
  <2>4. Active' = Active \ {p.step}
    BY <1>2, <1>4 DEF Ignore, Active
  <2>5. QED
    BY <1>1, <1>4, <2>3, <2>4 DEF Flow!Discard, Ignore
<1>5. QED
  BY <1>1, <1>3, <1>4 DEF Complete

\* Handing a step to its model is not seen.
LEMMA ScheduleUnseen ==
    ASSUME IInv, NEW p \in pending, Schedule(p)
    PROVE  UNCHANGED Flow!vars
<1>1. PICK q : q = [p EXCEPT !.at = "running"]
  OBVIOUS
<1>2. q.step = p.step
  BY <1>1 DEF IInv, TypeOK, StepRuns
<1>3. pending' = (pending \ {p}) \cup {q}
  BY <1>1 DEF Schedule
<1>4. Active' = Active
  BY <1>2, <1>3 DEF Active
<1>5. QED
  BY <1>4 DEF Schedule, request, Flow!vars, Answer

\* Every step of the context is a step of the data flow, or unseen.
LEMMA StepMaps == IInv /\ [Next]_vars => [InputsKept(info) => Flow!Next]_(Flow!vars)
<1> SUFFICES ASSUME IInv, [Next]_vars, InputsKept(info)
             PROVE  Flow!Next \/ UNCHANGED Flow!vars
  OBVIOUS
<1>1. CASE Enqueue
  BY <1>1, EnqueueMaps DEF Flow!Next
<1>2. ASSUME NEW p \in pending, Schedule(p) PROVE UNCHANGED Flow!vars
  BY <1>2, ScheduleUnseen
<1>3. ASSUME NEW p \in pending, Complete(p) PROVE Flow!Next
  BY <1>3, CompleteMaps DEF Flow!Next
<1>4. CASE Released \/ UNCHANGED vars
  BY <1>4 DEF Released, vars, request, Flow!vars, Active, Answer
<1>5. QED
  BY <1>1, <1>2, <1>3, <1>4 DEF Next

\* The counter, the search from the updated tensors and the lists of prepared
\* steps implement the evaluation of the graph, each step once.
THEOREM ImplementsFlow == Spec => ImplementsDataFlow
<1>1. Spec => []IInv
  BY Invariance
<1>2. QED
  BY <1>1, InitMaps, StepMaps, PTL DEF Spec, ImplementsDataFlow
=============================================================================
