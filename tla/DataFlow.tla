------------------------------ MODULE DataFlow ------------------------------
(***************************************************************************)
(* What an ensemble promises for a request: its steps are functions from   *)
(* tensors to tensors, and each is evaluated once, as soon as all that it  *)
(* reads is there; the request is answered once, when nothing is left to   *)
(* evaluate, or at the first failure.                                      *)
(*                                                                         *)
(* Abstract specification: which steps are due follows from the tensors    *)
(* that have data; nothing is counted, searched for or prepared.           *)
(***************************************************************************)
CONSTANT Ensembles  \* the configurations considered

VARIABLES
    info,      \* the ensemble: its inputs, its outputs, what its steps need and make
    given,     \* the inputs the request carries
    required,  \* the outputs it asks for
    data,      \* the tensors that have data
    active,    \* the steps being evaluated
    answer     \* how the request was answered, if it was

vars == <<info, given, required, data, active, answer>>

Init ==
    /\ info \in Ensembles
    /\ given \subseteq info.inputs /\ required \subseteq info.outputs
    /\ data = {}
    /\ active = {}
    /\ answer = "none"

\* The steps that can be evaluated with what is there.
Enabled(have) == {s \in DOMAIN info.needs : info.needs[s] \subseteq have}

\* The steps of next are evaluated; when there are none the request is answered,
\* successfully only if all that it asks for is there.
Continue(next, have) ==
    /\ data' = have
    /\ active' = next
    /\ IF next = {}
       THEN answer' \in {"failed", IF required \subseteq have THEN "success" ELSE "deadlock"}
       ELSE answer' = answer

Abandon(next, have) ==
    /\ data' = have
    /\ active' = next
    /\ answer' = "failed"

\* The request is begun: its inputs are there, but those named as outputs too.
Begin ==
    /\ answer = "none" /\ active = {}
    /\ LET fed == given \ info.outputs
       IN  \/ Continue(Enabled(fed), fed)
           \/ \E have \in {{}, fed} : Abandon({}, have)
    /\ UNCHANGED <<info, given, required>>

\* The evaluation of s ends with some of what s makes, or fails.
Evaluate(s) ==
    /\ answer = "none"
    /\ \E made \in SUBSET info.makes[s] :
          LET have == data \cup made
              others == active \ {s}
          IN  \/ Continue(others \cup (Enabled(have) \ Enabled(data)), have)
              \/ Abandon(others, have)
    /\ UNCHANGED <<info, given, required>>

\* The request was answered before: the evaluation is of no use.
Discard(s) ==
    /\ answer # "none"
    /\ active' = active \ {s}
    /\ UNCHANGED <<info, given, required, data, answer>>

Next == Begin \/ \E s \in active : Evaluate(s) \/ Discard(s)

Spec == Init /\ [][Next]_vars
=============================================================================
