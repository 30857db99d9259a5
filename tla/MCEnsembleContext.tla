------------------------- MODULE MCEnsembleContext -------------------------
(***************************************************************************)
(* EnsembleContext over the valid ensembles of two families: three steps   *)
(* that write one tensor each, and two steps of which one writes two.      *)
(***************************************************************************)
EXTENDS EnsembleContext, ModelConfig, EnsembleConfigs, TLC

CONSTANTS s1, s2, s3, x, z, a, b, c, y

\* The valid ensembles in which the steps write the given tensors, and each
\* reads one or two tensors.
Family(inputs, outputs, makes) ==
    LET tensors == inputs \cup UNION {makes[s] : s \in DOMAIN makes}
        reads == {T \in SUBSET tensors : Cardinality(T) \in 1..2}
    IN  {g \in [inputs : {inputs}, outputs : {outputs}, needs : [DOMAIN makes -> reads], makes : {makes}] :
            Valid(g) /\ InputsKept(g)}

MCEnsembles ==
    Family({x, z}, {b, y}, s1 :> {a} @@ s2 :> {b} @@ s3 :> {y})
        \cup Family({x}, {b, y}, s1 :> {a} @@ s2 :> {b} @@ s3 :> {y})
        \cup Family({x}, {y}, s1 :> {a, b} @@ s2 :> {c} @@ s3 :> {y})
        \cup Family({x, z}, {a, y}, s1 :> {a, b} @@ s2 :> {y})
=============================================================================
