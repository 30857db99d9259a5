-------------------------- MODULE MCDynamicBatcher --------------------------
(***************************************************************************)
(* DynamicBatcher with the shapes s1 and s2, which are interchangeable.    *)
(***************************************************************************)
EXTENDS DynamicBatcher
CONSTANTS s1, s2

\* Batching, with runners held back until a request is queued; and no batching.
MCModes == {[dynamic |-> TRUE, startDelay |-> 1], [dynamic |-> FALSE, startDelay |-> 0]}

\* The first request has the first shape: without loss of generality.
FirstShape == issued = 0 /\ issued' = 1 => queue'[1].shape = s1
=============================================================================
