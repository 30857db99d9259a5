------------------------- MODULE MCSequenceBatcher --------------------------
(***************************************************************************)
(* SequenceBatcher with interchangeable correlation IDs and batchers.      *)
(***************************************************************************)
EXTENDS SequenceBatcher, TLC

Symmetry == Permutations(Correlations) \cup Permutations(Batchers)

=============================================================================
