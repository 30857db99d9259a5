------------------------- MODULE MCBackendLifeCycle -------------------------
(***************************************************************************)
(* BackendLifeCycle with two configurations of different platforms.        *)
(***************************************************************************)
EXTENDS LifeCycleRefinement, TLC
CONSTANTS c1, c2

MCPlatformOf == c1 :> "graphdef" @@ c2 :> "savedmodel"

\* Version 2 is loaded by the first call alone, which comes with the first
\* configuration; every call unloads it if it exists.  Calls of AsyncLoad are
\* not fair, so that this only leaves out behaviours.
SecondVersionOnce ==
    loads' > loads =>
        /\ 2 \in loader'.load => loads = 0
        /\ loads = 0 /\ loader'.load # {} => loader'.config = c1
=============================================================================
