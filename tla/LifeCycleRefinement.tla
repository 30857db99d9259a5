------------------------ MODULE LifeCycleRefinement ------------------------
(***************************************************************************)
(* BackendLifeCycle implements ModelService: its threads, postponed        *)
(* actions, reference counts and callbacks are, seen from the requests and *)
(* the poller, one instance per version that is started, served, drained   *)
(* and stopped as asked.                                                   *)
(***************************************************************************)
EXTENDS BackendLifeCycle

phaseOf(e) ==
    CASE e.state = "LOADING" -> IF e.next = "NO_ACTION" THEN "starting" ELSE "outdated"
      [] e.state = "READY" -> "serving"
      [] e.state = "UNLOADING" -> "draining"
      [] OTHER -> "down"

servesOf(e) == IF e.state = "READY" THEN e.handle.config ELSE None

usesOf(q) ==
    IF q.pc = "hold" THEN [key |-> q.backend.key, config |-> q.backend.config] ELSE None

ASSUME UseAssumption == None \notin [key : Keys, config : Configs]

\* The refinement mapping: the variables of ModelService, from those of the code.
AskedBar == [k \in Keys |-> [to |-> wanted[k], config |-> info[k].config]]
PhaseBar == [k \in Keys |-> phaseOf(info[k])]
ServesBar == [k \in Keys |-> servesOf(info[k])]
UsesBar == [r \in Requests |-> usesOf(request[r])]

Service == INSTANCE ModelService WITH
    Users <- Requests, asked <- AskedBar, phase <- PhaseBar, serves <- ServesBar, uses <- UsesBar

\* The life cycle does what it promises, with any interleaving of its threads:
\* every step of AsyncLoad, of the workers, callbacks and requests is a step of
\* ModelService or changes nothing that can be seen of it; starts end, and an
\* instance that nobody uses any more stops.
ImplementsService == Service!FairSpec
=============================================================================
