---------------------------- MODULE ModelService ----------------------------
(***************************************************************************)
(* What the life cycle of models promises to the rest of the server: each  *)
(* version is started, served, drained of its users and stopped, one       *)
(* instance at a time, and ends up as it was last asked to be.             *)
(*                                                                         *)
(* Abstract specification: no threads, no locks, no postponed actions.     *)
(***************************************************************************)
CONSTANTS
    Keys,     \* versions of models
    Configs,  \* configurations a version may be asked to serve
    Users,    \* who uses instances
    None

VARIABLES
    asked,   \* per version: what was asked last, and the configuration given last
    phase,   \* per version: where its one instance is in its life
    serves,  \* per version: the configuration being served
    uses     \* per user: the version and configuration of the instance in use

vars == <<asked, phase, serves, uses>>

Phases ==
    {"down", "starting", "outdated",  \* outdated: asked anew since it began to start
     "serving", "draining"}

Init ==
    /\ asked = [k \in Keys |-> [to |-> "none", config |-> None]]
    /\ phase = [k \in Keys |-> "down"]
    /\ serves = [k \in Keys |-> None]
    /\ uses = [u \in Users |-> None]

\* What asking anew does to a version in phase p: an instance that serves
\* drains, one that starts will be looked at again.
Disturbed(p, idle) ==
    CASE p = "serving" -> "draining"
      [] p = "starting" -> "outdated"
      [] p = "down" -> idle
      [] OTHER -> p

Disturb(k, idle) ==
    /\ phase' = [phase EXCEPT ![k] = Disturbed(@, idle)]
    /\ serves' = [serves EXCEPT ![k] = None]
    /\ UNCHANGED uses

AskStart(k, c) ==
    /\ asked' = [asked EXCEPT ![k] = [to |-> "load", config |-> c]]
    /\ Disturb(k, "starting")

AskStop(k) ==
    /\ asked' = [asked EXCEPT ![k].to = "unload"]
    /\ Disturb(k, "down")

\* What was asked last is served, or its start failed.
Serve(k) ==
    /\ phase[k] = "starting" /\ asked[k].to = "load"
    /\ phase' = [phase EXCEPT ![k] = "serving"]
    /\ serves' = [serves EXCEPT ![k] = asked[k].config]
    /\ UNCHANGED <<asked, uses>>

Fail(k) ==
    /\ phase[k] = "starting"
    /\ phase' = [phase EXCEPT ![k] = "down"]
    /\ UNCHANGED <<asked, serves, uses>>

\* A start that is outdated serves nobody: it drains, or it had failed.
Discard(k) ==
    /\ phase[k] = "outdated"
    /\ \/ phase' = [phase EXCEPT ![k] = "draining"]
       \/ phase' = [phase EXCEPT ![k] = IF asked[k].to = "load" THEN "starting" ELSE "down"]
    /\ UNCHANGED <<asked, serves, uses>>

InUse == {uses[u].key : u \in {v \in Users : uses[v] # None}}

Drained(k) ==
    /\ phase[k] = "draining"
    /\ k \notin InUse
    /\ phase' = [phase EXCEPT ![k] = IF asked[k].to = "load" THEN "starting" ELSE "down"]
    /\ UNCHANGED <<asked, serves, uses>>

Use(u, k) ==
    /\ uses[u] = None /\ phase[k] = "serving"
    /\ uses' = [uses EXCEPT ![u] = [key |-> k, config |-> serves[k]]]
    /\ UNCHANGED <<asked, phase, serves>>

Drop(u) ==
    /\ uses[u] # None
    /\ uses' = [uses EXCEPT ![u] = None]
    /\ UNCHANGED <<asked, phase, serves>>

Next ==
    \/ \E k \in Keys, c \in Configs : AskStart(k, c)
    \/ \E k \in Keys : AskStop(k) \/ Serve(k) \/ Fail(k) \/ Discard(k) \/ Drained(k)
    \/ \E u \in Users, k \in Keys : Use(u, k)
    \/ \E u \in Users : Drop(u)

Spec == Init /\ [][Next]_vars

\* Starts end, and what is drained stops, provided that its users let go.
Fairness ==
    /\ \A k \in Keys : WF_vars(Serve(k) \/ Fail(k) \/ Discard(k)) /\ WF_vars(Drained(k))
    /\ \A u \in Users : WF_vars(Drop(u))

FairSpec == Spec /\ Fairness
=============================================================================
