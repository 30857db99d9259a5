-------------------------- MODULE BackendLifeCycle --------------------------
(***************************************************************************)
(* ModelRepositoryManager::BackendLifeCycle: loading, serving, unloading   *)
(* and releasing the versions of the models of a repository.               *)
(*                                                                         *)
(* Threads: the main thread, the only caller of AsyncLoad (from polling    *)
(* and from shutdown); request threads, which call GetBackendHandle and    *)
(* drop the handle when the request completes; one detached worker per     *)
(* backend being created; one detached thread per handle being destroyed;  *)
(* the release thread.  A critical section of a version's mtx_ is one      *)
(* step.  map_mtx_ is held over several steps, by AsyncLoad and by the     *)
(* scan for the latest version.                                            *)
(***************************************************************************)
EXTENDS Naturals

CONSTANTS
    Models,      \* model names
    Versions,    \* version numbers
    Configs,     \* the model configurations a poll may read
    PlatformOf,  \* the platform each configuration names
    Requests,    \* threads serving requests
    MaxLoads,    \* bound: calls of AsyncLoad
    None         \* no handle, no configuration

Keys == Models \X Versions

\* A backend, built by the id-th worker started for a version.
Backends == [key : Keys, id : Nat, config : Configs]

ASSUME VersionsAssumption == Versions \subseteq Nat
ASSUME MaxLoadsAssumption == MaxLoads \in Nat
ASSUME NoneAssumption == None \notin Backends /\ None \notin Configs

VARIABLES
    info,          \* the BackendInfo of each version; ABSENT until AsyncLoad makes one
    loader,        \* the main thread inside AsyncLoad
    workers,       \* threads running CreateBackendHandle
    request,       \* what each request thread does and the backend it holds
    destroying,    \* backends whose last handle is gone, callback not yet run
    retired,       \* backends whose callback ran, not yet in release_queue_
    releaseQueue,  \* release_queue_
    releaser,      \* the release thread and the backends it took
    loads,         \* calls of AsyncLoad so far
    wanted,        \* history: the last thing AsyncLoad asked of each version
    outcome        \* history: configuration and result of the last creation

release == <<retired, releaseQueue, releaser>>
vars == <<info, loader, workers, request, destroying, release, loads, wanted, outcome>>

States == {"ABSENT", "UNKNOWN", "READY", "UNAVAILABLE", "LOADING", "UNLOADING"}
Workers == [key : Keys, id : Nat, pc : {"start", "create"}, config : Configs \cup {None}]

Actions == {"NO_ACTION", "LOAD", "UNLOAD"}

Entries ==
    [state : States, next : Actions, config : Configs \cup {None},
     platform : {PlatformOf[c] : c \in Configs} \cup {None},
     handle : Backends \cup {None}, spawned : Nat]

Absent ==
    [state |-> "ABSENT", next |-> "NO_ACTION", config |-> None,
     platform |-> None, handle |-> None, spawned |-> 0]

NewEntry(c) ==
    [Absent EXCEPT !.state = "UNKNOWN", !.config = c, !.platform = PlatformOf[c]]

\* Mutant of Load: only LOADING postpones a load, UNLOADING starts a worker.
LoadWhileUnloading(e) ==
    CASE e.state = "READY" -> [e EXCEPT !.next = "NO_ACTION"]
      [] e.state = "LOADING" -> [e EXCEPT !.next = "LOAD"]
      [] OTHER -> [e EXCEPT !.next = "NO_ACTION", !.state = "LOADING", !.spawned = @ + 1]

\* Mutant of Load: a load requested while LOADING is taken as already under way.
LoadTwiceIsOnce(e) ==
    CASE e.state \in {"READY", "LOADING"} -> [e EXCEPT !.next = "NO_ACTION"]
      [] e.state = "UNLOADING" -> [e EXCEPT !.next = "LOAD"]
      [] OTHER -> [e EXCEPT !.next = "NO_ACTION", !.state = "LOADING", !.spawned = @ + 1]

(***************************************************************************)
(* What Load, Unload and TriggerNextAction do to a BackendInfo; `spawned'  *)
(* counts the workers Load starts.                                         *)
(***************************************************************************)
Load(e) ==
    CASE e.state = "READY" -> [e EXCEPT !.next = "NO_ACTION"]
      [] e.state \in {"LOADING", "UNLOADING"} -> [e EXCEPT !.next = "LOAD"]
      [] OTHER -> [e EXCEPT !.next = "NO_ACTION", !.state = "LOADING", !.spawned = @ + 1]

\* Mutant of Unload: the version is unavailable as soon as its handle is reset.
UnloadAtOnce(e) ==
    CASE e.state = "READY" ->
            [e EXCEPT !.next = "NO_ACTION", !.state = "UNAVAILABLE", !.handle = None]
      [] e.state \in {"LOADING", "UNLOADING"} -> [e EXCEPT !.next = "UNLOAD"]
      [] OTHER -> [e EXCEPT !.next = "NO_ACTION"]

\* Mutant of Unload: a postponed load is not cancelled.
UnloadKeepsPostponed(e) ==
    CASE e.state = "READY" ->
            [e EXCEPT !.next = "NO_ACTION", !.state = "UNLOADING", !.handle = None]
      [] e.state \in {"LOADING", "UNLOADING"} ->
            [e EXCEPT !.next = IF @ = "LOAD" THEN "LOAD" ELSE "UNLOAD"]
      [] OTHER -> [e EXCEPT !.next = "NO_ACTION"]

Unload(e) ==
    CASE e.state = "READY" ->
            [e EXCEPT !.next = "NO_ACTION", !.state = "UNLOADING", !.handle = None]
      [] e.state \in {"LOADING", "UNLOADING"} -> [e EXCEPT !.next = "UNLOAD"]
      [] OTHER -> [e EXCEPT !.next = "NO_ACTION"]

TriggerNextAction(e) ==
    LET b == [e EXCEPT !.next = "NO_ACTION"]
    IN  CASE e.next = "LOAD" -> Load(Unload(b))
          [] e.next = "UNLOAD" -> Unload(b)
          [] OTHER -> b

NoLoad == [pc |-> "idle", model |-> None, unload |-> {}, load |-> {}, config |-> None]

\* A request thread: scanning the versions of a model for the latest one (todo
\* still to examine, backend the best so far, start the versions ready when it
\* began), or holding the handle of a backend.
NoRequest == [pc |-> "idle", model |-> None, todo |-> {}, start |-> {}, backend |-> None]

MapLocked == loader.pc # "idle" \/ \E r \in Requests : request[r].pc = "scan"

Existing(m) == {v \in Versions : info[<<m, v>>].state # "ABSENT"}

ReadyVersions(m) == {v \in Versions : info[<<m, v>>].state = "READY"}

Held(b) == \E r \in Requests : request[r].backend = b

\* The worker of version k that Load started between `before' and `after'.
Started(k, before, after) ==
    IF after.spawned = before.spawned THEN {}
    ELSE {[key |-> k, id |-> after.spawned, pc |-> "start", config |-> None]}

\* Under the mutex of version k, its BackendInfo goes from `before' to `after';
\* a handle that was reset and that nobody else holds is destroyed.
Store(k, before, after, others) ==
    /\ info' = [info EXCEPT ![k] = after]
    /\ workers' = others \cup Started(k, before, after)
    /\ destroying' = destroying \cup
          IF before.handle = after.handle \/ before.handle = None \/ Held(before.handle) THEN {}
          ELSE {before.handle}

Init ==
    /\ info = [k \in Keys |-> Absent]
    /\ loader = NoLoad
    /\ workers = {}
    /\ request = [r \in Requests |-> NoRequest]
    /\ destroying = {}
    /\ retired = {}
    /\ releaseQueue = {}
    /\ releaser = [pc |-> "start", taken |-> {}]
    /\ loads = 0
    /\ wanted = [k \in Keys |-> "none"]
    /\ outcome = [k \in Keys |-> None]

\* Mutant of AsyncLoad: map_mtx_ is not taken.
AsyncLoadUnlocked(m, vs, c) ==
    /\ loader.pc = "idle"
    /\ loads < MaxLoads
    /\ loads' = loads + 1
    /\ loader' = [pc |-> "unload", model |-> m, unload |-> Existing(m), load |-> vs, config |-> c]
    /\ UNCHANGED <<info, workers, request, destroying, release, wanted, outcome>>

(***************************************************************************)
(* AsyncLoad(m, vs, c): an empty vs unloads the model.  Every caller takes *)
(* the default force_unload = true.                                        *)
(***************************************************************************)
AsyncLoad(m, vs, c) ==
    /\ ~MapLocked
    /\ loads < MaxLoads
    /\ loads' = loads + 1
    /\ loader' = [pc |-> "unload", model |-> m, unload |-> Existing(m), load |-> vs, config |-> c]
    /\ UNCHANGED <<info, workers, request, destroying, release, wanted, outcome>>

\* One round of the force_unload loop, in the order of the version map.
AsyncLoadUnload ==
    /\ loader.pc = "unload"
    /\ \E v \in loader.unload :
          LET k == <<loader.model, v>>
          IN  /\ \A w \in loader.unload : v <= w
              /\ Store(k, info[k], Unload(info[k]), workers)
              /\ wanted' = [wanted EXCEPT ![k] = "unload"]
              /\ loader' = [loader EXCEPT !.unload = @ \ {v}]
    /\ UNCHANGED <<request, release, loads, outcome>>

AsyncLoadUnloaded ==
    /\ loader.pc = "unload"
    /\ loader.unload = {}
    /\ loader' = [loader EXCEPT !.pc = "load"]
    /\ UNCHANGED <<info, workers, request, destroying, release, loads, wanted, outcome>>

\* One round of the loading loop; the version policy decides the order.
AsyncLoadLoad ==
    /\ loader.pc = "load"
    /\ \E v \in loader.load :
          LET k == <<loader.model, v>>
              old == IF info[k].state = "ABSENT" THEN NewEntry(loader.config) ELSE info[k]
          IN  /\ Store(k, old, Load(Unload([old EXCEPT !.config = loader.config])), workers)
              /\ wanted' = [wanted EXCEPT ![k] = "load"]
              /\ loader' = [loader EXCEPT !.load = @ \ {v}]
    /\ UNCHANGED <<request, release, loads, outcome>>

AsyncLoadReturn ==
    /\ loader.pc = "load"
    /\ loader.load = {}
    /\ loader' = NoLoad
    /\ UNCHANGED <<info, workers, request, destroying, release, loads, wanted, outcome>>

(***************************************************************************)
(* CreateBackendHandle, in its worker thread.                              *)
(***************************************************************************)
CopyConfig(w) ==
    /\ w.pc = "start"
    /\ workers' = (workers \ {w}) \cup {[w EXCEPT !.pc = "create", !.config = info[w.key].config]}
    /\ UNCHANGED <<info, loader, request, destroying, release, loads, wanted, outcome>>

\* Mutant of Created: a failed creation only logs.
CreatedLogsFailure(e, w, ok) ==
    IF e.handle # None \/ ~ok THEN e
    ELSE [e EXCEPT !.state = "READY",
                   !.handle = [key |-> w.key, id |-> w.id, config |-> w.config]]

\* The backend was created (ok) or its factory failed.  A handle already there
\* is the error the sanity check logs.
Created(e, w, ok) ==
    IF e.handle # None THEN e
    ELSE IF ok
         THEN [e EXCEPT !.state = "READY",
                        !.handle = [key |-> w.key, id |-> w.id, config |-> w.config]]
         ELSE [e EXCEPT !.state = "UNAVAILABLE"]

\* Mutant of FinishCreate: a failure returns before TriggerNextAction.
FinishCreateReturnsEarly(w, ok) ==
    /\ w.pc = "create"
    /\ LET e == Created(info[w.key], w, ok)
       IN  Store(w.key, e, IF ok THEN TriggerNextAction(e) ELSE e, workers \ {w})
    /\ outcome' = [outcome EXCEPT ![w.key] = [config |-> w.config, ok |-> ok]]
    /\ UNCHANGED <<loader, request, release, loads, wanted>>

FinishCreate(w, ok) ==
    /\ w.pc = "create"
    /\ LET e == Created(info[w.key], w, ok)
       IN  Store(w.key, e, TriggerNextAction(e), workers \ {w})
    /\ outcome' = [outcome EXCEPT ![w.key] = [config |-> w.config, ok |-> ok]]
    /\ UNCHANGED <<loader, request, release, loads, wanted>>

(***************************************************************************)
(* The callback of a destroyed handle, in a thread of its own: first the   *)
(* BackendInfo, then release_queue_.                                       *)
(***************************************************************************)
OnDestroy(b) ==
    /\ b \in destroying
    /\ LET e == [info[b.key] EXCEPT !.state = "UNAVAILABLE"]
           after == TriggerNextAction(e)
       IN  /\ info' = [info EXCEPT ![b.key] = after]
           /\ workers' = workers \cup Started(b.key, e, after)
    /\ destroying' = destroying \ {b}
    /\ retired' = retired \cup {b}
    /\ UNCHANGED <<loader, request, releaseQueue, releaser, loads, wanted, outcome>>

QueueForRelease(b) ==
    /\ b \in retired
    /\ retired' = retired \ {b}
    /\ releaseQueue' = releaseQueue \cup {b}
    /\ UNCHANGED <<info, loader, workers, request, destroying, releaser, loads, wanted, outcome>>

(***************************************************************************)
(* The body of release_thread_, which is not a loop.                       *)
(***************************************************************************)
TakeReleased ==
    /\ releaser.pc = "start"
    /\ releaser' = [pc |-> "sleep", taken |-> releaseQueue]
    /\ releaseQueue' = {}
    /\ UNCHANGED <<info, loader, workers, request, destroying, retired, loads, wanted, outcome>>

ClearReleased ==
    /\ releaser.pc = "sleep"
    /\ releaser' = [pc |-> "exited", taken |-> {}]
    /\ UNCHANGED <<info, loader, workers, request, destroying, retired, releaseQueue,
                   loads, wanted, outcome>>

(***************************************************************************)
(* GetBackendHandle for a version, and for version -1 (the latest ready    *)
(* one).  A lookup that fails changes nothing.                             *)
(***************************************************************************)
GetVersion(r, k) ==
    /\ request[r].pc = "idle"
    /\ ~MapLocked
    /\ info[k].state = "READY"
    /\ request' = [request EXCEPT ![r] =
          [NoRequest EXCEPT !.pc = "hold", !.backend = info[k].handle]]
    /\ UNCHANGED <<info, loader, workers, destroying, release, loads, wanted, outcome>>

GetLatest(r, m) ==
    /\ request[r].pc = "idle"
    /\ ~MapLocked
    /\ request' = [request EXCEPT ![r] =
          [pc |-> "scan", model |-> m, todo |-> Existing(m), start |-> ReadyVersions(m),
           backend |-> None]]
    /\ UNCHANGED <<info, loader, workers, destroying, release, loads, wanted, outcome>>

ExamineVersion(r) ==
    /\ request[r].pc = "scan"
    /\ \E v \in request[r].todo :
          LET e == info[<<request[r].model, v>>]
          IN  /\ \A w \in request[r].todo : v <= w
              /\ request' = [request EXCEPT ![r] =
                    [@ EXCEPT !.todo = request[r].todo \ {v},
                              !.backend = IF e.state = "READY" THEN e.handle ELSE request[r].backend]]
    /\ UNCHANGED <<info, loader, workers, destroying, release, loads, wanted, outcome>>

EndScan(r) ==
    /\ request[r].pc = "scan"
    /\ request[r].todo = {}
    /\ LET b == request[r].backend
       IN  request' = [request EXCEPT ![r] =
              [NoRequest EXCEPT !.pc = IF b = None THEN "idle" ELSE "hold", !.backend = b]]
    /\ UNCHANGED <<info, loader, workers, destroying, release, loads, wanted, outcome>>

\* The request completes and drops its handle.
CompleteRequest(r) ==
    /\ request[r].pc = "hold"
    /\ request' = [request EXCEPT ![r] = NoRequest]
    /\ LET b == request[r].backend
       IN  destroying' = destroying \cup
              IF info[b.key].handle = b \/ \E q \in Requests \ {r} : request[q].backend = b
              THEN {} ELSE {b}
    /\ UNCHANGED <<info, loader, workers, release, loads, wanted, outcome>>

Next ==
    \/ \E m \in Models, vs \in SUBSET Versions, c \in Configs : AsyncLoad(m, vs, c)
    \/ AsyncLoadUnload
    \/ AsyncLoadUnloaded
    \/ AsyncLoadLoad
    \/ AsyncLoadReturn
    \/ \E w \in workers : CopyConfig(w)
    \/ \E w \in workers, ok \in BOOLEAN : FinishCreate(w, ok)
    \/ \E b \in destroying : OnDestroy(b)
    \/ \E b \in retired : QueueForRelease(b)
    \/ TakeReleased
    \/ ClearReleased
    \/ \E r \in Requests, k \in Keys : GetVersion(r, k)
    \/ \E r \in Requests, m \in Models : GetLatest(r, m)
    \/ \E r \in Requests : ExamineVersion(r) \/ EndScan(r) \/ CompleteRequest(r)

Spec == Init /\ [][Next]_vars

\* Threads run, factories return, and inference requests complete; nobody has
\* to start an AsyncLoad or a request.
Fairness ==
    /\ WF_vars(AsyncLoadUnload \/ AsyncLoadUnloaded \/ AsyncLoadLoad \/ AsyncLoadReturn)
    /\ WF_vars(\E w \in workers : CopyConfig(w) \/ \E ok \in BOOLEAN : FinishCreate(w, ok))
    /\ WF_vars(\E b \in destroying : OnDestroy(b))
    /\ WF_vars(\E b \in retired : QueueForRelease(b))
    /\ WF_vars(TakeReleased \/ ClearReleased)
    /\ \A r \in Requests : WF_vars(ExamineVersion(r) \/ EndScan(r) \/ CompleteRequest(r))

FairSpec == Spec /\ Fairness

-----------------------------------------------------------------------------

TypeOK ==
    /\ info \in [Keys -> Entries]
    /\ loader \in [pc : {"idle", "unload", "load"}, model : Models \cup {None},
                   unload : SUBSET Versions, load : SUBSET Versions, config : Configs \cup {None}]
    /\ loader.pc # "idle" => loader.model \in Models /\ loader.config \in Configs
    /\ workers \subseteq Workers
    /\ request \in [Requests -> [pc : {"idle", "scan", "hold"}, model : Models \cup {None},
                                 todo : SUBSET Versions, start : SUBSET Versions,
                                 backend : Backends \cup {None}]]
    /\ \A r \in Requests :
          /\ request[r].pc = "scan" => request[r].model \in Models
          /\ request[r].pc = "hold" => request[r].backend \in Backends
          /\ request[r].pc = "idle" => request[r].backend = None
    /\ destroying \subseteq Backends
    /\ retired \subseteq Backends
    /\ releaseQueue \subseteq Backends
    /\ releaser \in [pc : {"start", "sleep", "exited"}, taken : SUBSET Backends]
    /\ loads \in 0 .. MaxLoads
    /\ wanted \in [Keys -> {"none", "load", "unload"}]
    /\ outcome \in [Keys -> [config : Configs, ok : BOOLEAN] \cup {None}]

\* The backends whose OnDestroy callback has not run: served, held by a
\* request, or waiting for the callback's thread.
Live ==
    ({info[k].handle : k \in Keys} \cup {request[r].backend : r \in Requests} \cup destroying) \ {None}

\* The backends whose callback ran and that await destruction.
Released == retired \cup releaseQueue \cup releaser.taken

\* Never two backends of one version at a time: until the callback of the old
\* backend has run no worker builds a new one, and one worker builds at most
\* one (Load's postponement of a load requested while LOADING or UNLOADING).
OneBackendPerVersion ==
    /\ \A b, c \in Live : b.key = c.key => b = c
    /\ \A w, x \in workers : w.key = x.key => w = x
    /\ \A b \in Live, w \in workers : b.key # w.key

\* A version in use is reported live: while a request holds a backend or its
\* callback is pending, its version is READY and serves that very backend, or
\* UNLOADING (GetLiveBackendStates, on which Server::Stop waits).
InUseIsLive ==
    \A b \in Live : info[b.key].state = "UNLOADING" \/
                    (info[b.key].state = "READY" /\ info[b.key].handle = b)

\* A READY version serves a backend built from the configuration last given to
\* AsyncLoad, even when a poll changes it while a worker is creating a backend.
ReadyServesCurrentConfig ==
    \A k \in Keys : info[k].state = "READY" =>
        info[k].handle # None /\ info[k].handle.config = info[k].config

\* An action is postponed only while some thread is bound to trigger it: a
\* LOAD or UNLOAD left in next_action_ of a settled version would be lost.
PostponedIsTriggered ==
    \A k \in Keys : info[k].next # "NO_ACTION" =>
        \/ info[k].state = "LOADING" /\ \E w \in workers : w.key = k
        \/ info[k].state = "UNLOADING" /\ \E b \in Live : b.key = k

Settled(k) == info[k].state \notin {"LOADING", "UNLOADING"}

\* The last request wins: whatever loads and unloads overlapped, a version that
\* is neither loading nor unloading is what AsyncLoad last asked: serving or
\* failed to load the current configuration, or unloaded.
LastRequestWins ==
    \A k \in Keys : Settled(k) =>
        /\ wanted[k] = "none" <=> info[k].state = "ABSENT"
        /\ wanted[k] = "unload" => info[k].state = "UNAVAILABLE"
        /\ wanted[k] = "load" =>
              /\ info[k].state \in {"READY", "UNAVAILABLE"}
              /\ outcome[k] = [config |-> info[k].config, ok |-> info[k].state = "READY"]

\* A backend given up for release is used by nobody any more.
ReleasedIsUnused ==
    Released \cap Live = {}

\* A lookup of the latest version answers with a backend still being served,
\* of a version no lower than any that was ready when the lookup began.
LatestLookup(r) ==
    request[r].pc = "scan" /\ request'[r].pc # "scan" =>
        LET b == request'[r].backend
        IN  /\ request[r].start # {} => b # None
            /\ b # None => info[b.key].handle = b /\ b.key[1] = request[r].model
            /\ b # None => \A v \in request[r].start : v <= b.key[2]
LatestIsReady == [][\A r \in Requests : LatestLookup(r)]_vars

\* A version that is loading or unloading settles: postponed actions cannot
\* bounce it for ever, and no postponed action is forgotten.
EventuallySettles == \A k \in Keys : ~Settled(k) ~> Settled(k)

-----------------------------------------------------------------------------
(***************************************************************************)
(* The inductive invariant behind the safety properties, in parts.         *)
(***************************************************************************)
\* The state of a version tells which threads and backends it has.
StateOf(k) ==
    /\ info[k].state # "UNKNOWN"
    /\ info[k].state = "ABSENT" => info[k].spawned = 0
    /\ info[k].state = "LOADING" => \E w \in workers : w.key = k
    /\ info[k].state = "UNLOADING" => \E b \in Live : b.key = k
    /\ info[k].handle # None <=> info[k].state = "READY"
    /\ info[k].handle # None => info[k].handle.key = k
    /\ info[k].next # "NO_ACTION" => info[k].state \in {"LOADING", "UNLOADING"}

StateInv == \A k \in Keys : StateOf(k)

\* A worker is the latest of its version, the only one, and at work only while
\* the version is LOADING; if it copied a configuration that has changed since,
\* another action is postponed.
WorkerOf(w) ==
    /\ info[w.key].state = "LOADING"
    /\ info[w.key].spawned = w.id
    /\ \A x \in workers : x.key = w.key => x = w
    /\ w.pc = "create" => w.config \in Configs
    /\ w.pc = "create" /\ info[w.key].next = "NO_ACTION" => w.config = info[w.key].config
    /\ \A b \in Released : b.key = w.key => b.id < w.id

WorkerInv == \A w \in workers : WorkerOf(w)

\* A live backend is its version's only one and is accounted for by its state;
\* one that is being destroyed is held by nobody, one given up is not live.
BackendInv ==
    /\ \A b, c \in Live : b.key = c.key => b = c
    /\ \A b \in Live : info[b.key].state = "READY" \/ info[b.key].state = "UNLOADING"
    /\ \A b \in Live : info[b.key].state = "READY" => info[b.key].handle = b
    /\ \A b \in destroying : info[b.key].handle # b /\ ~Held(b)
    /\ \A b \in Live \cup Released : b.id <= info[b.key].spawned
    /\ Live \cap Released = {}

\* What was asked of a version last is served, or is what next_action_ or the
\* worker will bring about.
WantedOf(k) ==
    LET e == info[k]
    IN  /\ e.state = "ABSENT" => wanted[k] = "none"
        /\ e.state # "ABSENT" => wanted[k] # "none" /\ e.config \in Configs
        /\ e.state = "LOADING" => (e.next = "UNLOAD" <=> wanted[k] = "unload")
        /\ e.state = "UNLOADING" => (e.next = "LOAD" <=> wanted[k] = "load")
        /\ e.state = "READY" => wanted[k] = "load" /\ e.handle.config = e.config
        /\ e.state \in {"READY", "UNAVAILABLE"} /\ wanted[k] = "load" =>
              outcome[k] = [config |-> e.config, ok |-> e.state = "READY"]

WantedInv == \A k \in Keys : WantedOf(k)

\* map_mtx_ excludes a scan from AsyncLoad and from other scans; what a scan
\* found so far is still served, and is no lower than what it passed over.
ScanInv ==
    \A r \in Requests : request[r].pc = "scan" =>
        LET m == request[r].model
            b == request[r].backend
        IN  /\ loader.pc = "idle"
            /\ \A q \in Requests : request[q].pc = "scan" => q = r
            /\ b # None => b.key[1] = m /\ info[b.key].handle = b
            /\ b # None => \A v \in request[r].todo : b.key[2] <= v
            /\ \A v \in request[r].start :
                  /\ info[<<m, v>>].state = "READY"
                  /\ v \notin request[r].todo => b # None /\ v <= b.key[2]

\* AsyncLoad unloads only versions that have a BackendInfo.
LoaderInv == loader.pc = "unload" => loader.unload \subseteq Existing(loader.model)

IInv == TypeOK /\ StateInv /\ WorkerInv /\ BackendInv /\ WantedInv /\ ScanInv /\ LoaderInv

\* docs/model_repository.rst:132: "The model configuration can be changed and
\* the server will unload and reload the model to pick up the changes".  The
\* platform is copied once, when the BackendInfo is made.
CreatedOnItsPlatform ==
    \A w \in workers : w.pc = "create" => info[w.key].platform = PlatformOf[w.config]

\* model_repository_manager.cc:252: destruction of a backend is deferred to
\* release_thread_; the thread goes through the queue once.
DeferredIsDestroyed == releaseQueue # {} ~> releaseQueue = {}
=============================================================================
