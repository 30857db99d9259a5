--------------------------- MODULE InferenceServer ---------------------------
(***************************************************************************)
(* The inference server as a process: start-up, the main thread's loop     *)
(* that polls the model repository, inference requests on their way to a   *)
(* model, the status that readiness is told from, and the shutdown a       *)
(* signal brings about.                                                    *)
(*                                                                         *)
(* The life cycle of models is ModelService, which BackendLifeCycle        *)
(* implements.  The repository on disk changes at any time, between any    *)
(* two of a poll's reads.  A model's contents are named by the time of     *)
(* their last change, its stamp; the configuration read from them has the  *)
(* same name.  Schedulers and backends are a request that takes any time.  *)
(***************************************************************************)
EXTENDS Naturals, FiniteSets

CONSTANTS
    Models,       \* model names, in their order in a std::set
    Versions,     \* version numbers
    Requests,     \* threads serving inference requests
    ExitTimeout,  \* exit_timeout_secs_
    MaxEvents,    \* bound: changes of the repository and requests
    None

ASSUME ServerAssumption ==
    /\ Models \subseteq Nat /\ IsFiniteSet(Models) /\ IsFiniteSet(Requests)
    /\ ExitTimeout \in Nat /\ MaxEvents \in Nat

Keys == Models \X Versions
Stamps == 1..(MaxEvents + 1)

\* A directory that is not there.
Gone == [stamp |-> 0, good |-> FALSE, versions |-> {}]

Directories == {Gone} \cup [stamp : Stamps, good : BOOLEAN, versions : SUBSET Versions]

\* ModelInfo; the time read is 0 if the directory went in the meantime.
Infos == [mtime : {0} \cup Stamps, config : Stamps \cup {None}]

Uses == [key : Keys, config : Stamps \cup {None}]

ASSUME NoneAssumption ==
    /\ None \notin Models \cup Stamps \cup Keys \cup Infos \cup Uses
    /\ \A vs \in SUBSET Versions : vs # None

VARIABLES
    disk,     \* per model: its directory
    main,     \* the main thread
    poll,     \* the poll of the repository under way
    infos,    \* infos_ of the ModelRepositoryManager
    manager,  \* whether model_repository_manager_ is set
    state,    \* ready_state_
    status,   \* per model: the versions in its version_status, if it has a status
    asked, phase, serves, uses,  \* the life cycle of the models (ModelService)
    req,      \* per request thread: where its request is, and its open gRPC call
    exiting,  \* exiting_
    process,  \* whether the process still runs
    events,   \* changes and requests so far
    aborted,  \* history: a poll gave up after it had replaced infos_
    wasReady  \* history: SERVER_READY could be observed

service == <<asked, phase, serves, uses>>
server == <<manager, state, status>>
vars == <<disk, main, poll, infos, server, service, req, exiting, process, events, aborted, wasReady>>

LifeCycle == INSTANCE ModelService WITH Configs <- Stamps, Users <- Requests

NoPoll == [todo |-> {}, new |-> [m \in Models |-> None], kind |-> [m \in Models |-> "none"]]

NoRequest == [pc |-> "idle", key |-> None, counted |-> FALSE, open |-> FALSE]

\* main() has started the endpoints; Init() has not begun.
Init ==
    /\ disk \in [Models -> {Gone, [stamp |-> 1, good |-> TRUE, versions |-> Versions]}]
    /\ main = [pc |-> "init", model |-> None, left |-> ExitTimeout, clean |-> FALSE]
    /\ poll = NoPoll
    /\ infos = [m \in Models |-> None]
    /\ manager = FALSE /\ state = "INVALID"
    /\ status = [m \in Models |-> None]
    /\ LifeCycle!Init
    /\ req = [r \in Requests |-> NoRequest]
    /\ exiting = FALSE
    /\ process = "up" /\ events = 0 /\ aborted = FALSE /\ wasReady = FALSE

Up == process = "up"
At(pc) == Up /\ main.pc = pc
Goto(pc) == main' = [main EXCEPT !.pc = pc, !.model = None]

----------------------------------------------------------------------------
(* The repository *)

\* A change of a model's directory: its files and versions, or its removal.
ChangeDisk(m) ==
    /\ Up /\ events < MaxEvents
    /\ events' = events + 1
    /\ \/ disk[m] # Gone /\ disk' = [disk EXCEPT ![m] = Gone]
       \/ \E good \in BOOLEAN, vs \in SUBSET Versions :
             /\ good \/ vs = Versions
             /\ disk' = [disk EXCEPT ![m] = [stamp |-> events + 2, good |-> good, versions |-> vs]]
    /\ UNCHANGED <<main, poll, infos, server, service, req, exiting, process, aborted, wasReady>>

----------------------------------------------------------------------------
(* ModelRepositoryManager::Poll, PollAndUpdate and Create, in the main thread *)

untouched == <<disk, req, exiting, events, wasReady>>

\* An error ends the poll.  In Create() it destroys the manager being made, the
\* versions it already loads included, though their workers still run; the
\* server goes on without a manager unless exit_on_failed_init_.
PollFails ==
    /\ poll' = NoPoll
    /\ IF manager
       THEN Goto("locked") /\ UNCHANGED <<infos, state, process, service>>
       ELSE /\ infos' = [m \in Models |-> None]
            /\ state' = "FAILED"
            /\ asked' = [k \in Keys |-> [to |-> "none", config |-> None]]
            /\ phase' = [k \in Keys |-> "down"]
            /\ serves' = [k \in Keys |-> None]
            /\ UNCHANGED uses
            /\ \/ Goto("test") /\ UNCHANGED process
               \/ process' = "exited" /\ UNCHANGED main
               \/ /\ \E k \in Keys : phase[k] # "down"
                  /\ process' = "crashed" /\ UNCHANGED main

\* GetDirectorySubdirs, which may fail before anything is read.
ListRepository ==
    /\ At("list")
    /\ \/ /\ poll' = [NoPoll EXCEPT !.todo = {m \in Models : disk[m] # Gone}]
          /\ Goto("child")
          /\ UNCHANGED <<infos, state, process, service>>
       \/ PollFails
    /\ UNCHANGED <<manager, status, aborted, untouched>>

First(S) == CHOOSE m \in S : \A n \in S : m <= n

\* GetModifiedTime is 0 for what is not there any more.
PollChild ==
    /\ At("child") /\ poll.todo # {}
    /\ LET m == First(poll.todo)
           known == infos[m] # None
           changed == ~known \/ disk[m].stamp > infos[m].mtime
           kind == CASE ~known -> "added" [] changed -> "modified" [] OTHER -> "unmodified"
           info == IF changed THEN [mtime |-> disk[m].stamp, config |-> None] ELSE infos[m]
       IN  /\ poll' = [todo |-> poll.todo \ {m}, kind |-> [poll.kind EXCEPT ![m] = kind],
                       new |-> [poll.new EXCEPT ![m] = info]]
           /\ main' = IF changed THEN [main EXCEPT !.pc = "config", !.model = m] ELSE main
    /\ UNCHANGED <<infos, server, service, process, aborted, untouched>>

\* GetNormalizedModelConfig and ValidateModelConfig.
PollConfig ==
    /\ At("config")
    /\ IF disk[main.model].good
       THEN /\ poll' = [poll EXCEPT !.new[main.model].config = disk[main.model].stamp]
            /\ Goto("child")
            /\ UNCHANGED <<infos, state, process, service>>
       ELSE PollFails
    /\ UNCHANGED <<manager, status, aborted, untouched>>

\* What is in infos_ and was not seen is deleted; then infos_ is replaced.
PollEnd ==
    /\ At("child") /\ poll.todo = {}
    /\ poll' = [poll EXCEPT !.kind = [m \in Models |->
                  IF infos[m] # None /\ poll.new[m] = None THEN "deleted" ELSE poll.kind[m]]]
    /\ infos' = poll.new
    /\ Goto("update")
    /\ UNCHANGED <<server, service, process, aborted, untouched>>

Kind(kind) == {m \in Models : poll.kind[m] = kind}

\* AsyncLoad(m, vs, c).
Asked(m, vs, c) ==
    LET load == {k \in Keys : k[1] = m /\ k[2] \in vs}
        unload == {k \in Keys \ load : k[1] = m /\ asked[k].to # "none"}
    IN  /\ asked' = [k \in Keys |->
              CASE k \in load -> [to |-> "load", config |-> c]
                [] k \in unload -> [asked[k] EXCEPT !.to = "unload"]
                [] OTHER -> asked[k]]
        /\ phase' = [k \in Keys |->
              IF k \in load \cup unload
              THEN LifeCycle!Disturbed(phase[k], IF k \in load THEN "starting" ELSE "down")
              ELSE phase[k]]
        /\ serves' = [k \in Keys |-> IF k \in load \cup unload THEN None ELSE serves[k]]
        /\ UNCHANGED uses

\* Mutant: the status of an added model starts with its first request.
InitForModelLater(m) ==
    /\ At("update") /\ Kind("added") # {} /\ m = First(Kind("added"))
    /\ main' = [main EXCEPT !.pc = "load", !.model = m]
    /\ UNCHANGED <<poll, infos, server, service, process, aborted, untouched>>

\* GetModelConfig cannot fail, infos_ having just been replaced.
InitForModel(m) ==
    /\ At("update") /\ Kind("added") # {} /\ m = First(Kind("added"))
    /\ status' = [status EXCEPT ![m] = {}]
    /\ main' = [main EXCEPT !.pc = "load", !.model = m]
    /\ UNCHANGED <<poll, infos, manager, state, service, process, aborted, untouched>>

UpdateConfigForModel(m) ==
    /\ At("update") /\ Kind("added") = {} /\ Kind("modified") # {} /\ m = First(Kind("modified"))
    /\ IF status[m] # None
       THEN /\ main' = [main EXCEPT !.pc = "load", !.model = m]
            /\ UNCHANGED <<poll, infos, state, process, service, aborted>>
       ELSE PollFails /\ aborted' = TRUE
    /\ UNCHANGED <<manager, status, untouched>>

\* VersionsToLoad, all versions of the directory, then AsyncLoad.
LoadModel ==
    /\ At("load")
    /\ LET m == main.model
       IN  IF disk[m] # Gone
           THEN /\ Asked(m, disk[m].versions, infos[m].config)
                /\ poll' = [poll EXCEPT !.kind[m] = "none"]
                /\ Goto("update")
                /\ UNCHANGED <<infos, state, process, aborted>>
           ELSE PollFails /\ aborted' = TRUE
    /\ UNCHANGED <<manager, status, untouched>>

\* Mutant: what was deleted is left alone.
UnloadDeletedNot(m) ==
    /\ At("update") /\ Kind("added") \cup Kind("modified") = {} /\ Kind("deleted") # {}
    /\ m = First(Kind("deleted"))
    /\ poll' = [poll EXCEPT !.kind[m] = "none"]
    /\ UNCHANGED <<main, infos, server, service, process, aborted, untouched>>

UnloadDeleted(m) ==
    /\ At("update") /\ Kind("added") \cup Kind("modified") = {} /\ Kind("deleted") # {}
    /\ m = First(Kind("deleted"))
    /\ Asked(m, {}, None)
    /\ poll' = [poll EXCEPT !.kind[m] = "none"]
    /\ UNCHANGED <<main, infos, server, process, aborted, untouched>>

\* PollAndUpdate() ends, or Create() hands over the manager.
EndUpdate ==
    /\ At("update") /\ Kind("added") \cup Kind("modified") \cup Kind("deleted") = {}
    /\ poll' = NoPoll
    /\ manager' = TRUE
    /\ Goto(IF manager THEN "locked" ELSE "made")
    /\ UNCHANGED <<infos, state, status, service, process, aborted, untouched>>

----------------------------------------------------------------------------
(* main(): Init(), and the loop that polls until a signal arrives *)

\* Mutant: the server is ready before its manager is there.
InitServerReady ==
    /\ At("init")
    /\ state' = "READY" /\ wasReady' = TRUE
    /\ Goto("list")
    /\ UNCHANGED <<poll, infos, manager, status, service, process, disk, req, exiting, events, aborted>>

InitServer ==
    /\ At("init")
    /\ state' = "INITIALIZING"
    /\ Goto("list")
    /\ UNCHANGED <<poll, infos, manager, status, service, process, aborted, untouched>>

\* Init() ends some time after Create() set the manager.
InitEnds ==
    /\ At("made")
    /\ state' = "READY" /\ wasReady' = TRUE
    /\ Goto("test")
    /\ UNCHANGED <<poll, infos, manager, status, service, process, disk, req, exiting, events, aborted>>

\* PollModelRepository polls only while the server is ready.
LoopTest ==
    /\ At("test") \/ At("woken")
    /\ Goto(IF exiting THEN "stop" ELSE IF state = "READY" THEN "list" ELSE "locked")
    /\ UNCHANGED <<poll, infos, server, service, process, aborted, untouched>>

\* exit_mu_ is the main thread's from "locked" on, except while it waits; the
\* wait ends by a notification, its timeout or for no reason, and may begin
\* after exiting_ was set.
MutexFree == main.pc \notin {"locked", "woken", "stuck"}

LoopWait ==
    /\ \/ At("locked") /\ Goto("waiting")
       \/ At("waiting") /\ Goto("woken")
    /\ UNCHANGED <<poll, infos, server, service, process, aborted, untouched>>

\* SignalHandler, installed after Init(), locks exit_mu_.  On another thread it
\* waits until the mutex is free; on the main thread it waits for itself.
Signal ==
    /\ Up /\ ~exiting /\ main.pc # "stuck" /\ state \in {"READY", "FAILED"}
    /\ IF MutexFree
       THEN exiting' = TRUE /\ UNCHANGED main
       ELSE main' = [main EXCEPT !.pc = "stuck"] /\ UNCHANGED exiting
    /\ UNCHANGED <<disk, poll, infos, server, service, req, process, events, aborted, wasReady>>

----------------------------------------------------------------------------
(* InferenceServer::Stop *)

Stop ==
    /\ At("stop")
    /\ state' = "EXITING"
    /\ IF manager
       THEN /\ Goto("unload")
            /\ poll' = [NoPoll EXCEPT !.todo = {m \in Models : infos[m] # None}]
       ELSE /\ main' = [main EXCEPT !.pc = "stopped", !.clean = TRUE]
            /\ UNCHANGED poll
    /\ UNCHANGED <<infos, manager, status, service, process, aborted, untouched>>

UnloadAllModels ==
    /\ At("unload")
    /\ IF poll.todo = {}
       THEN Goto("live") /\ UNCHANGED <<poll, service>>
       ELSE /\ Asked(First(poll.todo), {}, None)
            /\ poll' = [poll EXCEPT !.todo = @ \ {First(poll.todo)}]
            /\ UNCHANGED main
    /\ UNCHANGED <<infos, server, process, aborted, untouched>>

\* Mutant: versions being unloaded are not live.
LiveServed == {k \in Keys : phase[k] \notin {"down", "draining"}}

\* GetLiveBackendStates: ready, loading or unloading.
Live == {k \in Keys : phase[k] # "down"}

Inflight == Cardinality({r \in Requests : req[r].counted})

ReadLive ==
    /\ At("live")
    /\ main' = [main EXCEPT !.pc = "inflight", !.clean = Live = {}]
    /\ UNCHANGED <<poll, infos, server, service, process, aborted, untouched>>

\* Mutant: the time left is not tested.
ReadInflightForever ==
    /\ At("inflight")
    /\ LET clean == main.clean /\ Inflight = 0
       IN  main' = [main EXCEPT !.clean = clean, !.pc = IF clean THEN "stopped" ELSE "live"]
    /\ UNCHANGED <<poll, infos, server, service, process, aborted, untouched>>

\* Done, or out of time, or a second's sleep.
ReadInflight ==
    /\ At("inflight")
    /\ LET clean == main.clean /\ Inflight = 0
       IN  main' = [main EXCEPT !.clean = clean,
                                !.pc = IF clean \/ main.left = 0 THEN "stopped" ELSE "live",
                                !.left = IF clean \/ @ = 0 THEN @ ELSE @ - 1]
    /\ UNCHANGED <<poll, infos, server, service, process, aborted, untouched>>

\* From here on gRPC refuses new calls.
ShutdownGrpc ==
    /\ At("stopped")
    /\ main' = [main EXCEPT !.pc = "closing"]
    /\ UNCHANGED <<poll, infos, server, service, process, aborted, untouched>>

\* m_Server->Shutdown() has no deadline: it returns when no call is open, whatever
\* the exit timeout.  The HTTP endpoints do not wait, and main() returns.
Exit ==
    /\ At("closing") /\ \A r \in Requests : ~req[r].open
    /\ process' = "exited"
    /\ UNCHANGED <<main, poll, infos, server, service, aborted, untouched>>

----------------------------------------------------------------------------
(* Requests *)

others == <<disk, main, poll, infos, manager, state, exiting, aborted, wasReady>>

\* A gRPC call is open from before its request until it is finished; a stream
\* carries requests one after another, and its client may keep it open.
OpenCall(r) ==
    /\ Up /\ req[r] = NoRequest /\ main.pc # "closing"
    /\ req' = [req EXCEPT ![r].open = TRUE]
    /\ UNCHANGED <<others, status, service, process, events>>

CloseCall(r) ==
    /\ Up /\ req[r].pc = "idle" /\ req[r].open
    /\ req' = [req EXCEPT ![r].open = FALSE]
    /\ UNCHANGED <<others, status, service, process, events>>

\* A request names a model and a version.  It comes by an open gRPC call or,
\* if there is none, by HTTP.
Begin(r, k) ==
    /\ Up /\ req[r].pc = "idle" /\ events < MaxEvents
    /\ events' = events + 1
    /\ req' = [req EXCEPT ![r].pc = "begun", ![r].key = k]
    /\ UNCHANGED <<others, status, service, process>>

\* The request is over, its call goes on.
Over(r) == [NoRequest EXCEPT !.open = req[r].open]

\* The statistics of a request are kept by version, whether it exists or not,
\* for a model that has a status.
Recorded(k) ==
    [status EXCEPT ![k[1]] = IF @ = None THEN None ELSE @ \cup {k[2]}]

\* InferBackendHandle::Create, through the manager that may not be there yet.
Lookup(r) ==
    /\ Up /\ req[r].pc = "begun"
    /\ LET k == req[r].key
       IN  \/ /\ ~manager
              /\ process' = "crashed"
              /\ UNCHANGED <<req, status, service>>
           \/ /\ manager /\ phase[k] = "serving"
              /\ LifeCycle!Use(r, k)
              /\ req' = [req EXCEPT ![r].pc = "found"]
              /\ UNCHANGED <<status, process>>
           \/ /\ manager /\ phase[k] # "serving"
              /\ status' = Recorded(k)
              /\ req' = [req EXCEPT ![r] = Over(r)]
              /\ UNCHANGED <<service, process>>
    /\ UNCHANGED <<others, events>>

\* The providers are made, or fail; HandleInfer finds the server ready, or not.
Admit(r) ==
    /\ Up /\ req[r].pc = "found"
    /\ \/ state = "READY" /\ req' = [req EXCEPT ![r].pc = "admitted"]
       \/ req' = [req EXCEPT ![r].pc = "answered"]
    /\ UNCHANGED <<others, status, service, process, events>>

\* The server may have begun to exit since.
Count(r) ==
    /\ Up /\ req[r].pc = "admitted"
    /\ req' = [req EXCEPT ![r].pc = "running", ![r].counted = TRUE]
    /\ UNCHANGED <<others, status, service, process, events>>

Answer(r) ==
    /\ Up /\ req[r].pc = "running"
    /\ req' = [req EXCEPT ![r].pc = "answered"]
    /\ UNCHANGED <<others, status, service, process, events>>

\* The captures of OnCompleteHandleInfer are destroyed, in no given order: the
\* counter is lowered, the handle is given up.
Uncount(r) ==
    /\ Up /\ req[r].pc = "answered" /\ req[r].counted
    /\ req' = [req EXCEPT ![r].counted = FALSE]
    /\ UNCHANGED <<others, status, service, process, events>>

GiveUp(r) ==
    /\ Up /\ req[r].pc = "answered" /\ LifeCycle!Drop(r)
    /\ UNCHANGED <<others, req, status, process, events>>

Record(r) ==
    /\ Up /\ req[r].pc = "answered" /\ ~req[r].counted /\ uses[r] = None
    /\ status' = Recorded(req[r].key)
    /\ req' = [req EXCEPT ![r] = Over(r)]
    /\ UNCHANGED <<others, service, process, events>>

\* A status request asks the manager for the versions of every model known.
HandleStatus ==
    /\ Up /\ state # "EXITING" /\ ~manager
    /\ \E m \in Models : status[m] # None
    /\ process' = "crashed"
    /\ UNCHANGED <<others, req, status, service, events>>

Serving(k) ==
    /\ Up
    /\ LifeCycle!Serve(k) \/ LifeCycle!Fail(k) \/ LifeCycle!Discard(k) \/ LifeCycle!Drained(k)
    /\ UNCHANGED <<others, req, status, process, events>>

Ended == (~Up \/ main.pc = "stuck") /\ UNCHANGED vars

MainStep ==
    \/ InitServer \/ ListRepository \/ PollChild \/ PollConfig \/ PollEnd
    \/ LoadModel \/ EndUpdate \/ InitEnds
    \/ \E m \in Models : InitForModel(m) \/ UpdateConfigForModel(m) \/ UnloadDeleted(m)
    \/ LoopTest \/ LoopWait \/ Stop \/ UnloadAllModels \/ ReadLive \/ ReadInflight
    \/ ShutdownGrpc \/ Exit

Call(r) == OpenCall(r) \/ CloseCall(r)

Infer(r) == Lookup(r) \/ Admit(r) \/ Count(r) \/ Answer(r) \/ Uncount(r) \/ GiveUp(r) \/ Record(r)

Next ==
    \/ MainStep \/ Signal \/ HandleStatus \/ Ended
    \/ \E m \in Models : ChangeDisk(m)
    \/ \E r \in Requests, k \in Keys : Begin(r, k)
    \/ \E r \in Requests : Call(r) \/ Infer(r)
    \/ \E k \in Keys : Serving(k)

Spec == Init /\ [][Next]_vars

\* The main thread runs and its waits end.  Requests and workers may take for
\* ever, and so may gRPC calls.
FairSpec == Spec /\ WF_vars(MainStep)

----------------------------------------------------------------------------

MainPCs ==
    {"init", "list", "child", "config", "update", "load", "made", "test", "locked", "waiting",
     "woken", "stuck", "stop", "unload", "live", "inflight", "stopped", "closing"}

RequestPCs == {"idle", "begun", "found", "admitted", "running", "answered"}

PollKinds == {"none", "added", "modified", "unmodified", "deleted"}

MainThreads == [pc : MainPCs, model : Models \cup {None}, left : 0..ExitTimeout, clean : BOOLEAN]

Polls ==
    [todo : SUBSET Models, new : [Models -> Infos \cup {None}], kind : [Models -> PollKinds]]

Inferences == [pc : RequestPCs, key : Keys \cup {None}, counted : BOOLEAN, open : BOOLEAN]

Orders == [to : {"none", "load", "unload"}, config : Stamps \cup {None}]

ServiceTypeOK ==
    /\ asked \in [Keys -> Orders]
    /\ phase \in [Keys -> LifeCycle!Phases]
    /\ serves \in [Keys -> Stamps \cup {None}]
    /\ uses \in [Requests -> Uses \cup {None}]

TypeOK ==
    /\ disk \in [Models -> Directories]
    /\ main \in MainThreads
    /\ poll \in Polls
    /\ infos \in [Models -> Infos \cup {None}]
    /\ manager \in BOOLEAN
    /\ state \in {"INVALID", "INITIALIZING", "READY", "EXITING", "FAILED"}
    /\ status \in [Models -> (SUBSET Versions) \cup {None}]
    /\ ServiceTypeOK
    /\ req \in [Requests -> Inferences]
    /\ exiting \in BOOLEAN
    /\ process \in {"up", "crashed", "exited"}
    /\ events \in 0..MaxEvents
    /\ aborted \in BOOLEAN /\ wasReady \in BOOLEAN

\* Stop() tells the truth: when it returns true no request executes or holds a
\* backend, and none will, however late requests came past the readiness test,
\* which is neither atomic with the counter nor counted.
CleanStop ==
    main.pc \in {"stopped", "closing"} /\ main.clean /\ manager =>
        \A r \in Requests : req[r].pc \in {"idle", "begun"} \/ (req[r].pc = "answered" /\ uses[r] = None)

\* A client that waits for the server to be ready never meets the manager that
\* is not there: neither its request nor a status request crashes the process.
SafeOnceReady == process = "crashed" => ~wasReady

\* SetModelVersionReadyState: every version a status has or the life cycle
\* knows of, unavailable unless the life cycle says otherwise.
Known(m) == {v \in Versions : asked[<<m, v>>].to # "none"}
Available(m, v) == v \in Known(m) /\ phase[<<m, v>>] = "serving"

\* HandleHealth in its strict mode.
ReportsReady ==
    /\ state = "READY"
    /\ \A m \in Models : status[m] # None =>
          \A v \in status[m] \cup Known(m) : Available(m, v)

\* The server is reported ready only if every version it was to load is served,
\* by whatever polls models came.
ReadyMeansServing ==
    ReportsReady => \A k \in Keys : asked[k].to = "load" => phase[k] = "serving"

\* main.cc:174: the health endpoint "indicates ready if the server is responsive
\* and all models are available".
ReadyWhenServing ==
    state = "READY" /\ manager /\ (\A k \in Keys : phase[k] = "serving" \/ asked[k].to # "load") => ReportsReady

\* What the server has been asked to serve of a model is what the repository holds.
InSync(m) ==
    \A v \in Versions :
        IF v \in disk[m].versions
        THEN asked[<<m, v>>] = [to |-> "load", config |-> disk[m].stamp]
        ELSE asked[<<m, v>>].to # "load"

\* What the next poll will see as added, modified or deleted.
Noticeable(m) ==
    IF infos[m] = None THEN disk[m] # Gone ELSE disk[m] = Gone \/ disk[m].stamp > infos[m].mtime

\* infos_ is neither being replaced nor being acted upon.
BetweenPolls == {"made", "test", "list", "locked", "waiting", "woken"}

\* No change is overlooked: between polls a model is served as the repository
\* has it, or the next poll will see that it is not, whatever changed while
\* earlier polls were reading; unless one gave up after replacing infos_.
NothingOverlooked ==
    manager /\ ~aborted /\ main.pc \in BetweenPolls =>
        \A m \in Models : InSync(m) \/ Noticeable(m)

\* docs/model_repository.rst:102: "changes to the model repository will be
\* detected and the server will attempt to add, remove, and reload models".
ChangesDetected ==
    manager /\ main.pc \in BetweenPolls =>
        \A m \in Models : InSync(m) \/ Noticeable(m)

\* A signal that was taken note of ends the process, though models never unload
\* and HTTP requests hang: the polls and the wait for requests and models come to
\* an end, and then only a gRPC call that stays open for ever holds it.
Terminates ==
    exiting ~> \/ process # "up"
               \/ \E r \in Requests : [](main.pc = "closing" /\ req[r].open)

\* main.cc:211: "After the timeout expires the server exits even if inferences are
\* still in flight".
TimeoutEnds == exiting ~> process # "up"

\* main.cc:620: "Trap SIGINT and SIGTERM to allow server to exit gracefully".
SignalStops == exiting \/ main.pc = "stuck" ~> process # "up"

----------------------------------------------------------------------------
(***************************************************************************)
(* The inductive invariant behind CleanStop, SafeOnceReady,                *)
(* ReadyMeansServing and NothingOverlooked.                                *)
(***************************************************************************)

\* A request that found its version holds it until it is answered, and only a
\* version that served is held.
UsesInv == \A r \in Requests :
    /\ uses[r] # None => phase[uses[r].key] \in {"serving", "draining"}
    /\ req[r].pc \in {"found", "admitted", "running"} => uses[r] # None
    /\ req[r].pc \in {"idle", "begun"} => uses[r] = None
    /\ req[r].pc # "idle" => req[r].key \in Keys
    /\ ~manager => req[r].pc \in {"idle", "begun"}

\* Once all versions have been seen down nothing can start again.
StopInv == main.pc \in {"inflight", "stopped", "closing"} /\ main.clean /\ manager => Live = {}

ReadyInv ==
    /\ state = "READY" \/ wasReady \/ main.pc = "made" => manager
    /\ process = "crashed" => ~wasReady

\* A model has its status before it is loaded, and keeps it.
StatusInv ==
    /\ \A k \in Keys : asked[k].to = "load" => status[k[1]] # None
    /\ main.pc = "load" => main.model \in Models /\ status[main.model] # None
    /\ main.pc = "config" => main.model \in Models

\* What was read of model m is no older than the time noted with it.
Fresh(m, info) == disk[m] # Gone /\ disk[m].stamp <= info.mtime => info.config = disk[m].stamp

\* Stamps are of the past.
TimeInv == \A m \in Models :
    /\ disk[m].stamp <= events + 1
    /\ infos[m] # None => infos[m].mtime <= events + 1 /\ Fresh(m, infos[m])

\* Model m is served as infos_ has it: a change that came since will be noticed.
Settled(m) ==
    IF infos[m] = None
    THEN \A v \in Versions : asked[<<m, v>>].to # "load"
    ELSE disk[m] # Gone /\ disk[m].stamp <= infos[m].mtime => InSync(m)

SettledInv ==
    ~aborted /\ main.pc \in BetweenPolls \cup {"init", "child", "config"} =>
        \A m \in Models : Settled(m)

\* While the repository is read: what the new infos_ has of a model so far.
ReadingInv ==
    Up /\ main.pc \in {"child", "config"} => \A m \in Models :
        /\ poll.kind[m] # "deleted"
        /\ poll.kind[m] = "none" <=> poll.new[m] = None
        /\ poll.kind[m] = "unmodified" => poll.new[m] = infos[m]
        /\ poll.new[m] # None => poll.new[m].mtime <= events + 1
        /\ IF main.pc = "config" /\ main.model = m
           THEN poll.kind[m] \in {"added", "modified"}
           ELSE poll.new[m] # None => Fresh(m, poll.new[m])

\* While models are loaded and unloaded: those that are done, and those to do.
UpdatingInv ==
    Up /\ main.pc \in {"update", "load"} =>
        /\ \A m \in Models :
              /\ poll.kind[m] \in {"none", "unmodified"} /\ ~aborted => Settled(m)
              /\ poll.kind[m] \in {"added", "modified"} => infos[m] # None
              /\ poll.kind[m] = "deleted" => infos[m] = None
        /\ main.pc = "load" => poll.kind[main.model] \in {"added", "modified"}

IInv ==
    /\ TypeOK /\ UsesInv /\ StopInv /\ ReadyInv /\ StatusInv
    /\ TimeInv /\ SettledInv /\ ReadingInv /\ UpdatingInv
=============================================================================
