----------------------- MODULE BackendLifeCycleProofs -----------------------
(***************************************************************************)
(* The safety properties of BackendLifeCycle, for every number of models,  *)
(* versions, requests and AsyncLoad calls, and that it implements          *)
(* ModelService step by step.                                              *)
(***************************************************************************)
EXTENDS LifeCycleRefinement, TLAPS

(***************************************************************************)
(* What the operations on a BackendInfo do, by its state.                  *)
(***************************************************************************)

\* Unload of a served version resets the handle; of a busy one postpones the
\* unload; of any other changes nothing but next_action_.
LEMMA UnloadEffect ==
    ASSUME NEW e \in Entries
    PROVE  /\ Unload(e) \in Entries
           /\ Unload(e).config = e.config
           /\ Unload(e).platform = e.platform
           /\ Unload(e).spawned = e.spawned
           /\ e.state = "READY" =>
                 /\ Unload(e).state = "UNLOADING"
                 /\ Unload(e).next = "NO_ACTION"
                 /\ Unload(e).handle = None
           /\ e.state # "READY" =>
                 /\ Unload(e).state = e.state
                 /\ Unload(e).handle = e.handle
           /\ e.state \in {"LOADING", "UNLOADING"} => Unload(e).next = "UNLOAD"
           /\ e.state \in {"ABSENT", "UNKNOWN", "UNAVAILABLE"} => Unload(e).next = "NO_ACTION"
<1>1. CASE e.state = "READY"
  BY <1>1 DEF Unload, Entries, States, Actions
<1>2. CASE e.state \in {"LOADING", "UNLOADING"}
  BY <1>2 DEF Unload, Entries, States, Actions
<1>3. CASE e.state \in {"ABSENT", "UNKNOWN", "UNAVAILABLE"}
  BY <1>3 DEF Unload, Entries, States, Actions
<1>4. QED
  BY <1>1, <1>2, <1>3 DEF Entries, States

\* Load of a busy version postpones the load; of a version without a backend
\* starts a worker.
LEMMA LoadEffect ==
    ASSUME NEW e \in Entries, e.state # "READY"
    PROVE  /\ Load(e) \in Entries
           /\ Load(e).config = e.config
           /\ Load(e).platform = e.platform
           /\ Load(e).handle = e.handle
           /\ e.state \in {"LOADING", "UNLOADING"} =>
                 /\ Load(e).state = e.state
                 /\ Load(e).next = "LOAD"
                 /\ Load(e).spawned = e.spawned
           /\ e.state \in {"ABSENT", "UNKNOWN", "UNAVAILABLE"} =>
                 /\ Load(e).state = "LOADING"
                 /\ Load(e).next = "NO_ACTION"
                 /\ Load(e).spawned = e.spawned + 1
<1>1. CASE e.state \in {"LOADING", "UNLOADING"}
  BY <1>1 DEF Load, Entries, States, Actions
<1>2. CASE e.state \in {"ABSENT", "UNKNOWN", "UNAVAILABLE"}
  <2>1. Load(e) = [e EXCEPT !.next = "NO_ACTION", !.state = "LOADING", !.spawned = e.spawned + 1]
    BY <1>2 DEF Load
  <2>2. e.spawned + 1 \in Nat
    BY DEF Entries
  <2>3. QED
    BY <1>2, <2>1, <2>2 DEF Entries, States, Actions
<1>3. QED
  BY <1>1, <1>2 DEF Entries, States

\* A load after an unload: it starts a worker at once, or is postponed until
\* the worker or the callback at work on the version is done.
LEMMA ReloadEffect ==
    ASSUME NEW e \in Entries
    PROVE  LET f == Load(Unload(e))
           IN  /\ f \in Entries
               /\ f.config = e.config
               /\ f.platform = e.platform
               /\ e.state = "READY" =>
                     /\ f.state = "UNLOADING"
                     /\ f.next = "LOAD"
                     /\ f.handle = None
                     /\ f.spawned = e.spawned
               /\ e.state # "READY" => f.handle = e.handle
               /\ e.state \in {"LOADING", "UNLOADING"} =>
                     /\ f.state = e.state
                     /\ f.next = "LOAD"
                     /\ f.spawned = e.spawned
               /\ e.state \in {"ABSENT", "UNKNOWN", "UNAVAILABLE"} =>
                     /\ f.state = "LOADING"
                     /\ f.next = "NO_ACTION"
                     /\ f.spawned = e.spawned + 1
<1>1. PICK u : u = Unload(e)
  OBVIOUS
<1>2. u \in Entries /\ u.config = e.config /\ u.platform = e.platform /\ u.spawned = e.spawned
  BY <1>1, UnloadEffect
<1>3. /\ e.state = "READY" => u.state = "UNLOADING" /\ u.handle = None
      /\ e.state # "READY" => u.state = e.state /\ u.handle = e.handle
  BY <1>1, UnloadEffect
<1>4. u.state # "READY"
  BY <1>3
<1>5. e.state \in States
  BY DEF Entries
<1>6. QED
  BY <1>1, <1>2, <1>3, <1>4, <1>5, LoadEffect DEF States

\* After a creation or a destruction: nothing happens if nothing is postponed;
\* a new backend is unloaded at once for either action; a version left without
\* a backend is loaded again if a load is postponed.
LEMMA TriggerEffect ==
    ASSUME NEW e \in Entries, e.state \in {"READY", "UNAVAILABLE"}
    PROVE  LET t == TriggerNextAction(e)
           IN  /\ t \in Entries
               /\ t.config = e.config
               /\ t.platform = e.platform
               /\ e.next = "NO_ACTION" =>
                     t.state = e.state /\ t.handle = e.handle /\ t.spawned = e.spawned
               /\ e.next # "NO_ACTION" /\ e.state = "READY" =>
                     t.state = "UNLOADING" /\ t.handle = None /\ t.spawned = e.spawned
               /\ e.next = "UNLOAD" /\ e.state = "UNAVAILABLE" =>
                     t.state = e.state /\ t.handle = e.handle /\ t.spawned = e.spawned
               /\ e.next = "LOAD" /\ e.state = "UNAVAILABLE" =>
                     t.state = "LOADING" /\ t.handle = e.handle /\ t.spawned = e.spawned + 1
               /\ t.next = IF e.next = "LOAD" /\ e.state = "READY" THEN "LOAD" ELSE "NO_ACTION"
<1>1. PICK b : b = [e EXCEPT !.next = "NO_ACTION"]
  OBVIOUS
<1>2. /\ b \in Entries /\ b.next = "NO_ACTION"
      /\ b.state = e.state /\ b.config = e.config /\ b.platform = e.platform
      /\ b.handle = e.handle /\ b.spawned = e.spawned
  BY <1>1 DEF Entries, Actions
<1>3. e.next \in Actions
  BY DEF Entries
<1>4. CASE e.next = "LOAD"
  <2>1. TriggerNextAction(e) = Load(Unload(b))
    BY <1>1, <1>4 DEF TriggerNextAction
  <2>2. PICK t : t = Load(Unload(b))
    OBVIOUS
  <2>3. /\ t \in Entries /\ t.config = b.config /\ t.platform = b.platform
        /\ b.state = "READY" => t.state = "UNLOADING" /\ t.next = "LOAD" /\ t.handle = None
                                /\ t.spawned = b.spawned
        /\ b.state = "UNAVAILABLE" => t.state = "LOADING" /\ t.next = "NO_ACTION"
                                      /\ t.handle = b.handle /\ t.spawned = b.spawned + 1
    BY <1>2, <2>2, ReloadEffect
  <2>4. QED
    BY <1>2, <1>4, <2>1, <2>2, <2>3
<1>5. CASE e.next = "UNLOAD"
  <2>1. TriggerNextAction(e) = Unload(b)
    BY <1>1, <1>5 DEF TriggerNextAction
  <2>2. PICK t : t = Unload(b)
    OBVIOUS
  <2>3. /\ t \in Entries /\ t.config = b.config /\ t.platform = b.platform
        /\ t.spawned = b.spawned /\ t.next = "NO_ACTION"
        /\ b.state = "READY" => t.state = "UNLOADING" /\ t.handle = None
        /\ b.state = "UNAVAILABLE" => t.state = b.state /\ t.handle = b.handle
    BY <1>2, <2>2, UnloadEffect
  <2>4. QED
    BY <1>2, <1>5, <2>1, <2>2, <2>3
<1>6. CASE e.next = "NO_ACTION"
  <2>1. TriggerNextAction(e) = b
    BY <1>1, <1>6 DEF TriggerNextAction
  <2>2. QED
    BY <1>2, <1>6, <2>1
<1>7. QED
  BY <1>3, <1>4, <1>5, <1>6 DEF Actions

(***************************************************************************)
(* The steps, in groups by what they touch.                                *)
(***************************************************************************)

\* Steps that change neither versions nor backends: only who holds map_mtx_
\* and where a retired backend waits.
LEMMA QuietStep ==
    ASSUME IInv, TypeOK', LoaderInv',
           UNCHANGED <<info, workers, request, destroying, wanted, outcome>>,
           Released' \subseteq Released,
           loader'.pc # "idle" => loader.pc # "idle" \/ ~MapLocked
    PROVE  IInv'
<1> USE DEF IInv
<1>1. Live' = Live
  BY DEF Live
<1>2. StateInv'
  BY <1>1 DEF StateInv, StateOf
<1>3. WorkerInv'
  BY DEF WorkerInv, WorkerOf
<1>4. BackendInv'
  BY <1>1 DEF BackendInv, Held
<1>5. WantedInv'
  BY DEF WantedInv, WantedOf
<1>6. ScanInv'
  BY DEF ScanInv, MapLocked, TypeOK
<1>7. QED
  BY <1>2, <1>3, <1>4, <1>5, <1>6

\* AsyncLoad keeps the invariant, at each of the three points where it gives up its locks.
LEMMA LoaderSteps ==
    ASSUME IInv,
           \/ \E m \in Models, vs \in SUBSET Versions, c \in Configs : AsyncLoad(m, vs, c)
           \/ AsyncLoadUnloaded
           \/ AsyncLoadReturn
    PROVE  IInv'
<1>1. CASE \E m \in Models, vs \in SUBSET Versions, c \in Configs : AsyncLoad(m, vs, c)
  <2>1. PICK m \in Models, vs \in SUBSET Versions, c \in Configs : AsyncLoad(m, vs, c)
    BY <1>1
  <2>2. loads' \in 0 .. MaxLoads
    BY <2>1, MaxLoadsAssumption DEF AsyncLoad, IInv, TypeOK
  <2>3. TypeOK'
    BY <2>1, <2>2 DEF AsyncLoad, IInv, TypeOK, Existing, release
  <2>4. LoaderInv'
    BY <2>1 DEF AsyncLoad, LoaderInv, Existing
  <2>5. QED
    BY <2>1, <2>3, <2>4, QuietStep DEF AsyncLoad, release, Released
<1>2. CASE AsyncLoadUnloaded
  <2>1. TypeOK'
    BY <1>2 DEF AsyncLoadUnloaded, IInv, TypeOK, release
  <2>2. LoaderInv'
    BY <1>2 DEF AsyncLoadUnloaded, LoaderInv, IInv, TypeOK
  <2>3. QED
    BY <1>2, <2>1, <2>2, QuietStep DEF AsyncLoadUnloaded, release, Released
<1>3. CASE AsyncLoadReturn
  <2>1. TypeOK'
    BY <1>3 DEF AsyncLoadReturn, NoLoad, IInv, TypeOK, release
  <2>2. LoaderInv'
    BY <1>3 DEF AsyncLoadReturn, NoLoad, LoaderInv, IInv, TypeOK
  <2>3. QED
    BY <1>3, <2>1, <2>2, QuietStep DEF AsyncLoadReturn, NoLoad, release, Released
<1>4. QED
  BY <1>1, <1>2, <1>3

\* The thread that destroys released backends keeps the invariant.
LEMMA ReleaseSteps ==
    ASSUME IInv, (\E b \in retired : QueueForRelease(b)) \/ TakeReleased \/ ClearReleased
    PROVE  IInv'
<1>1. CASE \E b \in retired : QueueForRelease(b)
  <2>1. TypeOK'
    BY <1>1 DEF QueueForRelease, IInv, TypeOK
  <2>2. Released' \subseteq Released
    BY <1>1 DEF QueueForRelease, Released
  <2>3. LoaderInv'
    BY <1>1 DEF QueueForRelease, IInv, LoaderInv, Existing
  <2>4. QED
    BY <1>1, <2>1, <2>2, <2>3, QuietStep DEF QueueForRelease
<1>2. CASE TakeReleased
  <2>1. TypeOK'
    BY <1>2 DEF TakeReleased, IInv, TypeOK
  <2>2. LoaderInv'
    BY <1>2 DEF TakeReleased, IInv, LoaderInv, Existing
  <2>3. QED
    BY <1>2, <2>1, <2>2, QuietStep DEF TakeReleased, Released
<1>3. CASE ClearReleased
  <2>1. TypeOK'
    BY <1>3 DEF ClearReleased, IInv, TypeOK
  <2>2. LoaderInv'
    BY <1>3 DEF ClearReleased, IInv, LoaderInv, Existing
  <2>3. QED
    BY <1>3, <2>1, <2>2, QuietStep DEF ClearReleased, Released
<1>4. QED
  BY <1>1, <1>2, <1>3

\* A worker copies the configuration it will build from.
LEMMA CopyConfigStep ==
    ASSUME IInv, NEW w \in workers, CopyConfig(w)
    PROVE  IInv'
<1> USE DEF IInv
<1>1. PICK x : x = [w EXCEPT !.pc = "create", !.config = info[w.key].config]
  OBVIOUS
<1>2. w \in Workers /\ w.key \in Keys
  BY DEF TypeOK, Workers
<1>3. info[w.key].config \in Configs
  BY <1>2 DEF WorkerInv, WorkerOf, WantedInv, WantedOf
<1>4. x \in Workers /\ x.key = w.key /\ x.id = w.id /\ x.config = info[w.key].config
  BY <1>1, <1>2, <1>3 DEF Workers
<1>5. workers' = (workers \ {w}) \cup {x}
  BY <1>1 DEF CopyConfig
<1>6. UNCHANGED <<info, loader, request, destroying, release, loads, wanted, outcome>>
  BY DEF CopyConfig
<1>7. Live' = Live /\ Released' = Released
  BY <1>6 DEF Live, Released, release
<1>8. TypeOK'
  BY <1>4, <1>5, <1>6 DEF TypeOK, release
<1>9. StateInv'
  BY <1>4, <1>5, <1>6, <1>7 DEF StateInv, StateOf
<1>10. WorkerInv'
  BY <1>3, <1>4, <1>5, <1>6, <1>7 DEF WorkerInv, WorkerOf
<1>11. BackendInv'
  BY <1>6, <1>7 DEF BackendInv, Held
<1>12. WantedInv'
  BY <1>6 DEF WantedInv, WantedOf
<1>13. ScanInv'
  BY <1>6 DEF ScanInv
<1>14. LoaderInv'
  BY <1>6 DEF LoaderInv, Existing
<1>15. QED
  BY <1>8, <1>9, <1>10, <1>11, <1>12, <1>13, <1>14

\* Steps of a request leave the versions alone and move a backend, at most,
\* from the last request that holds it to its callback's thread.
LEMMA RequestStep ==
    ASSUME IInv, TypeOK', ScanInv',
           UNCHANGED <<info, loader, workers, release, loads, wanted, outcome>>,
           Live' = Live,
           \A b \in destroying' : info[b.key].handle # b /\ ~Held(b)'
    PROVE  IInv'
<1> USE DEF IInv
<1>1. Released' = Released
  BY DEF Released, release
<1>2. StateInv'
  BY DEF StateInv, StateOf
<1>3. WorkerInv'
  BY <1>1 DEF WorkerInv, WorkerOf
<1>4. BackendInv'
  BY <1>1 DEF BackendInv
<1>5. WantedInv'
  BY DEF WantedInv, WantedOf
<1>6. LoaderInv'
  BY DEF LoaderInv, Existing
<1>7. QED
  BY <1>2, <1>3, <1>4, <1>5, <1>6

\* A request gets the handle of the version it names, which is in use.
LEMMA GetVersionStep ==
    ASSUME IInv, NEW r \in Requests, NEW k \in Keys, GetVersion(r, k)
    PROVE  IInv'
<1> USE DEF IInv
<1>1. PICK b : b = info[k].handle
  OBVIOUS
<1>2. b # None /\ b \in Live /\ b.key = k
  BY <1>1 DEF GetVersion, StateInv, StateOf, Live
<1>3. b \in Backends
  BY <1>1, <1>2 DEF TypeOK, Entries
<1>4. PICK q : q = [NoRequest EXCEPT !.pc = "hold", !.backend = b]
  OBVIOUS
<1>5. /\ q.pc = "hold"
      /\ q.backend = b
      /\ q \in [pc : {"idle", "scan", "hold"}, model : Models \cup {None},
                todo : SUBSET Versions, start : SUBSET Versions, backend : Backends \cup {None}]
  BY <1>3, <1>4 DEF NoRequest
<1>6. request' = [request EXCEPT ![r] = q]
  BY <1>1, <1>4 DEF GetVersion
<1>7. UNCHANGED <<info, loader, workers, destroying, release, loads, wanted, outcome>>
  BY DEF GetVersion
<1>8. request[r].backend = None
  BY DEF GetVersion, TypeOK
<1>9. TypeOK'
  BY <1>3, <1>5, <1>6, <1>7 DEF TypeOK, release
<1>10. \A p \in Requests : request'[p].backend = IF p = r THEN b ELSE request[p].backend
  BY <1>5, <1>6 DEF TypeOK
<1>11. Live' = Live
  BY <1>2, <1>7, <1>8, <1>10 DEF Live
<1>12. \A c \in destroying' : info[c.key].handle # c /\ ~Held(c)'
  BY <1>1, <1>2, <1>7, <1>10 DEF BackendInv, Held
<1>13. ScanInv'
  BY <1>5, <1>6, <1>7 DEF ScanInv, TypeOK
<1>14. QED
  BY <1>7, <1>9, <1>11, <1>12, <1>13, RequestStep

\* A request for the latest version starts to look at the versions of the model.
LEMMA GetLatestStep ==
    ASSUME IInv, NEW r \in Requests, NEW m \in Models, GetLatest(r, m)
    PROVE  IInv'
<1> USE DEF IInv
<1>1. request' = [request EXCEPT ![r] =
          [pc |-> "scan", model |-> m, todo |-> Existing(m), start |-> ReadyVersions(m),
           backend |-> None]]
  BY DEF GetLatest
<1>2. UNCHANGED <<info, loader, workers, destroying, release, loads, wanted, outcome>>
  BY DEF GetLatest
<1>3. Existing(m) \subseteq Versions /\ ReadyVersions(m) \subseteq Existing(m)
  BY DEF Existing, ReadyVersions
<1>4. TypeOK'
  BY <1>1, <1>2, <1>3 DEF TypeOK, release
<1>5. \A q \in Requests : request'[q].backend = request[q].backend
  BY <1>1 DEF TypeOK, GetLatest
<1>6. Live' = Live
  BY <1>2, <1>5 DEF Live
<1>7. \A c \in destroying' : info[c.key].handle # c /\ ~Held(c)'
  BY <1>2, <1>5 DEF BackendInv, Held
<1>8. ScanInv'
  BY <1>1, <1>2, <1>3 DEF ScanInv, TypeOK, GetLatest, MapLocked, ReadyVersions
<1>9. QED
  BY <1>2, <1>4, <1>6, <1>7, <1>8, RequestStep

\* A request has looked at all versions: it holds the one it chose, or ends.
LEMMA EndScanStep ==
    ASSUME IInv, NEW r \in Requests, EndScan(r)
    PROVE  IInv'
<1> USE DEF IInv
<1>1. PICK b : b = request[r].backend
  OBVIOUS
<1>2. PICK q : q = [NoRequest EXCEPT !.pc = IF b = None THEN "idle" ELSE "hold", !.backend = b]
  OBVIOUS
<1>3. /\ q.pc = IF b = None THEN "idle" ELSE "hold"
      /\ q.backend = b
      /\ q \in [pc : {"idle", "scan", "hold"}, model : Models \cup {None},
                todo : SUBSET Versions, start : SUBSET Versions, backend : Backends \cup {None}]
  BY <1>1, <1>2 DEF NoRequest, TypeOK
<1>4. request' = [request EXCEPT ![r] = q]
  BY <1>1, <1>2 DEF EndScan
<1>5. UNCHANGED <<info, loader, workers, destroying, release, loads, wanted, outcome>>
  BY DEF EndScan
<1>6. TypeOK'
  BY <1>1, <1>3, <1>4, <1>5 DEF TypeOK, release
<1>7. \A p \in Requests : request'[p].backend = request[p].backend
  BY <1>1, <1>3, <1>4 DEF TypeOK
<1>8. Live' = Live
  BY <1>5, <1>7 DEF Live
<1>9. \A c \in destroying' : info[c.key].handle # c /\ ~Held(c)'
  BY <1>5, <1>7 DEF BackendInv, Held
<1>10. ScanInv'
  BY <1>3, <1>4, <1>5 DEF ScanInv, TypeOK
<1>11. QED
  BY <1>5, <1>6, <1>8, <1>9, <1>10, RequestStep

\* The versions of a scan are examined upwards, so a later backend is better.
LEMMA ExamineVersionStep ==
    ASSUME IInv, NEW r \in Requests, ExamineVersion(r)
    PROVE  IInv'
<1> USE DEF IInv
<1>1. PICK v \in request[r].todo :
         /\ \A w \in request[r].todo : v <= w
         /\ request' = [request EXCEPT ![r] =
               [@ EXCEPT !.todo = request[r].todo \ {v},
                         !.backend = IF info[<<request[r].model, v>>].state = "READY"
                                     THEN info[<<request[r].model, v>>].handle
                                     ELSE request[r].backend]]
  BY DEF ExamineVersion
<1>2. request[r].pc = "scan" /\ UNCHANGED <<info, loader, workers, destroying, release, loads, wanted, outcome>>
  BY DEF ExamineVersion
<1>3. PICK m, k, b, c : /\ m = request[r].model
                        /\ k = <<m, v>>
                        /\ b = request[r].backend
                        /\ c = IF info[k].state = "READY" THEN info[k].handle ELSE b
  OBVIOUS
<1>4. m \in Models /\ v \in Versions /\ v \in Nat /\ k \in Keys
  BY <1>1, <1>2, <1>3, VersionsAssumption DEF TypeOK, Keys
<1>5. info[k].state = "READY" => c = info[k].handle /\ c # None /\ c.key = k /\ c \in Live /\ c \in Backends
  <2>1. info[k].state = "READY" => info[k].handle # None /\ info[k].handle.key = k
    BY <1>4 DEF StateInv, StateOf
  <2>2. info[k].handle \in Backends \cup {None}
    BY <1>4 DEF TypeOK, Entries
  <2>3. QED
    BY <1>3, <1>4, <2>1, <2>2 DEF Live
<1>6. b # None => b \in Backends /\ b \in Live /\ info[b.key].handle = b /\ b.key[1] = m
  BY <1>2, <1>3 DEF ScanInv, TypeOK, Live
<1>7. PICK q : q = [request[r] EXCEPT !.todo = request[r].todo \ {v}, !.backend = c]
  OBVIOUS
<1>8. /\ q \in [pc : {"idle", "scan", "hold"}, model : Models \cup {None},
                todo : SUBSET Versions, start : SUBSET Versions, backend : Backends \cup {None}]
      /\ q.pc = "scan" /\ q.model = m /\ q.backend = c
      /\ q.todo = request[r].todo \ {v} /\ q.start = request[r].start
  <2>1. c \in Backends \cup {None}
    BY <1>3, <1>5, <1>6
  <2>2. request[r] \in [pc : {"idle", "scan", "hold"}, model : Models \cup {None},
                todo : SUBSET Versions, start : SUBSET Versions, backend : Backends \cup {None}]
    BY DEF TypeOK
  <2>3. QED
    BY <1>2, <1>3, <1>7, <2>1, <2>2
<1>9. request' = [request EXCEPT ![r] = q]
  BY <1>1, <1>3, <1>7
<1>10. TypeOK'
  BY <1>2, <1>4, <1>8, <1>9 DEF TypeOK, release
<1>11. \A p \in Requests : request'[p] = IF p = r THEN q ELSE request[p]
  BY <1>9 DEF TypeOK
<1>12. Live' = Live
  <2>1. b # None => b \in {info[p].handle : p \in Keys}
    BY <1>6 DEF Backends
  <2>2. c # None => c \in {info[p].handle : p \in Keys}
    BY <1>3, <1>4, <1>5, <2>1
  <2>3. \A x : x # None =>
           (x \in {info[p].handle : p \in Keys} \cup {request[p].backend : p \in Requests}
            <=> x \in {info[p].handle : p \in Keys} \cup {request'[p].backend : p \in Requests})
    BY <1>3, <1>8, <1>11, <2>1, <2>2
  <2>4. QED
    BY <1>2, <2>3 DEF Live
<1>13. \A d \in destroying' : info[d.key].handle # d /\ ~Held(d)'
  BY <1>2, <1>3, <1>5, <1>8, <1>11 DEF BackendInv, Held
<1>14. ScanInv'
  <2>1. \A p \in Requests : request[p].pc = "scan" => p = r
    BY <1>2 DEF ScanInv
  <2>2. c # None => c.key[1] = m /\ info[c.key].handle = c
    BY <1>3, <1>4, <1>5, <1>6
  <2>3. c # None => \A w \in q.todo : c.key[2] <= w
    BY <1>1, <1>2, <1>3, <1>4, <1>5, <1>6, <1>8 DEF ScanInv
  <2>4. \A w \in q.start : /\ info[<<m, w>>].state = "READY"
                           /\ w \notin q.todo => c # None /\ w <= c.key[2]
    <3>1. TAKE w \in q.start
    <3>2. info[<<m, w>>].state = "READY"
      BY <1>2, <1>3, <1>8, <3>1 DEF ScanInv
    <3>3. CASE w = v
      BY <1>3, <1>4, <1>5, <3>2, <3>3
    <3>4. CASE w # v /\ w \notin q.todo
      <4>1. w \notin request[r].todo
        BY <1>8, <3>4
      <4>2. b # None /\ w <= b.key[2] /\ b.key[2] <= v
        BY <1>1, <1>2, <1>3, <1>8, <3>1, <4>1 DEF ScanInv
      <4>3. b.key[2] \in Nat /\ w \in Nat
        BY <1>6, <1>8, <3>1, <4>2, VersionsAssumption DEF Backends, Keys
      <4>4. QED
        BY <1>3, <1>4, <1>5, <3>2, <4>2, <4>3
    <3>5. QED
      BY <3>2, <3>3, <3>4
  <2>5. QED
    BY <1>2, <1>8, <1>11, <2>1, <2>2, <2>3, <2>4 DEF ScanInv
<1>15. QED
  BY <1>2, <1>10, <1>12, <1>13, <1>14, RequestStep

\* A request gives up its handle, perhaps the last one on a backend that is replaced.
LEMMA CompleteRequestStep ==
    ASSUME IInv, NEW r \in Requests, CompleteRequest(r)
    PROVE  IInv'
<1> USE DEF IInv
<1>1. PICK b : b = request[r].backend
  OBVIOUS
<1>2. b \in Backends /\ b # None /\ b \in Live
  BY <1>1, NoneAssumption DEF CompleteRequest, TypeOK, Live
<1>3. request' = [request EXCEPT ![r] = NoRequest]
  BY DEF CompleteRequest
<1>4. UNCHANGED <<info, loader, workers, release, loads, wanted, outcome>>
  BY DEF CompleteRequest
<1>5. destroying' = destroying \cup
         IF info[b.key].handle = b \/ \E q \in Requests \ {r} : request[q].backend = b
         THEN {} ELSE {b}
  BY <1>1 DEF CompleteRequest
<1>6. \A q \in Requests : request'[q].backend = IF q = r THEN None ELSE request[q].backend
  BY <1>3 DEF TypeOK, NoRequest
<1>7. TypeOK'
  <2>1. NoRequest \in [pc : {"idle", "scan", "hold"}, model : Models \cup {None},
                       todo : SUBSET Versions, start : SUBSET Versions,
                       backend : Backends \cup {None}]
    BY DEF NoRequest
  <2>2. destroying' \subseteq Backends
    BY <1>2, <1>5 DEF TypeOK
  <2>3. QED
    BY <1>3, <1>4, <2>1, <2>2 DEF TypeOK, NoRequest, release
<1>8. Live' = Live
  <2>1. b.key \in Keys
    BY <1>2 DEF Backends
  <2>2. \A x : x \in Live' <=> x \in Live
    BY <1>1, <1>2, <1>4, <1>5, <1>6, <2>1 DEF Live
  <2>3. QED
    BY <2>2
<1>9. \A c \in destroying' : info[c.key].handle # c /\ ~Held(c)'
  <2>1. \A c \in destroying' : c # None
    BY <1>2, <1>5, NoneAssumption DEF TypeOK
  <2>2. \A c \in destroying : info[c.key].handle # c /\ ~Held(c)'
    BY <1>6, <2>1, <1>5 DEF BackendInv, Held
  <2>3. b \in destroying' /\ b \notin destroying => info[b.key].handle # b /\ ~Held(b)'
    BY <1>2, <1>5, <1>6 DEF Held
  <2>4. QED
    BY <1>5, <2>2, <2>3
<1>10. ScanInv'
  BY <1>3, <1>4 DEF ScanInv, TypeOK, NoRequest
<1>11. QED
  BY <1>4, <1>7, <1>8, <1>9, <1>10, RequestStep

(***************************************************************************)
(* The steps that change a BackendInfo.                                    *)
(***************************************************************************)

\* Resetting a handle or finishing a creation keeps each live backend: the one
\* let go is held by a request or handed to its callback's thread.
LEMMA StoreLive ==
    ASSUME TypeOK, NEW k \in Keys, NEW before, NEW after, NEW others,
           Store(k, before, after, others), UNCHANGED request,
           after.handle \in {before.handle, None},
           info[k].handle \in {before.handle, None}
    PROVE  Live' = Live \cup ({before.handle} \ {None})
<1>1. \A j \in Keys : info'[j].handle = IF j = k THEN after.handle ELSE info[j].handle
  BY DEF Store, TypeOK
<1>2. destroying' = destroying \cup
          IF before.handle = after.handle \/ before.handle = None \/ Held(before.handle) THEN {}
          ELSE {before.handle}
  BY DEF Store
<1>3. \A x : x \in Live' <=> x \in Live \/ (x = before.handle /\ x # None)
  BY <1>1, <1>2 DEF Live, Held
<1>4. QED
  BY <1>3

\* The handle of a version, when there is one, is that of a live backend.
LEMMA HandleFacts ==
    ASSUME IInv, NEW k \in Keys
    PROVE  /\ info[k] \in Entries
           /\ info[k].state = "READY" <=> info[k].handle # None
           /\ info[k].handle # None =>
                 info[k].handle \in Backends /\ info[k].handle \in Live /\ info[k].handle.key = k
<1>1. info[k] \in Entries
  BY DEF IInv, TypeOK
<1>2. /\ info[k].state = "READY" <=> info[k].handle # None
      /\ info[k].handle # None => info[k].handle.key = k
  BY DEF IInv, StateInv, StateOf
<1>3. info[k].handle \in Backends \cup {None}
  BY <1>1 DEF Entries
<1>4. info[k].handle # None => info[k].handle \in Live
  BY DEF Live
<1>5. QED
  BY <1>1, <1>2, <1>3, <1>4

\* One round of AsyncLoad's unloading loop.
LEMMA AsyncLoadUnloadStep ==
    ASSUME IInv, AsyncLoadUnload
    PROVE  IInv'
<1>1. loader.pc = "unload" /\ UNCHANGED <<request, release, loads, outcome>>
  BY DEF AsyncLoadUnload
<1>2. PICK v \in loader.unload :
         /\ Store(<<loader.model, v>>, info[<<loader.model, v>>],
                  Unload(info[<<loader.model, v>>]), workers)
         /\ wanted' = [wanted EXCEPT ![<<loader.model, v>>] = "unload"]
         /\ loader' = [loader EXCEPT !.unload = @ \ {v}]
  BY DEF AsyncLoadUnload
<1>3. PICK k, e, u, h : k = <<loader.model, v>> /\ e = info[k] /\ u = Unload(e) /\ h = e.handle
  OBVIOUS
<1>4. k \in Keys /\ e \in Entries /\ e.state # "ABSENT" /\ e.state \in States
  BY <1>1, <1>2, <1>3 DEF IInv, TypeOK, Keys, LoaderInv, Existing, Entries
<1>5. /\ u \in Entries /\ u.config = e.config /\ u.spawned = e.spawned
      /\ e.state = "READY" => u.state = "UNLOADING" /\ u.next = "NO_ACTION" /\ u.handle = None
      /\ e.state # "READY" => u.state = e.state /\ u.handle = e.handle
      /\ e.state \in {"LOADING", "UNLOADING"} => u.next = "UNLOAD"
      /\ e.state \in {"ABSENT", "UNKNOWN", "UNAVAILABLE"} => u.next = "NO_ACTION"
  BY <1>3, <1>4, UnloadEffect
<1>6. Store(k, e, u, workers) /\ wanted' = [wanted EXCEPT ![k] = "unload"]
  BY <1>2, <1>3
<1>7. /\ \A j \in Keys : info'[j] = IF j = k THEN u ELSE info[j]
      /\ workers' = workers
      /\ \A j \in Keys : wanted'[j] = IF j = k THEN "unload" ELSE wanted[j]
  BY <1>5, <1>6 DEF Store, Started, TypeOK, IInv
<1>8. /\ e.state = "READY" <=> h # None
      /\ h # None => h \in Backends /\ h \in Live /\ h.key = k
  BY <1>3, <1>4, HandleFacts
<1>9. u.handle \in {h, None}
  BY <1>3, <1>5
<1>10. Live' = Live
  <2>1. Live' = Live \cup ({e.handle} \ {None})
    BY <1>1, <1>3, <1>4, <1>6, <1>9, StoreLive DEF IInv
  <2>2. QED
    BY <1>3, <1>8, <2>1
<1>11. destroying' = destroying \cup IF h = u.handle \/ h = None \/ Held(h) THEN {} ELSE {h}
  BY <1>3, <1>6 DEF Store
<1>12. Released' = Released
  BY <1>1 DEF Released, release
<1>13. TypeOK'
  <2>1. info' \in [Keys -> Entries] /\ wanted' \in [Keys -> {"none", "load", "unload"}]
    BY <1>4, <1>5, <1>6 DEF Store, IInv, TypeOK
  <2>2. destroying' \subseteq Backends
    BY <1>8, <1>11 DEF IInv, TypeOK
  <2>3. QED
    BY <1>1, <1>2, <1>7, <2>1, <2>2 DEF IInv, TypeOK, release
<1>14. StateInv'
  <2>1. ASSUME NEW j \in Keys, j # k
        PROVE  StateOf(j)'
    BY <1>7, <1>10, <2>1 DEF IInv, StateInv, StateOf
  <2>2. StateOf(k)
    BY <1>4 DEF IInv, StateInv
  <2>3. StateOf(k)'
    BY <1>3, <1>4, <1>5, <1>7, <1>8, <1>10, <2>2 DEF StateOf, States
  <2>4. QED
    BY <2>1, <2>3 DEF StateInv
<1>15. WorkerInv'
  <2>1. ASSUME NEW w \in workers
        PROVE  WorkerOf(w)'
    <3>1. WorkerOf(w) /\ w.key \in Keys
      BY DEF IInv, WorkerInv, TypeOK, Workers
    <3>2. QED
      BY <1>3, <1>4, <1>5, <1>7, <1>12, <3>1 DEF WorkerOf
  <2>2. QED
    BY <1>7, <2>1 DEF WorkerInv
<1>16. BackendInv'
  <2>1. \A b \in Live' : b \in Live /\ b.key \in Keys /\ b \in Backends
    BY <1>10 DEF IInv, TypeOK, Live, Backends, Entries
  <2>2. \A b \in Live' : /\ info'[b.key].state = "READY" \/ info'[b.key].state = "UNLOADING"
                         /\ info'[b.key].state = "READY" => info'[b.key].handle = b
    BY <1>3, <1>5, <1>7, <2>1 DEF IInv, BackendInv
  <2>3. \A b \in destroying' : info'[b.key].handle # b /\ ~Held(b)'
    <3>1. \A b : Held(b)' <=> Held(b)
      BY <1>1 DEF Held
    <3>2. \A b \in destroying : b.key \in Keys /\ b # None
      BY NoneAssumption DEF IInv, TypeOK, Backends
    <3>3. \A b \in destroying : info'[b.key].handle # b /\ ~Held(b)'
      BY <1>3, <1>7, <1>9, <3>1, <3>2 DEF IInv, BackendInv
    <3>4. h \in destroying' /\ h \notin destroying => info'[h.key].handle # h /\ ~Held(h)'
      BY <1>4, <1>7, <1>8, <1>11, <3>1
    <3>5. QED
      BY <1>11, <3>3, <3>4
  <2>4. /\ \A b \in Live' \cup Released' : b.id <= info'[b.key].spawned
        /\ Live' \cap Released' = {}
    <3>1. \A b \in Released : b.key \in Keys
      BY DEF IInv, TypeOK, Backends, Released
    <3>2. QED
      BY <1>3, <1>5, <1>7, <1>10, <1>12, <2>1, <3>1 DEF IInv, BackendInv
  <2>5. QED
    BY <1>10, <2>2, <2>3, <2>4 DEF IInv, BackendInv
<1>17. WantedInv'
  <2>1. ASSUME NEW j \in Keys, j # k
        PROVE  WantedOf(j)'
    BY <1>1, <1>7, <2>1 DEF IInv, WantedInv, WantedOf
  <2>2. WantedOf(k) /\ StateOf(k)
    BY <1>4 DEF IInv, WantedInv, StateInv
  <2>3. WantedOf(k)'
    BY <1>1, <1>3, <1>4, <1>5, <1>7, <2>2 DEF WantedOf, StateOf, States
  <2>4. QED
    BY <2>1, <2>3 DEF WantedInv
<1>18. ScanInv'
  BY <1>1 DEF IInv, ScanInv
<1>19. LoaderInv'
  <2>1. loader'.model = loader.model /\ loader'.unload \subseteq loader.unload
    BY <1>2 DEF IInv, TypeOK
  <2>2. \A x \in Versions : <<loader.model, x>> \in Keys
    BY <1>1 DEF IInv, TypeOK, Keys
  <2>3. u.state # "ABSENT"
    BY <1>4, <1>5
  <2>4. \A x \in loader.unload : info'[<<loader.model, x>>].state # "ABSENT"
    BY <1>1, <1>7, <2>2, <2>3 DEF IInv, LoaderInv, Existing
  <2>5. loader.unload \subseteq Versions
    BY DEF IInv, TypeOK
  <2>6. QED
    BY <2>1, <2>4, <2>5 DEF LoaderInv, Existing
<1>20. QED
  BY <1>13, <1>14, <1>15, <1>16, <1>17, <1>18, <1>19 DEF IInv

\* One round of AsyncLoad's loading loop: the version gets the configuration
\* and is reloaded, now or when the thread at work on it is done.
LEMMA AsyncLoadLoadStep ==
    ASSUME IInv, AsyncLoadLoad
    PROVE  IInv'
<1>1. loader.pc = "load" /\ UNCHANGED <<request, release, loads, outcome>>
  BY DEF AsyncLoadLoad
<1>2. PICK v, k, old, e, f :
         /\ v \in loader.load
         /\ k = <<loader.model, v>>
         /\ old = IF info[k].state = "ABSENT" THEN NewEntry(loader.config) ELSE info[k]
         /\ e = [old EXCEPT !.config = loader.config]
         /\ f = Load(Unload(e))
         /\ Store(k, old, f, workers)
         /\ wanted' = [wanted EXCEPT ![k] = "load"]
         /\ loader' = [loader EXCEPT !.load = @ \ {v}]
  BY DEF AsyncLoadLoad
<1>3. PICK h, c : h = info[k].handle /\ c = loader.config
  OBVIOUS
<1>4. k \in Keys /\ c \in Configs /\ info[k] \in Entries /\ info[k].state \in States \ {"UNKNOWN"}
  BY <1>1, <1>2, <1>3 DEF IInv, TypeOK, Keys, Entries, StateInv, StateOf
<1>5. /\ info[k].state = "READY" <=> h # None
      /\ h # None => h \in Backends /\ h \in Live /\ h.key = k
  BY <1>3, <1>4, HandleFacts
<1>6. /\ old \in Entries /\ old.handle = h /\ old.spawned = info[k].spawned
      /\ info[k].state = "ABSENT" => old.state = "UNKNOWN"
      /\ info[k].state # "ABSENT" => old.state = info[k].state
  <2>1. info[k].state = "ABSENT" => info[k].spawned = 0
    BY <1>4 DEF IInv, StateInv, StateOf
  <2>2. NewEntry(c) \in Entries /\ NewEntry(c).handle = None /\ NewEntry(c).spawned = 0
        /\ NewEntry(c).state = "UNKNOWN"
    BY <1>4 DEF NewEntry, Absent, Entries, States, Actions
  <2>3. QED
    BY <1>2, <1>3, <1>4, <1>5, <2>1, <2>2
<1>7. /\ e \in Entries /\ e.handle = h /\ e.spawned = old.spawned
      /\ e.state = old.state /\ e.config = c /\ e.spawned \in Nat
  BY <1>2, <1>3, <1>4, <1>6 DEF Entries
<1>8. /\ f \in Entries
      /\ f.config = c
      /\ e.state = "READY" =>
            f.state = "UNLOADING" /\ f.next = "LOAD" /\ f.handle = None /\ f.spawned = e.spawned
      /\ e.state # "READY" => f.handle = h
      /\ e.state \in {"LOADING", "UNLOADING"} =>
            f.state = e.state /\ f.next = "LOAD" /\ f.spawned = e.spawned
      /\ e.state \in {"ABSENT", "UNKNOWN", "UNAVAILABLE"} =>
            f.state = "LOADING" /\ f.next = "NO_ACTION" /\ f.spawned = e.spawned + 1
  BY <1>2, <1>7, ReloadEffect
<1>9. e.state \in {"READY", "LOADING", "UNLOADING", "UNKNOWN", "UNAVAILABLE"}
  BY <1>4, <1>6, <1>7 DEF States
<1>10. PICK w : w = [key |-> k, id |-> f.spawned, pc |-> "start", config |-> None]
  OBVIOUS
<1>11. /\ w \in Workers /\ w.key = k /\ w.id = f.spawned /\ w.pc = "start"
       /\ workers' = workers \cup IF f.spawned = e.spawned THEN {} ELSE {w}
  BY <1>2, <1>4, <1>6, <1>7, <1>8, <1>10 DEF Store, Started, Workers, Entries
<1>12. /\ \A j \in Keys : info'[j] = IF j = k THEN f ELSE info[j]
       /\ \A j \in Keys : wanted'[j] = IF j = k THEN "load" ELSE wanted[j]
  BY <1>2, <1>4 DEF Store, TypeOK, IInv
<1>13. f.handle \in {h, None}
  BY <1>8
<1>14. Live' = Live
  <2>1. Live' = Live \cup ({old.handle} \ {None})
    BY <1>1, <1>2, <1>3, <1>4, <1>6, <1>13, StoreLive DEF IInv
  <2>2. QED
    BY <1>5, <1>6, <2>1
<1>15. destroying' = destroying \cup IF h = f.handle \/ h = None \/ Held(h) THEN {} ELSE {h}
  BY <1>2, <1>6 DEF Store
<1>16. Released' = Released
  BY <1>1 DEF Released, release
<1>17. TypeOK'
  <2>1. info' \in [Keys -> Entries] /\ wanted' \in [Keys -> {"none", "load", "unload"}]
    BY <1>2, <1>4, <1>8 DEF Store, IInv, TypeOK
  <2>2. destroying' \subseteq Backends
    BY <1>5, <1>15 DEF IInv, TypeOK
  <2>3. workers' \subseteq Workers
    BY <1>11 DEF IInv, TypeOK
  <2>4. QED
    BY <1>1, <1>2, <2>1, <2>2, <2>3 DEF IInv, TypeOK, release
<1>18. f.spawned # e.spawned => \A x \in workers : x.key # k
  BY <1>4, <1>6, <1>7, <1>8, <1>9 DEF IInv, WorkerInv, WorkerOf
<1>19. StateInv'
  <2>1. ASSUME NEW j \in Keys, j # k
        PROVE  StateOf(j)'
    BY <1>11, <1>12, <1>14, <2>1 DEF IInv, StateInv, StateOf
  <2>2. StateOf(k)
    BY <1>4 DEF IInv, StateInv
  <2>3. StateOf(k)'
    <3>1. f.state \in {"LOADING", "UNLOADING"}
      BY <1>8, <1>9
    <3>2. f.state = "LOADING" => \E x \in workers' : x.key = k
      BY <1>3, <1>6, <1>7, <1>8, <1>9, <1>11, <2>2 DEF StateOf
    <3>3. f.state = "UNLOADING" => \E b \in Live' : b.key = k
      BY <1>3, <1>5, <1>6, <1>7, <1>8, <1>9, <1>14, <2>2 DEF StateOf
    <3>4. f.handle = None
      BY <1>5, <1>6, <1>7, <1>8, <1>9
    <3>5. QED
      BY <1>4, <1>12, <3>1, <3>2, <3>3, <3>4 DEF StateOf
  <2>4. QED
    BY <2>1, <2>3 DEF StateInv
<1>20. WorkerInv'
  <2>1. ASSUME NEW x \in workers
        PROVE  WorkerOf(x)'
    <3>1. WorkerOf(x) /\ x.key \in Keys
      BY DEF IInv, WorkerInv, TypeOK, Workers
    <3>2. CASE x.key = k
      <4>1. f.spawned = e.spawned
        BY <1>18, <3>2
      <4>2. QED
        BY <1>4, <1>6, <1>7, <1>8, <1>9, <1>11, <1>12, <1>16, <3>1, <3>2, <4>1 DEF WorkerOf
    <3>3. CASE x.key # k
      BY <1>11, <1>12, <1>16, <3>1, <3>3 DEF WorkerOf
    <3>4. QED
      BY <3>2, <3>3
  <2>2. ASSUME f.spawned # e.spawned
        PROVE  WorkerOf(w)'
    <3>1. f.state = "LOADING" /\ f.spawned = e.spawned + 1
      BY <1>8, <1>9, <2>2
    <3>2. \A b \in Released : b.key = k => b.id <= e.spawned /\ b.id \in Nat
      BY <1>6, <1>7 DEF IInv, BackendInv, TypeOK, Released, Backends
    <3>3. QED
      BY <1>4, <1>7, <1>11, <1>12, <1>16, <1>18, <2>2, <3>1, <3>2 DEF WorkerOf
  <2>3. QED
    BY <1>11, <2>1, <2>2 DEF WorkerInv
<1>21. BackendInv'
  <2>1. \A b \in Live' : b \in Live /\ b.key \in Keys /\ b \in Backends
    BY <1>14 DEF IInv, TypeOK, Live, Backends, Entries
  <2>2. \A b \in Live' : /\ info'[b.key].state = "READY" \/ info'[b.key].state = "UNLOADING"
                         /\ info'[b.key].state = "READY" => info'[b.key].handle = b
    BY <1>4, <1>6, <1>7, <1>8, <1>9, <1>12, <2>1 DEF IInv, BackendInv
  <2>3. \A b \in destroying' : info'[b.key].handle # b /\ ~Held(b)'
    <3>1. \A b : Held(b)' <=> Held(b)
      BY <1>1 DEF Held
    <3>2. \A b \in destroying : b.key \in Keys /\ b # None
      BY NoneAssumption DEF IInv, TypeOK, Backends
    <3>3. \A b \in destroying : info'[b.key].handle # b /\ ~Held(b)'
      BY <1>3, <1>12, <1>13, <3>1, <3>2 DEF IInv, BackendInv
    <3>4. h \in destroying' /\ h \notin destroying => info'[h.key].handle # h /\ ~Held(h)'
      BY <1>4, <1>5, <1>12, <1>15, <3>1
    <3>5. QED
      BY <1>15, <3>3, <3>4
  <2>4. /\ \A b \in Live' \cup Released' : b.id <= info'[b.key].spawned
        /\ Live' \cap Released' = {}
    <3>1. \A b \in Live \cup Released : b.key \in Keys /\ b.id \in Nat
      BY <1>14, <2>1 DEF IInv, TypeOK, Backends, Released
    <3>2. f.spawned \in {info[k].spawned, info[k].spawned + 1} /\ info[k].spawned \in Nat
      BY <1>6, <1>7, <1>8, <1>9
    <3>3. QED
      BY <1>12, <1>14, <1>16, <3>1, <3>2 DEF IInv, BackendInv
  <2>5. QED
    BY <1>14, <2>2, <2>3, <2>4 DEF IInv, BackendInv
<1>22. WantedInv'
  <2>1. ASSUME NEW j \in Keys, j # k
        PROVE  WantedOf(j)'
    BY <1>1, <1>12, <2>1 DEF IInv, WantedInv, WantedOf
  <2>2. WantedOf(k)'
    BY <1>4, <1>8, <1>9, <1>12 DEF WantedOf
  <2>3. QED
    BY <2>1, <2>2 DEF WantedInv
<1>23. ScanInv'
  BY <1>1 DEF IInv, ScanInv
<1>24. LoaderInv'
  BY <1>1, <1>2 DEF IInv, LoaderInv, TypeOK
<1>25. QED
  BY <1>17, <1>19, <1>20, <1>21, <1>22, <1>23, <1>24 DEF IInv

\* Versions that are loading or unloading are outside what a scan looks back
\* at, and never lose their BackendInfo.
LEMMA BusyVersionStep ==
    ASSUME IInv, NEW k \in Keys, info[k].state \in {"LOADING", "UNLOADING"},
           info' \in [Keys -> Entries], \A j \in Keys : j # k => info'[j] = info[j],
           info'[k].state # "ABSENT",
           UNCHANGED <<request, loader>>
    PROVE  ScanInv' /\ LoaderInv'
<1>1. info[k].handle = None
  BY HandleFacts
<1>2. LoaderInv'
  <2>1. loader.pc = "unload" => \A v \in loader.unload : <<loader.model, v>> \in Keys
    BY DEF IInv, TypeOK, Keys
  <2>2. QED
    BY <2>1 DEF IInv, LoaderInv, Existing
<1>3. ScanInv'
  <2>1. SUFFICES ASSUME NEW r \in Requests, request[r].pc = "scan"
                 PROVE  /\ request[r].backend # None =>
                              info'[request[r].backend.key].handle = request[r].backend
                        /\ \A v \in request[r].start :
                              info'[<<request[r].model, v>>].state = "READY"
    BY DEF IInv, ScanInv
  <2>2. request[r].backend # None =>
           request[r].backend.key \in Keys /\ info[request[r].backend.key].handle = request[r].backend
    BY <2>1 DEF IInv, ScanInv, TypeOK, Backends
  <2>3. \A v \in request[r].start : <<request[r].model, v>> \in Keys
                                    /\ info[<<request[r].model, v>>].state = "READY"
    BY <2>1 DEF IInv, ScanInv, TypeOK, Keys
  <2>4. QED
    BY <1>1, <2>2, <2>3
<1>4. QED
  BY <1>2, <1>3

\* A worker is done: its backend is served, or at once unloaded if an action
\* was postponed; after a failure a postponed load starts the next worker.
LEMMA FinishCreateStep ==
    ASSUME IInv, NEW w \in workers, NEW ok \in BOOLEAN, FinishCreate(w, ok)
    PROVE  IInv'
<1>1. w.pc = "create" /\ UNCHANGED <<loader, request, release, loads, wanted>>
  BY DEF FinishCreate
<1>2. PICK k, e, f, n, x :
         /\ k = w.key
         /\ n = [key |-> w.key, id |-> w.id, config |-> w.config]
         /\ e = Created(info[k], w, ok)
         /\ f = TriggerNextAction(e)
         /\ x = [key |-> k, id |-> f.spawned, pc |-> "start", config |-> None]
         /\ Store(k, e, f, workers \ {w})
         /\ outcome' = [outcome EXCEPT ![k] = [config |-> w.config, ok |-> ok]]
  BY DEF FinishCreate
<1>3. /\ w \in Workers /\ k \in Keys /\ info[k] \in Entries /\ info[k].state = "LOADING"
      /\ WorkerOf(w) /\ w.config \in Configs /\ w.id \in Nat /\ info[k].spawned = w.id
  BY <1>1, <1>2 DEF IInv, TypeOK, WorkerInv, WorkerOf, Workers
<1>4. info[k].handle = None
  BY <1>3, HandleFacts
<1>5. n \in Backends /\ n.key = k /\ n.id = w.id /\ n.config = w.config /\ n # None
  BY <1>2, <1>3, NoneAssumption DEF Backends
<1>6. /\ e \in Entries /\ e.next = info[k].next /\ e.spawned = w.id /\ e.config = info[k].config
      /\ ok => e.state = "READY" /\ e.handle = n
      /\ ~ok => e.state = "UNAVAILABLE" /\ e.handle = None
  BY <1>2, <1>3, <1>4, <1>5 DEF Created, Entries, States
<1>7. e.next \in Actions /\ e.state \in {"READY", "UNAVAILABLE"}
  BY <1>6 DEF Entries
<1>8. /\ f \in Entries /\ f.config = e.config
      /\ e.next = "NO_ACTION" => f.state = e.state /\ f.handle = e.handle /\ f.spawned = e.spawned
      /\ e.next # "NO_ACTION" /\ ok => f.state = "UNLOADING" /\ f.handle = None /\ f.spawned = e.spawned
      /\ e.next = "UNLOAD" /\ ~ok => f.state = "UNAVAILABLE" /\ f.handle = None /\ f.spawned = e.spawned
      /\ e.next = "LOAD" /\ ~ok => f.state = "LOADING" /\ f.handle = None /\ f.spawned = e.spawned + 1
      /\ f.next = IF e.next = "LOAD" /\ ok THEN "LOAD" ELSE "NO_ACTION"
  <2>1. PICK t : t = TriggerNextAction(e)
    OBVIOUS
  <2>2. /\ t \in Entries /\ t.config = e.config
        /\ e.next = "NO_ACTION" => t.state = e.state /\ t.handle = e.handle /\ t.spawned = e.spawned
        /\ e.next # "NO_ACTION" /\ e.state = "READY" =>
              t.state = "UNLOADING" /\ t.handle = None /\ t.spawned = e.spawned
        /\ e.next = "UNLOAD" /\ e.state = "UNAVAILABLE" =>
              t.state = e.state /\ t.handle = e.handle /\ t.spawned = e.spawned
        /\ e.next = "LOAD" /\ e.state = "UNAVAILABLE" =>
              t.state = "LOADING" /\ t.handle = e.handle /\ t.spawned = e.spawned + 1
        /\ t.next = IF e.next = "LOAD" /\ e.state = "READY" THEN "LOAD" ELSE "NO_ACTION"
    BY <1>6, <1>7, <2>1, TriggerEffect
  <2>3. QED
    BY <1>2, <1>6, <2>1, <2>2
<1>9. /\ \A j \in Keys : info'[j] = IF j = k THEN f ELSE info[j]
      /\ \A j \in Keys : outcome'[j] = IF j = k THEN [config |-> w.config, ok |-> ok] ELSE outcome[j]
  BY <1>2, <1>3 DEF Store, TypeOK, IInv
<1>10. /\ x \in Workers /\ x.key = k /\ x.id = f.spawned /\ x.pc = "start"
       /\ workers' = (workers \ {w}) \cup IF f.spawned = e.spawned THEN {} ELSE {x}
  BY <1>2, <1>3, <1>8 DEF Store, Started, Workers, Entries
<1>11. f.handle \in {e.handle, None}
  BY <1>6, <1>7, <1>8 DEF Actions
<1>12. Live' = Live \cup ({e.handle} \ {None})
  BY <1>1, <1>2, <1>3, <1>4, <1>11, StoreLive DEF IInv
<1>13. \A b \in Live : b.key \in Keys /\ b \in Backends /\ b.key # k
  <2>1. \A b \in Live : b \in Backends /\ b.key \in Keys
    BY DEF IInv, TypeOK, Live, Backends, Entries
  <2>2. QED
    BY <1>3, <2>1 DEF IInv, BackendInv
<1>14. ~Held(n) /\ n \notin destroying
  <2>1. n \notin Live
    BY <1>5, <1>13
  <2>2. QED
    BY <1>5, <2>1 DEF Live, Held
<1>15. destroying' = destroying \cup IF e.handle = f.handle \/ e.handle = None \/ Held(e.handle)
                                     THEN {} ELSE {e.handle}
  BY <1>2 DEF Store
<1>16. Released' = Released
  BY <1>1 DEF Released, release
<1>17. TypeOK'
  <2>1. info' \in [Keys -> Entries]
    BY <1>2, <1>3, <1>8 DEF Store, IInv, TypeOK
  <2>2. outcome' \in [Keys -> [config : Configs, ok : BOOLEAN] \cup {None}]
    BY <1>2, <1>3 DEF IInv, TypeOK
  <2>3. destroying' \subseteq Backends
    BY <1>5, <1>6, <1>7, <1>15 DEF IInv, TypeOK
  <2>4. workers' \subseteq Workers
    BY <1>10 DEF IInv, TypeOK
  <2>5. QED
    BY <1>1, <2>1, <2>2, <2>3, <2>4 DEF IInv, TypeOK, release
<1>18. \A y \in workers : y.key = k => y = w
  BY <1>2, <1>3 DEF WorkerOf
<1>19. StateInv'
  <2>1. ASSUME NEW j \in Keys, j # k
        PROVE  StateOf(j)'
    <3>1. StateOf(j)
      BY DEF IInv, StateInv
    <3>2. (\E y \in workers : y.key = j) => \E y \in workers' : y.key = j
      BY <1>2, <1>10, <2>1
    <3>3. QED
      BY <1>9, <1>12, <2>1, <3>1, <3>2 DEF StateOf
  <2>2. StateOf(k)'
    <3>1. f.state \in {"READY", "UNAVAILABLE", "UNLOADING", "LOADING"}
      BY <1>6, <1>7, <1>8 DEF Actions
    <3>2. f.state = "LOADING" => \E y \in workers' : y.key = k
      BY <1>3, <1>6, <1>7, <1>8, <1>10 DEF Actions
    <3>3. f.state = "UNLOADING" => \E b \in Live' : b.key = k
      BY <1>5, <1>6, <1>7, <1>8, <1>12 DEF Actions
    <3>4. f.handle # None <=> f.state = "READY"
      BY <1>5, <1>6, <1>7, <1>8 DEF Actions
    <3>5. f.handle # None => f.handle.key = k
      BY <1>5, <1>6, <1>11
    <3>6. f.next # "NO_ACTION" => f.state = "UNLOADING"
      BY <1>8
    <3>7. QED
      BY <1>3, <1>9, <3>1, <3>2, <3>3, <3>4, <3>5, <3>6 DEF StateOf
  <2>3. QED
    BY <2>1, <2>2 DEF StateInv
<1>20. WorkerInv'
  <2>1. ASSUME NEW y \in workers, y # w
        PROVE  WorkerOf(y)'
    <3>1. WorkerOf(y) /\ y.key \in Keys
      BY DEF IInv, WorkerInv, TypeOK, Workers
    <3>2. y.key # k
      BY <1>18, <2>1
    <3>3. QED
      BY <1>9, <1>10, <1>16, <3>1, <3>2 DEF WorkerOf
  <2>2. ASSUME f.spawned # e.spawned
        PROVE  WorkerOf(x)'
    <3>1. f.state = "LOADING" /\ f.spawned = e.spawned + 1
      BY <1>6, <1>7, <1>8, <2>2 DEF Actions
    <3>2. \A b \in Released : b.key = k => b.id <= e.spawned /\ b.id \in Nat
      <4>1. \A b \in Released : b.id \in Nat
        BY DEF IInv, TypeOK, Released, Backends
      <4>2. QED
        BY <1>3, <1>6, <4>1 DEF IInv, BackendInv
    <3>3. QED
      BY <1>3, <1>6, <1>9, <1>10, <1>16, <1>18, <2>2, <3>1, <3>2 DEF WorkerOf
  <2>3. QED
    BY <1>10, <2>1, <2>2 DEF WorkerInv
<1>21. BackendInv'
  <2>1. \A b, c \in Live' : b.key = c.key => b = c
    BY <1>5, <1>6, <1>7, <1>12, <1>13 DEF IInv, BackendInv
  <2>2. \A b \in Live : /\ info'[b.key].state = "READY" \/ info'[b.key].state = "UNLOADING"
                        /\ info'[b.key].state = "READY" => info'[b.key].handle = b
    BY <1>9, <1>13 DEF IInv, BackendInv
  <2>3. e.handle # None => /\ f.state = "READY" \/ f.state = "UNLOADING"
                           /\ f.state = "READY" => f.handle = e.handle
    BY <1>6, <1>7, <1>8 DEF Actions
  <2>4. \A b \in Live' : /\ info'[b.key].state = "READY" \/ info'[b.key].state = "UNLOADING"
                         /\ info'[b.key].state = "READY" => info'[b.key].handle = b
    BY <1>3, <1>5, <1>6, <1>7, <1>9, <1>12, <2>2, <2>3
  <2>5. \A b \in destroying' : info'[b.key].handle # b /\ ~Held(b)'
    <3>1. \A b : Held(b)' <=> Held(b)
      BY <1>1 DEF Held
    <3>2. \A b \in destroying : b.key \in Keys /\ b # None /\ b # n
      BY <1>14, NoneAssumption DEF IInv, TypeOK, Backends
    <3>3. \A b \in destroying : info'[b.key].handle # b /\ ~Held(b)'
      BY <1>6, <1>7, <1>9, <1>11, <3>1, <3>2 DEF IInv, BackendInv
    <3>4. ASSUME NEW b \in destroying', b \notin destroying
          PROVE  info'[b.key].handle # b /\ ~Held(b)'
      BY <1>3, <1>5, <1>6, <1>7, <1>9, <1>11, <1>14, <1>15, <3>1, <3>4
    <3>5. QED
      BY <3>3, <3>4
  <2>6. /\ \A b \in Live' \cup Released' : b.id <= info'[b.key].spawned
        /\ Live' \cap Released' = {}
    <3>1. \A b \in Live \cup Released : b.key \in Keys /\ b.id \in Nat
      BY <1>13 DEF IInv, TypeOK, Backends, Released
    <3>2. f.spawned \in {info[k].spawned, info[k].spawned + 1} /\ info[k].spawned \in Nat
      BY <1>3, <1>6, <1>7, <1>8 DEF Actions
    <3>3. n \notin Released
      BY <1>2, <1>3, <1>5, <3>1 DEF WorkerOf
    <3>4. \A b \in Live \cup Released : b.id <= info'[b.key].spawned
      BY <1>9, <3>1, <3>2 DEF IInv, BackendInv
    <3>5. n.id <= info'[n.key].spawned
      BY <1>3, <1>5, <1>9, <3>2
    <3>6. QED
      BY <1>6, <1>7, <1>12, <1>16, <3>3, <3>4, <3>5 DEF IInv, BackendInv
  <2>7. QED
    BY <2>1, <2>4, <2>5, <2>6 DEF BackendInv
<1>22. WantedInv'
  <2>1. ASSUME NEW j \in Keys, j # k
        PROVE  WantedOf(j)'
    BY <1>1, <1>9, <2>1 DEF IInv, WantedInv, WantedOf
  <2>2. WantedOf(k) /\ wanted[k] \in {"none", "load", "unload"}
    BY <1>3 DEF IInv, WantedInv, TypeOK
  <2>3. e.next = "NO_ACTION" => w.config = e.config
    BY <1>1, <1>2, <1>3, <1>6 DEF WorkerOf
  <2>4. wanted[k] # "none" /\ (e.next = "UNLOAD" <=> wanted[k] = "unload") /\ e.config \in Configs
    BY <1>3, <1>6, <2>2 DEF WantedOf
  <2>5. ASSUME e.next = "NO_ACTION" PROVE WantedOf(k)'
    <3>1. f.state = IF ok THEN "READY" ELSE "UNAVAILABLE"
      BY <1>6, <1>8, <2>5
    <3>2. wanted'[k] = "load" /\ f.config = w.config /\ f.config \in Configs
      BY <1>1, <1>6, <1>8, <2>2, <2>3, <2>4, <2>5
    <3>3. ok = (f.state = "READY")
      BY <3>1
    <3>4. outcome'[k] = [config |-> f.config, ok |-> f.state = "READY"]
      BY <1>3, <1>9, <3>2, <3>3
    <3>5. f.state = "READY" => f.handle.config = f.config
      BY <1>5, <1>6, <1>8, <2>5, <3>1, <3>2
    <3>6. QED
      BY <1>3, <1>9, <3>1, <3>2, <3>4, <3>5 DEF WantedOf
  <2>6. ASSUME e.next = "LOAD" PROVE WantedOf(k)'
    <3>1. f.state = (IF ok THEN "UNLOADING" ELSE "LOADING") /\ f.config \in Configs
          /\ f.next = (IF ok THEN "LOAD" ELSE "NO_ACTION") /\ wanted'[k] = "load"
      BY <1>1, <1>6, <1>8, <2>2, <2>4, <2>6
    <3>2. QED
      BY <1>3, <1>9, <3>1 DEF WantedOf
  <2>7. ASSUME e.next = "UNLOAD" PROVE WantedOf(k)'
    <3>1. f.state = (IF ok THEN "UNLOADING" ELSE "UNAVAILABLE") /\ f.config \in Configs
          /\ f.next = "NO_ACTION" /\ wanted'[k] = "unload"
      BY <1>1, <1>6, <1>8, <2>2, <2>4, <2>7
    <3>2. QED
      BY <1>3, <1>9, <3>1 DEF WantedOf
  <2>8. WantedOf(k)'
    BY <1>7, <2>5, <2>6, <2>7 DEF Actions
  <2>9. QED
    BY <2>1, <2>8 DEF WantedInv
<1>23. ScanInv' /\ LoaderInv'
  <2>1. info' \in [Keys -> Entries]
    BY <1>17 DEF TypeOK
  <2>2. f.state # "ABSENT"
    BY <1>6, <1>7, <1>8 DEF Actions
  <2>3. QED
    BY <1>1, <1>3, <1>9, <2>1, <2>2, BusyVersionStep
<1>24. QED
  BY <1>17, <1>19, <1>20, <1>21, <1>22, <1>23 DEF IInv

\* The callback of a destroyed backend: the version is unavailable, or loads
\* again if a load was postponed; the backend awaits release.
LEMMA OnDestroyStep ==
    ASSUME IInv, NEW d \in destroying, OnDestroy(d)
    PROVE  IInv'
<1>1. UNCHANGED <<loader, request, releaseQueue, releaser, loads, wanted, outcome>>
  BY DEF OnDestroy
<1>2. PICK k, e, f, x :
         /\ k = d.key
         /\ e = [info[k] EXCEPT !.state = "UNAVAILABLE"]
         /\ f = TriggerNextAction(e)
         /\ x = [key |-> k, id |-> f.spawned, pc |-> "start", config |-> None]
         /\ info' = [info EXCEPT ![k] = f]
         /\ workers' = workers \cup Started(k, e, f)
         /\ destroying' = destroying \ {d}
         /\ retired' = retired \cup {d}
  BY DEF OnDestroy
<1>3. d \in Backends /\ d # None /\ d \in Live /\ k \in Keys /\ info[k] \in Entries
  BY <1>2, NoneAssumption DEF IInv, TypeOK, Backends, Live
<1>4. info[k].state = "UNLOADING" /\ info[k].handle # d /\ ~Held(d)
  BY <1>2, <1>3 DEF IInv, BackendInv
<1>5. info[k].handle = None
  BY <1>3, <1>4, HandleFacts
<1>6. /\ e \in Entries /\ e.state = "UNAVAILABLE" /\ e.next = info[k].next /\ e.next \in Actions
      /\ e.spawned = info[k].spawned /\ e.config = info[k].config /\ e.handle = None
      /\ e.spawned \in Nat
  BY <1>2, <1>3, <1>5 DEF Entries, States
<1>7. /\ f \in Entries /\ f.config = e.config /\ f.handle = None /\ f.next = "NO_ACTION"
      /\ e.next # "LOAD" => f.state = "UNAVAILABLE" /\ f.spawned = e.spawned
      /\ e.next = "LOAD" => f.state = "LOADING" /\ f.spawned = e.spawned + 1
  <2>1. PICK t : t = TriggerNextAction(e)
    OBVIOUS
  <2>2. /\ t \in Entries /\ t.config = e.config
        /\ e.next = "NO_ACTION" => t.state = e.state /\ t.handle = e.handle /\ t.spawned = e.spawned
        /\ e.next = "UNLOAD" /\ e.state = "UNAVAILABLE" =>
              t.state = e.state /\ t.handle = e.handle /\ t.spawned = e.spawned
        /\ e.next = "LOAD" /\ e.state = "UNAVAILABLE" =>
              t.state = "LOADING" /\ t.handle = e.handle /\ t.spawned = e.spawned + 1
        /\ t.next = IF e.next = "LOAD" /\ e.state = "READY" THEN "LOAD" ELSE "NO_ACTION"
    BY <1>6, <2>1, TriggerEffect
  <2>3. QED
    BY <1>2, <1>6, <2>1, <2>2 DEF Actions
<1>8. \A j \in Keys : info'[j] = IF j = k THEN f ELSE info[j]
  BY <1>2, <1>3 DEF TypeOK, IInv
<1>9. /\ x \in Workers /\ x.key = k /\ x.id = f.spawned /\ x.pc = "start"
      /\ workers' = workers \cup IF f.spawned = e.spawned THEN {} ELSE {x}
  BY <1>2, <1>3, <1>7 DEF Started, Workers, Entries
<1>10. \A b \in Live : b.key \in Keys /\ b \in Backends
  BY DEF IInv, TypeOK, Live, Backends, Entries
<1>11. Live' = Live \ {d}
  <2>1. \A j \in Keys : info'[j].handle = info[j].handle
    BY <1>5, <1>7, <1>8
  <2>2. \A j \in Keys : info[j].handle # d
    <3>1. \A j \in Keys : info[j].handle = d => j = k
      BY <1>2, <1>3, HandleFacts
    <3>2. QED
      BY <1>4, <3>1
  <2>3. \A y : y \in Live' <=> y \in Live /\ y # d
    BY <1>1, <1>2, <1>4, <2>1, <2>2 DEF Live, Held
  <2>4. QED
    BY <2>3
<1>12. Released' = Released \cup {d}
  BY <1>1, <1>2 DEF Released
<1>13. \A w \in workers : w.key # k
  BY <1>4 DEF IInv, WorkerInv, WorkerOf
<1>14. TypeOK'
  <2>1. info' \in [Keys -> Entries]
    BY <1>2, <1>3, <1>7 DEF IInv, TypeOK
  <2>2. workers' \subseteq Workers
    BY <1>9 DEF IInv, TypeOK
  <2>3. destroying' \subseteq Backends /\ retired' \subseteq Backends
    BY <1>2, <1>3 DEF IInv, TypeOK
  <2>4. QED
    BY <1>1, <2>1, <2>2, <2>3 DEF IInv, TypeOK
<1>15. StateInv'
  <2>1. ASSUME NEW j \in Keys, j # k
        PROVE  StateOf(j)'
    <3>1. StateOf(j)
      BY DEF IInv, StateInv
    <3>2. (\E b \in Live : b.key = j) => \E b \in Live' : b.key = j
      BY <1>2, <1>11, <2>1
    <3>3. QED
      BY <1>8, <1>9, <2>1, <3>1, <3>2 DEF StateOf
  <2>2. StateOf(k)'
    BY <1>3, <1>6, <1>7, <1>8, <1>9 DEF StateOf
  <2>3. QED
    BY <2>1, <2>2 DEF StateInv
<1>16. WorkerInv'
  <2>1. ASSUME NEW w \in workers
        PROVE  WorkerOf(w)'
    <3>1. WorkerOf(w) /\ w.key \in Keys
      BY DEF IInv, WorkerInv, TypeOK, Workers
    <3>2. w.key # k
      BY <1>13
    <3>3. QED
      BY <1>2, <1>8, <1>9, <1>12, <3>1, <3>2 DEF WorkerOf
  <2>2. ASSUME f.spawned # e.spawned
        PROVE  WorkerOf(x)'
    <3>1. f.state = "LOADING" /\ f.spawned = e.spawned + 1
      BY <1>7, <2>2
    <3>2. \A b \in Released' : b.key = k => b.id <= e.spawned /\ b.id \in Nat
      <4>1. \A b \in Released : b.id \in Nat /\ (b.key = k => b.id <= e.spawned)
        BY <1>6 DEF IInv, TypeOK, BackendInv, Released, Backends
      <4>2. d.id \in Nat /\ d.id <= e.spawned
        BY <1>2, <1>3, <1>6 DEF Backends, IInv, BackendInv
      <4>3. QED
        BY <1>12, <4>1, <4>2
    <3>3. QED
      BY <1>3, <1>6, <1>8, <1>9, <1>13, <2>2, <3>1, <3>2 DEF WorkerOf
  <2>3. QED
    BY <1>9, <2>1, <2>2 DEF WorkerInv
<1>17. BackendInv'
  <2>1. \A b, c \in Live' : b.key = c.key => b = c
    BY <1>11 DEF IInv, BackendInv
  <2>2. \A b \in Live' : b.key # k
    BY <1>2, <1>3, <1>11 DEF IInv, BackendInv
  <2>3. \A b \in Live' : /\ info'[b.key].state = "READY" \/ info'[b.key].state = "UNLOADING"
                         /\ info'[b.key].state = "READY" => info'[b.key].handle = b
    BY <1>8, <1>10, <1>11, <2>2 DEF IInv, BackendInv
  <2>4. \A b \in destroying' : info'[b.key].handle # b /\ ~Held(b)'
    <3>1. \A b : Held(b)' <=> Held(b)
      BY <1>1 DEF Held
    <3>2. \A b \in destroying : b.key \in Keys /\ b # None
      BY NoneAssumption DEF IInv, TypeOK, Backends
    <3>3. QED
      BY <1>2, <1>7, <1>8, <3>1, <3>2 DEF IInv, BackendInv
  <2>5. /\ \A b \in Live' \cup Released' : b.id <= info'[b.key].spawned
        /\ Live' \cap Released' = {}
    <3>1. \A b \in Live \cup Released : b.key \in Keys /\ b.id \in Nat
      BY <1>10 DEF IInv, TypeOK, Backends, Released
    <3>2. f.spawned \in {info[k].spawned, info[k].spawned + 1} /\ info[k].spawned \in Nat
      BY <1>6, <1>7
    <3>3. \A b \in Live \cup Released : b.id <= info'[b.key].spawned
      BY <1>8, <3>1, <3>2 DEF IInv, BackendInv
    <3>4. QED
      BY <1>3, <1>11, <1>12, <3>3 DEF IInv, BackendInv
  <2>6. QED
    BY <2>1, <2>3, <2>4, <2>5 DEF BackendInv
<1>18. WantedInv'
  <2>1. ASSUME NEW j \in Keys, j # k
        PROVE  WantedOf(j)'
    BY <1>1, <1>8, <2>1 DEF IInv, WantedInv, WantedOf
  <2>2. WantedOf(k) /\ wanted[k] \in {"none", "load", "unload"}
    BY <1>3 DEF IInv, WantedInv, TypeOK
  <2>3. wanted[k] # "none" /\ (e.next = "LOAD" <=> wanted[k] = "load") /\ e.config \in Configs
    BY <1>4, <1>6, <2>2 DEF WantedOf
  <2>4. WantedOf(k)'
    BY <1>1, <1>3, <1>7, <1>8, <2>2, <2>3 DEF WantedOf
  <2>5. QED
    BY <2>1, <2>4 DEF WantedInv
<1>19. ScanInv' /\ LoaderInv'
  <2>1. info' \in [Keys -> Entries]
    BY <1>14 DEF TypeOK
  <2>2. f.state # "ABSENT"
    BY <1>7
  <2>3. QED
    BY <1>1, <1>3, <1>4, <1>8, <2>1, <2>2, BusyVersionStep
<1>20. QED
  BY <1>14, <1>15, <1>16, <1>17, <1>18, <1>19 DEF IInv

(***************************************************************************)
(* The invariant, and the theorems.                                        *)
(***************************************************************************)
\* The invariant holds when there are no models.
LEMMA InitInv == Init => IInv
<1> SUFFICES ASSUME Init PROVE IInv
  OBVIOUS
<1>1. \A k \in Keys : info[k] = Absent
  BY DEF Init
<1>2. Live = {} /\ Released = {} /\ workers = {}
  BY <1>1 DEF Init, Live, Released, Absent, NoRequest
<1>3. TypeOK
  <2>1. Absent \in Entries
    BY DEF Absent, Entries, States, Actions
  <2>2. loads \in 0 .. MaxLoads
    BY MaxLoadsAssumption DEF Init
  <2>3. QED
    BY <2>1, <2>2 DEF Init, TypeOK, NoLoad, NoRequest
<1>4. StateInv
  BY <1>1, <1>2 DEF StateInv, StateOf, Absent
<1>5. WantedInv
  BY <1>1 DEF Init, WantedInv, WantedOf, Absent
<1>6. BackendInv
  BY <1>2 DEF Init, BackendInv
<1>7. QED
  BY <1>2, <1>3, <1>4, <1>5, <1>6 DEF IInv, WorkerInv, ScanInv, LoaderInv, Init, NoLoad, NoRequest

\* The invariant is inductive.
LEMMA StepInv == IInv /\ [Next]_vars => IInv'
<1> SUFFICES ASSUME IInv, [Next]_vars PROVE IInv'
  OBVIOUS
<1>1. CASE UNCHANGED vars
  <2>1. TypeOK' /\ LoaderInv' /\ Released' = Released
    BY <1>1 DEF vars, release, IInv, TypeOK, LoaderInv, Existing, Released
  <2>2. QED
    BY <1>1, <2>1, QuietStep DEF vars
<1>2. CASE \/ \E m \in Models, vs \in SUBSET Versions, c \in Configs : AsyncLoad(m, vs, c)
           \/ AsyncLoadUnloaded
           \/ AsyncLoadReturn
  BY <1>2, LoaderSteps
<1>3. CASE (\E b \in retired : QueueForRelease(b)) \/ TakeReleased \/ ClearReleased
  BY <1>3, ReleaseSteps
<1>4. CASE AsyncLoadUnload
  BY <1>4, AsyncLoadUnloadStep
<1>5. CASE AsyncLoadLoad
  BY <1>5, AsyncLoadLoadStep
<1>6. CASE \E w \in workers : CopyConfig(w)
  BY <1>6, CopyConfigStep
<1>7. CASE \E w \in workers, ok \in BOOLEAN : FinishCreate(w, ok)
  BY <1>7, FinishCreateStep
<1>8. CASE \E b \in destroying : OnDestroy(b)
  BY <1>8, OnDestroyStep
<1>9. CASE \E r \in Requests, k \in Keys : GetVersion(r, k)
  BY <1>9, GetVersionStep
<1>10. CASE \E r \in Requests, m \in Models : GetLatest(r, m)
  BY <1>10, GetLatestStep
<1>11. CASE \E r \in Requests : ExamineVersion(r) \/ EndScan(r) \/ CompleteRequest(r)
  BY <1>11, ExamineVersionStep, EndScanStep, CompleteRequestStep
<1>12. QED
  BY <1>1, <1>2, <1>3, <1>4, <1>5, <1>6, <1>7, <1>8, <1>9, <1>10, <1>11 DEF Next

\* The inductive invariant holds in every reachable state.
THEOREM Invariance == Spec => []IInv
<1>1. QED
  BY InitInv, StepInv, PTL DEF Spec

\* Every reachable state is well typed.
THEOREM TypeCorrect == Spec => []TypeOK
<1>1. IInv => TypeOK
  BY DEF IInv
<1>2. QED
  BY <1>1, Invariance, PTL

\* However polls, workers, requests and callbacks interleave, a version never
\* has two backends, nor one being built while one is alive.
THEOREM OneBackend == Spec => []OneBackendPerVersion
<1>1. IInv => OneBackendPerVersion
  BY DEF IInv, BackendInv, WorkerInv, WorkerOf, OneBackendPerVersion
<1>2. QED
  BY <1>1, Invariance, PTL

\* GetLiveBackendStates reports every version a request may still be using.
THEOREM InUseReportedLive == Spec => []InUseIsLive
<1>1. IInv => InUseIsLive
  BY DEF IInv, BackendInv, InUseIsLive
<1>2. QED
  BY <1>1, Invariance, PTL

\* A served backend has the configuration AsyncLoad was last given.
THEOREM ServesCurrentConfig == Spec => []ReadyServesCurrentConfig
<1>1. IInv => ReadyServesCurrentConfig
  BY DEF IInv, StateInv, StateOf, WantedInv, WantedOf, ReadyServesCurrentConfig
<1>2. QED
  BY <1>1, Invariance, PTL

\* A postponed action always has a thread that will trigger it.
THEOREM PostponedTriggered == Spec => []PostponedIsTriggered
<1>1. IInv => PostponedIsTriggered
  BY DEF IInv, StateInv, StateOf, PostponedIsTriggered
<1>2. QED
  BY <1>1, Invariance, PTL

\* A settled version is in the state AsyncLoad last asked for.
THEOREM LastRequest == Spec => []LastRequestWins
<1>1. IInv => LastRequestWins
  <2> SUFFICES ASSUME IInv, NEW k \in Keys, Settled(k)
               PROVE  /\ wanted[k] = "none" <=> info[k].state = "ABSENT"
                      /\ wanted[k] = "unload" => info[k].state = "UNAVAILABLE"
                      /\ wanted[k] = "load" =>
                            /\ info[k].state \in {"READY", "UNAVAILABLE"}
                            /\ outcome[k] = [config |-> info[k].config,
                                             ok |-> info[k].state = "READY"]
    BY DEF LastRequestWins
  <2>1. WantedOf(k) /\ StateOf(k) /\ info[k].state \in States
    BY DEF IInv, WantedInv, StateInv, TypeOK, Entries
  <2>2. info[k].state \in {"ABSENT", "READY", "UNAVAILABLE"}
    BY <2>1 DEF Settled, StateOf, States
  <2>3. QED
    BY <2>1, <2>2 DEF WantedOf
<1>2. QED
  BY <1>1, Invariance, PTL

\* No request, version or pending callback refers to a released backend.
THEOREM ReleasedUnused == Spec => []ReleasedIsUnused
<1>1. IInv => ReleasedIsUnused
  BY DEF IInv, BackendInv, ReleasedIsUnused
<1>2. QED
  BY <1>1, Invariance, PTL

\* A lookup of the latest version never returns less than what was ready when
\* it began, nor a backend that is no longer served.
THEOREM LatestReady == Spec => LatestIsReady
<1>1. ASSUME IInv, [Next]_vars, NEW r \in Requests PROVE LatestLookup(r)
  <2> SUFFICES ASSUME request[r].pc = "scan", request'[r].pc # "scan" PROVE LatestLookup(r)
    BY DEF LatestLookup
  <2>1. EndScan(r)
    <3>1. ASSUME NEW q \in Requests, NEW x, request' = [request EXCEPT ![q] = x], q # r
          PROVE  FALSE
      BY <3>1 DEF IInv, TypeOK
    <3>2. ~UNCHANGED request
      OBVIOUS
    <3>3. PICK q \in Requests :
             \/ \E k \in Keys : GetVersion(q, k)
             \/ \E m \in Models : GetLatest(q, m)
             \/ ExamineVersion(q) \/ EndScan(q) \/ CompleteRequest(q)
      BY <1>1, <3>2 DEF Next, vars, AsyncLoad, AsyncLoadUnload, AsyncLoadUnloaded, AsyncLoadLoad,
         AsyncLoadReturn, CopyConfig, FinishCreate, OnDestroy, QueueForRelease, TakeReleased,
         ClearReleased
    <3>4. q = r
      BY <3>1, <3>3 DEF GetVersion, GetLatest, ExamineVersion, EndScan, CompleteRequest
    <3>5. ~ExamineVersion(r)
      <4>1. SUFFICES ASSUME ExamineVersion(r) PROVE request'[r].pc = "scan"
        OBVIOUS
      <4>2. PICK t, b : request' = [request EXCEPT ![r] = [@ EXCEPT !.todo = t, !.backend = b]]
        BY <4>1 DEF ExamineVersion
      <4>3. request'[r] = [request[r] EXCEPT !.todo = t, !.backend = b]
        BY <4>2 DEF IInv, TypeOK
      <4>4. QED
        BY <4>3
    <3>6. QED
      BY <3>3, <3>4, <3>5 DEF GetVersion, GetLatest, CompleteRequest
  <2>2. PICK b : b = request[r].backend
    OBVIOUS
  <2>3. request'[r].backend = b
    <3>1. request' = [request EXCEPT ![r] =
              [NoRequest EXCEPT !.pc = IF b = None THEN "idle" ELSE "hold", !.backend = b]]
      BY <2>1, <2>2 DEF EndScan
    <3>2. request'[r] = [NoRequest EXCEPT !.pc = IF b = None THEN "idle" ELSE "hold", !.backend = b]
      BY <3>1 DEF IInv, TypeOK
    <3>3. QED
      BY <3>2 DEF NoRequest
  <2>4. request[r].todo = {}
    BY <2>1 DEF EndScan
  <2>5. /\ b # None => b.key[1] = request[r].model /\ info[b.key].handle = b
        /\ \A v \in request[r].start : b # None /\ v <= b.key[2]
    BY <1>1, <2>2, <2>4 DEF IInv, ScanInv
  <2>6. QED
    BY <2>3, <2>5 DEF LatestLookup
<1>2. IInv /\ [Next]_vars => [\A r \in Requests : LatestLookup(r)]_vars
  BY <1>1
<1>3. QED
  BY <1>2, Invariance, PTL DEF Spec, LatestIsReady

(***************************************************************************)
(* BackendLifeCycle implements ModelService: the safety part of            *)
(* ImplementsService, for any number of models, versions, requests and     *)
(* calls of AsyncLoad.                                                     *)
(***************************************************************************)

(***************************************************************************)
(* How the mapping follows a step.                                         *)
(***************************************************************************)

\* A step that changes no BackendInfo, request or wish is not seen.
LEMMA Stutter ==
    ASSUME info' = info, wanted' = wanted, request' = request
    PROVE  UNCHANGED Service!vars
BY DEF Service!vars, AskedBar, PhaseBar, ServesBar, UsesBar

\* A request's step is seen of its backend alone.
LEMMA RequestSeen ==
    ASSUME IInv, NEW r \in Requests, NEW q, request' = [request EXCEPT ![r] = q],
           info' = info, wanted' = wanted
    PROVE  /\ UsesBar' = [UsesBar EXCEPT ![r] = usesOf(q)]
           /\ AskedBar' = AskedBar /\ PhaseBar' = PhaseBar /\ ServesBar' = ServesBar
           /\ UsesBar[r] = usesOf(request[r])
<1>1. UsesBar' = [UsesBar EXCEPT ![r] = usesOf(q)]
  <2>1. \A p \in Requests : request'[p] = IF p = r THEN q ELSE request[p]
    BY DEF IInv, TypeOK
  <2>2. QED
    BY <2>1 DEF UsesBar, usesOf
<1>2. QED
  BY <1>1 DEF AskedBar, PhaseBar, ServesBar, UsesBar

\* Under its mutex, the BackendInfo of version k becomes f and what is wanted w.
Becomes(k, f, w) ==
    info' = [info EXCEPT ![k] = f] /\ wanted' = [wanted EXCEPT ![k] = w] /\ request' = request

\* This is seen of version k alone.
Seen(k, f, w) ==
    /\ AskedBar' = [AskedBar EXCEPT ![k] = [to |-> w, config |-> f.config]]
    /\ PhaseBar' = [PhaseBar EXCEPT ![k] = phaseOf(f)]
    /\ ServesBar' = [ServesBar EXCEPT ![k] = servesOf(f)]
    /\ UsesBar' = UsesBar
    /\ AskedBar[k] = [to |-> wanted[k], config |-> info[k].config]
    /\ PhaseBar[k] = phaseOf(info[k]) /\ ServesBar[k] = servesOf(info[k])

LEMMA VersionSeen ==
    ASSUME IInv, NEW k \in Keys, NEW f, NEW w, Becomes(k, f, w) PROVE Seen(k, f, w)
<1>1. \A j \in Keys : info'[j] = (IF j = k THEN f ELSE info[j]) /\ wanted'[j] = (IF j = k THEN w ELSE wanted[j])
  BY DEF Becomes, IInv, TypeOK
<1>2. AskedBar' = [AskedBar EXCEPT ![k] = [to |-> w, config |-> f.config]]
  BY <1>1 DEF AskedBar
<1>3. PhaseBar' = [PhaseBar EXCEPT ![k] = phaseOf(f)]
  <2>1. ASSUME NEW j \in Keys PROVE phaseOf(info[j])' = IF j = k THEN phaseOf(f) ELSE phaseOf(info[j])
    BY <1>1 DEF phaseOf
  <2>2. QED
    BY <2>1 DEF PhaseBar
<1>4. ServesBar' = [ServesBar EXCEPT ![k] = servesOf(f)]
  <2>1. ASSUME NEW j \in Keys PROVE servesOf(info[j])' = IF j = k THEN servesOf(f) ELSE servesOf(info[j])
    BY <1>1 DEF servesOf
  <2>2. QED
    BY <2>1 DEF ServesBar
<1>5. UsesBar' = UsesBar
  BY DEF Becomes, UsesBar
<1>6. AskedBar[k] = [to |-> wanted[k], config |-> info[k].config]
  BY DEF AskedBar
<1>7. PhaseBar[k] = phaseOf(info[k]) /\ ServesBar[k] = servesOf(info[k])
  BY DEF PhaseBar, ServesBar
<1>8. QED
  BY <1>2, <1>3, <1>4, <1>5, <1>6, <1>7 DEF Seen

LEMMA InitMaps == Init => Service!Init
<1> SUFFICES ASSUME Init PROVE Service!Init
  OBVIOUS
<1>1. \A k \in Keys : info[k] = Absent /\ wanted[k] = "none"
  BY DEF Init
<1>2. Absent.config = None /\ phaseOf(Absent) = "down" /\ servesOf(Absent) = None
  BY DEF Absent, phaseOf, servesOf
<1>3. \A r \in Requests : usesOf(request[r]) = None
  BY DEF Init, NoRequest, usesOf
<1>4. QED
  BY <1>1, <1>2, <1>3 DEF Service!Init, AskedBar, PhaseBar, ServesBar, UsesBar

(***************************************************************************)
(* The poller: AsyncLoad asks a version to stop, or to start.              *)
(***************************************************************************)

\* One round of the unloading loop is AskStop.
LEMMA UnloadIsAskStop ==
    ASSUME IInv, AsyncLoadUnload PROVE \E k \in Keys : Service!AskStop(k)
<1>0. PICK v \in loader.unload : \E k :
         /\ k = <<loader.model, v>>
         /\ Store(k, info[k], Unload(info[k]), workers)
         /\ wanted' = [wanted EXCEPT ![k] = "unload"]
  BY DEF AsyncLoadUnload
<1>1. PICK k :
         /\ v \in loader.unload
         /\ k = <<loader.model, v>>
         /\ Store(k, info[k], Unload(info[k]), workers)
         /\ wanted' = [wanted EXCEPT ![k] = "unload"]
  BY <1>0
<1>2. request' = request /\ info' = [info EXCEPT ![k] = Unload(info[k])]
  BY <1>1 DEF AsyncLoadUnload, Store
<1>3. k \in Keys /\ info[k].state # "ABSENT" /\ info[k].state # "UNKNOWN"
  <2>1. loader.pc = "unload" /\ loader.model \in Models /\ v \in Versions /\ v \in Existing(loader.model)
    BY <1>1 DEF AsyncLoadUnload, IInv, TypeOK, LoaderInv
  <2>2. k \in Keys /\ info[k].state # "ABSENT"
    BY <1>1, <2>1 DEF Keys, Existing
  <2>3. QED
    BY <2>2 DEF IInv, StateInv, StateOf
<1>4. PICK e, f : e = info[k] /\ f = Unload(info[k])
  OBVIOUS
<1>5. e \in Entries /\ e.state \in States
  BY <1>3, <1>4 DEF IInv, TypeOK, Entries
<1>6. /\ f.config = e.config
      /\ e.state = "READY" => f.state = "UNLOADING"
      /\ e.state # "READY" => f.state = e.state
      /\ e.state \in {"LOADING", "UNLOADING"} => f.next = "UNLOAD"
  BY <1>4, <1>5, UnloadEffect
<1>7. /\ AskedBar' = [AskedBar EXCEPT ![k] = [to |-> "unload", config |-> f.config]]
      /\ PhaseBar' = [PhaseBar EXCEPT ![k] = phaseOf(f)]
      /\ ServesBar' = [ServesBar EXCEPT ![k] = servesOf(f)] /\ UsesBar' = UsesBar
      /\ AskedBar[k] = [to |-> wanted[k], config |-> e.config] /\ PhaseBar[k] = phaseOf(e)
  <2>1. Becomes(k, f, "unload")
    BY <1>1, <1>2, <1>3, <1>4 DEF Becomes
  <2>2. Seen(k, f, "unload")
    BY <1>1, <1>2, <1>3, <1>4, <2>1, VersionSeen
  <2>3. QED
    BY <2>2, <1>4 DEF Seen
<1>8. [to |-> "unload", config |-> f.config] = [AskedBar[k] EXCEPT !.to = "unload"]
  BY <1>6, <1>7
<1>9. servesOf(f) = None
  BY <1>6 DEF servesOf
<1>10. phaseOf(f) = Service!Disturbed(phaseOf(e), "down")
  <2>1. CASE e.state = "READY"
    BY <1>6, <2>1 DEF phaseOf, Service!Disturbed
  <2>2. CASE e.state = "LOADING"
    BY <1>6, <2>2 DEF phaseOf, Service!Disturbed
  <2>3. CASE e.state = "UNLOADING"
    BY <1>6, <2>3 DEF phaseOf, Service!Disturbed
  <2>4. CASE e.state = "UNAVAILABLE"
    BY <1>6, <2>4 DEF phaseOf, Service!Disturbed
  <2>5. QED
    BY <1>3, <1>4, <1>5, <2>1, <2>2, <2>3, <2>4 DEF States
<1>11. Service!AskStop(k)
  BY <1>7, <1>8, <1>9, <1>10 DEF Service!AskStop, Service!Disturb
<1>12. QED
  BY <1>3, <1>11

\* One round of the loading loop is AskStart with the configuration of the poll.
LEMMA LoadIsAskStart ==
    ASSUME IInv, AsyncLoadLoad PROVE \E k \in Keys, c \in Configs : Service!AskStart(k, c)
<1>0. PICK v \in loader.load : \E k, old, new, c :
         /\ k = <<loader.model, v>> /\ c = loader.config
         /\ old = IF info[k].state = "ABSENT" THEN NewEntry(c) ELSE info[k]
         /\ new = [old EXCEPT !.config = c]
         /\ Store(k, old, Load(Unload(new)), workers)
         /\ wanted' = [wanted EXCEPT ![k] = "load"]
  BY DEF AsyncLoadLoad
<1>1. PICK k, old, new, c :
         /\ v \in loader.load
         /\ k = <<loader.model, v>> /\ c = loader.config
         /\ old = IF info[k].state = "ABSENT" THEN NewEntry(c) ELSE info[k]
         /\ new = [old EXCEPT !.config = c]
         /\ Store(k, old, Load(Unload(new)), workers)
         /\ wanted' = [wanted EXCEPT ![k] = "load"]
  BY <1>0
<1>2. PICK f : f = Load(Unload(new))
  OBVIOUS
<1>3. request' = request /\ info' = [info EXCEPT ![k] = f]
  BY <1>1, <1>2 DEF AsyncLoadLoad, Store
<1>4. k \in Keys /\ c \in Configs
  BY <1>1 DEF AsyncLoadLoad, IInv, TypeOK, Keys
<1>5. PICK e : e = info[k]
  OBVIOUS
<1>6. e \in Entries /\ e.state \in States
  BY <1>4, <1>5 DEF IInv, TypeOK, Entries
<1>7. /\ new \in Entries /\ new.config = c
      /\ e.state = "ABSENT" => new.state = "UNKNOWN"
      /\ e.state # "ABSENT" => new.state = e.state
  <2>1. CASE e.state = "ABSENT"
    BY <1>1, <1>4, <1>5, <2>1 DEF NewEntry, Absent, Entries, States, Actions
  <2>2. CASE e.state # "ABSENT"
    BY <1>1, <1>4, <1>5, <1>6, <2>2 DEF Entries
  <2>3. QED
    BY <2>1, <2>2
<1>8. /\ f.config = c
      /\ new.state = "READY" => f.state = "UNLOADING" /\ f.next = "LOAD"
      /\ new.state \in {"LOADING", "UNLOADING"} => f.state = new.state /\ f.next = "LOAD"
      /\ new.state \in {"ABSENT", "UNKNOWN", "UNAVAILABLE"} => f.state = "LOADING" /\ f.next = "NO_ACTION"
  BY <1>2, <1>7, ReloadEffect
<1>9. /\ AskedBar' = [AskedBar EXCEPT ![k] = [to |-> "load", config |-> f.config]]
      /\ PhaseBar' = [PhaseBar EXCEPT ![k] = phaseOf(f)]
      /\ ServesBar' = [ServesBar EXCEPT ![k] = servesOf(f)] /\ UsesBar' = UsesBar
      /\ PhaseBar[k] = phaseOf(e)
  <2>1. Becomes(k, f, "load")
    BY <1>1, <1>3, <1>4, <1>5 DEF Becomes
  <2>2. Seen(k, f, "load")
    BY <1>1, <1>3, <1>4, <1>5, <2>1, VersionSeen
  <2>3. QED
    BY <2>2, <1>5 DEF Seen
<1>10. servesOf(f) = None
  BY <1>6, <1>7, <1>8 DEF servesOf, States
<1>11. phaseOf(f) = Service!Disturbed(phaseOf(e), "starting")
  <2>1. CASE e.state = "READY"
    BY <1>7, <1>8, <2>1 DEF phaseOf, Service!Disturbed
  <2>2. CASE e.state = "LOADING"
    BY <1>7, <1>8, <2>2 DEF phaseOf, Service!Disturbed
  <2>3. CASE e.state = "UNLOADING"
    BY <1>7, <1>8, <2>3 DEF phaseOf, Service!Disturbed
  <2>4. CASE e.state \in {"ABSENT", "UNKNOWN", "UNAVAILABLE"}
    <3>1. f.state = "LOADING" /\ f.next = "NO_ACTION"
      BY <1>7, <1>8, <2>4
    <3>2. phaseOf(f) = "starting" /\ phaseOf(e) = "down"
      BY <2>4, <3>1 DEF phaseOf
    <3>3. QED
      BY <3>2 DEF Service!Disturbed
  <2>5. QED
    BY <1>6, <2>1, <2>2, <2>3, <2>4 DEF States
<1>12. Service!AskStart(k, c)
  BY <1>8, <1>9, <1>10, <1>11 DEF Service!AskStart, Service!Disturb
<1>13. QED
  BY <1>4, <1>12

(***************************************************************************)
(* The threads of a version: what a worker and a callback bring about.     *)
(***************************************************************************)

\* The end of a creation is Serve or Fail; when the version was asked anew
\* meanwhile, it is Discard.
LEMMA FinishCreateIsSeen ==
    ASSUME IInv, NEW w \in workers, NEW ok \in BOOLEAN, FinishCreate(w, ok)
    PROVE  \E k \in Keys : Service!Serve(k) \/ Service!Fail(k) \/ Service!Discard(k)
<1>1. PICK k, e, f, n :
         /\ k = w.key
         /\ n = [key |-> w.key, id |-> w.id, config |-> w.config]
         /\ e = Created(info[k], w, ok)
         /\ f = TriggerNextAction(e)
         /\ Store(k, e, f, workers \ {w})
  BY DEF FinishCreate
<1>2. /\ w.pc = "create" /\ request' = request /\ wanted' = wanted
      /\ info' = [info EXCEPT ![k] = f]
  BY <1>1 DEF FinishCreate, Store
<1>3. /\ w \in Workers /\ k \in Keys /\ info[k] \in Entries /\ info[k].state = "LOADING"
      /\ info[k].next = "NO_ACTION" => w.config = info[k].config
      /\ w.config \in Configs /\ w.id \in Nat
  BY <1>1, <1>2 DEF IInv, TypeOK, WorkerInv, WorkerOf, Workers
<1>4. info[k].handle = None
  BY <1>3, HandleFacts
<1>5. n \in Backends /\ n.config = w.config
  BY <1>1, <1>3 DEF Backends
<1>6. /\ e \in Entries /\ e.next = info[k].next /\ e.config = info[k].config
      /\ ok => e.state = "READY" /\ e.handle = n
      /\ ~ok => e.state = "UNAVAILABLE" /\ e.handle = None
  BY <1>1, <1>3, <1>4, <1>5 DEF Created, Entries, States
<1>7. e.next \in Actions /\ e.state \in {"READY", "UNAVAILABLE"}
  BY <1>6 DEF Entries
<1>8. /\ f.config = e.config
      /\ e.next = "NO_ACTION" => f.state = e.state /\ f.handle = e.handle
      /\ e.next # "NO_ACTION" /\ ok => f.state = "UNLOADING"
      /\ e.next = "UNLOAD" /\ ~ok => f.state = "UNAVAILABLE"
      /\ e.next = "LOAD" /\ ~ok => f.state = "LOADING" /\ f.next = "NO_ACTION"
  BY <1>1, <1>6, <1>7, TriggerEffect
<1>9. PICK to : to = wanted[k]
  OBVIOUS
<1>10. to \in {"load", "unload"} /\ (to = "unload" <=> e.next = "UNLOAD")
  BY <1>3, <1>6, <1>9 DEF IInv, WantedInv, WantedOf, TypeOK
<1>11. wanted' = [wanted EXCEPT ![k] = to]
  BY <1>2, <1>3, <1>9 DEF IInv, TypeOK
<1>12. /\ AskedBar' = [AskedBar EXCEPT ![k] = [to |-> to, config |-> f.config]]
       /\ PhaseBar' = [PhaseBar EXCEPT ![k] = phaseOf(f)]
       /\ ServesBar' = [ServesBar EXCEPT ![k] = servesOf(f)] /\ UsesBar' = UsesBar
       /\ AskedBar[k] = [to |-> to, config |-> info[k].config]
       /\ PhaseBar[k] = phaseOf(info[k]) /\ ServesBar[k] = servesOf(info[k])
  <2>1. Becomes(k, f, to)
    BY <1>2, <1>3, <1>9, <1>11 DEF Becomes
  <2>2. Seen(k, f, to)
    BY <1>2, <1>3, <1>9, <1>11, <2>1, VersionSeen
  <2>3. QED
    BY <2>2, <1>9 DEF Seen
<1>13. AskedBar' = AskedBar
  BY <1>6, <1>8, <1>12 DEF AskedBar
<1>14. AskedBar[k].to = to /\ AskedBar[k].config = info[k].config
  BY <1>12
<1>15. servesOf(info[k]) = None
  BY <1>3 DEF servesOf
<1>16. CASE ok /\ e.next = "NO_ACTION"
  <2>1. phaseOf(info[k]) = "starting" /\ phaseOf(f) = "serving"
    BY <1>3, <1>6, <1>8, <1>16 DEF phaseOf
  <2>2. servesOf(f) = info[k].config
    BY <1>3, <1>5, <1>6, <1>8, <1>16 DEF servesOf
  <2>3. Service!Serve(k)
    BY <1>10, <1>12, <1>13, <1>14, <1>16, <2>1, <2>2 DEF Service!Serve
  <2>4. QED
    BY <1>3, <2>3
<1>17. ASSUME ~(ok /\ e.next = "NO_ACTION") PROVE ServesBar' = ServesBar
  <2>1. servesOf(f) = None
    BY <1>6, <1>7, <1>8, <1>17 DEF servesOf, Actions
  <2>2. QED
    BY <1>12, <1>15, <2>1 DEF ServesBar
<1>18. CASE ~ok /\ e.next = "NO_ACTION"
  <2>1. phaseOf(info[k]) = "starting" /\ phaseOf(f) = "down"
    BY <1>3, <1>6, <1>8, <1>18 DEF phaseOf
  <2>2. Service!Fail(k)
    BY <1>12, <1>13, <1>17, <1>18, <2>1 DEF Service!Fail
  <2>3. QED
    BY <1>3, <2>2
<1>19. CASE e.next # "NO_ACTION"
  <2>1. phaseOf(info[k]) = "outdated"
    BY <1>3, <1>6, <1>19 DEF phaseOf
  <2>2. phaseOf(f) = "draining" \/ phaseOf(f) = IF to = "load" THEN "starting" ELSE "down"
    BY <1>7, <1>8, <1>10, <1>19 DEF phaseOf, Actions
  <2>3. Service!Discard(k)
    BY <1>12, <1>13, <1>14, <1>17, <1>19, <2>1, <2>2 DEF Service!Discard
  <2>4. QED
    BY <1>3, <2>3
<1>20. QED
  BY <1>16, <1>18, <1>19

\* The callback of a destroyed handle is Drained: nobody uses the version.
LEMMA OnDestroyIsDrained ==
    ASSUME IInv, NEW b \in destroying, OnDestroy(b) PROVE \E k \in Keys : Service!Drained(k)
<1>1. PICK k, e, f :
         /\ k = b.key
         /\ e = [info[k] EXCEPT !.state = "UNAVAILABLE"]
         /\ f = TriggerNextAction(e)
         /\ info' = [info EXCEPT ![k] = f] /\ wanted' = wanted /\ request' = request
  BY DEF OnDestroy
<1>2. b \in Backends /\ b \in Live /\ b # None /\ k \in Keys /\ info[k] \in Entries
  <2>1. b \in Backends
    BY DEF IInv, TypeOK
  <2>2. b # None
    BY <2>1, NoneAssumption
  <2>3. QED
    BY <1>1, <2>1, <2>2 DEF IInv, TypeOK, Live, Backends
<1>3. info[k].state = "UNLOADING" /\ ~Held(b)
  BY <1>1, <1>2 DEF IInv, BackendInv
<1>4. info[k].handle = None
  BY <1>2, <1>3, HandleFacts
<1>5. /\ e \in Entries /\ e.state = "UNAVAILABLE" /\ e.next = info[k].next /\ e.next \in Actions
      /\ e.config = info[k].config
  BY <1>1, <1>2 DEF Entries, States
<1>6. /\ f.config = e.config
      /\ e.next \in {"NO_ACTION", "UNLOAD"} => f.state = "UNAVAILABLE"
      /\ e.next = "LOAD" => f.state = "LOADING" /\ f.next = "NO_ACTION"
  BY <1>1, <1>5, TriggerEffect
<1>7. PICK to : to = wanted[k]
  OBVIOUS
<1>8. to = "load" <=> e.next = "LOAD"
  BY <1>2, <1>3, <1>5, <1>7 DEF IInv, WantedInv, WantedOf
<1>9. wanted' = [wanted EXCEPT ![k] = to]
  BY <1>1, <1>2, <1>7 DEF IInv, TypeOK
<1>10. /\ AskedBar' = [AskedBar EXCEPT ![k] = [to |-> to, config |-> f.config]]
       /\ PhaseBar' = [PhaseBar EXCEPT ![k] = phaseOf(f)]
       /\ ServesBar' = [ServesBar EXCEPT ![k] = servesOf(f)] /\ UsesBar' = UsesBar
       /\ AskedBar[k] = [to |-> to, config |-> info[k].config]
       /\ PhaseBar[k] = phaseOf(info[k]) /\ ServesBar[k] = servesOf(info[k])
  <2>1. Becomes(k, f, to)
    BY <1>1, <1>2, <1>7, <1>9 DEF Becomes
  <2>2. Seen(k, f, to)
    BY <1>1, <1>2, <1>7, <1>9, <2>1, VersionSeen
  <2>3. QED
    BY <2>2, <1>7 DEF Seen
<1>11. AskedBar' = AskedBar /\ AskedBar[k].to = to
  BY <1>5, <1>6, <1>10 DEF AskedBar
<1>12. phaseOf(info[k]) = "draining"
  BY <1>3 DEF phaseOf
<1>13. phaseOf(f) = IF to = "load" THEN "starting" ELSE "down"
  BY <1>5, <1>6, <1>8 DEF phaseOf, Actions
<1>14. ServesBar' = ServesBar
  <2>1. servesOf(f) = None /\ servesOf(info[k]) = None
    BY <1>3, <1>5, <1>6 DEF servesOf, Actions
  <2>2. QED
    BY <1>10, <2>1 DEF ServesBar
<1>15. k \notin Service!InUse
  <2>1. SUFFICES ASSUME NEW r \in Requests, UsesBar[r] # None PROVE UsesBar[r].key # k
    BY DEF Service!InUse
  <2>2. UsesBar[r] = usesOf(request[r])
    BY DEF UsesBar
  <2>3. request[r].pc = "hold" /\ UsesBar[r].key = request[r].backend.key
    BY <2>1, <2>2 DEF usesOf
  <2>4. request[r].backend \in Live /\ request[r].backend # b
    BY <1>3, <2>3, NoneAssumption DEF IInv, TypeOK, Live, Held
  <2>5. QED
    BY <1>1, <1>2, <2>3, <2>4 DEF IInv, BackendInv
<1>16. Service!Drained(k)
  BY <1>10, <1>11, <1>12, <1>13, <1>14, <1>15 DEF Service!Drained
<1>17. QED
  BY <1>2, <1>16

(***************************************************************************)
(* Requests: a lookup that succeeds is Use, a completion is Drop.          *)
(***************************************************************************)

\* The backend a request comes to hold is the one its version serves.
LEMMA HoldIsUse ==
    ASSUME IInv, NEW r \in Requests, NEW k \in Keys, NEW q,
           request[r].pc # "hold", info[k].handle # None,
           q.pc = "hold", q.backend = info[k].handle,
           request' = [request EXCEPT ![r] = q], info' = info, wanted' = wanted
    PROVE  Service!Use(r, k)
<1>1. info[k].state = "READY" /\ info[k].handle.key = k
  BY HandleFacts
<1>2. usesOf(q) = [key |-> k, config |-> info[k].handle.config]
  BY <1>1 DEF usesOf
<1>3. UsesBar' = [UsesBar EXCEPT ![r] = usesOf(q)]
      /\ AskedBar' = AskedBar /\ PhaseBar' = PhaseBar /\ ServesBar' = ServesBar
      /\ UsesBar[r] = usesOf(request[r])
  BY RequestSeen
<1>4. UsesBar[r] = None
  BY <1>3 DEF usesOf
<1>5. PhaseBar[k] = "serving" /\ ServesBar[k] = info[k].handle.config
  BY <1>1 DEF PhaseBar, ServesBar, phaseOf, servesOf
<1>6. QED
  BY <1>2, <1>3, <1>4, <1>5 DEF Service!Use

LEMMA GetVersionIsUse ==
    ASSUME IInv, NEW r \in Requests, NEW k \in Keys, GetVersion(r, k) PROVE Service!Use(r, k)
<1>1. PICK q : q = [NoRequest EXCEPT !.pc = "hold", !.backend = info[k].handle]
  OBVIOUS
<1>2. q.pc = "hold" /\ q.backend = info[k].handle
  BY <1>1 DEF NoRequest
<1>3. /\ request[r].pc # "hold" /\ request' = [request EXCEPT ![r] = q]
      /\ info' = info /\ wanted' = wanted
  BY <1>1 DEF GetVersion
<1>4. info[k].handle # None
  BY HandleFacts DEF GetVersion
<1>5. QED
  BY <1>2, <1>3, <1>4, HoldIsUse

\* A scan holds nothing that is seen, until its end finds a backend.
LEMMA ScanSteps ==
    ASSUME IInv, NEW r \in Requests, ExamineVersion(r) \/ EndScan(r) \/ \E m \in Models : GetLatest(r, m)
    PROVE  UNCHANGED Service!vars \/ \E k \in Keys : Service!Use(r, k)
<1>1. info' = info /\ wanted' = wanted /\ request[r].pc # "hold"
  BY DEF ExamineVersion, EndScan, GetLatest
<1>2. ASSUME NEW q, request' = [request EXCEPT ![r] = q], q.pc # "hold" PROVE UNCHANGED Service!vars
  <2>1. /\ UsesBar' = [UsesBar EXCEPT ![r] = usesOf(q)]
        /\ AskedBar' = AskedBar /\ PhaseBar' = PhaseBar /\ ServesBar' = ServesBar
        /\ UsesBar[r] = usesOf(request[r])
    BY <1>1, <1>2, RequestSeen
  <2>2. usesOf(q) = usesOf(request[r])
    BY <1>1, <1>2 DEF usesOf
  <2>3. UsesBar' = UsesBar
    BY <2>1, <2>2 DEF UsesBar
  <2>4. QED
    BY <2>1, <2>3 DEF Service!vars
<1>3. CASE ExamineVersion(r)
  <2>1. PICK t, b : request' = [request EXCEPT ![r] = [@ EXCEPT !.todo = t, !.backend = b]]
    BY <1>3 DEF ExamineVersion
  <2>2. PICK q : q = [request[r] EXCEPT !.todo = t, !.backend = b]
    OBVIOUS
  <2>3. q.pc # "hold"
    BY <1>1, <2>2 DEF IInv, TypeOK
  <2>4. QED
    BY <1>2, <2>1, <2>2, <2>3
<1>4. CASE \E m \in Models : GetLatest(r, m)
  <2>1. PICK m \in Models : GetLatest(r, m)
    BY <1>4
  <2>2. PICK q : q = [pc |-> "scan", model |-> m, todo |-> Existing(m), start |-> ReadyVersions(m), backend |-> None]
    OBVIOUS
  <2>3. request' = [request EXCEPT ![r] = q]
    BY <2>1, <2>2 DEF GetLatest
  <2>4. q.pc # "hold"
    BY <2>2
  <2>5. QED
    BY <1>2, <2>3, <2>4
<1>5. CASE EndScan(r)
  <2>1. PICK b : b = request[r].backend
    OBVIOUS
  <2>2. PICK q : q = [NoRequest EXCEPT !.pc = IF b = None THEN "idle" ELSE "hold", !.backend = b]
    OBVIOUS
  <2>3. request' = [request EXCEPT ![r] = q] /\ request[r].pc = "scan"
    BY <1>5, <2>1, <2>2 DEF EndScan
  <2>4. q.pc = (IF b = None THEN "idle" ELSE "hold") /\ q.backend = b
    BY <2>2 DEF NoRequest
  <2>5. CASE b = None
    BY <1>2, <2>3, <2>4, <2>5
  <2>6. CASE b # None
    <3>1. b.key \in Keys /\ info[b.key].handle = b
      BY <2>1, <2>3, <2>6 DEF IInv, TypeOK, ScanInv, Backends
    <3>2. Service!Use(r, b.key)
      BY <1>1, <2>3, <2>4, <2>6, <3>1, HoldIsUse
    <3>3. QED
      BY <3>1, <3>2
  <2>7. QED
    BY <2>5, <2>6
<1>6. QED
  BY <1>3, <1>4, <1>5

LEMMA CompleteIsDrop ==
    ASSUME IInv, NEW r \in Requests, CompleteRequest(r) PROVE Service!Drop(r)
<1>1. request' = [request EXCEPT ![r] = NoRequest] /\ info' = info /\ wanted' = wanted /\ request[r].pc = "hold"
  BY DEF CompleteRequest
<1>2. /\ UsesBar' = [UsesBar EXCEPT ![r] = usesOf(NoRequest)]
      /\ AskedBar' = AskedBar /\ PhaseBar' = PhaseBar /\ ServesBar' = ServesBar
      /\ UsesBar[r] = usesOf(request[r])
  BY <1>1, RequestSeen
<1>3. usesOf(NoRequest) = None
  BY DEF usesOf, NoRequest
<1>4. UsesBar[r] # None
  <2>1. PICK b : b = request[r].backend
    OBVIOUS
  <2>2. b.key \in Keys /\ b.config \in Configs
    BY <1>1, <2>1 DEF IInv, TypeOK, Backends
  <2>3. UsesBar[r] = [key |-> b.key, config |-> b.config]
    BY <1>1, <1>2, <2>1 DEF usesOf
  <2>4. QED
    BY <2>2, <2>3, UseAssumption
<1>5. QED
  BY <1>2, <1>3, <1>4 DEF Service!Drop

(***************************************************************************)
(* The theorem.                                                            *)
(***************************************************************************)

LEMMA StepMaps == IInv /\ [Next]_vars => [Service!Next]_(Service!vars)
<1> SUFFICES ASSUME IInv, [Next]_vars PROVE Service!Next \/ UNCHANGED Service!vars
  OBVIOUS
<1>1. CASE UNCHANGED vars
  BY <1>1, Stutter DEF vars
<1>2. CASE \/ \E m \in Models, vs \in SUBSET Versions, c \in Configs : AsyncLoad(m, vs, c)
           \/ AsyncLoadUnloaded \/ AsyncLoadReturn
           \/ \E w \in workers : CopyConfig(w)
           \/ \E b \in retired : QueueForRelease(b)
           \/ TakeReleased \/ ClearReleased
  BY <1>2, Stutter DEF AsyncLoad, AsyncLoadUnloaded, AsyncLoadReturn, CopyConfig, QueueForRelease,
     TakeReleased, ClearReleased
<1>3. CASE AsyncLoadUnload
  BY <1>3, UnloadIsAskStop DEF Service!Next
<1>4. CASE AsyncLoadLoad
  BY <1>4, LoadIsAskStart DEF Service!Next
<1>5. CASE \E w \in workers, ok \in BOOLEAN : FinishCreate(w, ok)
  BY <1>5, FinishCreateIsSeen DEF Service!Next
<1>6. CASE \E b \in destroying : OnDestroy(b)
  BY <1>6, OnDestroyIsDrained DEF Service!Next
<1>7. CASE \E r \in Requests, k \in Keys : GetVersion(r, k)
  BY <1>7, GetVersionIsUse DEF Service!Next
<1>8. CASE \E r \in Requests : ExamineVersion(r) \/ EndScan(r) \/ \E m \in Models : GetLatest(r, m)
  BY <1>8, ScanSteps DEF Service!Next
<1>9. CASE \E r \in Requests : CompleteRequest(r)
  BY <1>9, CompleteIsDrop DEF Service!Next
<1>10. QED
  BY <1>1, <1>2, <1>3, <1>4, <1>5, <1>6, <1>7, <1>8, <1>9 DEF Next

\* Whatever the interleaving of the poller, the workers, the callbacks and the
\* requests, the life cycle does nothing that ModelService does not allow: one
\* instance per version that is started, served, drained of its users and
\* stopped, each as last asked.
THEOREM Implements == Spec => Service!Spec
<1>1. Init => Service!Init
  BY InitMaps
<1>2. IInv /\ [Next]_vars => [Service!Next]_(Service!vars)
  BY StepMaps
<1>3. QED
  BY <1>1, <1>2, Invariance, PTL DEF Spec, Service!Spec
=============================================================================
