----------------------- MODULE InferenceServerProofs -----------------------
(***************************************************************************)
(* The safety properties of InferenceServer, for any number of models,     *)
(* versions and requests, any exit timeout and any number of changes of    *)
(* the repository.                                                         *)
(***************************************************************************)
EXTENDS InferenceServer, NaturalsInduction, WellFoundedInduction, TLAPS

(***************************************************************************)
(* The operators the actions are built from.                               *)
(***************************************************************************)

\* The iteration over a std::set starts with a member of it.
LEMMA FirstIn ==
    ASSUME NEW S, S \subseteq Models, S # {} PROVE First(S) \in S /\ First(S) \in Models
<1>0. S \subseteq Nat
  BY ServerAssumption
<1>1. PICK R : R = {ss \in Nat \X Nat : ss[1] < ss[2]}
  OBVIOUS
<1>2. R = OpToRel(<, Nat)
  BY <1>1 DEF OpToRel
<1>3. PICK m \in S : \A n \in S : ~ (<<n, m>> \in R)
  BY <1>0, <1>2, NatLessThanWellFounded, WFMin
<1>4. ASSUME NEW n \in S PROVE m <= n
  <2>1. <<n, m>> \notin R /\ m \in Nat /\ n \in Nat
    BY <1>0, <1>3
  <2>2. ~(n < m)
    BY <2>1, <1>1
  <2>3. QED
    BY <2>1, <2>2
<1>5. First(S) \in S
  BY <1>4 DEF First
<1>6. QED
  BY <1>5

\* A step of the main thread to another place.
LEMMA GotoPlace ==
    ASSUME main \in MainThreads, NEW pc \in MainPCs, Goto(pc)
    PROVE  /\ main' \in MainThreads
           /\ main'.pc = pc /\ main'.model = None /\ main'.left = main.left /\ main'.clean = main.clean
BY DEF MainThreads, Goto

\* No poll is a poll.
LEMMA NoPollType == NoPoll \in Polls
BY DEF NoPoll, Polls, PollKinds

\* What AsyncLoad does to the versions of model m, to those of other models, and
\* to instances in use.
Ordered(m, vs, c) ==
    /\ ServiceTypeOK'
    /\ uses' = uses
    /\ \A k \in Keys : phase[k] \in {"serving", "draining"} => phase'[k] \in {"serving", "draining"}
    /\ \A v \in Versions :
          IF v \in vs THEN asked'[<<m, v>>] = [to |-> "load", config |-> c]
                      ELSE asked'[<<m, v>>].to # "load"
    /\ \A k \in Keys : k[1] # m => asked'[k] = asked[k]

LEMMA AskedOrders ==
    ASSUME ServiceTypeOK, NEW m \in Models, NEW vs, vs \subseteq Versions, NEW c \in Stamps \cup {None},
           Asked(m, vs, c)
    PROVE  Ordered(m, vs, c)
<1>1. \A k \in Keys : /\ asked[k] \in Orders /\ phase[k] \in LifeCycle!Phases
                      /\ serves[k] \in Stamps \cup {None}
  BY DEF ServiceTypeOK
<1>2. PICK load : load = {k \in Keys : k[1] = m /\ k[2] \in vs}
  OBVIOUS
<1>3. PICK unload : unload = {k \in Keys \ load : k[1] = m /\ asked[k].to # "none"}
  OBVIOUS
<1>4. /\ asked' = [k \in Keys |->
              CASE k \in load -> [to |-> "load", config |-> c]
                [] k \in unload -> [asked[k] EXCEPT !.to = "unload"]
                [] OTHER -> asked[k]]
      /\ phase' = [k \in Keys |->
              IF k \in load \cup unload
              THEN LifeCycle!Disturbed(phase[k], IF k \in load THEN "starting" ELSE "down")
              ELSE phase[k]]
      /\ serves' = [k \in Keys |-> IF k \in load \cup unload THEN None ELSE serves[k]]
      /\ uses' = uses
  BY <1>2, <1>3 DEF Asked
<1>5. asked' \in [Keys -> Orders]
  <2>1. ASSUME NEW k \in Keys
        PROVE  (CASE k \in load -> [to |-> "load", config |-> c]
                  [] k \in unload -> [asked[k] EXCEPT !.to = "unload"]
                  [] OTHER -> asked[k]) \in Orders
    BY <1>1 DEF Orders
  <2>2. QED
    BY <2>1, <1>4
<1>6. phase' \in [Keys -> LifeCycle!Phases]
  <2>1. ASSUME NEW k \in Keys
        PROVE  /\ LifeCycle!Disturbed(phase[k], "starting") \in LifeCycle!Phases
               /\ LifeCycle!Disturbed(phase[k], "down") \in LifeCycle!Phases
    BY <1>1 DEF LifeCycle!Disturbed, LifeCycle!Phases
  <2>2. QED
    BY <2>1, <1>1, <1>4
<1>7. serves' \in [Keys -> Stamps \cup {None}]
  BY <1>1, <1>4
<1>8. \A k \in Keys : phase[k] \in {"serving", "draining"} => phase'[k] \in {"serving", "draining"}
  BY <1>4 DEF LifeCycle!Disturbed
<1>9. ASSUME NEW v \in Versions
      PROVE  IF v \in vs THEN asked'[<<m, v>>] = [to |-> "load", config |-> c]
                         ELSE asked'[<<m, v>>].to # "load"
  <2>1. /\ <<m, v>> \in Keys
        /\ <<m, v>> \in load <=> v \in vs
        /\ v \notin vs => (<<m, v>> \in unload <=> asked[<<m, v>>].to # "none")
    BY <1>2, <1>3 DEF Keys
  <2>2. PICK k \in Keys : k = <<m, v>>
    BY <2>1
  <2>3. k \in unload /\ k \notin load => asked'[k].to = "unload"
    BY <1>1, <1>4 DEF Orders
  <2>4. v \in vs => asked'[k] = [to |-> "load", config |-> c]
    <3>1. v \in vs <=> k \in load
      BY <2>1, <2>2
    <3>2. k \in load => asked'[k] = [to |-> "load", config |-> c]
      BY <1>3, <1>4, <2>2
    <3>3. QED
      BY <3>1, <3>2
  <2>5. v \notin vs => asked'[k].to # "load"
    <3>1. v \notin vs /\ k \notin unload => asked'[k] = asked[k] /\ asked[k].to = "none"
      BY <2>1, <2>2, <1>4
    <3>2. QED
      BY <2>1, <2>2, <2>3, <3>1
  <2>6. QED
    BY <2>2, <2>4, <2>5
<1>10. \A k \in Keys : k[1] # m => asked'[k] = asked[k]
  BY <1>2, <1>3, <1>4
<1>11. uses' \in [Requests -> Uses \cup {None}]
  BY <1>4 DEF ServiceTypeOK
<1>12. QED
  BY <1>4, <1>5, <1>6, <1>7, <1>8, <1>9, <1>10, <1>11 DEF Ordered, ServiceTypeOK

\* What is left of a poll that failed, with and without a manager.
Failed ==
    /\ poll' = NoPoll /\ main' \in MainThreads /\ main'.clean = main.clean
    /\ infos' \in [Models -> Infos \cup {None}] /\ ServiceTypeOK' /\ uses' = uses
    /\ manager => main'.pc = "locked" /\ infos' = infos /\ state' = state
                    /\ process' = process /\ asked' = asked /\ phase' = phase
    /\ ~manager => /\ infos' = [m \in Models |-> None] /\ state' = "FAILED"
                   /\ asked' = [k \in Keys |-> [to |-> "none", config |-> None]]
                   /\ \/ main'.pc = "test" /\ process' = process
                      \/ main' = main /\ process' \in {"exited", "crashed"}

LEMMA PollFailsFailed == ASSUME TypeOK, PollFails PROVE Failed
<1>1. CASE manager
  <2>1. Goto("locked") /\ UNCHANGED <<infos, state, process, service>> /\ poll' = NoPoll
    BY <1>1 DEF PollFails
  <2>2. main' \in MainThreads /\ main'.pc = "locked" /\ main'.clean = main.clean
    <3>1. main \in MainThreads /\ "locked" \in MainPCs
      BY DEF TypeOK, MainPCs
    <3>2. QED
      BY <2>1, <3>1, GotoPlace
  <2>3. QED
    BY <1>1, <2>1, <2>2 DEF Failed, TypeOK, ServiceTypeOK, service
<1>2. CASE ~manager
  <2>1. /\ infos' = [m \in Models |-> None] /\ state' = "FAILED" /\ poll' = NoPoll
        /\ asked' = [k \in Keys |-> [to |-> "none", config |-> None]]
        /\ phase' = [k \in Keys |-> "down"] /\ serves' = [k \in Keys |-> None] /\ uses' = uses
        /\ \/ Goto("test") /\ process' = process
           \/ main' = main /\ process' \in {"exited", "crashed"}
    BY <1>2 DEF PollFails
  <2>2. ServiceTypeOK'
    BY <2>1 DEF ServiceTypeOK, TypeOK, Orders, LifeCycle!Phases
  <2>3. /\ main' \in MainThreads /\ main'.clean = main.clean
        /\ \/ main'.pc = "test" /\ process' = process
           \/ main' = main /\ process' \in {"exited", "crashed"}
    <3>1. main \in MainThreads /\ "test" \in MainPCs
      BY DEF TypeOK, MainPCs
    <3>2. QED
      BY <2>1, <3>1, GotoPlace
  <2>4. QED
    BY <1>2, <2>1, <2>2, <2>3 DEF Failed
<1>3. QED
  BY <1>1, <1>2

(***************************************************************************)
(* The type invariant.                                                     *)
(***************************************************************************)

LEMMA InitType == Init => TypeOK
<1> SUFFICES ASSUME Init PROVE TypeOK
  OBVIOUS
<1>1. ServiceTypeOK
  BY DEF Init, LifeCycle!Init, ServiceTypeOK, Orders, LifeCycle!Phases
<1>2. main \in MainThreads
  BY ServerAssumption DEF Init, MainThreads, MainPCs
<1>3. poll \in Polls
  BY NoPollType DEF Init
<1>4. req \in [Requests -> Inferences]
  BY DEF Init, NoRequest, Inferences, RequestPCs
<1>5. disk \in [Models -> Directories]
  <2>1. 1 \in Stamps
    BY ServerAssumption DEF Stamps
  <2>2. {Gone, [stamp |-> 1, good |-> TRUE, versions |-> Versions]} \subseteq Directories
    BY <2>1 DEF Directories
  <2>3. QED
    BY <2>2 DEF Init
<1>6. events \in 0..MaxEvents
  BY ServerAssumption DEF Init
<1>7. infos \in [Models -> Infos \cup {None}] /\ status \in [Models -> (SUBSET Versions) \cup {None}]
  BY DEF Init
<1>8. QED
  BY <1>1, <1>2, <1>3, <1>4, <1>5, <1>6, <1>7 DEF Init, TypeOK

\* The repository.
LEMMA ChangeDiskType ==
    ASSUME TypeOK, NEW m \in Models, ChangeDisk(m) PROVE TypeOK'
<1>1. disk' \in [Models -> Directories]
  <2>1. CASE disk' = [disk EXCEPT ![m] = Gone]
    BY <2>1 DEF TypeOK, Directories
  <2>2. ASSUME NEW good \in BOOLEAN, NEW vs \in SUBSET Versions,
               disk' = [disk EXCEPT ![m] = [stamp |-> events + 2, good |-> good, versions |-> vs]]
        PROVE  disk' \in [Models -> Directories]
    <3>1. events + 2 \in Stamps
      BY ServerAssumption DEF ChangeDisk, TypeOK, Stamps
    <3>2. QED
      BY <2>2, <3>1 DEF TypeOK, Directories
  <2>3. QED
    BY <2>1, <2>2 DEF ChangeDisk
<1>2. events' \in 0..MaxEvents
  BY ServerAssumption DEF ChangeDisk, TypeOK
<1>3. QED
  BY <1>1, <1>2 DEF ChangeDisk, TypeOK, ServiceTypeOK, server, service

\* A step of the main thread that only moves the poll on, or itself.
LEMMA QuietType ==
    ASSUME TypeOK, main' \in MainThreads, poll' \in Polls,
           UNCHANGED <<disk, infos, server, service, req, exiting, process, events, aborted, wasReady>>
    PROVE  TypeOK'
BY DEF TypeOK, ServiceTypeOK, server, service

\* A step in which AsyncLoad is called, and nothing fails.
LEMMA OrderType ==
    ASSUME TypeOK, main' \in MainThreads, poll' \in Polls, ServiceTypeOK',
           UNCHANGED <<disk, infos, server, req, exiting, process, events, aborted, wasReady>>
    PROVE  TypeOK'
BY DEF TypeOK, server

\* A step in which the poll fails.
LEMMA FailedType ==
    ASSUME TypeOK, Failed, aborted' \in BOOLEAN,
           UNCHANGED <<manager, status, disk, req, exiting, events, wasReady>>
    PROVE  TypeOK'
<1>1. poll' \in Polls
  BY NoPollType DEF Failed
<1>2. state' \in {"INVALID", "INITIALIZING", "READY", "EXITING", "FAILED"}
      /\ process' \in {"up", "crashed", "exited"}
  BY DEF Failed, TypeOK
<1>3. QED
  BY <1>1, <1>2 DEF Failed, TypeOK

\* Moving on, whatever the place.
LEMMA GotoType ==
    ASSUME TypeOK, NEW pc \in MainPCs, Goto(pc)
    PROVE  main' \in MainThreads /\ main'.pc = pc /\ main'.left = main.left /\ main'.clean = main.clean
BY GotoPlace DEF TypeOK

LEMMA InitServerType == ASSUME TypeOK, InitServer PROVE TypeOK'
<1>1. main' \in MainThreads
  BY GotoType DEF InitServer, MainPCs
<1>2. QED
  BY <1>1 DEF InitServer, TypeOK, ServiceTypeOK, service, untouched

LEMMA InitEndsType == ASSUME TypeOK, InitEnds PROVE TypeOK'
<1>1. main' \in MainThreads
  BY GotoType DEF InitEnds, MainPCs
<1>2. QED
  BY <1>1 DEF InitEnds, TypeOK, ServiceTypeOK, service

\* A poll starts with nothing read, or fails.
LEMMA ListRepositoryReads ==
    ASSUME TypeOK, ListRepository
    PROVE  \/ Failed /\ UNCHANGED aborted
           \/ /\ main'.pc = "child" /\ main' \in MainThreads /\ main'.clean = main.clean
              /\ poll' \in Polls /\ poll'.new = NoPoll.new /\ poll'.kind = NoPoll.kind
              /\ UNCHANGED <<infos, state, process, service, aborted>>
<1>1. UNCHANGED aborted
  BY DEF ListRepository
<1>2. CASE PollFails
  BY <1>1, <1>2, PollFailsFailed
<1>3. CASE /\ poll' = [NoPoll EXCEPT !.todo = {m \in Models : disk[m] # Gone}] /\ Goto("child")
           /\ UNCHANGED <<infos, state, process, service>>
  <2>1. poll' \in Polls /\ poll'.new = NoPoll.new /\ poll'.kind = NoPoll.kind
    BY <1>3, NoPollType DEF Polls
  <2>2. main'.pc = "child" /\ main' \in MainThreads /\ main'.clean = main.clean
    BY <1>3, GotoType DEF MainPCs
  <2>3. QED
    BY <1>1, <1>3, <2>1, <2>2
<1>4. QED
  BY <1>2, <1>3 DEF ListRepository

LEMMA ListRepositoryType == ASSUME TypeOK, ListRepository PROVE TypeOK'
<1>1. UNCHANGED <<manager, status, disk, req, exiting, events, wasReady>>
  BY DEF ListRepository, untouched
<1>2. CASE Failed /\ UNCHANGED aborted
  <2>1. aborted' \in BOOLEAN
    BY <1>2 DEF TypeOK
  <2>2. QED
    BY <1>1, <1>2, <2>1, FailedType
<1>3. CASE main' \in MainThreads /\ poll' \in Polls /\ UNCHANGED <<infos, state, process, service, aborted>>
  BY <1>1, <1>3, QuietType DEF server
<1>4. QED
  BY <1>2, <1>3, ListRepositoryReads

\* What is read of the first model of a poll.
LEMMA PollChildReads ==
    ASSUME TypeOK, PollChild
    PROVE  \E m \in Models, info \in Infos \cup {None}, kind \in PollKinds :
             /\ m \in poll.todo
             /\ poll' = [todo |-> poll.todo \ {m}, kind |-> [poll.kind EXCEPT ![m] = kind],
                         new |-> [poll.new EXCEPT ![m] = info]]
             /\ \/ /\ kind = "unmodified" /\ info = infos[m] /\ info # None /\ main' = main
                \/ /\ kind \in {"added", "modified"} /\ info = [mtime |-> disk[m].stamp, config |-> None]
                   /\ info \in Infos
                   /\ main' = [main EXCEPT !.pc = "config", !.model = m]
<1>1. PICK m : m = First(poll.todo)
  OBVIOUS
<1>2. m \in Models /\ m \in poll.todo
  BY <1>1, FirstIn DEF PollChild, TypeOK, Polls
<1>3. PICK known, changed :
        /\ known = (infos[m] # None)
        /\ changed = (~known \/ disk[m].stamp > infos[m].mtime)
  OBVIOUS
<1>4. PICK kind, info :
        /\ kind = (CASE ~known -> "added" [] changed -> "modified" [] OTHER -> "unmodified")
        /\ info = (IF changed THEN [mtime |-> disk[m].stamp, config |-> None] ELSE infos[m])
  OBVIOUS
<1>5. /\ poll' = [todo |-> poll.todo \ {m}, kind |-> [poll.kind EXCEPT ![m] = kind],
                  new |-> [poll.new EXCEPT ![m] = info]]
      /\ main' = IF changed THEN [main EXCEPT !.pc = "config", !.model = m] ELSE main
  BY <1>1, <1>3, <1>4 DEF PollChild
<1>6. [mtime |-> disk[m].stamp, config |-> None] \in Infos
  BY <1>2 DEF TypeOK, Directories, Gone, Infos
<1>7. CASE changed
  <2>1. kind \in {"added", "modified"} /\ info = [mtime |-> disk[m].stamp, config |-> None]
    BY <1>4, <1>7
  <2>2. QED
    BY <1>2, <1>5, <1>6, <1>7, <2>1 DEF PollKinds
<1>8. CASE ~changed
  <2>1. kind = "unmodified" /\ info = infos[m] /\ info # None
    BY <1>3, <1>4, <1>8
  <2>2. info \in Infos \cup {None}
    BY <1>2, <2>1 DEF TypeOK
  <2>3. QED
    BY <1>2, <1>5, <1>8, <2>1, <2>2 DEF PollKinds
<1>9. changed \in BOOLEAN
  BY <1>3
<1>10. QED
  BY <1>7, <1>8

LEMMA PollChildType == ASSUME TypeOK, PollChild PROVE TypeOK'
<1>1. PICK m \in Models, info \in Infos \cup {None}, kind \in PollKinds :
        /\ poll' = [todo |-> poll.todo \ {m}, kind |-> [poll.kind EXCEPT ![m] = kind],
                    new |-> [poll.new EXCEPT ![m] = info]]
        /\ main' = main \/ main' = [main EXCEPT !.pc = "config", !.model = m]
  BY PollChildReads
<1>2. poll \in Polls /\ main \in MainThreads
  BY DEF TypeOK
<1>3. poll' \in Polls
  BY <1>1, <1>2 DEF Polls
<1>4. main' \in MainThreads
  BY <1>1, <1>2 DEF MainThreads, MainPCs
<1>5. QED
  BY <1>3, <1>4, QuietType DEF PollChild, untouched

\* The configuration of a model is read after the time of its last change.
LEMMA PollConfigReads ==
    ASSUME TypeOK, StatusInv, ReadingInv, PollConfig
    PROVE  \/ Failed /\ UNCHANGED aborted
           \/ /\ main'.pc = "child" /\ main' \in MainThreads /\ main'.clean = main.clean
              /\ disk[main.model] # Gone /\ disk[main.model].stamp \in Stamps
              /\ main.model \in Models /\ poll.new[main.model] \in Infos
              /\ poll' \in Polls /\ poll'.kind = poll.kind
              /\ poll'.new = [poll.new EXCEPT ![main.model] =
                                [mtime |-> poll.new[main.model].mtime, config |-> disk[main.model].stamp]]
              /\ UNCHANGED <<infos, state, process, service, aborted>>
<1>1. CASE ~disk[main.model].good
  BY <1>1, PollFailsFailed DEF PollConfig
<1>2. CASE disk[main.model].good
  <2>1. PICK m : m = main.model
    OBVIOUS
  <2>2. m \in Models /\ poll.new[m] # None
    BY <2>1 DEF StatusInv, ReadingInv, PollConfig, At
  <2>3. poll \in Polls /\ poll.new \in [Models -> Infos \cup {None}] /\ poll.new[m] \in Infos
    BY <2>2 DEF TypeOK, Polls
  <2>4. disk[m] # Gone /\ disk[m].stamp \in Stamps
    BY <1>2, <2>1, <2>2 DEF TypeOK, Directories, Gone
  <2>5. PICK info : info = [mtime |-> poll.new[m].mtime, config |-> disk[m].stamp]
    OBVIOUS
  <2>6. [poll.new[m] EXCEPT !.config = disk[m].stamp] = info /\ info \in Infos
    BY <2>3, <2>4, <2>5 DEF Infos
  <2>7. poll' = [poll EXCEPT !.new = [poll.new EXCEPT ![m] = info]]
    BY <1>2, <2>1, <2>6 DEF PollConfig
  <2>8. poll' \in Polls /\ poll'.kind = poll.kind /\ poll'.new = [poll.new EXCEPT ![m] = info]
    BY <2>2, <2>3, <2>6, <2>7 DEF Polls
  <2>9. Goto("child") /\ "child" \in MainPCs /\ UNCHANGED <<infos, state, process, service, aborted>>
    BY <1>2 DEF PollConfig, MainPCs
  <2>10. main'.pc = "child" /\ main' \in MainThreads /\ main'.clean = main.clean
    BY <2>9, GotoType
  <2>11. QED
    BY <2>1, <2>2, <2>3, <2>4, <2>5, <2>8, <2>9, <2>10
<1>3. QED
  BY <1>1, <1>2

LEMMA PollConfigType == ASSUME TypeOK, StatusInv, ReadingInv, PollConfig PROVE TypeOK'
<1>1. UNCHANGED <<manager, status, disk, req, exiting, events, wasReady>>
  BY DEF PollConfig, untouched
<1>2. CASE Failed /\ UNCHANGED aborted
  <2>1. aborted' \in BOOLEAN
    BY <1>2 DEF TypeOK
  <2>2. QED
    BY <1>1, <1>2, <2>1, FailedType
<1>3. CASE main' \in MainThreads /\ poll' \in Polls /\ UNCHANGED <<infos, state, process, service, aborted>>
  BY <1>1, <1>3, QuietType DEF server
<1>4. QED
  BY <1>2, <1>3, PollConfigReads

LEMMA PollEndType == ASSUME TypeOK, PollEnd PROVE TypeOK'
<1>1. main' \in MainThreads
  BY GotoType DEF PollEnd, MainPCs
<1>2. poll \in Polls /\ poll.new \in [Models -> Infos \cup {None}]
  BY DEF TypeOK, Polls
<1>3. poll' \in Polls
  BY <1>2 DEF PollEnd, Polls, PollKinds
<1>4. QED
  BY <1>1, <1>2, <1>3 DEF PollEnd, TypeOK, ServiceTypeOK, server, service, untouched

\* InitForModel, UpdateConfigForModel and UnloadDeleted take a model of their kind.
LEMMA FirstOfKind ==
    ASSUME NEW kind, Kind(kind) # {}
    PROVE  First(Kind(kind)) \in Models /\ poll.kind[First(Kind(kind))] = kind
<1>1. Kind(kind) \subseteq Models
  BY DEF Kind
<1>2. First(Kind(kind)) \in Kind(kind)
  BY <1>1, FirstIn
<1>3. QED
  BY <1>2 DEF Kind

LEMMA InitForModelType ==
    ASSUME TypeOK, NEW m \in Models, InitForModel(m) PROVE TypeOK'
<1>1. main' \in MainThreads
  <2>1. main \in MainThreads /\ main' = [main EXCEPT !.pc = "load", !.model = m]
    BY DEF InitForModel, TypeOK
  <2>2. QED
    BY <2>1 DEF MainThreads, MainPCs
<1>2. status' \in [Models -> (SUBSET Versions) \cup {None}]
  BY DEF InitForModel, TypeOK
<1>3. QED
  BY <1>1, <1>2 DEF InitForModel, TypeOK, ServiceTypeOK, service, untouched

LEMMA UpdateConfigForModelType ==
    ASSUME TypeOK, NEW m \in Models, UpdateConfigForModel(m) PROVE TypeOK'
<1>1. UNCHANGED <<manager, status, disk, req, exiting, events, wasReady>>
  BY DEF UpdateConfigForModel, untouched
<1>2. CASE status[m] # None
  <2>1. /\ main' = [main EXCEPT !.pc = "load", !.model = m]
        /\ UNCHANGED <<poll, infos, state, process, service, aborted>>
    BY <1>2 DEF UpdateConfigForModel
  <2>2. main \in MainThreads /\ poll' \in Polls
    BY <2>1 DEF TypeOK
  <2>3. main' \in MainThreads
    BY <2>1, <2>2 DEF MainThreads, MainPCs
  <2>4. QED
    BY <1>1, <2>1, <2>2, <2>3, QuietType DEF server
<1>3. CASE status[m] = None
  BY <1>1, <1>3, PollFailsFailed, FailedType DEF UpdateConfigForModel
<1>4. QED
  BY <1>2, <1>3

\* A model that is dealt with leaves its set.
LEMMA DealtWith ==
    ASSUME TypeOK, NEW m \in Models, poll' = [poll EXCEPT !.kind[m] = "none"]
    PROVE  poll' \in Polls /\ poll'.new = poll.new /\ poll'.kind = [poll.kind EXCEPT ![m] = "none"]
<1>1. poll \in Polls
  BY DEF TypeOK
<1>2. QED
  BY <1>1 DEF Polls, PollKinds

LEMMA LoadModelOrders ==
    ASSUME TypeOK, StatusInv, UpdatingInv, LoadModel
    PROVE  \/ Failed /\ aborted' = TRUE
           \/ LET m == main.model
              IN  /\ m \in Models /\ infos[m] \in Infos /\ disk[m] # Gone
                  /\ Ordered(m, disk[m].versions, infos[m].config)
                  /\ poll' \in Polls /\ poll'.kind = [poll.kind EXCEPT ![m] = "none"]
                  /\ main' \in MainThreads /\ main'.pc = "update" /\ main'.clean = main.clean
                  /\ UNCHANGED <<infos, state, process, aborted>>
<1>1. PICK m : m = main.model
  OBVIOUS
<1>2. m \in Models /\ infos[m] # None
  BY <1>1 DEF StatusInv, UpdatingInv, LoadModel, At
<1>3. CASE disk[m] = Gone
  BY <1>1, <1>3, PollFailsFailed DEF LoadModel
<1>4. CASE disk[m] # Gone
  <2>1. /\ Asked(m, disk[m].versions, infos[m].config)
        /\ poll' = [poll EXCEPT !.kind[m] = "none"]
        /\ Goto("update")
        /\ UNCHANGED <<infos, state, process, aborted>>
    BY <1>1, <1>4 DEF LoadModel
  <2>2. infos[m] \in Infos /\ disk[m] \in Directories
    BY <1>2 DEF TypeOK
  <2>3. infos[m].config \in Stamps \cup {None} /\ disk[m].versions \subseteq Versions
    BY <2>2 DEF Infos, Directories, Gone
  <2>4. Ordered(m, disk[m].versions, infos[m].config)
    <3>1. ServiceTypeOK
      BY DEF TypeOK
    <3>2. QED
      BY <1>2, <2>1, <2>3, <3>1, AskedOrders
  <2>5. poll' \in Polls /\ poll'.kind = [poll.kind EXCEPT ![m] = "none"]
    BY <1>2, <2>1, DealtWith
  <2>6. main' \in MainThreads /\ main'.pc = "update" /\ main'.clean = main.clean
    <3>1. "update" \in MainPCs
      BY DEF MainPCs
    <3>2. QED
      BY <2>1, <3>1, GotoType
  <2>7. QED
    BY <1>1, <1>2, <1>4, <2>1, <2>2, <2>4, <2>5, <2>6
<1>5. QED
  BY <1>3, <1>4

LEMMA LoadModelType == ASSUME TypeOK, StatusInv, UpdatingInv, LoadModel PROVE TypeOK'
<1>1. UNCHANGED <<manager, status, disk, req, exiting, events, wasReady>>
  BY DEF LoadModel, untouched
<1>2. CASE Failed /\ aborted' = TRUE
  BY <1>1, <1>2, FailedType
<1>3. CASE /\ ServiceTypeOK' /\ poll' \in Polls /\ main' \in MainThreads
           /\ UNCHANGED <<infos, state, process, aborted>>
  BY <1>1, <1>3, OrderType DEF server
<1>4. QED
  BY <1>2, <1>3, LoadModelOrders DEF Ordered

LEMMA UnloadDeletedOrders ==
    ASSUME TypeOK, NEW m \in Models, UnloadDeleted(m)
    PROVE  /\ poll.kind[m] = "deleted"
           /\ Ordered(m, {}, None)
           /\ poll' \in Polls /\ poll'.kind = [poll.kind EXCEPT ![m] = "none"]
<1>1. poll.kind[m] = "deleted"
  BY FirstOfKind DEF UnloadDeleted
<1>2. Ordered(m, {}, None)
  BY AskedOrders DEF UnloadDeleted, TypeOK
<1>3. QED
  BY <1>1, <1>2, DealtWith DEF UnloadDeleted

LEMMA UnloadDeletedType ==
    ASSUME TypeOK, NEW m \in Models, UnloadDeleted(m) PROVE TypeOK'
<1>1. ServiceTypeOK' /\ poll' \in Polls
  BY UnloadDeletedOrders DEF Ordered
<1>2. main' \in MainThreads
  BY DEF UnloadDeleted, TypeOK
<1>3. QED
  BY <1>1, <1>2, OrderType DEF UnloadDeleted, untouched

LEMMA EndUpdateMoves ==
    ASSUME TypeOK, EndUpdate PROVE main' \in MainThreads /\ main'.pc \in {"locked", "made"}
<1>1. PICK pc \in {"locked", "made"} : Goto(pc)
  BY DEF EndUpdate
<1>2. QED
  BY <1>1, GotoType DEF MainPCs

LEMMA EndUpdateType == ASSUME TypeOK, EndUpdate PROVE TypeOK'
<1>1. main' \in MainThreads
  BY EndUpdateMoves
<1>2. poll' \in Polls
  BY NoPollType DEF EndUpdate
<1>3. QED
  BY <1>1, <1>2 DEF EndUpdate, TypeOK, ServiceTypeOK, service, untouched

\* The main loop, and the signal handler.
LEMMA LoopTestMoves ==
    ASSUME TypeOK, LoopTest PROVE main' \in MainThreads /\ main'.pc \in {"stop", "list", "locked"}
<1>1. PICK pc \in {"stop", "list", "locked"} : Goto(pc)
  BY DEF LoopTest
<1>2. QED
  BY <1>1, GotoType DEF MainPCs

LEMMA LoopTestType == ASSUME TypeOK, LoopTest PROVE TypeOK'
<1>1. main' \in MainThreads /\ poll' \in Polls
  BY LoopTestMoves DEF LoopTest, TypeOK
<1>2. QED
  BY <1>1, QuietType DEF LoopTest, untouched

LEMMA LoopWaitType == ASSUME TypeOK, LoopWait PROVE TypeOK'
<1>1. main' \in MainThreads
  BY GotoType DEF LoopWait, MainPCs
<1>2. poll' \in Polls
  BY DEF LoopWait, TypeOK
<1>3. QED
  BY <1>1, <1>2, QuietType DEF LoopWait, untouched

LEMMA SignalType == ASSUME TypeOK, Signal PROVE TypeOK'
<1>1. main' \in MainThreads /\ exiting' \in BOOLEAN
  <2>1. main \in MainThreads /\ exiting \in BOOLEAN
    BY DEF TypeOK
  <2>2. \/ exiting' = TRUE /\ main' = main
        \/ main' = [main EXCEPT !.pc = "stuck"] /\ exiting' = exiting
    BY DEF Signal
  <2>3. [main EXCEPT !.pc = "stuck"] \in MainThreads
    BY <2>1 DEF MainThreads, MainPCs
  <2>4. QED
    BY <2>1, <2>2, <2>3
<1>2. QED
  BY <1>1 DEF Signal, TypeOK, ServiceTypeOK, server, service

\* The shutdown.
LEMMA StopType == ASSUME TypeOK, Stop PROVE TypeOK'
<1>1. CASE manager
  <2>1. main' \in MainThreads
    BY <1>1, GotoType DEF Stop, MainPCs
  <2>2. poll' \in Polls
    BY <1>1, NoPollType DEF Stop, Polls
  <2>3. QED
    BY <2>1, <2>2 DEF Stop, TypeOK, ServiceTypeOK, service, untouched
<1>2. CASE ~manager
  <2>1. main \in MainThreads
    BY DEF TypeOK
  <2>2. main' \in MainThreads
    BY <1>2, <2>1 DEF Stop, MainThreads, MainPCs
  <2>3. QED
    BY <1>2, <2>2 DEF Stop, TypeOK, ServiceTypeOK, service, untouched
<1>3. QED
  BY <1>1, <1>2

LEMMA UnloadAllModelsType == ASSUME TypeOK, UnloadAllModels PROVE TypeOK'
<1>1. CASE poll.todo = {}
  <2>1. main' \in MainThreads /\ poll' \in Polls
    BY <1>1, GotoType DEF UnloadAllModels, MainPCs, TypeOK
  <2>2. QED
    BY <1>1, <2>1, QuietType DEF UnloadAllModels, untouched
<1>2. CASE poll.todo # {}
  <2>1. poll \in Polls /\ First(poll.todo) \in Models
    BY <1>2, FirstIn DEF TypeOK, Polls
  <2>2. ServiceTypeOK'
    BY <1>2, <2>1, AskedOrders DEF UnloadAllModels, Ordered, TypeOK
  <2>3. poll' \in Polls
    BY <1>2, <2>1 DEF UnloadAllModels, Polls
  <2>4. main' \in MainThreads
    BY <1>2 DEF UnloadAllModels, TypeOK
  <2>5. QED
    BY <2>2, <2>3, <2>4, OrderType DEF UnloadAllModels, untouched
<1>3. QED
  BY <1>1, <1>2

LEMMA ReadLiveType == ASSUME TypeOK, ReadLive PROVE TypeOK'
<1>1. main \in MainThreads
  BY DEF TypeOK
<1>2. main' \in MainThreads
  BY <1>1 DEF ReadLive, MainThreads, MainPCs
<1>3. poll' \in Polls
  BY DEF ReadLive, TypeOK
<1>4. QED
  BY <1>2, <1>3, QuietType DEF ReadLive, untouched

LEMMA ReadInflightMoves ==
    ASSUME TypeOK, ReadInflight
    PROVE  main' \in MainThreads /\ main'.pc \in {"stopped", "live"} /\ (main'.clean => main.clean)
<1>1. PICK clean, pc, left :
        /\ clean = (main.clean /\ Inflight = 0)
        /\ pc = (IF clean \/ main.left = 0 THEN "stopped" ELSE "live")
        /\ left = (IF clean \/ main.left = 0 THEN main.left ELSE main.left - 1)
  OBVIOUS
<1>2. main' = [main EXCEPT !.clean = clean, !.pc = pc, !.left = left]
  BY <1>1 DEF ReadInflight
<1>3. main \in MainThreads /\ main.left \in 0..ExitTimeout
  BY DEF TypeOK, MainThreads
<1>4. pc \in {"stopped", "live"} /\ clean \in BOOLEAN /\ (clean => main.clean)
  BY <1>1
<1>5. left \in 0..ExitTimeout
  BY <1>1, <1>3, ServerAssumption
<1>6. main'.pc = pc /\ main'.clean = clean /\ main' \in MainThreads
  BY <1>2, <1>3, <1>4, <1>5 DEF MainThreads, MainPCs
<1>7. QED
  BY <1>4, <1>6

LEMMA ReadInflightType == ASSUME TypeOK, ReadInflight PROVE TypeOK'
<1>1. main' \in MainThreads
  BY ReadInflightMoves
<1>2. poll' \in Polls
  BY DEF ReadInflight, TypeOK
<1>3. QED
  BY <1>1, <1>2, QuietType DEF ReadInflight, untouched

LEMMA ShutdownGrpcMoves ==
    ASSUME TypeOK, ShutdownGrpc
    PROVE  main' \in MainThreads /\ main'.pc = "closing" /\ main'.clean = main.clean
<1>1. main \in MainThreads
  BY DEF TypeOK
<1>2. QED
  BY <1>1 DEF ShutdownGrpc, MainThreads, MainPCs

LEMMA ShutdownGrpcType == ASSUME TypeOK, ShutdownGrpc PROVE TypeOK'
<1>1. main' \in MainThreads
  BY ShutdownGrpcMoves
<1>2. poll' \in Polls
  BY DEF ShutdownGrpc, TypeOK
<1>3. QED
  BY <1>1, <1>2, QuietType DEF ShutdownGrpc, untouched

LEMMA ExitType == ASSUME TypeOK, Exit PROVE TypeOK'
BY DEF Exit, TypeOK, ServiceTypeOK, server, service, untouched

(***************************************************************************)
(* Requests, and the versions that serve them.                             *)
(***************************************************************************)

\* What a step that is not the main thread's leaves as it is.
Aside ==
    /\ UNCHANGED others
    /\ asked' = asked
    /\ \A k \in Keys : phase[k] = "down" => phase'[k] = "down"
    /\ \A m \in Models : status[m] # None => status'[m] # None
    /\ events <= events'
    /\ Up' => Up
    /\ process' = "crashed" => process = "crashed" \/ ~manager

\* What a step of one request needs to be shown.
Steps == TypeOK' /\ Aside /\ UsesInv'

\* A request moves on, and nothing else does.
LEMMA RequestMoves ==
    ASSUME TypeOK, UsesInv, NEW r \in Requests, NEW q \in Inferences, req' = [req EXCEPT ![r] = q],
           UNCHANGED <<others, status, service, process>>, events' \in 0..MaxEvents, events <= events',
           q.pc \in {"found", "admitted", "running"} => uses[r] # None,
           q.pc \in {"idle", "begun"} => uses[r] = None,
           q.pc # "idle" => q.key \in Keys,
           ~manager => q.pc \in {"idle", "begun"}
    PROVE  Steps
<1>1. TypeOK'
  BY DEF TypeOK, ServiceTypeOK, service, others
<1>2. Aside
  BY DEF Aside, service, Up
<1>3. UsesInv'
  <2>1. \A p \in Requests : req'[p] = IF p = r THEN q ELSE req[p]
    BY DEF TypeOK
  <2>2. uses' = uses /\ phase' = phase /\ manager' = manager
    BY DEF service, others
  <2>3. QED
    BY <2>1, <2>2 DEF UsesInv
<1>4. QED
  BY <1>1, <1>2, <1>3 DEF Steps

LEMMA BeginSteps ==
    ASSUME TypeOK, UsesInv, NEW r \in Requests, NEW k \in Keys, Begin(r, k) PROVE Steps
<1>1. PICK q : q = [req[r] EXCEPT !.pc = "begun", !.key = k]
  OBVIOUS
<1>2. q \in Inferences /\ q.pc = "begun" /\ q.key = k
  <2>1. req[r] \in Inferences
    BY DEF TypeOK
  <2>2. QED
    BY <1>1, <2>1 DEF Inferences, RequestPCs
<1>3. req' = [req EXCEPT ![r] = q] /\ req[r].pc = "idle"
  BY <1>1 DEF Begin, TypeOK
<1>4. uses[r] = None
  BY <1>3 DEF UsesInv
<1>5. events' \in 0..MaxEvents /\ events <= events'
  BY ServerAssumption DEF Begin, TypeOK
<1>6. UNCHANGED <<others, status, service, process>>
  BY DEF Begin
<1>7. QED
  BY <1>2, <1>3, <1>4, <1>5, <1>6, RequestMoves

LEMMA CallSteps ==
    ASSUME TypeOK, UsesInv, NEW r \in Requests, Call(r) PROVE Steps
<1>1. PICK open \in BOOLEAN : req' = [req EXCEPT ![r].open = open]
  BY DEF Call, OpenCall, CloseCall
<1>2. PICK q : q = [req[r] EXCEPT !.open = open]
  OBVIOUS
<1>3. req[r] \in Inferences /\ req[r].pc = "idle"
  BY DEF TypeOK, Call, OpenCall, CloseCall, NoRequest
<1>4. q \in Inferences /\ q.pc = "idle"
  BY <1>2, <1>3 DEF Inferences
<1>5. req' = [req EXCEPT ![r] = q] /\ uses[r] = None
  BY <1>1, <1>2, <1>3 DEF TypeOK, UsesInv
<1>6. UNCHANGED <<others, status, service, process, events>>
  BY DEF Call, OpenCall, CloseCall
<1>7. events' \in 0..MaxEvents /\ events <= events'
  BY <1>6, ServerAssumption DEF TypeOK
<1>8. QED
  BY <1>4, <1>5, <1>6, <1>7, RequestMoves

\* Admit, Count, Answer and Uncount: the request keeps its key and its handle.
LEMMA MovesOn ==
    ASSUME TypeOK, UsesInv, NEW r \in Requests, NEW pc \in RequestPCs \ {"idle", "begun"},
           NEW counted \in BOOLEAN,
           req' = [req EXCEPT ![r].pc = pc, ![r].counted = counted],
           req[r].pc \notin {"idle", "begun"},
           req[r].pc = "answered" => pc = "answered",
           UNCHANGED <<others, status, service, process, events>>
    PROVE  Steps
<1>1. req[r] \in Inferences
  BY DEF TypeOK
<1>2. PICK q : q = [req[r] EXCEPT !.pc = pc, !.counted = counted]
  OBVIOUS
<1>3. q \in Inferences /\ q.pc = pc /\ q.key = req[r].key
  BY <1>1, <1>2 DEF Inferences
<1>4. req' = [req EXCEPT ![r] = q]
  BY <1>1, <1>2 DEF TypeOK
<1>5. req[r].pc \in {"found", "admitted", "running", "answered"}
  BY <1>1 DEF Inferences, RequestPCs
<1>6. /\ req[r].key \in Keys /\ manager
      /\ pc \in {"found", "admitted", "running"} => uses[r] # None
  BY <1>5 DEF UsesInv
<1>7. events' \in 0..MaxEvents /\ events <= events'
  BY ServerAssumption DEF TypeOK
<1>8. UNCHANGED <<others, status, service, process>>
  OBVIOUS
<1>9. QED
  BY <1>3, <1>4, <1>6, <1>7, <1>8, RequestMoves

LEMMA SetPC ==
    ASSUME TypeOK, NEW r \in Requests, NEW pc
    PROVE  [req EXCEPT ![r].pc = pc] = [req EXCEPT ![r].pc = pc, ![r].counted = req[r].counted]
<1>1. req[r] \in Inferences
  BY DEF TypeOK
<1>2. [req[r] EXCEPT !.pc = pc] = [req[r] EXCEPT !.pc = pc, !.counted = req[r].counted]
  BY <1>1 DEF Inferences
<1>3. QED
  BY <1>2 DEF TypeOK

LEMMA AdmitSteps ==
    ASSUME TypeOK, UsesInv, NEW r \in Requests, Admit(r) PROVE Steps
<1>1. PICK pc \in {"admitted", "answered"} : req' = [req EXCEPT ![r].pc = pc]
  BY DEF Admit
<1>2. req[r].counted \in BOOLEAN /\ req[r].pc = "found" /\ pc \in RequestPCs \ {"idle", "begun"}
  BY <1>1 DEF TypeOK, Inferences, Admit, RequestPCs
<1>3. req' = [req EXCEPT ![r].pc = pc, ![r].counted = req[r].counted]
  BY <1>1, SetPC
<1>4. UNCHANGED <<others, status, service, process, events>>
  BY DEF Admit
<1>5. QED
  BY <1>2, <1>3, <1>4, MovesOn

LEMMA CountSteps ==
    ASSUME TypeOK, UsesInv, NEW r \in Requests, Count(r) PROVE Steps
<1>1. req' = [req EXCEPT ![r].pc = "running", ![r].counted = TRUE] /\ req[r].pc = "admitted"
  BY DEF Count
<1>2. UNCHANGED <<others, status, service, process, events>>
  BY DEF Count
<1>3. "running" \in RequestPCs \ {"idle", "begun"}
  BY DEF RequestPCs
<1>4. QED
  BY <1>1, <1>2, <1>3, MovesOn

LEMMA AnswerSteps ==
    ASSUME TypeOK, UsesInv, NEW r \in Requests, Answer(r) PROVE Steps
<1>1. req[r].counted \in BOOLEAN /\ req[r].pc = "running" /\ "answered" \in RequestPCs \ {"idle", "begun"}
  BY DEF TypeOK, Inferences, Answer, RequestPCs
<1>2. req' = [req EXCEPT ![r].pc = "answered", ![r].counted = req[r].counted]
  BY SetPC DEF Answer
<1>3. UNCHANGED <<others, status, service, process, events>>
  BY DEF Answer
<1>4. QED
  BY <1>1, <1>2, <1>3, MovesOn

LEMMA UncountSteps ==
    ASSUME TypeOK, UsesInv, NEW r \in Requests, Uncount(r) PROVE Steps
<1>1. req[r].pc = "answered" /\ "answered" \in RequestPCs \ {"idle", "begun"}
  BY DEF Uncount, RequestPCs
<1>2. req' = [req EXCEPT ![r].pc = "answered", ![r].counted = FALSE]
  <2>1. req[r] \in Inferences
    BY DEF TypeOK
  <2>2. [req[r] EXCEPT !.counted = FALSE] = [req[r] EXCEPT !.pc = "answered", !.counted = FALSE]
    BY <1>1, <2>1 DEF Inferences
  <2>3. QED
    BY <2>2 DEF TypeOK, Uncount
<1>3. UNCHANGED <<others, status, service, process, events>>
  BY DEF Uncount
<1>4. QED
  BY <1>1, <1>2, <1>3, MovesOn

\* Statistics are recorded: no model gets or loses its status.
LEMMA RecordedStatus ==
    ASSUME TypeOK, NEW k \in Keys, status' = Recorded(k)
    PROVE  /\ status' \in [Models -> (SUBSET Versions) \cup {None}]
           /\ \A m \in Models : status[m] # None => status'[m] # None
<1>1. PICK n, v : n = k[1] /\ v = k[2] /\ n \in Models /\ v \in Versions
  BY DEF Keys
<1>2. PICK vs : vs = IF status[n] = None THEN None ELSE status[n] \cup {v}
  OBVIOUS
<1>3. status' = [status EXCEPT ![n] = vs]
  BY <1>1, <1>2 DEF Recorded
<1>4. status \in [Models -> (SUBSET Versions) \cup {None}]
  BY DEF TypeOK
<1>5. vs \in (SUBSET Versions) \cup {None} /\ (status[n] # None => vs # None)
  <2>1. CASE status[n] = None
    BY <2>1, <1>2
  <2>2. CASE status[n] # None
    <3>1. status[n] \in SUBSET Versions /\ vs = status[n] \cup {v}
      BY <1>1, <1>2, <1>4, <2>2
    <3>2. vs \in SUBSET Versions
      BY <3>1, <1>1
    <3>3. QED
      BY <3>2, NoneAssumption
  <2>3. QED
    BY <2>1, <2>2
<1>6. QED
  BY <1>1, <1>3, <1>4, <1>5

\* A request that is over, its statistics recorded.
LEMMA OverSteps ==
    ASSUME TypeOK, UsesInv, NEW r \in Requests, req' = [req EXCEPT ![r] = Over(r)], uses[r] = None,
           NEW k \in Keys, status' = Recorded(k),
           UNCHANGED <<others, service, process, events>>
    PROVE  Steps
<1>1. Over(r) \in Inferences /\ Over(r).pc = "idle"
  <2>1. req[r] \in Inferences
    BY DEF TypeOK
  <2>2. req[r].open \in BOOLEAN
    BY <2>1 DEF Inferences
  <2>3. QED
    BY <2>2 DEF Over, NoRequest, Inferences, RequestPCs
<1>2. /\ status' \in [Models -> (SUBSET Versions) \cup {None}]
      /\ \A m \in Models : status[m] # None => status'[m] # None
  BY RecordedStatus
<1>3. TypeOK'
  BY <1>1, <1>2 DEF TypeOK, ServiceTypeOK, service, others
<1>4. Aside
  <2>1. events <= events'
    BY ServerAssumption DEF TypeOK
  <2>2. QED
    BY <1>2, <2>1 DEF Aside, service, Up
<1>5. UsesInv'
  <2>1. \A p \in Requests : req'[p] = IF p = r THEN Over(r) ELSE req[p]
    BY DEF TypeOK
  <2>2. uses' = uses /\ phase' = phase /\ manager' = manager
    BY DEF service, others
  <2>3. QED
    BY <1>1, <2>1, <2>2 DEF UsesInv
<1>6. QED
  BY <1>3, <1>4, <1>5 DEF Steps

LEMMA RecordSteps ==
    ASSUME TypeOK, UsesInv, NEW r \in Requests, Record(r) PROVE Steps
<1>1. req[r].key \in Keys
  BY DEF UsesInv, Record
<1>2. /\ req' = [req EXCEPT ![r] = Over(r)] /\ uses[r] = None /\ status' = Recorded(req[r].key)
      /\ UNCHANGED <<others, service, process, events>>
  BY DEF Record
<1>3. QED
  BY <1>1, <1>2, OverSteps

\* The manager is not there: the process crashes.
LEMMA CrashSteps ==
    ASSUME TypeOK, UsesInv, ~manager, process' = "crashed", Up, UNCHANGED <<others, req, status, service, events>>
    PROVE  Steps
<1>1. TypeOK'
  BY DEF TypeOK, ServiceTypeOK, service, others
<1>2. Aside
  <2>1. events <= events'
    BY ServerAssumption DEF TypeOK
  <2>2. QED
    BY <2>1 DEF Aside, service, Up
<1>3. UsesInv'
  BY DEF UsesInv, service, others
<1>4. QED
  BY <1>1, <1>2, <1>3 DEF Steps

LEMMA HandleStatusSteps == ASSUME TypeOK, UsesInv, HandleStatus PROVE Steps
<1>1. ~manager /\ process' = "crashed" /\ Up /\ UNCHANGED <<others, req, status, service, events>>
  BY DEF HandleStatus
<1>2. QED
  BY <1>1, CrashSteps

\* A version that is serving is found, and held.
LEMMA FoundSteps ==
    ASSUME TypeOK, UsesInv, NEW r \in Requests, NEW k \in Keys, req[r].pc = "begun", req[r].key = k,
           manager, phase[k] = "serving", LifeCycle!Use(r, k),
           req' = [req EXCEPT ![r].pc = "found"], UNCHANGED <<others, status, process, events>>
    PROVE  Steps
<1>1. PICK q : q = [req[r] EXCEPT !.pc = "found"]
  OBVIOUS
<1>2. req[r] \in Inferences
  BY DEF TypeOK
<1>3. q \in Inferences /\ q.pc = "found" /\ q.key = k
  BY <1>1, <1>2 DEF Inferences, RequestPCs
<1>4. req' = [req EXCEPT ![r] = q]
  BY <1>1 DEF TypeOK
<1>5. PICK use : use = [key |-> k, config |-> serves[k]]
  OBVIOUS
<1>6. /\ uses' = [uses EXCEPT ![r] = use]
      /\ asked' = asked /\ phase' = phase /\ serves' = serves
  BY <1>5 DEF LifeCycle!Use
<1>7. use \in Uses /\ use # None /\ use.key = k
  <2>1. serves[k] \in Stamps \cup {None}
    BY DEF TypeOK, ServiceTypeOK
  <2>2. use \in Uses /\ use.key = k
    BY <1>5, <2>1 DEF Uses
  <2>3. QED
    BY <2>2, NoneAssumption
<1>8. TypeOK'
  BY <1>3, <1>4, <1>6, <1>7 DEF TypeOK, ServiceTypeOK, others
<1>9. Aside
  <2>1. events <= events'
    BY ServerAssumption DEF TypeOK
  <2>2. QED
    BY <1>6, <2>1 DEF Aside, Up
<1>10. UsesInv'
  <2>1. \A p \in Requests : /\ req'[p] = IF p = r THEN q ELSE req[p]
                            /\ uses'[p] = IF p = r THEN use ELSE uses[p]
    BY <1>4, <1>6 DEF TypeOK, ServiceTypeOK
  <2>2. phase' = phase /\ manager' = manager
    BY <1>6 DEF others
  <2>3. QED
    BY <1>3, <1>7, <2>1, <2>2 DEF UsesInv
<1>11. QED
  BY <1>8, <1>9, <1>10 DEF Steps

LEMMA LookupSteps ==
    ASSUME TypeOK, UsesInv, NEW r \in Requests, Lookup(r) PROVE Steps
<1>1. PICK k : k = req[r].key
  OBVIOUS
<1>2. Up /\ req[r].pc = "begun" /\ UNCHANGED <<others, events>>
  BY DEF Lookup
<1>3. k \in Keys /\ uses[r] = None
  BY <1>1, <1>2 DEF UsesInv
<1>4. CASE ~manager /\ process' = "crashed" /\ UNCHANGED <<req, status, service>>
  BY <1>2, <1>4, CrashSteps
<1>5. CASE /\ manager /\ phase[k] = "serving" /\ LifeCycle!Use(r, k)
           /\ req' = [req EXCEPT ![r].pc = "found"] /\ UNCHANGED <<status, process>>
  BY <1>1, <1>2, <1>3, <1>5, FoundSteps
<1>6. CASE /\ status' = Recorded(k) /\ req' = [req EXCEPT ![r] = Over(r)]
           /\ UNCHANGED <<service, process>>
  BY <1>2, <1>3, <1>6, OverSteps
<1>7. QED
  BY <1>1, <1>4, <1>5, <1>6 DEF Lookup

LEMMA GiveUpSteps ==
    ASSUME TypeOK, UsesInv, NEW r \in Requests, GiveUp(r) PROVE Steps
<1>1. /\ uses' = [uses EXCEPT ![r] = None] /\ req[r].pc = "answered"
      /\ asked' = asked /\ phase' = phase /\ serves' = serves
      /\ UNCHANGED <<others, req, status, process, events>>
  BY DEF GiveUp, LifeCycle!Drop
<1>2. TypeOK'
  BY <1>1 DEF TypeOK, ServiceTypeOK, others
<1>3. Aside
  <2>1. events <= events'
    BY <1>1, ServerAssumption DEF TypeOK
  <2>2. QED
    BY <1>1, <2>1 DEF Aside, Up
<1>4. UsesInv'
  <2>1. \A p \in Requests : uses'[p] = IF p = r THEN None ELSE uses[p]
    BY <1>1 DEF TypeOK, ServiceTypeOK
  <2>2. QED
    BY <1>1, <2>1 DEF UsesInv, others
<1>5. QED
  BY <1>2, <1>3, <1>4 DEF Steps

\* An instance is drained only when no request holds it.
LEMMA ServingSteps ==
    ASSUME TypeOK, UsesInv, NEW k \in Keys, Serving(k) PROVE Steps
<1>1. PICK p \in LifeCycle!Phases, c \in Stamps \cup {None} :
        /\ phase' = [phase EXCEPT ![k] = p]
        /\ serves' = serves \/ serves' = [serves EXCEPT ![k] = c]
        /\ asked' = asked /\ uses' = uses
        /\ phase[k] # "down"
        /\ phase[k] \in {"serving", "draining"} => k \notin LifeCycle!InUse
  <2>1. asked[k] \in Orders
    BY DEF TypeOK, ServiceTypeOK
  <2>2. asked[k].config \in Stamps \cup {None}
    BY <2>1 DEF Orders
  <2>3. CASE LifeCycle!Serve(k)
    BY <2>2, <2>3 DEF LifeCycle!Serve, LifeCycle!Phases
  <2>4. CASE LifeCycle!Fail(k)
    BY <2>2, <2>4 DEF LifeCycle!Fail, LifeCycle!Phases
  <2>5. CASE LifeCycle!Discard(k)
    BY <2>2, <2>5 DEF LifeCycle!Discard, LifeCycle!Phases
  <2>6. CASE LifeCycle!Drained(k)
    BY <2>2, <2>6 DEF LifeCycle!Drained, LifeCycle!Phases
  <2>7. QED
    BY <2>3, <2>4, <2>5, <2>6 DEF Serving
<1>2. UNCHANGED <<others, req, status, process, events>>
  BY DEF Serving
<1>3. \A j \in Keys : phase'[j] = IF j = k THEN p ELSE phase[j]
  BY <1>1 DEF TypeOK, ServiceTypeOK
<1>4. TypeOK'
  <2>1. ServiceTypeOK'
    BY <1>1 DEF TypeOK, ServiceTypeOK
  <2>2. QED
    BY <1>2, <2>1 DEF TypeOK, others
<1>5. Aside
  <2>1. events <= events'
    BY <1>2, ServerAssumption DEF TypeOK
  <2>2. QED
    BY <1>1, <1>2, <1>3, <2>1 DEF Aside, Up
<1>6. UsesInv'
  <2>1. ASSUME NEW r \in Requests, uses[r] # None PROVE phase'[uses[r].key] \in {"serving", "draining"}
    <3>1. uses[r] \in Uses
      BY <2>1 DEF TypeOK, ServiceTypeOK
    <3>2. uses[r].key \in Keys /\ phase[uses[r].key] \in {"serving", "draining"}
      BY <2>1, <3>1 DEF UsesInv, Uses
    <3>3. uses[r].key # k
      BY <1>1, <2>1, <3>2 DEF LifeCycle!InUse
    <3>4. QED
      BY <1>3, <3>2, <3>3
  <2>2. uses' = uses /\ req' = req /\ manager' = manager
    BY <1>1, <1>2 DEF others
  <2>3. QED
    BY <2>1, <2>2 DEF UsesInv
<1>7. QED
  BY <1>4, <1>5, <1>6 DEF Steps

(***************************************************************************)
(* A step that is not the main thread's disturbs no part of the invariant. *)
(***************************************************************************)

LEMMA AsideSettled ==
    ASSUME Aside, NEW m \in Models PROVE Settled(m)' <=> Settled(m)
BY DEF Aside, others, Settled, InSync

LEMMA AsideIInv == ASSUME IInv, TypeOK', Aside, UsesInv' PROVE IInv'
<1>1. /\ main' = main /\ manager' = manager /\ state' = state /\ wasReady' = wasReady
      /\ asked' = asked /\ disk' = disk /\ infos' = infos /\ poll' = poll /\ aborted' = aborted
  BY DEF Aside, others
<1>2. StopInv'
  BY <1>1 DEF IInv, StopInv, Live, Aside
<1>3. ReadyInv'
  BY <1>1 DEF IInv, ReadyInv, Aside
<1>4. StatusInv'
  <2>1. \A k \in Keys : k[1] \in Models
    BY DEF Keys
  <2>2. QED
    BY <1>1, <2>1 DEF IInv, StatusInv, Aside
<1>5. TimeInv'
  <2>1. events \in Nat /\ events' \in Nat /\ events <= events'
    BY DEF IInv, TypeOK, Aside
  <2>2. ASSUME NEW m \in Models PROVE disk[m].stamp \in Nat /\ (infos[m] # None => infos[m].mtime \in Nat)
    BY DEF IInv, TypeOK, Directories, Gone, Infos, Stamps
  <2>3. \A m \in Models : infos[m] # None => Fresh(m, infos[m])'
    BY <1>1 DEF IInv, TimeInv, Fresh
  <2>4. QED
    BY <1>1, <2>1, <2>2, <2>3 DEF IInv, TimeInv
<1>6. SettledInv'
  BY <1>1, AsideSettled DEF IInv, SettledInv
<1>7. ReadingInv'
  <2>1. events \in Nat /\ events' \in Nat /\ events <= events'
    BY DEF IInv, TypeOK, Aside
  <2>2. ASSUME NEW m \in Models PROVE poll.new[m] # None => poll.new[m].mtime \in Nat
    BY DEF IInv, TypeOK, Polls, Infos, Stamps
  <2>3. \A m \in Models : Fresh(m, poll.new[m])' <=> Fresh(m, poll.new[m])
    BY <1>1 DEF Fresh
  <2>4. Up' => Up
    BY DEF Aside
  <2>5. QED
    BY <1>1, <2>1, <2>2, <2>3, <2>4 DEF IInv, ReadingInv
<1>8. UpdatingInv'
  <2>1. Up' => Up
    BY DEF Aside
  <2>2. QED
    BY <1>1, <2>1, AsideSettled DEF IInv, UpdatingInv
<1>9. QED
  BY <1>2, <1>3, <1>4, <1>5, <1>6, <1>7, <1>8 DEF IInv

(***************************************************************************)
(* The repository, and the signal.                                         *)
(***************************************************************************)

\* A directory that changes gets a stamp later than any noted, or is gone.
LEMMA DiskChanges ==
    ASSUME IInv, NEW m \in Models, ChangeDisk(m)
    PROVE  /\ events \in Nat /\ events' = events + 1
           /\ \A n \in Models :
                \/ disk'[n] = disk[n] /\ disk[n].stamp \in Nat /\ disk[n].stamp <= events + 1
                \/ disk'[n] = Gone
                \/ disk'[n].stamp = events + 2
<1>1. events \in Nat /\ events' = events + 1 /\ disk \in [Models -> Directories]
  BY DEF IInv, TypeOK, ChangeDisk
<1>2. ASSUME NEW n \in Models PROVE disk[n].stamp \in Nat /\ disk[n].stamp <= events + 1
  BY <1>1 DEF IInv, TimeInv, Directories, Gone, Stamps
<1>3. \/ disk' = [disk EXCEPT ![m] = Gone]
      \/ \E good \in BOOLEAN, vs \in SUBSET Versions :
            disk' = [disk EXCEPT ![m] = [stamp |-> events + 2, good |-> good, versions |-> vs]]
  BY DEF ChangeDisk
<1>4. QED
  BY <1>1, <1>2, <1>3

LEMMA ChangeDiskIInv ==
    ASSUME IInv, NEW m \in Models, ChangeDisk(m) PROVE IInv'
<1>1. /\ events \in Nat /\ events' = events + 1
      /\ \A n \in Models :
           \/ disk'[n] = disk[n] /\ disk[n].stamp \in Nat /\ disk[n].stamp <= events + 1
           \/ disk'[n] = Gone
           \/ disk'[n].stamp = events + 2
  BY DiskChanges
<1>2. /\ main' = main /\ manager' = manager /\ state' = state /\ wasReady' = wasReady
      /\ asked' = asked /\ phase' = phase /\ uses' = uses /\ req' = req /\ status' = status
      /\ infos' = infos /\ poll' = poll /\ aborted' = aborted /\ process' = process
  BY DEF ChangeDisk, server, service
<1>3. TypeOK'
  BY ChangeDiskType DEF IInv
<1>4. UsesInv' /\ StopInv' /\ ReadyInv' /\ StatusInv'
  BY <1>2 DEF IInv, UsesInv, StopInv, Live, ReadyInv, StatusInv
<1>5. ASSUME NEW n \in Models, NEW i \in Infos, i.mtime <= events + 1,
             disk[n] # Gone /\ disk[n].stamp <= i.mtime => i.config = disk[n].stamp
      PROVE  disk'[n] # Gone /\ disk'[n].stamp <= i.mtime => i.config = disk'[n].stamp
  <2>1. i.mtime \in Nat
    BY DEF Infos, Stamps
  <2>2. QED
    BY <1>1, <1>5, <2>1
<1>6. ASSUME NEW n \in Models PROVE infos[n] \in Infos \cup {None} /\ poll.new[n] \in Infos \cup {None}
  BY DEF IInv, TypeOK, Polls
<1>7. TimeInv'
  <2>1. ASSUME NEW n \in Models PROVE (disk[n].stamp <= events + 1)'
    BY <1>1 DEF Gone
  <2>2. ASSUME NEW n \in Models, infos[n] # None PROVE (infos[n].mtime <= events + 1 /\ Fresh(n, infos[n]))'
    <3>1. infos[n] \in Infos /\ infos[n].mtime \in Nat /\ infos[n].mtime <= events + 1 /\ Fresh(n, infos[n])
      BY <2>2, <1>6 DEF IInv, TimeInv, Infos, Stamps
    <3>2. Fresh(n, infos[n])'
      BY <1>2, <1>5, <3>1 DEF Fresh
    <3>3. QED
      BY <1>1, <1>2, <3>1, <3>2
  <2>3. QED
    BY <1>2, <2>1, <2>2 DEF TimeInv
<1>8. ASSUME NEW n \in Models, Settled(n) PROVE Settled(n)'
  <2>1. CASE infos[n] = None
    BY <1>2, <1>8, <2>1 DEF Settled
  <2>2. CASE infos[n] # None
    <3>1. infos[n].mtime \in Nat /\ infos[n].mtime <= events + 1
      BY <2>2, <1>6 DEF IInv, TimeInv, Infos, Stamps
    <3>2. disk'[n] # Gone /\ disk'[n].stamp <= infos'[n].mtime =>
            disk'[n] = disk[n] /\ disk[n] # Gone /\ disk[n].stamp <= infos[n].mtime
      BY <1>1, <1>2, <3>1
    <3>3. QED
      BY <1>2, <1>8, <2>2, <3>2 DEF Settled, InSync
  <2>3. QED
    BY <2>1, <2>2
<1>9. SettledInv'
  BY <1>2, <1>8 DEF IInv, SettledInv
<1>10. ReadingInv'
  <2>1. ASSUME NEW n \in Models, poll.new[n] # None, poll.new[n].mtime <= events + 1
        PROVE  (poll.new[n].mtime <= events + 1)' /\ (Fresh(n, poll.new[n]) => Fresh(n, poll.new[n])')
    <3>1. poll.new[n] \in Infos /\ poll.new[n].mtime \in Nat
      BY <2>1, <1>6 DEF Infos, Stamps
    <3>2. Fresh(n, poll.new[n]) => Fresh(n, poll.new[n])'
      BY <1>2, <1>5, <2>1, <3>1 DEF Fresh
    <3>3. QED
      BY <1>1, <1>2, <2>1, <3>1, <3>2
  <2>2. Up' = Up
    BY <1>2 DEF Up
  <2>3. QED
    BY <1>2, <2>1, <2>2 DEF IInv, ReadingInv
<1>11. UpdatingInv'
  <2>1. Up' = Up
    BY <1>2 DEF Up
  <2>2. QED
    BY <1>2, <1>8, <2>1 DEF IInv, UpdatingInv
<1>12. QED
  BY <1>3, <1>4, <1>7, <1>9, <1>10, <1>11 DEF IInv

\* A step that leaves the models, the repository and their life cycle alone.
Still ==
    /\ UNCHANGED <<disk, infos, asked, phase, uses, req, status, events, aborted>>
    /\ Up' => Up

LEMMA StillSettled ==
    ASSUME Still, NEW m \in Models PROVE Settled(m)' <=> Settled(m)
BY DEF Still, Settled, InSync

LEMMA StillKeeps ==
    ASSUME IInv, Still
    PROVE  /\ UNCHANGED manager => UsesInv'
           /\ \A k \in Keys : asked'[k].to = "load" => status'[k[1]] # None
           /\ TimeInv'
<1>1. UNCHANGED manager => UsesInv'
  BY DEF IInv, Still, UsesInv
<1>2. \A k \in Keys : asked'[k].to = "load" => status'[k[1]] # None
  BY DEF IInv, Still, StatusInv
<1>3. TimeInv'
  BY DEF IInv, Still, TimeInv, Fresh
<1>4. QED
  BY <1>1, <1>2, <1>3

LEMMA SignalIInv == ASSUME IInv, Signal PROVE IInv'
<1>1. TypeOK'
  BY SignalType DEF IInv
<1>2. Still /\ UNCHANGED <<manager, poll, state, process, wasReady>>
  BY DEF Signal, Still, server, service, Up
<1>3. main' = main \/ main'.pc = "stuck"
  <2>1. main \in MainThreads
    BY DEF IInv, TypeOK
  <2>2. QED
    BY <2>1 DEF Signal, MainThreads
<1>4. StopInv' /\ ReadyInv' /\ StatusInv'
  BY <1>2, <1>3, StillKeeps DEF IInv, StopInv, Live, ReadyInv, StatusInv, Still
<1>5. SettledInv'
  BY <1>2, <1>3, StillSettled DEF IInv, SettledInv, BetweenPolls, Still
<1>6. ReadingInv'
  BY <1>2, <1>3 DEF IInv, ReadingInv, Still, Fresh
<1>7. UpdatingInv'
  BY <1>2, <1>3, StillSettled DEF IInv, UpdatingInv, Still
<1>8. QED
  BY <1>1, <1>2, <1>4, <1>5, <1>6, <1>7, StillKeeps DEF IInv

(***************************************************************************)
(* The main thread's steps that touch neither models nor their life cycle. *)
(***************************************************************************)

\* Where the main thread is while models are served as infos_ has them.
Calm == BetweenPolls \cup {"init", "child", "config"}

\* Steps between polls, and of the shutdown.
LEMMA StillRest ==
    ASSUME IInv, TypeOK', Still, UNCHANGED manager, ReadyInv',
           main'.pc \notin {"child", "config", "update", "load"},
           main'.pc \in Calm => main.pc \in Calm,
           main'.pc \in {"inflight", "stopped", "closing"} /\ main'.clean /\ manager => Live = {}
    PROVE  IInv'
<1>1. StopInv'
  BY DEF StopInv, Live, Still
<1>2. StatusInv'
  BY StillKeeps DEF StatusInv
<1>3. SettledInv'
  BY StillSettled DEF IInv, SettledInv, Calm, Still
<1>4. ReadingInv' /\ UpdatingInv'
  BY DEF ReadingInv, UpdatingInv
<1>5. QED
  BY <1>1, <1>2, <1>3, <1>4, StillKeeps DEF IInv

\* Those that do not make the server ready.
LEMMA StillIInv ==
    ASSUME IInv, TypeOK', Still, UNCHANGED <<manager, wasReady>>,
           state' = "READY" => state = "READY", process' = "crashed" => process = "crashed",
           main'.pc \notin {"child", "config", "update", "load", "made"},
           main'.pc \in Calm => main.pc \in Calm,
           main'.pc \in {"inflight", "stopped", "closing"} /\ main'.clean /\ manager => Live = {}
    PROVE  IInv'
<1>1. ReadyInv'
  BY DEF IInv, ReadyInv
<1>2. QED
  BY <1>1, StillRest

LEMMA InitServerIInv == ASSUME IInv, InitServer PROVE IInv'
<1>1. TypeOK' /\ Still /\ UNCHANGED <<manager, wasReady, process>> /\ state' = "INITIALIZING"
  BY InitServerType DEF IInv, InitServer, Still, untouched, service, Up
<1>2. main.pc \in Calm
  BY DEF InitServer, At, Calm
<1>3. main'.pc = "list"
  BY GotoType DEF InitServer, IInv, MainPCs
<1>4. QED
  BY <1>1, <1>2, <1>3, StillIInv

\* The manager was set before the server becomes ready.
LEMMA InitEndsIInv == ASSUME IInv, InitEnds PROVE IInv'
<1>1. TypeOK' /\ Still /\ UNCHANGED <<manager, process>>
  BY InitEndsType DEF IInv, InitEnds, Still, service, Up
<1>2. main.pc = "made" /\ main.pc \in Calm /\ Up
  BY DEF InitEnds, At, Calm, BetweenPolls
<1>3. main'.pc = "test"
  BY GotoType DEF InitEnds, IInv, MainPCs
<1>4. ReadyInv'
  BY <1>1, <1>2 DEF IInv, ReadyInv, Up
<1>5. QED
  BY <1>1, <1>2, <1>3, <1>4, StillRest

LEMMA LoopTestIInv == ASSUME IInv, LoopTest PROVE IInv'
<1>1. TypeOK' /\ Still /\ UNCHANGED <<manager, wasReady, process, state>>
  BY LoopTestType DEF IInv, LoopTest, Still, untouched, service, server, Up
<1>2. main.pc \in Calm /\ main'.pc \in {"stop", "list", "locked"}
  BY LoopTestMoves DEF LoopTest, At, Calm, BetweenPolls, IInv
<1>3. QED
  BY <1>1, <1>2, StillIInv

LEMMA LoopWaitIInv == ASSUME IInv, LoopWait PROVE IInv'
<1>1. TypeOK' /\ Still /\ UNCHANGED <<manager, wasReady, process, state>>
  BY LoopWaitType DEF IInv, LoopWait, Still, untouched, service, server, Up
<1>2. main.pc \in Calm /\ main'.pc \in {"waiting", "woken"}
  BY GotoType DEF LoopWait, At, Calm, BetweenPolls, IInv, MainPCs
<1>3. QED
  BY <1>1, <1>2, StillIInv

LEMMA StopIInv == ASSUME IInv, Stop PROVE IInv'
<1>1. TypeOK' /\ Still /\ UNCHANGED <<manager, wasReady, process>> /\ state' = "EXITING"
  BY StopType DEF IInv, Stop, Still, untouched, service, Up
<1>2. main'.pc \in {"unload", "stopped"} /\ (manager => main'.pc = "unload")
  <2>1. CASE manager
    BY <2>1, GotoType DEF Stop, IInv, MainPCs
  <2>2. CASE ~manager
    <3>1. main \in MainThreads
      BY DEF IInv, TypeOK
    <3>2. QED
      BY <2>2, <3>1 DEF Stop, MainThreads
  <2>3. QED
    BY <2>1, <2>2
<1>3. QED
  BY <1>1, <1>2, StillIInv DEF Calm, BetweenPolls

\* All versions were down when they were read.
LEMMA ReadLiveIInv == ASSUME IInv, ReadLive PROVE IInv'
<1>1. TypeOK' /\ Still /\ UNCHANGED <<manager, wasReady, process, state>>
  BY ReadLiveType DEF IInv, ReadLive, Still, untouched, service, server, Up
<1>2. main'.pc = "inflight" /\ (main'.clean => Live = {})
  <2>1. main \in MainThreads
    BY DEF IInv, TypeOK
  <2>2. QED
    BY <2>1 DEF ReadLive, MainThreads
<1>3. QED
  BY <1>1, <1>2, StillIInv DEF Calm, BetweenPolls

LEMMA ReadInflightIInv == ASSUME IInv, ReadInflight PROVE IInv'
<1>1. TypeOK' /\ Still /\ UNCHANGED <<manager, wasReady, process, state>>
  BY ReadInflightType DEF IInv, ReadInflight, Still, untouched, service, server, Up
<1>2. main'.pc \in {"stopped", "live"} /\ (main'.clean => main.clean) /\ main.pc = "inflight"
  BY ReadInflightMoves DEF IInv, ReadInflight, At
<1>3. main'.clean /\ manager => Live = {}
  BY <1>2 DEF IInv, StopInv
<1>4. QED
  BY <1>1, <1>2, <1>3, StillIInv DEF Calm, BetweenPolls

LEMMA ShutdownGrpcIInv == ASSUME IInv, ShutdownGrpc PROVE IInv'
<1>1. TypeOK' /\ Still /\ UNCHANGED <<manager, wasReady, process, state>>
  BY ShutdownGrpcType DEF IInv, ShutdownGrpc, Still, untouched, service, server, Up
<1>2. main.pc = "stopped" /\ main'.pc = "closing" /\ main'.clean = main.clean
  BY ShutdownGrpcMoves DEF IInv, ShutdownGrpc, At
<1>3. main'.clean /\ manager => Live = {}
  BY <1>2 DEF IInv, StopInv
<1>4. QED
  BY <1>1, <1>2, <1>3, StillIInv DEF Calm, BetweenPolls

LEMMA ExitIInv == ASSUME IInv, Exit PROVE IInv'
<1>1. TypeOK' /\ Still /\ UNCHANGED <<manager, wasReady, state>> /\ process' = "exited"
  BY ExitType DEF IInv, Exit, Still, untouched, service, server, Up
<1>2. main'.pc = "closing" /\ main' = main
  BY DEF Exit, At
<1>3. main'.clean /\ manager => Live = {}
  BY <1>2 DEF IInv, StopInv
<1>4. QED
  BY <1>1, <1>2, <1>3, StillIInv DEF Calm, BetweenPolls

(***************************************************************************)
(* Polls.                                                                  *)
(***************************************************************************)

\* A poll that fails with a manager leaves the models as they are served; one
\* that fails without any ends the life cycle it had begun.
LEMMA FailedIInv ==
    ASSUME IInv, TypeOK', Failed, UNCHANGED <<manager, status, disk, req, exiting, events, wasReady>>,
           Up, main.pc \in {"list", "config", "load", "update"},
           aborted' = TRUE \/ (main.pc \in {"list", "config"} /\ aborted' = aborted)
    PROVE  IInv'
<1>1. CASE manager
  <2>1. /\ main'.pc = "locked" /\ infos' = infos /\ state' = state
        /\ process' = process /\ asked' = asked /\ phase' = phase /\ uses' = uses
    BY <1>1 DEF Failed
  <2>2. UsesInv'
    BY <2>1 DEF IInv, UsesInv
  <2>3. StopInv' /\ ReadyInv' /\ StatusInv' /\ ReadingInv' /\ UpdatingInv'
    BY <2>1 DEF IInv, StopInv, ReadyInv, StatusInv, ReadingInv, UpdatingInv
  <2>4. TimeInv'
    BY <2>1 DEF IInv, TimeInv, Fresh
  <2>5. SettledInv'
    <3>1. ASSUME NEW m \in Models PROVE Settled(m)' <=> Settled(m)
      BY <2>1 DEF Settled, InSync
    <3>2. QED
      BY <3>1 DEF IInv, SettledInv, BetweenPolls
  <2>6. QED
    BY <2>2, <2>3, <2>4, <2>5 DEF IInv
<1>2. CASE ~manager
  <2>1. /\ infos' = [m \in Models |-> None] /\ state' = "FAILED" /\ uses' = uses
        /\ asked' = [k \in Keys |-> [to |-> "none", config |-> None]]
        /\ \/ main'.pc = "test" /\ process' = process
           \/ main' = main /\ process' \in {"exited", "crashed"}
    BY <1>2 DEF Failed
  <2>2. UsesInv'
    BY <1>2, <2>1 DEF IInv, UsesInv
  <2>3. StopInv' /\ ReadyInv'
    BY <1>2, <2>1 DEF IInv, StopInv, ReadyInv
  <2>4. StatusInv'
    BY <2>1 DEF IInv, StatusInv
  <2>5. TimeInv'
    BY <2>1 DEF IInv, TimeInv
  <2>6. SettledInv'
    <3>1. ASSUME NEW m \in Models PROVE Settled(m)'
      BY <2>1 DEF Settled, Keys
    <3>2. QED
      BY <3>1 DEF SettledInv
  <2>7. ReadingInv' /\ UpdatingInv'
    BY <2>1 DEF ReadingInv, UpdatingInv, Up
  <2>8. QED
    BY <2>2, <2>3, <2>4, <2>5, <2>6, <2>7 DEF IInv
<1>3. QED
  BY <1>1, <1>2

LEMMA ListRepositoryIInv == ASSUME IInv, ListRepository PROVE IInv'
<1>1. TypeOK'
  BY ListRepositoryType DEF IInv
<1>2. main.pc = "list" /\ Up /\ UNCHANGED <<manager, status, disk, req, exiting, events, wasReady>>
  BY DEF ListRepository, At, untouched
<1>3. CASE Failed /\ UNCHANGED aborted
  BY <1>1, <1>2, <1>3, FailedIInv
<1>4. CASE /\ main'.pc = "child" /\ poll'.new = NoPoll.new /\ poll'.kind = NoPoll.kind
           /\ UNCHANGED <<infos, state, process, service, aborted>>
  <2>1. Still
    BY <1>2, <1>4 DEF Still, service, Up
  <2>2. StopInv' /\ ReadyInv' /\ UpdatingInv'
    BY <1>2, <1>4 DEF IInv, StopInv, ReadyInv, UpdatingInv
  <2>3. StatusInv'
    BY <1>4, <2>1, StillKeeps DEF StatusInv
  <2>4. SettledInv'
    BY <1>2, <2>1, StillSettled DEF IInv, SettledInv, BetweenPolls, Still
  <2>5. ReadingInv'
    <3>1. \A m \in Models : poll'.new[m] = None /\ poll'.kind[m] = "none"
      BY <1>4 DEF NoPoll
    <3>2. QED
      BY <1>4, <3>1 DEF ReadingInv
  <2>6. QED
    BY <1>1, <1>2, <2>1, <2>2, <2>3, <2>4, <2>5, StillKeeps DEF IInv
<1>5. QED
  BY <1>3, <1>4, ListRepositoryReads DEF IInv

LEMMA PollChildIInv == ASSUME IInv, PollChild PROVE IInv'
<1>1. TypeOK' /\ Still /\ UNCHANGED <<manager, wasReady, process, state>>
  BY PollChildType DEF IInv, PollChild, Still, untouched, service, server, Up
<1>2. PICK m \in Models, info \in Infos \cup {None}, kind \in PollKinds :
        /\ m \in poll.todo
        /\ poll' = [todo |-> poll.todo \ {m}, kind |-> [poll.kind EXCEPT ![m] = kind],
                    new |-> [poll.new EXCEPT ![m] = info]]
        /\ \/ /\ kind = "unmodified" /\ info = infos[m] /\ info # None /\ main' = main
           \/ /\ kind \in {"added", "modified"} /\ info = [mtime |-> disk[m].stamp, config |-> None]
              /\ info \in Infos
              /\ main' = [main EXCEPT !.pc = "config", !.model = m]
  BY PollChildReads DEF IInv
<1>3. main.pc = "child" /\ Up /\ main \in MainThreads /\ poll \in Polls
  BY DEF PollChild, At, IInv, TypeOK
<1>4. \/ main' = main
      \/ main'.pc = "config" /\ main'.model = m /\ info \in Infos
  BY <1>2, <1>3 DEF MainThreads
<1>5. main'.pc \in {"child", "config"}
  BY <1>3, <1>4
<1>6. StopInv' /\ ReadyInv' /\ UpdatingInv'
  BY <1>1, <1>5 DEF IInv, StopInv, ReadyInv, UpdatingInv
<1>7. StatusInv'
  BY <1>3, <1>4, <1>1, StillKeeps DEF StatusInv
<1>8. SettledInv'
  BY <1>1, <1>3, StillSettled DEF IInv, SettledInv, Still
<1>9. ReadingInv'
  <2>1. \A n \in Models : /\ poll'.kind[n] = IF n = m THEN kind ELSE poll.kind[n]
                          /\ poll'.new[n] = IF n = m THEN info ELSE poll.new[n]
    BY <1>2, <1>3 DEF Polls
  <2>2. \A n \in Models :
           /\ poll.kind[n] # "deleted"
           /\ poll.kind[n] = "none" <=> poll.new[n] = None
           /\ poll.kind[n] = "unmodified" => poll.new[n] = infos[n]
           /\ poll.new[n] # None => poll.new[n].mtime <= events + 1 /\ Fresh(n, poll.new[n])
    BY <1>3 DEF IInv, ReadingInv
  <2>3. infos' = infos /\ events' = events /\ disk' = disk
    BY <1>1 DEF Still
  <2>4. ASSUME NEW n \in Models, n # m
        PROVE  /\ poll'.kind[n] # "deleted"
               /\ poll'.kind[n] = "none" <=> poll'.new[n] = None
               /\ poll'.kind[n] = "unmodified" => poll'.new[n] = infos'[n]
               /\ poll'.new[n] # None => poll'.new[n].mtime <= events' + 1 /\ Fresh(n, poll.new[n])'
               /\ ~(main'.pc = "config" /\ main'.model = n)
    <3>1. poll'.new[n] # None => poll'.new[n].mtime <= events' + 1 /\ Fresh(n, poll.new[n])'
      BY <2>1, <2>2, <2>3, <2>4 DEF Fresh
    <3>2. ~(main'.pc = "config" /\ main'.model = n)
      BY <1>3, <1>4, <2>4
    <3>3. QED
      BY <2>1, <2>2, <2>3, <2>4, <3>1, <3>2
  <2>5. CASE kind = "unmodified" /\ info = infos[m] /\ info # None /\ main' = main
    <3>1. info.mtime <= events' + 1 /\ Fresh(m, poll.new[m])'
      BY <2>1, <2>3, <2>5 DEF IInv, TimeInv, Fresh
    <3>2. QED
      BY <1>3, <2>1, <2>3, <2>4, <2>5, <3>1 DEF ReadingInv
  <2>6. CASE /\ kind \in {"added", "modified"} /\ info = [mtime |-> disk[m].stamp, config |-> None]
             /\ info \in Infos /\ main'.pc = "config" /\ main'.model = m
    <3>1. info # None /\ info.mtime <= events' + 1
      BY <2>3, <2>6, NoneAssumption DEF IInv, TimeInv
    <3>2. QED
      BY <2>1, <2>3, <2>4, <2>6, <3>1 DEF ReadingInv
  <2>7. QED
    BY <1>2, <1>4, <2>5, <2>6, <1>3 DEF MainThreads
<1>10. QED
  BY <1>1, <1>6, <1>7, <1>8, <1>9, StillKeeps DEF IInv

LEMMA PollConfigIInv == ASSUME IInv, PollConfig PROVE IInv'
<1>1. TypeOK'
  BY PollConfigType DEF IInv
<1>2. main.pc = "config" /\ Up /\ UNCHANGED <<manager, status, disk, req, exiting, events, wasReady>>
  BY DEF PollConfig, At, untouched
<1>3. CASE Failed /\ UNCHANGED aborted
  BY <1>1, <1>2, <1>3, FailedIInv
<1>4. CASE /\ main'.pc = "child" /\ main' \in MainThreads /\ main'.clean = main.clean
           /\ disk[main.model] # Gone /\ disk[main.model].stamp \in Stamps
           /\ main.model \in Models /\ poll.new[main.model] \in Infos
           /\ poll' \in Polls /\ poll'.kind = poll.kind
           /\ poll'.new = [poll.new EXCEPT ![main.model] =
                             [mtime |-> poll.new[main.model].mtime, config |-> disk[main.model].stamp]]
           /\ UNCHANGED <<infos, state, process, service, aborted>>
  <2>1. Still
    BY <1>2, <1>4 DEF Still, service, Up
  <2>2. StopInv' /\ ReadyInv' /\ UpdatingInv'
    BY <1>2, <1>4 DEF IInv, StopInv, ReadyInv, UpdatingInv
  <2>3. StatusInv'
    BY <1>4, <2>1, StillKeeps DEF StatusInv
  <2>4. SettledInv'
    BY <1>2, <2>1, StillSettled DEF IInv, SettledInv, Still
  <2>5. ReadingInv'
    <3>1. PICK m : m = main.model
      OBVIOUS
    <3>2. PICK info : info = [mtime |-> poll.new[m].mtime, config |-> disk[m].stamp]
      OBVIOUS
    <3>3. \A n \in Models : poll'.new[n] = IF n = m THEN info ELSE poll.new[n]
      BY <1>4, <3>1, <3>2 DEF IInv, TypeOK, Polls
    <3>4. \A n \in Models :
             /\ poll.kind[n] # "deleted"
             /\ poll.kind[n] = "none" <=> poll.new[n] = None
             /\ poll.kind[n] = "unmodified" => poll.new[n] = infos[n]
             /\ poll.new[n] # None => poll.new[n].mtime <= events + 1
             /\ n # m /\ poll.new[n] # None => Fresh(n, poll.new[n])
      BY <1>2, <3>1 DEF IInv, ReadingInv
    <3>5. infos' = infos /\ events' = events /\ disk' = disk
      BY <2>1 DEF Still
    <3>6. poll.kind[m] \in {"added", "modified"} /\ m \in Models
      BY <1>2, <1>4, <3>1 DEF IInv, ReadingInv
    <3>7. info \in Infos /\ info.mtime = poll.new[m].mtime /\ info.config = disk[m].stamp
      BY <1>4, <3>1, <3>2 DEF Infos
    <3>8. info # None /\ info.mtime <= events + 1
      BY <1>4, <3>1, <3>4, <3>7, NoneAssumption
    <3>9. \A n \in Models : poll'.new[n] # None => Fresh(n, poll.new[n])'
      BY <3>3, <3>4, <3>5, <3>7 DEF Fresh
    <3>10. QED
      BY <1>4, <3>3, <3>4, <3>5, <3>6, <3>8, <3>9 DEF ReadingInv
  <2>6. QED
    BY <1>1, <1>2, <2>1, <2>2, <2>3, <2>4, <2>5, StillKeeps DEF IInv
<1>5. QED
  BY <1>3, <1>4, PollConfigReads DEF IInv

\* infos_ is replaced: what is deleted is known, what is the same is served.
LEMMA PollEndIInv == ASSUME IInv, PollEnd PROVE IInv'
<1>1. TypeOK'
  BY PollEndType DEF IInv
<1>2. /\ UNCHANGED <<disk, asked, phase, uses, req, status, events, aborted, manager, state, process, wasReady>>
      /\ infos' = poll.new /\ main.pc = "child" /\ Up
  BY DEF PollEnd, At, untouched, server, service
<1>3. main'.pc = "update"
  BY GotoType DEF PollEnd, IInv, MainPCs
<1>4. \A m \in Models : poll'.kind[m] = IF infos[m] # None /\ poll.new[m] = None THEN "deleted" ELSE poll.kind[m]
  <2>1. poll \in Polls
    BY DEF IInv, TypeOK
  <2>2. QED
    BY <2>1 DEF PollEnd, Polls
<1>5. \A m \in Models :
         /\ poll.kind[m] # "deleted"
         /\ poll.kind[m] = "none" <=> poll.new[m] = None
         /\ poll.kind[m] = "unmodified" => poll.new[m] = infos[m]
         /\ poll.new[m] # None => poll.new[m].mtime <= events + 1 /\ Fresh(m, poll.new[m])
  BY <1>2 DEF IInv, ReadingInv
<1>6. UsesInv' /\ StopInv' /\ ReadyInv' /\ StatusInv' /\ SettledInv' /\ ReadingInv'
  BY <1>2, <1>3 DEF IInv, UsesInv, StopInv, ReadyInv, StatusInv, SettledInv, BetweenPolls, ReadingInv
<1>7. TimeInv'
  BY <1>2, <1>5 DEF IInv, TimeInv, Fresh
<1>8. UpdatingInv'
  <2>1. ASSUME NEW m \in Models, poll'.kind[m] \in {"none", "unmodified"}, ~aborted PROVE Settled(m)'
    <3>1. Settled(m)
      BY <1>2, <2>1 DEF IInv, SettledInv
    <3>2. infos'[m] = infos[m]
      BY <1>2, <1>4, <1>5, <2>1
    <3>3. QED
      BY <1>2, <3>1, <3>2 DEF Settled, InSync
  <2>2. ASSUME NEW m \in Models
        PROVE  /\ poll'.kind[m] \in {"added", "modified"} => infos'[m] # None
               /\ poll'.kind[m] = "deleted" => infos'[m] = None
    BY <1>2, <1>4, <1>5
  <2>3. QED
    BY <1>2, <1>3, <2>1, <2>2 DEF UpdatingInv
<1>9. QED
  BY <1>1, <1>6, <1>7, <1>8 DEF IInv

\* Models that are given their status, or have it, are loaded next.
LEMMA LoadNext ==
    ASSUME IInv, TypeOK', NEW m \in Models, main' = [main EXCEPT !.pc = "load", !.model = m],
           UNCHANGED <<disk, infos, asked, phase, uses, req, events, aborted, manager, state, process, wasReady, poll>>,
           status' = status \/ status' = [status EXCEPT ![m] = {}], status'[m] # None,
           main.pc = "update", Up, poll.kind[m] \in {"added", "modified"}
    PROVE  IInv'
<1>1. main'.pc = "load" /\ main'.model = m
  BY DEF IInv, TypeOK, MainThreads
<1>2. \A n \in Models : status[n] # None => status'[n] # None
  BY DEF IInv, TypeOK
<1>3. \A k \in Keys : k[1] \in Models
  BY DEF Keys
<1>4. UsesInv' /\ StopInv' /\ ReadyInv' /\ SettledInv' /\ ReadingInv'
  BY <1>1 DEF IInv, UsesInv, StopInv, ReadyInv, SettledInv, BetweenPolls, ReadingInv
<1>5. StatusInv'
  BY <1>1, <1>2, <1>3 DEF IInv, StatusInv
<1>6. TimeInv'
  BY DEF IInv, TimeInv, Fresh
<1>7. UpdatingInv'
  <2>1. ASSUME NEW n \in Models PROVE Settled(n)' <=> Settled(n)
    BY DEF Settled, InSync
  <2>2. QED
    BY <1>1, <2>1 DEF IInv, UpdatingInv
<1>8. QED
  BY <1>4, <1>5, <1>6, <1>7 DEF IInv

LEMMA InitForModelIInv ==
    ASSUME IInv, NEW m \in Models, InitForModel(m) PROVE IInv'
<1>1. TypeOK'
  BY InitForModelType DEF IInv
<1>2. poll.kind[m] = "added"
  BY FirstOfKind DEF InitForModel
<1>3. status' = [status EXCEPT ![m] = {}] /\ status'[m] # None
  BY NoneAssumption DEF InitForModel, IInv, TypeOK
<1>4. /\ main' = [main EXCEPT !.pc = "load", !.model = m] /\ main.pc = "update" /\ Up
      /\ UNCHANGED <<disk, infos, asked, phase, uses, req, events, aborted, manager, state, process, wasReady, poll>>
  BY DEF InitForModel, At, untouched, service
<1>5. QED
  BY <1>1, <1>2, <1>3, <1>4, LoadNext

LEMMA UpdateConfigForModelIInv ==
    ASSUME IInv, NEW m \in Models, UpdateConfigForModel(m) PROVE IInv'
<1>1. TypeOK'
  BY UpdateConfigForModelType DEF IInv
<1>2. poll.kind[m] = "modified" /\ main.pc = "update" /\ Up
  BY FirstOfKind DEF UpdateConfigForModel, At
<1>3. CASE status[m] # None
  <2>1. /\ main' = [main EXCEPT !.pc = "load", !.model = m] /\ status' = status
        /\ UNCHANGED <<disk, infos, asked, phase, uses, req, events, aborted, manager, state, process, wasReady, poll>>
    BY <1>3 DEF UpdateConfigForModel, untouched, service
  <2>2. QED
    BY <1>1, <1>2, <1>3, <2>1, LoadNext
<1>4. CASE status[m] = None
  <2>1. Failed /\ aborted' = TRUE /\ UNCHANGED <<manager, status, disk, req, exiting, events, wasReady>>
    BY <1>4, PollFailsFailed DEF UpdateConfigForModel, untouched, IInv
  <2>2. QED
    BY <1>1, <1>2, <2>1, FailedIInv
<1>5. QED
  BY <1>3, <1>4

(***************************************************************************)
(* What AsyncLoad preserves.                                               *)
(***************************************************************************)

LEMMA OrderedKeeps ==
    ASSUME IInv, NEW m \in Models, NEW vs, NEW c, Ordered(m, vs, c), vs # {} => status[m] # None,
           UNCHANGED <<disk, infos, req, status, events, manager>>
    PROVE  /\ UsesInv' /\ TimeInv'
           /\ \A k \in Keys : asked'[k].to = "load" => status'[k[1]] # None
           /\ \A n \in Models : n # m => (Settled(n)' <=> Settled(n))
<1>1. UsesInv'
  <2>1. uses' = uses /\ \A k \in Keys : phase[k] \in {"serving", "draining"} => phase'[k] \in {"serving", "draining"}
    BY DEF Ordered
  <2>2. ASSUME NEW r \in Requests, uses[r] # None PROVE uses[r].key \in Keys
    BY <2>2 DEF IInv, TypeOK, ServiceTypeOK, Uses
  <2>3. QED
    BY <2>1, <2>2 DEF IInv, UsesInv
<1>2. TimeInv'
  BY DEF IInv, TimeInv, Fresh
<1>3. ASSUME NEW k \in Keys, asked'[k].to = "load" PROVE status'[k[1]] # None
  <2>1. CASE k[1] # m
    BY <1>3, <2>1 DEF Ordered, IInv, StatusInv
  <2>2. CASE k[1] = m
    <3>1. k[2] \in Versions /\ k = <<m, k[2]>>
      BY <2>2 DEF Keys
    <3>2. k[2] \in vs
      BY <1>3, <3>1 DEF Ordered
    <3>3. QED
      BY <2>2, <3>2
  <2>3. QED
    BY <2>1, <2>2
<1>4. ASSUME NEW n \in Models, n # m PROVE Settled(n)' <=> Settled(n)
  <2>1. \A v \in Versions : asked'[<<n, v>>] = asked[<<n, v>>]
    BY <1>4 DEF Ordered, Keys
  <2>2. QED
    BY <2>1 DEF Settled, InSync
<1>5. QED
  BY <1>1, <1>2, <1>3, <1>4

\* The model is loaded as it was read; what changed since has a later stamp.
LEMMA LoadModelIInv == ASSUME IInv, LoadModel PROVE IInv'
<1>1. TypeOK'
  BY LoadModelType DEF IInv
<1>2. main.pc = "load" /\ Up /\ UNCHANGED <<manager, status, disk, req, exiting, events, wasReady>>
  BY DEF LoadModel, At, untouched
<1>3. CASE Failed /\ aborted' = TRUE
  BY <1>1, <1>2, <1>3, FailedIInv
<1>4. ASSUME NEW m \in Models, m = main.model, infos[m] \in Infos, disk[m] # Gone,
             Ordered(m, disk[m].versions, infos[m].config),
             poll' \in Polls, poll'.kind = [poll.kind EXCEPT ![m] = "none"],
             main'.pc = "update", UNCHANGED <<infos, state, process, aborted>>
      PROVE  IInv'
  <2>1. /\ UsesInv' /\ TimeInv'
        /\ \A k \in Keys : asked'[k].to = "load" => status'[k[1]] # None
        /\ \A n \in Models : n # m => (Settled(n)' <=> Settled(n))
    <3>1. status[m] # None
      BY <1>2, <1>4 DEF IInv, StatusInv
    <3>2. QED
      BY <1>2, <1>4, <3>1, OrderedKeeps
  <2>2. StopInv' /\ ReadyInv' /\ SettledInv' /\ ReadingInv'
    BY <1>2, <1>4 DEF IInv, StopInv, ReadyInv, SettledInv, BetweenPolls, ReadingInv
  <2>3. StatusInv'
    BY <1>4, <2>1 DEF StatusInv
  <2>4. Settled(m)'
    <3>1. infos[m] # None /\ (disk[m].stamp <= infos[m].mtime => infos[m].config = disk[m].stamp)
      BY <1>4, NoneAssumption DEF IInv, TimeInv, Fresh
    <3>2. disk[m].stamp <= infos[m].mtime => InSync(m)'
      BY <1>2, <1>4, <3>1 DEF InSync, Ordered
    <3>3. QED
      BY <1>2, <1>4, <3>1, <3>2 DEF Settled
  <2>5. UpdatingInv'
    <3>1. \A n \in Models : poll'.kind[n] = IF n = m THEN "none" ELSE poll.kind[n]
      BY <1>4 DEF IInv, TypeOK, Polls
    <3>2. QED
      BY <1>2, <1>4, <2>1, <2>4, <3>1 DEF IInv, UpdatingInv
  <2>6. QED
    BY <1>1, <2>1, <2>2, <2>3, <2>5 DEF IInv
<1>5. QED
  BY <1>3, <1>4, LoadModelOrders DEF IInv

LEMMA UnloadDeletedIInv ==
    ASSUME IInv, NEW m \in Models, UnloadDeleted(m) PROVE IInv'
<1>1. TypeOK'
  BY UnloadDeletedType DEF IInv
<1>2. /\ poll.kind[m] = "deleted" /\ Ordered(m, {}, None)
      /\ poll'.kind = [poll.kind EXCEPT ![m] = "none"]
  BY UnloadDeletedOrders DEF IInv
<1>3. /\ main.pc = "update" /\ Up
      /\ UNCHANGED <<main, infos, manager, state, status, process, aborted, disk, req, events, wasReady>>
  BY DEF UnloadDeleted, At, untouched, server
<1>4. /\ UsesInv' /\ TimeInv'
      /\ \A k \in Keys : asked'[k].to = "load" => status'[k[1]] # None
      /\ \A n \in Models : n # m => (Settled(n)' <=> Settled(n))
  BY <1>2, <1>3, OrderedKeeps
<1>5. StopInv' /\ ReadyInv' /\ SettledInv' /\ ReadingInv'
  BY <1>3 DEF IInv, StopInv, ReadyInv, SettledInv, BetweenPolls, ReadingInv
<1>6. StatusInv'
  BY <1>3, <1>4 DEF StatusInv
<1>7. infos[m] = None
  BY <1>2, <1>3 DEF IInv, UpdatingInv
<1>8. Settled(m)'
  BY <1>2, <1>3, <1>7 DEF Settled, Ordered
<1>9. UpdatingInv'
  <2>1. \A n \in Models : poll'.kind[n] = IF n = m THEN "none" ELSE poll.kind[n]
    BY <1>2 DEF IInv, TypeOK, Polls
  <2>2. QED
    BY <1>3, <1>4, <1>8, <2>1 DEF IInv, UpdatingInv
<1>10. QED
  BY <1>1, <1>4, <1>5, <1>6, <1>9 DEF IInv

LEMMA UnloadAllModelsIInv == ASSUME IInv, UnloadAllModels PROVE IInv'
<1>1. TypeOK'
  BY UnloadAllModelsType DEF IInv
<1>2. CASE poll.todo = {}
  <2>1. Still /\ UNCHANGED <<manager, wasReady, process, state>>
    BY <1>2 DEF UnloadAllModels, Still, untouched, service, server, Up
  <2>2. main'.pc = "live"
    BY <1>2, GotoType DEF UnloadAllModels, IInv, MainPCs
  <2>3. QED
    BY <1>1, <2>1, <2>2, StillIInv DEF Calm, BetweenPolls
<1>3. CASE poll.todo # {}
  <2>1. PICK m : m = First(poll.todo)
    OBVIOUS
  <2>2. m \in Models
    BY <1>3, <2>1, FirstIn DEF IInv, TypeOK, Polls
  <2>3. /\ main.pc = "unload" /\ Asked(m, {}, None)
        /\ UNCHANGED <<main, infos, manager, state, status, process, aborted, disk, req, events, wasReady>>
    BY <1>3, <2>1 DEF UnloadAllModels, At, untouched, server
  <2>4. Ordered(m, {}, None)
    BY <2>2, <2>3, AskedOrders DEF IInv, TypeOK
  <2>5. UsesInv' /\ TimeInv' /\ \A k \in Keys : asked'[k].to = "load" => status'[k[1]] # None
    BY <2>2, <2>3, <2>4, OrderedKeeps
  <2>6. StopInv' /\ ReadyInv' /\ SettledInv' /\ ReadingInv' /\ UpdatingInv'
    BY <2>3 DEF IInv, StopInv, ReadyInv, SettledInv, BetweenPolls, ReadingInv, UpdatingInv
  <2>7. StatusInv'
    BY <2>3, <2>5 DEF StatusInv
  <2>8. QED
    BY <1>1, <2>5, <2>6, <2>7 DEF IInv
<1>4. QED
  BY <1>2, <1>3

\* The models of a poll that is done are served as they were read.
LEMMA EndUpdateIInv == ASSUME IInv, EndUpdate PROVE IInv'
<1>1. TypeOK'
  BY EndUpdateType DEF IInv
<1>2. /\ main.pc = "update" /\ Up /\ manager' = TRUE
      /\ UNCHANGED <<infos, state, status, asked, phase, uses, process, disk, req, events, aborted>>
  BY DEF EndUpdate, At, service, untouched
<1>3. main'.pc \in {"locked", "made"}
  BY EndUpdateMoves DEF IInv
<1>4. UsesInv' /\ StopInv' /\ ReadingInv' /\ UpdatingInv'
  BY <1>2, <1>3 DEF IInv, UsesInv, StopInv, ReadingInv, UpdatingInv
<1>5. ReadyInv'
  BY <1>2 DEF ReadyInv, Up
<1>6. StatusInv'
  BY <1>2, <1>3 DEF IInv, StatusInv
<1>7. TimeInv'
  BY <1>2 DEF IInv, TimeInv, Fresh
<1>8. SettledInv'
  <2>1. ASSUME NEW m \in Models PROVE poll.kind[m] \in {"none", "unmodified"}
    <3>1. poll.kind[m] \in PollKinds
      BY DEF IInv, TypeOK, Polls
    <3>2. QED
      BY <3>1 DEF EndUpdate, Kind, PollKinds
  <2>2. ASSUME NEW m \in Models, ~aborted PROVE Settled(m)'
    <3>1. Settled(m)
      BY <1>2, <2>1, <2>2 DEF IInv, UpdatingInv
    <3>2. QED
      BY <1>2, <3>1 DEF Settled, InSync
  <2>3. QED
    BY <1>2, <2>2 DEF SettledInv
<1>9. QED
  BY <1>1, <1>4, <1>5, <1>6, <1>7, <1>8 DEF IInv

(***************************************************************************)
(* The theorems.                                                           *)
(***************************************************************************)

LEMMA InitIInv == Init => IInv
<1> SUFFICES ASSUME Init PROVE IInv
  OBVIOUS
<1>1. /\ main.pc = "init" /\ infos = [m \in Models |-> None] /\ ~manager /\ state = "INVALID"
      /\ process = "up" /\ ~wasReady /\ events = 0
      /\ asked = [k \in Keys |-> [to |-> "none", config |-> None]]
      /\ uses = [r \in Requests |-> None] /\ req = [r \in Requests |-> NoRequest]
  BY DEF Init, LifeCycle!Init
<1>2. UsesInv
  BY <1>1 DEF UsesInv, NoRequest
<1>3. StopInv /\ ReadyInv /\ StatusInv /\ ReadingInv /\ UpdatingInv
  BY <1>1 DEF StopInv, ReadyInv, StatusInv, ReadingInv, UpdatingInv
<1>4. TimeInv
  BY <1>1 DEF TimeInv, Init, Gone
<1>5. SettledInv
  <2>1. ASSUME NEW m \in Models PROVE Settled(m)
    BY <1>1 DEF Settled, Keys
  <2>2. QED
    BY <2>1 DEF SettledInv
<1>6. QED
  BY <1>2, <1>3, <1>4, <1>5, InitType DEF IInv

\* A step of a request, or of a version, preserves the invariant.
LEMMA StepsIInv == ASSUME IInv, Steps PROVE IInv'
BY AsideIInv DEF Steps

LEMMA InferSteps == ASSUME IInv, NEW r \in Requests, Infer(r) PROVE Steps
<1>1. TypeOK /\ UsesInv
  BY DEF IInv
<1>2. QED
  BY <1>1, LookupSteps, AdmitSteps, CountSteps, AnswerSteps, UncountSteps, GiveUpSteps, RecordSteps
  DEF Infer

LEMMA MainStepIInv == ASSUME IInv, MainStep PROVE IInv'
<1>1. ASSUME NEW m \in Models, InitForModel(m) \/ UpdateConfigForModel(m) \/ UnloadDeleted(m) PROVE IInv'
  BY <1>1, InitForModelIInv, UpdateConfigForModelIInv, UnloadDeletedIInv
<1>2. CASE \/ InitServer \/ ListRepository \/ PollChild \/ PollConfig \/ PollEnd
           \/ LoadModel \/ EndUpdate \/ InitEnds
  BY <1>2, InitServerIInv, ListRepositoryIInv, PollChildIInv, PollConfigIInv, PollEndIInv,
     LoadModelIInv, EndUpdateIInv, InitEndsIInv
<1>3. CASE \/ LoopTest \/ LoopWait \/ Stop \/ UnloadAllModels \/ ReadLive \/ ReadInflight
           \/ ShutdownGrpc \/ Exit
  BY <1>3, LoopTestIInv, LoopWaitIInv, StopIInv, UnloadAllModelsIInv, ReadLiveIInv, ReadInflightIInv,
     ShutdownGrpcIInv, ExitIInv
<1>4. QED
  BY <1>1, <1>2, <1>3 DEF MainStep

LEMMA UnchangedIInv == ASSUME IInv, UNCHANGED vars PROVE IInv'
<1>1. TypeOK'
  BY DEF IInv, TypeOK, ServiceTypeOK, vars, server, service
<1>2. Still /\ UNCHANGED <<manager, wasReady, process, state, main, poll>>
  BY DEF Still, vars, server, service, Up
<1>3. StopInv' /\ ReadyInv' /\ StatusInv'
  BY <1>2, StillKeeps DEF IInv, StopInv, Live, ReadyInv, StatusInv, Still
<1>4. SettledInv' /\ UpdatingInv'
  BY <1>2, StillSettled DEF IInv, SettledInv, UpdatingInv, Still
<1>5. ReadingInv'
  BY <1>2 DEF IInv, ReadingInv, Still, Fresh
<1>6. QED
  BY <1>1, <1>2, <1>3, <1>4, <1>5, StillKeeps DEF IInv

LEMMA NextIInv == IInv /\ [Next]_vars => IInv'
<1> SUFFICES ASSUME IInv, [Next]_vars PROVE IInv'
  OBVIOUS
<1>1. CASE MainStep
  BY <1>1, MainStepIInv
<1>2. CASE Signal
  BY <1>2, SignalIInv
<1>3. CASE HandleStatus
  BY <1>3, HandleStatusSteps, StepsIInv DEF IInv
<1>4. CASE Ended
  BY <1>4, UnchangedIInv DEF Ended
<1>5. ASSUME NEW m \in Models, ChangeDisk(m) PROVE IInv'
  BY <1>5, ChangeDiskIInv
<1>6. ASSUME NEW r \in Requests, NEW k \in Keys, Begin(r, k) PROVE IInv'
  BY <1>6, BeginSteps, StepsIInv DEF IInv
<1>7. ASSUME NEW r \in Requests, Call(r) \/ Infer(r) PROVE IInv'
  BY <1>7, CallSteps, InferSteps, StepsIInv DEF IInv
<1>8. ASSUME NEW k \in Keys, Serving(k) PROVE IInv'
  BY <1>8, ServingSteps, StepsIInv DEF IInv
<1>9. CASE UNCHANGED vars
  BY <1>9, UnchangedIInv
<1>10. QED
  BY <1>1, <1>2, <1>3, <1>4, <1>5, <1>6, <1>7, <1>8, <1>9 DEF Next

\* The invariant that the theorems below are drawn from is kept by every step
\* of the main thread, of a request, of a version, and of whoever edits the
\* repository.
THEOREM Invariance == Spec => []IInv
BY InitIInv, NextIInv, PTL DEF Spec

\* The server's members keep the values they were declared to take.
THEOREM TypeCorrect == Spec => []TypeOK
<1>1. IInv => TypeOK
  BY DEF IInv
<1>2. QED
  BY <1>1, Invariance, PTL

\* A Stop() that returned true has left no request that executes or holds a
\* backend, though requests pass the readiness test before it and are counted
\* after it.
THEOREM StopIsClean == Spec => []CleanStop
<1>1. IInv => CleanStop
  <2> SUFFICES ASSUME IInv, main.pc \in {"stopped", "closing"}, main.clean, manager, NEW r \in Requests
               PROVE  req[r].pc \in {"idle", "begun"} \/ (req[r].pc = "answered" /\ uses[r] = None)
    BY DEF CleanStop
  <2>1. \A k \in Keys : phase[k] = "down"
    BY DEF IInv, StopInv, Live
  <2>2. uses[r] = None
    <3>1. uses[r] # None => uses[r].key \in Keys
      BY DEF IInv, TypeOK, ServiceTypeOK, Uses
    <3>2. QED
      BY <2>1, <3>1 DEF IInv, UsesInv
  <2>3. req[r].pc \in RequestPCs
    BY DEF IInv, TypeOK, Inferences
  <2>4. QED
    BY <2>2, <2>3 DEF IInv, UsesInv, RequestPCs
<1>2. QED
  BY <1>1, Invariance, PTL

\* Nobody who waited for SERVER_READY meets a manager that is not there.
THEOREM NoCrashOnceReady == Spec => []SafeOnceReady
<1>1. IInv => SafeOnceReady
  BY DEF IInv, ReadyInv, SafeOnceReady
<1>2. QED
  BY <1>1, Invariance, PTL

\* Readiness is told only while every version to be loaded is served.
THEOREM ReadyIsServing == Spec => []ReadyMeansServing
<1>1. IInv => ReadyMeansServing
  <2> SUFFICES ASSUME IInv, ReportsReady, NEW k \in Keys, asked[k].to = "load" PROVE phase[k] = "serving"
    BY DEF ReadyMeansServing
  <2>1. PICK m \in Models, v \in Versions : k = <<m, v>>
    BY DEF Keys
  <2>2. status[m] # None
    BY <2>1 DEF IInv, StatusInv
  <2>3. v \in Known(m)
    BY <2>1 DEF Known
  <2>4. Available(m, v)
    BY <2>2, <2>3 DEF ReportsReady
  <2>5. QED
    BY <2>1, <2>4 DEF Available
<1>2. QED
  BY <1>1, Invariance, PTL

\* While no poll gave up half-way, whatever the repository holds is served, or
\* the next poll will see that it is not.
THEOREM ChangesNoticed == Spec => []NothingOverlooked
<1>1. IInv => NothingOverlooked
  <2> SUFFICES ASSUME IInv, ~aborted, main.pc \in BetweenPolls, NEW m \in Models
               PROVE  InSync(m) \/ Noticeable(m)
    BY DEF NothingOverlooked
  <2>1. Settled(m)
    BY DEF IInv, SettledInv
  <2>2. CASE infos[m] = None
    BY <2>1, <2>2 DEF Settled, InSync, Noticeable, Gone
  <2>3. CASE infos[m] # None
    <3>1. infos[m].mtime \in Nat /\ disk[m].stamp \in Nat
      BY <2>3 DEF IInv, TypeOK, Infos, Stamps, Directories, Gone
    <3>2. QED
      BY <2>1, <2>3, <3>1 DEF Settled, Noticeable
  <2>4. QED
    BY <2>2, <2>3
<1>2. QED
  BY <1>1, Invariance, PTL
=============================================================================
