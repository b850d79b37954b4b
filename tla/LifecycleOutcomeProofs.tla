----------------------- MODULE LifecycleOutcomeProofs -----------------------
(***************************************************************************)
(* What the scripts of Lifecycle have achieved and recorded when they say  *)
(* so: the invariants that follow create and destroy through their loops,  *)
(* and the theorems about "created", about what destroy leaves and about   *)
(* what it reports.                                                        *)
(***************************************************************************)
EXTENDS LifecycleProofs

AfterInit  == {"clone", "clone_rec"} \cup AfterClone
AfterFlush == {"d_vnet", "d_vnet_rec", "d_zone", "d_zone_rec", "d_apply", "d_done"}

HasDocument == state \notin {Absent, Torn}

(* From its init on create works on its own document, which is no longer   *)
(* "created"; from its first record on destroy has none of its run that is,*)
(* and lacks one only if topology.json is not its run's.                   *)
Filled ==
    /\ pc \in AfterInit => HasDocument /\ state.run = run /\ state.phase = "rendered"
    /\ pc \in DestroyPcs \ {"d_begin"} =>
          /\ HasDocument => (state.run = run => state.phase # "created")
          /\ state = Absent => json # run

Vnet(n)     == <<Suffix(run), n>>
Attached(h) == vm[VmidOf(run, h)].nics
Started(h)  == vm[VmidOf(run, h)].on
UpStatus    == {"started", "running"}

(* The hosts and networks a loop of create has behind it; a place between  *)
(* an effect and its record counts the effect.                             *)
Networked ==
    /\ pc = "vnet" => \A n \in Nets \ todo : Vnet(n) \in vnets
    /\ pc = "vnet_rec" => \A n \in (Nets \ todo) \cup {cur.item} : Vnet(n) \in vnets
    /\ Qinq /\ pc \in {"apply", "wait", "nics", "nics_rec", "start", "start_rec", "created"} =>
          \A n \in Nets : Vnet(n) \in vnets
    /\ Qinq /\ pc \in {"nics", "nics_rec", "start", "start_rec", "created"} => SdnUp(run)

Equipped ==
    /\ pc = "nics" => \A h \in Hosts \ todo : Attached(h)
    /\ pc = "nics_rec" => \A h \in (Hosts \ todo) \cup {cur.item} : Attached(h)
    /\ pc \in {"start", "start_rec", "created"} => \A h \in Hosts : Attached(h)

Running ==
    /\ pc = "start" => \A h \in Hosts \ todo : Started(h) /\ state.vms[h] \in UpStatus
    /\ pc = "start_rec" =>
          /\ \A h \in Hosts \ todo : Started(h) /\ state.vms[h] \in UpStatus
          /\ Started(cur.item) /\ cur.status \in UpStatus
    /\ pc = "created" => \A h \in Hosts : Started(h) /\ state.vms[h] \in UpStatus

(* A created run is ready, its VNets configured as well as applied.        *)
CreatedStays ==
    HasDocument /\ state.phase = "created" =>
        /\ \A h \in Hosts :
              /\ vm[VmidOf(state.run, h)] \in Named(state.run, h)
              /\ vm[VmidOf(state.run, h)].nics /\ vm[VmidOf(state.run, h)].on
              /\ state.vms[h] \in UpStatus
        /\ Qinq => \A n \in Nets : <<Suffix(state.run), n>> \in vnets \cap bridges

Flushed(h) == worker[h] \in {"missing", "destroyed"} /\ state.vms[h] = worker[h]

Reported ==
    HasDocument /\ state.run = run =>
        /\ pc = "d_flush" => \A h \in Targets \ todo : worker[h] \in Failed \/ Flushed(h)
        /\ pc \in AfterFlush => \A h \in Targets : Flushed(h)

Gone(h) == vm[VmidOf(TargetRun, h)] \notin Named(TargetRun, h)

Removed ==
    /\ pc \notin {"d_work", "d_flush"} \cup AfterFlush => worker = NoWorker
    /\ pc = "d_work" /\ ~err => \A h \in Targets : worker[h] \in Finished => Gone(h)
    /\ pc \in {"d_flush"} \cup AfterFlush /\ ~err => \A h \in Targets : Gone(h)

NoVnet(n) == <<Suffix(json), n>> \notin vnets

Unlinked ==
    /\ pc \in AfterFlush \ {"d_done"} => json \in Runs
    /\ ~err =>
          /\ pc = "d_vnet" => \A n \in Nets \ todo : NoVnet(n)
          /\ pc = "d_vnet_rec" => \A n \in (Nets \ todo) \cup {cur.item} : NoVnet(n)
          /\ pc \in {"d_zone", "d_zone_rec", "d_apply"} => \A n \in Nets : NoVnet(n)
          /\ pc \in {"d_zone_rec", "d_apply"} => Suffix(json) \notin zones
          /\ pc = "d_done" /\ Qinq /\ env = run /\ json \in Runs =>
                /\ Suffix(json) \notin zones
                /\ \A n \in Nets : NoVnet(n) /\ <<Suffix(json), n>> \notin bridges
-----------------------------------------------------------------------------
(* Calls of run-state.py.                                                  *)

(* The document a call works on: the file's if it is the run's, or a fresh *)
(* one if there is no file but the run's topology.json.                    *)
LEMMA OwnIs ==
    /\ HasDocument => Own = IF state.run = run THEN state ELSE Absent
    /\ state = Torn => Own = Absent
    /\ state = Absent =>
          Own = IF json = run THEN TopologyDocument(run, "initialized") ELSE Absent
  BY MarkerAssumption DEF HasDocument, Own, EnsureState

(* A call made with the run's own document changes what it is told to.     *)
LEMMA OwnCalls ==
    ASSUME FilesOK, HasDocument, state.run = run
    PROVE  /\ state \in Document /\ state # Absent
           /\ \A p \in Phase : StatePhase(p) => state' = SetPhase(state, p)
           /\ \A h, s : StateVm(h, s) => state' = SetVm(state, h, s)
           /\ \A s : StateZone(s) => state' = SetZone(state, s)
           /\ \A n, s : StateVnet(n, s) => state' = SetVnet(state, n, s)
<1>1. state \in Document /\ state # Absent
  BY DEF FilesOK, HasDocument
<1>2. Own = state
  BY OwnIs
<1> QED
  BY <1>1, <1>2 DEF StatePhase, StateVm, StateZone, StateVnet

(* What a call leaves of a document it changes.                            *)
LEMMA CallsKeep ==
    ASSUME NEW d \in Document, NEW e,
           \/ \E p \in Phase : e = SetPhase(d, p)
           \/ \E h \in AllHosts, s \in VmStatus : e = SetVm(d, h, s)
           \/ \E s \in SdnStatus : e = SetZone(d, s)
           \/ \E n \in Nets, s \in SdnStatus : e = SetVnet(d, n, s)
    PROVE  /\ e \in Document /\ e.run = d.run
           /\ \A p \in Phase : e = SetPhase(d, p) => e.phase = p /\ e.vms = d.vms
           /\ (\E p \in Phase : e = SetPhase(d, p)) \/ e.phase = d.phase
           /\ \A h, s : e = SetVm(d, h, s) => e.vms = [d.vms EXCEPT ![h] = s]
           /\ (\E h \in AllHosts, s \in VmStatus : e = SetVm(d, h, s)) \/ e.vms = d.vms
  BY DEF Document, SetPhase, SetVm, SetZone, SetVnet

(* A call that finds no document of the run may only make a fresh one, for *)
(* the run topology.json is about.                                         *)
LEMMA OtherCalls ==
    ASSUME FilesOK, run \in Runs, ~(HasDocument /\ state.run = run), state # Absent \/ json # run,
           \/ \E p \in Phase : StatePhase(p)
           \/ \E h \in AllHosts, s \in VmStatus : StateVm(h, s)
           \/ \E s \in SdnStatus : StateZone(s)
           \/ \E n \in Nets, s \in SdnStatus : StateVnet(n, s)
    PROVE  UNCHANGED state
<1>1. Own = Absent
  BY OwnIs DEF HasDocument
<1> QED
  BY <1>1 DEF StatePhase, StateVm, StateZone, StateVnet
-----------------------------------------------------------------------------
(* The document of the running script.                                     *)

(* A step that leaves the files alone and does not pass the first record   *)
(* of its script.                                                          *)
LEMMA FilledKept ==
    ASSUME Filled, UNCHANGED <<state, json, run>>, pc' \in AfterInit => pc \in AfterInit,
           pc' \in DestroyPcs \ {"d_begin"} => pc \in DestroyPcs \ {"d_begin"}
    PROVE  Filled'
  BY DEF Filled, HasDocument

(* The records of create's loops.                                          *)
LEMMA FilledRecord ==
    ASSUME OwnershipInvariant, Filled,
           RecordCloned \/ RecordConfigured \/ RecordStarted \/ RecordZone \/ RecordVnet
    PROVE  Filled'
<1>1. /\ pc \in {"clone_rec", "nics_rec", "start_rec", "zone_rec", "vnet_rec"}
      /\ run' = run /\ pc' \notin DestroyPcs
  BY DEF RecordCloned, RecordConfigured, RecordStarted, RecordVm, RecordZone, RecordVnet,
     Enter, DestroyPcs
<1>2. HasDocument /\ state.run = run /\ state.phase = "rendered" /\ FilesOK
  BY <1>1 DEF Filled, AfterInit, AfterClone, OwnershipInvariant, TypeOK
<1>3. \/ \E h \in AllHosts, s \in VmStatus : state' = SetVm(state, h, s)
      \/ \E s \in SdnStatus : state' = SetZone(state, s)
      \/ \E n \in Nets, s \in SdnStatus : state' = SetVnet(state, n, s)
  BY <1>2, OwnCalls DEF RecordCloned, RecordConfigured, RecordStarted, RecordVm, RecordZone,
     RecordVnet, OwnershipInvariant, MarkOK, AllHosts
<1>4. state \in Document
  BY <1>2, OwnCalls
<1>5. state'.phase = state.phase
  BY <1>3, <1>4 DEF SetVm, SetZone, SetVnet, Document
<1>6. state' \in Document /\ state'.run = run /\ state'.phase = "rendered"
  BY <1>2, <1>3, <1>4, <1>5, CallsKeep
<1> QED
  BY <1>1, <1>6, MarkerAssumption DEF Filled, HasDocument

(* The calls of destroy, to change a phase or the status of one object.    *)
DestroyCall ==
    \/ \E p \in {"destroy started", "destroy unsafe", "destroy completed"} : StatePhase(p)
    \/ \E h \in AllHosts, s \in VmStatus : StateVm(h, s)
    \/ \E s \in SdnStatus : StateZone(s)
    \/ \E n \in Nets, s \in SdnStatus : StateVnet(n, s)

LEMMA FilledDestroyCall ==
    ASSUME OwnershipInvariant, Filled, UNCHANGED <<json, run>>,
           pc \in DestroyPcs \ {"d_begin"}, pc' \in DestroyPcs, DestroyCall
    PROVE  Filled'
<1>1. FilesOK /\ run \in Runs /\ (state = Absent => json # run)
      /\ (HasDocument => (state.run = run => state.phase # "created"))
  BY DEF OwnershipInvariant, TypeOK, ScriptOK, Filled, DestroyPcs
<1>2. CASE HasDocument /\ state.run = run
  <2>1. \/ \E p \in Phase \ {"created"} : state' = SetPhase(state, p)
        \/ \E h \in AllHosts, s \in VmStatus : state' = SetVm(state, h, s)
        \/ \E s \in SdnStatus : state' = SetZone(state, s)
        \/ \E n \in Nets, s \in SdnStatus : state' = SetVnet(state, n, s)
    BY <1>1, <1>2, OwnCalls DEF DestroyCall, Phase
  <2>2. state' \in Document /\ state'.phase # "created"
    <3>1. state \in Document
      BY <1>1, <1>2, OwnCalls
    <3>2. (\E p \in Phase \ {"created"} : state' = SetPhase(state, p))
             \/ state'.phase = state.phase
      BY <2>1, <3>1 DEF SetVm, SetZone, SetVnet, Document
    <3> QED
      BY <1>1, <1>2, <2>1, <3>1, <3>2, CallsKeep
  <2> QED
    BY <2>2, MarkerAssumption DEF Filled, AfterInit, AfterClone, DestroyPcs
<1>3. CASE ~(HasDocument /\ state.run = run)
  <2>1. UNCHANGED state
    BY <1>1, <1>3, OtherCalls DEF DestroyCall, Phase
  <2> QED
    BY <1>1, <1>3, <2>1 DEF Filled, AfterInit, AfterClone, DestroyPcs, HasDocument
<1> QED
  BY <1>2, <1>3

LEMMA FilledDestroyBegin ==
    ASSUME OwnershipInvariant, Filled, DestroyBegin
    PROVE  Filled'
<1>1. /\ FilesOK /\ run \in Runs /\ StatePhase("destroy started")
      /\ pc' = "d_env" /\ UNCHANGED <<json, run>>
  BY DEF OwnershipInvariant, TypeOK, ScriptOK, DestroyBegin, Goto
<1>2. CASE Own = Absent
  <2>1. UNCHANGED state /\ ~(HasDocument /\ state.run = run) /\ (state = Absent => json # run)
    BY <1>1, <1>2, OwnIs, TopologyDocumentType, MarkerAssumption
       DEF StatePhase, FilesOK, HasDocument, Phase
  <2> QED
    BY <1>1, <2>1 DEF Filled, AfterInit, AfterClone, HasDocument
<1>3. CASE Own # Absent
  <2>1. Own \in Document /\ state' = SetPhase(Own, "destroy started")
    BY <1>1, <1>3, OwnType DEF StatePhase
  <2>2. state' \in Document /\ state'.phase = "destroy started"
    BY <2>1, CallsKeep DEF Phase
  <2> QED
    BY <1>1, <2>2, MarkerAssumption DEF Filled, AfterInit, AfterClone
<1> QED
  BY <1>2, <1>3

LEMMA FilledStep ==
    ASSUME OwnershipInvariant, Filled, [Next]_vars
    PROVE  Filled'
<1>1. CASE pc' \notin AfterInit \cup (DestroyPcs \ {"d_begin"})
  BY <1>1 DEF Filled
<1>2. CASE InitState
  <2>1. CASE pc' = "clone"
    <3>1. state' = InitDocument(run, state) /\ run' = run /\ run \in Runs
          /\ state \in Document \cup {Absent}
      BY <1>2, <2>1 DEF InitState, Goto, Enter, OwnershipInvariant, TypeOK, FilesOK, ScriptOK
    <3>2. /\ InitDocument(run, state) \in Document
          /\ InitDocument(run, state).run = run
          /\ InitDocument(run, state).phase = "rendered"
      BY <3>1, InitDocumentType DEF InitDocument, TopologyDocument
    <3> QED
      BY <2>1, <3>1, <3>2, MarkerAssumption DEF Filled, HasDocument, DestroyPcs
  <2>2. CASE pc' # "clone"
    BY <1>1, <1>2, <2>2 DEF InitState, Goto, Enter, AfterInit, AfterClone, DestroyPcs
  <2> QED
    BY <2>1, <2>2
<1>3. CASE RecordCloned \/ RecordConfigured \/ RecordStarted \/ RecordZone \/ RecordVnet
  BY <1>3, FilledRecord
<1>4. CASE \/ \E h \in Hosts : CloneVm(h) \/ AttachNics(h) \/ StartVm(h)
           \/ \E n \in Nets : CreateVnet(n)
           \/ CreateZone \/ ApplySdn \/ WaitVnets
  BY <1>4, FilledKept DEF CloneVm, AttachNics, StartVm, CreateVnet, CreateZone, ApplySdn,
     WaitVnets, Goto, Enter, Mark, fileVars, AfterInit, AfterClone, DestroyPcs
<1>5. CASE RenderJson \/ RenderEnv \/ CreateDone \/ CreateFails \/ RenderEnvFails \/ CreateTrap
  BY <1>5, <1>1 DEF RenderJson, RenderEnv, CreateDone, CreateFails, RenderEnvFails,
     CreateTrap, Goto, End, AfterInit, AfterClone, DestroyPcs
<1>6. CASE DestroyBegin
  BY <1>6, FilledDestroyBegin
<1>7. CASE CheckEnv \/ (VerifyTargets /\ pc' = "d_work") \/ JoinWorkers \/ FlushDone
           \/ DeleteZone \/ ApplyDeletion
           \/ (\E n \in Nets : DeleteVnet(n)) \/ \E h \in AllHosts : WorkerStep(h)
  <2>1. CASE pc' = "idle"
    BY <2>1, <1>1 DEF AfterInit, AfterClone, DestroyPcs
  <2>2. CASE pc' # "idle"
    BY <1>7, <2>2, FilledKept DEF CheckEnv, VerifyTargets, JoinWorkers, FlushDone, DeleteZone,
       ApplyDeletion, DeleteVnet, WorkerStep, StartWorker, WorkerCheck, WorkerStop,
       WorkerRemove, Goto, Enter, End, fileVars, AfterInit, AfterClone, DestroyPcs
  <2> QED
    BY <2>1, <2>2
<1>8. CASE RecordVnetDeleted \/ RecordZoneDeleted
           \/ \E h \in AllHosts : FlushStatus(h)
  <2>1. /\ UNCHANGED <<json, run>> /\ pc \in DestroyPcs \ {"d_begin"} /\ pc' \in DestroyPcs
    BY <1>8 DEF RecordVnetDeleted, RecordZoneDeleted, FlushStatus, Enter, DestroyPcs
  <2>2. DestroyCall
    BY <1>8 DEF RecordVnetDeleted, RecordZoneDeleted, FlushStatus, IsNext, DestroyCall,
       OwnershipInvariant, MarkOK, WorkersOK, Reports, VmStatus
  <2> QED
    BY <2>1, <2>2, FilledDestroyCall
<1>9. CASE DestroyDone \/ (VerifyTargets /\ pc' # "d_work")
  BY <1>9, <1>1 DEF DestroyDone, VerifyTargets, Enter, End, AfterInit, AfterClone, DestroyPcs
<1>10. CASE Environment
  <2>1. CASE (\E r \in Runs : StartCreate(r) \/ StartDestroy(r)) \/ Kill \/ KillInWrite \/ Checkout
    BY <2>1, <1>1 DEF StartCreate, StartDestroy, Kill, KillInWrite, Checkout, End,
       scriptVars, AfterInit, AfterClone, DestroyPcs
  <2>2. ASSUME NEW v \in ForeignVmids, ForeignAppears(v) \/ ForeignLeaves(v)
        PROVE  Filled'
    BY <2>2, FilledKept DEF ForeignAppears, ForeignLeaves, fileVars, scriptVars
  <2> QED
    BY <1>10, <2>1, <2>2 DEF Environment
<1>11. CASE UNCHANGED vars
  BY <1>11, FilledKept DEF vars, fileVars, scriptVars
<1> QED
  BY <1>2, <1>3, <1>4, <1>5, <1>6, <1>7, <1>8, <1>9, <1>10, <1>11
     DEF Next, CreateStep, DestroyStep
-----------------------------------------------------------------------------
(* What destroy reports.                                                   *)

(* How destroy gets to or beyond the flush, or a place there stays.        *)
LEMMA FlushSteps ==
    ASSUME [Next]_vars, pc' \in {"d_flush"} \cup AfterFlush
    PROVE  \/ JoinWorkers \/ FlushDone \/ RecordVnetDeleted \/ RecordZoneDeleted
           \/ DeleteZone \/ ApplyDeletion
           \/ \E h \in AllHosts : FlushStatus(h)
           \/ \E n \in Nets : DeleteVnet(n)
           \/ UNCHANGED <<zones, vnets, bridges, fileVars, scriptVars>>
<1>1. CASE CreateStep
  BY <1>1 DEF CreateStep, RenderJson, RenderEnv, InitState, CloneVm, AttachNics, StartVm,
     CreateVnet, RecordCloned, RecordVm, CreateZone, RecordZone, RecordVnet, ApplySdn,
     WaitVnets, RecordConfigured, RecordStarted, CreateDone, CreateFails,
     RenderEnvFails, CreateTrap, Goto, Enter, Mark, End, AfterFlush
<1>2. CASE DestroyStep
  BY <1>2 DEF DestroyStep, DestroyBegin, CheckEnv, VerifyTargets, WorkerStep, StartWorker,
     WorkerCheck, WorkerStop, WorkerRemove, DestroyDone, Goto, Enter, End, AfterFlush
<1>3. CASE Environment
  BY <1>3 DEF Environment, StartCreate, StartDestroy, Kill, KillInWrite, Checkout,
     ForeignAppears, ForeignLeaves, End, scriptVars, AfterFlush
<1>4. CASE UNCHANGED vars
  BY <1>4 DEF vars, pveVars
<1> QED
  BY <1>1, <1>2, <1>3, <1>4 DEF Next

(* The records of destroy's SDN loop leave the VM statuses alone.          *)
LEMMA SdnRecordKeepsVms ==
    ASSUME OwnershipInvariant, Filled, RecordVnetDeleted \/ RecordZoneDeleted
    PROVE  HasDocument' /\ state'.run = run =>
               HasDocument /\ state.run = run /\ state'.vms = state.vms
<1>1. /\ FilesOK /\ run \in Runs /\ (state = Absent => json # run)
      /\ (\E s \in SdnStatus : StateZone(s)) \/ \E n \in Nets, s \in SdnStatus : StateVnet(n, s)
  BY DEF RecordVnetDeleted, RecordZoneDeleted, OwnershipInvariant, TypeOK, ScriptOK, MarkOK,
     Filled, DestroyPcs
<1>2. CASE HasDocument /\ state.run = run
  BY <1>1, <1>2, OwnCalls DEF SetZone, SetVnet, Document
<1>3. CASE ~(HasDocument /\ state.run = run)
  BY <1>1, <1>3, OtherCalls DEF HasDocument
<1> QED
  BY <1>2, <1>3

LEMMA ReportedFlush ==
    ASSUME OwnershipInvariant, Filled, Reported, NEW h \in AllHosts, FlushStatus(h)
    PROVE  Reported'
<1> USE DEF OwnershipInvariant, TypeOK
<1>1. /\ pc = "d_flush" /\ pc' = "d_flush" /\ run \in Runs /\ FilesOK
      /\ h \in todo /\ todo' = todo \ {h} /\ worker[h] \in Reports
      /\ UNCHANGED <<json, run, worker>> /\ Targets' = Targets /\ Targets \subseteq AllHosts
      /\ (state = Absent => json # run)
  BY TargetType DEF FlushStatus, IsNext, Enter, ScriptOK, WorkersOK, Targets, Filled, DestroyPcs
<1>2. SUFFICES ASSUME HasDocument', state'.run = run, NEW k \in Targets, k \notin todo'
               PROVE  worker[k] \in Failed \/
                      (worker[k] \in {"missing", "destroyed"} /\ state'.vms[k] = worker[k])
  BY <1>1 DEF Reported, Flushed, AfterFlush
<1>3. IF worker[h] = "unsafe" THEN \E p \in Phase : StatePhase(p)
      ELSE worker[h] \in VmStatus /\ StateVm(h, worker[h])
  BY <1>1 DEF FlushStatus, Phase, Reports, VmStatus
<1>4. HasDocument /\ state.run = run
  <2>1. CASE ~(HasDocument /\ state.run = run)
    <3>1. UNCHANGED state
      BY <1>1, <1>3, <2>1, OtherCalls
    <3> QED
      BY <1>2, <2>1, <3>1 DEF HasDocument
  <2> QED
    BY <2>1
<1>5. state \in Document
  BY <1>1, <1>4, OwnCalls
<1>6. IF worker[h] = "unsafe" THEN state'.vms = state.vms
      ELSE state'.vms = [state.vms EXCEPT ![h] = worker[h]]
  <2>1. CASE worker[h] = "unsafe"
    BY <1>1, <1>3, <1>4, <1>5, <2>1, OwnCalls DEF SetPhase, Document
  <2>2. CASE worker[h] # "unsafe"
    BY <1>1, <1>3, <1>4, <1>5, <2>2, OwnCalls DEF SetVm, Document
  <2> QED
    BY <2>1, <2>2
<1>7. CASE k = h
  BY <1>1, <1>5, <1>6, <1>7 DEF Document, Reports, Failed
<1>8. CASE k # h
  <2>1. worker[k] \in Failed \/ Flushed(k)
    BY <1>1, <1>2, <1>4, <1>8 DEF Reported
  <2>2. state'.vms[k] = state.vms[k]
    BY <1>1, <1>5, <1>6, <1>8 DEF Document
  <2> QED
    BY <2>1, <2>2 DEF Flushed
<1> QED
  BY <1>7, <1>8

LEMMA ReportedStep ==
    ASSUME OwnershipInvariant, Filled, Reported, [Next]_vars
    PROVE  Reported'
<1> USE DEF OwnershipInvariant, TypeOK
<1>1. CASE pc' \notin {"d_flush"} \cup AfterFlush
  BY <1>1 DEF Reported
<1>2. CASE JoinWorkers
  BY <1>2 DEF JoinWorkers, Enter, Reporting, Failed, Reported, Targets, fileVars, AfterFlush
<1>3. ASSUME NEW h \in AllHosts, FlushStatus(h)
      PROVE  Reported'
  BY <1>3, ReportedFlush
<1>4. CASE FlushDone
  <2>1. CASE pc' = "idle"
    BY <1>1, <2>1 DEF AfterFlush
  <2>2. CASE pc' # "idle"
    <3>1. /\ pc = "d_flush" /\ todo = {} /\ pc' \in {"d_vnet", "d_done"}
          /\ UNCHANGED <<run, worker, json, state>>
          /\ \A h \in AllHosts : worker[h] \notin Failed
      BY <1>4, <2>2 DEF FlushDone, End, Enter, Goto, fileVars
    <3>2. Targets \subseteq AllHosts
      BY <3>1, TargetType DEF ScriptOK
    <3> QED
      BY <3>1, <3>2 DEF Reported, Flushed, HasDocument, Targets, AfterFlush
  <2> QED
    BY <2>1, <2>2
<1>5. CASE RecordVnetDeleted \/ RecordZoneDeleted
  <2>1. /\ pc \in AfterFlush /\ pc' # "d_flush" /\ UNCHANGED <<run, worker, json>>
    BY <1>5 DEF RecordVnetDeleted, RecordZoneDeleted, Enter, AfterFlush
  <2>2. HasDocument' /\ state'.run = run =>
             HasDocument /\ state.run = run /\ state'.vms = state.vms
    BY <1>5, SdnRecordKeepsVms
  <2> QED
    BY <2>1, <2>2 DEF Reported, Flushed, Targets
<1>6. CASE DeleteZone \/ ApplyDeletion \/ \E n \in Nets : DeleteVnet(n)
  <2>1. pc \in AfterFlush /\ pc' # "d_flush" /\ UNCHANGED <<run, worker, json, state>>
    BY <1>6 DEF DeleteZone, ApplyDeletion, DeleteVnet, AfterFlush, fileVars
  <2> QED
    BY <2>1 DEF Reported, Flushed, Targets, HasDocument
<1>7. CASE UNCHANGED <<zones, vnets, bridges, fileVars, scriptVars>>
  BY <1>7 DEF Reported, Flushed, Targets, HasDocument, fileVars, scriptVars
<1> QED
  BY <1>1, <1>2, <1>3, <1>4, <1>5, <1>6, <1>7, FlushSteps

(* Whatever interrupted scripts left and whatever fails, a destroy that    *)
(* reaches its end has put into the run's document the status of each of   *)
(* its targets, and none of them says it was refused, for any hosts and    *)
(* any number of concurrent workers.                                       *)
THEOREM ReportsAreComplete == Spec => []DestroyReportComplete
<1>1. Init => Filled /\ Reported
  BY DEF Init, Filled, Reported, AfterInit, AfterClone, AfterFlush, DestroyPcs
<1>2. OwnershipInvariant /\ Filled /\ Reported /\ [Next]_vars => Filled' /\ Reported'
  BY FilledStep, ReportedStep
<1>3. Reported => DestroyReportComplete
  BY DEF Reported, Flushed, HasDocument, AfterFlush, DestroyReportComplete
<1> QED
  BY <1>1, <1>2, <1>3, OwnershipHolds, PTL DEF Spec
-----------------------------------------------------------------------------
(* What destroy leaves.                                                    *)

(* The steps into the worker loop and in it.                               *)
LEMMA WorkSteps ==
    ASSUME [Next]_vars, pc' = "d_work"
    PROVE  \/ VerifyTargets \/ \E h \in AllHosts : WorkerStep(h)
           \/ UNCHANGED <<zones, vnets, bridges, fileVars, scriptVars>>
<1>1. CASE CreateStep
  BY <1>1 DEF CreateStep, RenderJson, RenderEnv, InitState, CloneVm, AttachNics, StartVm,
     CreateVnet, RecordCloned, RecordVm, CreateZone, RecordZone, RecordVnet, ApplySdn,
     WaitVnets, RecordConfigured, RecordStarted, CreateDone, CreateFails,
     RenderEnvFails, CreateTrap, Goto, Enter, Mark, End
<1>2. CASE DestroyStep
  BY <1>2 DEF DestroyStep, DestroyBegin, CheckEnv, FlushStatus, JoinWorkers, FlushDone,
     DeleteVnet, RecordVnetDeleted, DeleteZone, RecordZoneDeleted, ApplyDeletion,
     DestroyDone, Goto, Enter, End
<1>3. CASE Environment
  BY <1>3 DEF Environment, StartCreate, StartDestroy, Kill, KillInWrite, Checkout,
     ForeignAppears, ForeignLeaves, End, scriptVars
<1>4. CASE UNCHANGED vars
  BY <1>4 DEF vars, pveVars
<1> QED
  BY <1>1, <1>2, <1>3, <1>4 DEF Next

(* Elsewhere no step gives a host a worker or forgets it, but for the end  *)
(* of the script.                                                          *)
LEMMA IdleWorkers ==
    ASSUME [Next]_vars, pc' \notin {"d_work", "d_flush"} \cup AfterFlush
    PROVE  \/ worker' = NoWorker
           \/ UNCHANGED worker /\ pc \notin {"d_work", "d_flush"} \cup AfterFlush
<1>1. CASE CreateStep
  BY <1>1 DEF CreateStep, RenderJson, RenderEnv, InitState, CloneVm, AttachNics, StartVm,
     CreateVnet, RecordCloned, RecordVm, CreateZone, RecordZone, RecordVnet, ApplySdn,
     WaitVnets, RecordConfigured, RecordStarted, CreateDone, CreateFails,
     RenderEnvFails, CreateTrap, Goto, Enter, Mark, End, AfterFlush
<1>2. CASE DestroyStep
  BY <1>2 DEF DestroyStep, DestroyBegin, CheckEnv, VerifyTargets, WorkerStep, StartWorker,
     WorkerCheck, WorkerStop, WorkerRemove, FlushStatus, JoinWorkers, FlushDone, DeleteVnet,
     RecordVnetDeleted, DeleteZone, RecordZoneDeleted, ApplyDeletion, DestroyDone,
     Goto, Enter, End, AfterFlush
<1>3. CASE Environment
  BY <1>3 DEF Environment, StartCreate, StartDestroy, Kill, KillInWrite, Checkout,
     ForeignAppears, ForeignLeaves, End, scriptVars, AfterFlush
<1>4. CASE UNCHANGED vars
  BY <1>4 DEF vars, scriptVars
<1> QED
  BY <1>1, <1>2, <1>3, <1>4 DEF Next

(* Nothing but a clone gives a target that is gone its name back.          *)
LEMMA GoneStays ==
    ASSUME OwnershipInvariant, [Next]_vars, pc \notin {"clone", "idle"}, UNCHANGED <<run, json>>,
           NEW h \in AllHosts, Gone(h)
    PROVE  Gone(h)'
<1> USE DEF OwnershipInvariant, TypeOK
<1>1. /\ TargetRun \in Runs /\ TargetRun' = TargetRun
      /\ VmidOf(TargetRun, h) \in Vmids /\ Named(TargetRun, h) \subseteq VMs
  BY TargetType, Names DEF ScriptOK, TargetRun
<1> DEFINE v == VmidOf(TargetRun, h)
<1>2. SUFFICES ASSUME vm'[v] \in Named(TargetRun, h)
               PROVE  vm[v] \in Named(TargetRun, h)
  BY <1>1 DEF Gone
<1>3. vm'[v] \notin {Absent, Foreign}
  BY <1>1, <1>2, MarkerAssumption
<1>4. \/ vm'[v] = vm[v]
      \/ vm[v] \in VMs /\ vm'[v].run = vm[v].run /\ vm'[v].host = vm[v].host
  BY <1>1, <1>3, NamesStay
<1> QED
  BY <1>2, <1>4 DEF Named, VMs

(* The workers' own steps.                                                 *)
LEMMA RemovedWorker ==
    ASSUME OwnershipInvariant, Removed, [Next]_vars, NEW h \in AllHosts, WorkerStep(h)
    PROVE  Removed'
<1> USE DEF OwnershipInvariant, TypeOK
<1>1. /\ pc = "d_work" /\ pc' = "d_work" /\ UNCHANGED <<run, json>> /\ run \in Runs
      /\ Targets' = Targets /\ TargetRun' = TargetRun
      /\ \A k \in AllHosts : k # h => worker'[k] = worker[k]
      /\ ~err' => ~err
  BY DEF WorkerStep, StartWorker, WorkerCheck, WorkerStop, WorkerRemove, WorkerGoes,
     ScriptOK, fileVars, Targets, TargetRun
<1>2. Targets \subseteq AllHosts /\ TargetRun \in Runs
  BY <1>1, TargetType
<1>3. SUFFICES ASSUME ~err', NEW k \in Targets, worker'[k] \in Finished
               PROVE  Gone(k)'
  BY <1>1 DEF Removed, AfterFlush
<1>4. CASE k # h
  BY <1>1, <1>2, <1>3, <1>4, GoneStays DEF Removed
<1>5. CASE k = h
  <2> DEFINE v == VmidOf(TargetRun, h)
  <2>1. v \in Vmids /\ Absent \notin Named(TargetRun, h)
    BY <1>2, Names, NamedIsOurs
  <2>2. WorkerCheck(h) \/ WorkerRemove(h)
    BY <1>3, <1>5 DEF WorkerStep, StartWorker, WorkerStop, WorkerGoes, ScriptOK, Finished, Reports
  <2>3. CASE WorkerCheck(h)
    <3>1. UNCHANGED vm /\ (vm[v] = Absent \/ Mismatched(h))
      <4>1. worker'[h] # "stop"
        BY <1>3, <1>5 DEF Finished, Reports
      <4> QED
        BY <1>1, <1>3, <2>3, <4>1 DEF WorkerCheck, WorkerGoes, ScriptOK, pveVars
    <3> QED
      BY <1>1, <1>5, <2>1, <3>1 DEF Gone, Mismatched
  <2>4. CASE WorkerRemove(h)
    BY <1>1, <1>3, <1>5, <2>1, <2>4 DEF WorkerRemove, PveOK, Gone
  <2> QED
    BY <2>2, <2>3, <2>4
<1> QED
  BY <1>4, <1>5

LEMMA RemovedStep ==
    ASSUME OwnershipInvariant, Removed, [Next]_vars
    PROVE  Removed'
<1> USE DEF OwnershipInvariant, TypeOK
<1>1. CASE pc' \notin {"d_work", "d_flush"} \cup AfterFlush
  BY <1>1, IdleWorkers DEF Removed, AfterFlush
<1>2. CASE pc' = "d_work"
  <2>1. CASE VerifyTargets
    <3>1. pc = "d_verify" /\ UNCHANGED worker
      BY <1>2, <2>1 DEF VerifyTargets, Enter, End
    <3>2. worker' = NoWorker
      BY <3>1 DEF Removed, AfterFlush
    <3>3. \A h \in Targets' : h \in AllHosts
      BY <1>2, <2>1, TargetType DEF VerifyTargets, ScriptOK, Targets
    <3> QED
      BY <1>2, <3>2, <3>3 DEF Removed, NoWorker, Finished, Reports, AfterFlush
  <2>2. ASSUME NEW h \in AllHosts, WorkerStep(h)
        PROVE  Removed'
    BY <2>2, RemovedWorker
  <2>3. CASE UNCHANGED <<zones, vnets, bridges, fileVars, scriptVars>>
    <3>1. UNCHANGED <<run, json, worker, err, pc>> /\ Targets' = Targets /\ pc \notin {"clone", "idle"}
      BY <1>2, <2>3 DEF fileVars, scriptVars, Targets
    <3>2. Targets \subseteq AllHosts
      BY <3>1, TargetType DEF ScriptOK
    <3>3. \A h \in Targets : Gone(h) => Gone(h)'
      BY <3>1, <3>2, GoneStays
    <3> QED
      BY <1>2, <3>1, <3>3 DEF Removed, AfterFlush
  <2> QED
    BY <1>2, <2>1, <2>2, <2>3, WorkSteps
<1>3. CASE pc' \in {"d_flush"} \cup AfterFlush
  <2>1. /\ pc \in {"d_work", "d_flush"} \cup AfterFlush /\ UNCHANGED <<run, json>>
        /\ ~err' => ~err
        /\ pc = "d_work" => JoinWorkers
    <3>1. CASE JoinWorkers \/ FlushDone
      BY <1>3, <3>1 DEF JoinWorkers, FlushDone, Goto, Enter, End, fileVars, AfterFlush
    <3>2. CASE RecordVnetDeleted \/ RecordZoneDeleted \/ \E h \in AllHosts : FlushStatus(h)
      <4>1. /\ pc \in {"d_flush", "d_vnet_rec", "d_zone_rec"}
            /\ json' = json /\ run' = run /\ err' = err
        BY <3>2 DEF RecordVnetDeleted, RecordZoneDeleted, FlushStatus, Enter
      <4> QED
        BY <4>1 DEF AfterFlush
    <3>3. CASE DeleteZone \/ ApplyDeletion \/ \E n \in Nets : DeleteVnet(n)
      BY <3>3 DEF DeleteZone, ApplyDeletion, DeleteVnet, fileVars, AfterFlush
    <3>4. CASE UNCHANGED <<zones, vnets, bridges, fileVars, scriptVars>>
      BY <1>3, <3>4 DEF fileVars, scriptVars, AfterFlush
    <3> QED
      BY <1>3, <3>1, <3>2, <3>3, <3>4, FlushSteps
  <2>2. Targets' = Targets /\ Targets \subseteq AllHosts /\ pc \notin {"clone", "idle"}
    BY <2>1, TargetType DEF ScriptOK, Targets, AfterFlush
  <2>3. ASSUME ~err', NEW h \in Targets
        PROVE  Gone(h)'
    <3>1. CASE pc # "d_work"
      BY <2>1, <2>2, <2>3, <3>1, GoneStays DEF Removed
    <3>2. CASE pc = "d_work"
      <4>1. worker[h] \in Finished
        BY <2>1, <2>2, <2>3, <3>2
           DEF JoinWorkers, RunningWorkers, WorkersOK, ScriptOK, WorkerPcs, Finished, Reports
      <4> QED
        BY <2>1, <2>2, <2>3, <3>2, <4>1, GoneStays DEF Removed
    <3> QED
      BY <3>1, <3>2
  <2> QED
    BY <1>3, <2>2, <2>3 DEF Removed, AfterFlush
<1> QED
  BY <1>1, <1>2, <1>3
LEMMA UnlinkedStep ==
    ASSUME OwnershipInvariant, Unlinked, [Next]_vars
    PROVE  Unlinked'
<1> USE DEF OwnershipInvariant, TypeOK
<1>1. CASE pc' \notin AfterFlush
  BY <1>1 DEF Unlinked, AfterFlush
<1>2. CASE JoinWorkers \/ \E h \in AllHosts : FlushStatus(h)
  <2>1. pc' = "d_flush"
    BY <1>2 DEF JoinWorkers, FlushStatus, Enter
  <2> QED
    BY <1>1, <2>1 DEF AfterFlush
<1>3. CASE FlushDone
  <2>1. CASE pc' = "idle"
    BY <1>1, <2>1 DEF AfterFlush
  <2>2. CASE pc' # "idle"
    <3>1. /\ json' = json /\ env' = env /\ run' = run
          /\ \/ pc' = "d_vnet" /\ todo' = Nets /\ json \notin {Absent, Torn}
             \/ pc' = "d_done" /\ (Qinq /\ env = run => json = Absent)
      BY <1>3, <2>2 DEF FlushDone, QinqModes, End, Enter, Goto, fileVars
    <3>2. json \in Runs <=> json \notin {Absent, Torn}
      BY MarkerAssumption DEF FilesOK
    <3> QED
      BY <3>1, <3>2 DEF Unlinked, AfterFlush
  <2> QED
    BY <2>1, <2>2
<1>4. ASSUME NEW n \in Nets, DeleteVnet(n)
      PROVE  Unlinked'
  <2>1. /\ pc = "d_vnet" /\ pc' = "d_vnet_rec" /\ UNCHANGED <<json, todo>> /\ cur'.item = n
        /\ ~err' => ~err /\ vnets' = vnets \ {<<Suffix(json), n>>}
    BY <1>4 DEF DeleteVnet, fileVars
  <2>2. ~err' => \A m \in (Nets \ todo) \cup {n} : <<Suffix(json), m>> \notin vnets'
    BY <2>1 DEF Unlinked, NoVnet, AfterFlush
  <2> QED
    BY <2>1, <2>2 DEF Unlinked, NoVnet, AfterFlush
<1>5. CASE RecordVnetDeleted
  <2>1. /\ pc = "d_vnet_rec" /\ json' = json /\ vnets' = vnets /\ err' = err
        /\ \/ pc' = "d_zone" /\ todo = {cur.item}
           \/ pc' = "d_vnet" /\ todo' = todo \ {cur.item}
    BY <1>5 DEF RecordVnetDeleted, Enter, pveVars
  <2>2. /\ json \in Runs
        /\ ~err => \A n \in (Nets \ todo) \cup {cur.item} : NoVnet(n)
    BY <2>1 DEF Unlinked, AfterFlush
  <2> QED
    BY <2>1, <2>2 DEF Unlinked, NoVnet, AfterFlush
<1>6. CASE DeleteZone
  <2>1. /\ pc = "d_zone" /\ pc' = "d_zone_rec" /\ json' = json /\ vnets' = vnets
        /\ ~err' => ~err /\ zones' = zones \ {Suffix(json)}
    BY <1>6 DEF DeleteZone, fileVars
  <2> QED
    BY <2>1 DEF Unlinked, NoVnet, AfterFlush
<1>7. CASE RecordZoneDeleted
  <2>1. /\ pc = "d_zone_rec" /\ pc' = "d_apply" /\ json' = json /\ vnets' = vnets
        /\ zones' = zones /\ err' = err
    BY <1>7 DEF RecordZoneDeleted, Enter, pveVars
  <2> QED
    BY <2>1 DEF Unlinked, NoVnet, AfterFlush
<1>8. CASE ApplyDeletion
  <2>1. /\ pc = "d_apply" /\ pc' = "d_done" /\ json' = json /\ vnets' = vnets
        /\ zones' = zones /\ (~err' => ~err /\ bridges' = vnets)
    BY <1>8 DEF ApplyDeletion, fileVars
  <2> QED
    BY <2>1 DEF Unlinked, NoVnet, AfterFlush
<1>9. CASE UNCHANGED <<zones, vnets, bridges, fileVars, scriptVars>>
  BY <1>9 DEF Unlinked, NoVnet, fileVars, scriptVars
<1> QED
  BY <1>1, <1>2, <1>3, <1>4, <1>5, <1>6, <1>7, <1>8, <1>9, FlushSteps

(* A destroy none of whose commands reported an error leaves no VM of its  *)
(* run at the VMIDs of its targets and, where topology.env tells it the    *)
(* mode and topology.json the names, no zone, VNet or bridge of the run;   *)
(* for any hosts, networks and runs, any number of workers and whatever    *)
(* earlier scripts left.  Either the topology files were written together, *)
(* or there is one run only.                                               *)
THEOREM NothingIsLeft ==
    ASSUME ~TornRender \/ \A r, q \in Runs : r = q
    PROVE  Spec => []DestroyLeavesNothing
<1>1. Init => Removed /\ Unlinked
  BY DEF Init, Removed, Unlinked, AfterFlush
<1>2. OwnershipInvariant /\ Removed /\ Unlinked /\ [Next]_vars => Removed' /\ Unlinked'
  BY RemovedStep, UnlinkedStep
<1> DEFINE SameRun == pc = "d_done" => TargetRun = run
<1>3. Spec => []SameRun
  <2>1. CASE ~TornRender
    <3>1. OwnershipInvariant /\ FilesAgree => SameRun
      BY DEF OwnershipInvariant, TypeOK, FilesOK, FilesAgree, TargetRun, DestroyPcs
    <3> QED
      BY <2>1, <3>1, OwnershipHolds, FilesAgreeHolds, PTL
  <2>2. CASE \A r, q \in Runs : r = q
    <3>1. OwnershipInvariant => SameRun
      BY <2>2 DEF OwnershipInvariant, TypeOK, FilesOK, ScriptOK, TargetRun
    <3> QED
      BY <3>1, OwnershipHolds, PTL
  <2> QED
    BY <2>1, <2>2
<1>4. OwnershipInvariant /\ SameRun /\ Removed /\ Unlinked => DestroyLeavesNothing
  <2> SUFFICES ASSUME OwnershipInvariant, SameRun, Removed, Unlinked, pc = "d_done", ~err
               PROVE  /\ \A h \in Targets : vm[VmidOf(run, h)] \notin Named(run, h)
                      /\ Qinq /\ env = run /\ json = run =>
                            /\ Suffix(run) \notin zones
                            /\ \A n \in Nets : <<Suffix(run), n>> \notin vnets \cup bridges
    BY DEF DestroyLeavesNothing
  <2>1. \A h \in Targets : Gone(h)
    BY DEF Removed, AfterFlush
  <2>2. run \in Runs
    BY DEF OwnershipInvariant, TypeOK, ScriptOK
  <2>3. Qinq /\ env = run /\ json = run =>
           /\ Suffix(json) \notin zones
           /\ \A n \in Nets : NoVnet(n) /\ <<Suffix(json), n>> \notin bridges
    BY <2>2 DEF Unlinked
  <2> QED
    BY <2>1, <2>3 DEF Gone, NoVnet
<1> QED
  BY <1>1, <1>2, <1>3, <1>4, OwnershipHolds, PTL DEF Spec
-----------------------------------------------------------------------------
(* What create has achieved.                                               *)

(* The steps of create behind its clone loop.                              *)
LEMMA LoopSteps ==
    ASSUME [Next]_vars, pc' \in AfterClone
    PROVE  \/ RecordCloned \/ CreateZone \/ RecordZone \/ RecordVnet \/ ApplySdn \/ WaitVnets
           \/ RecordConfigured \/ RecordStarted
           \/ \E h \in Hosts : AttachNics(h) \/ StartVm(h)
           \/ \E n \in Nets : CreateVnet(n)
           \/ UNCHANGED <<zones, vnets, bridges, fileVars, scriptVars>>
<1>1. CASE CreateStep
  BY <1>1 DEF CreateStep, RenderJson, RenderEnv, InitState, CloneVm, CreateDone, CreateFails,
     RenderEnvFails, CreateTrap, Goto, Enter, Mark, End, AfterClone
<1>2. CASE DestroyStep
  BY <1>2 DEF DestroyStep, DestroyBegin, CheckEnv, VerifyTargets, WorkerStep, StartWorker,
     WorkerCheck, WorkerStop, WorkerRemove, FlushStatus, JoinWorkers, FlushDone, DeleteVnet,
     RecordVnetDeleted, DeleteZone, RecordZoneDeleted, ApplyDeletion, DestroyDone,
     Goto, Enter, End, AfterClone
<1>3. CASE Environment
  BY <1>3 DEF Environment, StartCreate, StartDestroy, Kill, KillInWrite, Checkout,
     ForeignAppears, ForeignLeaves, End, scriptVars, AfterClone
<1>4. CASE UNCHANGED vars
  BY <1>4 DEF vars, pveVars
<1> QED
  BY <1>1, <1>2, <1>3, <1>4 DEF Next

(* A VM keeps its name, its NICs and its power, but for the VM a worker of *)
(* destroy is at.                                                          *)
LEMMA Equipment ==
    ASSUME OwnershipInvariant, [Next]_vars, NEW v \in Vmids, vm[v] \in VMs
    PROVE  \/ /\ vm'[v] \in VMs /\ vm'[v].run = vm[v].run /\ vm'[v].host = vm[v].host
              /\ (vm[v].nics => vm'[v].nics) /\ (vm[v].on => vm'[v].on)
           \/ /\ pc = "d_work" /\ run \in Runs /\ TargetRun \in Runs
              /\ \E h \in AllHosts : vm[v] \in Named(TargetRun, h)
<1> USE DEF OwnershipInvariant, TypeOK, PveOK
<1>1. CASE vm'[v] = vm[v]
  BY <1>1
<1>2. ASSUME NEW h \in Hosts, CloneVm(h)
      PROVE  vm'[v] = vm[v]
  BY <1>2, MarkerAssumption DEF CloneVm
<1>3. ASSUME NEW h \in Hosts, AttachNics(h) \/ StartVm(h)
      PROVE  /\ vm'[v] \in VMs /\ vm'[v].run = vm[v].run /\ vm'[v].host = vm[v].host
             /\ (vm[v].nics => vm'[v].nics) /\ (vm[v].on => vm'[v].on)
  <2>1. \/ vm'[v] = vm[v]
        \/ vm'[v] = [vm[v] EXCEPT !.nics = TRUE]
        \/ vm'[v] = [vm[v] EXCEPT !.on = TRUE]
    BY <1>3 DEF AttachNics, StartVm
  <2> QED
    BY <2>1 DEF VMs
<1>4. ASSUME NEW h \in AllHosts, WorkerStop(h) \/ WorkerRemove(h)
      PROVE  \/ vm'[v] = vm[v]
             \/ /\ pc = "d_work" /\ run \in Runs /\ TargetRun \in Runs
                /\ vm[v] \in Named(TargetRun, h)
  <2>1. pc = "d_work" /\ worker[h] \in {"stop", "remove"} /\ run \in Runs
    BY <1>4 DEF WorkerStop, WorkerRemove, ScriptOK
  <2>2. TargetRun \in Runs /\ vm[VmidOf(TargetRun, h)] \in Named(TargetRun, h)
    BY <2>1, TargetType DEF WorkersOK
  <2>3. v # VmidOf(TargetRun, h) => vm'[v] = vm[v]
    BY <1>4 DEF WorkerStop, WorkerRemove
  <2> QED
    BY <2>1, <2>2, <2>3
<1>5. ASSUME NEW w \in ForeignVmids, ForeignAppears(w) \/ ForeignLeaves(w)
      PROVE  vm'[v] = vm[v]
  BY <1>5, MarkerAssumption DEF ForeignAppears, ForeignLeaves
<1> QED
  BY <1>1, <1>2, <1>3, <1>4, <1>5, VmSteps

(* The VMs of create itself.                                               *)
LEMMA OwnEquipment ==
    ASSUME OwnershipInvariant, [Next]_vars, pc \in AfterClone, NEW h \in Hosts
    PROVE  /\ VmidOf(run, h) \in Vmids
           /\ vm[VmidOf(run, h)] \in Named(run, h)
           /\ vm[VmidOf(run, h)] \in VMs
           /\ Attached(h) => vm'[VmidOf(run, h)].nics
           /\ Started(h) => vm'[VmidOf(run, h)].on
<1>1. run \in Runs /\ h \in AllHosts /\ pc # "d_work"
  BY DEF OwnershipInvariant, TypeOK, ScriptOK, AfterClone, AllHosts
<1>2. /\ VmidOf(run, h) \in Vmids /\ vm[VmidOf(run, h)] \in Named(run, h)
      /\ vm[VmidOf(run, h)] \in VMs
  BY <1>1, Names DEF OwnershipInvariant, ClonedOK
<1> QED
  BY <1>1, <1>2, Equipment DEF Attached, Started

LEMMA NetworkedStep ==
    ASSUME OwnershipInvariant, Networked, [Next]_vars
    PROVE  Networked'
<1> USE DEF OwnershipInvariant, TypeOK
<1>1. CASE pc' \notin AfterClone
  BY <1>1 DEF Networked, AfterClone
<1>2. CASE RecordCloned
  BY <1>2 DEF RecordCloned, RecordVm, Enter, Networked
<1>3. CASE CreateZone \/ RecordZone
  BY <1>3 DEF CreateZone, RecordZone, Mark, Enter, Networked
<1>4. ASSUME NEW n \in Nets, CreateVnet(n)
      PROVE  Networked'
  <2>1. /\ pc = "vnet" /\ pc' = "vnet_rec" /\ UNCHANGED <<run, todo>> /\ cur'.item = n
        /\ vnets' = vnets \cup {Vnet(n)}
    BY <1>4 DEF CreateVnet, Mark, Vnet
  <2>2. \A m \in Nets \ todo : Vnet(m) \in vnets
    BY <2>1 DEF Networked
  <2> QED
    BY <2>1, <2>2 DEF Networked, Vnet
<1>5. CASE RecordVnet
  <2>1. /\ pc = "vnet_rec" /\ UNCHANGED <<run, vnets>>
        /\ \/ pc' = "apply" /\ todo = {cur.item}
           \/ pc' = "vnet" /\ todo' = todo \ {cur.item}
    BY <1>5 DEF RecordVnet, Enter, pveVars
  <2>2. \A n \in (Nets \ todo) \cup {cur.item} : Vnet(n) \in vnets
    BY <2>1 DEF Networked
  <2> QED
    BY <2>1, <2>2 DEF Networked, Vnet
<1>6. CASE ApplySdn
  BY <1>6 DEF ApplySdn, Goto, Networked, Vnet
<1>7. CASE WaitVnets
  BY <1>7 DEF WaitVnets, Enter, pveVars, Networked, Vnet, SdnUp
<1>8. CASE RecordConfigured \/ RecordStarted \/ \E h \in Hosts : AttachNics(h) \/ StartVm(h)
  <2>1. /\ pc \in {"nics", "nics_rec", "start", "start_rec"}
        /\ pc' \in {"nics", "nics_rec", "start", "start_rec", "created", "trap"}
        /\ UNCHANGED <<run, vnets, bridges>>
    BY <1>8 DEF RecordConfigured, RecordStarted, RecordVm, AttachNics, StartVm, Enter, Mark,
       pveVars
  <2> QED
    BY <2>1 DEF Networked, Vnet, SdnUp
<1>9. CASE UNCHANGED <<zones, vnets, bridges, fileVars, scriptVars>>
  BY <1>9 DEF Networked, Vnet, SdnUp, scriptVars
<1> QED
  BY <1>1, <1>2, <1>3, <1>4, <1>5, <1>6, <1>7, <1>8, <1>9, LoopSteps

LEMMA EquippedStep ==
    ASSUME OwnershipInvariant, Equipped, [Next]_vars
    PROVE  Equipped'
<1> USE DEF OwnershipInvariant, TypeOK
<1> DEFINE Late == {"nics", "nics_rec", "start", "start_rec", "created"}
<1>1. CASE pc' \notin Late
  BY <1>1 DEF Equipped
<1>2. CASE pc' = "nics" /\ todo' = Hosts
  BY <1>2 DEF Equipped
<1>3. ASSUME NEW h \in Hosts, AttachNics(h)
      PROVE  Equipped'
  <2>1. /\ pc = "nics" /\ pc' = "nics_rec" /\ UNCHANGED <<run, todo>> /\ cur'.item = h
        /\ vm' = [vm EXCEPT ![VmidOf(run, h)].nics = TRUE]
    BY <1>3 DEF AttachNics, Mark
  <2>2. \A k \in Hosts \ todo : vm'[VmidOf(run, k)].nics
    BY <2>1, OwnEquipment DEF Equipped, AfterClone
  <2>3. vm'[VmidOf(run, h)].nics
    BY <2>1, OwnEquipment DEF AfterClone, VMs, PveOK
  <2> QED
    BY <2>1, <2>2, <2>3 DEF Equipped, Attached
<1>4. CASE RecordConfigured \/ RecordStarted \/ (\E h \in Hosts : StartVm(h))
           \/ UNCHANGED <<zones, vnets, bridges, fileVars, scriptVars>>
  <2>1. /\ run' = run
        /\ \/ pc = "nics_rec" /\ pc' = "start" /\ todo = {cur.item}
           \/ pc = "nics_rec" /\ pc' = "nics" /\ todo' = todo \ {cur.item}
           \/ pc \in {"start", "start_rec", "created"} /\ pc' \in {"start", "start_rec", "created"}
           \/ UNCHANGED <<pc, todo, cur>>
    BY <1>4 DEF RecordConfigured, RecordStarted, RecordVm, StartVm, Enter, Mark, scriptVars
  <2>2. \A h \in Hosts : pc \in AfterClone /\ Attached(h) => Attached(h)'
    BY <2>1, OwnEquipment DEF Attached
  <2>3. CASE pc = "nics_rec" /\ pc' = "start" /\ todo = {cur.item}
    <3>1. \A h \in Hosts : Attached(h)
      BY <2>3 DEF Equipped
    <3> QED
      BY <2>2, <2>3, <3>1 DEF Equipped, AfterClone
  <2>4. CASE pc = "nics_rec" /\ pc' = "nics" /\ todo' = todo \ {cur.item}
    <3>1. \A h \in Hosts \ todo' : Attached(h)
      BY <2>4 DEF Equipped
    <3> QED
      BY <2>2, <2>4, <3>1 DEF Equipped, AfterClone
  <2>5. CASE /\ pc \in {"start", "start_rec", "created"}
             /\ pc' \in {"start", "start_rec", "created"}
    BY <2>2, <2>5 DEF Equipped, AfterClone
  <2>6. CASE UNCHANGED <<pc, todo, cur>>
    <3>1. pc = "nics_rec" => cur.item \in Hosts
      BY DEF MarkOK
    <3> QED
      BY <2>2, <2>6, <3>1 DEF Equipped, AfterClone
  <2> QED
    BY <2>1, <2>3, <2>4, <2>5, <2>6
<1>5. CASE RecordCloned \/ WaitVnets
  <2>1. pc' \notin Late \/ (pc' = "nics" /\ todo' = Hosts)
    BY <1>5 DEF RecordCloned, RecordVm, WaitVnets, Enter
  <2> QED
    BY <2>1, <1>1, <1>2
<1>6. CASE CreateZone \/ RecordZone \/ RecordVnet \/ ApplySdn \/ \E n \in Nets : CreateVnet(n)
  BY <1>1, <1>6 DEF CreateZone, RecordZone, RecordVnet, ApplySdn, CreateVnet, Mark, Enter, Goto
<1> QED
  BY <1>1, <1>3, <1>4, <1>5, <1>6, LoopSteps DEF AfterClone
(* The record of a started VM.                                             *)
LEMMA StartedRecord ==
    ASSUME OwnershipInvariant, Filled, RecordStarted
    PROVE  /\ pc = "start_rec" /\ run' = run /\ UNCHANGED pveVars
           /\ \/ pc' = "created" /\ todo = {cur.item}
              \/ pc' = "start" /\ todo' = todo \ {cur.item}
           /\ cur.item \in Hosts /\ state.vms \in [AllHosts -> VmStatus]
           /\ state'.vms = [state.vms EXCEPT ![cur.item] = cur.status]
<1>1. /\ pc = "start_rec" /\ run' = run /\ UNCHANGED pveVars
      /\ \/ pc' = "created" /\ todo = {cur.item}
         \/ pc' = "start" /\ todo' = todo \ {cur.item}
      /\ StateVm(cur.item, cur.status)
  BY DEF RecordStarted, RecordVm, Enter
<1>2. cur.item \in Hosts /\ HasDocument /\ state.run = run /\ FilesOK
  BY <1>1 DEF OwnershipInvariant, MarkOK, TypeOK, Filled, AfterInit, AfterClone
<1>3. state' = SetVm(state, cur.item, cur.status) /\ state \in Document
  BY <1>1, <1>2, OwnCalls
<1> QED
  BY <1>1, <1>2, <1>3 DEF SetVm, Document

LEMMA RunningStep ==
    ASSUME OwnershipInvariant, Filled, Running, [Next]_vars
    PROVE  Running'
<1> USE DEF OwnershipInvariant, TypeOK
<1> DEFINE Last == {"start", "start_rec", "created"}
<1>a. \A h \in Hosts : pc \in Last /\ run' = run /\ Started(h) => Started(h)'
  BY OwnEquipment DEF Started, AfterClone
<1>1. CASE pc' \notin Last
  BY <1>1 DEF Running
<1>2. CASE RecordConfigured
  BY <1>2 DEF RecordConfigured, RecordVm, Enter, Running
<1>3. ASSUME NEW h \in Hosts, StartVm(h)
      PROVE  Running'
  <2>1. /\ pc = "start" /\ pc' = "start_rec" /\ UNCHANGED <<run, todo, state>>
        /\ cur'.item = h /\ cur'.status \in UpStatus
        /\ \/ vm' = vm /\ vm[VmidOf(run, h)].on
           \/ vm' = [vm EXCEPT ![VmidOf(run, h)].on = TRUE]
    BY <1>3 DEF StartVm, Mark, fileVars, UpStatus
  <2>2. vm'[VmidOf(run, h)].on
    BY <2>1, OwnEquipment DEF AfterClone, VMs, PveOK
  <2>3. \A k \in Hosts \ todo : Started(k)' /\ state'.vms[k] \in UpStatus
    BY <1>a, <2>1 DEF Running
  <2> QED
    BY <2>1, <2>2, <2>3 DEF Running, Started, UpStatus
<1>4. CASE RecordStarted
  <2>1. /\ pc = "start_rec" /\ run' = run /\ cur.item \in Hosts /\ UNCHANGED pveVars
        /\ \/ pc' = "created" /\ todo = {cur.item}
           \/ pc' = "start" /\ todo' = todo \ {cur.item}
        /\ state.vms \in [AllHosts -> VmStatus]
        /\ state'.vms = [state.vms EXCEPT ![cur.item] = cur.status]
    BY <1>4, StartedRecord
  <2>2. /\ \A h \in Hosts \ todo : Started(h) /\ state.vms[h] \in UpStatus
        /\ Started(cur.item) /\ cur.status \in UpStatus
    BY <2>1 DEF Running
  <2>3. \A h \in (Hosts \ todo) \cup {cur.item} : Started(h)' /\ state'.vms[h] \in UpStatus
    <3> SUFFICES ASSUME NEW h \in (Hosts \ todo) \cup {cur.item}
                 PROVE  Started(h)' /\ state'.vms[h] \in UpStatus
      OBVIOUS
    <3>1. h \in Hosts /\ Started(h)'
      BY <1>a, <2>1, <2>2
    <3>2. CASE h = cur.item
      BY <2>1, <2>2, <3>1, <3>2 DEF AllHosts
    <3>3. CASE h # cur.item
      BY <2>1, <2>2, <3>1, <3>3 DEF AllHosts
    <3> QED
      BY <3>1, <3>2, <3>3
  <2> QED
    BY <2>1, <2>3 DEF Running, UpStatus
<1>5. CASE UNCHANGED <<zones, vnets, bridges, fileVars, scriptVars>>
  <2>1. UNCHANGED <<run, pc, todo, cur, state>>
    BY <1>5 DEF fileVars, scriptVars
  <2>2. pc = "start_rec" => cur.item \in Hosts
    BY DEF MarkOK
  <2> QED
    BY <1>a, <2>1, <2>2 DEF Running, UpStatus
<1>6. CASE RecordCloned \/ WaitVnets \/ CreateZone \/ RecordZone \/ RecordVnet \/ ApplySdn
           \/ (\E n \in Nets : CreateVnet(n)) \/ \E h \in Hosts : AttachNics(h)
  BY <1>1, <1>6 DEF RecordCloned, RecordVm, WaitVnets, CreateZone, RecordZone, RecordVnet,
     ApplySdn, CreateVnet, AttachNics, Mark, Enter, Goto
<1> QED
  BY <1>1, <1>2, <1>3, <1>4, <1>5, <1>6, LoopSteps DEF AfterClone
(* What create has built when it records "created".                        *)
LEMMA CreatedReady ==
    ASSUME OwnershipInvariant, Filled, Networked, Equipped, Running, CreateDone
    PROVE  CreatedStays'
<1>1. /\ pc = "created" /\ StatePhase("created") /\ UNCHANGED pveVars
      /\ run \in Runs /\ FilesOK
  BY DEF CreateDone, OwnershipInvariant, TypeOK, ScriptOK
<1>2. HasDocument /\ state.run = run
  BY <1>1 DEF Filled, AfterInit, AfterClone
<1>3. state' = SetPhase(state, "created") /\ state \in Document
  BY <1>1, <1>2, OwnCalls DEF Phase
<1>4. state'.run = run /\ state'.vms = state.vms
  BY <1>2, <1>3 DEF SetPhase, Document
<1>5. ASSUME NEW h \in Hosts
      PROVE  /\ vm[VmidOf(run, h)] \in Named(run, h)
             /\ vm[VmidOf(run, h)].nics /\ vm[VmidOf(run, h)].on
             /\ state.vms[h] \in UpStatus
  BY <1>1 DEF OwnershipInvariant, ClonedOK, AfterClone, Equipped, Running, Attached, Started
<1>6. Qinq => \A n \in Nets : <<Suffix(run), n>> \in vnets \cap bridges
  BY <1>1 DEF Networked, SdnUp, Vnet
<1> QED
  BY <1>1, <1>4, <1>5, <1>6 DEF CreatedStays, pveVars, UpStatus

(* A call by destroy, past its first, makes no document "created".         *)
LEMMA NeverCreatedAgain ==
    ASSUME OwnershipInvariant, Filled, pc \in DestroyPcs \ {"d_begin"}, DestroyCall
    PROVE  UNCHANGED state \/ state'.phase # "created"
<1>1. FilesOK /\ run \in Runs /\ (state = Absent => json # run)
      /\ (HasDocument => (state.run = run => state.phase # "created"))
  BY DEF OwnershipInvariant, TypeOK, ScriptOK, Filled, DestroyPcs
<1>2. CASE HasDocument /\ state.run = run
  <2>1. \/ \E p \in Phase \ {"created"} : state' = SetPhase(state, p)
        \/ \E h \in AllHosts, s \in VmStatus : state' = SetVm(state, h, s)
        \/ \E s \in SdnStatus : state' = SetZone(state, s)
        \/ \E n \in Nets, s \in SdnStatus : state' = SetVnet(state, n, s)
    BY <1>1, <1>2, OwnCalls DEF DestroyCall, Phase
  <2>2. state \in Document
    BY <1>1, <1>2, OwnCalls
  <2> QED
    BY <1>1, <1>2, <2>1, <2>2 DEF SetPhase, SetVm, SetZone, SetVnet, Document
<1>3. CASE ~(HasDocument /\ state.run = run)
  BY <1>1, <1>3, OtherCalls DEF DestroyCall, Phase
<1> QED
  BY <1>2, <1>3

(* Only the end of a create makes a document "created".                    *)
LEMMA PhaseSteps ==
    ASSUME OwnershipInvariant, Filled, [Next]_vars, HasDocument', state'.phase = "created"
    PROVE  UNCHANGED state \/ CreateDone
<1> USE DEF OwnershipInvariant, TypeOK
<1>1. CASE UNCHANGED fileVars \/ RenderJson \/ RenderEnv \/ KillInWrite \/ Checkout
  BY <1>1 DEF fileVars, RenderJson, RenderEnv, KillInWrite, Checkout, HasDocument
<1>2. CASE InitState
  <2>1. state' = state \/ state' = InitDocument(run, state)
    BY <1>2 DEF InitState
  <2>2. InitDocument(run, state).phase = "rendered"
    BY DEF InitDocument, TopologyDocument
  <2> QED
    BY <2>1, <2>2
<1>3. CASE RecordCloned \/ RecordZone \/ RecordVnet \/ RecordConfigured \/ RecordStarted
  <2>1. pc' \in AfterInit
    BY <1>3 DEF RecordCloned, RecordZone, RecordVnet, RecordConfigured, RecordStarted,
       RecordVm, Enter, AfterInit, AfterClone
  <2> QED
    BY <1>3, <2>1, FilledRecord DEF Filled
<1>4. CASE CreateTrap \/ DestroyBegin
  <2>1. /\ Own \in Document \cup {Absent}
        /\ \E p \in Phase \ {"created"} : StatePhase(p)
    BY <1>4, OwnType DEF CreateTrap, DestroyBegin, ScriptOK, Phase
  <2> QED
    BY <2>1 DEF StatePhase, SetPhase, Document
<1>5. CASE VerifyTargets \/ RecordVnetDeleted \/ RecordZoneDeleted \/ DestroyDone
           \/ \E h \in AllHosts : FlushStatus(h)
  <2>1. pc \in DestroyPcs \ {"d_begin"}
    BY <1>5 DEF VerifyTargets, RecordVnetDeleted, RecordZoneDeleted, DestroyDone, FlushStatus,
       DestroyPcs
  <2>2. UNCHANGED state \/ DestroyCall
    BY <1>5 DEF VerifyTargets, RecordVnetDeleted, RecordZoneDeleted, DestroyDone, FlushStatus,
       IsNext, DestroyCall, MarkOK, WorkersOK, Reports, VmStatus
  <2> QED
    BY <2>1, <2>2, NeverCreatedAgain
<1> QED
  BY <1>1, <1>2, <1>3, <1>4, <1>5, FileSteps

(* The run a worker is at is never one whose document says "created".      *)
LEMMA WorkersElsewhere ==
    ASSUME OwnershipInvariant, Filled, (\A r, q \in Runs : r = q) \/ FilesAgree,
           pc \in DestroyPcs \ {"d_begin", "d_env"}, HasDocument, state.phase = "created"
    PROVE  TargetRun # state.run /\ run # state.run /\ state.run \in Runs
<1>1. run \in Runs /\ state \in Document /\ state.run # run /\ FilesOK
  BY DEF OwnershipInvariant, TypeOK, ScriptOK, FilesOK, Filled, HasDocument, DestroyPcs
<1>2. state.run \in Runs
  BY <1>1 DEF Document
<1>3. TargetRun = run
  BY <1>1, <1>2 DEF FilesAgree, FilesOK, TargetRun
<1> QED
  BY <1>1, <1>2, <1>3

(* Nothing takes its VNets from a created run.                             *)
LEMMA CreatedKeepsVnets ==
    ASSUME OwnershipInvariant, Filled, CreatedStays, [Next]_vars,
           \/ \A r, q \in Runs : r = q
           \/ /\ FilesAgree /\ Verified
              /\ \A r, q \in Runs : Suffix(r) = Suffix(q) => r % VmidRange = q % VmidRange,
           HasDocument, state.phase = "created", Qinq, NEW n \in Nets
    PROVE  <<Suffix(state.run), n>> \in vnets' \cap bridges'
<1> USE DEF OwnershipInvariant, TypeOK
<1> DEFINE vnet == <<Suffix(state.run), n>>
<1>1. vnet \in vnets /\ vnet \in bridges
  BY DEF CreatedStays
<1>2. CASE UNCHANGED <<zones, vnets, bridges>> \/ CreateZone \/ ApplySdn \/ DeleteZone
           \/ ApplyDeletion \/ \E m \in Nets : CreateVnet(m)
  BY <1>1, <1>2 DEF CreateZone, ApplySdn, DeleteZone, ApplyDeletion, CreateVnet
<1>3. ASSUME NEW m \in Nets, DeleteVnet(m)
      PROVE  vnet \in vnets' /\ vnet \in bridges'
  <2>1. /\ pc = "d_vnet" /\ bridges' = bridges
        /\ vnets' = vnets \/ vnets' = vnets \ {<<Suffix(json), m>>}
    BY <1>3 DEF DeleteVnet
  <2>2. TargetRun # state.run /\ run # state.run /\ state.run \in Runs /\ run \in Runs
    BY <2>1, WorkersElsewhere DEF DestroyPcs, ScriptOK
  <2>3. FilesAgree /\ Verified
    BY <2>2
  <2>4. json = run /\ json \in Runs
    BY <2>1, <2>3 DEF FilesAgree, Verified, DestroyPcs
  <2>5. CASE Suffix(state.run) # Suffix(run)
    BY <1>1, <2>1, <2>4, <2>5
  <2>6. CASE Suffix(state.run) = Suffix(run)
    <3>1. PICK h \in Hosts : TRUE
      BY ConstantsAssumption
    <3>2. VmidOf(state.run, h) = VmidOf(run, h)
      BY <2>2, <2>6 DEF VmidOf
    <3>3. vm[VmidOf(run, h)] \in Named(state.run, h)
      BY <3>2 DEF CreatedStays
    <3>4. vm[VmidOf(run, h)] \in Named(run, h) \cup {Absent, Foreign}
      BY <2>1, <2>3, <2>4 DEF Verified
    <3>5. h \in AllHosts
      BY DEF AllHosts
    <3>6. FALSE
      BY <2>2, <3>3, <3>4, <3>5, Names, NamedIsOurs
    <3> QED
      BY <3>6
  <2> QED
    BY <2>5, <2>6
<1> QED
  BY <1>2, <1>3, SdnSteps

LEMMA CreatedStaysStep ==
    ASSUME OwnershipInvariant, Filled, Networked, Equipped, Running, CreatedStays, [Next]_vars,
           \/ \A r, q \in Runs : r = q
           \/ /\ FilesAgree /\ Verified
              /\ \A r, q \in Runs : Suffix(r) = Suffix(q) => r % VmidRange = q % VmidRange
    PROVE  CreatedStays'
<1>1. CASE CreateDone
  BY <1>1, CreatedReady
<1>2. CASE ~(HasDocument' /\ state'.phase = "created")
  BY <1>2 DEF CreatedStays
<1>3. CASE UNCHANGED state /\ HasDocument /\ state.phase = "created"
  <2>1. ASSUME NEW h \in Hosts
        PROVE  /\ vm'[VmidOf(state.run, h)] \in Named(state.run, h)
               /\ vm'[VmidOf(state.run, h)].nics /\ vm'[VmidOf(state.run, h)].on
               /\ state.vms[h] \in UpStatus
    <3> DEFINE v == VmidOf(state.run, h)
    <3>1. state.run \in Runs /\ h \in AllHosts
      BY <1>3 DEF OwnershipInvariant, TypeOK, FilesOK, HasDocument, Document, AllHosts
    <3>2. /\ vm[v] \in Named(state.run, h) /\ vm[v].nics /\ vm[v].on
          /\ state.vms[h] \in UpStatus
      BY <1>3 DEF CreatedStays
    <3>3. v \in Vmids /\ vm[v] \in VMs /\ vm[v].run = state.run
      BY <3>1, <3>2, Names
    <3>4. CASE /\ vm'[v] \in VMs /\ vm'[v].run = vm[v].run /\ vm'[v].host = vm[v].host
               /\ (vm[v].nics => vm'[v].nics) /\ (vm[v].on => vm'[v].on)
      <4>1. vm'[v] \in Named(state.run, h)
        BY <3>1, <3>2, <3>4 DEF Named, VMs
      <4> QED
        BY <3>2, <3>4, <4>1
    <3>5. CASE /\ pc = "d_work" /\ run \in Runs /\ TargetRun \in Runs
               /\ \E k \in AllHosts : vm[v] \in Named(TargetRun, k)
      <4>1. TargetRun # state.run
        BY <1>3, <3>5, WorkersElsewhere DEF DestroyPcs
      <4> QED
        BY <3>3, <3>5, <4>1, Names
    <3> QED
      BY <3>3, <3>4, <3>5, Equipment
  <2>2. Qinq => \A n \in Nets : <<Suffix(state.run), n>> \in vnets' \cap bridges'
    BY <1>3, CreatedKeepsVnets
  <2> QED
    BY <1>3, <2>1, <2>2 DEF CreatedStays
<1> QED
  BY <1>1, <1>2, <1>3, PhaseSteps DEF HasDocument

(* A run-state.json that says "created" is right at every moment until it  *)
(* says something else: the run's VMs exist under their names, have their  *)
(* NICs and run, and in qinq mode their VNets are on the host; for any     *)
(* hosts and networks, with other users, workers and failures at work.     *)
(* Either there is one run only, or the topology files are written         *)
(* together, no status query fails and runs that share their SDN names     *)
(* share their VMIDs, as with ranges of 50000 and 1000000.                 *)
THEOREM CreatedIsReady ==
    ASSUME \/ \A r, q \in Runs : r = q
           \/ /\ ~TornRender /\ ~QueryErrors
              /\ \A r, q \in Runs : Suffix(r) = Suffix(q) => r % VmidRange = q % VmidRange
    PROVE  Spec => []CreatedMeansReady
<1> DEFINE Progress == Filled /\ Networked /\ Equipped /\ Running
           SameIds == \A r, q \in Runs : Suffix(r) = Suffix(q) => r % VmidRange = q % VmidRange
<1>1. Init => Progress /\ CreatedStays /\ Verified
  BY DEF Init, Filled, Networked, Equipped, Running, CreatedStays, Verified, HasDocument,
     AfterInit, AfterClone, DestroyPcs
<1>2. OwnershipInvariant /\ Progress /\ [Next]_vars => Progress'
  BY FilledStep, NetworkedStep, EquippedStep, RunningStep
<1>3. CreatedStays => CreatedMeansReady
  BY DEF CreatedStays, CreatedMeansReady, HasDocument, SdnUp, UpStatus
<1>4. CASE \A r, q \in Runs : r = q
  <2>1. OwnershipInvariant /\ Progress /\ CreatedStays /\ [Next]_vars => CreatedStays'
    BY <1>4, CreatedStaysStep
  <2> QED
    BY <1>1, <1>2, <1>3, <2>1, OwnershipHolds, PTL DEF Spec
<1>5. CASE ~TornRender /\ ~QueryErrors /\ SameIds
  <2>1. OwnershipInvariant /\ FilesAgree /\ Verified /\ [Next]_vars => Verified'
    BY <1>5, VerifiedStep
  <2>2. OwnershipInvariant /\ FilesAgree /\ Verified /\ Progress /\ CreatedStays /\ [Next]_vars
           => CreatedStays'
    BY <1>5, CreatedStaysStep
  <2>3. Spec => []FilesAgree
    BY <1>5, FilesAgreeHolds
  <2> QED
    BY <1>1, <1>2, <1>3, <2>1, <2>2, <2>3, OwnershipHolds, PTL DEF Spec
<1> QED
  BY <1>4, <1>5
-----------------------------------------------------------------------------
(* What lets create be run again.                                          *)

(* No file a later script must read was cut off in its writing.            *)
Untorn == json # Torn /\ state # Torn

(* A call leaves the file as it was or writes a whole document.            *)
LEMMA CallsWriteDocuments ==
    ASSUME FilesOK, run \in Runs,
           \/ \E p \in Phase : StatePhase(p)
           \/ \E h \in AllHosts, s \in VmStatus : StateVm(h, s)
           \/ \E s \in SdnStatus : StateZone(s)
           \/ \E n \in Nets, s \in SdnStatus : StateVnet(n, s)
    PROVE  state' = state \/ state' \in Document
<1>1. Own \in Document \cup {Absent}
  BY OwnType
<1> QED
  BY <1>1, DocumentOperations DEF StatePhase, StateVm, StateZone, StateVnet

LEMMA UntornStep ==
    ASSUME ~TornWrite, OwnershipInvariant, Untorn, [Next]_vars
    PROVE  Untorn'
<1> USE DEF OwnershipInvariant, TypeOK
<1>1. CASE UNCHANGED fileVars \/ Checkout
  BY <1>1, MarkerAssumption DEF fileVars, Checkout, Untorn
<1>2. CASE RenderJson \/ RenderEnv
  BY <1>2, MarkerAssumption DEF RenderJson, RenderEnv, ScriptOK, Untorn
<1>3. CASE InitState
  <2>1. json' = json /\ run \in Runs /\ state \in Document \cup {Absent}
        /\ state' = InitDocument(run, state)
    BY <1>3 DEF InitState, ScriptOK, FilesOK, Untorn
  <2> QED
    BY <2>1, InitDocumentType, MarkerAssumption DEF Untorn
<1>4. CASE KillInWrite
  BY <1>4 DEF KillInWrite, Untorn
<1>5. ASSUME UNCHANGED json, run \in Runs,
             \/ state' = state
             \/ \E p \in Phase : StatePhase(p)
             \/ \E h \in AllHosts, s \in VmStatus : StateVm(h, s)
             \/ \E s \in SdnStatus : StateZone(s)
             \/ \E n \in Nets, s \in SdnStatus : StateVnet(n, s)
      PROVE  Untorn'
  <2>1. state' = state \/ state' \in Document
    BY <1>5, CallsWriteDocuments
  <2> QED
    BY <1>5, <2>1, MarkerAssumption DEF Untorn
<1>6. CASE UNCHANGED <<json, env>> /\ (RecordCloned \/ RecordConfigured \/ RecordStarted)
  <2>1. /\ run \in Runs /\ StateVm(cur.item, cur.status)
        /\ cur.item \in AllHosts /\ cur.status \in VmStatus
    BY <1>6 DEF RecordCloned, RecordConfigured, RecordStarted, RecordVm, ScriptOK, MarkOK,
       AllHosts
  <2> QED
    BY <1>5, <1>6, <2>1
<1>7. CASE /\ UNCHANGED <<json, env>>
           /\ RecordZone \/ RecordVnet \/ RecordZoneDeleted \/ RecordVnetDeleted
  <2>1. /\ run \in Runs
        /\ (\E s \in SdnStatus : StateZone(s)) \/ \E n \in Nets, s \in SdnStatus : StateVnet(n, s)
    BY <1>7 DEF RecordZone, RecordVnet, RecordZoneDeleted, RecordVnetDeleted, ScriptOK, MarkOK
  <2> QED
    BY <1>5, <1>7, <2>1
<1>8. CASE /\ UNCHANGED <<json, env>>
           /\ CreateDone \/ CreateTrap \/ DestroyBegin \/ VerifyTargets \/ DestroyDone
  <2>1. run \in Runs /\ (state' = state \/ \E p \in Phase : StatePhase(p))
    BY <1>8 DEF CreateDone, CreateTrap, DestroyBegin, VerifyTargets, DestroyDone, ScriptOK, Phase
  <2> QED
    BY <1>5, <1>8, <2>1
<1>9. ASSUME UNCHANGED <<json, env>>, NEW h \in AllHosts, FlushStatus(h)
      PROVE  Untorn'
  <2>1. run \in Runs /\ worker[h] \in Reports
    BY <1>9 DEF FlushStatus, IsNext, ScriptOK, WorkersOK
  <2>2. (\E p \in Phase : StatePhase(p)) \/ \E s \in VmStatus : StateVm(h, s)
    BY <1>9, <2>1 DEF FlushStatus, Reports, Phase, VmStatus
  <2> QED
    BY <1>5, <1>9, <2>1, <2>2
<1> QED
  BY <1>1, <1>2, <1>3, <1>4, <1>6, <1>7, <1>8, <1>9, FileSteps

(* While no script is killed inside the writing of a JSON file, nothing a  *)
(* script leaves behind keeps a later create from coming through: create   *)
(* fails only when a command of its own does or someone else holds one of  *)
(* its VMIDs, for any runs and hosts and any history of scripts.           *)
THEOREM CreateIsRerunnable == ~TornWrite => (Spec => CreateRerunnable)
<1> SUFFICES ASSUME ~TornWrite PROVE Spec => CreateRerunnable
  OBVIOUS
<1>1. Init => Untorn
  BY MarkerAssumption DEF Init, Untorn
<1>2. OwnershipInvariant /\ Untorn /\ [Next]_vars => Untorn'
  BY UntornStep
<1>3. ASSUME Untorn, [Next]_vars
      PROVE  [pc # "trap" /\ pc' = "trap" =>
                err' \/ \E h \in Hosts : vm[VmidOf(run, h)] \notin Named(run, h) \cup {Absent}]_vars
  <2> SUFFICES ASSUME pc # "trap", pc' = "trap"
               PROVE  err' \/ \E h \in Hosts :
                         vm[VmidOf(run, h)] \notin Named(run, h) \cup {Absent}
    OBVIOUS
  <2>1. CASE CreateStep
    <3>1. ASSUME NEW h \in Hosts, CloneVm(h)
          PROVE  vm[VmidOf(run, h)] \notin Named(run, h) \cup {Absent}
      BY <3>1 DEF CloneVm, Mark
    <3>2. CASE CreateFails \/ RenderEnvFails
      BY <3>2 DEF CreateFails, RenderEnvFails
    <3>3. ~(RenderJson \/ RenderEnv \/ InitState)
      BY <1>3 DEF RenderJson, RenderEnv, InitState, Goto, Enter, Untorn
    <3>4. ~(\E h \in Hosts : AttachNics(h) \/ StartVm(h)) /\ ~(\E n \in Nets : CreateVnet(n))
      BY DEF AttachNics, StartVm, CreateVnet, Mark
    <3>5. ~(CreateZone \/ RecordZone \/ RecordVnet \/ ApplySdn \/ WaitVnets)
      BY DEF CreateZone, RecordZone, RecordVnet, ApplySdn, WaitVnets, Mark, Enter, Goto
    <3>6. ~(RecordCloned \/ RecordConfigured \/ RecordStarted \/ CreateDone \/ CreateTrap)
      BY DEF RecordCloned, RecordConfigured, RecordStarted, RecordVm, CreateDone, CreateTrap,
         Enter, End
    <3> QED
      BY <2>1, <3>1, <3>2, <3>3, <3>4, <3>5, <3>6 DEF CreateStep
  <2>2. CASE DestroyStep
    BY <2>2 DEF DestroyStep, DestroyBegin, CheckEnv, VerifyTargets, WorkerStep, StartWorker,
       WorkerCheck, WorkerStop, WorkerRemove, FlushStatus, JoinWorkers, FlushDone, DeleteVnet,
       RecordVnetDeleted, DeleteZone, RecordZoneDeleted, ApplyDeletion, DestroyDone,
       Goto, Enter, End
  <2>3. CASE Environment
    BY <2>3 DEF Environment, StartCreate, StartDestroy, Kill, KillInWrite, Checkout,
       ForeignAppears, ForeignLeaves, End, scriptVars
  <2>4. CASE UNCHANGED vars
    BY <2>4 DEF vars, scriptVars
  <2> QED
    BY <1>3, <2>1, <2>2, <2>3, <2>4 DEF Next
<1> QED
  BY <1>1, <1>2, <1>3, OwnershipHolds, PTL DEF Spec, CreateRerunnable
=============================================================================
