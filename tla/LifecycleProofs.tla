-------------------------- MODULE LifecycleProofs ---------------------------
(***************************************************************************)
(* Proofs about Lifecycle, for every value of its constants.               *)
(***************************************************************************)
EXTENDS Lifecycle, TLAPS

(* VMIDs, SDN suffixes and VM names of known runs and hosts.               *)
LEMMA Names ==
    ASSUME NEW r \in Runs, NEW h \in AllHosts
    PROVE  /\ VmidOf(r, h) \in Vmids
           /\ Suffix(r) \in Suffixes
           /\ Named(r, h) \subseteq VMs
           /\ \A x \in Named(r, h) : x.run = r /\ x.host = h
  BY DEF Vmids, Suffixes, Named, VMs

(* The operations of run-state.py keep a document a document.              *)
LEMMA DocumentOperations ==
    ASSUME NEW d \in Document
    PROVE  /\ \A p \in Phase : SetPhase(d, p) \in Document
           /\ \A h \in AllHosts, s \in VmStatus : SetVm(d, h, s) \in Document
           /\ \A s \in SdnStatus : SetZone(d, s) \in Document
           /\ \A n \in Nets, s \in SdnStatus : SetVnet(d, n, s) \in Document
  BY DEF Document, SetPhase, SetVm, SetZone, SetVnet

(* What a rendered topology declares is a document.                        *)
LEMMA TopologyDocumentType ==
    ASSUME NEW r \in Runs, NEW p \in Phase
    PROVE  TopologyDocument(r, p) \in Document
  BY DEF TopologyDocument, Document, VmStatus, SdnStatus

(* init yields a document, whichever document it starts from.              *)
LEMMA InitDocumentType ==
    ASSUME NEW r \in Runs, NEW previous \in Document \cup {Absent}
    PROVE  InitDocument(r, previous) \in Document
<1> DEFINE fresh == TopologyDocument(r, "rendered")
<1>1. fresh \in Document
  BY TopologyDocumentType DEF Phase
<1>2. CASE previous # Absent /\ previous.run = r
  <2> DEFINE kept == [h \in AllHosts |->
                        IF h \in Hosts /\ previous.vms[h] # "unlisted"
                        THEN previous.vms[h] ELSE fresh.vms[h]]
  <2>1. kept \in [AllHosts -> VmStatus]
    BY <1>1, <1>2 DEF Document
  <2>2. [fresh EXCEPT !.vms = kept] \in Document
    BY <1>1, <2>1 DEF Document
  <2> QED
    BY <1>2, <2>2 DEF InitDocument
<1>3. CASE ~(previous # Absent /\ previous.run = r)
  BY <1>1, <1>3 DEF InitDocument
<1> QED
  BY <1>2, <1>3

(* ensure_state yields a document, or dies.                                *)
LEMMA OwnType ==
    ASSUME FilesOK, run \in Runs
    PROVE  Own \in Document \cup {Absent}
  BY TopologyDocumentType DEF FilesOK, Own, EnsureState, Phase

(* The hosts and the run that destroy works on are known ones.             *)
LEMMA TargetType ==
    ASSUME FilesOK, run \in Runs
    PROVE  Targets \subseteq AllHosts /\ TargetRun \in Runs
  BY DEF FilesOK, Targets, TargetRun, AllHosts

(* Every call of a script to run-state.py keeps the file well formed.      *)
LEMMA StateCommands ==
    ASSUME FilesOK, run \in Runs
    PROVE  /\ \A p \in Phase : StatePhase(p) => state' \in Document \cup {Absent, Torn}
           /\ \A h \in AllHosts, s \in VmStatus :
                 StateVm(h, s) => state' \in Document \cup {Absent, Torn}
           /\ \A s \in SdnStatus : StateZone(s) => state' \in Document \cup {Absent, Torn}
           /\ \A n \in Nets, s \in SdnStatus :
                 StateVnet(n, s) => state' \in Document \cup {Absent, Torn}
<1>1. Own \in Document \cup {Absent}
  BY OwnType
<1> QED
  BY <1>1, DocumentOperations DEF FilesOK, StatePhase, StateVm, StateZone, StateVnet
-----------------------------------------------------------------------------
(* The empty host with no script running satisfies the invariant.          *)
LEMMA InitOwnership == Init => OwnershipInvariant
<1> SUFFICES ASSUME Init PROVE OwnershipInvariant
  OBVIOUS
<1>1. PveOK
  BY DEF Init, PveOK
<1>2. FilesOK
  BY DEF Init, FilesOK
<1>3. ScriptOK
  BY DEF Init, ScriptOK, NoMark, NoWorker, WorkerPcs, VmStatus
<1>4. MarkOK /\ WorkersOK /\ ClonedOK
  BY DEF Init, MarkOK, WorkersOK, ClonedOK, NoWorker, AfterClone
<1> QED
  BY <1>1, <1>2, <1>3, <1>4 DEF OwnershipInvariant, TypeOK
-----------------------------------------------------------------------------
(* Which steps move what.                                                  *)

(* The seven kinds of steps that change VMs, each a qm command or someone  *)
(* else's doing.                                                           *)
LEMMA VmSteps ==
    ASSUME [Next]_vars
    PROVE  \/ UNCHANGED vm
           \/ \E h \in Hosts : CloneVm(h) \/ AttachNics(h) \/ StartVm(h)
           \/ \E h \in AllHosts : WorkerStop(h) \/ WorkerRemove(h)
           \/ \E v \in ForeignVmids : ForeignAppears(v) \/ ForeignLeaves(v)
<1>1. CASE UNCHANGED vars
  BY <1>1 DEF vars, pveVars
<1>2. CASE CreateStep
  BY <1>2 DEF CreateStep, RenderJson, RenderEnv, InitState, CreateVnet,
     RecordCloned, RecordVm, CreateZone, RecordZone, RecordVnet, ApplySdn, WaitVnets,
     RecordConfigured, RecordStarted, CreateDone, CreateFails, RenderEnvFails,
     CreateTrap, pveVars
<1>3. CASE DestroyStep
  BY <1>3 DEF DestroyStep, DestroyBegin, CheckEnv, VerifyTargets, WorkerStep,
     StartWorker, WorkerCheck, FlushStatus, JoinWorkers, FlushDone, DeleteVnet,
     RecordVnetDeleted, DeleteZone, RecordZoneDeleted, ApplyDeletion, DestroyDone, pveVars
<1>4. CASE Environment
  BY <1>4 DEF Environment, StartCreate, StartDestroy, Kill, KillInWrite, Checkout, pveVars
<1> QED
  BY <1>1, <1>2, <1>3, <1>4 DEF Next

(* The steps that change the SDN, each a pvesh command.                     *)
LEMMA SdnSteps ==
    ASSUME [Next]_vars
    PROVE  \/ UNCHANGED <<zones, vnets, bridges>>
           \/ CreateZone \/ ApplySdn \/ DeleteZone \/ ApplyDeletion
           \/ \E n \in Nets : CreateVnet(n) \/ DeleteVnet(n)
<1>1. CASE UNCHANGED vars
  BY <1>1 DEF vars, pveVars
<1>2. CASE CreateStep
  BY <1>2 DEF CreateStep, RenderJson, RenderEnv, InitState, CloneVm, AttachNics, StartVm,
     RecordCloned, RecordVm, RecordZone, RecordVnet, WaitVnets,
     RecordConfigured, RecordStarted, CreateDone, CreateFails, RenderEnvFails,
     CreateTrap, pveVars
<1>3. CASE DestroyStep
  BY <1>3 DEF DestroyStep, DestroyBegin, CheckEnv, VerifyTargets, WorkerStep,
     StartWorker, WorkerCheck, WorkerStop, WorkerRemove, FlushStatus, JoinWorkers,
     FlushDone, RecordVnetDeleted, RecordZoneDeleted, DestroyDone, pveVars
<1>4. CASE Environment
  BY <1>4 DEF Environment, StartCreate, StartDestroy, Kill, KillInWrite, Checkout,
     ForeignAppears, ForeignLeaves, pveVars
<1> QED
  BY <1>1, <1>2, <1>3, <1>4 DEF Next

(* The files move in these steps only, each a call of one script command.  *)
LEMMA FileSteps ==
    ASSUME [Next]_vars
    PROVE  \/ UNCHANGED fileVars
           \/ RenderJson \/ RenderEnv \/ InitState \/ KillInWrite \/ Checkout
           \/ /\ UNCHANGED <<json, env>>
              /\ \/ RecordCloned \/ RecordZone \/ RecordVnet \/ RecordConfigured
                 \/ RecordStarted \/ CreateDone \/ CreateTrap
                 \/ DestroyBegin \/ VerifyTargets \/ \E h \in AllHosts : FlushStatus(h)
                 \/ RecordVnetDeleted \/ RecordZoneDeleted \/ DestroyDone
<1>1. CASE UNCHANGED vars
  BY <1>1 DEF vars
<1>2. CASE CreateStep
  BY <1>2 DEF CreateStep, CloneVm, AttachNics, StartVm, CreateVnet, RecordCloned, RecordVm,
     RecordConfigured, RecordStarted, CreateZone, RecordZone, RecordVnet, ApplySdn,
     WaitVnets, CreateDone, CreateFails, RenderEnvFails, CreateTrap, fileVars
<1>3. CASE DestroyStep
  BY <1>3 DEF DestroyStep, DestroyBegin, CheckEnv, VerifyTargets, WorkerStep,
     StartWorker, WorkerCheck, WorkerStop, WorkerRemove, FlushStatus, JoinWorkers,
     FlushDone, DeleteVnet, DeleteZone, RecordVnetDeleted, RecordZoneDeleted,
     ApplyDeletion, DestroyDone, fileVars
<1>4. CASE Environment
  BY <1>4 DEF Environment, StartCreate, StartDestroy, Kill,
     ForeignAppears, ForeignLeaves, fileVars
<1> QED
  BY <1>1, <1>2, <1>3, <1>4 DEF Next
-----------------------------------------------------------------------------
(* The conjuncts of OwnershipInvariant, one lemma each.                    *)

(* Every step keeps the VMs well typed.                                    *)
LEMMA VmType ==
    ASSUME OwnershipInvariant, [Next]_vars
    PROVE  vm' \in [Vmids -> VMs \cup {Foreign, Absent}]
<1> USE DEF OwnershipInvariant, TypeOK, PveOK
<1>1. CASE UNCHANGED vm
  BY <1>1
<1>2. ASSUME NEW h \in Hosts, CloneVm(h)
      PROVE  vm' \in [Vmids -> VMs \cup {Foreign, Absent}]
  <2>1. run \in Runs /\ h \in AllHosts
    BY <1>2 DEF CloneVm, ScriptOK, AllHosts
  <2>2. [run |-> run, host |-> h, nics |-> FALSE, on |-> FALSE] \in VMs
    BY <2>1 DEF VMs
  <2> QED
    BY <1>2, <2>2 DEF CloneVm
<1>3. ASSUME NEW h \in Hosts, AttachNics(h) \/ StartVm(h)
      PROVE  vm' \in [Vmids -> VMs \cup {Foreign, Absent}]
  <2>1. run \in Runs /\ h \in AllHosts
    BY <1>3 DEF AttachNics, StartVm, ScriptOK, AllHosts
  <2>2. vm[VmidOf(run, h)] \in VMs
    BY <1>3, <2>1, Names DEF AttachNics, StartVm, ClonedOK, AfterClone
  <2>3. /\ [vm[VmidOf(run, h)] EXCEPT !.nics = TRUE] \in VMs
        /\ [vm[VmidOf(run, h)] EXCEPT !.on = TRUE] \in VMs
    BY <2>2 DEF VMs
  <2> QED
    BY <1>3, <2>3 DEF AttachNics, StartVm
<1>4. ASSUME NEW h \in AllHosts, WorkerStop(h) \/ WorkerRemove(h)
      PROVE  vm' \in [Vmids -> VMs \cup {Foreign, Absent}]
  <2>1. TargetRun \in Runs
    BY <1>4, TargetType DEF WorkerStop, WorkerRemove, ScriptOK
  <2>2. vm[VmidOf(TargetRun, h)] \in VMs
    BY <1>4, <2>1, Names DEF WorkerStop, WorkerRemove, WorkersOK
  <2>3. [vm[VmidOf(TargetRun, h)] EXCEPT !.on = FALSE] \in VMs
    BY <2>2 DEF VMs
  <2> QED
    BY <1>4, <2>3 DEF WorkerStop, WorkerRemove
<1>5. ASSUME NEW v \in ForeignVmids, ForeignAppears(v) \/ ForeignLeaves(v)
      PROVE  vm' \in [Vmids -> VMs \cup {Foreign, Absent}]
  BY <1>5 DEF ForeignAppears, ForeignLeaves
<1> QED
  BY <1>1, <1>2, <1>3, <1>4, <1>5, VmSteps

(* Every step keeps the SDN objects well typed.                            *)
LEMMA SdnType ==
    ASSUME OwnershipInvariant, [Next]_vars
    PROVE  /\ zones' \subseteq Suffixes
           /\ vnets' \subseteq Suffixes \X Nets
           /\ bridges' \subseteq Suffixes \X Nets
<1> USE DEF OwnershipInvariant, TypeOK, PveOK
<1>1. CASE UNCHANGED <<zones, vnets, bridges>>
  BY <1>1
<1>2. CASE CreateZone
  BY <1>2, Names DEF CreateZone, ScriptOK, Suffixes
<1>3. CASE ApplySdn \/ ApplyDeletion \/ DeleteZone
  BY <1>3 DEF ApplySdn, ApplyDeletion, DeleteZone
<1>4. ASSUME NEW n \in Nets, CreateVnet(n)
      PROVE  vnets' \subseteq Suffixes \X Nets /\ UNCHANGED <<zones, bridges>>
  BY <1>4 DEF CreateVnet, ScriptOK, Suffixes
<1>5. ASSUME NEW n \in Nets, DeleteVnet(n)
      PROVE  vnets' \subseteq Suffixes \X Nets /\ UNCHANGED <<zones, bridges>>
  BY <1>5 DEF DeleteVnet
<1> QED
  BY <1>1, <1>2, <1>3, <1>4, <1>5, SdnSteps

(* Every step keeps the artifact files well typed.                         *)
LEMMA FilesType ==
    ASSUME OwnershipInvariant, [Next]_vars
    PROVE  FilesOK'
<1> USE DEF OwnershipInvariant, TypeOK, FilesOK
<1>1. CASE UNCHANGED fileVars
  BY <1>1 DEF fileVars
<1>2. CASE RenderJson \/ RenderEnv
  BY <1>2 DEF RenderJson, RenderEnv, ScriptOK
<1>3. CASE InitState
  BY <1>3, InitDocumentType DEF InitState, ScriptOK
<1>4. CASE KillInWrite \/ Checkout
  BY <1>4 DEF KillInWrite, Checkout
<1>5. ASSUME UNCHANGED <<json, env>>, run \in Runs,
             \/ \E p \in Phase : StatePhase(p)
             \/ \E h \in AllHosts, s \in VmStatus : StateVm(h, s)
             \/ \E s \in SdnStatus : StateZone(s)
             \/ \E n \in Nets, s \in SdnStatus : StateVnet(n, s)
      PROVE  FilesOK'
  BY <1>5, StateCommands
<1>6. CASE UNCHANGED <<json, env>> /\ (RecordCloned \/ RecordConfigured \/ RecordStarted)
  <2>1. run \in Runs /\ StateVm(cur.item, cur.status)
    BY <1>6 DEF RecordCloned, RecordConfigured, RecordStarted, RecordVm, ScriptOK
  <2>2. cur.item \in AllHosts /\ cur.status \in VmStatus
    BY <1>6 DEF RecordCloned, RecordConfigured, RecordStarted, RecordVm, MarkOK, AllHosts
  <2> QED
    BY <1>5, <1>6, <2>1, <2>2
<1>7. CASE UNCHANGED <<json, env>> /\ (RecordZone \/ RecordZoneDeleted)
  <2>1. run \in Runs /\ StateZone(cur.status) /\ cur.status \in SdnStatus
    BY <1>7 DEF RecordZone, RecordZoneDeleted, ScriptOK, MarkOK
  <2> QED
    BY <1>5, <1>7, <2>1
<1>8. CASE UNCHANGED <<json, env>> /\ (RecordVnet \/ RecordVnetDeleted)
  <2>1. /\ run \in Runs /\ StateVnet(cur.item, cur.status)
        /\ cur.item \in Nets /\ cur.status \in SdnStatus
    BY <1>8 DEF RecordVnet, RecordVnetDeleted, ScriptOK, MarkOK
  <2> QED
    BY <1>5, <1>8, <2>1
<1>9. CASE UNCHANGED <<json, env>> /\ (CreateDone \/ CreateTrap \/ DestroyBegin \/ DestroyDone)
  <2>1. run \in Runs /\ \E p \in Phase : StatePhase(p)
    BY <1>9 DEF CreateDone, CreateTrap, DestroyBegin, DestroyDone, ScriptOK, Phase
  <2> QED
    BY <1>5, <1>9, <2>1
<1>10. CASE UNCHANGED <<json, env>> /\ VerifyTargets
  <2>1. run \in Runs /\ (UNCHANGED state \/ StatePhase("destroy unsafe"))
    BY <1>10 DEF VerifyTargets, ScriptOK
  <2> QED
    BY <1>5, <1>10, <2>1 DEF Phase
<1>11. ASSUME UNCHANGED <<json, env>>, NEW h \in AllHosts, FlushStatus(h)
       PROVE  FilesOK'
  <2>1. run \in Runs /\ worker[h] \in Reports
    BY <1>11 DEF FlushStatus, IsNext, ScriptOK, WorkersOK
  <2>2. CASE worker[h] = "unsafe"
    BY <1>5, <1>11, <2>1, <2>2 DEF FlushStatus, Phase
  <2>3. CASE worker[h] # "unsafe"
    <3>1. worker[h] \in VmStatus /\ StateVm(h, worker[h])
      BY <1>11, <2>1, <2>3 DEF FlushStatus, Reports, VmStatus
    <3> QED
      BY <1>5, <1>11, <2>1, <3>1
  <2> QED
    BY <2>2, <2>3
<1> QED
  BY <1>1, <1>2, <1>3, <1>4, <1>6, <1>7, <1>8, <1>9, <1>10, <1>11, FileSteps

(* The moves of a script from one place to another.                        *)
LEMMA Moves ==
    ASSUME ScriptOK, run \in Runs
    PROVE  /\ End => ScriptOK'
           /\ \A p \in CreatePcs \cup DestroyPcs : Goto(p) => ScriptOK'
           /\ \A p \in CreatePcs \cup DestroyPcs, items \in SUBSET (AllHosts \cup Nets) :
                 Enter(p, items) => ScriptOK'
           /\ \A p \in CreatePcs \cup DestroyPcs, item \in AllHosts \cup Nets \cup {Absent},
                 status \in VmStatus \cup SdnStatus : Mark(p, item, status) => ScriptOK'
<1>1. "idle" \notin CreatePcs \cup DestroyPcs
  BY DEF CreatePcs, DestroyPcs
<1>2. End => ScriptOK'
  <2>1. NoMark \in [item : AllHosts \cup Nets \cup {Absent}, status : VmStatus \cup SdnStatus]
    BY DEF NoMark, VmStatus
  <2>2. NoWorker \in [AllHosts -> WorkerPcs]
    BY DEF NoWorker, WorkerPcs
  <2> QED
    BY <2>1, <2>2 DEF End, ScriptOK
<1>3. ASSUME NEW p \in CreatePcs \cup DestroyPcs, Goto(p)
      PROVE  ScriptOK'
  BY <1>1, <1>3 DEF Goto, ScriptOK
<1>4. ASSUME NEW p \in CreatePcs \cup DestroyPcs,
             NEW items \in SUBSET (AllHosts \cup Nets), Enter(p, items)
      PROVE  ScriptOK'
  BY <1>1, <1>4 DEF Enter, ScriptOK, NoMark, VmStatus
<1>5. ASSUME NEW p \in CreatePcs \cup DestroyPcs,
             NEW item \in AllHosts \cup Nets \cup {Absent},
             NEW status \in VmStatus \cup SdnStatus, Mark(p, item, status)
      PROVE  ScriptOK'
  BY <1>1, <1>5 DEF Mark, ScriptOK
<1> QED
  BY <1>2, <1>3, <1>4, <1>5

(* Every step keeps the script and its workers well typed.                 *)
LEMMA ScriptType ==
    ASSUME OwnershipInvariant, [Next]_vars
    PROVE  ScriptOK'
<1> USE DEF OwnershipInvariant, TypeOK
<1>a. pc # "idle" => run \in Runs
  BY DEF ScriptOK
<1>b. pc # "idle" => Targets \subseteq AllHosts
  BY <1>a, TargetType
<1>1. CASE UNCHANGED scriptVars
  BY <1>1 DEF scriptVars, ScriptOK
<1>2. CASE RenderJson \/ RenderEnv \/ InitState \/ ApplySdn \/ WaitVnets
  BY <1>2, <1>a, Moves DEF RenderJson, RenderEnv, InitState, ApplySdn, WaitVnets,
     CreatePcs, AllHosts
<1>3. ASSUME NEW h \in Hosts, CloneVm(h) \/ AttachNics(h) \/ StartVm(h)
      PROVE  ScriptOK'
  BY <1>3, <1>a, Moves DEF CloneVm, AttachNics, StartVm, CreatePcs, AllHosts, VmStatus
<1>4. CASE RecordCloned \/ RecordConfigured \/ RecordStarted
  <2>1. todo \ {cur.item} \subseteq AllHosts \cup Nets
    BY DEF ScriptOK
  <2> QED
    BY <1>4, <2>1, <1>a, Moves DEF RecordCloned, RecordConfigured, RecordStarted,
       RecordVm, CreatePcs, AllHosts
<1>5. CASE CreateZone \/ \E n \in Nets : CreateVnet(n)
  BY <1>5, <1>a, Moves DEF CreateZone, CreateVnet, CreatePcs, SdnStatus
<1>6. CASE RecordZone \/ RecordVnet \/ RecordVnetDeleted \/ RecordZoneDeleted
  <2>1. todo \ {cur.item} \subseteq AllHosts \cup Nets
    BY DEF ScriptOK
  <2> QED
    BY <1>6, <2>1, <1>a, Moves DEF RecordZone, RecordVnet, RecordVnetDeleted,
       RecordZoneDeleted, CreatePcs, DestroyPcs
<1>7. CASE CreateDone \/ CreateTrap \/ DestroyDone \/ Kill \/ KillInWrite
  <2>1. pc # "idle" /\ End
    BY <1>7 DEF CreateDone, CreateTrap, DestroyDone, Kill, KillInWrite, StateWriters, WritingState
  <2> QED
    BY <2>1, <1>a, Moves
<1>8. CASE CreateFails \/ RenderEnvFails
  BY <1>8 DEF CreateFails, RenderEnvFails, CreatePcs, ScriptOK
<1>9. CASE \E r \in Runs : StartCreate(r) \/ StartDestroy(r)
  BY <1>9 DEF StartCreate, StartDestroy, CreatePcs, DestroyPcs, ScriptOK
<1>10. CASE DestroyBegin \/ CheckEnv \/ JoinWorkers \/ FlushDone
  BY <1>10, <1>a, <1>b, Moves DEF DestroyBegin, CheckEnv, JoinWorkers, Reporting, FlushDone, DestroyPcs
<1>11. CASE VerifyTargets
  <2>1. CASE End
    BY <1>11, <2>1, <1>a, Moves DEF VerifyTargets
  <2>2. CASE Enter("d_work", Targets)
    BY <1>11, <2>2, <1>a, <1>b, Moves DEF VerifyTargets, DestroyPcs
  <2>3. CASE pc' = "d_work" /\ todo' = Targets /\ err' = TRUE /\ UNCHANGED <<run, cur, worker>>
    BY <1>11, <2>3, <1>b DEF VerifyTargets, DestroyPcs, ScriptOK
  <2> QED
    BY <1>11, <2>1, <2>2, <2>3 DEF VerifyTargets
<1>12. ASSUME NEW h \in AllHosts, WorkerStep(h)
       PROVE  ScriptOK'
  <2>1. /\ pc = "d_work" /\ UNCHANGED <<run, pc, cur>>
        /\ todo' \subseteq todo
        /\ err' \in BOOLEAN
        /\ \E p \in WorkerPcs : worker' = [worker EXCEPT ![h] = p]
    BY <1>12 DEF WorkerStep, StartWorker, WorkerCheck, WorkerStop, WorkerRemove,
       WorkerGoes, WorkerPcs, Finished, Reports,
       ScriptOK
  <2> QED
    BY <2>1 DEF ScriptOK
<1>13. ASSUME NEW h \in AllHosts, FlushStatus(h)
       PROVE  ScriptOK'
  <2>1. todo \ {h} \subseteq AllHosts \cup Nets
    BY DEF ScriptOK
  <2> QED
    BY <1>13, <2>1, <1>a, Moves DEF FlushStatus, DestroyPcs
<1>14. CASE (\E n \in Nets : DeleteVnet(n)) \/ DeleteZone \/ ApplyDeletion
  <2> DEFINE Marks == [item : AllHosts \cup Nets \cup {Absent}, status : VmStatus \cup SdnStatus]
  <2>1. ASSUME NEW n \in Nets, DeleteVnet(n)
        PROVE  ScriptOK'
    <3>1. [item |-> n, status |-> "deleted"] \in Marks
      BY DEF SdnStatus
    <3>2. cur' \in Marks /\ pc = "d_vnet" /\ pc' = "d_vnet_rec" /\ err' \in BOOLEAN
      BY <2>1, <3>1 DEF DeleteVnet, ScriptOK
    <3> QED
      BY <2>1, <3>2 DEF DeleteVnet, DestroyPcs, ScriptOK
  <2>2. CASE DeleteZone
    <3>1. [item |-> Absent, status |-> "deleted"] \in Marks
      BY DEF SdnStatus
    <3>2. cur' \in Marks /\ pc = "d_zone" /\ pc' = "d_zone_rec" /\ err' \in BOOLEAN
      BY <2>2, <3>1 DEF DeleteZone, ScriptOK
    <3> QED
      BY <2>2, <3>2 DEF DeleteZone, DestroyPcs, ScriptOK
  <2>3. CASE ApplyDeletion
    BY <2>3 DEF ApplyDeletion, DestroyPcs, ScriptOK
  <2> QED
    BY <1>14, <2>1, <2>2, <2>3
<1>15. CASE Checkout \/ \E v \in ForeignVmids : ForeignAppears(v) \/ ForeignLeaves(v)
  BY <1>15, <1>1 DEF Checkout, ForeignAppears, ForeignLeaves
<1>16. CASE UNCHANGED vars
  BY <1>16, <1>1 DEF vars
<1> QED
  BY <1>2, <1>3, <1>4, <1>5, <1>6, <1>7, <1>8, <1>9, <1>10, <1>11, <1>12, <1>13,
     <1>14, <1>15, <1>16 DEF Next, CreateStep, DestroyStep, Environment

(* Every step keeps MarkOK: what create or destroy is about to record.     *)
LEMMA MarkStep ==
    ASSUME OwnershipInvariant, [Next]_vars
    PROVE  MarkOK'
<1> USE DEF OwnershipInvariant
<1> DEFINE Recs == {"clone_rec", "nics_rec", "start_rec", "vnet_rec", "d_vnet_rec",
                    "zone_rec", "d_zone_rec"}
<1>1. ASSUME pc' \notin Recs \/ UNCHANGED <<pc, cur>>
      PROVE  MarkOK'
  BY <1>1 DEF MarkOK
<1>2. ASSUME NEW h \in Hosts, CloneVm(h) \/ AttachNics(h) \/ StartVm(h)
      PROVE  MarkOK'
  BY <1>2, <1>1 DEF CloneVm, AttachNics, StartVm, Mark, Goto, MarkOK, VmStatus
<1>3. CASE CreateZone \/ DeleteZone
  BY <1>3 DEF CreateZone, DeleteZone, Mark, MarkOK, SdnStatus
<1>4. ASSUME NEW n \in Nets, CreateVnet(n) \/ DeleteVnet(n)
      PROVE  MarkOK'
  BY <1>4 DEF CreateVnet, DeleteVnet, Mark, MarkOK, SdnStatus
<1>5. CASE RenderJson \/ RenderEnv \/ InitState \/ RecordCloned \/ RecordZone \/ RecordVnet
           \/ ApplySdn \/ WaitVnets \/ RecordConfigured \/ RecordStarted \/ CreateDone
           \/ CreateFails \/ RenderEnvFails \/ CreateTrap
  BY <1>5, <1>1 DEF RenderJson, RenderEnv, InitState, RecordCloned, RecordZone, RecordVnet,
     ApplySdn, WaitVnets, RecordConfigured, RecordStarted, RecordVm, CreateDone,
     CreateFails, RenderEnvFails, CreateTrap, Goto, Enter, End
<1>6. CASE DestroyBegin \/ CheckEnv \/ VerifyTargets \/ JoinWorkers \/ FlushDone
           \/ RecordVnetDeleted \/ RecordZoneDeleted \/ ApplyDeletion \/ DestroyDone
  BY <1>6, <1>1 DEF DestroyBegin, CheckEnv, VerifyTargets, JoinWorkers, FlushDone,
     RecordVnetDeleted, RecordZoneDeleted, ApplyDeletion, DestroyDone, Goto, Enter, End
<1>7. ASSUME NEW h \in AllHosts, WorkerStep(h) \/ FlushStatus(h)
      PROVE  MarkOK'
  BY <1>7, <1>1 DEF WorkerStep, StartWorker, WorkerCheck, WorkerStop, WorkerRemove,
     FlushStatus, Enter
<1>8. CASE Environment \/ UNCHANGED vars
  BY <1>8, <1>1 DEF Environment, StartCreate, StartDestroy, Kill, KillInWrite, Checkout,
     ForeignAppears, ForeignLeaves, End, scriptVars, vars
<1> QED
  BY <1>2, <1>3, <1>4, <1>5, <1>6, <1>7, <1>8 DEF Next, CreateStep, DestroyStep

(* A VM of a known name is neither absent nor foreign.                     *)
LEMMA NamedIsOurs ==
    ASSUME NEW r \in Runs, NEW h \in AllHosts
    PROVE  Absent \notin Named(r, h) /\ Foreign \notin Named(r, h)
  BY Names, MarkerAssumption

(* Every step keeps WorkersOK: the workers of destroy and their parent.    *)
LEMMA WorkersStep ==
    ASSUME OwnershipInvariant, [Next]_vars
    PROVE  WorkersOK'
<1> USE DEF OwnershipInvariant, TypeOK
<1>a. pc # "idle" => run \in Runs /\ TargetRun \in Runs
  BY TargetType DEF ScriptOK
<1>1. ASSUME pc' \notin {"d_work", "d_flush"}, pc # "d_work", UNCHANGED worker
      PROVE  WorkersOK'
  BY <1>1 DEF WorkersOK
<1>2. ASSUME End
      PROVE  WorkersOK'
  BY <1>2 DEF End, NoWorker, WorkersOK
<1>3. ASSUME UNCHANGED <<scriptVars, json>>,
             \A h \in AllHosts : vm[VmidOf(TargetRun, h)] \in Named(TargetRun, h)
                => vm'[VmidOf(TargetRun, h)] = vm[VmidOf(TargetRun, h)]
      PROVE  WorkersOK'
  BY <1>3 DEF WorkersOK, scriptVars, Targets, TargetRun
<1>4. CASE CreateStep
  <2>1. \/ End
        \/ pc' \notin {"d_work", "d_flush"} /\ pc # "d_work" /\ UNCHANGED worker
    BY <1>4 DEF CreateStep, RenderJson, RenderEnv, InitState, CloneVm, AttachNics, StartVm,
       CreateVnet, RecordCloned, RecordVm, CreateZone, RecordZone, RecordVnet, ApplySdn,
       WaitVnets, RecordConfigured, RecordStarted, CreateDone, CreateFails,
       RenderEnvFails, CreateTrap, Goto, Enter, Mark
  <2> QED
    BY <2>1, <1>1, <1>2
<1>5. CASE DestroyBegin \/ CheckEnv \/ FlushDone \/ RecordVnetDeleted \/ RecordZoneDeleted
           \/ DeleteZone \/ ApplyDeletion \/ DestroyDone \/ \E n \in Nets : DeleteVnet(n)
  <2>1. \/ End
        \/ pc' \notin {"d_work", "d_flush"} /\ pc # "d_work" /\ UNCHANGED worker
    BY <1>5 DEF DestroyBegin, CheckEnv, FlushDone, RecordVnetDeleted, RecordZoneDeleted,
       DeleteZone, ApplyDeletion, DestroyDone, DeleteVnet, Goto, Enter, Mark
  <2> QED
    BY <2>1, <1>1, <1>2
<1>6. CASE VerifyTargets
  <2>1. CASE End
    BY <2>1, <1>2
  <2>2. CASE ~End
    BY <1>6, <2>2 DEF VerifyTargets, Enter, WorkersOK, Targets
  <2> QED
    BY <2>1, <2>2
<1>7. ASSUME NEW h \in AllHosts, StartWorker(h)
      PROVE  WorkersOK'
  BY <1>7 DEF StartWorker, WorkersOK, ScriptOK, Targets, TargetRun, pveVars, fileVars
<1>8. ASSUME NEW h \in AllHosts, WorkerCheck(h)
      PROVE  WorkersOK'
  <2>1. /\ pc = "d_work" /\ UNCHANGED <<run, pc, todo, json, vm>>
        /\ TargetRun' = TargetRun /\ Targets' = Targets
    BY <1>8 DEF WorkerCheck, TargetRun, Targets, pveVars, fileVars
  <2>2. PICK p \in {"missing", "unsafe", "died", "stop"} :
          /\ worker' = [worker EXCEPT ![h] = p]
          /\ p = "stop" => vm[VmidOf(TargetRun, h)] \in Named(TargetRun, h)
    BY <1>8 DEF WorkerCheck, WorkerGoes
  <2>3. \A k \in AllHosts : k # h => worker'[k] = worker[k]
    BY <2>2 DEF ScriptOK
  <2>4. worker'[h] = p
    BY <2>2 DEF ScriptOK
  <2>5. \A k \in Targets \ todo : worker'[k] # "none"
    BY <2>1, <2>3, <2>4, TargetType, <1>a DEF WorkersOK
  <2> QED
    BY <2>1, <2>2, <2>3, <2>4, <2>5 DEF WorkersOK
<1>9. ASSUME NEW h \in AllHosts, WorkerStop(h) \/ WorkerRemove(h)
      PROVE  WorkersOK'
  <2> DEFINE v == VmidOf(TargetRun, h)
  <2>1. pc = "d_work" /\ TargetRun \in Runs /\ vm[v] \in Named(TargetRun, h)
    BY <1>9, <1>a DEF WorkerStop, WorkerRemove, WorkersOK
  <2>2. /\ UNCHANGED <<run, pc, todo, json>>
        /\ \E p \in {"remove", "destroyed"} : worker' = [worker EXCEPT ![h] = p]
        /\ WorkerStop(h) => worker' = [worker EXCEPT ![h] = "remove"]
        /\ WorkerRemove(h) => worker' = [worker EXCEPT ![h] = "destroyed"]
    BY <1>9 DEF WorkerStop, WorkerRemove, WorkerGoes, fileVars
  <2>3. /\ v \in DOMAIN vm
        /\ \A w \in DOMAIN vm : w # v => vm'[w] = vm[w]
        /\ WorkerStop(h) => vm'[v] \in Named(TargetRun, h)
    <3>1. v \in Vmids
      BY <2>1, Names
    <3>2. [vm[v] EXCEPT !.on = FALSE] \in Named(TargetRun, h)
      BY <2>1 DEF Named
    <3>3. WorkerStop(h) => \/ UNCHANGED vm
                           \/ vm' = [vm EXCEPT ![v] = [vm[v] EXCEPT !.on = FALSE]]
      BY DEF WorkerStop
    <3>4. WorkerRemove(h) => UNCHANGED vm \/ vm' = [vm EXCEPT ![v] = Absent]
      BY DEF WorkerRemove
    <3>5. WorkerStop(h) => vm'[v] \in Named(TargetRun, h)
      BY <2>1, <3>1, <3>2, <3>3 DEF PveOK
    <3> QED
      BY <1>9, <3>1, <3>3, <3>4, <3>5 DEF PveOK
  <2>4. ASSUME NEW k \in AllHosts, worker'[k] \in {"stop", "remove"}
        PROVE  vm'[VmidOf(TargetRun, k)] \in Named(TargetRun, k)
    <3>1. CASE k = h
      BY <2>2, <2>3, <2>4, <3>1, <1>9 DEF ScriptOK
    <3>2. CASE k # h
      <4>1. vm[VmidOf(TargetRun, k)] \in Named(TargetRun, k)
        BY <2>2, <2>4, <3>2 DEF ScriptOK, WorkersOK
      <4>2. VmidOf(TargetRun, k) # v
        BY <4>1, <2>1, <3>2, Names
      <4> QED
        BY <4>1, <4>2, <2>1, <2>3, Names DEF PveOK
    <3> QED
      BY <3>1, <3>2
  <2>5. \A k \in AllHosts : worker[k] # "none" => worker'[k] # "none"
    BY <2>2 DEF ScriptOK
  <2>6. TargetRun' = TargetRun /\ Targets' = Targets
    BY <2>2 DEF TargetRun, Targets
  <2>7. \A k \in Targets \ todo : worker'[k] # "none"
    BY <2>1, <2>5, TargetType, <1>a DEF WorkersOK
  <2> QED
    BY <2>1, <2>2, <2>4, <2>6, <2>7 DEF WorkersOK
<1>10. CASE JoinWorkers
  <2>1. Targets \subseteq AllHosts
    BY <1>10, <1>a, TargetType DEF JoinWorkers
  <2>2. \A h \in Targets : worker[h] \in Finished
    BY <1>10, <2>1 DEF JoinWorkers, RunningWorkers, WorkersOK, ScriptOK, WorkerPcs, Finished, Reports
  <2> QED
    BY <1>10, <2>1, <2>2
       DEF JoinWorkers, Enter, RunningWorkers, WorkersOK, Targets, Reporting, Reports,
           Finished, fileVars
<1>11. ASSUME NEW h \in AllHosts, FlushStatus(h)
       PROVE  WorkersOK'
  BY <1>11 DEF FlushStatus, Enter, WorkersOK, Targets
<1>12. CASE Environment
  <2>1. CASE (\E r \in Runs : StartCreate(r) \/ StartDestroy(r)) \/ Checkout
    BY <2>1, <1>1 DEF StartCreate, StartDestroy, Checkout, scriptVars
  <2>2. CASE Kill \/ KillInWrite
    BY <2>2, <1>2 DEF Kill, KillInWrite
  <2>3. ASSUME NEW v \in ForeignVmids, ForeignAppears(v) \/ ForeignLeaves(v)
        PROVE  WorkersOK'
    <3>1. UNCHANGED <<scriptVars, json>> /\ vm[v] \in {Absent, Foreign}
      BY <2>3 DEF ForeignAppears, ForeignLeaves, fileVars
    <3>2. \A w \in Vmids : w # v => vm'[w] = vm[w]
      BY <2>3 DEF ForeignAppears, ForeignLeaves, PveOK
    <3>3. CASE pc = "idle"
      BY <3>1, <3>3, <1>1 DEF scriptVars
    <3>4. CASE pc # "idle"
      BY <3>1, <3>2, <3>4, <1>3, <1>a, Names, NamedIsOurs
    <3> QED
      BY <3>3, <3>4
  <2> QED
    BY <1>12, <2>1, <2>2, <2>3 DEF Environment
<1>13. CASE UNCHANGED vars
  BY <1>13, <1>3 DEF vars, pveVars, fileVars
<1> QED
  BY <1>4, <1>5, <1>6, <1>7, <1>8, <1>9, <1>10, <1>11, <1>12, <1>13
     DEF Next, DestroyStep, WorkerStep

(* A VM that already has its name keeps it in every step outside destroy's *)
(* worker phase.                                                           *)
LEMMA NamesKept ==
    ASSUME OwnershipInvariant, [Next]_vars, pc # "d_work",
           NEW r \in Runs, NEW h \in AllHosts, vm[VmidOf(r, h)] \in Named(r, h)
    PROVE  vm'[VmidOf(r, h)] \in Named(r, h)
<1> USE DEF OwnershipInvariant, TypeOK, PveOK
<1> DEFINE w == VmidOf(r, h)
<1>a. w \in Vmids
  BY Names
<1>1. CASE UNCHANGED vm
  BY <1>1
<1>2. ASSUME NEW k \in Hosts, CloneVm(k)
      PROVE  vm'[w] \in Named(r, h)
  <2>1. UNCHANGED vm \/ (vm[VmidOf(run, k)] = Absent /\ \A x \in Vmids : x # VmidOf(run, k) => vm'[x] = vm[x])
    BY <1>2 DEF CloneVm
  <2> QED
    BY <2>1, <1>a, NamedIsOurs
<1>3. ASSUME NEW k \in Hosts, AttachNics(k) \/ StartVm(k)
      PROVE  vm'[w] \in Named(r, h)
  <2>1. PICK f \in {[vm[VmidOf(run, k)] EXCEPT !.nics = TRUE],
                    [vm[VmidOf(run, k)] EXCEPT !.on = TRUE]} :
           UNCHANGED vm \/ vm' = [vm EXCEPT ![VmidOf(run, k)] = f]
    BY <1>3 DEF AttachNics, StartVm
  <2>2. CASE VmidOf(run, k) = w
    <3>1. f \in Named(r, h)
      BY <2>1, <2>2 DEF Named
    <3> QED
      BY <2>1, <2>2, <3>1, <1>a
  <2>3. CASE VmidOf(run, k) # w
    BY <2>1, <2>3, <1>a
  <2> QED
    BY <2>2, <2>3
<1>4. ASSUME NEW v \in ForeignVmids, ForeignAppears(v) \/ ForeignLeaves(v)
      PROVE  vm'[w] \in Named(r, h)
  BY <1>4, <1>a, NamedIsOurs DEF ForeignAppears, ForeignLeaves
<1>5. ~ \E k \in AllHosts : WorkerStop(k) \/ WorkerRemove(k)
  BY DEF WorkerStop, WorkerRemove
<1> QED
  BY <1>1, <1>2, <1>3, <1>4, <1>5, VmSteps

(* Every step keeps ClonedOK: create's VMs once its clone loop made them.  *)
LEMMA ClonedStep ==
    ASSUME OwnershipInvariant, [Next]_vars
    PROVE  ClonedOK'
<1> USE DEF OwnershipInvariant, TypeOK
<1> DEFINE Cloning == {"clone", "clone_rec"} \cup AfterClone
<1>a. pc # "idle" => run \in Runs
  BY DEF ScriptOK
<1>b. Hosts \subseteq AllHosts
  BY DEF AllHosts
<1>1. ASSUME pc' \notin Cloning
      PROVE  ClonedOK'
  BY <1>1 DEF ClonedOK
<1>2. ASSUME pc \in AfterClone, pc' \in AfterClone, run' = run
      PROVE  ClonedOK'
  <2>1. \A h \in Hosts : vm'[VmidOf(run, h)] \in Named(run, h)
    BY <1>2, <1>a, <1>b, NamesKept DEF ClonedOK, AfterClone
  <2> QED
    BY <1>2, <2>1 DEF ClonedOK, AfterClone
<1>3. ASSUME pc \in Cloning, UNCHANGED <<pc, run, todo, cur>>
      PROVE  ClonedOK'
  <2>1. /\ run \in Runs /\ pc # "d_work"
        /\ pc = "clone_rec" => cur.item \in AllHosts
    BY <1>3, <1>a, <1>b DEF AfterClone, MarkOK
  <2> QED
    BY <1>3, <2>1, <1>b, NamesKept DEF ClonedOK
<1>4. CASE InitState
  BY <1>4 DEF InitState, Goto, Enter, ClonedOK, AfterClone
<1>5. ASSUME NEW h \in Hosts, CloneVm(h)
      PROVE  ClonedOK'
  <2>1. pc = "clone" /\ run \in Runs /\ h \in AllHosts /\ VmidOf(run, h) \in Vmids
    BY <1>5, <1>a, <1>b, Names DEF CloneVm
  <2>2. CASE pc' = "trap"
    BY <2>2, <1>1 DEF AfterClone
  <2>3. CASE pc' # "trap"
    <3>1. pc' = "clone_rec" /\ UNCHANGED <<run, todo>> /\ cur'.item = h
      BY <1>5, <2>3 DEF CloneVm, Mark, Goto
    <3> DEFINE clone == [run |-> run, host |-> h, nics |-> FALSE, on |-> FALSE]
    <3>2. vm'[VmidOf(run, h)] \in Named(run, h)
      <4>1. clone \in Named(run, h)
        BY DEF Named
      <4>2. \/ UNCHANGED vm /\ vm[VmidOf(run, h)] \in Named(run, h)
            \/ vm' = [vm EXCEPT ![VmidOf(run, h)] = clone]
        BY <1>5, <2>3 DEF CloneVm, Goto
      <4> QED
        BY <2>1, <4>1, <4>2 DEF PveOK
    <3>3. \A k \in Hosts \ todo : vm'[VmidOf(run, k)] \in Named(run, k)
      BY <2>1, <1>b, NamesKept DEF ClonedOK
    <3> QED
      BY <3>1, <3>2, <3>3 DEF ClonedOK, AfterClone
  <2> QED
    BY <2>2, <2>3
<1>6. CASE RecordCloned
  <2>1. pc = "clone_rec" /\ run \in Runs /\ run' = run /\ cur.item \in AllHosts
    BY <1>6, <1>a, <1>b DEF RecordCloned, RecordVm, Enter, MarkOK
  <2>2. \A k \in (Hosts \ todo) \cup {cur.item} : vm'[VmidOf(run, k)] \in Named(run, k)
    BY <2>1, <1>b, NamesKept DEF ClonedOK
  <2>3. CASE todo = {cur.item}
    BY <1>6, <2>1, <2>2, <2>3 DEF RecordCloned, RecordVm, Enter, ClonedOK
  <2>4. CASE todo # {cur.item}
    BY <1>6, <2>1, <2>2, <2>4 DEF RecordCloned, RecordVm, Enter, ClonedOK, AfterClone
  <2> QED
    BY <2>3, <2>4
<1>7. CASE CreateZone \/ RecordZone \/ (\E n \in Nets : CreateVnet(n)) \/ RecordVnet
           \/ ApplySdn \/ WaitVnets \/ RecordConfigured \/ RecordStarted
           \/ \E h \in Hosts : AttachNics(h) \/ StartVm(h)
  BY <1>7, <1>2 DEF CreateZone, RecordZone, CreateVnet, RecordVnet, ApplySdn, WaitVnets,
     RecordConfigured, RecordStarted, RecordVm, AttachNics, StartVm, Goto, Mark, Enter,
     AfterClone
<1>8. CASE RenderJson \/ RenderEnv \/ CreateDone \/ CreateFails \/ RenderEnvFails \/ CreateTrap
  BY <1>8, <1>1 DEF RenderJson, RenderEnv, CreateDone, CreateFails, RenderEnvFails,
     CreateTrap, Goto, End, AfterClone
<1>9. CASE DestroyStep
  <2>1. pc' \in DestroyPcs \cup {"idle"}
    BY <1>9 DEF DestroyStep, DestroyBegin, CheckEnv, VerifyTargets, WorkerStep, StartWorker,
       WorkerCheck, WorkerStop, WorkerRemove, FlushStatus, JoinWorkers, FlushDone,
       DeleteVnet, RecordVnetDeleted, DeleteZone, RecordZoneDeleted, ApplyDeletion,
       DestroyDone, Goto, Enter, End, DestroyPcs
  <2> QED
    BY <2>1, <1>1 DEF AfterClone, DestroyPcs
<1>10. CASE Environment
  <2>1. CASE (\E r \in Runs : StartCreate(r) \/ StartDestroy(r)) \/ Kill \/ KillInWrite
    BY <2>1, <1>1 DEF StartCreate, StartDestroy, Kill, KillInWrite, End, AfterClone
  <2>2. CASE Checkout \/ \E v \in ForeignVmids : ForeignAppears(v) \/ ForeignLeaves(v)
    BY <2>2, <1>1, <1>3 DEF Checkout, ForeignAppears, ForeignLeaves, scriptVars
  <2> QED
    BY <1>10, <2>1, <2>2 DEF Environment
<1>11. CASE UNCHANGED vars
  BY <1>11, <1>1, <1>3 DEF vars, scriptVars
<1> QED
  BY <1>4, <1>5, <1>6, <1>7, <1>8, <1>9, <1>10, <1>11 DEF Next, CreateStep
-----------------------------------------------------------------------------
(* At every step of every script, whatever was killed before it, the       *)
(* variables are well typed, create owns the VMs it goes on to configure   *)
(* and each worker of destroy owns the VM it goes on to remove.            *)
THEOREM OwnershipHolds == Spec => []OwnershipInvariant
<1>1. OwnershipInvariant /\ [Next]_vars => OwnershipInvariant'
  BY VmType, SdnType, FilesType, ScriptType, MarkStep, WorkersStep, ClonedStep
     DEF OwnershipInvariant, TypeOK, PveOK
<1> QED
  BY InitOwnership, <1>1, PTL DEF Spec

(* Type correctness of Proxmox, the artifact files and the running script. *)
THEOREM TypeCorrect == Spec => []TypeOK
<1>1. OwnershipInvariant => TypeOK
  BY DEF OwnershipInvariant
<1> QED
  BY OwnershipHolds, <1>1, PTL

(* No script ever stops, reconfigures or removes a VM that no script       *)
(* created, even if killed scripts left topology files torn.               *)
THEOREM ForeignVmsAreSafe == Spec => ForeignUntouched
<1>1. ASSUME OwnershipInvariant, [Next]_vars
      PROVE  [\A v \in Vmids : vm[v] = Foreign /\ vm'[v] # Foreign
                 => UNCHANGED scriptVars]_vars
  <2> SUFFICES ASSUME NEW v \in Vmids, vm[v] = Foreign, vm'[v] # Foreign
               PROVE  UNCHANGED scriptVars
    OBVIOUS
  <2> USE DEF OwnershipInvariant, TypeOK, PveOK
  <2>1. ASSUME NEW h \in Hosts, CloneVm(h)
        PROVE  FALSE
    BY <1>1, <2>1, MarkerAssumption DEF CloneVm
  <2>2. ASSUME NEW h \in Hosts, AttachNics(h) \/ StartVm(h)
        PROVE  FALSE
    <3>1. run \in Runs /\ h \in AllHosts /\ vm[VmidOf(run, h)] \in Named(run, h)
      BY <1>1, <2>2 DEF AttachNics, StartVm, ScriptOK, ClonedOK, AfterClone, AllHosts
    <3>2. VmidOf(run, h) # v
      BY <3>1, NamedIsOurs
    <3> QED
      BY <1>1, <2>2, <3>2 DEF AttachNics, StartVm
  <2>3. ASSUME NEW h \in AllHosts, WorkerStop(h) \/ WorkerRemove(h)
        PROVE  FALSE
    <3>1. TargetRun \in Runs /\ vm[VmidOf(TargetRun, h)] \in Named(TargetRun, h)
      <4>1. pc = "d_work" /\ worker[h] \in {"stop", "remove"}
        BY <2>3 DEF WorkerStop, WorkerRemove
      <4>2. run \in Runs
        BY <1>1, <4>1 DEF ScriptOK
      <4> QED
        BY <1>1, <4>1, <4>2, TargetType DEF WorkersOK
    <3>2. VmidOf(TargetRun, h) # v
      BY <3>1, NamedIsOurs
    <3> QED
      BY <1>1, <2>3, <3>2 DEF WorkerStop, WorkerRemove
  <2>4. ASSUME NEW w \in ForeignVmids, ForeignAppears(w) \/ ForeignLeaves(w)
        PROVE  UNCHANGED scriptVars
    BY <2>4 DEF ForeignAppears, ForeignLeaves
  <2> QED
    BY <1>1, <2>1, <2>2, <2>3, <2>4, VmSteps
<1> QED
  BY <1>1, OwnershipHolds, PTL DEF Spec, ForeignUntouched
-----------------------------------------------------------------------------
(* If create is never stopped between the two writes of its topology       *)
(* files, topology.json and topology.env agree about the run whenever a    *)
(* script can look at them.                                                *)
LEMMA FilesAgreeStep ==
    ASSUME ~TornRender, OwnershipInvariant, FilesAgree, [Next]_vars
    PROVE  FilesAgree'
<1> USE DEF OwnershipInvariant, TypeOK, FilesOK
<1> DEFINE PastCheck == DestroyPcs \ {"d_begin", "d_env"}
<1>1. ASSUME pc # "render_env", pc' # "render_env", UNCHANGED <<json, env>>,
             pc' \in PastCheck => pc \in PastCheck /\ run' = run
      PROVE  FilesAgree'
  BY <1>1 DEF FilesAgree
<1>2. ASSUME json' \notin Runs, pc' # "render_env"
      PROVE  FilesAgree'
  BY <1>2 DEF FilesAgree
<1>3. CASE RenderJson
  BY <1>3 DEF RenderJson, Goto, FilesAgree, DestroyPcs
<1>4. CASE RenderEnv
  BY <1>4 DEF RenderEnv, Goto, FilesAgree, DestroyPcs
<1>5. CASE CreateStep /\ ~RenderJson /\ ~RenderEnv
  BY <1>1, <1>5 DEF CreateStep, InitState, CloneVm, AttachNics, StartVm,
     CreateVnet, RecordCloned, RecordVm, CreateZone, RecordZone, RecordVnet, ApplySdn,
     WaitVnets, RecordConfigured, RecordStarted, CreateDone, CreateFails, RenderEnvFails,
     CreateTrap, Goto, Enter, Mark, End, DestroyPcs, fileVars
<1>6. CASE CheckEnv
  BY <1>6, MarkerAssumption
     DEF CheckEnv, Goto, End, FilesAgree, ScriptOK, DestroyPcs, fileVars
<1>7. CASE DestroyStep /\ ~CheckEnv
  <2>1. /\ pc \in DestroyPcs \ {"d_env"} /\ UNCHANGED <<json, env>>
        /\ End \/ (run' = run /\ pc' \in DestroyPcs /\ (pc = "d_begin" => pc' = "d_env"))
    BY <1>7 DEF DestroyStep, DestroyBegin, VerifyTargets, WorkerStep, StartWorker,
       WorkerCheck, WorkerStop, WorkerRemove, FlushStatus, JoinWorkers, FlushDone,
       DeleteVnet, RecordVnetDeleted, DeleteZone, RecordZoneDeleted, ApplyDeletion,
       DestroyDone, Goto, Enter, DestroyPcs, fileVars
  <2> QED
    BY <2>1, <1>1 DEF End, DestroyPcs
<1>8. CASE (\E r \in Runs : StartCreate(r) \/ StartDestroy(r)) \/ Kill
  BY <1>8, <1>1 DEF StartCreate, StartDestroy, Kill, End, DestroyPcs, fileVars
<1>9. CASE KillInWrite \/ Checkout
  BY <1>9, <1>1, <1>2, MarkerAssumption
     DEF KillInWrite, Checkout, End, StateWriters, WritingState, DestroyPcs, scriptVars
<1>10. CASE UNCHANGED vars \/ \E v \in ForeignVmids : ForeignAppears(v) \/ ForeignLeaves(v)
  BY <1>10 DEF ForeignAppears, ForeignLeaves, FilesAgree, vars, fileVars, scriptVars
<1> QED
  BY <1>3, <1>4, <1>5, <1>6, <1>7, <1>8, <1>9, <1>10 DEF Next, Environment

(* The two topology files agree outside create's two writes, and destroy   *)
(* works on the hosts of the run it was started for.                       *)
THEOREM FilesAgreeHolds == ~TornRender => (Spec => []FilesAgree)
<1> SUFFICES ASSUME ~TornRender PROVE Spec => []FilesAgree
  OBVIOUS
<1>1. Init => FilesAgree
  BY MarkerAssumption DEF Init, FilesAgree, DestroyPcs
<1>2. OwnershipInvariant /\ FilesAgree /\ [Next]_vars => FilesAgree'
  BY FilesAgreeStep
<1> QED
  BY <1>1, <1>2, OwnershipHolds, PTL DEF Spec

(* While the topology files are written together, only a script started    *)
(* for a run ever stops, reconfigures or removes a VM of that run: for any *)
(* runs, hosts and VMID ranges, however the VMIDs overlap, and whatever    *)
(* earlier scripts were killed in the middle.                              *)
THEOREM VmsAreIsolated == ~TornRender => (Spec => VmIsolation)
<1> SUFFICES ASSUME ~TornRender PROVE Spec => VmIsolation
  OBVIOUS
<1>1. ASSUME OwnershipInvariant, FilesAgree, [Next]_vars
      PROVE  [\A v \in Vmids : vm[v] \in VMs /\ vm'[v] # vm[v] => vm[v].run = run]_vars
  <2> SUFFICES ASSUME NEW v \in Vmids, vm[v] \in VMs, vm'[v] # vm[v]
               PROVE  vm[v].run = run
    OBVIOUS
  <2> USE DEF OwnershipInvariant, TypeOK, PveOK
  <2>1. ASSUME NEW h \in Hosts, CloneVm(h)
        PROVE  FALSE
    BY <1>1, <2>1, MarkerAssumption DEF CloneVm
  <2>2. ASSUME NEW h \in Hosts, AttachNics(h) \/ StartVm(h)
        PROVE  vm[v].run = run
    <3>1. run \in Runs /\ h \in AllHosts /\ vm[VmidOf(run, h)] \in Named(run, h)
      BY <1>1, <2>2 DEF AttachNics, StartVm, ScriptOK, ClonedOK, AfterClone, AllHosts
    <3>2. VmidOf(run, h) = v
      BY <1>1, <2>2 DEF AttachNics, StartVm
    <3> QED
      BY <3>1, <3>2, Names
  <2>3. ASSUME NEW h \in AllHosts, WorkerStop(h) \/ WorkerRemove(h)
        PROVE  vm[v].run = run
    <3>1. pc = "d_work" /\ worker[h] \in {"stop", "remove"} /\ VmidOf(TargetRun, h) = v
      BY <1>1, <2>3 DEF WorkerStop, WorkerRemove
    <3>2. run \in Runs
      BY <1>1, <3>1 DEF ScriptOK
    <3>3. TargetRun = run
      BY <1>1, <3>1, <3>2 DEF FilesAgree, TargetRun, FilesOK, DestroyPcs
    <3>4. vm[v] \in Named(run, h)
      BY <1>1, <3>1, <3>3 DEF WorkersOK
    <3> QED
      BY <3>2, <3>4, Names
  <2>4. ASSUME NEW w \in ForeignVmids, ForeignAppears(w) \/ ForeignLeaves(w)
        PROVE  FALSE
    BY <1>1, <2>4, MarkerAssumption DEF ForeignAppears, ForeignLeaves
  <2> QED
    BY <1>1, <2>1, <2>2, <2>3, <2>4, VmSteps
<1> QED
  BY <1>1, OwnershipHolds, FilesAgreeHolds, PTL DEF Spec, VmIsolation
-----------------------------------------------------------------------------
(* A script is begun where none runs, keeps its run and ends; neither end  *)
(* of it touches a VM.                                                     *)
LEMMA RunSteps ==
    ASSUME [Next]_vars
    PROVE  \/ run' = run
           \/ pc = "idle" /\ run' \in Runs /\ UNCHANGED vm
           \/ pc # "idle" /\ run' = Absent /\ UNCHANGED vm
<1>1. CASE UNCHANGED vars
  BY <1>1 DEF vars, scriptVars
<1>2. CASE CreateStep
  <2>1. CASE CreateDone \/ CreateTrap
    BY <2>1, Zenon DEF CreateDone, CreateTrap, End, pveVars
  <2>2. ASSUME ~CreateDone, ~CreateTrap
        PROVE  run' = run
    BY <1>2, <2>2 DEF CreateStep, RenderJson, RenderEnv, InitState, CloneVm, AttachNics,
       StartVm, CreateVnet, RecordCloned, RecordVm, CreateZone, RecordZone, RecordVnet,
       ApplySdn, WaitVnets, RecordConfigured, RecordStarted, CreateFails, RenderEnvFails,
       Goto, Enter, Mark
  <2> QED
    BY <2>1, <2>2
<1>3. CASE DestroyStep
  <2>1. CASE CheckEnv \/ VerifyTargets \/ FlushDone \/ DestroyDone
    BY <2>1, Zenon DEF CheckEnv, VerifyTargets, FlushDone, DestroyDone, Goto, Enter, End, pveVars
  <2>2. ASSUME ~CheckEnv, ~VerifyTargets, ~FlushDone, ~DestroyDone
        PROVE  run' = run
    BY <1>3, <2>2 DEF DestroyStep, DestroyBegin, WorkerStep, StartWorker, WorkerCheck,
       WorkerStop, WorkerRemove, FlushStatus, JoinWorkers, DeleteVnet, RecordVnetDeleted,
       DeleteZone, RecordZoneDeleted, ApplyDeletion, Goto, Enter
  <2> QED
    BY <2>1, <2>2
<1>4. CASE Environment
  <2>1. ASSUME NEW r \in Runs, StartCreate(r) \/ StartDestroy(r)
        PROVE  pc = "idle" /\ run' \in Runs /\ UNCHANGED vm
    BY <2>1 DEF StartCreate, StartDestroy, pveVars
  <2>2. CASE Kill \/ KillInWrite
    BY <2>2 DEF Kill, KillInWrite, StateWriters, WritingState, End, pveVars
  <2>3. CASE Checkout \/ \E v \in ForeignVmids : ForeignAppears(v) \/ ForeignLeaves(v)
    BY <2>3 DEF Checkout, ForeignAppears, ForeignLeaves, scriptVars
  <2> QED
    BY <1>4, <2>1, <2>2, <2>3 DEF Environment
<1> QED
  BY <1>1, <1>2, <1>3, <1>4 DEF Next

(* The initial host is an initial state of the abstract specification.     *)
LEMMA InitImplements == Init => Promise!Init
<1> SUFFICES ASSUME Init PROVE Promise!Init
  OBVIOUS
<1>1. \A v \in Vmids : vm[v] \in {Absent, Foreign} /\ vm[v] \notin VMs
  BY MarkerAssumption DEF Init
<1> QED
  BY <1>1 DEF Init, Holder, Promise!Init

(* A step on one VMID is seen as a change of that VMID's holder alone.     *)
LEMMA HolderStep ==
    ASSUME PveOK, NEW v \in Vmids, NEW x, vm' = [vm EXCEPT ![v] = x]
    PROVE  Holder' = [Holder EXCEPT ![v] = IF x \in VMs THEN x.run ELSE x]
  BY DEF PveOK, Holder

(* A step that changes VMs takes a free VMID, gives one of its own run     *)
(* back, is another user's, or leaves every VMID with its holder.          *)
LEMMA VmStepImplements ==
    ASSUME OwnershipInvariant, FilesAgree, [Next]_vars, UNCHANGED run
    PROVE  \/ \E v \in Vmids : \/ Promise!Claim(v) \/ Promise!Release(v)
                               \/ Promise!OtherTakes(v) \/ Promise!OtherLeaves(v)
           \/ UNCHANGED Holder
<1> USE DEF OwnershipInvariant, TypeOK
<1>a. pc # "idle" => run \in Runs /\ run # Absent
  BY MarkerAssumption DEF ScriptOK
<1>1. ASSUME UNCHANGED vm
      PROVE  UNCHANGED Holder
  BY <1>1 DEF Holder
<1>2. ASSUME NEW h \in Hosts, CloneVm(h)
      PROVE  UNCHANGED Holder \/ \E v \in Vmids : Promise!Claim(v)
  <2> DEFINE v == VmidOf(run, h)
             x == [run |-> run, host |-> h, nics |-> FALSE, on |-> FALSE]
  <2>1. run \in Runs /\ run # Absent /\ v \in Vmids /\ x \in VMs
    BY <1>2, <1>a, Names DEF CloneVm, AllHosts, VMs
  <2>2. CASE UNCHANGED vm
    BY <2>2 DEF Holder
  <2>3. CASE vm[v] = Absent /\ vm' = [vm EXCEPT ![v] = x]
    <3>1. Holder' = [Holder EXCEPT ![v] = run]
      BY <2>1, <2>3, HolderStep
    <3>2. Holder[v] = Absent
      BY <2>1, <2>3, MarkerAssumption DEF Holder
    <3>3. Promise!Claim(v)
      BY <2>1, <3>1, <3>2 DEF Promise!Claim
    <3> QED
      BY <2>1, <3>3
  <2> QED
    BY <1>2, <2>2, <2>3 DEF CloneVm
<1>3. ASSUME NEW h \in AllHosts, NEW r \in Runs, vm[VmidOf(r, h)] \in Named(r, h),
             \/ vm' = [vm EXCEPT ![VmidOf(r, h)].nics = TRUE]
             \/ vm' = [vm EXCEPT ![VmidOf(r, h)].on = TRUE]
             \/ vm' = [vm EXCEPT ![VmidOf(r, h)].on = FALSE]
      PROVE  UNCHANGED Holder
  <2> DEFINE v == VmidOf(r, h)
  <2>1. v \in Vmids /\ vm[v] \in VMs
    BY <1>3, Names
  <2>2. vm'[v] \in VMs /\ vm'[v].run = vm[v].run
    <3>1. /\ [vm[v] EXCEPT !.nics = TRUE] \in VMs
          /\ [vm[v] EXCEPT !.on = TRUE] \in VMs
          /\ [vm[v] EXCEPT !.on = FALSE] \in VMs
      BY <2>1 DEF VMs
    <3>2. \/ vm'[v] = [vm[v] EXCEPT !.nics = TRUE]
          \/ vm'[v] = [vm[v] EXCEPT !.on = TRUE]
          \/ vm'[v] = [vm[v] EXCEPT !.on = FALSE]
      BY <1>3, <2>1 DEF PveOK
    <3> QED
      BY <2>1, <3>1, <3>2 DEF VMs
  <2>3. \A w \in Vmids : w # v => vm'[w] = vm[w]
    BY <1>3 DEF PveOK
  <2> QED
    BY <2>1, <2>2, <2>3 DEF Holder
<1>4. ASSUME NEW h \in Hosts, AttachNics(h) \/ StartVm(h)
      PROVE  UNCHANGED Holder
  <2>1. run \in Runs /\ h \in AllHosts /\ vm[VmidOf(run, h)] \in Named(run, h)
    BY <1>4, <1>a DEF AttachNics, StartVm, ClonedOK, AfterClone, AllHosts
  <2>2. \/ UNCHANGED vm
        \/ vm' = [vm EXCEPT ![VmidOf(run, h)].nics = TRUE]
        \/ vm' = [vm EXCEPT ![VmidOf(run, h)].on = TRUE]
    BY <1>4 DEF AttachNics, StartVm
  <2>3. CASE UNCHANGED vm
    BY <1>1, <2>3
  <2>4. CASE ~UNCHANGED vm
    BY <1>3, <2>1, <2>2, <2>4
  <2> QED
    BY <2>3, <2>4
<1>5. ASSUME NEW h \in AllHosts, WorkerStop(h) \/ WorkerRemove(h)
      PROVE  UNCHANGED Holder \/ \E v \in Vmids : Promise!Release(v)
  <2> DEFINE v == VmidOf(run, h)
  <2>1. pc = "d_work" /\ worker[h] \in {"stop", "remove"}
    BY <1>5 DEF WorkerStop, WorkerRemove
  <2>2. TargetRun = run /\ run \in Runs
    BY <2>1, <1>a DEF FilesAgree, TargetRun, FilesOK, DestroyPcs
  <2>3. v \in Vmids /\ vm[v] \in Named(run, h) /\ vm[v] \in VMs /\ vm[v].run = run
    BY <2>1, <2>2, Names DEF WorkersOK
  <2>4. \/ UNCHANGED vm
        \/ vm' = [vm EXCEPT ![v].on = FALSE]
        \/ vm' = [vm EXCEPT ![v] = Absent]
    BY <1>5, <2>2 DEF WorkerStop, WorkerRemove
  <2>5. CASE vm' = [vm EXCEPT ![v] = Absent]
    <3>1. Holder' = [Holder EXCEPT ![v] = Absent]
      BY <2>3, <2>5, HolderStep, MarkerAssumption
    <3>2. Holder[v] = run
      BY <2>3 DEF Holder
    <3>3. Promise!Release(v)
      BY <3>1, <3>2 DEF Promise!Release
    <3> QED
      BY <2>3, <3>3
  <2>6. CASE vm' = [vm EXCEPT ![v].on = FALSE]
    BY <1>3, <2>2, <2>3, <2>6
  <2> QED
    BY <1>1, <2>4, <2>5, <2>6
<1>6. ASSUME NEW v \in ForeignVmids, ForeignAppears(v) \/ ForeignLeaves(v)
      PROVE  \E w \in Vmids : Promise!OtherTakes(w) \/ Promise!OtherLeaves(w)
  <2>1. v \in Vmids
    BY DEF Vmids
  <2>2. CASE ForeignAppears(v)
    <3>1. Holder' = [Holder EXCEPT ![v] = Foreign] /\ Holder[v] = Absent
      BY <2>1, <2>2, HolderStep, MarkerAssumption DEF ForeignAppears, Holder
    <3> QED
      BY <2>1, <3>1 DEF Promise!OtherTakes
  <2>3. CASE ForeignLeaves(v)
    <3>1. Holder' = [Holder EXCEPT ![v] = Absent] /\ Holder[v] = Foreign
      BY <2>1, <2>3, HolderStep, MarkerAssumption DEF ForeignLeaves, Holder
    <3> QED
      BY <2>1, <3>1 DEF Promise!OtherLeaves
  <2> QED
    BY <1>6, <2>2, <2>3
<1> QED
  BY <1>1, <1>2, <1>4, <1>5, <1>6, VmSteps

(* Create and destroy implement the abstract ownership of VMIDs, for any   *)
(* runs, hosts and overlaps of their VMIDs, any number of workers, and     *)
(* whatever fails or is killed, while the topology files are written       *)
(* together.                                                               *)
THEOREM OwnershipImplemented == ~TornRender => (Spec => ImplementsOwnership)
<1> SUFFICES ASSUME ~TornRender PROVE Spec => ImplementsOwnership
  OBVIOUS
<1>1. OwnershipInvariant /\ FilesAgree /\ [Next]_vars
        => [Promise!Next]_<<Holder, run>>
  <2> SUFFICES ASSUME OwnershipInvariant, FilesAgree, [Next]_vars
               PROVE  [Promise!Next]_<<Holder, run>>
    OBVIOUS
  <2>1. CASE run' = run
    BY <2>1, VmStepImplements DEF Promise!Next
  <2>2. CASE pc = "idle" /\ run' \in Runs /\ UNCHANGED vm
    BY <2>2 DEF OwnershipInvariant, TypeOK, ScriptOK, Holder, Promise!Next, Promise!Begin
  <2>3. CASE pc # "idle" /\ run' = Absent /\ UNCHANGED vm
    BY <2>3, MarkerAssumption
       DEF OwnershipInvariant, TypeOK, ScriptOK, Holder, Promise!Next, Promise!Finish
  <2> QED
    BY <2>1, <2>2, <2>3, RunSteps
<1> QED
  BY <1>1, InitImplements, OwnershipHolds, FilesAgreeHolds, PTL
     DEF Spec, ImplementsOwnership, Promise!Spec
-----------------------------------------------------------------------------
(* A call to run-state.py changes a document only when it is the running   *)
(* script's own, and leaves it its run.                                    *)
LEMMA CommandsKeepRun ==
    ASSUME OwnershipInvariant, state \in Document, state' \in Document, state' # state,
           \/ \E p \in Phase : StatePhase(p)
           \/ \E h \in AllHosts, s \in VmStatus : StateVm(h, s)
           \/ \E s \in SdnStatus : StateZone(s)
           \/ \E n \in Nets, s \in SdnStatus : StateVnet(n, s)
    PROVE  state.run = run /\ state'.run = run
<1>1. state \notin {Absent, Torn}
  BY MarkerAssumption
<1>2. Own = IF state.run = run THEN state ELSE Absent
  BY <1>1 DEF Own, EnsureState
<1>3. Own # Absent
  BY DEF StatePhase, StateVm, StateZone, StateVnet
<1>4. state.run = run /\ Own = state
  BY <1>2, <1>3
<1> QED
  BY <1>4, MarkerAssumption
     DEF StatePhase, StateVm, StateZone, StateVnet, SetPhase, SetVm, SetZone, SetVnet, Document

(* A run-state document is only ever changed by a script of its own run,   *)
(* and only create's init replaces it with the document of another run,    *)
(* for any runs and whatever files interrupted scripts left.               *)
THEOREM DocumentsAreIsolated == Spec => RunStateOfOneRun
<1>1. ASSUME OwnershipInvariant, OwnershipInvariant', [Next]_vars
      PROVE  [{state, state'} \cap {Absent, Torn} = {} /\ state' # state =>
                /\ state'.run = run
                /\ state.run = run \/ pc = "init"]_vars
  <2> SUFFICES ASSUME {state, state'} \cap {Absent, Torn} = {}, state' # state
               PROVE  state'.run = run /\ (state.run = run \/ pc = "init")
    OBVIOUS
  <2> USE DEF OwnershipInvariant
  <2>1. state \in Document /\ state' \in Document
    BY <1>1 DEF TypeOK, FilesOK
  <2>2. CASE InitState
    <3>1. pc = "init" /\ state' = InitDocument(run, state)
      BY <2>2 DEF InitState
    <3>2. InitDocument(run, state).run = run
      BY DEF InitDocument, TopologyDocument
    <3> QED
      BY <3>1, <3>2
  <2>3. CASE RecordCloned \/ RecordConfigured \/ RecordStarted \/ RecordZone \/ RecordVnet
             \/ RecordVnetDeleted \/ RecordZoneDeleted
    <3>1. \/ StateVm(cur.item, cur.status) /\ pc \in {"clone_rec", "nics_rec", "start_rec"}
          \/ StateZone(cur.status) /\ pc \in {"zone_rec", "d_zone_rec"}
          \/ StateVnet(cur.item, cur.status) /\ pc \in {"vnet_rec", "d_vnet_rec"}
      BY <2>3 DEF RecordCloned, RecordConfigured, RecordStarted, RecordVm, RecordZone,
         RecordVnet, RecordVnetDeleted, RecordZoneDeleted
    <3>2. \/ \E h \in AllHosts, s \in VmStatus : StateVm(h, s)
          \/ \E s \in SdnStatus : StateZone(s)
          \/ \E n \in Nets, s \in SdnStatus : StateVnet(n, s)
      BY <1>1, <3>1 DEF MarkOK, AllHosts
    <3> QED
      BY <1>1, <2>1, <3>2, CommandsKeepRun
  <2>4. CASE CreateDone \/ CreateTrap \/ DestroyBegin \/ VerifyTargets \/ DestroyDone
    <3>1. \E p \in Phase : StatePhase(p)
      BY <2>4 DEF CreateDone, CreateTrap, DestroyBegin, VerifyTargets, DestroyDone, Phase
    <3> QED
      BY <1>1, <2>1, <3>1, CommandsKeepRun
  <2>5. ASSUME NEW h \in AllHosts, FlushStatus(h)
        PROVE  state'.run = run /\ state.run = run
    <3>1. worker[h] \in Reports
      BY <1>1, <2>5 DEF FlushStatus, IsNext, WorkersOK
    <3>2. (\E p \in Phase : StatePhase(p)) \/ \E s \in VmStatus : StateVm(h, s)
      BY <2>5, <3>1 DEF FlushStatus, Reports, Phase, VmStatus
    <3> QED
      BY <1>1, <2>1, <3>2, CommandsKeepRun
  <2>6. CASE UNCHANGED fileVars \/ RenderJson \/ RenderEnv
    BY <2>6 DEF fileVars, RenderJson, RenderEnv
  <2>7. CASE KillInWrite \/ Checkout
    BY <2>7 DEF KillInWrite, Checkout
  <2> QED
    BY <1>1, <2>2, <2>3, <2>4, <2>5, <2>6, <2>7, FileSteps
<1> QED
  BY <1>1, OwnershipHolds, PTL DEF Spec, RunStateOfOneRun
-----------------------------------------------------------------------------
(* A VMID keeps the name of its VM in every step, unless the VM is removed,*)
(* a stranger takes or leaves it, or create clones into it.                *)
LEMMA NamesStay ==
    ASSUME OwnershipInvariant, [Next]_vars, NEW v \in Vmids
    PROVE  \/ vm'[v] \in {vm[v], Absent, Foreign}
           \/ /\ vm[v] \in VMs /\ vm'[v] \in VMs
              /\ vm'[v].run = vm[v].run /\ vm'[v].host = vm[v].host
           \/ /\ pc = "clone" /\ run \in Runs /\ vm'[v] \in VMs
              /\ \E h \in Hosts : v = VmidOf(run, h) /\ vm'[v] \in Named(run, h)
<1> USE DEF OwnershipInvariant, TypeOK, PveOK
<1>1. ASSUME NEW h \in Hosts, CloneVm(h)
      PROVE  \/ vm'[v] = vm[v]
             \/ /\ pc = "clone" /\ run \in Runs /\ vm'[v] \in VMs
                /\ v = VmidOf(run, h) /\ vm'[v] \in Named(run, h)
  <2> DEFINE clone == [run |-> run, host |-> h, nics |-> FALSE, on |-> FALSE]
  <2>1. pc = "clone" /\ run \in Runs /\ h \in AllHosts
    BY <1>1 DEF CloneVm, ScriptOK, AllHosts
  <2>2. clone \in VMs /\ clone \in Named(run, h)
    BY <2>1 DEF VMs, Named
  <2>3. UNCHANGED vm \/ vm' = [vm EXCEPT ![VmidOf(run, h)] = clone]
    BY <1>1 DEF CloneVm
  <2> QED
    BY <2>1, <2>2, <2>3
<1>2. ASSUME NEW w \in Vmids, vm[w] \in VMs,
             \/ vm' = [vm EXCEPT ![w].nics = TRUE]
             \/ vm' = [vm EXCEPT ![w].on = TRUE]
             \/ vm' = [vm EXCEPT ![w].on = FALSE]
      PROVE  \/ vm'[v] = vm[v]
             \/ /\ vm[v] \in VMs /\ vm'[v] \in VMs
                /\ vm'[v].run = vm[v].run /\ vm'[v].host = vm[v].host
  <2>1. \A b \in BOOLEAN : /\ [vm[w] EXCEPT !.nics = b] \in VMs
                           /\ [vm[w] EXCEPT !.on = b] \in VMs
    BY <1>2 DEF VMs
  <2>2. \/ vm'[w] = [vm[w] EXCEPT !.nics = TRUE]
        \/ vm'[w] = [vm[w] EXCEPT !.on = TRUE]
        \/ vm'[w] = [vm[w] EXCEPT !.on = FALSE]
    BY <1>2
  <2>3. vm'[w] \in VMs /\ vm'[w].run = vm[w].run /\ vm'[w].host = vm[w].host
    BY <1>2, <2>1, <2>2 DEF VMs
  <2>4. v # w => vm'[v] = vm[v]
    BY <1>2
  <2> QED
    BY <1>2, <2>3, <2>4
<1>3. ASSUME NEW h \in Hosts, AttachNics(h) \/ StartVm(h)
      PROVE  \/ vm'[v] = vm[v]
             \/ /\ vm[v] \in VMs /\ vm'[v] \in VMs
                /\ vm'[v].run = vm[v].run /\ vm'[v].host = vm[v].host
  <2>1. run \in Runs /\ h \in AllHosts /\ vm[VmidOf(run, h)] \in Named(run, h)
    BY <1>3 DEF AttachNics, StartVm, ScriptOK, ClonedOK, AfterClone, AllHosts
  <2>2. VmidOf(run, h) \in Vmids /\ vm[VmidOf(run, h)] \in VMs
    BY <2>1, Names
  <2>3. \/ UNCHANGED vm
        \/ vm' = [vm EXCEPT ![VmidOf(run, h)].nics = TRUE]
        \/ vm' = [vm EXCEPT ![VmidOf(run, h)].on = TRUE]
    BY <1>3 DEF AttachNics, StartVm
  <2> QED
    BY <1>2, <2>2, <2>3
<1>4. ASSUME NEW h \in AllHosts, WorkerStop(h) \/ WorkerRemove(h)
      PROVE  \/ vm'[v] \in {vm[v], Absent}
             \/ /\ vm[v] \in VMs /\ vm'[v] \in VMs
                /\ vm'[v].run = vm[v].run /\ vm'[v].host = vm[v].host
  <2>1. pc = "d_work" /\ worker[h] \in {"stop", "remove"} /\ run \in Runs
    BY <1>4 DEF WorkerStop, WorkerRemove, ScriptOK
  <2>2. TargetRun \in Runs /\ vm[VmidOf(TargetRun, h)] \in Named(TargetRun, h)
    BY <2>1, TargetType DEF WorkersOK
  <2>3. VmidOf(TargetRun, h) \in Vmids /\ vm[VmidOf(TargetRun, h)] \in VMs
    BY <2>2, Names
  <2>4. \/ UNCHANGED vm
        \/ vm' = [vm EXCEPT ![VmidOf(TargetRun, h)].on = FALSE]
        \/ vm' = [vm EXCEPT ![VmidOf(TargetRun, h)] = Absent]
    BY <1>4 DEF WorkerStop, WorkerRemove
  <2> QED
    BY <1>2, <2>3, <2>4
<1>5. ASSUME NEW w \in ForeignVmids, ForeignAppears(w) \/ ForeignLeaves(w)
      PROVE  vm'[v] \in {vm[v], Absent, Foreign}
  BY <1>5 DEF ForeignAppears, ForeignLeaves
<1> QED
  BY <1>1, <1>3, <1>4, <1>5, VmSteps

(* Every VM is one of a host of the topology, and at the VMID of its name. *)
Placed ==
    \A v \in Vmids : vm[v] \in VMs =>
        vm[v].host \in Hosts /\ v = VmidOf(vm[v].run, vm[v].host)

LEMMA PlacedStep == OwnershipInvariant /\ Placed /\ [Next]_vars => Placed'
<1> SUFFICES ASSUME OwnershipInvariant, Placed, [Next]_vars,
                    NEW v \in Vmids, vm'[v] \in VMs
             PROVE  vm'[v].host \in Hosts /\ v = VmidOf(vm'[v].run, vm'[v].host)
  BY DEF Placed
<1>1. CASE \E h \in Hosts : v = VmidOf(run, h) /\ vm'[v] \in Named(run, h)
  BY <1>1 DEF Named
<1>2. CASE vm'[v] = vm[v]
  BY <1>2 DEF Placed
<1>3. CASE vm[v] \in VMs /\ vm'[v].run = vm[v].run /\ vm'[v].host = vm[v].host
  BY <1>3 DEF Placed
<1> QED
  BY <1>1, <1>2, <1>3, NamesStay, MarkerAssumption

(* Past its verification destroy finds no VM of another run at the VMIDs   *)
(* of the topology, and it deletes VNets only for a topology it has.       *)
Verified ==
    /\ pc \in {"d_work", "d_flush", "d_vnet", "d_vnet_rec"} /\ json \in Runs =>
          \A h \in Hosts : vm[VmidOf(run, h)] \in Named(run, h) \cup {Absent, Foreign}
    /\ pc \in {"d_vnet", "d_vnet_rec"} => json \in Runs

LEMMA VerifiedStep ==
    ASSUME ~QueryErrors, OwnershipInvariant, FilesAgree, Verified, [Next]_vars
    PROVE  Verified'
<1> DEFINE Past == {"d_work", "d_flush", "d_vnet", "d_vnet_rec"}
<1> USE DEF OwnershipInvariant, TypeOK, ScriptOK, FilesOK
<1>1. CASE pc' \notin Past
  BY <1>1 DEF Verified
<1>2. CASE VerifyTargets
  <2>1. pc = "d_verify" /\ UNCHANGED <<pveVars, json>> /\ pc' \in {"d_work", "idle"}
    BY <1>2, Zenon DEF VerifyTargets, Enter, End
  <2>2. CASE pc' = "idle"
    BY <2>2 DEF Verified
  <2>3. ASSUME pc' = "d_work", json \in Runs, NEW h \in Hosts
        PROVE  run' = run /\ vm[VmidOf(run, h)] \in Named(run, h) \cup {Absent}
    <3>1. run' = run /\ \A k \in Targets : ~Mismatched(k)
      BY <1>2, <2>3 DEF VerifyTargets, Enter, End
    <3>2. Targets = Hosts /\ TargetRun = run
      BY <2>1, <2>3, MarkerAssumption DEF Targets, TargetRun, FilesAgree, DestroyPcs
    <3> QED
      BY <3>1, <3>2 DEF Mismatched
  <2> QED
    BY <2>1, <2>2, <2>3 DEF Verified, pveVars
<1>3. CASE pc' \in Past /\ ~VerifyTargets
  <2>1. /\ pc \in Past /\ UNCHANGED <<json, run>>
        /\ pc' \in {"d_vnet", "d_vnet_rec"} =>
              pc \in {"d_vnet", "d_vnet_rec"} \/ json \notin {Absent, Torn}
    <3>1. CASE CreateStep
      BY <1>3, <3>1 DEF CreateStep, RenderJson, RenderEnv, InitState, CloneVm, AttachNics,
         StartVm, CreateVnet, RecordCloned, RecordVm, CreateZone, RecordZone, RecordVnet,
         ApplySdn, WaitVnets, RecordConfigured, RecordStarted, CreateDone, CreateFails,
         RenderEnvFails, CreateTrap, Goto, Enter, Mark, End
    <3>2. CASE DestroyStep
      BY <1>3, <3>2, MarkerAssumption DEF DestroyStep, DestroyBegin, CheckEnv, WorkerStep,
         StartWorker, WorkerCheck, WorkerStop, WorkerRemove, FlushStatus, JoinWorkers,
         FlushDone, DeleteVnet, RecordVnetDeleted, DeleteZone, RecordZoneDeleted,
         ApplyDeletion, DestroyDone, Goto, Enter, End, fileVars
    <3>3. CASE Environment \/ UNCHANGED vars
      BY <1>3, <3>3 DEF Environment, StartCreate, StartDestroy, Kill, KillInWrite, Checkout,
         ForeignAppears, ForeignLeaves, End, StateWriters, WritingState, vars, fileVars, scriptVars
    <3> QED
      BY <3>1, <3>2, <3>3 DEF Next
  <2>2. ASSUME json \in Runs, NEW h \in Hosts
        PROVE  vm'[VmidOf(run, h)] \in Named(run, h) \cup {Absent, Foreign}
    <3>1. pc # "idle" /\ pc # "clone" /\ run \in Runs
          /\ vm[VmidOf(run, h)] \in Named(run, h) \cup {Absent, Foreign}
      BY <2>1, <2>2 DEF Verified
    <3>2. VmidOf(run, h) \in Vmids
      BY <3>1, Names DEF AllHosts
    <3> QED
      BY <3>1, <3>2, NamesStay, MarkerAssumption DEF Named, VMs
  <2>3. json \notin {Absent, Torn} => json \in Runs
    OBVIOUS
  <2> QED
    BY <2>1, <2>2, <2>3 DEF Verified
<1> QED
  BY <1>1, <1>2, <1>3

(* Runs that share a VNet share their VMIDs, if VmidRange divides          *)
(* SuffixRange, as 50000 does 1000000; then no VNet is deleted under a     *)
(* configured VM of another run, for any runs and topologies, whatever was *)
(* killed or failed before, but for status queries that fail.              *)
THEOREM VnetsAreIsolated ==
    ASSUME ~TornRender, ~QueryErrors,
           \A r, q \in Runs : Suffix(r) = Suffix(q) => r % VmidRange = q % VmidRange
    PROVE  Spec => VnetIsolation
<1>1. Init => Placed /\ Verified
  BY MarkerAssumption DEF Init, Placed, Verified
<1>2. OwnershipInvariant /\ FilesAgree /\ Placed /\ Verified /\ [Next]_vars
         => Placed' /\ Verified'
  BY PlacedStep, VerifiedStep
<1>3. ASSUME OwnershipInvariant, FilesAgree, Placed, Verified, [Next]_vars
      PROVE  [\A v \in Vmids : vm[v] \in VMs /\ vm[v].nics =>
                 \A n \in Nets : LET vnet == <<Suffix(vm[v].run), n>> IN
                    vnet \in vnets \ vnets' => vm[v].run = run]_vars
  <2> SUFFICES ASSUME NEW v \in Vmids, vm[v] \in VMs, NEW n \in Nets,
                      <<Suffix(vm[v].run), n>> \in vnets,
                      <<Suffix(vm[v].run), n>> \notin vnets'
               PROVE  vm[v].run = run
    BY <1>3
  <2> USE DEF OwnershipInvariant, TypeOK
  <2>1. PICK m \in Nets : DeleteVnet(m)
    BY <1>3, SdnSteps DEF CreateZone, ApplySdn, DeleteZone, ApplyDeletion, CreateVnet
  <2>2. pc = "d_vnet" /\ json \in Runs /\ json = run
    BY <1>3, <2>1 DEF DeleteVnet, Verified, FilesAgree, DestroyPcs
  <2>3. Suffix(vm[v].run) = Suffix(run)
    BY <2>1, <2>2 DEF DeleteVnet
  <2> DEFINE h == vm[v].host
  <2>4. h \in Hosts /\ vm[v].run \in Runs /\ v = VmidOf(vm[v].run, h)
    BY <1>3 DEF Placed, VMs
  <2>5. v = VmidOf(run, h)
    BY <2>2, <2>3, <2>4 DEF VmidOf
  <2>6. vm[v] \in Named(run, h)
    BY <1>3, <2>2, <2>4, <2>5, MarkerAssumption DEF Verified
  <2> QED
    BY <2>6 DEF Named
<1> QED
  BY <1>1, <1>2, <1>3, OwnershipHolds, FilesAgreeHolds, PTL DEF Spec, VnetIsolation
=============================================================================
