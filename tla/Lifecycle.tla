----------------------------- MODULE Lifecycle ------------------------------
(***************************************************************************)
(* The life of test runs on one Proxmox host: pve-create-run.sh builds the *)
(* VMs and the QinQ SDN of a run, pve-destroy-run.sh removes them, and both*)
(* leave artifacts/topology.json, topology.env and run-state.json behind   *)
(* for the scripts that follow.  One script runs at a time (the workflow's *)
(* concurrency group, or one operator at one terminal); inside destroy up  *)
(* to Jobs background workers run at once.  A script may be started for    *)
(* any run after any other, a Proxmox command may fail, a script may be    *)
(* killed between any two of its effects, and a checkout may wipe the      *)
(* artifacts.                                                              *)
(***************************************************************************)
EXTENDS RunState, Naturals, FiniteSets

CONSTANTS
    VmidRange,     \* 50000: VMIDs are 200000 + run % VmidRange + offset
    SuffixRange,   \* 1000000: SDN names end in run % SuffixRange
    Offset,        \* vmid_offset of every host
    Order,         \* place of every host and network in topology.json
    Jobs,          \* PVE_DESTROY_JOBS
    Foreign,       \* a VM that no script created
    ForeignVmids,  \* VMIDs other users of the host may take
    PveErrors,     \* Proxmox commands may fail
    QueryErrors,   \* qm status and qm config may fail although the VM exists
    TornRender,    \* create may stop between writing topology.json and .env
    TornWrite      \* a script may be killed inside the writing of a file

(* Mutant of VmidOf: a VMID range wider than the SDN suffix.               *)
VmidOfWholeRun(r, h) == 200000 + r + Offset[h]

VmidOf(r, h) == 200000 + (r % VmidRange) + Offset[h]
Suffix(r)    == r % SuffixRange

Vmids    == {VmidOf(r, h) : r \in Runs, h \in AllHosts} \cup ForeignVmids
Suffixes == {Suffix(r) : r \in Runs}

ASSUME ConstantsAssumption ==
    /\ Runs \subseteq Nat
    /\ Hosts # {} /\ Nets # {}
    /\ VmidRange \in Nat \ {0} /\ SuffixRange \in Nat \ {0}
    /\ Offset \in [AllHosts -> Nat]
    /\ Order \in [AllHosts \cup Nets -> Nat]
    /\ Jobs \in Nat \ {0}
    /\ ForeignVmids \subseteq Nat
    /\ {Qinq, PveErrors, QueryErrors, TornRender, TornWrite} \subseteq BOOLEAN

VMs == [run : Runs, host : AllHosts, nics : BOOLEAN, on : BOOLEAN]

(* The markers are none of the values they are compared with.              *)
ASSUME MarkerAssumption ==
    /\ Absent # Torn /\ Absent # Foreign
    /\ {Absent, Torn} \cap Runs = {}
    /\ {Absent, Torn} \cap Document = {}
    /\ {Absent, Foreign} \cap VMs = {}
    /\ Absent \notin AllHosts \cup Nets

VARIABLES
    vm,       \* Proxmox: VMID -> VM, Foreign or Absent
    zones,    \* Proxmox SDN configuration: the QinQ zones, by suffix
    vnets,    \* Proxmox SDN configuration: the VNets, <<suffix, network>>
    bridges,  \* the VNet bridges the last apply left on the host
    json,     \* run_id of artifacts/topology.json
    env,      \* RUN_ID of artifacts/topology.env
    state,    \* artifacts/run-state.json
    run,      \* the RUN_ID argument of the running script
    pc,       \* where the running script is
    todo,     \* what its current loop has left
    cur,      \* what it did and has not recorded in run-state.json yet
    worker,   \* destroy: per host, its worker's place or its status file
    err       \* a command of the running script has reported an error

pveVars    == <<vm, zones, vnets, bridges>>
fileVars   == <<json, env, state>>
scriptVars == <<run, pc, todo, cur, worker, err>>
vars       == <<pveVars, fileVars, scriptVars>>

CreatePcs  == {"render", "render_env", "init", "clone", "clone_rec", "zone",
               "zone_rec", "vnet", "vnet_rec", "apply", "wait", "nics",
               "nics_rec", "start", "start_rec", "created", "trap"}
DestroyPcs == {"d_begin", "d_env", "d_verify", "d_work", "d_flush", "d_vnet",
               "d_vnet_rec", "d_zone", "d_zone_rec", "d_apply", "d_done"}

(* A worker ends with a status file, except one that died.                 *)
Reports    == {"missing", "destroyed", "unsafe"}
Finished   == Reports \cup {"died"}
Failed     == {"unsafe", "died"}
WorkerPcs  == {"none", "check", "stop", "remove"} \cup Finished

NoMark   == [item |-> Absent, status |-> "unlisted"]
NoWorker == [h \in AllHosts |-> "none"]

(* The VMs Proxmox shows under the name pulsar-<r>-<h>.                    *)
Named(r, h) == [run : {r}, host : {h}, nics : BOOLEAN, on : BOOLEAN]

SdnUp(r) == \A n \in Nets : <<Suffix(r), n>> \in bridges
-----------------------------------------------------------------------------
(* Moves of the running script.                                            *)

Goto(p) ==
    pc' = p /\ UNCHANGED <<run, todo, cur, worker, err>>

Enter(p, items) ==
    pc' = p /\ todo' = items /\ cur' = NoMark /\ UNCHANGED <<run, worker, err>>

Mark(p, item, status) ==
    /\ pc' = p /\ cur' = [item |-> item, status |-> status]
    /\ UNCHANGED <<run, todo, worker, err>>

(* The loops go through topology.json, whose keys write_json has sorted.    *)
IsNext(x) == x \in todo /\ \A y \in todo : Order[x] <= Order[y]

(* The script is over: its process, its workers and its temporary files.   *)
End ==
    /\ run' = Absent /\ pc' = "idle" /\ todo' = {} /\ cur' = NoMark
    /\ worker' = NoWorker /\ err' = FALSE

(* The document run-state.py works on when the running script calls it.    *)
Own == EnsureState(state, json, run)

(* A call to run-state.py; it leaves the file alone when ensure_state dies.*)
StatePhase(p)     == state' = IF Own = Absent THEN state ELSE SetPhase(Own, p)
StateVm(h, s)     == state' = IF Own = Absent THEN state ELSE SetVm(Own, h, s)
StateZone(s)      == state' = IF Own = Absent THEN state ELSE SetZone(Own, s)
StateVnet(n, s)   == state' = IF Own = Absent THEN state ELSE SetVnet(Own, n, s)

Init ==
    /\ \E taken \in SUBSET ForeignVmids :
          vm = [v \in Vmids |-> IF v \in taken THEN Foreign ELSE Absent]
    /\ zones = {} /\ vnets = {} /\ bridges = {}
    /\ json = Absent /\ env = Absent /\ state = Absent
    /\ run = Absent /\ pc = "idle" /\ todo = {} /\ cur = NoMark
    /\ worker = NoWorker /\ err = FALSE
-----------------------------------------------------------------------------
(* pve-create-run.sh                                                       *)

StartCreate(r) ==
    /\ pc = "idle"
    /\ run' = r /\ pc' = "render"
    /\ UNCHANGED <<todo, cur, worker, err, pveVars, fileVars>>

(* cmd_render reads the previous topology.json (an unreadable one is       *)
(* fatal), then writes topology.json and, next, topology.env.              *)
RenderJson ==
    /\ pc = "render"
    /\ IF json = Torn
       THEN Goto("trap") /\ UNCHANGED json
       ELSE json' = run /\ Goto("render_env")
    /\ UNCHANGED <<pveVars, env, state>>

RenderEnv ==
    /\ pc = "render_env"
    /\ env' = run
    /\ Goto("init")
    /\ UNCHANGED <<pveVars, json, state>>

(* run-state.py init, which cannot read a torn run-state.json.             *)
InitState ==
    /\ pc = "init"
    /\ IF state = Torn
       THEN Goto("trap") /\ UNCHANGED state
       ELSE state' = InitDocument(run, state) /\ Enter("clone", Hosts)
    /\ UNCHANGED <<pveVars, json, env>>

(* Mutants of CloneVm: a VM is reused because it has the VMID, whatever    *)
(* its name; a clone that exists is refused, even our own; whatever holds  *)
(* the VMID is replaced by a clone.                                        *)
CloneVmOrReuseAny(h) ==
    /\ pc = "clone" /\ IsNext(h)
    /\ LET v == VmidOf(run, h) IN
       \/ vm[v] \in VMs /\ Mark("clone_rec", h, "reused") /\ UNCHANGED vm
       \/ vm[v] = Foreign /\ Goto("trap") /\ UNCHANGED vm
       \/ /\ vm[v] = Absent
          /\ vm' = [vm EXCEPT ![v] = [run |-> run, host |-> h,
                                      nics |-> FALSE, on |-> FALSE]]
          /\ Mark("clone_rec", h, "cloned")
    /\ UNCHANGED <<zones, vnets, bridges, fileVars>>

CloneVmOrRefuse(h) ==
    /\ pc = "clone" /\ IsNext(h)
    /\ LET v == VmidOf(run, h) IN
       IF vm[v] # Absent
       THEN Goto("trap") /\ UNCHANGED vm
       ELSE /\ vm' = [vm EXCEPT ![v] = [run |-> run, host |-> h,
                                       nics |-> FALSE, on |-> FALSE]]
            /\ Mark("clone_rec", h, "cloned")
    /\ UNCHANGED <<zones, vnets, bridges, fileVars>>

CloneVmOrReplace(h) ==
    /\ pc = "clone" /\ IsNext(h)
    /\ LET v == VmidOf(run, h) IN
       /\ vm' = [vm EXCEPT ![v] = [run |-> run, host |-> h,
                                  nics |-> FALSE, on |-> FALSE]]
       /\ Mark("clone_rec", h, "cloned")
    /\ UNCHANGED <<zones, vnets, bridges, fileVars>>

(* clone_vm: reuse the VM that already has the expected name, refuse a     *)
(* VMID someone else holds, clone into a free one.                         *)
CloneVm(h) ==
    /\ pc = "clone" /\ IsNext(h)
    /\ LET v == VmidOf(run, h) IN
       \/ /\ vm[v] \in Named(run, h)
          /\ Mark("clone_rec", h, "reused")
          /\ UNCHANGED vm
       \/ /\ vm[v] \notin Named(run, h) \cup {Absent}
          /\ Goto("trap")
          /\ UNCHANGED vm
       \/ /\ vm[v] = Absent
          /\ vm' = [vm EXCEPT ![v] = [run |-> run, host |-> h,
                                      nics |-> FALSE, on |-> FALSE]]
          /\ Mark("clone_rec", h, "cloned")
    /\ UNCHANGED <<zones, vnets, bridges, fileVars>>

(* The end of a loop body: record what was done, then go round again or on.*)
RecordVm(at, loop, next, items) ==
    /\ pc = at
    /\ StateVm(cur.item, cur.status)
    /\ IF todo = {cur.item} THEN Enter(next, items)
                            ELSE Enter(loop, todo \ {cur.item})
    /\ UNCHANGED <<pveVars, json, env>>

RecordCloned ==
    IF Qinq THEN RecordVm("clone_rec", "clone", "zone", {})
            ELSE RecordVm("clone_rec", "clone", "nics", Hosts)

(* create_sdn_qinq: reuse or create the zone, then every VNet, then apply  *)
(* the configuration and wait for the bridges.                             *)
CreateZone ==
    /\ pc = "zone"
    /\ zones' = zones \cup {Suffix(run)}
    /\ Mark("zone_rec", Absent, IF Suffix(run) \in zones THEN "reused" ELSE "created")
    /\ UNCHANGED <<vm, vnets, bridges, fileVars>>

RecordZone ==
    /\ pc = "zone_rec"
    /\ StateZone(cur.status)
    /\ Enter("vnet", Nets)
    /\ UNCHANGED <<pveVars, json, env>>

CreateVnet(n) ==
    /\ pc = "vnet" /\ IsNext(n)
    /\ LET vnet == <<Suffix(run), n>> IN
       /\ vnets' = vnets \cup {vnet}
       /\ Mark("vnet_rec", n, IF vnet \in vnets THEN "reused" ELSE "created")
    /\ UNCHANGED <<vm, zones, bridges, fileVars>>

RecordVnet ==
    /\ pc = "vnet_rec"
    /\ StateVnet(cur.item, cur.status)
    /\ IF todo = {cur.item} THEN Enter("apply", {})
                            ELSE Enter("vnet", todo \ {cur.item})
    /\ UNCHANGED <<pveVars, json, env>>

(* One apply makes the whole SDN configuration effective, every run's.     *)
ApplySdn ==
    /\ pc = "apply"
    /\ bridges' = vnets
    /\ Goto("wait")
    /\ UNCHANGED <<vm, zones, vnets, fileVars>>

WaitVnets ==
    /\ pc = "wait"
    /\ SdnUp(run)
    /\ Enter("nics", Hosts)
    /\ UNCHANGED <<pveVars, fileVars>>

(* The NIC loop writes to the VMID without looking at its name again.      *)
AttachNics(h) ==
    /\ pc = "nics" /\ IsNext(h)
    /\ vm' = [vm EXCEPT ![VmidOf(run, h)].nics = TRUE]
    /\ Mark("nics_rec", h, "configured")
    /\ UNCHANGED <<zones, vnets, bridges, fileVars>>

RecordConfigured == RecordVm("nics_rec", "nics", "start", Hosts)

(* Mutant of StartVm: qm start || true.                                    *)
StartVmOrIgnore(h) ==
    /\ pc = "start" /\ IsNext(h)
    /\ LET v == VmidOf(run, h) IN
       \/ vm' = [vm EXCEPT ![v].on = TRUE]
       \/ PveErrors /\ UNCHANGED vm
    /\ Mark("start_rec", h, "started")
    /\ UNCHANGED <<zones, vnets, bridges, fileVars>>

(* qm start needs the bridges the NICs are attached to.                    *)
StartVm(h) ==
    /\ pc = "start" /\ IsNext(h)
    /\ LET v == VmidOf(run, h) IN
       \/ /\ vm[v].on
          /\ Mark("start_rec", h, "running")
          /\ UNCHANGED vm
       \/ /\ ~vm[v].on
          /\ Qinq => SdnUp(run)
          /\ vm' = [vm EXCEPT ![v].on = TRUE]
          /\ Mark("start_rec", h, "started")
    /\ UNCHANGED <<zones, vnets, bridges, fileVars>>

RecordStarted == RecordVm("start_rec", "start", "created", {})

CreateDone ==
    /\ pc = "created"
    /\ StatePhase("created")
    /\ End
    /\ UNCHANGED <<pveVars, json, env>>

(* A Proxmox command of create fails, the VNet wait times out, or the      *)
(* rendering dies before it writes: set -e or die, then the EXIT trap.     *)
CreateFails ==
    /\ PveErrors
    /\ pc \in {"render", "clone", "zone", "vnet", "apply", "wait", "nics", "start"}
    /\ err' = TRUE /\ pc' = "trap"
    /\ UNCHANGED <<run, todo, cur, worker, pveVars, fileVars>>

(* write_env resolves the topology's compat tokens and may die there, with *)
(* topology.json already written.                                          *)
RenderEnvFails ==
    /\ TornRender
    /\ pc = "render_env"
    /\ err' = TRUE /\ pc' = "trap"
    /\ UNCHANGED <<run, todo, cur, worker, pveVars, fileVars>>

(* finish_create_state                                                     *)
CreateTrap ==
    /\ pc = "trap"
    /\ StatePhase("create failed")
    /\ End
    /\ UNCHANGED <<pveVars, json, env>>
-----------------------------------------------------------------------------
(* pve-destroy-run.sh                                                      *)

StartDestroy(r) ==
    /\ pc = "idle"
    /\ run' = r /\ pc' = "d_begin"
    /\ UNCHANGED <<todo, cur, worker, err, pveVars, fileVars>>

(* Mutant of DestroyBegin: the start of a destroy is not recorded.         *)
DestroyBeginUnrecorded ==
    /\ pc = "d_begin"
    /\ Goto("d_env")
    /\ UNCHANGED <<pveVars, fileVars>>

(* The phase is recorded before anything is checked or removed.            *)
DestroyBegin ==
    /\ pc = "d_begin"
    /\ StatePhase("destroy started")
    /\ Goto("d_env")
    /\ UNCHANGED <<pveVars, json, env>>

(* Mutant of CheckEnv: topology.env is sourced, RUN_ID is not compared.    *)
CheckEnvTrusting ==
    /\ pc = "d_env"
    /\ Goto("d_verify")
    /\ UNCHANGED <<pveVars, fileVars>>

(* Sourcing topology.env replaces RUN_ID, unless there is no such file or  *)
(* it is empty; the comparison then has nothing to object to.              *)
CheckEnv ==
    /\ pc = "d_env"
    /\ IF env \in {run, Absent, Torn} THEN Goto("d_verify") ELSE End
    /\ UNCHANGED <<pveVars, fileVars>>

(* destroy_entries: the hosts of topology.json, under the run id that file *)
(* has, or the reference topology's hosts under the requested run id.      *)
Targets   == CASE json = Absent -> DefaultHosts
               [] json = Torn   -> {}
               [] OTHER         -> Hosts
TargetRun == IF json \in {Absent, Torn} THEN run ELSE json

Mismatched(h) ==
    vm[VmidOf(TargetRun, h)] \notin Named(TargetRun, h) \cup {Absent}

(* verify_destroy_targets.  A qm status that fails counts as "no such VM", *)
(* so an error may hide a mismatch; a qm config that fails ends the script.*)
VerifyTargets ==
    /\ pc = "d_verify"
    /\ \/ /\ \E h \in Targets : Mismatched(h)
          /\ StatePhase("destroy unsafe")
          /\ End
       \/ /\ \A h \in Targets : ~Mismatched(h)
          /\ Enter("d_work", Targets)
          /\ UNCHANGED state
       \/ /\ QueryErrors
          /\ pc' = "d_work" /\ todo' = Targets /\ err' = TRUE
          /\ UNCHANGED <<run, cur, worker, state>>
       \/ /\ QueryErrors
          /\ \E h \in Targets : vm[VmidOf(TargetRun, h)] # Absent
          /\ End
          /\ UNCHANGED state
    /\ UNCHANGED <<pveVars, json, env>>

(* Mutant of RunningWorkers: a finished worker keeps its slot.             *)
StartedWorkers == {h \in AllHosts : worker[h] # "none"}

(* jobs -pr                                                                *)
RunningWorkers == {h \in AllHosts : worker[h] \in {"check", "stop", "remove"}}

(* wait_for_destroy_slot and start_destroy_one                             *)
StartWorker(h) ==
    /\ pc = "d_work" /\ IsNext(h)
    /\ Cardinality(RunningWorkers) < Jobs
    /\ worker' = [worker EXCEPT ![h] = "check"]
    /\ todo' = todo \ {h}
    /\ UNCHANGED <<run, pc, cur, err, pveVars, fileVars>>

WorkerGoes(h, p) == worker' = [worker EXCEPT ![h] = p]

(* destroy_one, up to the name check.  A worker whose qm config fails dies *)
(* and leaves no status file.                                              *)
WorkerCheck(h) ==
    /\ pc = "d_work" /\ worker[h] = "check"
    /\ LET v == VmidOf(TargetRun, h) IN
       \/ vm[v] = Absent /\ WorkerGoes(h, "missing") /\ UNCHANGED err
       \/ QueryErrors /\ WorkerGoes(h, "missing") /\ err' = TRUE
       \/ QueryErrors /\ vm[v] # Absent /\ WorkerGoes(h, "died") /\ err' = TRUE
       \/ Mismatched(h) /\ WorkerGoes(h, "unsafe") /\ UNCHANGED err
       \/ vm[v] \in Named(TargetRun, h) /\ WorkerGoes(h, "stop") /\ UNCHANGED err
    /\ UNCHANGED <<run, pc, todo, cur, pveVars, fileVars>>

(* qm stop || true                                                         *)
WorkerStop(h) ==
    /\ pc = "d_work" /\ worker[h] = "stop"
    /\ \/ vm' = [vm EXCEPT ![VmidOf(TargetRun, h)].on = FALSE] /\ UNCHANGED err
       \/ PveErrors /\ err' = TRUE /\ UNCHANGED vm
    /\ WorkerGoes(h, "remove")
    /\ UNCHANGED <<run, pc, todo, cur, zones, vnets, bridges, fileVars>>

(* qm destroy || true, which Proxmox refuses for a running VM; the status  *)
(* file says "destroyed" either way.                                       *)
WorkerRemove(h) ==
    /\ pc = "d_work" /\ worker[h] = "remove"
    /\ LET v == VmidOf(TargetRun, h) IN
       \/ ~vm[v].on /\ vm' = [vm EXCEPT ![v] = Absent] /\ UNCHANGED err
       \/ (vm[v].on \/ PveErrors) /\ err' = TRUE /\ UNCHANGED vm
    /\ WorkerGoes(h, "destroyed")
    /\ UNCHANGED <<run, pc, todo, cur, zones, vnets, bridges, fileVars>>

(* The hosts with a status file.                                           *)
Reporting == {h \in Targets : worker[h] # "died"}

(* Mutant of JoinWorkers: the statuses are flushed without the join.       *)
JoinNobody ==
    /\ pc = "d_work" /\ todo = {}
    /\ Enter("d_flush", Reporting)
    /\ UNCHANGED <<pveVars, fileVars>>

(* The parent has started every worker and waits for each of them.         *)
JoinWorkers ==
    /\ pc = "d_work" /\ todo = {} /\ RunningWorkers = {}
    /\ Enter("d_flush", Reporting)
    /\ UNCHANGED <<pveVars, fileVars>>

(* flush_destroy_statuses: the parent alone writes run-state.json.         *)
FlushStatus(h) ==
    /\ pc = "d_flush" /\ IsNext(h)
    /\ IF worker[h] = "unsafe" THEN StatePhase("destroy unsafe")
                               ELSE StateVm(h, worker[h])
    /\ Enter("d_flush", todo \ {h})
    /\ UNCHANGED <<pveVars, json, env>>

(* NETWORK_MODE is qinq: topology.env says so or, if there is none or an   *)
(* empty one, the environment of destroy, in which it may be missing.      *)
QinqModes == IF env = run THEN {Qinq} ELSE {Qinq, FALSE}

(* After the flush: die if a worker failed, go on to the SDN in QinQ mode  *)
(* with a topology.json (a torn one has no zone name: die), or finish.     *)
FlushDone ==
    /\ pc = "d_flush" /\ todo = {}
    /\ \/ (\E h \in AllHosts : worker[h] \in Failed) /\ End
       \/ /\ \A h \in AllHosts : worker[h] \notin Failed
          /\ \E qinq \in QinqModes :
                \/ (~qinq \/ json = Absent) /\ Goto("d_done")
                \/ qinq /\ json = Torn /\ End
                \/ qinq /\ json \notin {Absent, Torn} /\ Enter("d_vnet", Nets)
    /\ UNCHANGED <<pveVars, fileVars>>

(* pvesh delete || true                                                    *)
DeleteVnet(n) ==
    /\ pc = "d_vnet" /\ IsNext(n)
    /\ \/ vnets' = vnets \ {<<Suffix(json), n>>} /\ UNCHANGED err
       \/ PveErrors /\ err' = TRUE /\ UNCHANGED vnets
    /\ pc' = "d_vnet_rec" /\ cur' = [item |-> n, status |-> "deleted"]
    /\ UNCHANGED <<run, todo, worker, vm, zones, bridges, fileVars>>

RecordVnetDeleted ==
    /\ pc = "d_vnet_rec"
    /\ StateVnet(cur.item, cur.status)
    /\ IF todo = {cur.item} THEN Enter("d_zone", {})
                            ELSE Enter("d_vnet", todo \ {cur.item})
    /\ UNCHANGED <<pveVars, json, env>>

(* Proxmox does not delete a zone that still has VNets.                    *)
DeleteZone ==
    /\ pc = "d_zone"
    /\ LET busy == \E n \in Nets : <<Suffix(json), n>> \in vnets IN
       \/ ~busy /\ zones' = zones \ {Suffix(json)} /\ UNCHANGED err
       \/ (busy \/ PveErrors) /\ err' = TRUE /\ UNCHANGED zones
    /\ pc' = "d_zone_rec" /\ cur' = [item |-> Absent, status |-> "deleted"]
    /\ UNCHANGED <<run, todo, worker, vm, vnets, bridges, fileVars>>

RecordZoneDeleted ==
    /\ pc = "d_zone_rec"
    /\ StateZone(cur.status)
    /\ Enter("d_apply", {})
    /\ UNCHANGED <<pveVars, json, env>>

(* Mutant of ApplyDeletion: the deletion is configured and never applied.  *)
DeletionUnapplied ==
    /\ pc = "d_apply"
    /\ Goto("d_done")
    /\ UNCHANGED <<pveVars, fileVars>>

(* sdn_apply || warn                                                       *)
ApplyDeletion ==
    /\ pc = "d_apply"
    /\ \/ bridges' = vnets /\ UNCHANGED err
       \/ PveErrors /\ err' = TRUE /\ UNCHANGED bridges
    /\ pc' = "d_done"
    /\ UNCHANGED <<run, todo, cur, worker, vm, zones, vnets, fileVars>>

DestroyDone ==
    /\ pc = "d_done"
    /\ StatePhase("destroy completed")
    /\ End
    /\ UNCHANGED <<pveVars, json, env>>
-----------------------------------------------------------------------------
(* What happens to the scripts and around them.                            *)

(* Cancelled job, power switch, kill -9: the script and its workers are    *)
(* gone, what they did stays.  Between the two writes of cmd_render this   *)
(* needs TornRender.                                                       *)
Kill ==
    /\ pc # "idle"
    /\ pc = "render_env" => TornRender
    /\ End
    /\ UNCHANGED <<pveVars, fileVars>>

StateWriters == {"clone_rec", "zone_rec", "vnet_rec", "nics_rec", "start_rec",
                 "created", "trap", "d_begin", "d_vnet_rec", "d_zone_rec",
                 "d_done"}

(* The script is at a call of run-state.py that gets as far as its write.  *)
WritingState ==
    \/ pc = "init" /\ state # Torn
    \/ /\ Own # Absent
       /\ \/ pc \in StateWriters
          \/ pc = "d_verify" /\ \E h \in Targets : Mismatched(h)
          \/ pc = "d_flush" /\ todo # {}

(* write_text truncates the file before it writes it.                      *)
KillInWrite ==
    /\ TornWrite
    /\ \/ pc = "render" /\ json' = Torn /\ UNCHANGED <<env, state>>
       \/ TornRender /\ pc = "render_env" /\ env' = Torn /\ UNCHANGED <<json, state>>
       \/ WritingState /\ state' = Torn /\ UNCHANGED <<json, env>>
    /\ End
    /\ UNCHANGED pveVars

(* actions/checkout removes untracked and ignored files before a job.      *)
Checkout ==
    /\ pc = "idle"
    /\ json' = Absent /\ env' = Absent /\ state' = Absent
    /\ UNCHANGED <<pveVars, scriptVars>>

(* Another user of the Proxmox host takes a free VMID, or leaves it.       *)
ForeignAppears(v) ==
    /\ vm[v] = Absent
    /\ vm' = [vm EXCEPT ![v] = Foreign]
    /\ UNCHANGED <<zones, vnets, bridges, fileVars, scriptVars>>

ForeignLeaves(v) ==
    /\ vm[v] = Foreign
    /\ vm' = [vm EXCEPT ![v] = Absent]
    /\ UNCHANGED <<zones, vnets, bridges, fileVars, scriptVars>>
-----------------------------------------------------------------------------
CreateStep ==
    \/ RenderJson \/ RenderEnv \/ InitState
    \/ \E h \in Hosts : CloneVm(h) \/ AttachNics(h) \/ StartVm(h)
    \/ \E n \in Nets : CreateVnet(n)
    \/ RecordCloned \/ CreateZone \/ RecordZone \/ RecordVnet \/ ApplySdn
    \/ WaitVnets \/ RecordConfigured \/ RecordStarted \/ CreateDone
    \/ CreateFails \/ RenderEnvFails \/ CreateTrap

WorkerStep(h) == StartWorker(h) \/ WorkerCheck(h) \/ WorkerStop(h) \/ WorkerRemove(h)

DestroyStep ==
    \/ DestroyBegin \/ CheckEnv \/ VerifyTargets
    \/ \E h \in AllHosts : WorkerStep(h) \/ FlushStatus(h)
    \/ JoinWorkers \/ FlushDone
    \/ \E n \in Nets : DeleteVnet(n)
    \/ RecordVnetDeleted \/ DeleteZone \/ RecordZoneDeleted \/ ApplyDeletion
    \/ DestroyDone

Environment ==
    \/ \E r \in Runs : StartCreate(r) \/ StartDestroy(r)
    \/ Kill \/ KillInWrite \/ Checkout
    \/ \E v \in ForeignVmids : ForeignAppears(v) \/ ForeignLeaves(v)

Next == CreateStep \/ DestroyStep \/ Environment

Spec == Init /\ [][Next]_vars

(* A started script keeps being scheduled: every wait in it has a deadline *)
(* or waits for a command that returns.  Nothing obliges the operator, the *)
(* other users of the host or a failure to act.                            *)
FairSpec == Spec /\ WF_vars(CreateStep) /\ WF_vars(DestroyStep)
-----------------------------------------------------------------------------
(* Properties *)

PveOK ==
    /\ vm \in [Vmids -> VMs \cup {Foreign, Absent}]
    /\ zones \subseteq Suffixes
    /\ vnets \subseteq Suffixes \X Nets
    /\ bridges \subseteq Suffixes \X Nets

FilesOK ==
    /\ json \in Runs \cup {Absent, Torn}
    /\ env \in Runs \cup {Absent, Torn}
    /\ state \in Document \cup {Absent, Torn}

ScriptOK ==
    /\ pc \in CreatePcs \cup DestroyPcs \cup {"idle"}
    /\ IF pc = "idle" THEN run = Absent ELSE run \in Runs
    /\ todo \subseteq AllHosts \cup Nets
    /\ cur \in [item : AllHosts \cup Nets \cup {Absent}, status : VmStatus \cup SdnStatus]
    /\ worker \in [AllHosts -> WorkerPcs]
    /\ err \in BOOLEAN

(* Proxmox, the files and the running script keep to the values the        *)
(* scripts give them.                                                      *)
TypeOK == PveOK /\ FilesOK /\ ScriptOK

(* What the running script is about to record is of the kind its place in  *)
(* the script says.                                                        *)
MarkOK ==
    /\ pc \in {"clone_rec", "nics_rec", "start_rec"} =>
          cur.item \in Hosts /\ cur.status \in VmStatus
    /\ pc \in {"vnet_rec", "d_vnet_rec"} => cur.item \in Nets /\ cur.status \in SdnStatus
    /\ pc \in {"zone_rec", "d_zone_rec"} => cur.status \in SdnStatus

(* Workers run only while their parent starts or joins them; past its name *)
(* check a worker holds a VM of its own name; the parent joins all it has  *)
(* started, so it flushes finished workers' statuses only.                 *)
WorkersOK ==
    /\ pc # "d_work" => \A h \in AllHosts : worker[h] \notin {"check", "stop", "remove"}
    /\ \A h \in AllHosts : worker[h] \in {"stop", "remove"} =>
          vm[VmidOf(TargetRun, h)] \in Named(TargetRun, h)
    /\ pc = "d_work" => \A h \in Targets \ todo : worker[h] # "none"
    /\ pc = "d_flush" => \A h \in todo : h \in Targets /\ worker[h] \in Reports

AfterClone == {"zone", "zone_rec", "vnet", "vnet_rec", "apply", "wait", "nics",
               "nics_rec", "start", "start_rec", "created"}

(* The clone loop leaves VMs of the run's own names behind it, and nothing *)
(* takes them away from create.                                            *)
ClonedOK ==
    /\ pc \in {"clone", "clone_rec"} =>
          \A h \in Hosts \ todo : vm[VmidOf(run, h)] \in Named(run, h)
    /\ pc = "clone_rec" => vm[VmidOf(run, cur.item)] \in Named(run, cur.item)
    /\ pc \in AfterClone => \A h \in Hosts : vm[VmidOf(run, h)] \in Named(run, h)

(* At every step the script owns what it is about to touch.                *)
OwnershipInvariant == TypeOK /\ MarkOK /\ WorkersOK /\ ClonedOK

(* topology.json and topology.env are about one run except between their   *)
(* two writes, so that destroy's check of the one vouches for the other.   *)
FilesAgree ==
    /\ pc # "render_env" /\ json \in Runs => env = json
    /\ pc = "render_env" => json = run
    /\ pc \in DestroyPcs \ {"d_begin", "d_env"} /\ json \in Runs => json = run

(* A VM of one run is stopped, removed or reconfigured only while a script *)
(* started for that very run is running, although VMIDs of different runs  *)
(* overlap and scripts act on what earlier, interrupted scripts left.      *)
VmIsolation ==
    [][\A v \in Vmids : vm[v] \in VMs /\ vm'[v] # vm[v] => vm[v].run = run]_vars

(* No script, whatever file an interrupted predecessor left torn, touches  *)
(* a VM that no script created.                                            *)
ForeignUntouched ==
    [][\A v \in Vmids : vm[v] = Foreign /\ vm'[v] # Foreign => UNCHANGED scriptVars]_vars

(* Runs whose ids agree modulo SuffixRange share their SDN names.  Still   *)
(* no VNet is deleted under a configured VM of another run: such runs also *)
(* share their VMIDs, and both scripts look at the VMs before the SDN.     *)
VnetIsolation ==
    [][\A v \in Vmids : vm[v] \in VMs /\ vm[v].nics =>
         \A n \in Nets :
            LET vnet == <<Suffix(vm[v].run), n>> IN
            vnet \in vnets \ vnets' => vm[v].run = run]_vars

(* run-state.json says "created" only of a run whose VMs all exist under   *)
(* their names, have their NICs, run, and (qinq) have their VNet bridges,  *)
(* after any history of failed, killed and repeated scripts.               *)
CreatedMeansReady ==
    state \notin {Absent, Torn} /\ state.phase = "created" =>
       /\ \A h \in Hosts : LET v == VmidOf(state.run, h) IN
             /\ vm[v] \in Named(state.run, h)
             /\ vm[v].nics /\ vm[v].on
             /\ state.vms[h] \in {"started", "running"}
       /\ Qinq => SdnUp(state.run)

(* Whatever an interrupted script left, create fails only when one of its  *)
(* own commands fails or someone else holds one of its VMIDs: it can       *)
(* always be run again.                                                    *)
CreateRerunnable ==
    [][pc # "trap" /\ pc' = "trap" =>
         err' \/ \E h \in Hosts : vm[VmidOf(run, h)] \notin Named(run, h) \cup {Absent}]_vars

(* When destroy reaches its end and no command of it reported an error,    *)
(* none of its targets exists and, if topology.env gave the mode and       *)
(* topology.json the names, neither does any SDN object of the run,        *)
(* configured or applied.  (Without topology.env the deletion of the SDN   *)
(* may be skipped, and destroy says "completed" all the same.)             *)
DestroyLeavesNothing ==
    pc = "d_done" /\ ~err =>
       /\ \A h \in Targets : vm[VmidOf(run, h)] \notin Named(run, h)
       /\ Qinq /\ env = run /\ json = run =>
             /\ Suffix(run) \notin zones
             /\ \A n \in Nets : <<Suffix(run), n>> \notin vnets \cup bridges

(* When destroy reaches its end, every status its concurrent workers wrote *)
(* has arrived in the run's document.                                      *)
DestroyReportComplete ==
    (pc = "d_done" /\ state \notin {Absent, Torn}) =>
       (state.run = run =>
          \A h \in Targets : /\ state.vms[h] = worker[h]
                             /\ worker[h] \in {"missing", "destroyed"})

(* A run-state document is changed only by scripts of the run it is about; *)
(* only create's init may replace it with the document of another run.     *)
RunStateOfOneRun ==
    [][{state, state'} \cap {Absent, Torn} = {} /\ state' # state =>
         /\ state'.run = run
         /\ state.run = run \/ pc = "init"]_vars

(* The scripts keep the promise of Ownership: no history of overlapping    *)
(* VMIDs, reused clones and interrupted scripts makes one of them take a   *)
(* VMID that is not free or give back one that is not its run's.           *)
Holder == [v \in Vmids |-> IF vm[v] \in VMs THEN vm[v].run ELSE vm[v]]

Promise == INSTANCE Ownership WITH
    Free <- Absent, Other <- Foreign, Nobody <- Absent, owner <- Holder, actor <- run

ImplementsOwnership == Promise!Spec

(* Every started script ends: no worker slot, flush loop or wait is stuck. *)
ScriptsEnd == (pc # "idle") ~> (pc = "idle")
=============================================================================
