------------------------------ MODULE RunState ------------------------------
(***************************************************************************)
(* The run-state document (artifacts/run-state.json) and the operations    *)
(* scripts/run-state.py performs on it.  Every command of run-state.py is  *)
(* one process that reads the document, changes it and writes it back;     *)
(* the operators below are those changes, without the file.                *)
(*                                                                         *)
(* The list "phases" is abstracted to its last entry, which "phase" names: *)
(* nothing reads the list back.  Time stamps, messages, VMIDs and names    *)
(* that the document copies from the topology are left out; management     *)
(* addresses belong to the wait-ssh module.                                *)
(***************************************************************************)
CONSTANTS
    Runs,          \* the RUN_IDs scripts are called with
    Hosts,         \* hosts of the topology file in use
    DefaultHosts,  \* hosts pve-destroy-run.sh assumes when no topology is left
    Nets,          \* networks of the topology
    Qinq,          \* NETWORK_MODE is qinq (otherwise bridge)
    Absent,        \* a file, a VM or a value that is not there
    Torn           \* a file whose writer was killed inside write_text

AllHosts == Hosts \cup DefaultHosts

VmStatus == {"unlisted", "declared", "cloned", "reused", "configured",
             "started", "running", "missing", "destroyed"}

SdnStatus == {"unlisted", "declared", "created", "reused", "deleted"}

Phase == {"initialized", "rendered", "created", "create failed",
          "destroy started", "destroy unsafe", "destroy completed"}

Document == [run   : Runs,
             phase : Phase,
             vms   : [AllHosts -> VmStatus],
             zone  : SdnStatus,
             nets  : [Nets -> SdnStatus]]

(* topology_resources: what a freshly rendered topology declares.  A host  *)
(* or VNet the document has no entry for is "unlisted".                    *)
TopologyDocument(r, phase) ==
    LET sdn == IF Qinq THEN "declared" ELSE "unlisted" IN
    [run   |-> r,
     phase |-> phase,
     vms   |-> [h \in AllHosts |-> IF h \in Hosts THEN "declared" ELSE "unlisted"],
     zone  |-> sdn,
     nets  |-> [n \in Nets |-> sdn]]

(* cmd_init: a document of the same run keeps its VM statuses, the SDN     *)
(* statuses start again, and a document of another run is dropped.         *)
InitDocument(r, previous) ==
    LET fresh == TopologyDocument(r, "rendered") IN
    IF previous # Absent /\ previous.run = r
    THEN [fresh EXCEPT !.vms = [h \in AllHosts |->
             IF h \in Hosts /\ previous.vms[h] # "unlisted"
             THEN previous.vms[h] ELSE fresh.vms[h]]]
    ELSE fresh

(* Mutant of EnsureState: a run-state.json of any run is good enough.      *)
EnsureStateOfAnyRun(file, topology, r) ==
    IF file \notin {Absent, Torn} THEN file
    ELSE IF file = Absent /\ topology = r
         THEN TopologyDocument(r, "initialized")
         ELSE Absent

(* ensure_state: the document the commands phase, vm and sdn start from,   *)
(* given the run-state file, the run id of the topology file (or Absent,   *)
(* or Torn) and the requested run.  Absent stands for every way to die:    *)
(* another run's document or topology, no topology, unreadable JSON.       *)
EnsureState(file, topology, r) ==
    IF file \notin {Absent, Torn}
    THEN IF file.run = r THEN file ELSE Absent
    ELSE IF file = Absent /\ topology = r
         THEN TopologyDocument(r, "initialized")
         ELSE Absent

(* cmd_phase, cmd_vm and cmd_sdn.  cmd_vm and cmd_sdn add a missing entry  *)
(* (setdefault), which is the same assignment here.                        *)
SetPhase(doc, phase)   == [doc EXCEPT !.phase = phase]
SetVm(doc, h, status)  == [doc EXCEPT !.vms[h] = status]
SetZone(doc, status)   == [doc EXCEPT !.zone = status]
SetVnet(doc, n, status) == [doc EXCEPT !.nets[n] = status]
=============================================================================
