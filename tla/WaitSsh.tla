------------------------------- MODULE WaitSsh -------------------------------
(***************************************************************************)
(* How the management addresses of a run's VMs get into topology.json, the *)
(* run-state document and the Ansible inventory: pve-wait-ssh.sh asks all  *)
(* VMs in parallel, pve-generate-inventory.sh writes what it found, a      *)
(* repeated create carries addresses over, and pve-run-scenario.sh tests   *)
(* the VMs that have them.  Scripts run one at a time, for any run, and may*)
(* be killed between any two of their effects.                             *)
(*                                                                         *)
(* topology.json and topology.env are one file here (Lifecycle's FilesAgree*)
(* is about the two), files are written whole, and of create only what it  *)
(* does to addresses is left: rendering and run-state.py init.             *)
(***************************************************************************)
EXTENDS FiniteSets

CONSTANTS
    Runs, Hosts,
    Pool,   \* <<run, host>> -> the addresses DHCP ever gives that VM
    None

VMs       == Runs \X Hosts
Addresses == UNION {Pool[v] : v \in VMs}

(* What topology.json and the inventory, and the run-state document hold.  *)
AddressOf == [Hosts -> Addresses \cup {None}]
Statuses  == {"declared", "ssh-ready"}
Phases    == {"initialized", "rendered", "wait_started", "wait_completed", "wait_failed",
              "inventory_started", "inventory_completed",
              "scenario_started", "scenario_completed", "scenario_failed"}
Listings  == [run : Runs, ip : AddressOf]
Documents == [run : Runs, phase : Phases, status : [Hosts -> Statuses], ip : AddressOf]

(* The pools may overlap: an address that a file still names may be handed *)
(* to another VM, and every VM accepts the same SSH key.                   *)
ASSUME LeasesAssumption ==
    /\ Runs # {} /\ Hosts # {}
    /\ None \notin Addresses \cup Runs \cup Listings \cup Documents

VARIABLES
    lease,      \* the address every VM answers at, None while it does not
    json,       \* topology.json: run and management addresses, or None
    state,      \* run-state.json: run, phase, status and address of the VMs
    inventory,  \* inventory.generated.ini: the addresses and whose they are
    run,        \* the RUN_ID of the running script, None if it has none
    pc,         \* where the running script is
    todo,       \* the hosts its recording loop has left
    worker,     \* wait_for_host: where the worker of every host is
    found,      \* the address it works on and then leaves in its .ip file
    met         \* history: the address that answered SSH in this wait

files  == <<json, state, inventory>>
locals == <<run, todo, worker, found, met>>
vars   == <<lease, files, pc, locals>>

NoAddress == [h \in Hosts |-> None]
NoWorker  == [h \in Hosts |-> "none"]
Waiting   == {"known", "agent", "ssh"}

Init ==
    /\ lease = [v \in VMs |-> None]
    /\ json = None /\ state = None /\ inventory = None
    /\ run = None /\ pc = "idle" /\ todo = {}
    /\ worker = NoWorker /\ found = NoAddress /\ met = NoAddress

(* The script is over; the trap removed its temporary files.               *)
End ==
    /\ run' = None /\ pc' = "idle" /\ todo' = {}
    /\ worker' = NoWorker /\ found' = NoAddress /\ met' = NoAddress

Goto(p) == pc' = p /\ UNCHANGED locals

Answers(a) == a # None /\ \E v \in VMs : lease[v] = a
-----------------------------------------------------------------------------
(* run-state.py, as far as addresses go                                    *)

Document(status) ==
    [run |-> json.run, phase |-> "initialized",
     status |-> [h \in Hosts |-> status], ip |-> json.ip]

(* Without a RUN_ID any run's document will do.                            *)
Named(r) == run \in {r, None}

(* ensure_state; None when it dies.                                        *)
Own == CASE state # None                -> IF Named(state.run) THEN state ELSE None
         [] state = None /\ json = None -> None
         [] OTHER                       -> IF Named(json.run) THEN Document("declared") ELSE None

(* A run-state.py command; under set -e its script goes where Dies says.   *)
Record(doc, next, Dies) ==
    \/ Own # None /\ state' = doc /\ next
    \/ Own = None /\ UNCHANGED state /\ Dies

SetPhase(p) == [Own EXCEPT !.phase = p]
-----------------------------------------------------------------------------
(* pve-create-run.sh, for its addresses                                    *)

(* Mutant of CarriedOver: the addresses of whatever was rendered last.     *)
CarriedOverFromAnyRun(r) == IF json # None THEN json.ip ELSE NoAddress

(* render keeps the addresses a topology.json of the same run has.         *)
CarriedOver(r) == IF json # None /\ json.run = r THEN json.ip ELSE NoAddress

Render(r) ==
    /\ pc = "idle"
    /\ json' = [run |-> r, ip |-> CarriedOver(r)]
    /\ pc' = "init" /\ run' = r
    /\ UNCHANGED <<lease, state, inventory, todo, worker, found, met>>

(* cmd_init keeps status and address of the VMs of a document of this run. *)
InitState ==
    /\ pc = "init"
    /\ LET fresh == [Document("declared") EXCEPT !.phase = "rendered"] IN
       state' = IF state # None /\ state.run = json.run
                THEN [fresh EXCEPT !.status = state.status, !.ip = state.ip]
                ELSE fresh
    /\ End
    /\ UNCHANGED <<lease, json, inventory>>
-----------------------------------------------------------------------------
(* pve-wait-ssh.sh: the workers                                            *)

Turn(h, at, next, address) ==
    /\ pc = "wait" /\ worker[h] = at
    /\ worker' = [worker EXCEPT ![h] = next]
    /\ found' = [found EXCEPT ![h] = address]

(* An address that topology.json already has is good if SSH answers there, *)
(* whichever VM that is by now.                                            *)
TryKnown(h) ==
    /\ pc = "wait"
    /\ \/ /\ Answers(json.ip[h])
          /\ Turn(h, "known", "done", json.ip[h])
          /\ met' = [met EXCEPT ![h] = json.ip[h]]
       \/ Turn(h, "known", "agent", None) /\ UNCHANGED met
    /\ UNCHANGED <<lease, files, pc, run, todo>>

(* Mutant of AskAgent: the worker is content with the guest agent's word.  *)
AskAgentOnly(h) ==
    /\ pc = "wait" /\ lease[<<run, h>>] # None
    /\ Turn(h, "agent", "done", lease[<<run, h>>])
    /\ UNCHANGED <<lease, files, pc, run, todo, met>>

(* wait_for_ip: the guest agent tells the address of the VMID's VM.        *)
AskAgent(h) ==
    /\ pc = "wait" /\ lease[<<run, h>>] # None
    /\ Turn(h, "agent", "ssh", lease[<<run, h>>])
    /\ UNCHANGED <<lease, files, pc, run, todo, met>>

(* wait_for_ssh: the address was read before, and may be gone by now.      *)
ReachSsh(h) ==
    /\ Answers(found[h])
    /\ Turn(h, "ssh", "done", found[h])
    /\ met' = [met EXCEPT ![h] = found[h]]
    /\ UNCHANGED <<lease, files, pc, run, todo>>

(* Mutant of TimeOut: the SSH loop has no deadline.                        *)
TimeOutForAgent(h) ==
    /\ Turn(h, "agent", "failed", None)
    /\ UNCHANGED <<lease, files, pc, run, todo, met>>

(* Both loops give up at their deadline, and die in the worker.            *)
TimeOut(h) ==
    /\ \E at \in {"agent", "ssh"} : Turn(h, at, "failed", None)
    /\ UNCHANGED <<lease, files, pc, run, todo, met>>

WorkerStep(h) == TryKnown(h) \/ AskAgent(h) \/ ReachSsh(h) \/ TimeOut(h)
-----------------------------------------------------------------------------
(* pve-wait-ssh.sh: the script                                             *)

(* The trap is not set yet when the first record fails.                    *)
StartWait(r) ==
    /\ pc = "idle"
    /\ json # None /\ json.run = r
    /\ pc' = "started" /\ run' = r
    /\ UNCHANGED <<lease, files, todo, worker, found, met>>

RecordStarted ==
    /\ pc = "started"
    /\ Record(SetPhase("wait_started"),
              /\ pc' = "wait" /\ worker' = [h \in Hosts |-> "known"]
              /\ UNCHANGED <<run, todo, found, met>>,
              End)
    /\ UNCHANGED <<lease, json, inventory>>

(* Every worker is waited for, also after one has failed.                  *)
JoinWorkers ==
    /\ pc = "wait" /\ \A h \in Hosts : worker[h] \notin Waiting
    /\ IF \E h \in Hosts : worker[h] = "failed" THEN Goto("trap") ELSE Goto("update")
    /\ UNCHANGED <<lease, files>>

(* update-ips with the contents of the .ip files                           *)
UpdateIps ==
    /\ pc = "update"
    /\ json' = [json EXCEPT !.ip = found]
    /\ Goto("sync")
    /\ UNCHANGED <<lease, state, inventory>>

(* Mutant of SyncTopology: completion is recorded before the VMs are.      *)
SyncAndComplete ==
    /\ pc = "sync"
    /\ Record([Own EXCEPT !.ip = json.ip], Goto("complete"), Goto("trap"))
    /\ UNCHANGED <<lease, json, inventory>>

SyncTopology ==
    /\ pc = "sync"
    /\ Record([Own EXCEPT !.ip = json.ip],
              pc' = "vms" /\ todo' = Hosts /\ UNCHANGED <<run, worker, found, met>>,
              Goto("trap"))
    /\ UNCHANGED <<lease, json, inventory>>

(* Mutant of RecordVm: status and address in the wrong places.             *)
RecordVmSwapped(h) ==
    /\ pc = "vms" /\ h \in todo
    /\ Record([Own EXCEPT !.status[h] = found[h], !.ip[h] = "ssh-ready"],
              /\ todo' = todo \ {h}
              /\ pc' = IF todo' = {} THEN "complete" ELSE "vms"
              /\ UNCHANGED <<run, worker, found, met>>,
              Goto("trap"))
    /\ UNCHANGED <<lease, json, inventory>>

(* The loop over what was found; the order of the hosts does not matter.   *)
RecordVm(h) ==
    /\ pc = "vms" /\ h \in todo
    /\ Record([Own EXCEPT !.status[h] = "ssh-ready", !.ip[h] = found[h]],
              /\ todo' = todo \ {h}
              /\ pc' = IF todo' = {} THEN "complete" ELSE "vms"
              /\ UNCHANGED <<run, worker, found, met>>,
              Goto("trap"))
    /\ UNCHANGED <<lease, json, inventory>>

RecordCompleted ==
    /\ pc = "complete"
    /\ Record(SetPhase("wait_completed"), End, Goto("trap"))
    /\ UNCHANGED <<lease, json, inventory>>

(* finish_wait_state; its record may fail as well.                         *)
WaitTrap ==
    /\ pc = "trap"
    /\ Record(SetPhase("wait_failed"), End, End)
    /\ UNCHANGED <<lease, json, inventory>>

ScriptStep ==
    \/ RecordStarted \/ JoinWorkers \/ UpdateIps \/ SyncTopology
    \/ \E h \in Hosts : RecordVm(h)
    \/ RecordCompleted \/ WaitTrap
-----------------------------------------------------------------------------
(* pve-generate-inventory.sh; it has no trap.                              *)

StartInventory(r) ==
    /\ pc = "idle"
    /\ json # None /\ json.run = r
    /\ pc' = "inventory" /\ run' = r
    /\ UNCHANGED <<lease, files, todo, worker, found, met>>

InventoryStarted ==
    /\ pc = "inventory"
    /\ Record(SetPhase("inventory_started"), Goto("write"), End)
    /\ UNCHANGED <<lease, json, inventory>>

(* cmd_ansible: a missing address is fatal.                                *)
WriteInventory ==
    /\ pc = "write"
    /\ \/ /\ \A h \in Hosts : json.ip[h] # None
          /\ inventory' = json /\ Goto("written")
       \/ /\ \E h \in Hosts : json.ip[h] = None
          /\ UNCHANGED inventory /\ End
    /\ UNCHANGED <<lease, json, state>>

InventoryCompleted ==
    /\ pc = "written"
    /\ Record(SetPhase("inventory_completed"), End, End)
    /\ UNCHANGED <<lease, json, inventory>>

InventoryStep == InventoryStarted \/ WriteInventory \/ InventoryCompleted
-----------------------------------------------------------------------------
(* pve-run-scenario.sh: its RUN_ID is the environment's, if that has one,  *)
(* and records that fail are ignored.                                      *)

StartScenario(r) ==
    /\ pc = "idle"
    /\ pc' = "scenario" /\ run' = r
    /\ UNCHANGED <<lease, files, todo, worker, found, met>>

ScenarioStarted ==
    /\ pc = "scenario"
    /\ Record(SetPhase("scenario_started"), Goto("tests"), Goto("tests"))
    /\ UNCHANGED <<lease, json, inventory>>

(* Mutant of RunTests: tests that find no addresses are skipped.           *)
RunTestsOrSkip ==
    /\ pc = "tests"
    /\ Goto("passed") \/ Goto("failed")
    /\ UNCHANGED <<lease, files>>

(* pytest, on the VMs of topology.json, whose addresses conftest.py        *)
(* requires; the tests may fail for any other reason.                      *)
RunTests ==
    /\ pc = "tests"
    /\ \/ json # None /\ (\A h \in Hosts : json.ip[h] # None) /\ Goto("passed")
       \/ Goto("failed")
    /\ UNCHANGED <<lease, files>>

(* finish_state *)
ScenarioTrap ==
    /\ pc \in {"passed", "failed"}
    /\ Record(SetPhase(IF pc = "passed" THEN "scenario_completed" ELSE "scenario_failed"),
              End, End)
    /\ UNCHANGED <<lease, json, inventory>>

ScenarioStep == ScenarioStarted \/ RunTests \/ ScenarioTrap
-----------------------------------------------------------------------------
(* Around the scripts                                                      *)

Kill == pc # "idle" /\ End /\ UNCHANGED <<lease, files>>

(* actions/checkout before a job                                           *)
Checkout ==
    /\ pc = "idle"
    /\ json' = None /\ state' = None /\ inventory' = None
    /\ UNCHANGED <<lease, pc, locals>>

(* A VM boots or gets a new lease, of an address no VM has at the moment;  *)
(* it shuts down or is removed.                                            *)
Lease(v) ==
    /\ \E a \in Pool[v] \ {lease[w] : w \in VMs} : lease' = [lease EXCEPT ![v] = a]
    /\ UNCHANGED <<files, pc, locals>>

Vanish(v) ==
    /\ lease[v] # None
    /\ lease' = [lease EXCEPT ![v] = None]
    /\ UNCHANGED <<files, pc, locals>>

Next ==
    \/ \E r \in Runs : Render(r) \/ StartWait(r) \/ StartInventory(r)
    \/ \E r \in Runs \cup {None} : StartScenario(r)
    \/ InitState \/ ScriptStep \/ InventoryStep \/ ScenarioStep
    \/ \E h \in Hosts : WorkerStep(h)
    \/ \E v \in VMs : Lease(v) \/ Vanish(v)
    \/ Kill \/ Checkout

Spec == Init /\ [][Next]_vars

(* Commands return, ssh because of ConnectTimeout and the guest agent by   *)
(* its own time-out, and time passes: a loop reaches its deadline.         *)
FairSpec ==
    /\ Spec /\ WF_vars(ScriptStep)
    /\ \A h \in Hosts : WF_vars(WorkerStep(h))
-----------------------------------------------------------------------------
(* Properties *)

(* Files and variables keep to the values the scripts give them.           *)
TypeOK ==
    /\ lease \in [VMs -> Addresses \cup {None}]
    /\ json \in Listings \cup {None} /\ inventory \in Listings \cup {None}
    /\ state \in Documents \cup {None}
    /\ run \in Runs \cup {None} /\ todo \subseteq Hosts
    /\ pc \in {"idle", "init", "started", "wait", "update", "sync", "vms", "complete",
               "trap", "inventory", "write", "written",
               "scenario", "tests", "passed", "failed"}
    /\ worker \in [Hosts -> {"none", "known", "agent", "ssh", "done", "failed"}]
    /\ found \in AddressOf /\ met \in AddressOf

OfRun(r, ip) == \A h \in Hosts : ip[h] \in Pool[<<r, h>>] \cup {None}

(* Every address a file names for a host is one that this run's VM of that *)
(* host has had at some time, although addresses are carried over between  *)
(* renderings and documents, runs alternate, and whatever answers at a     *)
(* known address is believed.  (It may be another VM's by now.)            *)
AddressesOfRun ==
    \A file \in {json, state, inventory} : file # None => OfRun(file.run, file.ip)

(* A wait recorded as completed has all VMs of the run ready at an address,*)
(* and no other address is in topology.json for Ansible and the tests; a   *)
(* rendering for another run in between may only have lost it.             *)
CompletedAgrees ==
    state # None =>
       (state.phase = "wait_completed" =>
          \A h \in Hosts :
             /\ state.status[h] = "ssh-ready" /\ state.ip[h] # None
             /\ json # None /\ json.run = state.run => json.ip[h] \in {state.ip[h], None})

(* A wait replaces addresses only if every host has answered: one silent   *)
(* host leaves the whole of topology.json as it was.                       *)
AllOrNothing ==
    [][pc = "update" /\ json' # json => json'.ip = met /\ \A h \in Hosts : met[h] # None]_vars

(* A scenario is recorded as completed in the document of the run whose VMs*)
(* it tested, with or without a RUN_ID: topology.json has addresses only   *)
(* when it is of the same run as the document that is there.               *)
CompletedByTestedRun ==
    [][state' # state /\ state' # None =>
          (state'.phase = "scenario_completed" => json # None /\ json.run = state'.run)]_vars

(* Every wait ends, whatever the VMs do: no worker keeps the join waiting. *)
WaitEnds == (pc = "started") ~> (pc = "idle")
=============================================================================
