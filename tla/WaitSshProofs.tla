--------------------------- MODULE WaitSshProofs ----------------------------
(***************************************************************************)
(* Addresses stay with their run, for every set of runs, hosts and pools   *)
(* of addresses.  The inductive invariant adds to the properties that a    *)
(* running script works on the topology.json of its own run, that a lease  *)
(* comes from the pool of its VM, and that what a worker holds on to comes *)
(* from one of the two.  Scenarios are different: they run with any RUN_ID *)
(* or none, and Matched says why they still test the run of the document.  *)
(***************************************************************************)
EXTENDS WaitSsh, TLAPS

FileOK(file) == file # None => file \in Listings /\ OfRun(file.run, file.ip)

StateOK == state # None => state \in Documents /\ OfRun(state.run, state.ip)

LeasesOK == lease \in [VMs -> Addresses \cup {None}]
            /\ \A v \in VMs : lease[v] \in Pool[v] \cup {None}

(* The places of scripts that work on a topology.json of their RUN_ID.     *)
Bound    == {"init", "started", "wait", "update", "sync", "vms", "complete", "trap",
             "inventory", "write", "written"}
Scenario == {"scenario", "tests", "passed", "failed"}

BoundOK == /\ pc \notin Bound => found = NoAddress
           /\ pc \in Bound => json # None /\ json.run = run /\ OfRun(run, found)

Pcs     == {"idle"} \cup Bound \cup Scenario
Workers == {"none", "known", "agent", "ssh", "done", "failed"}

LocalsOK ==
    /\ pc \in Pcs /\ run \in Runs \cup {None} /\ todo \subseteq Hosts
    /\ worker \in [Hosts -> Workers] /\ found \in AddressOf /\ met \in AddressOf

WorkersOK ==
    /\ \A h \in Hosts : worker[h] = "done" => found[h] = met[h] /\ found[h] # None
    /\ pc = "wait" => \A h \in Hosts : worker[h] # "none"
    /\ pc = "update" => \A h \in Hosts : worker[h] = "done"

Inv == /\ FileOK(json) /\ FileOK(inventory) /\ StateOK
       /\ LeasesOK /\ BoundOK /\ LocalsOK /\ WorkersOK

USE DEF Pcs, Bound, Scenario, Workers
-----------------------------------------------------------------------------
(* What a script that is over leaves behind.                               *)
LEMMA EndOK ==
    ASSUME End PROVE BoundOK' /\ LocalsOK' /\ WorkersOK'
BY DEF End, BoundOK, LocalsOK, WorkersOK, NoWorker, NoAddress, AddressOf

(* A step of the script that leaves workers, files and leases alone.       *)
LEMMA GotoOK ==
    ASSUME Inv, NEW p \in Bound \ {"wait", "update"}, Goto(p), UNCHANGED json,
           pc \in Bound
    PROVE  BoundOK' /\ LocalsOK' /\ WorkersOK'
BY DEF Inv, Goto, locals, BoundOK, LocalsOK, WorkersOK, OfRun

(* The document a run-state.py command works on is one of the running      *)
(* script's RUN_ID, if it has one.                                         *)
LEMMA OwnOK ==
    ASSUME Inv, Own # None
    PROVE  /\ Own \in Documents /\ OfRun(Own.run, Own.ip)
           /\ pc \in Bound => Own.run = run
<1>1. pc \in Bound => run # None
  BY LeasesAssumption DEF Inv, BoundOK, FileOK, Listings
<1>2. CASE state # None
  BY <1>1, <1>2 DEF Own, Named, Inv, StateOK
<1>3. CASE state = None
  <2>1. json \in Listings /\ OfRun(json.run, json.ip)
    BY <1>3 DEF Own, Inv, FileOK
  <2>2. Own = Document("declared") /\ Named(json.run)
    BY <1>3 DEF Own
  <2>3. QED
    BY <1>1, <2>1, <2>2 DEF Named, Document, Documents, Listings, Statuses, Phases, OfRun
<1>4. QED BY <1>2, <1>3

(* A record of a new phase keeps the document in order.                    *)
LEMMA PhaseRecorded ==
    ASSUME Inv, NEW p \in Phases,
           (Own # None /\ state' = SetPhase(p)) \/ (Own = None /\ UNCHANGED state)
    PROVE  StateOK'
<1>1. CASE Own = None
  BY <1>1 DEF Inv, StateOK, OfRun
<1>2. CASE Own # None
  <2>1. state' = SetPhase(p)
    BY <1>2
  <2>2. SetPhase(p) \in Documents /\ SetPhase(p).run = Own.run /\ SetPhase(p).ip = Own.ip
    BY <1>2, OwnOK DEF SetPhase, Documents
  <2>3. QED BY <1>2, <2>1, <2>2, OwnOK DEF StateOK, OfRun
<1>3. QED BY <1>1, <1>2

(* A worker's turn keeps the other workers' results.                       *)
LEMMA TurnOK ==
    ASSUME Inv, NEW h \in Hosts, NEW at, NEW next \in Workers \ {"none"},
           NEW address \in Pool[<<run, h>>] \cup {None}, Turn(h, at, next, address),
           next = "done" => address # None,
           IF next = "done" THEN met' = [met EXCEPT ![h] = address] ELSE UNCHANGED met,
           UNCHANGED <<files, pc, run, todo>>
    PROVE  BoundOK' /\ LocalsOK' /\ WorkersOK'
<1>1. pc = "wait" /\ pc' = "wait" /\ run' = run /\ todo' = todo
  BY DEF Turn
<1>2. run \in Runs /\ json # None /\ json.run = run /\ OfRun(run, found)
  BY <1>1 DEF Inv, BoundOK, FileOK, Listings
<1>3. found \in AddressOf /\ met \in AddressOf /\ worker \in [Hosts -> Workers]
  BY DEF Inv, LocalsOK
<1>4. address \in Addresses \cup {None}
  BY <1>2 DEF Addresses, VMs
<1>5. /\ found' = [found EXCEPT ![h] = address]
      /\ worker' = [worker EXCEPT ![h] = next]
  BY DEF Turn
<1>6. found' \in AddressOf /\ met' \in AddressOf /\ worker' \in [Hosts -> Workers]
  BY <1>3, <1>4, <1>5 DEF AddressOf
<1>7. LocalsOK'
  BY <1>1, <1>6 DEF Inv, LocalsOK
<1>8. \A g \in Hosts : found'[g] = IF g = h THEN address ELSE found[g]
  BY <1>3, <1>5 DEF AddressOf
<1>9. BoundOK'
  BY <1>1, <1>2, <1>8 DEF BoundOK, OfRun, files
<1>10. WorkersOK'
  <2>1. ASSUME NEW g \in Hosts
        PROVE  /\ worker'[g] = "done" => found'[g] = met'[g] /\ found'[g] # None
               /\ worker'[g] # "none"
    <3>1. CASE g = h
      BY <1>3, <1>5, <3>1 DEF AddressOf
    <3>2. CASE g # h
      BY <1>1, <1>3, <1>5, <3>2 DEF AddressOf, Inv, WorkersOK
    <3>3. QED BY <3>1, <3>2
  <2>2. QED BY <1>1, <2>1 DEF WorkersOK
<1>11. QED BY <1>7, <1>9, <1>10
-----------------------------------------------------------------------------
(* The steps of the scripts                                                *)

LEMMA InitOK == Init => Inv
BY DEF Init, Inv, FileOK, StateOK, LeasesOK, BoundOK, LocalsOK, WorkersOK, NoWorker,
       NoAddress, AddressOf

LEMMA RenderOK == ASSUME Inv, NEW r \in Runs, Render(r) PROVE Inv'
<1>1. CarriedOver(r) \in AddressOf /\ OfRun(r, CarriedOver(r))
  BY DEF CarriedOver, Inv, FileOK, Listings, NoAddress, AddressOf, OfRun
<1>2. json' \in Listings /\ json'.run = r /\ OfRun(r, json'.ip) /\ json' # None
  BY <1>1, LeasesAssumption DEF Render, Listings
<1>3. FileOK(json)'
  BY <1>2 DEF FileOK, OfRun
<1>4. OfRun(r, found')
  BY DEF Render, Inv, BoundOK, NoAddress, OfRun
<1>5. BoundOK'
  BY <1>2, <1>4 DEF Render, BoundOK
<1>6. LocalsOK' /\ WorkersOK'
  BY DEF Render, Inv, LocalsOK, WorkersOK
<1>7. FileOK(inventory)' /\ StateOK' /\ LeasesOK'
  BY DEF Render, Inv, FileOK, StateOK, LeasesOK, OfRun
<1>8. QED BY <1>3, <1>5, <1>6, <1>7 DEF Inv

LEMMA InitStateOK == ASSUME Inv, InitState PROVE Inv'
<1>1. json \in Listings /\ OfRun(json.run, json.ip)
  BY DEF Inv, InitState, BoundOK, FileOK
<1>2. DEFINE fresh == [Document("declared") EXCEPT !.phase = "rendered"]
<1>3. fresh \in Documents /\ fresh.run = json.run /\ fresh.ip = json.ip
  BY <1>1 DEF Document, Documents, Listings, Statuses, Phases
<1>4. ASSUME state # None /\ state.run = json.run PROVE StateOK'
  <2>1. state \in Documents /\ OfRun(json.run, state.ip)
    BY <1>4 DEF Inv, StateOK
  <2>2. state' = [fresh EXCEPT !.status = state.status, !.ip = state.ip]
    BY <1>4 DEF InitState
  <2>3. state' \in Documents /\ state'.run = json.run /\ state'.ip = state.ip
    BY <1>3, <2>1, <2>2 DEF Documents
  <2>4. QED BY <2>1, <2>3 DEF StateOK, OfRun
<1>5. ASSUME ~(state # None /\ state.run = json.run) PROVE StateOK'
  <2>1. state' = fresh
    BY <1>5 DEF InitState
  <2>2. QED BY <1>1, <1>3, <2>1 DEF StateOK, OfRun
<1>6. BoundOK' /\ LocalsOK' /\ WorkersOK'
  BY EndOK DEF InitState
<1>7. FileOK(json)' /\ FileOK(inventory)' /\ LeasesOK'
  BY DEF InitState, Inv, FileOK, LeasesOK, OfRun
<1>8. QED BY <1>4, <1>5, <1>6, <1>7 DEF Inv

LEMMA StartOK ==
    ASSUME Inv, NEW r \in Runs, StartWait(r) \/ StartInventory(r) PROVE Inv'
<1>1. /\ pc = "idle" /\ json # None /\ json.run = r /\ run' = r
      /\ pc' \in {"started", "inventory"}
      /\ UNCHANGED <<lease, json, state, inventory, todo, worker, found, met>>
  BY DEF StartWait, StartInventory, files
<1>2. BoundOK' /\ LocalsOK' /\ WorkersOK'
  BY <1>1 DEF Inv, BoundOK, LocalsOK, WorkersOK, NoAddress, OfRun
<1>3. FileOK(json)' /\ FileOK(inventory)' /\ StateOK' /\ LeasesOK'
  BY <1>1 DEF Inv, FileOK, StateOK, LeasesOK, OfRun
<1>4. QED BY <1>2, <1>3 DEF Inv

LEMMA WorkerStepOK == ASSUME Inv, NEW h \in Hosts, WorkerStep(h) PROVE Inv'
<1>1. pc = "wait" /\ json # None /\ json.run = run /\ run \in Runs
  <2>1. pc = "wait"
    BY DEF WorkerStep, TryKnown, AskAgent, ReachSsh, TimeOut, Turn
  <2>2. QED BY <2>1 DEF Inv, BoundOK, FileOK, Listings
<1>2. UNCHANGED <<lease, files, pc, run, todo>>
  BY DEF WorkerStep, TryKnown, AskAgent, ReachSsh, TimeOut
<1>3. BoundOK' /\ LocalsOK' /\ WorkersOK'
  <2>1. CASE TryKnown(h)
    <3>1. json.ip[h] \in Pool[<<run, h>>] \cup {None}
      BY <1>1 DEF Inv, FileOK, OfRun
    <3>2. CASE Turn(h, "known", "done", json.ip[h]) /\ Answers(json.ip[h])
                  /\ met' = [met EXCEPT ![h] = json.ip[h]]
      BY <1>2, <3>1, <3>2, TurnOK DEF Answers
    <3>3. CASE Turn(h, "known", "agent", None) /\ UNCHANGED met
      BY <1>2, <3>3, TurnOK
    <3>4. QED BY <2>1, <3>2, <3>3 DEF TryKnown
  <2>2. CASE AskAgent(h)
    <3>1. lease[<<run, h>>] \in Pool[<<run, h>>] \cup {None}
      BY <1>1 DEF Inv, LeasesOK, VMs
    <3>2. QED BY <1>2, <2>2, <3>1, TurnOK DEF AskAgent
  <2>3. CASE ReachSsh(h)
    <3>1. found[h] \in Pool[<<run, h>>] \cup {None} /\ found[h] # None
      BY <1>1, <2>3 DEF Inv, BoundOK, OfRun, ReachSsh, Answers
    <3>2. QED BY <1>2, <2>3, <3>1, TurnOK DEF ReachSsh
  <2>4. CASE TimeOut(h)
    BY <1>2, <2>4, TurnOK DEF TimeOut
  <2>5. QED BY <2>1, <2>2, <2>3, <2>4 DEF WorkerStep
<1>4. FileOK(json)' /\ FileOK(inventory)' /\ StateOK' /\ LeasesOK'
  BY <1>2 DEF files, Inv, FileOK, StateOK, LeasesOK, OfRun
<1>5. QED BY <1>3, <1>4 DEF Inv

(* run-state.py commands of the script, and its ends.                      *)
LEMMA RecordStepOK ==
    ASSUME Inv, \/ RecordStarted \/ RecordCompleted \/ WaitTrap
                \/ InventoryStarted \/ InventoryCompleted
    PROVE  Inv'
<1>1. pc \in Bound /\ UNCHANGED <<lease, json, inventory>>
  BY DEF RecordStarted, RecordCompleted, WaitTrap, InventoryStarted, InventoryCompleted
<1>2. /\ {"wait_started", "wait_completed", "wait_failed"} \subseteq Phases
      /\ {"inventory_started", "inventory_completed"} \subseteq Phases
  BY DEF Phases
<1>3. StateOK'
  <2>1. CASE RecordStarted
    <3>1. (Own # None /\ state' = SetPhase("wait_started")) \/ (Own = None /\ UNCHANGED state)
      BY <2>1 DEF RecordStarted, Record
    <3>2. QED BY <1>1, <1>2, <3>1, PhaseRecorded
  <2>2. CASE RecordCompleted
    <3>1. (Own # None /\ state' = SetPhase("wait_completed")) \/ (Own = None /\ UNCHANGED state)
      BY <2>2 DEF RecordCompleted, Record
    <3>2. QED BY <1>1, <1>2, <3>1, PhaseRecorded
  <2>3. CASE WaitTrap
    <3>1. (Own # None /\ state' = SetPhase("wait_failed")) \/ (Own = None /\ UNCHANGED state)
      BY <2>3 DEF WaitTrap, Record
    <3>2. QED BY <1>1, <1>2, <3>1, PhaseRecorded
  <2>4. CASE InventoryStarted
    <3>1. (Own # None /\ state' = SetPhase("inventory_started")) \/ (Own = None /\ UNCHANGED state)
      BY <2>4 DEF InventoryStarted, Record
    <3>2. QED BY <1>1, <1>2, <3>1, PhaseRecorded
  <2>5. CASE InventoryCompleted
    <3>1. (Own # None /\ state' = SetPhase("inventory_completed")) \/ (Own = None /\ UNCHANGED state)
      BY <2>5 DEF InventoryCompleted, Record
    <3>2. QED BY <1>1, <1>2, <3>1, PhaseRecorded
  <2>6. QED BY <2>1, <2>2, <2>3, <2>4, <2>5
<1>4. BoundOK' /\ LocalsOK' /\ WorkersOK'
  <2>1. CASE End
    BY <2>1, EndOK
  <2>2. CASE \E p \in {"trap", "write"} : Goto(p)
    BY <1>1, <2>2, GotoOK
  <2>3. CASE /\ pc = "started" /\ pc' = "wait" /\ worker' = [h \in Hosts |-> "known"]
             /\ UNCHANGED <<run, todo, found, met>>
    BY <1>1, <2>3 DEF Inv, BoundOK, LocalsOK, WorkersOK, OfRun
  <2>4. QED
    BY <2>1, <2>2, <2>3 DEF RecordStarted, RecordCompleted, WaitTrap, InventoryStarted,
       InventoryCompleted, Record
<1>5. FileOK(json)' /\ FileOK(inventory)' /\ LeasesOK'
  BY <1>1 DEF Inv, FileOK, LeasesOK, OfRun
<1>6. QED BY <1>3, <1>4, <1>5 DEF Inv

LEMMA JoinOK == ASSUME Inv, JoinWorkers PROVE Inv'
<1>1. pc = "wait" /\ UNCHANGED <<lease, files, locals>>
  BY DEF JoinWorkers, Goto
<1>2. pc' = "trap" \/ (pc' = "update" /\ \A h \in Hosts : worker[h] = "done")
  BY DEF JoinWorkers, Goto, Waiting, Inv, LocalsOK, WorkersOK
<1>3. BoundOK' /\ LocalsOK' /\ WorkersOK'
  BY <1>1, <1>2 DEF locals, files, Inv, BoundOK, LocalsOK, WorkersOK, OfRun
<1>4. FileOK(json)' /\ FileOK(inventory)' /\ StateOK' /\ LeasesOK'
  BY <1>1 DEF files, Inv, FileOK, StateOK, LeasesOK, OfRun
<1>5. QED BY <1>3, <1>4 DEF Inv

LEMMA UpdateOK == ASSUME Inv, UpdateIps PROVE Inv'
<1>1. json # None /\ json.run = run /\ OfRun(run, found) /\ json \in Listings
  BY DEF UpdateIps, Inv, BoundOK, FileOK
<1>2. json' \in Listings /\ json'.run = run /\ json'.ip = found /\ json' # None
  BY <1>1, LeasesAssumption DEF UpdateIps, Inv, LocalsOK, Listings
<1>3. pc' = "sync" /\ UNCHANGED <<lease, state, inventory, locals>>
  BY DEF UpdateIps, Goto
<1>4. BoundOK' /\ LocalsOK' /\ WorkersOK'
  BY <1>1, <1>2, <1>3 DEF locals, Inv, BoundOK, LocalsOK, WorkersOK, OfRun
<1>5. FileOK(json)'
  BY <1>1, <1>2 DEF FileOK, OfRun
<1>6. FileOK(inventory)' /\ StateOK' /\ LeasesOK'
  BY <1>3 DEF Inv, FileOK, StateOK, LeasesOK, OfRun
<1>7. QED BY <1>4, <1>5, <1>6 DEF Inv

LEMMA SyncOK == ASSUME Inv, SyncTopology PROVE Inv'
<1>1. pc = "sync" /\ UNCHANGED <<lease, json, inventory>>
  BY DEF SyncTopology
<1>2. json \in Listings /\ json.run = run /\ OfRun(run, json.ip)
  BY <1>1 DEF Inv, BoundOK, FileOK
<1>3. StateOK'
  <2>1. CASE Own = None
    BY <2>1 DEF SyncTopology, Record, Inv, StateOK, OfRun
  <2>2. CASE Own # None
    <3>1. state' = [Own EXCEPT !.ip = json.ip]
      BY <2>2 DEF SyncTopology, Record
    <3>2. state' \in Documents /\ state'.run = run /\ state'.ip = json.ip
      BY <1>1, <1>2, <2>2, <3>1, OwnOK DEF Documents, Listings
    <3>3. QED BY <1>2, <3>2 DEF StateOK, OfRun
  <2>3. QED BY <2>1, <2>2
<1>4. BoundOK' /\ LocalsOK' /\ WorkersOK'
  <2>1. CASE Goto("trap")
    BY <1>1, <2>1, GotoOK
  <2>2. CASE pc' = "vms" /\ todo' = Hosts /\ UNCHANGED <<run, worker, found, met>>
    BY <1>1, <2>2 DEF Inv, BoundOK, LocalsOK, WorkersOK, OfRun
  <2>3. QED BY <2>1, <2>2 DEF SyncTopology, Record
<1>5. FileOK(json)' /\ FileOK(inventory)' /\ LeasesOK'
  BY <1>1 DEF Inv, FileOK, LeasesOK, OfRun
<1>6. QED BY <1>3, <1>4, <1>5 DEF Inv

LEMMA RecordVmOK == ASSUME Inv, NEW h \in Hosts, RecordVm(h) PROVE Inv'
<1>1. pc = "vms" /\ UNCHANGED <<lease, json, inventory>>
  BY DEF RecordVm
<1>2. OfRun(run, found) /\ found[h] \in Addresses \cup {None}
  BY <1>1 DEF Inv, BoundOK, LocalsOK, AddressOf
<1>3. StateOK'
  <2>1. CASE Own = None
    BY <2>1 DEF RecordVm, Record, Inv, StateOK, OfRun
  <2>2. CASE Own # None
    <3>1. state' = [Own EXCEPT !.status[h] = "ssh-ready", !.ip[h] = found[h]]
      BY <2>2 DEF RecordVm, Record
    <3>2. Own \in Documents /\ Own.run = run /\ OfRun(run, Own.ip)
      BY <1>1, <2>2, OwnOK
    <3>3. /\ state' \in Documents /\ state'.run = run
          /\ state'.ip = [Own.ip EXCEPT ![h] = found[h]]
      BY <1>2, <3>1, <3>2 DEF Documents, Statuses, AddressOf
    <3>4. OfRun(run, state'.ip)
      BY <1>2, <3>2, <3>3 DEF OfRun, Documents, AddressOf
    <3>5. QED BY <3>3, <3>4 DEF StateOK, OfRun
  <2>3. QED BY <2>1, <2>2
<1>4. BoundOK' /\ LocalsOK' /\ WorkersOK'
  <2>1. CASE Goto("trap")
    BY <1>1, <2>1, GotoOK
  <2>2. CASE /\ todo' = todo \ {h} /\ pc' = IF todo' = {} THEN "complete" ELSE "vms"
             /\ UNCHANGED <<run, worker, found, met>>
    BY <1>1, <2>2 DEF Inv, BoundOK, LocalsOK, WorkersOK, OfRun
  <2>3. QED BY <2>1, <2>2 DEF RecordVm, Record
<1>5. FileOK(json)' /\ FileOK(inventory)' /\ LeasesOK'
  BY <1>1 DEF Inv, FileOK, LeasesOK, OfRun
<1>6. QED BY <1>3, <1>4, <1>5 DEF Inv

LEMMA WriteOK == ASSUME Inv, WriteInventory PROVE Inv'
<1>1. pc = "write" /\ UNCHANGED <<lease, json, state>>
  BY DEF WriteInventory
<1>2. FileOK(inventory)'
  BY DEF WriteInventory, Inv, FileOK, OfRun
<1>3. BoundOK' /\ LocalsOK' /\ WorkersOK'
  <2>1. CASE Goto("written")
    BY <1>1, <2>1, GotoOK
  <2>2. CASE End
    BY <2>2, EndOK
  <2>3. QED BY <2>1, <2>2 DEF WriteInventory
<1>4. FileOK(json)' /\ StateOK' /\ LeasesOK'
  BY <1>1 DEF Inv, FileOK, StateOK, LeasesOK, OfRun
<1>5. QED BY <1>2, <1>3, <1>4 DEF Inv

LEMMA ScenarioOK ==
    ASSUME Inv, ScenarioStep \/ \E r \in Runs \cup {None} : StartScenario(r)
    PROVE  Inv'
<1>1. /\ UNCHANGED <<lease, json, inventory>> /\ pc \in {"idle"} \cup Scenario
      /\ \/ run' \in Runs \cup {None} /\ UNCHANGED <<todo, worker, found, met>>
            /\ pc' \in Scenario
         \/ End
  <2>1. CASE \E r \in Runs \cup {None} : StartScenario(r)
    BY <2>1 DEF StartScenario, files
  <2>2. CASE ScenarioStep
    BY <2>2 DEF ScenarioStep, ScenarioStarted, RunTests, ScenarioTrap, Record, Goto, files,
       locals, Inv, LocalsOK
  <2>3. QED BY <2>1, <2>2
<1>2. StateOK'
  <2>1. CASE UNCHANGED state
    BY <2>1 DEF Inv, StateOK, OfRun
  <2>2. CASE Own # None
             /\ \E p \in {"scenario_started", "scenario_completed", "scenario_failed"} :
                    state' = SetPhase(p)
    BY <2>2, PhaseRecorded DEF Phases
  <2>3. QED
    BY <2>1, <2>2 DEF StartScenario, ScenarioStep, ScenarioStarted, RunTests, ScenarioTrap,
       Record, files
<1>3. BoundOK' /\ LocalsOK' /\ WorkersOK'
  <2>1. CASE End
    BY <2>1, EndOK
  <2>2. CASE run' \in Runs \cup {None} /\ UNCHANGED <<todo, worker, found, met>>
             /\ pc' \in Scenario
    BY <1>1, <2>2 DEF Inv, BoundOK, LocalsOK, WorkersOK, NoAddress
  <2>3. QED BY <1>1, <2>1, <2>2
<1>4. FileOK(json)' /\ FileOK(inventory)' /\ LeasesOK'
  BY <1>1 DEF Inv, FileOK, LeasesOK, OfRun
<1>5. QED BY <1>2, <1>3, <1>4 DEF Inv

LEMMA LeaseOK == ASSUME Inv, NEW v \in VMs, Lease(v) \/ Vanish(v) PROVE Inv'
<1>1. UNCHANGED <<files, pc, locals>>
  BY DEF Lease, Vanish
<1>2. PICK a \in Pool[v] \cup {None} : lease' = [lease EXCEPT ![v] = a]
  BY DEF Lease, Vanish
<1>3. a \in Addresses \cup {None}
  BY <1>2 DEF Addresses
<1>4. LeasesOK'
  BY <1>2, <1>3 DEF Inv, LeasesOK
<1>5. BoundOK' /\ LocalsOK' /\ WorkersOK'
  BY <1>1 DEF files, locals, Inv, BoundOK, LocalsOK, WorkersOK, OfRun
<1>6. FileOK(json)' /\ FileOK(inventory)' /\ StateOK'
  BY <1>1 DEF files, Inv, FileOK, StateOK, OfRun
<1>7. QED BY <1>4, <1>5, <1>6 DEF Inv

LEMMA AroundOK == ASSUME Inv, Kill \/ Checkout \/ UNCHANGED vars PROVE Inv'
<1>1. CASE Kill
  <2>1. BoundOK' /\ LocalsOK' /\ WorkersOK'
    BY <1>1, EndOK DEF Kill
  <2>2. QED
    BY <1>1, <2>1 DEF Kill, files, Inv, FileOK, StateOK, LeasesOK, OfRun
<1>2. CASE Checkout
  BY <1>2 DEF Checkout, locals, Inv, FileOK, StateOK, LeasesOK, BoundOK, LocalsOK,
              WorkersOK, OfRun
<1>3. CASE UNCHANGED vars
  BY <1>3 DEF vars, files, locals, Inv, FileOK, StateOK, LeasesOK, BoundOK, LocalsOK,
              WorkersOK, OfRun
<1>4. QED BY <1>1, <1>2, <1>3
-----------------------------------------------------------------------------
LEMMA InvHolds == Spec => []Inv
<1>1. Inv /\ [Next]_vars => Inv'
  BY RenderOK, InitStateOK, StartOK, WorkerStepOK, RecordStepOK, JoinOK, UpdateOK, SyncOK,
     RecordVmOK, WriteOK, ScenarioOK, LeaseOK, AroundOK DEF Next, ScriptStep, InventoryStep
<1>2. QED BY InitOK, <1>1, PTL DEF Spec

(* Variables and files keep to their types.                                *)
THEOREM Types == Spec => []TypeOK
<1>1. Inv => TypeOK
  BY DEF Inv, TypeOK, FileOK, StateOK, LeasesOK, LocalsOK
<1>2. QED BY <1>1, InvHolds, PTL

(* An address never crosses from one run, or one host, to another.         *)
THEOREM AddressesStay == Spec => []AddressesOfRun
<1>1. Inv => AddressesOfRun
  BY DEF Inv, AddressesOfRun, FileOK, StateOK
<1>2. QED BY <1>1, InvHolds, PTL
-----------------------------------------------------------------------------
(* Addresses are in topology.json only while the document is of its run: a *)
(* wait has the document from its first record on, and a rendering keeps   *)
(* addresses only from its own run.                                        *)
HasAddress == \E h \in Hosts : json.ip[h] # None

Matched ==
    /\ state # None /\ json # None /\ HasAddress => state.run = json.run
    /\ pc \in {"wait", "update", "sync", "vms", "complete"} =>
           state # None /\ state.run = run /\ state.phase = "wait_started"
    /\ pc = "passed" => json # None /\ HasAddress

(* A step that leaves topology.json alone, and of the document the run.    *)
LEMMA SameRun ==
    ASSUME Inv, Matched, Next, UNCHANGED json,
           state' # None => \/ state # None /\ state'.run = state.run
                            \/ json # None /\ state'.run = json.run
    PROVE  state' # None /\ json' # None /\ HasAddress' => state'.run = json'.run
BY DEF Matched, HasAddress

(* What a run-state.py command leaves is of the run of the document it had,*)
(* or of the topology.json it made a document from.                        *)
LEMMA RecordedRun ==
    ASSUME Inv, NEW doc, Own # None => doc.run = Own.run,
           (Own # None /\ state' = doc) \/ (Own = None /\ UNCHANGED state)
    PROVE  state' # None => \/ state # None /\ state'.run = state.run
                            \/ json # None /\ state'.run = json.run
BY DEF Own, Document

LEMMA OwnRecord ==
    ASSUME Inv, Own # None
    PROVE  /\ \A p \in Phases : SetPhase(p).run = Own.run /\ SetPhase(p).phase = p
           /\ \A ip \in AddressOf : /\ [Own EXCEPT !.ip = ip].run = Own.run
                                    /\ [Own EXCEPT !.ip = ip].phase = Own.phase
           /\ \A h \in Hosts, a \in Addresses \cup {None} :
                  LET doc == [Own EXCEPT !.status[h] = "ssh-ready", !.ip[h] = a] IN
                  doc.run = Own.run /\ doc.phase = Own.phase
BY OwnOK DEF SetPhase, Documents

LEMMA MatchedInit == Init => Matched
BY DEF Init, Matched

LEMMA MatchedStep == ASSUME Inv, Matched, [Next]_vars PROVE Matched'
<1>1. ASSUME NEW r \in Runs, Render(r) PROVE Matched'
  <2>1. json' # None /\ json'.run = r /\ json'.ip = CarriedOver(r) /\ UNCHANGED state
    BY <1>1, LeasesAssumption, RenderOK DEF Render, Inv, FileOK, BoundOK
  <2>2. HasAddress' => json # None /\ json.run = r /\ HasAddress
    BY <2>1 DEF HasAddress, CarriedOver, NoAddress
  <2>3. QED BY <1>1, <2>1, <2>2 DEF Matched, Render
<1>2. CASE InitState
  <2>1. state'.run = json.run
    <3>1. json # None /\ json.run = run
      BY <1>2 DEF InitState, Inv, BoundOK
    <3>2. QED BY <1>2, <3>1 DEF InitState, Document
  <2>2. QED BY <1>2, <2>1 DEF InitState, End, Matched
<1>3. ASSUME NEW r \in Runs, StartWait(r) \/ StartInventory(r) PROVE Matched'
  BY <1>3 DEF StartWait, StartInventory, Matched, HasAddress, files
<1>4. CASE RecordStarted
  <2>1. CASE Own = None
    BY <1>4, <2>1 DEF RecordStarted, Record, End, Matched, HasAddress
  <2>2. CASE Own # None
    <3>1. state' = SetPhase("wait_started") /\ pc' = "wait" /\ run' = run /\ pc = "started"
          /\ UNCHANGED json
      BY <1>4, <2>2 DEF RecordStarted, Record
    <3>2. state'.run = run /\ state'.phase = "wait_started" /\ json.run = run
      BY <2>2, <3>1, OwnRecord, OwnOK DEF Phases, Inv, BoundOK
    <3>3. state' # None
      BY <1>4, <2>2, <3>1, LeasesAssumption, OwnOK DEF SetPhase, Documents, Phases
    <3>4. QED BY <3>1, <3>2, <3>3 DEF Matched
  <2>3. QED BY <2>1, <2>2
<1>5. CASE JoinWorkers
  BY <1>5 DEF JoinWorkers, Goto, locals, files, Matched, HasAddress
<1>6. CASE UpdateIps
  <2>1. UNCHANGED <<state, run>> /\ pc' = "sync" /\ pc = "update"
    BY <1>6 DEF UpdateIps, Goto, locals
  <2>2. json'.run = run
    BY <1>6 DEF UpdateIps, Inv, BoundOK, FileOK, Listings
  <2>3. QED BY <2>1, <2>2 DEF Matched
<1>7. CASE SyncTopology \/ \E h \in Hosts : RecordVm(h)
  <2>1. pc \in {"sync", "vms"} /\ UNCHANGED json /\ state # None /\ Own = state
    BY <1>7 DEF SyncTopology, RecordVm, Matched, Own, Named
  <2>2. /\ state'.run = state.run /\ state'.phase = state.phase /\ state' # None
        /\ run' = run /\ pc' \in {"vms", "complete"}
    <3>1. CASE SyncTopology
      <4>1. state' = [Own EXCEPT !.ip = json.ip] /\ pc' = "vms" /\ UNCHANGED run
        BY <2>1, <3>1 DEF SyncTopology, Record
      <4>2. json.ip \in AddressOf
        BY <2>1 DEF Inv, BoundOK, FileOK, Listings
      <4>3. state' \in Documents
        BY <2>1, <4>1, <4>2, OwnOK DEF Documents
      <4>4. QED BY <2>1, <4>1, <4>2, <4>3, OwnRecord, LeasesAssumption
    <3>2. ASSUME NEW h \in Hosts, RecordVm(h)
          PROVE  /\ state'.run = state.run /\ state'.phase = state.phase /\ state' # None
                 /\ run' = run /\ pc' \in {"vms", "complete"}
      <4>1. /\ state' = [Own EXCEPT !.status[h] = "ssh-ready", !.ip[h] = found[h]]
            /\ pc' \in {"vms", "complete"} /\ UNCHANGED run
        BY <2>1, <3>2 DEF RecordVm, Record
      <4>2. found[h] \in Addresses \cup {None}
        BY DEF Inv, LocalsOK, AddressOf
      <4>3. state' \in Documents
        BY <2>1, <4>1, <4>2, OwnOK DEF Documents, Statuses, AddressOf
      <4>4. QED BY <2>1, <4>1, <4>2, <4>3, OwnRecord, LeasesAssumption
    <3>3. QED BY <1>7, <3>1, <3>2
  <2>3. QED BY <2>1, <2>2 DEF Matched, HasAddress
<1>8. CASE RecordCompleted \/ WaitTrap \/ InventoryStarted \/ InventoryCompleted
           \/ ScenarioStarted \/ ScenarioTrap
  <2> DEFINE Left(p) == \/ Own # None /\ state' = SetPhase(p)
                        \/ Own = None /\ UNCHANGED state
  <2>1. PICK p \in Phases : Left(p)
    <3>1. \/ Left("wait_completed") \/ Left("wait_failed") \/ Left("inventory_started")
          \/ Left("inventory_completed") \/ Left("scenario_started")
          \/ Left("scenario_completed") \/ Left("scenario_failed")
      BY <1>8 DEF RecordCompleted, WaitTrap, InventoryStarted, InventoryCompleted,
         ScenarioStarted, ScenarioTrap, Record
    <3> HIDE DEF Left
    <3>2. QED BY <3>1 DEF Phases
  <2>2. state' # None => \/ state # None /\ state'.run = state.run
                         \/ json # None /\ state'.run = json.run
    BY <2>1, OwnRecord, RecordedRun
  <2>3. UNCHANGED json /\ pc' \notin {"wait", "update", "sync", "vms", "complete", "passed"}
    BY <1>8 DEF RecordCompleted, WaitTrap, InventoryStarted, InventoryCompleted,
       ScenarioStarted, ScenarioTrap, Record, Goto, End
  <2>4. QED BY <2>2, <2>3 DEF Matched, HasAddress
<1>9. CASE WriteInventory \/ \E r \in Runs \cup {None} : StartScenario(r)
  BY <1>9 DEF WriteInventory, StartScenario, Goto, End, files, Matched, HasAddress
<1>10. CASE RunTests
  BY <1>10, LeasesAssumption DEF RunTests, Goto, files, Matched, HasAddress
<1>11. ASSUME NEW h \in Hosts, WorkerStep(h) PROVE Matched'
  BY <1>11 DEF WorkerStep, TryKnown, AskAgent, ReachSsh, TimeOut, files, Matched, HasAddress
<1>12. CASE Kill \/ Checkout
  BY <1>12 DEF Kill, Checkout, End, files, Matched, HasAddress
<1>13. CASE (\E v \in VMs : Lease(v) \/ Vanish(v)) \/ UNCHANGED vars
  BY <1>13 DEF Lease, Vanish, vars, files, locals, Matched, HasAddress
<1>14. QED
  BY <1>1, <1>2, <1>3, <1>4, <1>5, <1>6, <1>7, <1>8, <1>9, <1>10, <1>11, <1>12, <1>13
     DEF Next, ScriptStep, InventoryStep, ScenarioStep

(* A completed scenario is in the document of the run whose VMs it tested, *)
(* also when it is run without a RUN_ID.                                   *)
THEOREM ScenarioIsOfRun == Spec => CompletedByTestedRun
<1>1. Inv /\ Matched /\ [Next]_vars =>
          [state' # state /\ state' # None =>
             (state'.phase = "scenario_completed" => json # None /\ json.run = state'.run)]_vars
  <2> SUFFICES ASSUME Inv, Matched, Next, state' # state, state' # None,
                      state'.phase = "scenario_completed"
               PROVE  json # None /\ json.run = state'.run
    OBVIOUS
  <2>1. CASE ScenarioTrap
    <3>1. PICK p \in Phases : Own # None /\ state' = SetPhase(p)
                             /\ (pc = "passed" \/ p = "scenario_failed")
      BY <2>1 DEF ScenarioTrap, Record, Phases
    <3>2. pc = "passed" /\ state'.run = Own.run
      BY <3>1, OwnRecord
    <3>3. json # None /\ HasAddress
      BY <3>2 DEF Matched
    <3>4. Own.run = json.run
      BY <3>1, <3>3 DEF Own, Document, Matched
    <3>5. QED BY <3>2, <3>3, <3>4
  <2>2. CASE RecordStarted \/ RecordCompleted \/ WaitTrap \/ InventoryStarted
             \/ InventoryCompleted \/ ScenarioStarted
    <3>1. PICK p \in Phases \ {"scenario_completed"} : Own # None /\ state' = SetPhase(p)
      BY <2>2 DEF RecordStarted, RecordCompleted, WaitTrap, InventoryStarted,
         InventoryCompleted, ScenarioStarted, Record, Phases
    <3>2. QED BY <3>1, OwnRecord
  <2>3. CASE SyncTopology \/ \E h \in Hosts : RecordVm(h)
    <3>1. pc \in {"sync", "vms"} /\ Own # None /\ Own = state /\ state.phase = "wait_started"
      BY <2>3 DEF SyncTopology, RecordVm, Record, Matched, Own
    <3>2. json.ip \in AddressOf /\ \A h \in Hosts : found[h] \in Addresses \cup {None}
      BY <3>1 DEF Inv, BoundOK, FileOK, Listings, LocalsOK, AddressOf
    <3>3. CASE SyncTopology
      BY <3>1, <3>2, <3>3, OwnRecord DEF SyncTopology, Record
    <3>4. ASSUME NEW h \in Hosts, RecordVm(h) PROVE FALSE
      <4>1. state' = [Own EXCEPT !.status[h] = "ssh-ready", !.ip[h] = found[h]]
        BY <3>1, <3>4 DEF RecordVm, Record
      <4>2. state'.phase = "wait_started"
        BY <3>1, <3>2, <4>1, OwnRecord
      <4>3. QED BY <4>2
    <3>5. QED BY <2>3, <3>3, <3>4
  <2>4. CASE InitState
    <3>1. json # None /\ json.run = run
      BY <2>4 DEF InitState, Inv, BoundOK
    <3>2. state'.phase = "rendered"
      BY <2>4, <3>1 DEF InitState, Document
    <3>3. QED BY <3>2
  <2>5. CASE /\ ~ScenarioTrap /\ ~InitState /\ ~SyncTopology /\ ~RecordStarted
             /\ ~RecordCompleted /\ ~WaitTrap /\ ~InventoryStarted /\ ~InventoryCompleted
             /\ ~ScenarioStarted /\ \A h \in Hosts : ~RecordVm(h)
    BY <2>5 DEF Next, ScriptStep, InventoryStep, ScenarioStep, Render, StartWait,
       StartInventory, StartScenario, JoinWorkers, UpdateIps, WriteInventory, RunTests,
       WorkerStep, TryKnown, AskAgent, ReachSsh, TimeOut, Lease, Vanish, Kill, Checkout, files
  <2>6. QED BY <2>1, <2>2, <2>3, <2>4, <2>5
<1>2. Spec => [](Inv /\ Matched)
  BY InvHolds, MatchedInit, MatchedStep, PTL DEF Spec
<1>3. QED BY <1>1, <1>2, PTL DEF Spec, CompletedByTestedRun
-----------------------------------------------------------------------------
(* What the recording of a wait has got to: the addresses are in           *)
(* topology.json, then the statuses of the hosts that are not to do.       *)
Recorded(h) == state.status[h] = "ssh-ready" /\ state.ip[h] = found[h]

Recording ==
    /\ pc \in {"sync", "vms", "complete"} => \A h \in Hosts : found[h] # None
    /\ pc \in {"sync", "vms", "complete"} => json.ip = found
    /\ pc = "vms" => \A h \in Hosts \ todo : Recorded(h)
    /\ pc = "complete" => \A h \in Hosts : Recorded(h)

(* A step that leaves both files alone, or the phase is not the last one.  *)
LEMMA NotCompleted ==
    ASSUME CompletedAgrees, UNCHANGED json,
           state' = state \/ (state' # None => state'.phase # "wait_completed")
    PROVE  CompletedAgrees'
BY DEF CompletedAgrees

LEMMA RecordingStep ==
    ASSUME Inv, Matched, Recording, CompletedAgrees, [Next]_vars
    PROVE  Recording' /\ CompletedAgrees'
<1>1. ASSUME NEW r \in Runs, Render(r) PROVE Recording' /\ CompletedAgrees'
  <2>1. pc' = "init" /\ UNCHANGED state /\ json' = [run |-> r, ip |-> CarriedOver(r)]
    BY <1>1 DEF Render
  <2>2. json' # None /\ json'.run = r /\ json'.ip = CarriedOver(r)
    BY <1>1, <2>1, LeasesAssumption, RenderOK DEF Inv, BoundOK
  <2>3. \A h \in Hosts : json'.ip[h] = None \/ (json # None /\ json.run = r
                                              /\ json'.ip[h] = json.ip[h])
    BY <2>2 DEF CarriedOver, NoAddress
  <2>4. QED BY <2>1, <2>2, <2>3 DEF Recording, CompletedAgrees
<1>2. CASE InitState
  <2>1. json # None
    BY <1>2 DEF InitState, Inv, BoundOK
  <2>2. state'.phase = "rendered"
    BY <1>2, <2>1 DEF InitState, Document
  <2>3. UNCHANGED json /\ pc' = "idle"
    BY <1>2 DEF InitState, End
  <2>4. QED BY <2>2, <2>3, NotCompleted DEF Recording
<1>3. ASSUME NEW r \in Runs, StartWait(r) \/ StartInventory(r)
      PROVE  Recording' /\ CompletedAgrees'
  BY <1>3 DEF StartWait, StartInventory, files, Recording, CompletedAgrees
<1>4. CASE \/ RecordStarted \/ WaitTrap \/ InventoryStarted \/ InventoryCompleted
           \/ ScenarioStarted \/ ScenarioTrap
  <2> DEFINE Left(p) == \/ Own # None /\ state' = SetPhase(p)
                        \/ Own = None /\ UNCHANGED state
  <2>1. PICK p \in Phases \ {"wait_completed"} : Left(p)
    <3>1. \/ Left("wait_started") \/ Left("wait_failed") \/ Left("inventory_started")
          \/ Left("inventory_completed") \/ Left("scenario_started")
          \/ Left("scenario_completed") \/ Left("scenario_failed")
      BY <1>4 DEF RecordStarted, WaitTrap, InventoryStarted, InventoryCompleted,
         ScenarioStarted, ScenarioTrap, Record
    <3> HIDE DEF Left
    <3>2. QED BY <3>1 DEF Phases
  <2>2. UNCHANGED json /\ pc' \notin {"sync", "vms", "complete"}
    BY <1>4 DEF RecordStarted, WaitTrap, InventoryStarted, InventoryCompleted,
       ScenarioStarted, ScenarioTrap, Record, Goto, End
  <2>3. state' = state \/ state'.phase # "wait_completed"
    BY <2>1, OwnRecord
  <2>4. QED BY <2>2, <2>3, NotCompleted DEF Recording
<1>5. CASE JoinWorkers \/ WriteInventory \/ RunTests
           \/ \E r \in Runs \cup {None} : StartScenario(r)
  BY <1>5 DEF JoinWorkers, WriteInventory, RunTests, StartScenario, Goto, End, files,
     Recording, CompletedAgrees
<1>6. CASE UpdateIps
  <2>1. /\ pc' = "sync" /\ UNCHANGED <<state, found>> /\ json'.ip = found
        /\ \A h \in Hosts : found[h] # None
    BY <1>6 DEF UpdateIps, Goto, locals, Inv, WorkersOK, BoundOK, FileOK, Listings
  <2>2. state.phase # "wait_completed"
    BY <1>6 DEF UpdateIps, Matched
  <2>3. QED BY <2>1, <2>2 DEF Recording, CompletedAgrees
<1>7. CASE SyncTopology
  <2>1. /\ state # None /\ Own = state /\ state.phase = "wait_started" /\ UNCHANGED json
        /\ json.ip = found /\ \A h \in Hosts : found[h] # None
    BY <1>7 DEF SyncTopology, Matched, Own, Named, Recording
  <2>2. pc' = "vms" /\ todo' = Hosts /\ UNCHANGED found /\ state' = [Own EXCEPT !.ip = json.ip]
    BY <1>7, <2>1 DEF SyncTopology, Record
  <2>3. json.ip \in AddressOf
    BY <2>1 DEF Inv, LocalsOK
  <2>4. state'.phase = "wait_started"
    BY <2>1, <2>2, <2>3, OwnRecord
  <2>5. QED BY <2>1, <2>2, <2>4, NotCompleted DEF Recording
<1>8. ASSUME NEW h \in Hosts, RecordVm(h) PROVE Recording' /\ CompletedAgrees'
  <2>1. /\ state # None /\ Own = state /\ state.phase = "wait_started" /\ UNCHANGED json
        /\ pc = "vms" /\ h \in todo /\ json.ip = found /\ \A g \in Hosts : found[g] # None
    BY <1>8 DEF RecordVm, Matched, Own, Named, Recording
  <2>2. /\ todo' = todo \ {h} /\ pc' = (IF todo' = {} THEN "complete" ELSE "vms")
        /\ UNCHANGED found
        /\ state' = [Own EXCEPT !.status[h] = "ssh-ready", !.ip[h] = found[h]]
    BY <1>8, <2>1 DEF RecordVm, Record
  <2>3. state \in Documents /\ found \in AddressOf
    BY <2>1 DEF Inv, StateOK, LocalsOK
  <2>4. /\ state'.phase = "wait_started"
        /\ \A g \in Hosts : /\ state'.status[g] = IF g = h THEN "ssh-ready" ELSE state.status[g]
                            /\ state'.ip[g] = IF g = h THEN found[g] ELSE state.ip[g]
    BY <2>1, <2>2, <2>3 DEF Documents, AddressOf
  <2>5. \A g \in Hosts \ todo' : Recorded(g)'
    BY <2>1, <2>2, <2>4 DEF Recording, Recorded
  <2>6. Recording'
    BY <2>1, <2>2, <2>5 DEF Recording
  <2>7. QED BY <2>1, <2>4, <2>6, NotCompleted
<1>9. CASE RecordCompleted
  <2>1. /\ state # None /\ Own = state /\ UNCHANGED json /\ json.ip = found /\ pc' = "idle"
        /\ \A h \in Hosts : found[h] # None /\ Recorded(h)
    BY <1>9 DEF RecordCompleted, Record, End, Matched, Own, Named, Recording
  <2>2. state' = [state EXCEPT !.phase = "wait_completed"] /\ state \in Documents
    BY <1>9, <2>1 DEF RecordCompleted, Record, SetPhase, Inv, StateOK
  <2>3. state'.status = state.status /\ state'.ip = state.ip
    BY <2>2 DEF Documents
  <2>4. QED BY <2>1, <2>3 DEF Recorded, Recording, CompletedAgrees
<1>10. ASSUME NEW h \in Hosts, WorkerStep(h) PROVE Recording' /\ CompletedAgrees'
  BY <1>10 DEF WorkerStep, TryKnown, AskAgent, ReachSsh, TimeOut, Turn, files, Recording,
     CompletedAgrees
<1>11. CASE Kill \/ Checkout
  BY <1>11 DEF Kill, Checkout, End, files, locals, Recording, CompletedAgrees, Inv, BoundOK
<1>12. CASE (\E v \in VMs : Lease(v) \/ Vanish(v)) \/ UNCHANGED vars
  BY <1>12 DEF Lease, Vanish, vars, files, locals, Recording, Recorded, CompletedAgrees
<1>13. QED
  BY <1>1, <1>2, <1>3, <1>4, <1>5, <1>6, <1>7, <1>8, <1>9, <1>10, <1>11, <1>12
     DEF Next, ScriptStep, InventoryStep, ScenarioStep

(* A wait that is recorded as completed has every VM ready at an address,  *)
(* and topology.json has no other one for it.                              *)
THEOREM CompletionIsTrue == Spec => []CompletedAgrees
<1>1. Init => Recording /\ CompletedAgrees
  BY DEF Init, Recording, CompletedAgrees
<1>2. Spec => [](Inv /\ Matched /\ Recording /\ CompletedAgrees)
  BY <1>1, InvHolds, MatchedInit, MatchedStep, RecordingStep, PTL DEF Spec
<1>3. QED BY <1>2, PTL

(* Addresses are replaced only once every host has answered, by what it    *)
(* answered at.                                                            *)
THEOREM AllAnswered == Spec => AllOrNothing
<1>1. Inv /\ [Next]_vars =>
          [pc = "update" /\ json' # json => json'.ip = met /\ \A h \in Hosts : met[h] # None]_vars
  <2> SUFFICES ASSUME Inv, Next, pc = "update", json' # json
               PROVE  json'.ip = met /\ \A h \in Hosts : met[h] # None
    OBVIOUS
  <2>1. UpdateIps
    BY DEF Next, ScriptStep, InventoryStep, ScenarioStep, Render, InitState, StartWait,
       StartInventory, StartScenario, ScenarioStarted, ScenarioTrap, RecordStarted,
       JoinWorkers, SyncTopology, RecordVm, RecordCompleted, WaitTrap, InventoryStarted,
       InventoryCompleted, WriteInventory, RunTests, WorkerStep, TryKnown, AskAgent, ReachSsh,
       TimeOut, Lease, Vanish, Kill, Checkout, files
  <2>2. \A h \in Hosts : found[h] = met[h] /\ found[h] # None
    BY DEF Inv, WorkersOK
  <2>3. found = met
    BY <2>2 DEF Inv, LocalsOK, AddressOf
  <2>4. json'.ip = found
    BY <2>1 DEF UpdateIps, Inv, BoundOK, FileOK, Listings
  <2>5. QED BY <2>2, <2>3, <2>4
<1>2. QED BY <1>1, InvHolds, PTL DEF Spec, AllOrNothing
=============================================================================
