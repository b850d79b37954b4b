# Verification of pulsaros-testbed

pulsaros-testbed creates disposable VMs on one Proxmox host, provisions them
with Ansible, runs network scenarios (Linux VXLAN, EVPN, DPDK, netstack)
against them, collects artifacts and destroys everything again. The parts
that can go wrong in ways a test hardly reaches are the scripts around the
tests: they act on a shared host, identify what is theirs by arithmetic on a
run id, keep their knowledge in a few files, run workers in parallel, and may
be cancelled at any moment. Next to them stand the topology compiler, whose
output everything else trusts, and the fault tests, which break a shared
testbed on purpose and have to put it back. This directory holds TLA+ models
of them, TLC configurations that check the models on small instances, and
proofs that the TLA+ proof system checks for every instance.

## 1. Inventory

| Part | State it keeps | Operations | Hard behaviour | What makes it correct | Model |
|---|---|---|---|---|---|
| `scripts/run-state.py` | `artifacts/run-state.json` | init, phase, vm, sdn, sync-topology: each one process, read - change - write | document of another run, truncated file, lagging behind reality | a document is changed only by its own run; "created" is never false | `RunState`, `Lifecycle`, `WaitSsh` |
| `scripts/pve-create-run.sh` | VMs, SDN zone and VNets, bridges, the three files | render, init, clone loop, SDN, NIC loop, start loop, EXIT trap | killed anywhere, repeated, VMIDs taken by others | reuses only its own, can always be repeated | `Lifecycle` |
| `scripts/pve-destroy-run.sh` | the same, plus status files of workers | environment check, verification, N parallel workers, join, flush, SDN deletion | files of another run, failing `qm`, lost artifacts, worker races | removes its own and nothing else; complete report | `Lifecycle` |
| `scripts/cleanup-stale-runs.sh` | VMs and SDN objects of all old runs | list, age check, stop, destroy, SDN deletion | runs beside create and destroy with a list that ages; knows the reference topology's names only | destroys only old VMs of the runs it listed | `StaleCleanup`, `Ownership` |
| `scripts/render-topology.py` | topology.json, topology.env, inventory | validate and resolve, render, update-ips, ansible | rules that hold per segment and are used per host; two files written one after the other; arithmetic on run ids | a written file can be relied on; files agree | `Topology`, `EvpnPeering`, `Lifecycle`, `WaitSsh` |
| `scripts/pve-wait-ssh.sh` | management addresses in topology.json and run-state.json, per-host result files | parallel workers, guest agent polling, SSH polling, join, update | deadlines, stale addresses, one of several workers failing | only addresses the run's own VMs have had, all or none | `WaitSsh` |
| `scripts/pve-generate-inventory.sh` | Ansible inventory | two phase records around `render-topology.py ansible` | waits that failed before it | an address for every host | `WaitSsh` |
| `scripts/pve-run-scenario.sh` | phases in run-state.json | phase records around pytest | run by hand without a RUN_ID, document of another run | "completed" is said of the run that was tested | `WaitSsh` |
| `tests/test_fault_injection.py` | faults inside the VMs, fault-results.json | check path, inject, assert impact, restore, wait, record | half-done injection, restore that fails silently, killed session | a test leaves the network as it found it, or says so | `FaultTests`, `EvpnRouting` |
| roles `frr-evpn`, `vxlan-test` | frr.conf, VXLAN devices | provision a host | hosts in any order, restarts, faults while routes converge | every VTEP knows exactly what live sessions can carry | `EvpnRouting`, `Topology` |
| `.github/workflows/proxmox-testbed.yml` | none of its own | build-kernel, testbed, analyze jobs | serialisation, checkout, cancellation | - | environment of `Lifecycle` and `WaitSsh` |
| `tests/test_topology_checks.py`, roles `kernel`, `pulsaros-vxlan`, `pulsaros-netstack`, log collection, preflight, RPM validation, analyzer, smoke tests, supporting roles | see section 8 | | | | not modelled |

How they interact: scripts run one at a time in one workspace (the workflow's
concurrency group serialises jobs; locally one operator uses the Makefile).
They communicate through `artifacts/topology.json`, `artifacts/topology.env`
and `artifacts/run-state.json`, and through Proxmox itself, which later scripts
query by VMID and name. Concurrency exists inside destroy and wait-ssh
(background workers joined by the parent), between the scripts and the other
users of the Proxmox host, between the scripts and cancellation, and between
create or destroy and a stale-run cleanup in another terminal. The tests talk to the VMs
over SSH and share them with every earlier and later test.

## 2. Modules

| Module | Role |
|---|---|
| `RunState` | the run-state document and its commands as operators; no variables |
| `Ownership` | abstract: who holds which VMID of a shared host, and who may take or return it |
| `Lifecycle` | create and destroy; extends `RunState`, implements `Ownership` |
| `StaleCleanup` | cleanup-stale-runs.sh beside users that keep to `Ownership` (INSTANCE) |
| `WaitSsh` | wait-ssh, inventory and scenario scripts: addresses |
| `EvpnPeering` | the peers and reflector clients render-topology.py plans |
| `EvpnRouting` | what the VTEPs learn over those peers; extends `EvpnPeering` |
| `Topology` | validation and resolution of segments, control plane, checks and faults; plans with `EvpnPeering` (INSTANCE) |
| `FaultTests` | the fault tests as sessions on one testbed |
| `MC...` | small instances for TLC |
| `...Proofs` | theorems and their proofs; for `Lifecycle` in two modules, `LifecycleProofs` (who may touch what) and `LifecycleOutcomeProofs` (what has been achieved and recorded) |

Composition goes through `Ownership`: `Lifecycle` is shown to implement it, and
`StaleCleanup` puts the sweep next to any behaviour it allows, so that what
holds there holds next to the real create and destroy.

Definitions marked "Mutant" are deliberate bugs; no specification uses them.
Substituting one for the definition that follows it must break a property,
which shows that the property depends on the code.

### Lifecycle

| Variable | In the code |
|---|---|
| `vm` | VMID -> what `qm config`/`qm status` show: owner run and host (the name `pulsar-<run>-<host>`), NICs attached, running; `Foreign`, or `Absent` |
| `zones`, `vnets` | the SDN configuration (`pvesh get/create/delete /cluster/sdn`), keyed by the run's suffix |
| `bridges` | the VNet bridges on the host (`/sys/class/net`), as the last `pvesh set /cluster/sdn` left them |
| `json`, `env` | the run a topology.json / topology.env is about; `Absent`; `Torn` when its writer was killed inside `write_text` |
| `state` | run-state.json: a document, `Absent` or `Torn` |
| `run`, `pc`, `todo`, `cur` | the running script's RUN_ID argument, its place, the rest of its current loop, and what it did but has not recorded yet |
| `worker` | destroy's background workers, or the status files they left |
| `err` | a command of the running script has reported an error |

Actions follow the scripts in order. create: `StartCreate`, `RenderJson`,
`RenderEnv`, `InitState`, the clone loop (`CloneVm`, `RecordCloned`), the SDN
(`CreateZone`, `RecordZone`, `CreateVnet`, `RecordVnet`, `ApplySdn`,
`WaitVnets`), the NIC loop (`AttachNics`, `RecordConfigured`), the start loop
(`StartVm`, `RecordStarted`), `CreateDone`; `CreateFails` and `RenderEnvFails`
are `set -e` and `die`, `CreateTrap` is `finish_create_state`. destroy:
`StartDestroy`, `DestroyBegin`, `CheckEnv`, `VerifyTargets`, then for each host
`StartWorker`, `WorkerCheck`, `WorkerStop`, `WorkerRemove` in parallel,
`JoinWorkers`, `FlushStatus`, `FlushDone`, `DeleteVnet`, `RecordVnetDeleted`,
`DeleteZone`, `RecordZoneDeleted`, `ApplyDeletion`, `DestroyDone`. An effect on
Proxmox and the record of it in run-state.json are separate actions, since the
script may be killed between them. Around them: `Kill` and `KillInWrite` (the
job is cancelled or the machine stops), `Checkout` (actions/checkout removes
the artifacts), `ForeignAppears` and `ForeignLeaves` (other users of the host).

What the model leaves out, and why it may:

- One topology per workspace (`Hosts`, `Nets`) and one NETWORK_MODE for create;
  the reference topology that destroy falls back to (`DefaultHosts`) may differ.
  destroy reads the mode from topology.env; when that is absent or empty it
  takes it from its environment, where it may be missing (`QinqModes`).
- The phase list of run-state.json is reduced to its last entry; nothing reads
  the list. Time stamps, messages and copies of names and VMIDs are dropped.
- The flush loop goes by file name and the fallback host list by its place in
  the script, where the model uses one `Order`; the properties do not depend on
  the order.
- destroy's branch for SDN names in topology.env without a topology.json
  (pve-destroy-run.sh:167-179) handles files of older versions; the scripts
  of this commit never leave that combination.
- Workers of destroy die with it. A worker that survives its killed parent
  would still act on a VM whose name it has checked.
- A failing `qm` query of create ends it, which `CreateFails` covers. In destroy
  (`QueryErrors`) a failing `qm status` is taken for a missing VM; a failing
  `qm config` ends the verification, and the script with it, or a worker,
  which then leaves no status file and makes the script die after the flush.
- `VerifyTargets` reads all names in one step; destroy is the only script
  running, and other users of the host do not take over VMs that exist.

### Ownership and StaleCleanup

`Ownership` has two variables, the `owner` of every VMID and the `actor`, the
run whose script runs. Its actions are `Begin`, `Finish`, `Claim`, `Release`
and, for the other users, `OtherTakes` and `OtherLeaves`.

| Variable of StaleCleanup | In the code |
|---|---|
| `owner`, `actor` | as in `Ownership` |
| `old` | VMIDs whose `/etc/pve/qemu-server/<vmid>.conf` was last written before the threshold |
| `sdn`, `live` | the SDN configuration, named by `Suffix` (run % 1000000), and what of it the last apply made effective |
| `pc`, `listing`, `target`, `stale` | the script's place, the rest of its `qm list`, the entry at hand, `STALE_RUN_IDS` |
| `failed`, `whole`, `moved` | history: a command failed in this sweep; the runs that were altogether stale when it began and whose names no script has worked with since; somebody has worked on the target's VMID since its age was read |

`ChangeHands`, `SetNics` and `ChangeSdn` are the create and destroy scripts (and
others) as far as a sweep can tell; each write to a VM makes it young again.
`Age` lets a VM pass the threshold between sweeps. The script is `Start` (the
listing), `SkipVm`, `PickVm` (the age check), `StopVm`, `DestroyVm`, `EndSweep`,
`DeleteSdnForRun`, `Apply` and `End`, which is also a kill. A dry run changes
nothing and is left out. The order of the listing is free.

### WaitSsh

| Variable | In the code |
|---|---|
| `lease` | the address each VM answers at, or none |
| `json`, `state`, `inventory` | topology.json, run-state.json and the inventory, as far as runs and addresses go |
| `run`, `pc`, `todo` | the running script's RUN_ID, its place, the rest of the recording loop |
| `worker`, `found` | `wait_for_host` of every host, and the address in its `.ip` file |
| `met` | history: the address that answered SSH in this wait |

`Render` and `InitState` are what create does to addresses. The wait is
`StartWait`, `RecordStarted`, the workers (`TryKnown`, `AskAgent`, `ReachSsh`,
`TimeOut`), `JoinWorkers`, `UpdateIps`, `SyncTopology`, `RecordVm`,
`RecordCompleted` and `WaitTrap`. The inventory is `StartInventory`,
`InventoryStarted`, `WriteInventory` and `InventoryCompleted`; the scenario runner
`StartScenario`, `ScenarioStarted`, `RunTests` (pytest, reduced to passed or failed,
behind the check of conftest.py that every host has an address) and
`ScenarioTrap`. `Lease` and `Vanish` are DHCP and the VMs: two VMs do not have one
address at the same time, but an address may be given to one after the other,
also while a file still names it. `Kill` and `Checkout`
are as in `Lifecycle`. Files are written whole here, and topology.json and
topology.env are one file; `Lifecycle` is about both. The inventory's layout and
the table of test files per scenario are left out.

### EvpnPeering and EvpnRouting

`EvpnPeering` holds what render-topology.py resolves for an EVPN control plane:
`ControlPlaneAssumption` is what `validate_control_plane` lets pass, `Peers` and
`Client` are the peers of a host and their `route_reflector_client` flag.
`EvpnRouting` extends it with what happens on those peers: the frr-evpn role
provisions hosts in any order, and the control-plane faults of
test_fault_injection.py are injected and restored.

| Variable | In the system |
|---|---|
| `frr` | the hosts on which the role has written frr.conf and restarted FRR |
| `shut` | pairs of a host and a peer it shut with vtysh; not in frr.conf, so lost at a restart |
| `link` | the hosts whose underlay interface is up |
| `sessions` | established BGP sessions, in both directions |
| `rib` | per host, pairs of an originator and the neighbor its route came from |
| `faults` | faults injected so far |

`Provision` is the role on one host; `ShutPeer`, `RestartFrr` and `UnderlayDown`
are the inject functions, `RestorePeer` and `RestoreUnderlay` the restore
operations they return (that of `frr_restart` is another restart). FRR itself is
not in the repository; `Establish`, `Update`, `HoldTimeExpires` and `Close` are
the rules of iBGP and route reflection that the generated configuration relies
on, stated in the module's header. One route stands for all routes a VTEP
originates, since they are sent and withdrawn together. The updates of one
session are applied at once; updates of different sessions interleave freely.
Reflectors do not share a cluster id (frr.conf sets none), and FRR finds no
loop in a path of two reflectors. `CLUSTER_LIST` is left out: it would only
refuse a route that comes back to a reflector it has passed, and in the model
such a route is never sent, because a reflector passes a route to another one
only when it has it from its client. When an underlay link goes down both ends
lose the session in one step, where in reality their hold timers expire at
slightly different times.

### Topology

| Variable | In the code |
|---|---|
| `source`, `dataplane` | the author's topology file and `--dataplane` |
| `pc` | the call `render` is at, or `refused` / `written` |
| `segments`, `control`, `checks`, `faults` | what has been resolved so far |

`RenderSegments`, `RenderControlPlane`, `RenderChecks` and `RenderFaults` are the
calls of `render`, each behind its `Valid...` operator and followed by its
resolver. Lists are sets, and values that are only copied or checked for their
form are left out, with the hosts and networks (names and VMIDs are in
`Lifecycle`). A VLAN key that is absent and one that is blank are told apart,
because validation and resolution treat them differently.

### FaultTests

| Variable | In the code |
|---|---|
| `broken` | settings of the VMs that are not as the roles configured them |
| `converging` | paths that may not answer yet after a routing change |
| `results` | fault-results.json, or torn |
| `pc`, `current`, `passing`, `result` | where the parametrized test is, whether an exception is pending, and its result entry |
| `restore` | what the closure `restore()` will leave broken; none before the injection returned |
| `session`, `killed` | how often the tests were started and killed |
| `before`, `erred` | history: the settings broken when this test began; a command failed |

`StartSession`, `StartTest`, `Reachable` and `Unreachable` (both uses of
`_wait_reachable`), `Inject`, `InjectFails`, `ProbePath`, `Restore`,
`RestoreFails`, `Record`, `EndSession` and `Kill` are the test around an
injection, with its `try`/`finally` structure; `Converge` is routing catching
up. `Own` and `Taken` say what each of the six fault types changes, `Path` what
a ping needs in any case, `Answered` whether it is answered: the sessions of one
of the `Ways` between the two VTEPs (their own, or those over another
reflector) have to be up as well. `restore()` of `mtu_mismatch`, and of the DPDK form of
`bounce_vtep_underlay`, puts back what the injection read, not what was
configured (`Remembers`).

## 3. Runs

| Run | Instance | Checks | What it shows |
|---|---|---|---|
| `overlap` | Lifecycle: runs 1 and 2, hosts a and b with offsets 1 and 2, bridge mode, a VMID a stranger wants, failing commands, two workers, kills between steps but not inside writes | `OwnershipInvariant`, `FilesAgree`, `VmIsolation`, `RunStateOfOneRun`, `ForeignUntouched`, `CreateRerunnable`, `ImplementsOwnership` | host b of run 1 and host a of run 2 claim one VMID; whatever scripts are started, killed between steps and repeated, no VM, file or VMID of another is touched |
| `collision` | Lifecycle: both ranges 1, QinQ mode, failing commands | `VnetIsolation` | runs that share every VMID and every SDN name do not delete networks in use |
| `errors` | Lifecycle: one run, QinQ, one worker slot, commands and queries fail, kills inside and between writes, a fallback topology with one more host; `FairSpec` | `CreatedMeansReady`, `DestroyLeavesNothing`, `DestroyReportComplete`, `ScriptsEnd` | what "created", "destroyed" and the report are worth, and that scripts end |
| `cleanup` | StaleCleanup: three runs, two of which share a suffix, two VMIDs | `TypeOK`, `OwnershipButForStale`, `NothingStaleLeft`, `NetworkAfterVms`, `StaleRunGone` | what the sweep takes, leaves and orders, beside users of the host |
| `wait_ssh` | WaitSsh: two runs of two hosts, one VM with two possible addresses, one of which another VM may get; `FairSpec` | `TypeOK`, `AddressesOfRun`, `AllOrNothing`, `CompletedAgrees`, `CompletedByTestedRun`, `WaitEnds` | whose addresses and outcomes get into which file |
| `topology` | Topology: 287,000 files and dataplanes | `PeerAddressesAgree`, `PlanCovers`, `UnderlayNeverBridged`, `WorkFitsControlPlane`, `TrunkMembersTagged` | what a file that passed validation guarantees |
| `evpn_single` | EvpnRouting: three VTEPs, one reflector (vxlan-3vtep-3lan), four faults; `FairSpec` | `RoutesJustified`, `ShutPeerMeansOutage`, `Recovers` | routes come over live sessions and come back after faults |
| `evpn_dual` | EvpnRouting: four VTEPs, two reflectors (vxlan-4vtep-dual-rr), two faults | `SettledRoutes`, `FaultContained` | routes passed on by two reflectors end with their path; one lost session affects no other pair |
| `faults` | FaultTests: four faults over two reflectors and a client, two sessions, one kill, failing commands; `FairSpec` | `TypeOK`, `TestsRestore`, `LeaksRecorded`, `OutageOfThisFault`, `EveryTestRecorded`, `SessionEnds` | what tests leave behind and what they say of it |
| `torn_render`, `topology_vnis`, `faults_mtu` | | `VmIsolation`, `ExpectedVnisConfigured`, `RecoveryRecorded` | violated: section 6 |

**Lifecycle.** Two hosts are enough for a loop interrupted in its middle, for two
workers in parallel, and for a VMID overlap that leaves the other host free;
two runs are enough for every pairwise property (each speaks of one VM, one
document or one VNet and one running script). One network is enough for the
SDN order. `Jobs` is 1 where the slot wait matters and 2 where workers overlap.
`VmidRange` and `SuffixRange` are the 50000 and 1000000 of the code, made small
so that collisions happen. Scripts may be started, killed and repeated any
number of times.

**StaleCleanup.** Each VMID is old or not and changes hands freely, so two of
them show a run that is wholly stale and one that is stale in part, or two stale
runs at once. Two of the three runs have one suffix, so that a sweep meets the SDN
of a run it did not list; the third works, or is swept, beside them. Both VMIDs
are of hosts whose names the script knows: the theorems (section 4) hold for any
`Recognised` and show the rest; a third VMID of another host makes the space too
large for a short run. Others may work on a VMID between
the age check of its entry and its `qm destroy` (section 6); `moved` records it.
The two runs of one suffix, and the recognised VMIDs, are interchangeable: the
run uses that symmetry, and no liveness is checked in it.

**WaitSsh.** Two hosts give two workers whose join one may fail; one host with
two addresses is enough for a stale one, and one address that VMs of both runs
get for a stale one at which another run's VM answers. Scripts, leases and kills are not
bounded.

**Topology.** Segments left and right, with and without overlapping underlays,
reflectors none, one, two or not a VTEP, members in every combination of mode
and VLAN the code tells apart, checks and faults that fit and that do not.

**EvpnRouting.** `MaxFaults` bounds the injected faults, so that two are under way
at once and, in the smaller instance, repeated; restores are free. Two
reflectors and two clients are the least in which a path has every shape
(direct, one reflector, two). `evpn_dual` uses the symmetry of its reflectors and
of its clients; no liveness is checked in it.

**FaultTests.** The four faults are one of a small-ping outage, one that a small
ping does not see, one that takes another member's VLAN and one that expects no
outage, because it shuts a session that the other reflector makes up for.
`frr_restart` changes no setting and is left to `EvpnRouting`. Two sessions let the second meet what the first, failed or killed, left.

Deadlock is checked where the system can always go on: an idle workspace
can start a script, and a running one can be killed. `CHECK_DEADLOCK FALSE`
stands in the EVPN runs (a converged control plane with its fault budget used has
nothing to do), in the topology runs (rendering ends) and in the fault runs (the
sessions are used up).

**Fairness** is weak and on the programs' own steps only; operators, strangers,
DHCP, failures and kills are free not to act.

- `Lifecycle`: every wait of create and destroy has a deadline or waits for a
  command that returns.
- `WaitSsh`: the parent and each background worker are processes of their own,
  so each worker has its own fairness condition; ssh has ConnectTimeout, the
  agent its own time-out, and time passes, so a polling loop reaches its
  deadline. The VMs need not answer.
- `EvpnRouting`: the playbook goes on to the next host, FRR retries sessions and
  sends what it has to send. Nothing obliges a fault to be restored; `Recovers`
  speaks of behaviours in which faults are eventually restored for good.
- `FaultTests`: every command over SSH has a timeout and every wait a deadline,
  and pytest goes on with the next test. Routing need not converge. The `qm`
  commands that bounce a DPDK VTEP have no timeout, and nothing is assumed of
  them (`CanHang`); the run's faults use none, so `SessionEnds` is not about them.

**Refinement.** `ImplementsOwnership` is `Lifecycle` seen through `Holder` (a VMID is
held by the run whose name its VM bears, by a stranger, or by nobody) and the
running script's run: every step is one of `Ownership`, or leaves owners and actor
alone. Clones are `Claim`, removals `Release`, and the name checks in between
are what makes their guards true. `StaleCleanup` takes its other users'
actions from an INSTANCE of `Ownership`, so its results apply beside every
implementation of it.

## 4. Proofs

The proofs hold for every value of the constants that satisfies the named
assumptions of the modules: `ConstantsAssumption` and `MarkerAssumption`
(Lifecycle), `CleanupAssumption`, `LeasesAssumption`,
`ControlPlaneAssumption`, `SourcesAssumption` (Topology: the shape
of a topology file), `FaultsAssumption` and `NoneAssumption`. Markers differ from the values they are compared with; the
rest are ranges, and what validation establishes. Further assumptions are in
the theorems.

**LifecycleProofs.** `OwnershipHolds` proves `OwnershipInvariant`, which is `TypeOK`
(`TypeCorrect`) strengthened by three facts that make it inductive. `MarkOK`: what
is about to be recorded is of the kind the place in the script says.
`WorkersOK`: past its name check a worker holds a VM of the target's own name,
workers exist only while their parent starts or joins them, and the parent
flushes only finished ones. `ClonedOK`: after the clone loop every VMID of the
run holds a VM of the run's own name, so the NIC and start loops, which do not
look again, are safe. From it follow:

- `ForeignVmsAreSafe` (`ForeignUntouched`): the only actions that change an existing
  VM act on one of the names that `ClonedOK` or `WorkersOK` give them.
- `FilesAgreeHolds` (`FilesAgree`) and, with it, `VmsAreIsolated` (`VmIsolation`) and
  `OwnershipImplemented` (`ImplementsOwnership`), all assuming `~TornRender`: the
  run whose names destroy looks for is the requested one because the files
  agree. The violation run `torn_render` shows that the assumption is needed.
- `DocumentsAreIsolated` (`RunStateOfOneRun`), from `EnsureState`'s check of the run
  id and the fact that a running script keeps its RUN_ID.
- `VnetsAreIsolated` (`VnetIsolation`), assuming `~TornRender`, no failing
  queries, and that runs with one suffix have one VMID base (in the code: 50000
  divides 1000000). `Placed`: a VM is at the VMID of its name.
  `Verified`: past its verification, a destroy finds no other run's VM at the
  VMIDs of its topology. A VM with the deleted VNet would sit on a VMID of the deleting run.

**LifecycleOutcomeProofs.** What create and destroy have done when they say so.
Nothing in the scripts restates it: a place in a loop is all there is to say that the
entries behind it are done, and between two scripts there is only the
document. The invariants below relate both to Proxmox; on the instances of
`errors`, `overlap` and `collision` TLC finds no state outside them.

- `ReportsAreComplete` (`DestroyReportComplete`), without further assumptions.
  `Filled`: from its init on create works on its own document, which is not
  "created"; from its first record on destroy has a document, or is on
  the way to writing one, that does not say "created" of its run. `Reported`: the
  hosts that the flush loop has behind it have in the document what their worker's
  status file says, and a destroy with a refused worker does not get past that loop.
- `NothingIsLeft` (`DestroyLeavesNothing`). `Removed`: while no command has reported an
  error, a finished worker's host has no VM of the target run. `Unlinked`: the same
  for the VNets and the zone that the deletion loop has behind it. About the SDN
  it speaks when topology.env and topology.json are the run's own: without
  topology.env the script may skip the SDN and still complete. It assumes
  `~TornRender`, so that topology.json is that of the requested run, or one
  run only, as in `errors`.
- `CreatedIsReady` (`CreatedMeansReady`). `Networked`, `Equipped` and `Running` follow
  create's SDN, NIC and start loops: what they have behind them is there
  on the host. `CreatedStays` is the property for VNets as configured and as
  applied; it is preserved as long as no script touches the run's VMs and
  VNets without first changing the document's phase. Its assumptions are
  those of `VnetsAreIsolated`, or one run: with torn files, a
  query that fails, or two runs of one SDN suffix on different VMIDs, a
  script of another run takes VMs or VNets of a created run away, whose
  document it does not have to touch.
- `CreateIsRerunnable` (`CreateRerunnable`), from `Untorn`: files are whole unless a
  script is killed inside a write. It assumes `~TornWrite`: a
  truncated file does stop every later create (section 6).

**StaleCleanupProofs.** `TypesHold`; `OnlyStaleAreReaped` (`OwnershipButForStale`),
from `Listed`: an old VMID with a list entry still to be reached
belongs to the run the entry names, since whoever took it over made it young; and
a target that is no longer old has been worked on since its age was read, which
is the one case the property leaves open. `Swept`
(what is old and recognised is still in the list) gives `SweepIsComplete`;
with `Whole` (no script with the suffix of a run that was altogether stale has run since) `NetworksGoLast`; with `Gone` (SDN deletions and their apply)
`StaleRunsGo`.

**WaitSshProofs.** `Inv`, the types strengthened by the pools every address is from,
gives `Types`, `AddressesStay` (`AddressesOfRun`) and `AllAnswered` (`AllOrNothing`).
`Matched` (topology.json has
addresses only of the run the document is about) gives `ScenarioIsOfRun` (`CompletedByTestedRun`). `Recording` (from the update on,
every host has answered, and files and statuses written so far say so) gives
`CompletionIsTrue` (`CompletedAgrees`).

**TopologyProofs.** `StagesHold`: what each stage of `render` left is what its
validator let through. From it `PeerAddresses`, `UnderlaysUnbridged`, `WorkFits` and,
with `PeersCover` through an INSTANCE of `EvpnPeering`, `PlansCover`. `TrunksAreTagged`
(`TrunkMembersTagged`) relates what is written to what was read: `SourceKept` (rendering
never changes its source) and `MembersResolved` (a resolved segment has every
member of its source, with the VLAN `MemberVlan` gives it). These are about
every topology file, not only the drafts of the runs.

**EvpnProofs.** `PeersSymmetric` and `PeersCover` are about the plan alone. `RoutesAreJustified`
(`RoutesJustified`) is inductive as it stands; `CloseJustified` covers all steps
that tear sessions down. `SettledRoutesHold`: `ReachableIsKnown` follows a path of
sessions from its originator hop by hop; `KnownIsReachable` follows a route back:
its sender is its originator, a reflector that has it from the originator, or
a reflector that has it from a second one, and that one can only have it from
its own client, which ends the chain, so no reflected route keeps itself alive
in a circle. `FaultsAreContained` (`FaultContained`), for a full mesh or at
least two reflectors: if the lost session took one way between two VTEPs,
`OtherReflector` finds another, and by `SettledRoutes` what is reachable is
known. With one reflector it is false, and the theorem says so by its
assumption. `ShutPeersAreOut` (`ShutPeerMeansOutage`) is about the opposite case, a full
mesh or one reflector: `PeersShut` (a shut peer is one the plan has) and `NoWayRound`
(what reaches a VTEP from a peer came over their own session, since of two peers
one is the only reflector, or there is none), while `RoutesJustified` says that
session is down.

**FaultTestsProofs.** `Stage` says what the locals of a test mean at its place.
`TestsAreUndone` (`TestsRestore`) from `Restored`: what is broken is what the running
test's `restore()` will put back, or a taken VLAN. `OutagesAreOwn`
(`OutageOfThisFault`) from `Sound`. `LeaksAreRecorded` (`LeaksRecorded`), assuming that
faults run between two VTEPs (`AcrossVteps`), from `Leaks`: what is broken and
would be noticed is this test's, or already behind a result that did not
recover; a test that sees a path recovered has shown that nothing it cannot do
without is broken. With two reflectors that leaves out the session whose part
another way takes (`Spared`). `TestsAreRecorded` (`EveryTestRecorded`) from `Kept`, which counts: the results are
those of `session - 1` whole sessions and of the tests of this one that
are over. `Position` places the next one in its session.

**Only model-checked.** Liveness (`ScriptsEnd`, `WaitEnds`, `Recovers`, `SessionEnds`) is
outside the prover's reach: it rests on fairness and ENABLED. Every other
property of a passing run is a theorem, under the assumptions named above.
No module declares a RECURSIVE operator.

## 5. Properties

Each property is commented where it is defined.

- Ownership: `VmIsolation` (a VM of a run changes only under a script of that run),
  `ForeignUntouched` (VMs of others never), `RunStateOfOneRun` (nor documents),
  `VnetIsolation` (nor VNets in use, which holds because runs that share SDN
  names share VMIDs and both scripts look at the VMs first),
  `OwnershipButForStale` (a sweep destroys what was old when it looked, of the runs
  it listed).
- Repeating and reporting: `CreateRerunnable` (a create that fails had a
  failing command or a VMID in other hands), `CreatedMeansReady` (the document
  never claims more than the host shows), `DestroyLeavesNothing`,
  `DestroyReportComplete` (no status of a parallel worker is lost),
  `NothingStaleLeft`, `NetworkAfterVms`, `StaleRunGone`, `EveryTestRecorded`.
- Files: `FilesAgree`, `AddressesOfRun` (a file gives a host only addresses that its
  VM has had), `AllOrNothing`, `CompletedAgrees`, `CompletedByTestedRun`.
- Topology: `PeerAddressesAgree`, `PlanCovers`, `UnderlayNeverBridged`,
  `WorkFitsControlPlane`, `TrunkMembersTagged`.
- Routing: `RoutesJustified`, `SettledRoutes` (with no update left to send, what a
  VTEP knows is exactly what the sessions can carry), `FaultContained`,
  `ShutPeerMeansOutage`, `Recovers`.
- Fault tests: `TestsRestore`, `LeaksRecorded` (what a test leaves broken and a small
  ping notices is recorded as not recovered), `OutageOfThisFault` (a test
  does not take an older outage for its own).

## 6. Disagreements between code and documentation

Shown by a run:

- `torn_render`: destroy compares RUN_ID in topology.env, if there is one, but
  takes the hosts from topology.json. In the run, create of run 1 is killed after
  a clone, a checkout wipes the artifacts, and a second create of run 1 stops
  between the two writes; a destroy of run 2 then finds no topology.env, goes by
  run 1's topology.json and removes run 1's VM.
- `topology_vnis`: the EVPN check expects every VTEP to report the VNIs of all
  segments, also of those it has no part in and the role therefore does not
  configure.
- `faults_mtu`: when the command that restores an MTU fails, the test records
  restored and recovered, since its ping fits the reduced MTU.

Met while modelling; the models contain them, and the properties above are
stated so that they hold beside them:

- `qm destroy` failures are ignored, and the VNets are deleted under the VM that
  still exists, where docs/networking.md:60 says after.
- destroy without artifacts reports completion and leaves zone and VNets; so
  does one with a topology.json but an absent or empty topology.env, unless
  NETWORK_MODE is in its environment (pve-destroy-run.sh:153).
- wait-ssh takes an address that topology.json has when anything answers SSH at
  it (pve-wait-ssh.sh:94), which may by then be another VM.
- Run ids that agree modulo 1000000 share SDN names: a sweep that deletes one
  run deletes the SDN of the other.
- A session that `restore()` failed to bring up again goes unnoticed when another
  reflector makes up for it, as an MTU does.
- A JSON file truncated by a killed writer blocks every later create until it
  is deleted by hand.
- With two reflectors a VTEP that shuts one session gets its routes through the
  other reflector; README.md:244 of the repository expects traffic to fail, and
  `expected_impact` defaults to an outage.
- Stale cleanup knows VM and network names of the reference topology only
  (README.md:586). What it leaves of a run's SDN, after a failure or a kill, no
  later sweep finds, for lack of a VM to find the run by. The age threshold may
  fall between two VMs of one run.
- Between a name or age check and `qm destroy` lies a `qm stop`; a VMID given
  away in between is destroyed with its new owner's VM
  (docs/proxmox-runner-security.md:22). This needs two scripts beside each other.
  `OwnershipButForStale` names this case and rules out every other.
- The default VLAN of `vlan_mismatch` may be another member's subinterface, which
  the injection flushes and the restoration deletes. A fault between two
  members of one VTEP is accepted and tests nothing.
- Without a RUN_ID in the environment a scenario that fails may be recorded in the
  document of a run that was not tested. Results of fault tests are appended
  to those of earlier sessions.

## 7. Plan

1. The networks and NICs of render-topology.py: tokens, VLAN defaults, and the
   collision of legacy VLANs 500 runs apart.
2. `WaitSsh` composed with the VMIDs of `Lifecycle`: the guest agent of a VMID
   that is no longer the run's.
3. The window between name check and `qm destroy` in destroy itself, beside a
   stale-run cleanup.

## 8. Not modelled

- `pve-preflight.sh`, RPM validation, smoke tests, most topology checks: read-only
  queries and single assertions on command output.
- Packet captures: captures race their traffic by seconds, which a model
  without a clock cannot tell apart.
- `pve-collect-logs.sh`: read-only; its worker pool has the form of destroy's.
- Roles `kernel`, `pulsaros-vxlan`, `pulsaros-netstack` and the supporting ones: their
  state is the guest's packages, boot entries and PCI bindings, changed by
  external commands under conditions of the hardware.
- `analyze-artifacts-gemini.py`: reporting over collected files and a remote service.
- Within modelled parts: networks and NICs of render-topology.py (MAC and VLAN
  arithmetic, token substitution); the conditions that gate jobs of the
  workflow and keep a failed run; destroy's branch for environment files of
  older versions; dry runs.
