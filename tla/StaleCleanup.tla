---------------------------- MODULE StaleCleanup ----------------------------
(***************************************************************************)
(* scripts/cleanup-stale-runs.sh --yes, which knows a run by the names of  *)
(* its VMs only and works from a list it read once, next to the create and *)
(* destroy scripts and the other users of the host.  Those are steps of    *)
(* Ownership, the abstract specification that Lifecycle implements; here   *)
(* they also change the age of VM configurations and the SDN.              *)
(***************************************************************************)
EXTENDS Naturals, FiniteSets

CONSTANTS
    Runs, Vmids, Free, Other, Nobody,  \* of Ownership
    Recognised,   \* the VMIDs of hosts whose names the script knows
    Networks,     \* the networks of the topology
    KnownNets,    \* those whose VNet names the script knows
    Suffix,       \* run -> run % 1000000, which the names of its SDN objects have
    PveErrors,    \* whether qm and pvesh may fail in the script
    None

ASSUME CleanupAssumption ==
    /\ Recognised \subseteq Vmids /\ KnownNets \subseteq Networks
    /\ PveErrors \in BOOLEAN
    /\ {Free, Other, Nobody, None} \cap Runs = {}
    /\ Free # Other /\ "zone" \notin Networks
    /\ None \notin [vmid : Recognised, run : Runs]

VARIABLES
    owner, actor,  \* of Ownership
    old,      \* the VMIDs whose configuration was last written before now - age
    sdn,      \* the SDN configuration: <<suffix, network>> and <<suffix, "zone">>
    live,     \* what of it the last apply made effective
    pc,       \* where the script is
    listing,  \* what is left of the VMs it read from qm list: [vmid, run]
    target,   \* the entry it is deleting
    stale,    \* STALE_RUN_IDS; while it deletes SDN objects, those left
    failed,   \* history: a command of this sweep failed
    whole,    \* history: the runs that were altogether stale when the sweep
              \* began and whose suffix no script has worked for since
    moved     \* history: somebody has worked on the target's VMID since the
              \* script checked its age

scriptVars == <<pc, listing, target, stale, failed>>
vars       == <<owner, actor, old, sdn, live, scriptVars, whole, moved>>

Users == INSTANCE Ownership

Objects(r) == {<<Suffix[r], o>> : o \in Networks \cup {"zone"}}
Sharing(r) == {q \in Runs : Suffix[q] = Suffix[r]}
VmsOf(r)   == {v \in Vmids : owner[v] = r}

Init ==
    /\ Users!Init
    /\ old = {} /\ sdn = {} /\ live = {}
    /\ pc = "idle" /\ listing = {} /\ target = None /\ stale = {}
    /\ failed = FALSE /\ whole = {} /\ moved = FALSE
-----------------------------------------------------------------------------
(* The create and destroy scripts and the other users                      *)

BeginRun(r) ==
    /\ Users!Begin(r)
    /\ whole' = whole \ Sharing(r)
    /\ UNCHANGED <<old, sdn, live, scriptVars, moved>>

FinishRun == Users!Finish /\ UNCHANGED <<old, sdn, live, scriptVars, whole, moved>>

(* Cloning, removing and restoring a VM write or remove its configuration. *)
Rewritten(v) ==
    /\ old' = old \ {v}
    /\ moved' = (moved \/ (target # None /\ target.vmid = v))
    /\ UNCHANGED <<sdn, live, scriptVars, whole>>

ChangeHands(v) ==
    /\ Users!Claim(v) \/ Users!Release(v) \/ Users!OtherTakes(v) \/ Users!OtherLeaves(v)
    /\ Rewritten(v)

(* qm set of a run's script, on a VM it keeps: create's NIC step.          *)
SetNics(v) ==
    /\ actor \in Runs /\ owner[v] = actor /\ v \in old
    /\ Rewritten(v) /\ UNCHANGED <<owner, actor>>

(* create_sdn_qinq once the VMs are cloned; destroy after its VMs.         *)
ChangeSdn ==
    /\ actor \in Runs
    /\ sdn' = IF VmsOf(actor) # {} THEN sdn \cup Objects(actor) ELSE sdn \ Objects(actor)
    /\ sdn' # sdn /\ live' = sdn'
    /\ UNCHANGED <<owner, actor, old, scriptVars, whole, moved>>

(* Ages are relative to the start of a sweep.  The threshold is longer than*)
(* a create or destroy takes.                                              *)
Age(v) ==
    /\ pc = "idle" /\ v \notin old /\ owner[v] \notin {Free, actor}
    /\ old' = old \cup {v}
    /\ UNCHANGED <<owner, actor, sdn, live, scriptVars, whole, moved>>
-----------------------------------------------------------------------------
(* The script                                                              *)

Start ==
    /\ pc = "idle"
    /\ pc' = "sweep"
    /\ listing' = {[vmid |-> v, run |-> owner[v]] :
                       v \in {u \in Recognised : owner[u] \in Runs}}
    /\ whole' = {r \in Runs : /\ actor \notin Sharing(r) /\ VmsOf(r) # {}
                              /\ VmsOf(r) \subseteq Recognised \cap old}
    /\ UNCHANGED <<owner, actor, old, sdn, live, target, stale, failed, moved>>

(* Mutant of Stale: the name in the list decides.                          *)
StaleByName(e) == owner[e.vmid] # Free

(* The configuration still exists, and it is old now.                      *)
Stale(e) == owner[e.vmid] # Free /\ e.vmid \in old

SkipVm(e) ==
    /\ pc = "sweep" /\ e \in listing /\ ~Stale(e)
    /\ listing' = listing \ {e}
    /\ UNCHANGED <<owner, actor, old, sdn, live, pc, target, stale, failed, whole, moved>>

PickVm(e) ==
    /\ pc = "sweep" /\ e \in listing /\ Stale(e)
    /\ pc' = "stop" /\ target' = e /\ listing' = listing \ {e}
    /\ UNCHANGED <<owner, actor, old, sdn, live, stale, failed, whole, moved>>

(* qm stop, whose failure is ignored, takes its time.                      *)
StopVm ==
    /\ pc = "stop" /\ pc' = "destroy"
    /\ UNCHANGED <<owner, actor, old, sdn, live, listing, target, stale, failed, whole, moved>>

(* Mutant of DestroyVm: the sweep ends at the first VM.                    *)
DestroyVmAndStop ==
    /\ pc = "destroy"
    /\ owner' = [owner EXCEPT ![target.vmid] = Free] /\ old' = old \ {target.vmid}
    /\ stale' = stale \cup {target.run}
    /\ pc' = "sweep" /\ target' = None /\ moved' = FALSE /\ listing' = {}
    /\ UNCHANGED <<actor, sdn, live, failed, whole>>

(* qm destroy of whatever has the VMID; the run counts as stale also when  *)
(* that fails.                                                             *)
DestroyVm ==
    /\ pc = "destroy"
    /\ \/ /\ owner' = [owner EXCEPT ![target.vmid] = Free]
          /\ old' = old \ {target.vmid}
          /\ UNCHANGED failed
       \/ PveErrors /\ failed' = TRUE /\ UNCHANGED <<owner, old>>
    /\ stale' = stale \cup {target.run}
    /\ pc' = "sweep" /\ target' = None /\ moved' = FALSE
    /\ UNCHANGED <<actor, sdn, live, listing, whole>>

(* Mutant of EndSweep: the apply before the deletions it is for.           *)
EndSweepWithApply ==
    /\ pc = "sweep" /\ listing = {}
    /\ pc' = IF stale = {} THEN "done" ELSE "apply"
    /\ UNCHANGED <<owner, actor, old, sdn, live, listing, target, stale, failed, whole, moved>>

EndSweep ==
    /\ pc = "sweep" /\ listing = {}
    /\ pc' = IF stale = {} THEN "done" ELSE "sdn"
    /\ UNCHANGED <<owner, actor, old, sdn, live, listing, target, stale, failed, whole, moved>>

(* Mutant of Asked: without the zone.                                      *)
AskedVnets(r) == {<<Suffix[r], n>> : n \in KnownNets}

(* What it asks Proxmox to delete.                                         *)
Asked(r) == {<<Suffix[r], o>> : o \in KnownNets \cup {"zone"}}

(* delete_sdn_for_run: the three VNets of the reference topology, then the *)
(* zone, which Proxmox keeps as long as a VNet is in it.                   *)
DeleteSdnForRun(r) ==
    /\ pc = "sdn" /\ r \in stale
    /\ \E refused \in SUBSET Asked(r) :
           LET left == (sdn \cap Objects(r)) \ (Asked(r) \ refused)
               zone == {<<Suffix[r], "zone">>}
           IN  /\ refused # {} => PveErrors
               /\ sdn' = (sdn \ Objects(r))
                         \cup left \cup IF left \subseteq zone THEN {} ELSE sdn \cap zone
               /\ failed' = (failed \/ refused # {})
    /\ stale' = stale \ {r}
    /\ pc' = IF stale' = {} THEN "apply" ELSE "sdn"
    /\ UNCHANGED <<owner, actor, old, live, listing, target, whole, moved>>

Apply ==
    /\ pc = "apply"
    /\ \/ live' = sdn /\ UNCHANGED failed
       \/ PveErrors /\ failed' = TRUE /\ UNCHANGED live
    /\ pc' = "done"
    /\ UNCHANGED <<owner, actor, old, sdn, listing, target, stale, whole, moved>>

(* The script is over, or killed anywhere.                                 *)
End ==
    /\ pc # "idle" /\ pc' = "idle"
    /\ listing' = {} /\ target' = None /\ stale' = {}
    /\ failed' = FALSE /\ whole' = {} /\ moved' = FALSE
    /\ UNCHANGED <<owner, actor, old, sdn, live>>

UserStep ==
    \/ \E r \in Runs : BeginRun(r)
    \/ FinishRun
    \/ \E v \in Vmids : ChangeHands(v) \/ SetNics(v) \/ Age(v)
    \/ ChangeSdn

ScriptStep ==
    \/ \E e \in listing : SkipVm(e) \/ PickVm(e)
    \/ StopVm \/ DestroyVm \/ EndSweep
    \/ \E r \in stale : DeleteSdnForRun(r)
    \/ Apply \/ End

Next == UserStep \/ Start \/ ScriptStep

Spec == Init /\ [][Next]_vars
-----------------------------------------------------------------------------
(* The types, and the phases of the script: a list while it sweeps, an     *)
(* entry while it deletes a VM, stale runs until their SDN is deleted.     *)
TypeOK ==
    /\ owner \in [Vmids -> Runs \cup {Free, Other}] /\ actor \in Runs \cup {Nobody}
    /\ old \subseteq {v \in Vmids : owner[v] # Free}
    /\ sdn \subseteq UNION {Objects(r) : r \in Runs}
    /\ live \subseteq UNION {Objects(r) : r \in Runs}
    /\ pc \in {"idle", "sweep", "stop", "destroy", "sdn", "apply", "done"}
    /\ listing \subseteq [vmid : Recognised, run : Runs]
    /\ target \in [vmid : Recognised, run : Runs] \cup {None}
    /\ stale \subseteq Runs /\ whole \subseteq Runs /\ {failed, moved} \subseteq BOOLEAN
    /\ target # None <=> pc \in {"stop", "destroy"}
    /\ moved => target # None
    /\ listing # {} => pc \in {"sweep", "stop", "destroy"}
    /\ pc \in {"apply", "done", "idle"} => stale = {}

(* qm destroy of an entry's VMID: if nobody has worked on it since its age *)
(* was read, it was stale then and belongs to the run it is listed under.  *)
Reap(v) ==
    /\ target # None /\ v = target.vmid
    /\ moved \/ (v \in old /\ owner[v] = target.run)
    /\ owner' = [owner EXCEPT ![v] = Free]
    /\ UNCHANGED actor

(* The host's VMIDs change hands as Ownership promises, but for VMs that   *)
(* the script destroys - and those were stale, of the run whose name is in *)
(* its list, although that list may be long out of date: a VMID given away *)
(* since has a new configuration.  Only what happens to the VMID between   *)
(* its age check and its qm destroy escapes the script.                    *)
OwnershipButForStale == [][Users!Next \/ \E v \in Vmids : Reap(v)]_<<owner, actor>>

(* A sweep in which nothing failed leaves no VM that a run has under a name*)
(* the script knows and that was stale when it began.                      *)
NothingStaleLeft ==
    pc \in {"sdn", "apply", "done"} /\ ~failed =>
        \A v \in Recognised : owner[v] \in Runs => v \notin old

(* docs/networking.md:60: SDN objects are deleted after the VMs.  True of a*)
(* run that was altogether stale and whose VMs were deleted without error; *)
(* the others, and those that share its suffix, lose their network under   *)
(* the VMs they keep.                                                      *)
NetworkAfterVms ==
    [][pc = "sdn" => \A r \in whole :
           Objects(r) \cap (sdn \ sdn') # {} /\ ~failed => VmsOf(r) = {}]_vars

(* ... and nothing of its SDN is left, configured or in effect, once the   *)
(* script is done, if its networks are those of the reference topology.    *)
StaleRunGone ==
    pc = "done" /\ ~failed /\ KnownNets = Networks =>
        \A r \in whole : VmsOf(r) = {} /\ Objects(r) \cap (sdn \cup live) = {}
=============================================================================
