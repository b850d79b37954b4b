----------------------------- MODULE Ownership ------------------------------
(***************************************************************************)
(* What the scripts promise about the VMIDs of a Proxmox host they share   *)
(* with other users: one run acts at a time, it takes only VMIDs that are  *)
(* free and gives back only its own.  VMs, names, files, workers and the   *)
(* places where a script may fail or be killed are left to Lifecycle.      *)
(***************************************************************************)
CONSTANTS
    Runs,   \* the runs that may act
    Vmids,  \* the VMIDs they and others may hold
    Free,   \* the owner of a VMID nobody holds
    Other,  \* the owner of a VMID that no run holds
    Nobody  \* the actor while no run acts

VARIABLES
    owner,  \* VMID -> the run that holds it, Other or Free
    actor   \* the run that acts

Init ==
    /\ owner \in [Vmids -> {Free, Other}]
    /\ actor = Nobody

Begin(r) == actor = Nobody /\ actor' = r /\ UNCHANGED owner

Finish == actor # Nobody /\ actor' = Nobody /\ UNCHANGED owner

Claim(v) ==
    /\ actor # Nobody /\ owner[v] = Free
    /\ owner' = [owner EXCEPT ![v] = actor]
    /\ UNCHANGED actor

Release(v) ==
    /\ owner[v] = actor
    /\ owner' = [owner EXCEPT ![v] = Free]
    /\ UNCHANGED actor

OtherTakes(v) ==
    /\ owner[v] = Free
    /\ owner' = [owner EXCEPT ![v] = Other]
    /\ UNCHANGED actor

OtherLeaves(v) ==
    /\ owner[v] = Other
    /\ owner' = [owner EXCEPT ![v] = Free]
    /\ UNCHANGED actor

Next ==
    \/ \E r \in Runs : Begin(r)
    \/ Finish
    \/ \E v \in Vmids : Claim(v) \/ Release(v) \/ OtherTakes(v) \/ OtherLeaves(v)

Spec == Init /\ [][Next]_<<owner, actor>>
=============================================================================
