------------------------- MODULE StaleCleanupProofs -------------------------
(***************************************************************************)
(* What a sweep may destroy and what it leaves, for every set of runs,     *)
(* VMIDs and networks.  A list that was read once stays useful because an  *)
(* entry whose VMID changed hands since has a new configuration (Listed),  *)
(* and a run that was altogether stale stays so until somebody works on it *)
(* (Whole).                                                                *)
(***************************************************************************)
EXTENDS StaleCleanup, TLAPS

(* An old VMID still belongs to the run it was listed under; and a target  *)
(* nobody has worked on since its age was read is still old.               *)
Names(e) == e.vmid \in old => owner[e.vmid] = e.run

Listed ==
    /\ \A e \in listing : Names(e)
    /\ pc \in {"stop", "destroy"} => Names(target)
    /\ pc \in {"stop", "destroy"} /\ ~moved => target.vmid \in old

(* What is old and listed under a name is still to come, or was destroyed. *)
Ahead(v) ==
    \/ \E e \in listing : e.vmid = v
    \/ pc \in {"stop", "destroy"} /\ target.vmid = v

Swept ==
    /\ pc = "idle" => ~failed /\ listing = {} /\ whole = {}
    /\ pc # "idle" /\ ~failed =>
           \A v \in Recognised : owner[v] \in Runs /\ v \in old => Ahead(v)

Whole == \A r \in whole : actor \notin Sharing(r) /\ VmsOf(r) \subseteq Recognised \cap old

(* A run that was altogether stale has VMs until it counts as stale, and   *)
(* then an SDN until that is deleted and applied.                          *)
Unlinked(r) == Objects(r) \cap sdn = {}

Gone ==
    ~failed => \A r \in whole :
        /\ pc \in {"sweep", "stop", "destroy"} => VmsOf(r) # {} \/ r \in stale
        /\ KnownNets = Networks =>
               /\ pc = "sdn" => r \in stale \/ Unlinked(r)
               /\ pc \in {"apply", "done"} => Unlinked(r)
               /\ pc = "done" => Objects(r) \cap live = {}

-----------------------------------------------------------------------------
(* What the four kinds of steps on a VMID do to it.                        *)
LEMMA HandsStep ==
    ASSUME TypeOK, NEW v \in Vmids, ChangeHands(v)
    PROVE  /\ owner' \in [Vmids -> Runs \cup {Free, Other}]
           /\ \A u \in Vmids \ {v} : owner'[u] = owner[u]
           /\ (owner'[v] = actor /\ actor \in Runs) \/ owner'[v] \in {Free, Other}
           /\ old' = old \ {v} /\ UNCHANGED <<actor, sdn, live, scriptVars, whole>>
           /\ moved' = (moved \/ (target # None /\ target.vmid = v))
<1> USE DEF TypeOK, ChangeHands, Rewritten
<1>1. CASE Users!Claim(v)
  BY <1>1 DEF Users!Claim
<1>2. CASE Users!Release(v)
  BY <1>2 DEF Users!Release
<1>3. CASE Users!OtherTakes(v)
  BY <1>3 DEF Users!OtherTakes
<1>4. CASE Users!OtherLeaves(v)
  BY <1>4 DEF Users!OtherLeaves
<1>5. QED BY <1>1, <1>2, <1>3, <1>4

LEMMA TypeInit == Init => TypeOK
BY CleanupAssumption DEF Init, TypeOK, Users!Init

LEMMA TypeStep == TypeOK /\ [Next]_vars => TypeOK'
<1> SUFFICES ASSUME TypeOK, [Next]_vars PROVE TypeOK'
  OBVIOUS
<1> USE CleanupAssumption DEF scriptVars
<1>1. ASSUME NEW r \in Runs, BeginRun(r) PROVE TypeOK'
  BY <1>1 DEF TypeOK, BeginRun, Users!Begin
<1>2. CASE FinishRun
  BY <1>2 DEF TypeOK, FinishRun, Users!Finish
<1>3. ASSUME NEW v \in Vmids, ChangeHands(v) PROVE TypeOK'
  <2>1. /\ owner' \in [Vmids -> Runs \cup {Free, Other}]
        /\ \A u \in Vmids \ {v} : owner'[u] = owner[u]
        /\ old' = old \ {v} /\ UNCHANGED <<actor, sdn, live, scriptVars, whole>>
        /\ moved' = (moved \/ (target # None /\ target.vmid = v))
    BY <1>3, HandsStep
  <2>2. old' \subseteq {u \in Vmids : owner'[u] # Free}
    BY <2>1 DEF TypeOK
  <2>3. QED BY <2>1, <2>2 DEF TypeOK
<1>4. ASSUME NEW v \in Vmids, SetNics(v) \/ Age(v) PROVE TypeOK'
  <2>1. CASE SetNics(v)
    <3>1. moved' \in BOOLEAN /\ (moved' => target # None)
      BY <2>1 DEF TypeOK, SetNics, Rewritten
    <3>2. UNCHANGED <<owner, actor, sdn, live, scriptVars, whole>> /\ old' \subseteq old
      BY <2>1 DEF SetNics, Rewritten
    <3>3. QED BY <3>1, <3>2 DEF TypeOK
  <2>2. CASE Age(v)
    BY <2>2 DEF TypeOK, Age
  <2>3. QED BY <1>4, <2>1, <2>2
<1>5. CASE ChangeSdn
  BY <1>5 DEF TypeOK, ChangeSdn
<1>6. CASE Start
  BY <1>6 DEF TypeOK, Start
<1>7. ASSUME NEW e \in listing, SkipVm(e) \/ PickVm(e) PROVE TypeOK'
  BY <1>7 DEF TypeOK, SkipVm, PickVm
<1>8. CASE StopVm \/ EndSweep
  BY <1>8 DEF TypeOK, StopVm, EndSweep
<1>9. CASE DestroyVm
  BY <1>9 DEF TypeOK, DestroyVm
<1>10. ASSUME NEW r \in stale, DeleteSdnForRun(r) PROVE TypeOK'
  <2>1. sdn' \subseteq sdn
    BY <1>10 DEF DeleteSdnForRun
  <2>2. failed' \in BOOLEAN
    BY <1>10 DEF DeleteSdnForRun
  <2>3. QED BY <1>10, <2>1, <2>2 DEF DeleteSdnForRun, TypeOK
<1>11. CASE Apply
  BY <1>11 DEF TypeOK, Apply
<1>12. CASE End
  BY <1>12 DEF TypeOK, End
<1>13. CASE UNCHANGED vars
  BY <1>13 DEF TypeOK, vars
<1>14. QED
  BY <1>1, <1>2, <1>3, <1>4, <1>5, <1>6, <1>7, <1>8, <1>9, <1>10, <1>11, <1>12, <1>13
     DEF Next, UserStep, ScriptStep
(* Every reachable state has its types, and the phases of the script.      *)
THEOREM TypesHold == Spec => []TypeOK
BY TypeInit, TypeStep, PTL DEF Spec
-----------------------------------------------------------------------------
(* The list stays true of what is old.                                     *)
LEMMA ListedStep == TypeOK /\ Listed /\ [Next]_vars => Listed'
<1> SUFFICES ASSUME TypeOK, Listed, [Next]_vars PROVE Listed'
  OBVIOUS
<1> USE DEF Listed, Names, scriptVars
<1>1. ASSUME NEW r \in Runs, BeginRun(r) PROVE Listed'
  BY <1>1 DEF BeginRun, Users!Begin
<1>2. CASE FinishRun
  BY <1>2 DEF FinishRun, Users!Finish
<1>3. ASSUME NEW v \in Vmids, ChangeHands(v) PROVE Listed'
  <2>1. /\ \A u \in Vmids \ {v} : owner'[u] = owner[u]
        /\ old' = old \ {v} /\ UNCHANGED <<scriptVars>>
        /\ moved' = (moved \/ (target # None /\ target.vmid = v))
    BY <1>3, HandsStep
  <2>2. old \subseteq Vmids
    BY DEF TypeOK
  <2>3. target # None <=> pc \in {"stop", "destroy"}
    BY DEF TypeOK
  <2>4. QED BY <2>1, <2>2, <2>3
<1>4. ASSUME NEW v \in Vmids, SetNics(v) PROVE Listed'
  BY <1>4 DEF SetNics, Rewritten, TypeOK
<1>5. ASSUME NEW v \in Vmids, Age(v) PROVE Listed'
  BY <1>5 DEF Age, TypeOK
<1>6. CASE ChangeSdn
  BY <1>6 DEF ChangeSdn
<1>7. CASE Start
  BY <1>7 DEF Start
<1>8. ASSUME NEW e \in listing, SkipVm(e) PROVE Listed'
  BY <1>8 DEF SkipVm
<1>9. ASSUME NEW e \in listing, PickVm(e) PROVE Listed'
  BY <1>9 DEF PickVm, Stale
<1>10. CASE StopVm \/ EndSweep
  BY <1>10 DEF StopVm, EndSweep
<1>11. CASE DestroyVm
  <2>1. ASSUME NEW e \in listing PROVE Names(e)'
    BY <1>11 DEF DestroyVm, TypeOK
  <2>2. QED BY <1>11, <2>1 DEF DestroyVm
<1>12. ASSUME NEW r \in stale, DeleteSdnForRun(r) PROVE Listed'
  BY <1>12 DEF DeleteSdnForRun
<1>13. CASE Apply \/ End
  BY <1>13 DEF Apply, End
<1>14. CASE UNCHANGED vars
  BY <1>14 DEF vars
<1>15. QED
  BY <1>1, <1>2, <1>3, <1>4, <1>5, <1>6, <1>7, <1>8, <1>9, <1>10, <1>11, <1>12, <1>13, <1>14
     DEF Next, UserStep, ScriptStep

(* While a step is one of the users', it is a step of Ownership.           *)
LEMMA UserStepAllowed ==
    ASSUME TypeOK, UserStep
    PROVE  Users!Next \/ UNCHANGED <<owner, actor>>
<1>1. CASE (\E r \in Runs : BeginRun(r)) \/ FinishRun
  BY <1>1 DEF BeginRun, FinishRun, Users!Next
<1>2. ASSUME NEW v \in Vmids, ChangeHands(v) PROVE Users!Next
  BY <1>2 DEF ChangeHands, Users!Next
<1>3. ASSUME NEW v \in Vmids, SetNics(v) \/ Age(v) PROVE UNCHANGED <<owner, actor>>
  BY <1>3 DEF SetNics, Age
<1>4. CASE ChangeSdn
  BY <1>4 DEF ChangeSdn
<1>5. QED BY <1>1, <1>2, <1>3, <1>4 DEF UserStep

(* Whatever others do while its list ages, the script destroys an old VM   *)
(* of the run it is listed under, or one that somebody has worked on since *)
(* the script read its age; and all else happens as Ownership promises.    *)
THEOREM OnlyStaleAreReaped == Spec => OwnershipButForStale
<1>1. Init => Listed
  BY DEF Init, Listed
<1>2. TypeOK /\ Listed /\ [Next]_vars =>
          [Users!Next \/ \E v \in Vmids : Reap(v)]_<<owner, actor>>
  <2> SUFFICES ASSUME TypeOK, Listed, [Next]_vars
               PROVE  \/ Users!Next \/ \E v \in Vmids : Reap(v)
                      \/ UNCHANGED <<owner, actor>>
    OBVIOUS
  <2>1. CASE UserStep
    BY <2>1, UserStepAllowed
  <2>2. CASE DestroyVm
    <3>1. CASE owner' = [owner EXCEPT ![target.vmid] = Free]
      <4>1. target # None /\ target.vmid \in Vmids
        BY <2>2, CleanupAssumption DEF DestroyVm, TypeOK
      <4>2. moved \/ (target.vmid \in old /\ owner[target.vmid] = target.run)
        BY <2>2 DEF DestroyVm, Listed, Names
      <4>3. Reap(target.vmid)
        BY <2>2, <3>1, <4>1, <4>2 DEF DestroyVm, Reap
      <4>4. QED BY <4>1, <4>3
    <3>2. CASE UNCHANGED owner
      BY <2>2, <3>2 DEF DestroyVm
    <3>3. QED BY <2>2, <3>1, <3>2 DEF DestroyVm
  <2>3. CASE Start \/ (ScriptStep /\ ~DestroyVm) \/ UNCHANGED vars
    BY <2>3 DEF Start, ScriptStep, SkipVm, PickVm, StopVm, EndSweep, DeleteSdnForRun, Apply,
       End, vars
  <2>4. QED BY <2>1, <2>2, <2>3 DEF Next
<1>3. Spec => [](TypeOK /\ Listed)
  BY <1>1, TypeInit, TypeStep, ListedStep, PTL DEF Spec
<1>4. QED BY <1>2, <1>3, PTL DEF Spec, OwnershipButForStale
-----------------------------------------------------------------------------
(* What a sweep without failures has passed is no longer old.              *)
LEMMA SweptStep == TypeOK /\ Swept /\ [Next]_vars => Swept'
<1> SUFFICES ASSUME TypeOK, Swept, [Next]_vars PROVE Swept'
  OBVIOUS
<1> USE DEF Swept, Ahead, scriptVars
<1>1. ASSUME NEW r \in Runs, BeginRun(r) PROVE Swept'
  BY <1>1 DEF BeginRun, Users!Begin
<1>2. CASE FinishRun
  BY <1>2 DEF FinishRun, Users!Finish
<1>3. ASSUME NEW v \in Vmids, ChangeHands(v) PROVE Swept'
  <2>1. /\ \A u \in Vmids \ {v} : owner'[u] = owner[u]
        /\ old' = old \ {v} /\ UNCHANGED <<scriptVars, whole>>
    BY <1>3, HandsStep
  <2>2. Recognised \subseteq Vmids
    BY CleanupAssumption
  <2>3. QED BY <2>1, <2>2
<1>4. ASSUME NEW v \in Vmids, SetNics(v) PROVE Swept'
  BY <1>4 DEF SetNics, Rewritten
<1>5. ASSUME NEW v \in Vmids, Age(v) PROVE Swept'
  BY <1>5 DEF Age
<1>6. CASE ChangeSdn
  BY <1>6 DEF ChangeSdn
<1>7. CASE Start
  <2>1. ASSUME NEW v \in Recognised, owner[v] \in Runs PROVE \E e \in listing' : e.vmid = v
    <3>1. [vmid |-> v, run |-> owner[v]] \in listing'
      BY <1>7, <2>1 DEF Start
    <3>2. QED BY <3>1
  <2>2. QED BY <1>7, <2>1 DEF Start
<1>8. ASSUME NEW e \in listing, SkipVm(e) PROVE Swept'
  BY <1>8, CleanupAssumption DEF SkipVm, Stale
<1>9. ASSUME NEW e \in listing, PickVm(e) PROVE Swept'
  BY <1>9 DEF PickVm
<1>10. CASE StopVm \/ EndSweep
  BY <1>10 DEF StopVm, EndSweep
<1>11. CASE DestroyVm
  <2>1. CASE failed'
    BY <1>11, <2>1 DEF DestroyVm
  <2>2. CASE ~failed'
    <3>1. old' = old \ {target.vmid} /\ owner' = [owner EXCEPT ![target.vmid] = Free] /\ ~failed
      BY <1>11, <2>2 DEF DestroyVm
    <3>2. ASSUME NEW v \in Recognised, owner'[v] \in Runs, v \in old'
          PROVE  \E e \in listing : e.vmid = v
      <4>1. v # target.vmid /\ owner[v] \in Runs /\ v \in old
        BY <3>1, <3>2, CleanupAssumption DEF TypeOK
      <4>2. QED BY <1>11, <3>1, <4>1 DEF DestroyVm
    <3>3. QED BY <1>11, <3>2 DEF DestroyVm
  <2>3. QED BY <2>1, <2>2
<1>12. ASSUME NEW r \in stale, DeleteSdnForRun(r) PROVE Swept'
  <2>1. ~failed' => ~failed
    BY <1>12 DEF DeleteSdnForRun
  <2>2. UNCHANGED <<owner, old, listing, target, whole>> /\ pc = "sdn" /\ pc' \in {"sdn", "apply"}
    BY <1>12 DEF DeleteSdnForRun
  <2>3. QED BY <2>1, <2>2
<1>13. CASE Apply
  BY <1>13 DEF Apply
<1>14. CASE End
  BY <1>14 DEF End
<1>15. CASE UNCHANGED vars
  BY <1>15 DEF vars
<1>16. QED
  BY <1>1, <1>2, <1>3, <1>4, <1>5, <1>6, <1>7, <1>8, <1>9, <1>10, <1>11, <1>12, <1>13, <1>14,
     <1>15 DEF Next, UserStep, ScriptStep

(* A sweep in which nothing failed leaves no old VM of a recognised name.  *)
THEOREM SweepIsComplete == Spec => []NothingStaleLeft
<1>1. Init => Swept
  BY DEF Init, Swept
<1>2. TypeOK /\ Swept => NothingStaleLeft
  BY DEF TypeOK, Swept, Ahead, NothingStaleLeft
<1>3. Spec => [](TypeOK /\ Swept)
  BY <1>1, TypeInit, TypeStep, SweptStep, PTL DEF Spec
<1>4. QED BY <1>2, <1>3, PTL
-----------------------------------------------------------------------------
(* Nobody but the sweep changes a run that was altogether stale.           *)
LEMMA WholeStep == TypeOK /\ Whole /\ [Next]_vars => Whole'
<1> SUFFICES ASSUME TypeOK, Whole, [Next]_vars PROVE Whole'
  OBVIOUS
<1> USE CleanupAssumption DEF Whole, VmsOf, Sharing, scriptVars
<1>1. ASSUME NEW r \in Runs, BeginRun(r) PROVE Whole'
  <2>1. /\ whole' = whole \ Sharing(r) /\ actor' = r
        /\ UNCHANGED <<owner, old>>
    BY <1>1 DEF BeginRun, Users!Begin
  <2>2. ASSUME NEW q \in whole' PROVE r \notin Sharing(q)
    BY <2>1, <2>2 DEF TypeOK
  <2>3. QED BY <2>1, <2>2
<1>2. CASE FinishRun
  BY <1>2 DEF FinishRun, Users!Finish
<1>3. ASSUME NEW v \in Vmids, ChangeHands(v) PROVE Whole'
  <2>1. /\ \A u \in Vmids \ {v} : owner'[u] = owner[u]
        /\ (owner'[v] = actor /\ actor \in Runs) \/ owner'[v] \in {Free, Other}
        /\ old' = old \ {v} /\ UNCHANGED <<actor, scriptVars, whole>>
    BY <1>3, HandsStep
  <2>2. ASSUME NEW r \in whole PROVE VmsOf(r)' \subseteq Recognised \cap old'
    <3>1. owner'[v] # r
      BY <2>1, <2>2 DEF TypeOK
    <3>2. QED BY <2>1, <2>2, <3>1
  <2>3. QED BY <2>1, <2>2
<1>4. ASSUME NEW v \in Vmids, SetNics(v) PROVE Whole'
  <2>1. /\ owner[v] = actor /\ actor \in Runs
        /\ old' = old \ {v} /\ UNCHANGED <<owner, actor, whole>>
    BY <1>4 DEF SetNics, Rewritten
  <2>2. ASSUME NEW r \in whole PROVE VmsOf(r)' \subseteq Recognised \cap old'
    <3>1. actor # r
      BY <2>1
    <3>2. QED BY <2>1, <3>1
  <2>3. QED BY <2>1, <2>2
<1>5. ASSUME NEW v \in Vmids, Age(v) PROVE Whole'
  <2>1. UNCHANGED <<owner, actor, whole>> /\ old \subseteq old'
    BY <1>5 DEF Age
  <2>2. QED BY <2>1
<1>6. CASE ChangeSdn
  BY <1>6 DEF ChangeSdn
<1>7. CASE Start
  BY <1>7 DEF Start
<1>8. ASSUME NEW e \in listing, SkipVm(e) \/ PickVm(e) PROVE Whole'
  BY <1>8 DEF SkipVm, PickVm
<1>9. CASE StopVm \/ EndSweep
  BY <1>9 DEF StopVm, EndSweep
<1>10. CASE DestroyVm
  BY <1>10 DEF DestroyVm, TypeOK
<1>11. ASSUME NEW r \in stale, DeleteSdnForRun(r) PROVE Whole'
  BY <1>11 DEF DeleteSdnForRun
<1>12. CASE Apply \/ End
  BY <1>12 DEF Apply, End
<1>13. CASE UNCHANGED vars
  BY <1>13 DEF vars
<1>14. QED
  BY <1>1, <1>2, <1>3, <1>4, <1>5, <1>6, <1>7, <1>8, <1>9, <1>10, <1>11, <1>12, <1>13
     DEF Next, UserStep, ScriptStep

(* Past a sweep without failures, such a run has no VM left.               *)
LEMMA WholeSwept ==
    ASSUME TypeOK, Swept, Whole, NEW r \in whole, listing = {},
           pc \notin {"idle", "stop", "destroy"}, ~failed
    PROVE  VmsOf(r) = {}
<1>1. SUFFICES ASSUME NEW v \in VmsOf(r) PROVE FALSE
  OBVIOUS
<1>2. v \in Recognised /\ v \in old /\ owner[v] \in Runs
  BY DEF Whole, VmsOf, TypeOK
<1>3. QED BY <1>2 DEF Swept, Ahead

(* Where nothing failed, the SDN of such a run goes after its VMs.         *)
THEOREM NetworksGoLast == Spec => NetworkAfterVms
<1>1. Init => Swept /\ Whole
  BY DEF Init, Swept, Whole
<1>2. TypeOK /\ Swept /\ Whole /\ [Next]_vars =>
          [pc = "sdn" => \A r \in whole :
               Objects(r) \cap (sdn \ sdn') # {} /\ ~failed => VmsOf(r) = {}]_vars
  BY WholeSwept DEF TypeOK
<1>3. Spec => [](TypeOK /\ Swept /\ Whole)
  BY <1>1, TypeInit, TypeStep, SweptStep, WholeStep, PTL DEF Spec
<1>4. QED BY <1>2, <1>3, PTL DEF Spec, NetworkAfterVms
-----------------------------------------------------------------------------
(* Objects of runs with different suffixes are different ones.             *)
LEMMA ObjectsDiffer ==
    ASSUME NEW r, NEW q, Suffix[r] # Suffix[q] PROVE Objects(r) \cap Objects(q) = {}
BY DEF Objects

LEMMA GoneStep ==
    TypeOK /\ Listed /\ Swept /\ Whole /\ Gone /\ [Next]_vars => Gone'
<1> SUFFICES ASSUME TypeOK, Listed, Swept, Whole, Gone, [Next]_vars, ~failed',
                    NEW r \in whole'
             PROVE  /\ pc' \in {"sweep", "stop", "destroy"} => VmsOf(r)' # {} \/ r \in stale'
                    /\ KnownNets = Networks =>
                         /\ pc' = "sdn" => r \in stale' \/ Unlinked(r)'
                         /\ pc' \in {"apply", "done"} => Unlinked(r)'
                         /\ pc' = "done" => Objects(r) \cap live' = {}
  BY DEF Gone
<1> DEFINE Goal == /\ pc' \in {"sweep", "stop", "destroy"} => VmsOf(r)' # {} \/ r \in stale'
                   /\ KnownNets = Networks =>
                        /\ pc' = "sdn" => r \in stale' \/ Unlinked(r)'
                        /\ pc' \in {"apply", "done"} => Unlinked(r)'
                        /\ pc' = "done" => Objects(r) \cap live' = {}
<1> USE DEF Gone, Unlinked, scriptVars
<1>1. ASSUME NEW q \in Runs, BeginRun(q) PROVE Goal
  BY <1>1 DEF BeginRun, Users!Begin, VmsOf
<1>2. CASE FinishRun
  BY <1>2 DEF FinishRun, Users!Finish, VmsOf
<1>3. ASSUME NEW v \in Vmids, ChangeHands(v) PROVE Goal
  <2>1. r \in whole /\ UNCHANGED <<sdn, live, scriptVars>>
    BY <1>3, HandsStep
  <2>2. ASSUME VmsOf(r) # {} PROVE VmsOf(r)' # {}
    <3>1. actor # r
      BY <2>1 DEF Whole, Sharing, TypeOK
    <3>2. owner[v] # r
      BY <1>3, <2>1, <3>1, CleanupAssumption DEF ChangeHands, Users!Claim,
         Users!Release, Users!OtherTakes, Users!OtherLeaves, TypeOK
    <3>3. QED BY <1>3, <2>2, <3>2, HandsStep DEF VmsOf
  <2>3. QED BY <2>1, <2>2
<1>4. ASSUME NEW v \in Vmids, SetNics(v) \/ Age(v) PROVE Goal
  BY <1>4 DEF SetNics, Age, Rewritten, VmsOf
<1>5. CASE ChangeSdn
  <2>1. r \in whole /\ Suffix[actor] # Suffix[r] /\ live' = sdn' /\ UNCHANGED <<owner, scriptVars>>
    BY <1>5 DEF ChangeSdn, Whole, Sharing
  <2>2. Objects(r) \cap sdn' = Objects(r) \cap sdn
    BY <1>5, <2>1, ObjectsDiffer DEF ChangeSdn
  <2>3. QED BY <2>1, <2>2 DEF VmsOf
<1>6. CASE Start
  BY <1>6 DEF Start, VmsOf
<1>7. ASSUME NEW e \in listing, SkipVm(e) \/ PickVm(e) PROVE Goal
  BY <1>7 DEF SkipVm, PickVm, VmsOf
<1>8. CASE StopVm
  BY <1>8 DEF StopVm, VmsOf
<1>9. CASE DestroyVm
  <2>1. r \in whole /\ pc' = "sweep" /\ ~failed /\ pc = "destroy" /\ stale' = stale \cup {target.run}
        /\ owner' = [owner EXCEPT ![target.vmid] = Free]
    BY <1>9 DEF DestroyVm
  <2>2. CASE r \in stale
    BY <2>1, <2>2
  <2>3. CASE VmsOf(r) # {}
    <3>1. CASE owner[target.vmid] = r /\ target.vmid \in Vmids
      <4>1. target.vmid \in old
        BY <2>1, <3>1 DEF Whole, VmsOf
      <4>2. target.run = r
        BY <2>1, <3>1, <4>1 DEF Listed, Names
      <4>3. QED BY <2>1, <4>2
    <3>2. CASE ~(owner[target.vmid] = r /\ target.vmid \in Vmids)
      BY <2>1, <2>3, <3>2 DEF VmsOf, TypeOK
    <3>3. QED BY <3>1, <3>2
  <2>4. QED BY <2>1, <2>2, <2>3
<1>10. CASE EndSweep
  <2>1. r \in whole /\ VmsOf(r) = {}
    BY <1>10, WholeSwept DEF EndSweep
  <2>2. r \in stale
    BY <1>10, <2>1 DEF EndSweep
  <2>3. QED BY <1>10, <2>2 DEF EndSweep
<1>11. ASSUME NEW q \in stale, DeleteSdnForRun(q) PROVE Goal
  <2>1. r \in whole /\ stale' = stale \ {q} /\ sdn' \subseteq sdn /\ ~failed /\ pc = "sdn"
        /\ pc' = (IF stale' = {} THEN "apply" ELSE "sdn")
    BY <1>11 DEF DeleteSdnForRun
  <2>2. ASSUME KnownNets = Networks PROVE Objects(q) \cap sdn' = {}
    <3>1. Asked(q) = Objects(q)
      BY <2>2 DEF Asked, Objects
    <3>2. sdn' = (sdn \ Objects(q)) \cup {} \cup {}
      BY <1>11, <3>1 DEF DeleteSdnForRun
    <3>3. QED BY <3>2
  <2>3. QED BY <2>1, <2>2
<1>12. CASE Apply
  BY <1>12 DEF Apply
<1>13. CASE End
  BY <1>13 DEF End
<1>14. CASE UNCHANGED vars
  BY <1>14 DEF vars, VmsOf
<1>15. QED
  BY <1>1, <1>2, <1>3, <1>4, <1>5, <1>6, <1>7, <1>8, <1>9, <1>10, <1>11, <1>12, <1>13, <1>14
     DEF Next, UserStep, ScriptStep

(* A run of the reference topology that was altogether stale is gone, its  *)
(* SDN included, when a sweep without failures is done.                    *)
THEOREM StaleRunsGo == Spec => []StaleRunGone
<1>1. Init => Listed /\ Swept /\ Whole /\ Gone
  BY DEF Init, Listed, Swept, Whole, Gone
<1>2. TypeOK /\ Swept /\ Whole /\ Gone => StaleRunGone
  BY WholeSwept DEF TypeOK, Gone, Unlinked, StaleRunGone
<1>3. Spec => [](TypeOK /\ Listed /\ Swept /\ Whole /\ Gone)
  BY <1>1, TypeInit, TypeStep, ListedStep, SweptStep, WholeStep, GoneStep, PTL DEF Spec
<1>4. QED BY <1>2, <1>3, PTL
=============================================================================
