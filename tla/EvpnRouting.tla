---------------------------- MODULE EvpnRouting ----------------------------
(***************************************************************************)
(* How the VTEPs of one topology learn each other's EVPN routes over the   *)
(* BGP sessions of EvpnPeering, while the frr-evpn role provisions them in *)
(* any order and the fault tests shut peers, restart FRR and take underlay *)
(* links down and up.                                                      *)
(*                                                                         *)
(* FRR itself is external.  It is modelled by the rules the configuration  *)
(* relies on: a session needs a neighbor statement on both sides; a route  *)
(* learned over iBGP is passed on by a route reflector only, to everybody  *)
(* if a client sent it and to clients otherwise, and never back to the VTEP*)
(* that originated it; a route received from its originator is preferred   *)
(* to a reflected one.  All routes a VTEP originates (one per VNI and MAC) *)
(* are one route here, named after it.                                     *)
(***************************************************************************)
EXTENDS EvpnPeering, Naturals

CONSTANT MaxFaults  \* bound on the number of injected faults

VARIABLES
    frr,       \* the VTEPs whose FRR runs with the role's frr.conf
    shut,      \* <<h, p>>: h has "neighbor p shutdown" in its running config
    link,      \* the VTEPs whose underlay interface is up
    sessions,  \* <<h, p>> and <<p, h>>: an established session of h and p
    rib,       \* per VTEP, <<o, q>>: o's route received from q
    faults     \* the number of faults injected so far

vars == <<frr, shut, link, sessions, rib, faults>>

Init ==
    /\ frr = {} /\ shut = {} /\ link = VTEPs
    /\ sessions = {} /\ rib = [h \in VTEPs |-> {}]
    /\ faults = 0

(* The VTEPs whose routes h has; those become its VXLAN forwarding entries.*)
Known(h) == {o \in VTEPs : \E q \in VTEPs : <<o, q>> \in rib[h]}

(* Mutants of Reflects: frr.conf without route-reflector-client lines; a   *)
(* client's route is passed on whoever it was received from.               *)
ReflectsNothing(q, o, h) == FALSE
ReflectsIndirectly(q, o, h) == Client(q, o) \/ Client(q, h)

(* Whether q passes a route of o on to h.                                  *)
Reflects(q, o, h) == (<<o, o>> \in rib[q] /\ Client(q, o)) \/ Client(q, h)

(* The routes q advertises to h: its own, and those it reflects.           *)
AdvertisedTo(q, h) == {q} \cup {o \in Known(q) \ {h} : Reflects(q, o, h)}

ReceivedFrom(q, h) == {o \in VTEPs : <<o, q>> \in rib[h]}

(* Mutant of Close: routes survive the session they came over.             *)
CloseKeepingRoutes(closed) ==
    sessions' = sessions \ closed /\ UNCHANGED rib

(* Closing sessions also drops the routes received over them.              *)
Close(closed) ==
    /\ sessions' = sessions \ closed
    /\ rib' = [h \in VTEPs |-> {e \in rib[h] : <<h, e[2]>> \notin closed}]

SessionsOf(h) == {s \in sessions : h \in {s[1], s[2]}}
Between(h, p) == {<<h, p>>, <<p, h>>}
-----------------------------------------------------------------------------
(* systemctl restart frr reads frr.conf again, in which no neighbor is     *)
(* shut down.                                                              *)
Restart(h) ==
    /\ shut' = {s \in shut : s[1] # h}
    /\ Close(SessionsOf(h))

(* The frr-evpn role on one host, at its own pace.                         *)
Provision(h) ==
    /\ h \notin frr
    /\ frr' = frr \cup {h}
    /\ Restart(h)
    /\ UNCHANGED <<link, faults>>

Establish(h, p) ==
    /\ {h, p} \subseteq frr \cap link
    /\ p \in Peers(h) /\ h \in Peers(p)
    /\ Between(h, p) \cap (shut \cup sessions) = {}
    /\ sessions' = sessions \cup Between(h, p)
    /\ UNCHANGED <<frr, shut, link, rib, faults>>

(* UPDATE messages of q bring h's routes from q up to date, all at once.   *)
Update(q, h) ==
    /\ <<h, q>> \in sessions /\ {h, q} \subseteq link
    /\ ReceivedFrom(q, h) # AdvertisedTo(q, h)
    /\ rib' = [rib EXCEPT ![h] = {e \in @ : e[2] # q} \cup (AdvertisedTo(q, h) \X {q})]
    /\ UNCHANGED <<frr, shut, link, sessions, faults>>

HoldTimeExpires(h, p) ==
    /\ <<h, p>> \in sessions /\ ~({h, p} \subseteq link)
    /\ Close(Between(h, p))
    /\ UNCHANGED <<frr, shut, link, faults>>
-----------------------------------------------------------------------------
(* The faults of test_fault_injection.py that concern the control plane,   *)
(* injected after provisioning, and their restore operations.              *)

Inject ==
    /\ frr = VTEPs
    /\ faults < MaxFaults
    /\ faults' = faults + 1

(* bgp_peer_shutdown needs the peer in the resolved control plane.         *)
ShutPeer(h, p) ==
    /\ Inject
    /\ p \in Peers(h)
    /\ shut' = shut \cup {<<h, p>>}
    /\ Close(Between(h, p))
    /\ UNCHANGED <<frr, link>>

RestorePeer(h, p) ==
    /\ <<h, p>> \in shut
    /\ shut' = shut \ {<<h, p>>}
    /\ UNCHANGED <<frr, link, sessions, rib, faults>>

(* frr_restart; its restore operation is a restart again.                  *)
RestartFrr(h) ==
    /\ Inject
    /\ Restart(h)
    /\ UNCHANGED <<frr, link>>

(* bounce_vtep_underlay; BGP notices when the hold time expires.           *)
UnderlayDown(h) ==
    /\ Inject
    /\ h \in link
    /\ link' = link \ {h}
    /\ UNCHANGED <<frr, shut, sessions, rib>>

RestoreUnderlay(h) ==
    /\ h \notin link
    /\ link' = link \cup {h}
    /\ UNCHANGED <<frr, shut, sessions, rib, faults>>
-----------------------------------------------------------------------------
Routing ==
    \E h, p \in VTEPs :
       Establish(h, p) \/ HoldTimeExpires(h, p) \/ Update(p, h)

FaultStep ==
    \E h \in VTEPs :
       \/ RestartFrr(h) \/ UnderlayDown(h) \/ RestoreUnderlay(h)
       \/ \E p \in VTEPs : ShutPeer(h, p) \/ RestorePeer(h, p)

ProvisionStep == \E h \in VTEPs : Provision(h)

Next == ProvisionStep \/ Routing \/ FaultStep

Spec == Init /\ [][Next]_vars

(* The playbook goes on to the last host, and FRR retries sessions and     *)
(* sends what it has to send.  Nothing obliges a fault to be restored.     *)
FairSpec == Spec /\ WF_vars(ProvisionStep) /\ WF_vars(Routing)
-----------------------------------------------------------------------------
(* Properties *)

TypeOK ==
    /\ frr \subseteq VTEPs /\ link \subseteq VTEPs
    /\ shut \subseteq VTEPs \X VTEPs
    /\ sessions \subseteq VTEPs \X VTEPs
    /\ rib \in [VTEPs -> SUBSET (VTEPs \X VTEPs)]
    /\ faults \in 0 .. MaxFaults

(* Sessions are symmetric and between neighbors of each other, none of them*)
(* shut down; a VTEP has only routes of others, each over a live session,  *)
(* from the route's originator or from a reflector.                        *)
RoutesJustified ==
    /\ TypeOK
    /\ \A h, p \in VTEPs : <<h, p>> \in sessions =>
          /\ <<p, h>> \in sessions /\ p # h
          /\ p \in Peers(h) /\ h \in Peers(p)
          /\ <<h, p>> \notin shut
    /\ \A h, o, q \in VTEPs : <<o, q>> \in rib[h] =>
          /\ <<h, q>> \in sessions /\ o # h
          /\ q = o \/ q \in RouteReflectors

(* Nobody has an update left to send.                                      *)
Quiet == \A h, q \in VTEPs : <<h, q>> \in sessions =>
            ReceivedFrom(q, h) = AdvertisedTo(q, h)

(* What the graph of sessions promises: a direct session, one reflector    *)
(* that serves either end, or two reflectors with a client at either end.  *)
Up(h, p) == <<h, p>> \in sessions

Reachable(h) ==
    {o \in VTEPs \ {h} :
       \/ Up(h, o)
       \/ \E r \in RouteReflectors :
             Up(h, r) /\ Up(r, o) /\ (Client(r, h) \/ Client(r, o))
       \/ \E r, s \in RouteReflectors :
             Up(h, r) /\ Up(r, s) /\ Up(s, o) /\ Client(r, h) /\ Client(s, o)}

(* Once updates have settled, a VTEP has exactly the routes the sessions   *)
(* that are up can carry: none is missing, and none outlives its path,     *)
(* whatever sequence of faults and partial updates came before.            *)
SettledRoutes == Quiet => \A h \in VTEPs : Known(h) = Reachable(h)

AllKnown == \A h \in VTEPs : Known(h) = VTEPs \ {h}

(* Two reflectors, or a full mesh, contain a lost session: while all others*)
(* are up and updates have settled, every other pair keeps its routes.     *)
OthersUp(h, p) ==
    \A x, y \in VTEPs : y \in Peers(x) /\ {x, y} # {h, p} => Up(x, y)

FaultContained ==
    Quiet => \A h, p \in VTEPs : OthersUp(h, p) =>
                \A x, y \in VTEPs : x # y /\ {x, y} # {h, p} => y \in Known(x)

(* When provisioning is complete and every fault has been restored for     *)
(* good, all VTEPs come to know each other and stay so: "restore           *)
(* operations recover the path without rebuilding the testbed".            *)
Undisturbed == shut = {} /\ link = VTEPs

Recovers == <>[]Undisturbed => <>[]AllKnown

(* "bgp_peer_shutdown: shut an FRR EVPN peer and expect overlay traffic to *)
(* fail": once updates have settled, a VTEP has no route to a peer it shut.*)
ShutPeerMeansOutage ==
    Quiet => \A s \in shut : s[2] \notin Known(s[1])
=============================================================================
