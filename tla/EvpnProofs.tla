----------------------------- MODULE EvpnProofs ----------------------------
(***************************************************************************)
(* Theorems about the peers render-topology.py resolves and the routes     *)
(* VTEPs learn over them, for every set of VTEPs and route reflectors.     *)
(***************************************************************************)
EXTENDS EvpnRouting, TLAPS

(* resolve_control_plane gives every neighbor statement its counterpart on *)
(* the other host, without which no session comes up.                      *)
THEOREM PeersSymmetric ==
    \A h, p \in VTEPs : p \in Peers(h) <=> h \in Peers(p)
BY ControlPlaneAssumption DEF Peers

(* Any two VTEPs are peers, or share a reflector that has one of them as   *)
(* its client: no VTEP of an accepted topology is left out.                *)
THEOREM PeersCover ==
    \A h, o \in VTEPs : h # o => Covered(h, o)
<1> SUFFICES ASSUME NEW h \in VTEPs, NEW o \in VTEPs, h # o
             PROVE  Covered(h, o)
  OBVIOUS
<1>1. CASE Peering = "full_mesh" \/ h \in RouteReflectors \/ o \in RouteReflectors
  BY <1>1, ControlPlaneAssumption DEF Covered, Peers
<1>2. CASE Peering # "full_mesh" /\ h \notin RouteReflectors /\ o \notin RouteReflectors
  <2>1. PICK r \in RouteReflectors : TRUE
    BY <1>2, ControlPlaneAssumption
  <2>2. r \in VTEPs /\ r # h /\ r # o
    BY <1>2, <2>1, ControlPlaneAssumption
  <2> QED
    BY <1>2, <2>1, <2>2 DEF Covered, Peers, Client
<1> QED
  BY <1>1, <1>2
-----------------------------------------------------------------------------
(* Closing sessions in both directions leaves the other routes justified.  *)
LEMMA CloseJustified ==
    ASSUME RoutesJustified, NEW closed,
           \A h, p \in VTEPs : <<h, p>> \in sessions =>
              (<<h, p>> \in closed <=> <<p, h>> \in closed),
           Close(closed),
           frr' \subseteq VTEPs, link' \subseteq VTEPs, faults' \in 0 .. MaxFaults,
           shut' \subseteq VTEPs \X VTEPs,
           \A h, p \in VTEPs : <<h, p>> \in sessions \ closed => <<h, p>> \notin shut'
    PROVE  RoutesJustified'
<1> USE DEF RoutesJustified, TypeOK
<1>1. sessions' = sessions \ closed
  BY DEF Close
<1>2. \A h, o, q \in VTEPs :
         <<o, q>> \in rib'[h] <=> <<o, q>> \in rib[h] /\ <<h, q>> \notin closed
  BY DEF Close
<1>3. rib' \in [VTEPs -> SUBSET (VTEPs \X VTEPs)]
  BY DEF Close
<1>4. TypeOK'
  BY <1>1, <1>3
<1>5. ASSUME NEW h \in VTEPs, NEW p \in VTEPs, <<h, p>> \in sessions'
      PROVE  /\ <<p, h>> \in sessions' /\ p # h
             /\ p \in Peers(h) /\ h \in Peers(p)
             /\ <<h, p>> \notin shut'
  BY <1>1, <1>5
<1>6. ASSUME NEW h \in VTEPs, NEW o \in VTEPs, NEW q \in VTEPs, <<o, q>> \in rib'[h]
      PROVE  <<h, q>> \in sessions' /\ o # h /\ (q = o \/ q \in RouteReflectors)
  BY <1>1, <1>2, <1>6
<1> QED
  BY <1>4, <1>5, <1>6

(* Every step keeps sessions symmetric and routes justified.               *)
LEMMA RoutesJustifiedStep ==
    ASSUME RoutesJustified, [Next]_vars, MaxFaults \in Nat
    PROVE  RoutesJustified'
<1> USE DEF RoutesJustified, TypeOK
<1>1. ASSUME NEW h \in VTEPs, Provision(h) \/ RestartFrr(h)
      PROVE  RoutesJustified'
  <2>1. /\ Close(SessionsOf(h)) /\ shut' = {s \in shut : s[1] # h}
        /\ frr' \subseteq VTEPs /\ link' = link /\ faults' \in 0 .. MaxFaults
    BY <1>1 DEF Provision, RestartFrr, Restart, Inject
  <2>2. \A x, y \in VTEPs : <<x, y>> \in sessions =>
           (<<x, y>> \in SessionsOf(h) <=> <<y, x>> \in SessionsOf(h))
    BY DEF SessionsOf
  <2> QED
    BY <2>1, <2>2, CloseJustified
<1>2. ASSUME NEW h \in VTEPs, NEW p \in VTEPs, ShutPeer(h, p)
      PROVE  RoutesJustified'
  <2>1. /\ Close(Between(h, p)) /\ shut' = shut \cup {<<h, p>>}
        /\ frr' = frr /\ link' = link /\ faults' \in 0 .. MaxFaults
    BY <1>2 DEF ShutPeer, Inject
  <2>2. \A x, y \in VTEPs : <<x, y>> \in Between(h, p) <=> <<y, x>> \in Between(h, p)
    BY DEF Between
  <2>3. \A x, y \in VTEPs :
           <<x, y>> \in sessions \ Between(h, p) => <<x, y>> \notin shut'
    <3> SUFFICES ASSUME NEW x \in VTEPs, NEW y \in VTEPs,
                        <<x, y>> \in sessions, <<x, y>> \notin Between(h, p)
                 PROVE  <<x, y>> \notin shut'
      OBVIOUS
    <3>1. <<x, y>> # <<h, p>>
      BY DEF Between
    <3> QED
      BY <2>1, <3>1
  <2>4. shut' \subseteq VTEPs \X VTEPs
    BY <2>1
  <2> QED
    BY <2>1, <2>2, <2>3, <2>4, CloseJustified
<1>3. ASSUME NEW h \in VTEPs, NEW p \in VTEPs, HoldTimeExpires(h, p)
      PROVE  RoutesJustified'
  <2>1. Close(Between(h, p)) /\ UNCHANGED <<frr, shut, link, faults>>
    BY <1>3 DEF HoldTimeExpires
  <2>2. \A x, y \in VTEPs : <<x, y>> \in Between(h, p) <=> <<y, x>> \in Between(h, p)
    BY DEF Between
  <2> QED
    BY <2>1, <2>2, CloseJustified
<1>4. ASSUME NEW h \in VTEPs, NEW p \in VTEPs, Establish(h, p)
      PROVE  RoutesJustified'
  <2>1. h # p
    BY <1>4, ControlPlaneAssumption DEF Establish, Peers
  <2> QED
    BY <1>4, <2>1 DEF Establish, Between
<1>5. ASSUME NEW q \in VTEPs, NEW h \in VTEPs, Update(q, h)
      PROVE  RoutesJustified'
  <2>1. rib' = [rib EXCEPT ![h] = {e \in @ : e[2] # q} \cup (AdvertisedTo(q, h) \X {q})]
        /\ <<h, q>> \in sessions /\ q # h
    BY <1>5 DEF Update
  <2>2. AdvertisedTo(q, h) \subseteq VTEPs \ {h}
    BY <2>1 DEF AdvertisedTo, Known
  <2>3. \A o \in AdvertisedTo(q, h) : q = o \/ q \in RouteReflectors
    BY DEF AdvertisedTo, Reflects, Client
  <2>4. UNCHANGED <<frr, shut, link, sessions, faults>>
    BY <1>5 DEF Update
  <2>5. rib' \in [VTEPs -> SUBSET (VTEPs \X VTEPs)]
    BY <2>1, <2>2
  <2>6. ASSUME NEW x \in VTEPs, NEW o \in VTEPs, NEW r \in VTEPs, <<o, r>> \in rib'[x]
        PROVE  <<x, r>> \in sessions /\ o # x /\ (r = o \/ r \in RouteReflectors)
    <3>1. \/ <<o, r>> \in rib[x]
          \/ x = h /\ r = q /\ o \in AdvertisedTo(q, h)
      BY <2>1, <2>6
    <3> QED
      BY <2>1, <2>2, <2>3, <3>1
  <2> QED
    BY <2>4, <2>5, <2>6
<1>6. ASSUME NEW h \in VTEPs, NEW p \in VTEPs,
             RestorePeer(h, p) \/ UnderlayDown(h) \/ RestoreUnderlay(h)
      PROVE  RoutesJustified'
  BY <1>6 DEF RestorePeer, UnderlayDown, RestoreUnderlay, Inject
<1>7. CASE UNCHANGED vars
  BY <1>7 DEF vars
<1> QED
  BY <1>1, <1>2, <1>3, <1>4, <1>5, <1>6, <1>7
     DEF Next, ProvisionStep, Routing, FaultStep

(* A VTEP only ever has routes that a live session brings it, from their   *)
(* originator or a reflector.                                              *)
THEOREM RoutesAreJustified == MaxFaults \in Nat => (Spec => []RoutesJustified)
<1> SUFFICES ASSUME MaxFaults \in Nat PROVE Spec => []RoutesJustified
  OBVIOUS
<1>1. Init => RoutesJustified
  BY DEF Init, RoutesJustified, TypeOK
<1>2. RoutesJustified /\ [Next]_vars => RoutesJustified'
  BY RoutesJustifiedStep
<1> QED
  BY <1>1, <1>2, PTL DEF Spec
-----------------------------------------------------------------------------
(* In a quiet state no route has outlived its path.                        *)
LEMMA KnownIsReachable ==
    ASSUME RoutesJustified, Quiet, NEW h \in VTEPs, NEW o \in Known(h)
    PROVE  o \in Reachable(h)
<1> USE DEF RoutesJustified, TypeOK
<1>1. PICK f \in VTEPs : <<o, f>> \in rib[h]
  BY DEF Known
<1>2. o \in VTEPs \ {h} /\ <<h, f>> \in sessions /\ o \in AdvertisedTo(f, h)
  BY <1>1 DEF Known, Quiet, ReceivedFrom
<1>3. CASE o = f
  BY <1>2, <1>3 DEF Reachable, Up
<1>4. CASE o # f /\ <<o, o>> \in rib[f]
  <2>1. <<f, o>> \in sessions /\ (Client(f, o) \/ Client(f, h))
    BY <1>2, <1>4 DEF AdvertisedTo, Reflects
  <2>2. f \in RouteReflectors
    BY <2>1 DEF Client
  <2> QED
    BY <1>2, <2>1, <2>2 DEF Reachable, Up
<1>5. CASE o # f /\ <<o, o>> \notin rib[f]
  <2>1. o \in Known(f) /\ Client(f, h)
    BY <1>2, <1>5 DEF AdvertisedTo, Reflects
  <2>2. PICK g \in VTEPs : <<o, g>> \in rib[f]
    BY <2>1 DEF Known
  <2>3. g # o /\ <<f, g>> \in sessions /\ o \in AdvertisedTo(g, f)
    BY <1>2, <1>5, <2>2 DEF Quiet, ReceivedFrom
  <2>4. <<o, o>> \in rib[g] /\ Client(g, o)
    BY <2>1, <2>3 DEF AdvertisedTo, Reflects, Client
  <2>5. <<g, o>> \in sessions /\ {f, g} \subseteq RouteReflectors
    BY <1>2, <2>1, <2>4 DEF Client
  <2> QED
    BY <1>2, <2>1, <2>3, <2>4, <2>5 DEF Reachable, Up
<1> QED
  BY <1>3, <1>4, <1>5

(* In a quiet state a VTEP has every route a session brings it.            *)
LEMMA ReachableIsKnown ==
    ASSUME RoutesJustified, Quiet, NEW h \in VTEPs, NEW o \in Reachable(h)
    PROVE  o \in Known(h)
<1> USE ControlPlaneAssumption DEF RoutesJustified, TypeOK
<1>0. o \in VTEPs \ {h}
  BY DEF Reachable
<1>1. ASSUME NEW x \in VTEPs, NEW y \in VTEPs, Up(x, y)
      PROVE  <<y, y>> \in rib[x]
  BY <1>1 DEF Quiet, Up, AdvertisedTo, ReceivedFrom
<1>2. ASSUME NEW x \in VTEPs, NEW y \in VTEPs, NEW z \in VTEPs,
             Up(x, y), z \in AdvertisedTo(y, x)
      PROVE  z \in Known(x)
  BY <1>2 DEF Quiet, Up, ReceivedFrom, Known
<1>3. CASE Up(h, o)
  BY <1>0, <1>1, <1>3 DEF Known
<1>4. ASSUME NEW r \in RouteReflectors, Up(h, r), Up(r, o), Client(r, h) \/ Client(r, o)
      PROVE  o \in Known(h)
  <2>1. <<o, o>> \in rib[r]
    BY <1>0, <1>1, <1>4
  <2>2. o \in AdvertisedTo(r, h)
    BY <1>0, <1>4, <2>1 DEF AdvertisedTo, Known, Reflects
  <2> QED
    BY <1>0, <1>2, <1>4, <2>2
<1>5. ASSUME NEW r \in RouteReflectors, NEW s \in RouteReflectors,
             Up(h, r), Up(r, s), Up(s, o), Client(r, h), Client(s, o)
      PROVE  o \in Known(h)
  <2>1. <<o, o>> \in rib[s] /\ o # r
    BY <1>0, <1>1, <1>5 DEF Client
  <2>2. o \in AdvertisedTo(s, r)
    BY <1>0, <1>5, <2>1 DEF AdvertisedTo, Known, Reflects
  <2>3. o \in Known(r)
    BY <1>0, <1>2, <1>5, <2>2
  <2>4. o \in AdvertisedTo(r, h)
    BY <1>0, <1>5, <2>3 DEF AdvertisedTo, Reflects
  <2> QED
    BY <1>0, <1>2, <1>5, <2>4
<1> QED
  BY <1>3, <1>4, <1>5 DEF Reachable

(* Once updates have settled, a VTEP has exactly the routes the live       *)
(* sessions carry, for any peering, any reflectors and any faults.         *)
THEOREM SettledRoutesHold == MaxFaults \in Nat => (Spec => []SettledRoutes)
<1> SUFFICES ASSUME MaxFaults \in Nat PROVE Spec => []SettledRoutes
  OBVIOUS
<1>1. RoutesJustified => SettledRoutes
  <2> SUFFICES ASSUME RoutesJustified, Quiet, NEW h \in VTEPs
               PROVE  Known(h) = Reachable(h)
    BY DEF SettledRoutes
  <2> QED
    BY KnownIsReachable, ReachableIsKnown
<1> QED
  BY <1>1, RoutesAreJustified, PTL
-----------------------------------------------------------------------------
(* The session of u and v is not the lost one, of h and p.                 *)
Kept(u, v, h, p) == {u, v} # {h, p}

(* Among two reflectors and a client there is always a way that avoids one *)
(* lost session.                                                           *)
LEMMA OtherReflector ==
    ASSUME NEW a \in RouteReflectors, NEW b \in RouteReflectors, a # b,
           NEW x \in VTEPs, NEW y \in VTEPs, x # y, y \notin Peers(x),
           NEW h \in VTEPs, NEW p \in VTEPs
    PROVE  \E r \in RouteReflectors : /\ r \in Peers(x) /\ y \in Peers(r) /\ Client(r, x)
                                      /\ Kept(x, r, h, p) /\ Kept(r, y, h, p)
<1>1. x \notin RouteReflectors /\ y \notin RouteReflectors /\ Peering # "full_mesh"
  BY DEF Peers
<1>2. \A r \in RouteReflectors : r \in Peers(x) /\ y \in Peers(r) /\ Client(r, x)
  BY <1>1, ControlPlaneAssumption DEF Peers, Client
<1>3. \E r \in {a, b} : Kept(x, r, h, p) /\ Kept(r, y, h, p)
  <2>1. CASE Kept(x, a, h, p) /\ Kept(a, y, h, p)
    BY <2>1
  <2>2. CASE ~Kept(x, a, h, p) \/ ~Kept(a, y, h, p)
    <3>1. a \in {h, p} /\ b \notin {h, p}
      BY <1>1, <2>2 DEF Kept
    <3>2. Kept(x, b, h, p) /\ Kept(b, y, h, p)
      BY <3>1 DEF Kept
    <3> QED
      BY <3>2
  <2> QED
    BY <2>1, <2>2
<1> QED
  BY <1>2, <1>3

(* With two reflectors, or in a full mesh, a lost session separates no     *)
(* other pair of VTEPs, once updates have settled: for any number of VTEPs *)
(* and whatever faults came before.                                        *)
THEOREM FaultsAreContained ==
    ASSUME MaxFaults \in Nat,
           Peering = "full_mesh" \/ \E a, b \in RouteReflectors : a # b
    PROVE  Spec => []FaultContained
<1>1. SettledRoutes => FaultContained
  <2> SUFFICES ASSUME SettledRoutes, Quiet, NEW h \in VTEPs, NEW p \in VTEPs, OthersUp(h, p),
                      NEW x \in VTEPs, NEW y \in VTEPs, x # y, {x, y} # {h, p}
               PROVE  y \in Known(x)
    BY DEF FaultContained
  <2>1. \A u, v \in VTEPs : v \in Peers(u) /\ Kept(u, v, h, p) => Up(u, v)
    BY DEF OthersUp, Kept
  <2>2. y \in Reachable(x)
    <3>1. CASE y \in Peers(x)
      BY <2>1, <3>1 DEF Reachable, Kept
    <3>2. CASE y \notin Peers(x)
      <4>1. PICK a \in RouteReflectors, b \in RouteReflectors : a # b
        BY <3>2 DEF Peers
      <4>2. PICK r \in RouteReflectors : /\ r \in Peers(x) /\ y \in Peers(r) /\ Client(r, x)
                                         /\ Kept(x, r, h, p) /\ Kept(r, y, h, p)
        BY <3>2, <4>1, OtherReflector
      <4>3. r \in VTEPs /\ Up(x, r) /\ Up(r, y)
        BY <2>1, <4>2, ControlPlaneAssumption
      <4> QED
        BY <4>2, <4>3 DEF Reachable
    <3> QED
      BY <3>1, <3>2
  <2> QED
    BY <2>2 DEF SettledRoutes
<1> QED
  BY <1>1, SettledRoutesHold, PTL
-----------------------------------------------------------------------------
(* Only sessions with resolved peers are ever shut.                        *)
PeersShut == \A h, p \in VTEPs : <<h, p>> \in shut => p \in Peers(h)

LEMMA PeersShutStep ==
    ASSUME PeersShut, [Next]_vars
    PROVE  PeersShut'
<1>1. CASE shut' \subseteq shut
  BY <1>1 DEF PeersShut
<1>2. ASSUME NEW h \in VTEPs, NEW p \in VTEPs, ShutPeer(h, p)
      PROVE  PeersShut'
  BY <1>2 DEF ShutPeer, PeersShut
<1>3. ASSUME NEW h \in VTEPs,
             \/ Provision(h) \/ RestartFrr(h) \/ UnderlayDown(h) \/ RestoreUnderlay(h)
             \/ \E p \in VTEPs : RestorePeer(h, p)
             \/ \E p \in VTEPs : Establish(h, p) \/ HoldTimeExpires(h, p) \/ Update(p, h)
      PROVE  PeersShut'
  BY <1>1, <1>3 DEF Provision, RestartFrr, Restart, UnderlayDown, RestoreUnderlay, RestorePeer,
     Establish, HoldTimeExpires, Update
<1>4. CASE UNCHANGED vars
  BY <1>1, <1>4 DEF vars
<1> QED
  BY <1>2, <1>3, <1>4 DEF Next, ProvisionStep, Routing, FaultStep

(* Without a second reflector two peers have no way to each other but their*)
(* session.                                                                *)
LEMMA NoWayRound ==
    ASSUME RoutesJustified, \A a, b \in RouteReflectors : a = b,
           NEW h \in VTEPs, NEW p \in Peers(h), p \in Reachable(h)
    PROVE  Up(h, p)
<1>1. p \in VTEPs
  BY DEF Reachable
<1>2. \A x, y \in VTEPs : Up(x, y) => x # y
  BY DEF RoutesJustified, Up
<1>3. ASSUME NEW r \in RouteReflectors, Up(h, r), Up(r, p)
      PROVE  FALSE
  <2>1. r # h /\ r # p
    BY <1>1, <1>2, <1>3, ControlPlaneAssumption
  <2>2. h \notin RouteReflectors /\ p \notin RouteReflectors
    BY <2>1
  <2> QED
    BY <2>2, ControlPlaneAssumption DEF Peers
<1>4. ASSUME NEW r \in RouteReflectors, NEW s \in RouteReflectors, Up(r, s)
      PROVE  FALSE
  BY <1>2, <1>4, ControlPlaneAssumption
<1> QED
  BY <1>3, <1>4 DEF Reachable

(* In a full mesh and with a single reflector a peer that a VTEP has shut  *)
(* is unreachable for it once updates have settled, for any number of      *)
(* VTEPs and whatever other faults came before: the fault test's           *)
(* expectation.  A second reflector gives some pairs a way round.          *)
THEOREM ShutPeersAreOut ==
    ASSUME MaxFaults \in Nat, \A a, b \in RouteReflectors : a = b
    PROVE  Spec => []ShutPeerMeansOutage
<1>1. Init => PeersShut
  BY DEF Init, PeersShut
<1>2. PeersShut /\ [Next]_vars => PeersShut'
  BY PeersShutStep
<1>3. RoutesJustified /\ PeersShut /\ SettledRoutes => ShutPeerMeansOutage
  <2> SUFFICES ASSUME RoutesJustified, PeersShut, SettledRoutes, Quiet, NEW s \in shut,
                      s[2] \in Known(s[1])
               PROVE  FALSE
    BY DEF ShutPeerMeansOutage
  <2>1. PICK h \in VTEPs, p \in VTEPs : s = <<h, p>>
    BY DEF RoutesJustified, TypeOK
  <2>2. p \in Peers(h) /\ p \in Reachable(h)
    BY <2>1 DEF PeersShut, SettledRoutes
  <2>3. Up(h, p)
    BY <2>2, NoWayRound
  <2> QED
    BY <2>1, <2>3 DEF Up, RoutesJustified
<1> QED
  BY <1>1, <1>2, <1>3, RoutesAreJustified, SettledRoutesHold, PTL DEF Spec
=============================================================================
