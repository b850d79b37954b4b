--------------------------- MODULE TopologyProofs ---------------------------
(***************************************************************************)
(* What a written topology.json guarantees, for every set of hosts, NICs   *)
(* and topology files.  Rendering is a pipeline, so the inductive invariant*)
(* says, stage by stage, what the stages already passed have established.  *)
(***************************************************************************)
EXTENDS Topology, TLAPS

Cp == RequestedControlPlane(source.control_plane, dataplane)

SegmentsDone ==
    /\ ValidSegments(source.segments)
    /\ segments = ResolveSegments(source.segments)

ControlDone ==
    /\ ValidControlPlane(Cp, segments)
    /\ Cp.type = "evpn" => OneUnderlayPerHost(segments)
    /\ control = ResolveControlPlane(Cp, segments)

ChecksDone == \A c \in checks : ValidCheck(c, segments, control)

FaultsDone == \A f \in faults : ValidFault(f, segments, control)

StagesDone ==
    /\ pc \in {"control_plane", "checks", "faults", "written"} => SegmentsDone
    /\ pc \in {"checks", "faults", "written"} => ControlDone
    /\ pc \in {"faults", "written"} => ChecksDone
    /\ pc = "written" => FaultsDone

(* Every stage leaves what it checked true, and later stages leave it so.  *)
THEOREM StagesHold == Spec => []StagesDone
<1>1. Init => StagesDone
  BY DEF Init, StagesDone
<1>2. StagesDone /\ [Next]_vars => StagesDone'
  <2>0. SUFFICES ASSUME StagesDone, [Next]_vars PROVE StagesDone'
    OBVIOUS
  <2>1. CASE RenderSegments
    <3>1. CASE pc' = "refused"
      BY <3>1 DEF StagesDone
    <3>2. CASE pc' # "refused"
      <4>1. SegmentsDone' /\ pc' = "control_plane"
        BY <2>1, <3>2 DEF RenderSegments, Refuse, SegmentsDone
      <4>2. QED BY <4>1 DEF StagesDone
    <3>3. QED BY <3>1, <3>2
  <2>2. CASE RenderControlPlane
    <3>1. CASE pc' = "refused"
      BY <3>1 DEF StagesDone
    <3>2. CASE pc' # "refused"
      <4>1. SegmentsDone'
        BY <2>0, <2>2 DEF RenderControlPlane, StagesDone, SegmentsDone
      <4>2. ControlDone' /\ pc' = "checks"
        BY <2>2, <3>2 DEF RenderControlPlane, Refuse, ControlDone, Cp
      <4>3. QED BY <4>1, <4>2 DEF StagesDone
    <3>3. QED BY <3>1, <3>2
  <2>3. CASE RenderChecks
    <3>1. CASE pc' = "refused"
      BY <3>1 DEF StagesDone
    <3>2. CASE pc' # "refused"
      <4>1. SegmentsDone' /\ ControlDone'
        BY <2>0, <2>3 DEF RenderChecks, StagesDone, SegmentsDone, ControlDone, Cp
      <4>2. ChecksDone' /\ pc' = "faults"
        BY <2>3, <3>2 DEF RenderChecks, Refuse, ChecksDone
      <4>3. QED BY <4>1, <4>2 DEF StagesDone
    <3>3. QED BY <3>1, <3>2
  <2>4. CASE RenderFaults
    <3>1. CASE pc' = "refused"
      BY <3>1 DEF StagesDone
    <3>2. CASE pc' # "refused"
      <4>1. SegmentsDone' /\ ControlDone' /\ ChecksDone'
        BY <2>0, <2>4 DEF RenderFaults, StagesDone, SegmentsDone, ControlDone, Cp, ChecksDone
      <4>2. FaultsDone'
        BY <2>4, <3>2 DEF RenderFaults, Refuse, FaultsDone
      <4>3. QED BY <4>1, <4>2 DEF StagesDone
    <3>3. QED BY <3>1, <3>2
  <2>5. CASE UNCHANGED vars
    BY <2>0, <2>5 DEF vars, StagesDone, SegmentsDone, ControlDone, Cp, ChecksDone, FaultsDone
  <2>6. QED BY <2>0, <2>1, <2>2, <2>3, <2>4, <2>5 DEF Next
<1>3. QED BY <1>1, <1>2, PTL DEF Spec
-----------------------------------------------------------------------------
(* What a written EVPN plan was made from.                                 *)
LEMMA EvpnPlan ==
    ASSUME StagesDone, EvpnWritten
    PROVE  /\ Cp.type = "evpn" /\ dataplane = "linux-vxlan"
           /\ ValidControlPlane(Cp, segments)
           /\ OneUnderlayPerHost(segments)
           /\ control = ResolveControlPlane(Cp, segments)
<1>1. ControlDone
  BY DEF StagesDone, EvpnWritten, Written
<1>2. Cp.type = "evpn"
  <2>1. CASE Cp.type = "static"
    BY <1>1, <2>1 DEF ControlDone, ResolveControlPlane, Static, EvpnWritten
  <2>2. QED BY <1>1, <2>1 DEF ControlDone, ValidControlPlane
<1>3. dataplane = "linux-vxlan"
  BY <1>2 DEF Cp, RequestedControlPlane, Static
<1>4. QED BY <1>1, <1>2, <1>3 DEF ControlDone

(* Resolving members leaves the VTEP entries as they were.                 *)
LEMMA VtepsResolved ==
    ASSUME SegmentsDone
    PROVE  Vteps(segments) = Vteps(source.segments)
<1>1. DOMAIN segments = DOMAIN source.segments
  BY DEF SegmentsDone, ResolveSegments
<1>2. \A s \in DOMAIN segments : segments[s].vteps = source.segments[s].vteps
  BY DEF SegmentsDone, ResolveSegments
<1>3. QED BY <1>1, <1>2 DEF Vteps

(* frr.conf names a peer by the underlay address that peer has everywhere. *)
THEOREM PeerAddresses == Spec => []PeerAddressesAgree
<1>1. StagesDone => PeerAddressesAgree
  <2>0. SUFFICES ASSUME StagesDone, EvpnWritten,
                        NEW h \in DOMAIN control.hosts, NEW p \in control.hosts[h].peers,
                        NEW v \in Vteps(segments), v.host = p.host
                 PROVE  v.ip = p.address
    BY DEF PeerAddressesAgree
  <2>1. p.address = UnderlayAddress(segments, p.host)
    BY <2>0, EvpnPlan DEF ResolveControlPlane
  <2>2. PICK w \in Vteps(segments) : w.host = p.host /\ p.address = w.ip
    BY <2>0, <2>1 DEF UnderlayAddress
  <2>3. QED BY <2>0, <2>2, EvpnPlan DEF OneUnderlayPerHost
<1>2. QED BY <1>1, StagesHold, PTL

(* No underlay NIC of an EVPN host ends up in a bridge.                    *)
THEOREM UnderlaysUnbridged == Spec => []UnderlayNeverBridged
<1>1. StagesDone => UnderlayNeverBridged
  <2>0. SUFFICES ASSUME StagesDone, EvpnWritten,
                        NEW v \in Vteps(segments), NEW w \in Vteps(segments),
                        v.host = w.host
                 PROVE  v.nic \notin w.local
    BY DEF UnderlayNeverBridged
  <2>1. v.nic = w.nic
    BY <2>0, EvpnPlan DEF OneUnderlayPerHost
  <2>2. SegmentsDone
    BY <2>0 DEF StagesDone, EvpnWritten, Written
  <2>3. PICK s \in DOMAIN source.segments : w \in source.segments[s].vteps
    BY <2>2, VtepsResolved DEF Vteps
  <2>4. ValidVtep(w)
    BY <2>2, <2>3 DEF SegmentsDone, ValidSegments, ValidSegment
  <2>5. QED BY <2>1, <2>4 DEF ValidVtep
<1>2. QED BY <1>1, StagesHold, PTL

(* No test is handed a check or a fault of the other control plane.        *)
THEOREM WorkFits == Spec => []WorkFitsControlPlane
<1>1. StagesDone => WorkFitsControlPlane
  <2>0. SUFFICES ASSUME StagesDone, Written PROVE WorkFitsControlPlane
    BY DEF WorkFitsControlPlane
  <2>1. control.type = "evpn" => dataplane = "linux-vxlan"
    BY <2>0, EvpnPlan DEF EvpnWritten
  <2>2. \A c \in checks : c.type = "evpn_control_plane" => control.type = "evpn"
    BY <2>0 DEF StagesDone, Written, ChecksDone, ValidCheck
  <2>3. control.type \in {"static", "evpn"}
    BY <2>0 DEF StagesDone, Written, ControlDone, ValidControlPlane,
                ResolveControlPlane, Static
  <2>4. ASSUME NEW f \in faults
        PROVE  /\ f.type \in FrrFaults => control.type = "evpn"
               /\ f.type = "remove_fdb_peer" => control.type = "static"
    BY <2>0, <2>3, <2>4 DEF StagesDone, Written, FaultsDone, ValidFault
  <2>5. QED BY <2>1, <2>2, <2>4 DEF WorkFitsControlPlane
<1>2. QED BY <1>1, StagesHold, PTL

(* Whatever peering an author asks for, a plan that is written lets every  *)
(* VTEP learn the routes of every other one.                               *)
THEOREM PlansCover == Spec => []PlanCovers
<1>1. StagesDone => PlanCovers
  <2>0. SUFFICES ASSUME StagesDone, EvpnWritten,
                        NEW h \in DOMAIN control.hosts, NEW o \in DOMAIN control.hosts,
                        h # o
                 PROVE  Plan(DOMAIN control.hosts, control)!Covered(h, o)
    BY DEF PlanCovers
  <2>1. /\ control.peering \in {"full_mesh", "route_reflector"}
        /\ control.peering = "route_reflector" => control.route_reflectors # {}
        /\ control.route_reflectors \subseteq DOMAIN control.hosts
    BY <2>0, EvpnPlan DEF ResolveControlPlane, ValidControlPlane
  <2>2. QED BY <2>0, <2>1 DEF Plan!Covered, Plan!Peers, Plan!Client
<1>2. QED BY <1>1, StagesHold, PTL
-----------------------------------------------------------------------------
SourceOK == source \in Sources

(* Rendering does not change the file it reads.                            *)
LEMMA SourceKept == Spec => []SourceOK
<1>1. Init => SourceOK
  BY DEF Init, SourceOK
<1>2. SourceOK /\ [Next]_vars => SourceOK'
  BY DEF SourceOK, Next, RenderSegments, RenderControlPlane, RenderChecks, RenderFaults, vars
<1>3. QED BY <1>1, <1>2, PTL DEF Spec

(* A resolved segment keeps its VLAN and resolves each of its members.     *)
LEMMA MembersResolved ==
    ASSUME SegmentsDone, source \in Sources, NEW s \in DOMAIN segments
    PROVE  /\ s \in DOMAIN source.segments
           /\ segments[s].vlan = source.segments[s].vlan
           /\ \A m \in source.segments[s].members :
                 \E r \in segments[s].members :
                    Endpoint(r) = Endpoint(m) /\ r.vlan = MemberVlan(m, source.segments[s])
<1> DEFINE old == source.segments[s]
           resolved(m) == [host |-> m.host, nic |-> m.nic, mode |-> m.mode,
                           vlan |-> MemberVlan(m, old)]
<1>1. /\ s \in DOMAIN source.segments
      /\ segments[s] = [old EXCEPT !.members = {resolved(m) : m \in old.members}]
  BY DEF SegmentsDone, ResolveSegments
<1>2. {"vlan", "members"} \subseteq DOMAIN old
  BY <1>1, SourcesAssumption
<1>3. /\ segments[s].vlan = old.vlan
      /\ segments[s].members = {resolved(m) : m \in old.members}
  BY <1>1, <1>2
<1>4. ASSUME NEW m \in old.members
      PROVE  \E r \in segments[s].members :
                Endpoint(r) = Endpoint(m) /\ r.vlan = MemberVlan(m, old)
  <2>1. resolved(m) \in segments[s].members
    BY <1>3
  <2>2. Endpoint(resolved(m)) = Endpoint(m) /\ resolved(m).vlan = MemberVlan(m, old)
    BY DEF Endpoint
  <2>3. QED BY <2>1, <2>2
<1>5. QED BY <1>1, <1>3, <1>4

(* In every written topology a trunk member has a VLAN, its own or its     *)
(* segment's, unless its author left the key there and blank; for any      *)
(* topology file.                                                          *)
THEOREM TrunksAreTagged == Spec => []TrunkMembersTagged
<1>1. StagesDone /\ SourceOK => TrunkMembersTagged
  <2>0. SUFFICES ASSUME StagesDone, source \in Sources, Written,
                        NEW s \in DOMAIN segments, NEW m \in source.segments[s].members,
                        m.mode = "trunk", ~(m.keyed /\ m.vlan = NoVlan)
                 PROVE  \E r \in segments[s].members :
                           /\ Endpoint(r) = Endpoint(m) /\ ValidVlan(r.vlan)
                           /\ r.vlan \in {m.vlan, segments[s].vlan}
    BY DEF TrunkMembersTagged, SourceOK
  <2> DEFINE old == source.segments[s]
  <2>1. SegmentsDone
    BY <2>0 DEF StagesDone, Written
  <2>2. s \in DOMAIN source.segments /\ segments[s].vlan = old.vlan
    BY <2>0, <2>1, MembersResolved
  <2>3. PICK r \in segments[s].members :
               Endpoint(r) = Endpoint(m) /\ r.vlan = MemberVlan(m, old)
    BY <2>0, <2>1, MembersResolved
  <2>4. ValidMember(m, old) /\ (old.vlan # NoVlan => ValidVlan(old.vlan))
    BY <2>0, <2>1, <2>2 DEF SegmentsDone, ValidSegments, ValidSegment
  <2>5. CASE m.keyed
    <3>1. MemberVlan(m, old) = m.vlan /\ ValidVlan(m.vlan)
      BY <2>0, <2>4, <2>5 DEF MemberVlan, ValidMember
    <3>2. QED BY <2>3, <3>1
  <2>6. CASE ~m.keyed
    <3>1. m.vlan = NoVlan
      BY <2>0, <2>2, <2>6, SourcesAssumption
    <3>2. MemberVlan(m, old) = old.vlan /\ ValidVlan(old.vlan)
      BY <2>0, <2>4, <2>6, <3>1 DEF MemberVlan, ValidMember
    <3>3. QED BY <2>2, <2>3, <3>2
  <2>7. QED BY <2>5, <2>6
<1>2. QED BY <1>1, StagesHold, SourceKept, PTL
=============================================================================
