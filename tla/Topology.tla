------------------------------ MODULE Topology ------------------------------
(***************************************************************************)
(* How render-topology.py turns the overlay part of an author's topology   *)
(* file into artifacts/topology.json: it validates and resolves segments,  *)
(* control plane, checks and faults in this order, for the dataplane it is *)
(* asked for, and writes a file only if nothing died on the way.           *)
(*                                                                         *)
(* Lists of mappings are sets here, so exact duplicates are not modelled;  *)
(* names, filters, thresholds and other values that are only copied or     *)
(* checked for their form are left out, as are the hosts and networks,     *)
(* whose names and VMIDs belong to Lifecycle.  A host.nic reference is the *)
(* pair <<host, nic>>, and is a member of a segment at most once.          *)
(***************************************************************************)
EXTENDS Naturals, FiniteSets

CONSTANTS
    Nics,     \* host -> the names of its NICs
    Sources,  \* the topology files an author may write
    NoVlan    \* a VLAN key that is absent, blank or null

(* Segments are mappings whose VLAN may be absent; a key a member does not *)
(* have is absent.                                                         *)
ASSUME SourcesAssumption ==
    \A file \in Sources : \A s \in DOMAIN file.segments :
        /\ {"vlan", "members"} \subseteq DOMAIN file.segments[s]
        /\ \A m \in file.segments[s].members : m.keyed \/ m.vlan = NoVlan

Dataplanes == {"linux-vxlan", "pulsaros-dpdk", "pulsaros-netstack"}

VARIABLES
    source,     \* the topology file
    dataplane,  \* the dataplane it is rendered for
    pc,         \* where render is
    segments,   \* resolved: segment name -> segment
    control,    \* resolved control plane
    checks,     \* the checks this dataplane runs
    faults      \* the faults this dataplane runs

vars == <<source, dataplane, pc, segments, control, checks, faults>>

Static == [type |-> "static"]

Init ==
    /\ source \in Sources
    /\ dataplane \in Dataplanes
    /\ pc = "segments"
    /\ segments = <<>> /\ control = Static
    /\ checks = {} /\ faults = {}

HostRef(h)   == h \in DOMAIN Nics
NicRef(h, n) == HostRef(h) /\ n \in Nics[h]
Endpoint(m)  == <<m.host, m.nic>>

(* All VTEP entries and the hosts they are on.                             *)
Vteps(segs)     == UNION {segs[s].vteps : s \in DOMAIN segs}
VtepHosts(segs) == {v.host : v \in Vteps(segs)}
-----------------------------------------------------------------------------
(* Segments *)

ValidVlan(v) == v \in 1..4094
ValidVni(v)  == v \in 1..16777215

(* Mutant of ValidVtep: the underlay NIC may be a local NIC.               *)
ValidVtepReferences(v) ==
    NicRef(v.host, v.nic) /\ \A n \in v.local : NicRef(v.host, n)

ValidVtep(v) ==
    /\ NicRef(v.host, v.nic)
    /\ \A n \in v.local : n # v.nic /\ NicRef(v.host, n)

(* A member without a VLAN key and one with a blank one pass alike.        *)
ValidMember(m, segment) ==
    /\ NicRef(m.host, m.nic)
    /\ m.mode \in {"access", "trunk"}
    /\ m.vlan # NoVlan => ValidVlan(m.vlan) /\ m.mode = "trunk"
    /\ m.mode = "trunk" => m.vlan # NoVlan \/ segment.vlan # NoVlan

ValidSegment(segment) ==
    /\ ValidVni(segment.vni)
    /\ segment.vlan # NoVlan => ValidVlan(segment.vlan)
    /\ Cardinality(segment.vteps) >= 2
    /\ \A v \in segment.vteps : ValidVtep(v)
    /\ \A v, w \in segment.vteps : v.host = w.host => v = w
    /\ \A m \in segment.members : ValidMember(m, segment)

(* validate_segments: also, one underlay address per host.nic throughout.  *)
ValidSegments(segs) ==
    /\ \A s \in DOMAIN segs : ValidSegment(segs[s])
    /\ \A s, t \in DOMAIN segs : segs[s].vni = segs[t].vni => s = t
    /\ \A v, w \in Vteps(segs) : v.host = w.host /\ v.nic = w.nic => v.ip = w.ip

(* Mutant of MemberVlan: a trunk member needs a VLAN of its own.           *)
OwnVlanOnly(m, segment) == IF m.mode = "trunk" THEN m.vlan ELSE NoVlan

(* The VLAN of a member's subinterface: its own, else its segment's.  A key*)
(* that is present and blank counts as its own.                            *)
MemberVlan(m, segment) ==
    CASE m.mode = "access"              -> NoVlan
      [] m.mode = "trunk" /\ m.keyed    -> m.vlan
      [] m.mode = "trunk" /\ ~m.keyed   -> segment.vlan

(* resolve_segments *)
ResolveSegments(segs) ==
    [s \in DOMAIN segs |->
        [segs[s] EXCEPT !.members =
            {[host |-> m.host, nic |-> m.nic, mode |-> m.mode,
              vlan |-> MemberVlan(m, segs[s])] : m \in segs[s].members}]]
-----------------------------------------------------------------------------
(* Control plane *)

(* Mutant of RequestedControlPlane: the file's control plane, whatever the *)
(* dataplane.                                                              *)
ControlPlaneOfFile(cp, dp) == cp

(* Only the Linux dataplane may run FRR; the others get static peers.      *)
RequestedControlPlane(cp, dp) == IF dp = "linux-vxlan" THEN cp ELSE Static

(* validate_control_plane *)
ValidControlPlane(cp, segs) ==
    /\ cp.type \in {"static", "evpn"}
    /\ cp.type = "evpn" =>
        /\ DOMAIN segs # {}
        /\ cp.peering \in {"full_mesh", "route_reflector"}
        /\ cp.peering = "route_reflector" => cp.route_reflectors # {}
        /\ cp.peering = "full_mesh" => cp.route_reflectors = {}
        /\ cp.route_reflectors \subseteq VtepHosts(segs)

(* Mutant of OneUnderlayPerHost: the last VTEP entry of a host wins.       *)
LastUnderlayWins(segs) == TRUE

(* vtep_underlays dies if a host's VTEP entries differ.                    *)
OneUnderlayPerHost(segs) ==
    \A v, w \in Vteps(segs) : v.host = w.host => v.nic = w.nic /\ v.ip = w.ip

UnderlayAddress(segs, h) == (CHOOSE v \in Vteps(segs) : v.host = h).ip

Plan(hosts, cp) == INSTANCE EvpnPeering WITH
    VTEPs <- hosts, Peering <- cp.peering, RouteReflectors <- cp.route_reflectors

(* resolve_control_plane: what frr.conf of every VTEP host is made from.   *)
ResolveControlPlane(cp, segs) ==
    IF cp.type = "static" THEN Static
    ELSE [type |-> "evpn", peering |-> cp.peering,
          route_reflectors |-> cp.route_reflectors,
          hosts |-> [h \in VtepHosts(segs) |->
              [router_id |-> UnderlayAddress(segs, h),
               peers     |-> {[host |-> p, address |-> UnderlayAddress(segs, p)] :
                                 p \in Plan(VtepHosts(segs), cp)!Peers(h)},
               vnis      |-> {segs[s].vni : s \in DOMAIN segs}]]]
-----------------------------------------------------------------------------
(* Checks and faults *)

(* filter_for_dataplane *)
Selected(items, dp) == {i \in items : dp \in i.dataplanes}

(* validate_segment_ping_matrix_check *)
PairsOnSegment(item, segs) ==
    /\ item.segment \in DOMAIN segs
    /\ \A p \in item.pairs : \A e \in {p.source, p.destination} :
          \E m \in segs[item.segment].members : Endpoint(m) = e

FromHost    == {"ping", "packet_capture"}
WithCapture == {"packet_capture", "segment_bidirectional_capture"}
OnSegment   == {"segment_ping_matrix", "segment_bidirectional_capture",
                "segment_perf_probe"}
CheckTypes  == FromHost \cup WithCapture \cup OnSegment
                  \cup {"pktgen_dpdk", "evpn_control_plane"}

(* Mutant of ValidCheck: what a check refers to exists.                    *)
ValidCheckReferences(c, segs, cp) ==
    /\ c.type \in FromHost => HostRef(c.source[1])
    /\ c.type \in OnSegment => PairsOnSegment(c, segs)

(* validate_checks and the validators it calls, type by type.              *)
ValidCheck(c, segs, cp) ==
    /\ c.type \in CheckTypes
    /\ c.type \in FromHost => HostRef(c.source[1])
    /\ c.type = "pktgen_dpdk" => NicRef(c.source[1], c.source[2])
    /\ c.type \in WithCapture =>
          c.captures # {} /\ \A e \in c.captures : NicRef(e[1], e[2])
    /\ c.type \in OnSegment => PairsOnSegment(c, segs)
    /\ c.type = "evpn_control_plane" => cp.type = "evpn"

FaultTypes == {"remove_fdb_peer", "mtu_mismatch", "vlan_mismatch",
               "bounce_vtep_underlay", "bgp_peer_shutdown", "frr_restart"}
FrrFaults  == {"bgp_peer_shutdown", "frr_restart"}

(* A vlan_mismatch moves the source member of its pair; the VLAN it names  *)
(* must be another one than the member's.                                  *)
MovesTrunkMember(f, segs) ==
    \A p \in f.pairs : \E m \in segs[f.segment].members :
        /\ Endpoint(m) = p.source /\ m.mode = "trunk"
        /\ f.fault_vlan # NoVlan =>
              /\ ValidVlan(f.fault_vlan)
              /\ m.vlan # NoVlan /\ m.vlan # f.fault_vlan

(* validate_faults *)
ValidFault(f, segs, cp) ==
    /\ f.type \in FaultTypes
    /\ f.type \in FrrFaults => cp.type = "evpn"
    /\ PairsOnSegment(f, segs) /\ Cardinality(f.pairs) = 1
    /\ f.type = "vlan_mismatch" => MovesTrunkMember(f, segs)
    /\ f.type = "remove_fdb_peer" => cp.type # "evpn"
-----------------------------------------------------------------------------
(* render, call by call; a call that dies leaves the rendering refused.     *)

Refuse == pc' = "refused"

RenderSegments ==
    /\ pc = "segments"
    /\ \/ /\ ValidSegments(source.segments)
          /\ segments' = ResolveSegments(source.segments)
          /\ pc' = "control_plane"
       \/ /\ ~ValidSegments(source.segments)
          /\ Refuse /\ UNCHANGED segments
    /\ UNCHANGED <<source, dataplane, control, checks, faults>>

RenderControlPlane ==
    /\ pc = "control_plane"
    /\ LET cp    == RequestedControlPlane(source.control_plane, dataplane)
           valid == /\ ValidControlPlane(cp, segments)
                    /\ cp.type = "evpn" => OneUnderlayPerHost(segments) IN
       \/ /\ valid
          /\ control' = ResolveControlPlane(cp, segments)
          /\ pc' = "checks"
       \/ ~valid /\ Refuse /\ UNCHANGED control
    /\ UNCHANGED <<source, dataplane, segments, checks, faults>>

RenderChecks ==
    /\ pc = "checks"
    /\ LET selected == Selected(source.checks, dataplane)
           valid    == \A c \in selected : ValidCheck(c, segments, control) IN
       \/ valid /\ checks' = selected /\ pc' = "faults"
       \/ ~valid /\ Refuse /\ UNCHANGED checks
    /\ UNCHANGED <<source, dataplane, segments, control, faults>>

RenderFaults ==
    /\ pc = "faults"
    /\ LET selected == Selected(source.faults, dataplane)
           valid    == \A f \in selected : ValidFault(f, segments, control) IN
       \/ valid /\ faults' = selected /\ pc' = "written"
       \/ ~valid /\ Refuse /\ UNCHANGED faults
    /\ UNCHANGED <<source, dataplane, segments, control, checks>>

Next == RenderSegments \/ RenderControlPlane \/ RenderChecks \/ RenderFaults

Spec == Init /\ [][Next]_vars
-----------------------------------------------------------------------------
(* Properties *)

Written     == pc = "written"
EvpnWritten == Written /\ control.type = "evpn"

(* The address that frr.conf of one VTEP gives for a peer is the underlay  *)
(* address of that peer in every segment it takes part in, though the      *)
(* peering is planned per host and underlays are declared per segment.     *)
PeerAddressesAgree ==
    EvpnWritten =>
       \A h \in DOMAIN control.hosts : \A p \in control.hosts[h].peers :
          \A v \in Vteps(segments) : v.host = p.host => v.ip = p.address

(* Any two VTEPs of a written plan have a session or share a reflector     *)
(* that passes routes on between them, whatever peering was asked for.     *)
PlanCovers ==
    EvpnWritten =>
       LET hosts == DOMAIN control.hosts IN
       \A h, o \in hosts : h # o => Plan(hosts, control)!Covered(h, o)

(* Under EVPN no NIC that carries the underlay of one segment is enslaved  *)
(* to the bridge of this or another one, although validation compares the  *)
(* two within a segment only.                                              *)
UnderlayNeverBridged ==
    EvpnWritten =>
       \A v, w \in Vteps(segments) : v.host = w.host => v.nic \notin w.local

(* The checks and faults that reach the tests suit the control plane that  *)
(* the dataplane really gets: the file's, or static peers without FRR.     *)
WorkFitsControlPlane ==
    Written =>
       /\ control.type = "evpn" => dataplane = "linux-vxlan"
       /\ \A c \in checks : c.type = "evpn_control_plane" => control.type = "evpn"
       /\ \A f \in faults : /\ f.type \in FrrFaults => control.type = "evpn"
                            /\ f.type = "remove_fdb_peer" => control.type = "static"

(* Every trunk member has a VLAN for its subinterface, of its own or its   *)
(* segment's, unless its author left the key there and blank.              *)
TrunkMembersTagged ==
    Written =>
       \A s \in DOMAIN segments : \A m \in source.segments[s].members :
          m.mode = "trunk" /\ ~(m.keyed /\ m.vlan = NoVlan) =>
             \E r \in segments[s].members :
                /\ Endpoint(r) = Endpoint(m) /\ ValidVlan(r.vlan)
                /\ r.vlan \in {m.vlan, segments[s].vlan}

(* The VNIs configure_vteps gives h a VXLAN device for: those of the       *)
(* segments h is a VTEP of.                                                *)
ConfiguredVnis(h) ==
    {segments[s].vni : s \in {t \in DOMAIN segments :
                                  \E v \in segments[t].vteps : v.host = h}}

(* FRR reports the expected VNIs: every VNI the plan makes the check       *)
(* expect of a VTEP is one this VTEP is configured for.                    *)
ExpectedVnisConfigured ==
    EvpnWritten =>
       \A h \in DOMAIN control.hosts : control.hosts[h].vnis \subseteq ConfiguredVnis(h)
=============================================================================
