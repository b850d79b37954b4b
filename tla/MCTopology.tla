----------------------------- MODULE MCTopology -----------------------------
(***************************************************************************)
(* Topology files an author may write, as a product of drafts of their     *)
(* parts: three hosts with two NICs, two segments, right and wrong.        *)
(***************************************************************************)
EXTENDS Topology

CONSTANTS ha, hb, hc, access, under

MCNics == [h \in {ha, hb, hc} |-> {access, under}]

vtep(h, nic, ip, local) == [host |-> h, nic |-> nic, ip |-> ip, local |-> local]

West      == vtep(ha, under, 1, {access})
East      == vtep(hb, under, 2, {access})
South     == vtep(hc, under, 3, {access})
Swapped   == vtep(ha, access, 4, {under})
Renumbered == vtep(ha, under, 4, {})
Looped    == vtep(hb, under, 2, {under})

LeftVteps  == {{West, East}, {West, East, South}, {West}, {West, Looped}}
RightVteps == {{West, East}, {East, South}, {Swapped, East}, {Renumbered, East},
               {West, Swapped}}

member(h, mode, vlan, keyed) ==
    [host |-> h, nic |-> access, mode |-> mode, vlan |-> vlan, keyed |-> keyed]

Members == {{member(ha, "access", NoVlan, FALSE), member(hb, "access", NoVlan, FALSE)}}
    \cup {{member(ha, "trunk", v, TRUE), member(hb, "access", NoVlan, FALSE)} :
              v \in {30, 4095, NoVlan}}
    \cup {{member(ha, "trunk", NoVlan, FALSE), member(hb, "access", NoVlan, FALSE)}}

LeftSegments  == [vni : {10}, vlan : {20, NoVlan}, vteps : LeftVteps, members : Members]
RightSegments == [vni : {10, 11}, vlan : {NoVlan}, vteps : RightVteps, members : {{}}]

MCSegments == [{"left"} -> LeftSegments]
    \cup {[left |-> l, right |-> r] : l \in LeftSegments, r \in RightSegments}

evpn(peering, reflectors) ==
    [type |-> "evpn", peering |-> peering, route_reflectors |-> reflectors]

ControlPlanes == {Static, evpn("full_mesh", {}), evpn("full_mesh", {ha}),
                  evpn("route_reflector", {}), evpn("route_reflector", {hc}),
                  evpn("route_reflector", {ha, hb})}

LinuxOnly == {"linux-vxlan"}
Path      == [source |-> <<ha, access>>, destination |-> <<hb, access>>]

check(type, s, dps) == [type |-> type, source |-> <<ha, access>>,
                        captures |-> {<<ha, under>>}, segment |-> s,
                        pairs |-> {Path}, dataplanes |-> dps]

MCChecks == {{}, {check("evpn_control_plane", "left", LinuxOnly),
                  check("segment_bidirectional_capture", "left", Dataplanes)},
             {check("evpn_control_plane", "left", Dataplanes)},
             {check("segment_ping_matrix", "right", LinuxOnly)}}

fault(type, vlan, dps) == [type |-> type, segment |-> "left", pairs |-> {Path},
                           fault_vlan |-> vlan, dataplanes |-> dps]

MCFaults == {{}, {fault("bgp_peer_shutdown", NoVlan, LinuxOnly),
                  fault("remove_fdb_peer", NoVlan, Dataplanes \ LinuxOnly)},
             {fault("remove_fdb_peer", NoVlan, Dataplanes)},
             {fault("vlan_mismatch", 20, Dataplanes)}}

MCSources == [segments : MCSegments, control_plane : ControlPlanes,
              checks : MCChecks, faults : MCFaults]
=============================================================================
