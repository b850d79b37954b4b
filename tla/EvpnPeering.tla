---------------------------- MODULE EvpnPeering ----------------------------
(***************************************************************************)
(* The BGP peers that render-topology.py resolves for every VTEP of an     *)
(* EVPN topology, as constant-level operators.  Addresses, router ids and  *)
(* VNIs that resolve_control_plane copies along are left out.              *)
(***************************************************************************)
CONSTANTS
    VTEPs,           \* segment_vtep_hosts: the hosts with VXLAN end points
    Peering,         \* control_plane.peering
    RouteReflectors  \* control_plane.route_reflectors

(* What validate_control_plane lets pass.                                  *)
ASSUME ControlPlaneAssumption ==
    /\ Peering \in {"full_mesh", "route_reflector"}
    /\ Peering = "route_reflector" => RouteReflectors # {}
    /\ Peering = "full_mesh" => RouteReflectors = {}
    /\ RouteReflectors \subseteq VTEPs

(* Mutant of Peers: reflectors peer with their clients only.               *)
PeersOfClients(h) ==
    IF Peering = "full_mesh" THEN VTEPs \ {h}
    ELSE IF h \in RouteReflectors THEN VTEPs \ RouteReflectors
    ELSE RouteReflectors

(* resolve_control_plane: the neighbors frr.conf of h will have.           *)
Peers(h) ==
    IF Peering = "full_mesh" \/ h \in RouteReflectors
    THEN VTEPs \ {h}
    ELSE RouteReflectors

(* The route_reflector_client flag of h's neighbor p.                      *)
Client(h, p) == h \in RouteReflectors /\ p \notin RouteReflectors

(* h and o have a session, or a reflector that may pass o's routes on to h.*)
Covered(h, o) ==
    \/ o \in Peers(h) /\ h \in Peers(o)
    \/ \E r \in RouteReflectors :
          /\ r \in Peers(h) /\ h \in Peers(r)
          /\ r \in Peers(o) /\ o \in Peers(r)
          /\ Client(r, h) \/ Client(r, o)
=============================================================================
