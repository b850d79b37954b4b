---------------------------- MODULE MCFaultTests ----------------------------
(***************************************************************************)
(* Two reflectors va and vb with a client vc; a red segment on all three   *)
(* and two trunk clients.  Green and blue share the NIC of trunk client a, *)
(* and the VLAN after green's is blue's.                                   *)
(***************************************************************************)
EXTENDS FaultTests

CONSTANTS va, vb, vc, redA, redB, redC, greenA, greenB, blueA

MCVtep == [m \in {redA, redB, redC, greenA, greenB, blueA} |->
              CASE m = redC -> vc [] m \in {redB, greenB} -> vb [] OTHER -> va]

(* The client learns a reflector's routes from the other one, too; the two *)
(* reflectors have their own session only.                                 *)
Links  == {q \in {va, vb, vc} \X {va, vb, vc} : q[1] # q[2]}
MCWays == [q \in Links |->
               LET direct == {q, <<q[2], q[1]>>} IN
               {direct} \cup IF vc \in {q[1], q[2]} THEN {Links \ direct} ELSE {}]

Fault(type, source, destination, impact, taken) ==
    [type |-> type, segment |-> IF source = redA THEN "red" ELSE "green", source |-> source,
     destination |-> destination, impact |-> impact, taken |-> taken]

Peer  == Fault("bgp_peer_shutdown", redA, redB, "outage", None)
Spare == Fault("bgp_peer_shutdown", redA, redC, "no_outage", None)
Mtu   == Fault("mtu_mismatch", redA, redB, "outage", None)
Vlan  == Fault("vlan_mismatch", greenA, greenB, "outage", blueA)

MCFaults == <<Peer, Spare, Mtu, Vlan>>
MtuFault == <<Mtu>>
=============================================================================
