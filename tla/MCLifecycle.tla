----------------------------- MODULE MCLifecycle ----------------------------
(***************************************************************************)
(* Small instances of Lifecycle: two hosts and two runs are the least that *)
(* let VMIDs of different runs overlap and workers overlap in time; the    *)
(* third host is one that only the reference topology has.                 *)
(***************************************************************************)
EXTENDS Lifecycle, TLC

CONSTANTS a, b, c, left

(* Consecutive offsets: with runs 1 and 2, host b of run 1 and host a of   *)
(* run 2 have the same VMID.                                               *)
MCOffset == [h \in AllHosts |-> CASE h = a -> 1 [] h = b -> 2 [] OTHER -> 3]
MCOrder  == [x \in AllHosts \cup Nets |-> CASE x = a -> 1 [] x = b -> 2 [] OTHER -> 3]
=============================================================================
