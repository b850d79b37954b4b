---------------------------- MODULE MCEvpnRouting ---------------------------
(***************************************************************************)
(* The bundled control planes with reflectors: one, and two of them.       *)
(***************************************************************************)
EXTENDS EvpnRouting, TLC

CONSTANTS va, vb, vc, vd

(* Two reflectors are alike, and so are two clients of theirs.             *)
DualSymmetry ==
    {p \in Permutations({va, vb, vc, vd}) : {p[va], p[vb]} = {va, vb}}
=============================================================================
