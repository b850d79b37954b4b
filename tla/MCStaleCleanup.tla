--------------------------- MODULE MCStaleCleanup ---------------------------
(***************************************************************************)
(* Three runs, two of which share a suffix, and the VMIDs of two hosts     *)
(* whose names the script knows.                                           *)
(***************************************************************************)
EXTENDS StaleCleanup, TLC

CONSTANTS r1, r2, r3, v1, v2, s1, s2

MCSuffix == [r \in {r1, r2, r3} |-> IF r = r3 THEN s2 ELSE s1]

RunSymmetry == Permutations({r1, r2}) \cup Permutations({v1, v2})
=============================================================================
