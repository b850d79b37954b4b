----------------------------- MODULE MCWaitSsh ------------------------------
(***************************************************************************)
(* Two runs of two hosts.  One VM may change its address, and the address  *)
(* it leaves may go to a host of the other run.                            *)
(***************************************************************************)
EXTENDS WaitSsh

CONSTANTS r1, r2, ha, hb, x1, x2, x3, x4

MCPool == [v \in {r1, r2} \X {ha, hb} |->
              CASE v = <<r1, ha>> -> {x1, x2}
                [] v = <<r1, hb>> -> {x3}
                [] v = <<r2, ha>> -> {x2}
                [] v = <<r2, hb>> -> {x4}]
=============================================================================
