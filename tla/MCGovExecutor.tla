---------------------------- MODULE MCGovExecutor ----------------------------
(* GovExecutor for TLC: two proposals set the field to different values, a *)
(* third, constitutional one to the first value again.                     *)
EXTENDS GovExecutor, TLC

CONSTANTS e1, e2, p1, p2, s1, s2, v1, v2, none

Interchangeable == Permutations(Executor)

MCSets == (p1 :> v1) @@ (p2 :> v2)
=============================================================================
