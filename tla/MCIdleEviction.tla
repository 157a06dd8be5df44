---------------------------- MODULE MCIdleEviction ----------------------------
(* Two jobs on the instances x and y of a GPU of five units; z has no job  *)
(* and may be resident.                                                    *)
EXTENDS IdleEviction, TLC

CONSTANTS j, k, x, y, z

TwoJobs == <<j, k>>
Targeted == (j :> x) @@ (k :> y)
Peaks == (x :> 3) @@ (y :> 2) @@ (z :> 4)
Parts == (x :> {2, 3}) @@ (y :> {1, 2}) @@ (z :> {2, 4})
=============================================================================
