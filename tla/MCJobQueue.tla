------------------------------ MODULE MCJobQueue ------------------------------
(* A small instance of JobQueue: jobs j1 and j2 of one instance, a.        *)
EXTENDS JobQueue, TLC

CONSTANTS j1, j2, a

OnOneInstance == (j1 :> a) @@ (j2 :> a)

CapOne == [i \in Instances |-> 1]
CapTwo == [i \in Instances |-> 2]

(* No statistics at all, and statistics with every subset of short ones.   *)
GpuTelemetry ==
  [gpu : {FALSE}, short : {{}}, tight : {{}}]
    \cup [gpu : {TRUE}, short : SUBSET Instances, tight : {{}}]

NoTelemetry == [gpu : {FALSE}, short : {{}}, tight : {{}}]

(* Jobs of one instance are interchangeable.                               *)
SameInstance == Permutations({j1, j2})
=============================================================================
