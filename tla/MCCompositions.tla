---------------------------- MODULE MCCompositions ----------------------------
(* Small compositions: a diamond beside an independent node, every graph   *)
(* of three nodes without loops, and submissions to be refused.            *)
EXTENDS Compositions, TLC

CONSTANTS n1, n2, n3, n4, n5

Graph(list, producers) ==
  [order |-> list,
   deps |-> [n \in Nodes |-> IF n \in DOMAIN producers THEN producers[n] ELSE {}]]

(* n2 and n3 bind from n1, and n5 from both; n4 stands alone.              *)
Diamond == Graph(<<n1, n2, n3, n4, n5>>,
                 (n2 :> {n1}) @@ (n3 :> {n1}) @@ (n5 :> {n2, n3}))

Three == {n1, n2, n3}

Digraphs ==
  {Graph(<<n1, n2, n3>>, producers) :
     producers \in {f \in [Three -> SUBSET Three] : \A n \in Three : n \notin f[n]}}

Refused == {Graph(<<n1, n2, n1>>, n1 :> {}), Graph(<<n1, n2>>, n2 :> {n3}),
            Graph(<<n1>>, n1 :> {n1})}

Small == {Diamond, Graph(<<>>, n1 :> {})} \cup Digraphs \cup Refused
=============================================================================
