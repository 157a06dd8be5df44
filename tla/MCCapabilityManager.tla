-------------------------- MODULE MCCapabilityManager --------------------------
(* Two instances of one capability: d is the default one, named after it,  *)
(* and x an extra one with a generated id.                                 *)
EXTENDS CapabilityManager

CONSTANTS d, x

DefaultLimits == [i \in Ids |-> IF i = d THEN {0, 1, 2} ELSE {0}]

OneCapability == [i \in Ids |-> d]
=============================================================================
