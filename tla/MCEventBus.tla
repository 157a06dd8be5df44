------------------------------ MODULE MCEventBus ------------------------------
(* A composition of two members, or a job and a member, and a follower. *)
EXTENDS EventBus, TLC

CONSTANTS a, b, f1

(* b becomes ready when a completes.                                       *)
Chain == (a :> {b}) @@ (b :> {})

(* The instance of b is ambient, and b asks for full accounting.           *)
Classes == (a :> "full") @@ (b :> "ambient")
Asks == (a :> None) @@ (b :> "full")

Keys == (f1 :> a)

Chatter == (a :> 0) @@ (b :> 1)
=============================================================================
