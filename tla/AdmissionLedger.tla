--------------------------- MODULE AdmissionLedger ---------------------------
(***************************************************************************)
(* What the job queue promises about concurrency, and nothing else: which  *)
(* jobs hold a lane, which of them was promised to run alone, and how much *)
(* GPU memory is set aside for each.  JobQueue implements this module; the *)
(* heap, the tasks, cancellation and history are all below this level.     *)
(***************************************************************************)
EXTENDS Integers, FiniteSets

CONSTANTS
  Jobs,       \* job ids
  Instances,  \* capability instance ids
  Inst,       \* the instance each job addresses
  Cap,        \* in-flight jobs an instance accepts (max_concurrent_requests)
  Lanes,      \* max_concurrent_lanes
  Budget,     \* gpu_total * gpu_headroom_fraction
  Footprints  \* the reservations a job may make, 0 for none

(* What the theorems about the ledger assume; JobQueue's own assumption     *)
(* gives it to the instance.                                               *)
LedgerAssumption ==
  /\ Inst \in [Jobs -> Instances]
  /\ Cap \in [Instances -> Nat \ {0}]
  /\ Lanes \in Nat \ {0}
  /\ Budget \in Nat
  /\ Footprints \subseteq Nat

VARIABLES
  running,    \* _running: the jobs holding a lane
  exclusive,  \* _running_exclusive: the jobs promised to run alone
  reserved    \* _gpu_reservations, 0 where the code has no entry

ledger == <<running, exclusive, reserved>>

InFlight(i) == {k \in running : Inst[k] = i}

UnderCap(j) == Cardinality(InFlight(Inst[j])) < Cap[Inst[j]]

(* A sum of reservations, counted unit by unit.                            *)
Units(r) == UNION {{j} \X (1 .. r[j]) : j \in Jobs}

Total(r) == Cardinality(Units(r))

Init ==
  /\ running = {}
  /\ exclusive = {}
  /\ reserved = [j \in Jobs |-> 0]

(* A job whose footprint is known joins the others.                        *)
AdmitShared(j, gpu) ==
  /\ j \notin running /\ running' = running \cup {j}
  /\ exclusive = {} /\ UNCHANGED exclusive
  /\ reserved' = [reserved EXCEPT ![j] = gpu]
  /\ Cardinality(running) < Lanes
  /\ UnderCap(j)
  /\ gpu > 0 => Total(reserved) + gpu =< Budget

(* A job nothing is known about, or whose footprint nothing can verify,    *)
(* gets the whole queue.                                                   *)
AdmitAlone(j, gpu) ==
  /\ running = {}
  /\ running' = {j}
  /\ exclusive' = {j}
  /\ reserved' = [reserved EXCEPT ![j] = gpu]

Release(j) ==
  /\ j \in running
  /\ running' = running \ {j}
  /\ exclusive' = exclusive \ {j}
  /\ reserved' = [reserved EXCEPT ![j] = 0]

Next ==
  \E j \in Jobs :
    \/ \E gpu \in Footprints : AdmitShared(j, gpu) \/ AdmitAlone(j, gpu)
    \/ Release(j)

Spec == Init /\ [][Next]_ledger

-----------------------------------------------------------------------------

LanesRespected == Cardinality(running) =< Lanes

AloneIsAlone == exclusive # {} => running = exclusive /\ Cardinality(running) = 1

CapRespected == \A i \in Instances : Cardinality(InFlight(i)) =< Cap[i]

BudgetRespected == exclusive = {} => Total(reserved) =< Budget

(* Lanes, exclusivity, per-instance caps and the GPU budget hold together, *)
(* whatever the order in which jobs are admitted and finish (the ladder of *)
(* _pop_next_admissible).                                                  *)
AdmissionSafe ==
  /\ LanesRespected
  /\ AloneIsAlone
  /\ CapRespected
  /\ BudgetRespected
=============================================================================
