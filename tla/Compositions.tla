----------------------------- MODULE Compositions -----------------------------
(***************************************************************************)
(* One composition (core/ports.py, CompositionRun) advanced by the job     *)
(* queue (core/queue.py).  Member jobs are seen only as far as advancement *)
(* sees them: in the heap, popped but not begun, executing, closing; how   *)
(* the queue chooses among them is JobQueue's concern, so a scan here pops *)
(* any pending member and finds any others never admissible.               *)
(*                                                                         *)
(* The advancement functions call one another and cancel(), and none of    *)
(* them suspends, so each call from a task or a caller is one step.  They  *)
(* are written as functions on a record of the state they change.          *)
(***************************************************************************)
EXTENDS Integers, Sequences, FiniteSets, SequencesExt

CONSTANTS
  Nodes,       \* node ids
  Submissions  \* compositions that a caller may submit, valid or not

ASSUME CompositionAssumption ==
  \A s \in Submissions :
    s.order \in Seq(Nodes) /\ DOMAIN s.deps = Nodes

VARIABLES
  comp,       \* the composition: its nodes, and the producers that the
              \* OutputRefs of each name
  failFast,   \* composition.fail_fast
  status,     \* CompositionRun.status; "none" before the submit
  cancelled,  \* cancel_requested
  node,       \* node_runs[n].state
  job,        \* status of the node's member Job, "none" before it exists
  heap,       \* the nodes whose member Job is in _pending
  lane,       \* where the member's _execute_job task is
  asked       \* the nodes whose member Job is in _cancel_requested

composition == <<comp, failFast>>
vars == <<composition, status, cancelled, node, job, heap, lane, asked>>

TerminalNode == {"completed", "failed", "cancelled", "skipped"}

Init ==
  /\ comp \in Submissions
  /\ failFast \in BOOLEAN
  /\ status = "none"
  /\ cancelled = FALSE
  /\ node = [n \in Nodes |-> IF n \in ToSet(comp.order) THEN "pending" ELSE "none"]
  /\ job = [n \in Nodes |-> "none"]
  /\ heap = {}
  /\ lane = [n \in Nodes |-> "off"]
  /\ asked = {}

(* What the advancement functions work on, and how it becomes the state.   *)
Here == [status |-> status, node |-> node, job |-> job, heap |-> heap]

Become(c) ==
  /\ status' = c.status
  /\ node' = c.node
  /\ job' = c.job
  /\ heap' = c.heap

-----------------------------------------------------------------------------
(* CompositionRun.                                                         *)

Members == ToSet(comp.order)

(* Kahn's algorithm, a generation at a time.                               *)
Resolved(s) ==
  LET peel(done, k) == {n \in ToSet(s.order) : s.deps[n] \subseteq done}
  IN  FoldLeftDomain(peel, {}, s.order)

validate_composition_Cyclic(s) ==
  /\ IsInjective(s.order)
  /\ \A n \in ToSet(s.order) : s.deps[n] \subseteq ToSet(s.order)

validate_composition(s) ==
  /\ IsInjective(s.order)
  /\ \A n \in ToSet(s.order) : s.deps[n] \subseteq ToSet(s.order)
  /\ Resolved(s) = ToSet(s.order)

(* What depends on each node of each composition.                          *)
Downstream ==
  [s \in Submissions |-> [n \in Nodes |->
     LET reach(seen, k) == seen \cup {m \in Nodes : s.deps[m] \cap seen # {}}
     IN  FoldLeftDomain(reach, {n}, s.order) \ {n}]]

ready_nodes_Begun(c) ==
  {n \in Members :
     c.node[n] = "pending" /\ \A d \in comp.deps[n] : c.node[d] # "pending"}

ready_nodes(c) ==
  {n \in Members :
     c.node[n] = "pending" /\ \A d \in comp.deps[n] : c.node[d] = "completed"}

record_result(c, n, s) == [c EXCEPT !.node[n] = s]

skip_dependents(c, n) ==
  [c EXCEPT !.node = [m \in Nodes |->
     IF m \in Downstream[comp][n] /\ @[m] = "pending" THEN "skipped" ELSE @[m]]]

all_terminal(c) == \A n \in Members : c.node[n] \in TerminalNode

derive_terminal_status_NoIntent(c) ==
  LET some(s) == \E n \in Nodes : c.node[n] = s IN
  CASE some("failed") /\ failFast -> "failed"
    [] some("cancelled") /\ ~(some("failed") /\ failFast) -> "cancelled"
    [] OTHER -> "completed"

derive_terminal_status(c) ==
  LET some(s) == \E n \in Nodes : c.node[n] = s IN
  CASE cancelled -> "cancelled"
    [] ~cancelled /\ some("failed") /\ failFast -> "failed"
    [] ~cancelled /\ some("cancelled") /\ ~(some("failed") /\ failFast) -> "cancelled"
    [] OTHER -> "completed"

-----------------------------------------------------------------------------
(* JobQueue.                                                               *)

maybe_finalize_Again(c) ==
  IF all_terminal(c) THEN [c EXCEPT !.status = derive_terminal_status(c)] ELSE c

maybe_finalize(c) ==
  IF c.status = "running" /\ all_terminal(c)
    THEN [c EXCEPT !.status = derive_terminal_status(c)]
    ELSE c

(* Fail-fast housekeeping.  Each member cancelled here re-enters the       *)
(* advancement and this function, and the innermost call finalizes; by     *)
(* then every member it would cancel has been.                             *)
cancel_pending_members_Unrecorded(c) ==
  LET live == {n \in Nodes : c.node[n] = "running" /\ c.job[n] = "pending"}
  IN  [c EXCEPT
         !.node = [n \in Nodes |-> IF @[n] = "pending" THEN "cancelled" ELSE @[n]],
         !.job = [n \in Nodes |-> IF n \in live THEN "cancelled" ELSE @[n]],
         !.heap = @ \ live]

cancel_pending_members(c) ==
  LET live == {n \in Nodes : c.node[n] = "running" /\ c.job[n] = "pending"}
      d == [c EXCEPT
              !.node = [n \in Nodes |-> IF @[n] = "pending" \/ n \in live
                                        THEN "cancelled" ELSE @[n]],
              !.job = [n \in Nodes |-> IF n \in live THEN "cancelled" ELSE @[n]],
              !.heap = @ \ live]
  IN  IF live = {} THEN d ELSE maybe_finalize(d)

Poison(c, n) ==
  LET s == skip_dependents(c, n)
  IN  IF failFast /\ ~cancelled THEN cancel_pending_members(s) ELSE s

(* One node: those of broken have an OutputRef that does not resolve       *)
(* against the producer's result.                                          *)
start_node(c, n, broken) ==
  IF n \in broken
    THEN Poison(record_result(c, n, "failed"), n)
    ELSE [c EXCEPT !.node[n] = "running", !.job[n] = "pending", !.heap = @ \cup {n}]

(* What is ready is listed before the loop, in the order of the            *)
(* composition, and not looked at again.                                   *)
start_ready_nodes(c, broken) ==
  LET ready == ready_nodes(c)
      start(d, n) == IF n \in ready THEN start_node(d, n, broken) ELSE d
  IN  FoldLeft(start, c, comp.order)

advance_composition(c, n, broken) ==
  LET r == record_result(c, n, c.job[n])
  IN  maybe_finalize(IF c.job[n] = "completed" THEN start_ready_nodes(r, broken)
                                               ELSE Poison(r, n))

(* A member fails without having run.                                      *)
fail_member(c, n) == advance_composition([c EXCEPT !.job[n] = "failed"], n, {})

(* Only a kwarg taken from another node's result can fail to bind, when    *)
(* the node is to be started.                                              *)
Bound == {n \in Nodes : node[n] = "pending" /\ comp.deps[n] # {}}

-----------------------------------------------------------------------------

Submit ==
  /\ status = "none" /\ validate_composition(comp)
  /\ Become(IF comp.order = <<>> THEN [Here EXCEPT !.status = "completed"]
            ELSE start_ready_nodes([Here EXCEPT !.status = "running"], {}))
  /\ UNCHANGED <<composition, cancelled, lane, asked>>

(* One scan: dead are the never-admissible members, in heap order; the     *)
(* chosen one, if any, has its lane before the loop fails the dead, and is *)
(* launched after it, whatever the failures did to it.                     *)
Scan(dead, pick) ==
  LET gone == ToSet(dead) \cup pick IN
  /\ gone # {}
  /\ lane' = [n \in Nodes |-> IF n \in pick THEN "popped" ELSE lane[n]]
  /\ Become(FoldLeft(fail_member, [Here EXCEPT !.heap = @ \ gone], dead))
  /\ UNCHANGED <<composition, cancelled, asked>>

Launch(n) ==
  /\ lane[n] = "popped"
  /\ lane' = [lane EXCEPT ![n] = "executing"]
  /\ job' = [job EXCEPT ![n] = "running"]
  /\ UNCHANGED <<composition, status, cancelled, node, heap, asked>>

LaunchUnloaded(n) ==
  /\ lane[n] = "popped"
  /\ lane' = [lane EXCEPT ![n] = "off"]
  /\ Become(fail_member(Here, n))
  /\ UNCHANGED <<composition, cancelled, asked>>

(* The terminal status of an executing member, published while the task    *)
(* still awaits its progress poller (JobQueue!Settle).                     *)
Settle(n) ==
  /\ lane[n] = "executing"
  /\ lane' = [lane EXCEPT ![n] = "closing"]
  /\ \E s \in {"failed", IF n \in asked THEN "cancelled" ELSE "completed"} :
       job' = [job EXCEPT ![n] = s]
  /\ UNCHANGED <<composition, status, cancelled, node, heap, asked>>

Close(n) ==
  /\ lane[n] = "closing"
  /\ lane' = [lane EXCEPT ![n] = "off"]
  /\ \E broken \in SUBSET Bound : Become(advance_composition(Here, n, broken))
  /\ UNCHANGED <<composition, cancelled, asked>>

CancelJob(n) ==
  \/ /\ job[n] = "pending"
     /\ Become(advance_composition(
          [Here EXCEPT !.job[n] = "cancelled", !.heap = @ \ {n}], n, {}))
     /\ UNCHANGED <<composition, cancelled, lane, asked>>
  \/ /\ job[n] = "running"
     /\ asked' = asked \cup {n}
     /\ UNCHANGED <<composition, status, cancelled, node, job, heap, lane>>

(* cancel_requested is recorded first, so no housekeeping runs below it.   *)
CancelComposition ==
  LET live == {n \in Nodes : node[n] = "running" /\ job[n] = "pending"} IN
  /\ status = "running"
  /\ cancelled' = TRUE
  /\ node' = [n \in Nodes |-> IF node[n] = "pending" \/ n \in live
                              THEN "cancelled" ELSE node[n]]
  /\ job' = [n \in Nodes |-> IF n \in live THEN "cancelled" ELSE job[n]]
  /\ heap' = heap \ live
  /\ asked' = asked \cup {n \in Nodes : node[n] = "running" /\ job[n] = "running"}
  /\ status' = IF \A n \in Members : node'[n] \in TerminalNode THEN "cancelled"
                                                           ELSE status
  /\ UNCHANGED <<composition, lane>>

Member(n) ==
  Launch(n) \/ LaunchUnloaded(n) \/ Settle(n) \/ Close(n)

Scans ==
  \E out \in SUBSET heap : \E dead \in SetToSeqs(out) :
    \E pick \in {{}} \cup {{n} : n \in heap \ out} : Scan(dead, pick)

Progress == Scans \/ \E n \in Nodes : Member(n)

Next ==
  \/ Submit
  \/ Progress
  \/ \E n \in Nodes : CancelJob(n)
  \/ CancelComposition

Spec == Init /\ [][Next]_vars

(* The queue goes on: it serves what is pending (JobQueue!PendingServed),  *)
(* runs what it popped, and the calls come back.                           *)
FairSpec == Spec /\ WF_vars(Progress)

-----------------------------------------------------------------------------
(* Properties.                                                             *)

TypeOK ==
  /\ failFast \in BOOLEAN
  /\ status \in {"none", "running", "completed", "failed", "cancelled"}
  /\ cancelled \in BOOLEAN
  /\ node \in [Nodes -> {"none", "pending", "running"} \cup TerminalNode]
  /\ job \in [Nodes -> {"none", "pending", "running", "completed", "failed",
                        "cancelled"}]
  /\ heap \subseteq Nodes /\ asked \subseteq Nodes
  /\ lane \in [Nodes -> {"off", "popped", "executing", "closing"}]

(* A node that is running has a member job somebody will still bring to an *)
(* end; none waits for a job that was dropped, so the run can finish.      *)
RunningNodeHasJob ==
  \A n \in Nodes : node[n] = "running" => n \in heap \/ lane[n] # "off"

(* A member exists only once every producer it binds from has completed,   *)
(* and no producer's outcome is taken back while it exists.                *)
ProducersFirst ==
  \A n \in Nodes : job[n] # "none" => \A d \in comp.deps[n] : node[d] = "completed"

(* The run's verdict is given once and agrees with the members: under      *)
(* cancel_composition it is cancelled; without fail-fast no failure turns  *)
(* it failed; a completed fail-fast run has no failed member; and a        *)
(* best-effort run has its verdict only when no member is left to run, but *)
(* for one that was cancelled and is launched all the same.                *)
VerdictSound ==
  /\ cancelled => status \in {"running", "cancelled"}
  /\ status = "failed" => failFast
  /\ status = "completed" /\ failFast => \A n \in Nodes : node[n] # "failed"
  /\ status \in {"completed", "failed", "cancelled"} /\ ~failFast
       => \A n \in Members : node[n] \in TerminalNode

(* It is never changed, by whatever members end or are revived later.      *)
VerdictFinal ==
  [][(status \in {"completed", "failed", "cancelled"}) => status' = status]_vars

(* Every composition that was accepted reaches a verdict: none waits for   *)
(* itself, in a cycle that the validation let through, or for a member     *)
(* that nobody starts.                                                     *)
RunEnds == (status = "running") ~> (status \in {"completed", "failed", "cancelled"})
=============================================================================
