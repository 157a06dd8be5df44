------------------------------- MODULE EventBus -------------------------------
(***************************************************************************)
(* The event bus of JobQueue (core/queue.py) on its journal                *)
(* (core/journal_store.py): every emission is first a durable row, then a  *)
(* put into the bounded queue of each subscriber.  Jobs are seen as far as *)
(* emission sees them; JobQueue says which of them are admitted.           *)
(*                                                                         *)
(* A step of the event loop that emits leaves what it emits in todo, and   *)
(* nothing else runs on the loop until Emit has worked that off.           *)
(***************************************************************************)
EXTENDS Integers, Sequences, FiniteSets, SequencesExt

CONSTANTS
  Jobs,
  Alone,        \* jobs that may be submitted each for itself
  Roots,        \* members of a composition without producers
  Unlocks,      \* the members whose last producer each job is
  Declared,     \* get_observability_class of each job's instance
  Shared,       \* jobs of an instance that takes several calls
  Override,     \* control["observability"] of each job, or None
  None,
  Followers,    \* consumers of an event stream
  Key,          \* the key each subscribes to: a job, Comp, or All
  Comp, All,
  MaxQueue,     \* SUBSCRIBER_QUEUE_MAXSIZE
  MaxHistory,   \* max_history
  MaxExtra,     \* bound of the model: repeatable emissions of a job
  MaxFailures,  \* bound of the model: appends that fail
  MaxRestarts   \* bound of the model: crashes of the host

ASSUME BusAssumption ==
  /\ IsFiniteSet(Jobs)
  /\ Alone \subseteq Jobs /\ Roots \subseteq Jobs /\ Unlocks \in [Jobs -> SUBSET Jobs]
  /\ Shared \subseteq Jobs
  /\ Declared \in [Jobs -> {"full", "ambient"}]
  /\ Override \in [Jobs -> {"full", "ambient", None}]
  /\ Key \in [Followers -> Jobs \cup {Comp, All}]
  /\ Comp \notin Jobs /\ All \notin Jobs /\ Comp # All
  /\ MaxQueue \in Nat \ {0} /\ MaxHistory \in Nat \ {0}
  /\ MaxExtra \in [Jobs -> Nat] /\ MaxFailures \in Nat /\ MaxRestarts \in Nat

VARIABLES
  composed,  \* whether the jobs are submitted as a composition
  status,    \* Job.status; "none" before it exists, "lost" after a crash
  stage,     \* where the job is: out, heap, popped, lane, ending
  asked,     \* _cancel_requested
  phase,     \* jobs whose task is in the cooperative phase
  blocked,   \* jobs with a block_reason
  extra,     \* repeatable emissions so far
  known,     \* _jobs
  history,   \* _history
  todo,      \* what the current step has still to emit
  occurred,  \* every emission there was, and whether the gate let it in
  journal,   \* committed rows, as positions in occurred
  open,      \* rows of a transaction whose commit failed
  wedged,    \* _journal_wedged
  broken,    \* the emissions whose append raised
  restarts,
  told,      \* the status the waiters of a job were woken with
  on,        \* the consumers that are registered
  queue,     \* the queue of each consumer
  dropped,   \* its dropped_count
  view       \* what it read: rows it queried, then events it was handed

runVars == <<composed, restarts>>
jobVars == <<status, stage, asked, phase, blocked, extra, known, history, told>>
logVars == <<occurred, journal, open, wedged, broken>>
subVars == <<on, queue, dropped, view>>
vars == <<jobVars, todo, logVars, runVars, subVars>>

TerminalStatus == {"completed", "failed", "cancelled"}

(* LIVENESS_EVENT_TYPES are never journaled; an ambient job keeps only     *)
(* what went wrong or was out of the ordinary.                             *)
Liveness == {"progress"}
Precious == {"failed", "cancelled", "cooperative", "force", "reloading", "resolved",
             "blocked", "unblocked", "retry"}

Members == IF composed THEN Roots \cup UNION {Unlocks[j] : j \in Jobs} ELSE {}

Init ==
  /\ composed \in BOOLEAN
  /\ status = [j \in Jobs |-> "none"]
  /\ stage = [j \in Jobs |-> "out"]
  /\ asked = {} /\ phase = {} /\ blocked = {} /\ known = {}
  /\ extra = [j \in Jobs |-> 0]
  /\ history = <<>> /\ todo = <<>>
  /\ occurred = <<>> /\ journal = <<>> /\ open = <<>>
  /\ wedged = FALSE
  /\ broken = {} /\ restarts = 0
  /\ told = [j \in Jobs |-> None]
  /\ on = {}
  /\ queue = [f \in Followers |-> <<>>]
  /\ dropped = [f \in Followers |-> 0]
  /\ view = [f \in Followers |-> <<>>]

Idle == todo = <<>>

Event(j, kind) == [job |-> j, kind |-> kind]

(* The elements of s that are in S, in their order.                        *)
Only(s, S) ==
  LET kept[i \in 0 .. Len(s)] ==
        IF i = 0 THEN <<>>
        ELSE IF s[i] \in S THEN Append(kept[i - 1], s[i]) ELSE kept[i - 1]
  IN  kept[Len(s)]

-----------------------------------------------------------------------------
(* Publication.                                                            *)

(* _instance_observability: an override wins over the declared class.      *)
Class(j, override) ==
  IF override \in {"full", "ambient"} THEN override ELSE Declared[j]

Admits_Declared(e) ==
  e.kind \notin Liveness /\ (Declared[e.job] = "full" \/ e.kind \in Precious)

(* The gate: _journal_admits looks the job up for its override, the        *)
(* dispatch loop has it at hand.                                           *)
Admits(e) ==
  CASE e.kind \in Liveness -> FALSE
    [] e.kind = "admitted" -> Class(e.job, Override[e.job]) = "full"
    [] OTHER ->
         \/ Class(e.job, IF e.job \in known THEN Override[e.job] ELSE None) = "full"
         \/ e.kind \in Precious

(* _subscriber_keys_for.  An admission is a row only.                      *)
Reaches(f, e) ==
  /\ e.kind # "admitted"
  /\ Key[f] \in {All, e.job} \cup (IF e.job \in Members THEN {Comp} ELSE {})

AppendRow_Rollback(n) ==
  \/ /\ journal' = Append(journal, n) \o open
     /\ open' = <<>>
     /\ UNCHANGED <<wedged, broken>>
  \/ /\ Cardinality(broken) < MaxFailures
     /\ broken' = broken \cup {n}
     /\ wedged' = TRUE
     /\ open' \in {open, Append(open, n)}
     /\ UNCHANGED journal

(* append: the INSERT fails, or the commit, and then the row stays in the  *)
(* transaction that the next append of this connection commits.            *)
AppendRow(n) ==
  \/ /\ journal' = Append(journal \o open, n)
     /\ open' = <<>>
     /\ UNCHANGED <<wedged, broken>>
  \/ /\ Cardinality(broken) < MaxFailures
     /\ broken' = broken \cup {n}
     /\ wedged' = TRUE
     /\ open' \in {open, Append(open, n)}
     /\ UNCHANGED journal

Rows == ToSet(journal) \cup ToSet(open)

(* Put to each subscriber, or count the drop.                              *)
FanOut(e, n) ==
  LET full == {f \in on : Reaches(f, e) /\ Len(queue[f]) = MaxQueue} IN
  /\ queue' = [f \in Followers |-> IF f \in on \ full /\ Reaches(f, e)
                                   THEN Append(queue[f], n) ELSE queue[f]]
  /\ dropped' = [f \in Followers |-> IF f \in full THEN dropped[f] + 1 ELSE dropped[f]]

(* _publish_event.                                                         *)
Emit ==
  /\ todo # <<>>
  /\ LET e == Head(todo)
         n == Len(occurred) + 1
     IN  /\ occurred' = Append(occurred, e)
         /\ IF Admits(e) THEN AppendRow(n)
                         ELSE UNCHANGED <<journal, open, wedged, broken>>
         /\ FanOut(e, n)
  /\ todo' = Tail(todo)
  /\ UNCHANGED <<jobVars, runVars, on, view>>

-----------------------------------------------------------------------------
(* The handlers that emit.                                                 *)

Enqueued(S) ==
  /\ status' = [j \in Jobs |-> IF j \in S THEN "pending" ELSE status[j]]
  /\ stage' = [j \in Jobs |-> IF j \in S THEN "heap" ELSE stage[j]]
  /\ known' = known \cup S

(* submit and submit_composition refuse while the journal is wedged.       *)
Submit(j) ==
  /\ Idle /\ ~wedged
  /\ ~composed /\ j \in Alone /\ status[j] = "none"
  /\ Enqueued({j})
  /\ UNCHANGED <<asked, phase, blocked, extra, history, told, todo, logVars, runVars,
                 subVars>>

SubmitComposition ==
  /\ Idle /\ ~wedged
  /\ composed /\ \A j \in Roots : status[j] = "none"
  /\ Enqueued(Roots)
  /\ UNCHANGED <<asked, phase, blocked, extra, history, told, todo, logVars, runVars,
                 subVars>>

(* _signal_job_completed, while the job can be waited for, and             *)
(* _move_to_history; the jobs in new are enqueued by the same step.        *)
File(j, s, new) ==
  LET filed == Append(history, j)
      over == Len(filed) > MaxHistory
  IN  /\ told' = IF j \in known THEN [told EXCEPT ![j] = s] ELSE told
      /\ history' = IF over THEN Tail(filed) ELSE filed
      /\ known' = (known \ (IF over THEN {Head(filed)} ELSE {})) \cup new

(* cancel() of a pending job.  One that is popped already will still run.  *)
CancelPending(j) ==
  /\ Idle /\ j \in known /\ status[j] = "pending"
  /\ status' = [status EXCEPT ![j] = "cancelled"]
  /\ stage' = [stage EXCEPT ![j] = IF @ = "heap" THEN "out" ELSE @]
  /\ File(j, "cancelled", {})
  /\ todo' = <<Event(j, "cancelled")>>
  /\ UNCHANGED <<asked, phase, blocked, extra, logVars, runVars, subVars>>

CancelRunning(j) ==
  /\ Idle /\ j \in known /\ status[j] = "running"
  /\ asked' = asked \cup {j}
  /\ UNCHANGED <<status, stage, phase, blocked, extra, known, history, told, todo,
                 logVars, runVars, subVars>>

(* One pass of the dispatch loop: block reasons that change, then the job  *)
(* it launches, whose own reason is cleared by the same pass.              *)
BlockChange(j) == Event(j, IF j \in blocked THEN "unblocked" ELSE "blocked")

Scan(S, launch) ==
  /\ Idle
  /\ S \cup launch # {} /\ Cardinality(launch) =< 1
  /\ \A j \in S \cup launch : stage[j] = "heap"
  /\ \A j \in S \ blocked : extra[j] < MaxExtra[j]
  /\ S \cap launch = launch \cap blocked
  /\ blocked' = (blocked \ S) \cup (S \ blocked)
  /\ extra' = [j \in Jobs |-> IF j \in S \ blocked THEN extra[j] + 1 ELSE extra[j]]
  /\ stage' = [j \in Jobs |-> IF j \in launch THEN "popped" ELSE stage[j]]
  /\ \E order \in SetToSeqs(S) :
       todo' = [i \in DOMAIN order |-> BlockChange(order[i])]
                 \o [i \in 1 .. Cardinality(launch) |->
                       Event(CHOOSE j \in launch : TRUE, "admitted")]
  /\ UNCHANGED <<status, asked, phase, known, history, told, logVars, runVars, subVars>>

(* The pass found the job never admissible (_fail_never_admissible).       *)
FailNever(j) ==
  /\ Idle /\ stage[j] = "heap"
  /\ status' = [status EXCEPT ![j] = "failed"]
  /\ stage' = [stage EXCEPT ![j] = "ending"]
  /\ todo' = <<Event(j, "failed")>>
  /\ UNCHANGED <<asked, phase, blocked, extra, known, history, told, logVars, runVars,
                 subVars>>

(* _execute_job begins, whatever became of the job since its pop.          *)
StartJob(j) ==
  /\ Idle /\ stage[j] = "popped"
  /\ status' = [status EXCEPT ![j] = "running"]
  /\ stage' = [stage EXCEPT ![j] = "lane"]
  /\ todo' = <<Event(j, "running")>>
  /\ UNCHANGED <<asked, phase, blocked, extra, known, history, told, logVars, runVars,
                 subVars>>

Report(j, kind) ==
  /\ Idle /\ extra[j] < MaxExtra[j]
  /\ extra' = [extra EXCEPT ![j] = @ + 1]
  /\ todo' = <<Event(j, kind)>>
  /\ UNCHANGED <<status, stage, asked, phase, blocked, known, history, told, logVars,
                 runVars, subVars>>

PollProgress_Late(j) == stage[j] \in {"lane", "ending"} /\ Report(j, "progress")

(* _poll_progress, with its resource snapshots: cancelled by the step that *)
(* emits the end.                                                          *)
PollProgress(j) == stage[j] = "lane" /\ Report(j, "progress")

(* _on_manager_retry takes the first job in _running on the instance: one  *)
(* that has not begun or has ended, if another one's call retries.         *)
Retry(j) ==
  /\ stage[j] \in {"lane"} \cup (IF j \in Shared THEN {"popped", "ending"} ELSE {})
  /\ Report(j, "retry")

BeginCancel(j) ==
  /\ Idle /\ stage[j] = "lane" /\ j \in asked \ phase
  /\ phase' = phase \cup {j}
  /\ todo' = <<Event(j, "cooperative")>>
  /\ UNCHANGED <<status, stage, asked, blocked, extra, known, history, told, logVars,
                 runVars, subVars>>

(* The end of _execute_with_cancellation, and the terminal transition:     *)
(* what precedes that depends on how the call came back.  (On some of      *)
(* these paths the id stays in _cancel_requested, where nobody looks at it *)
(* again.)                                                                 *)
Endings(j) ==
  LET answer == IF j \in asked THEN "cancelled" ELSE "completed" IN
  IF j \in phase
  THEN {<<"resolved", "cancelled">>, <<"failed">>, <<"cancelled">>,
        <<"force", "reloading", "failed">>,
        <<"force", "reloading", "resolved", "cancelled">>}
  ELSE {<<answer>>, <<"failed">>, <<"cancelled">>}

Settle(j) ==
  /\ Idle /\ stage[j] = "lane"
  /\ \E kinds \in Endings(j) :
       /\ todo' = [i \in DOMAIN kinds |-> Event(j, kinds[i])]
       /\ status' = [status EXCEPT ![j] = Last(kinds)]
  /\ stage' = [stage EXCEPT ![j] = "ending"]
  /\ asked' = asked \ {j}
  /\ UNCHANGED <<phase, blocked, extra, known, history, told, logVars, runVars, subVars>>

(* The job is filed and its waiters woken; a completed member enqueues     *)
(* what it unlocks, wedge or no wedge.                                     *)
Close(j) ==
  LET next == IF status[j] = "completed"
              THEN {k \in Unlocks[j] \cap Members : status[k] = "none"} ELSE {} IN
  /\ Idle /\ stage[j] = "ending"
  /\ File(j, status[j], next)
  /\ status' = [k \in Jobs |-> IF k \in next THEN "pending" ELSE status[k]]
  /\ stage' = [k \in Jobs |-> IF k \in next THEN "heap"
                              ELSE IF k = j THEN "out" ELSE stage[k]]
  /\ todo' = IF next = {} THEN <<>> ELSE <<Event(j, "advanced")>>
  /\ UNCHANGED <<asked, phase, blocked, extra, logVars, runVars, subVars>>

-----------------------------------------------------------------------------
(* Subscribers, and the journal's other users.                             *)

Wanted(f, n) == Key[f] \in {All, occurred[n].job}
                  \cup (IF occurred[n].job \in Members THEN {Comp} ELSE {})

(* query() for what the journal has, then the first step of the generator, *)
(* with no suspension in between.                                          *)
CatchUp(f) ==
  /\ Idle /\ f \notin on
  /\ on' = on \cup {f}
  /\ view' = [view EXCEPT ![f] = Only(journal \o open, {n \in Rows : Wanted(f, n)})]
  /\ UNCHANGED <<jobVars, todo, logVars, runVars, queue, dropped>>

Deliver(f) ==
  /\ Idle /\ f \in on /\ queue[f] # <<>>
  /\ view' = [view EXCEPT ![f] = Append(@, Head(queue[f]))]
  /\ queue' = [queue EXCEPT ![f] = Tail(@)]
  /\ UNCHANGED <<jobVars, todo, logVars, runVars, on, dropped>>

(* The finally of _subscribe.                                              *)
Leave(f) ==
  /\ Idle /\ f \in on
  /\ on' = on \ {f}
  /\ queue' = [queue EXCEPT ![f] = <<>>]
  /\ dropped' = [dropped EXCEPT ![f] = 0]
  /\ view' = [view EXCEPT ![f] = <<>>]
  /\ UNCHANGED <<jobVars, todo, logVars, runVars>>

(* A row of the manager's or a proxy's, through the same store.            *)
OtherAppend ==
  /\ Idle /\ open # <<>>
  /\ journal' = journal \o open
  /\ open' = <<>>
  /\ UNCHANGED <<jobVars, todo, occurred, wedged, broken, runVars, subVars>>

(* "Fix the journal store and reset _journal_wedged".                      *)
Reset ==
  /\ Idle /\ wedged
  /\ wedged' = FALSE
  /\ UNCHANGED <<jobVars, todo, occurred, journal, open, broken, runVars, subVars>>

(* The host dies, at any point of a step, and comes back with a new queue. *)
(* A waiter whose event is set runs only when the step is over.            *)
Restart ==
  /\ restarts < MaxRestarts
  /\ restarts' = restarts + 1 /\ UNCHANGED composed
  /\ status' = [j \in Jobs |-> IF stage[j] # "out" THEN "lost" ELSE status[j]]
  /\ stage' = [j \in Jobs |-> "out"]
  /\ asked' = {} /\ phase' = {} /\ blocked' = {} /\ known' = {}
  /\ history' = <<>> /\ todo' = <<>> /\ open' = <<>>
  /\ told' = [j \in Jobs |-> IF \E e \in ToSet(todo) : e.job = j THEN None ELSE told[j]]
  /\ wedged' = FALSE
  /\ on' = {}
  /\ queue' = [f \in Followers |-> <<>>]
  /\ dropped' = [f \in Followers |-> 0]
  /\ view' = [f \in Followers |-> <<>>]
  /\ UNCHANGED <<extra, occurred, journal, broken>>

Handle(j) ==
  \/ StartJob(j) \/ PollProgress(j) \/ Retry(j) \/ BeginCancel(j) \/ Settle(j) \/ Close(j)
  \/ FailNever(j)

Next ==
  \/ Emit
  \/ SubmitComposition \/ \E j \in Jobs : Submit(j)
  \/ \E j \in Jobs : CancelPending(j) \/ CancelRunning(j)
  \/ \E S \in SUBSET Jobs, launch \in SUBSET Jobs : Scan(S, launch)
  \/ \E j \in Jobs : Handle(j)
  \/ \E f \in Followers : CatchUp(f) \/ Deliver(f) \/ Leave(f)
  \/ OtherAppend \/ Reset \/ Restart

Spec == Init /\ [][Next]_vars

-----------------------------------------------------------------------------
TypeOK ==
  /\ status \in [Jobs -> {"none", "pending", "running", "lost"} \cup TerminalStatus]
  /\ stage \in [Jobs -> {"out", "heap", "popped", "lane", "ending"}]
  /\ {asked, phase, blocked, known} \subseteq SUBSET Jobs
  /\ Len(history) =< MaxHistory
  /\ told \in [Jobs -> TerminalStatus \cup {None}]
  /\ wedged \in BOOLEAN /\ broken \subseteq DOMAIN occurred
  /\ on \subseteq Followers
  /\ \A f \in Followers : Len(queue[f]) =< MaxQueue /\ dropped[f] \in Nat
  /\ Rows \subseteq DOMAIN occurred

(* The durable history has every end that a waiter was told of, across     *)
(* crashes of the host, except the completions of ambient jobs and rows    *)
(* whose append raised (and wedged the queue).                             *)
WaiterHasRecord ==
  \A j \in Jobs :
    /\ Idle /\ told[j] # None
    /\ told[j] # "completed" \/ Class(j, Override[j]) = "full"
    => \E n \in DOMAIN occurred :
         /\ occurred[n] = Event(j, told[j])
         /\ n \in ToSet(journal) \cup broken

(* "Late subscribers catch up exactly": what a follower read and what is   *)
(* waiting for it are, as far as they are rows, the rows it wants, each    *)
(* once and in order, unless an event was dropped, and counted.            *)
TailOfJournal ==
  \A f \in on :
    dropped[f] = 0 =>
      LET events == {n \in DOMAIN occurred : occurred[n].kind # "admitted" /\ Wanted(f, n)}
      IN  Only(view[f] \o queue[f], events \cap Rows) = Only(journal \o open, events)

(* No progress, and no new cancellation, is reported once the end of a job *)
(* was.                                                                    *)
NothingAfterTheEnd ==
  \A n \in DOMAIN occurred :
    occurred[n].kind \in {"progress", "cooperative"} =>
      LET before == {m \in 1 .. n - 1 : occurred[m].job = occurred[n].job
                                          /\ occurred[m].kind # "retry"}
      IN  before # {} => occurred[Max(before)].kind \notin TerminalStatus
=============================================================================
