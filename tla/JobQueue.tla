------------------------------- MODULE JobQueue -------------------------------
(***************************************************************************)
(* core/queue.py, JobQueue: one asyncio event loop, so a step of this      *)
(* module is what runs between two suspension points.  No critical section *)
(* under self._lock awaits anything, so the lock is never contended and    *)
(* is no state here.  The tasks that interleave are the callers of submit, *)
(* cancel, reorder, start and stop, the dispatch loop (_process_loop), one *)
(* _execute_job task per lane, the capability calls these await, and the   *)
(* idle-eviction requests.                                                 *)
(***************************************************************************)
EXTENDS Integers, Sequences, FiniteSets

CONSTANTS
  Jobs,        \* the jobs that may be submitted
  Instances,   \* capability instance ids
  Inst,        \* the instance each job addresses
  Cap,         \* in-flight jobs an instance accepts, 1 unless it opted in
  Lanes,       \* max_concurrent_lanes
  Budget,      \* gpu_total * gpu_headroom_fraction
  Peaks,       \* the GPU peaks an empirical profile may hold
  Telemetry,   \* the answers _fetch_admission_stats may give
  Priorities,  \* the priorities a caller may ask for
  MaxHistory,  \* max_history
  MaxStarts    \* bound of the model: how often the queue is started

NoProfile == -1

ASSUME QueueAssumption ==
  /\ IsFiniteSet(Jobs)
  /\ Inst \in [Jobs -> Instances]
  /\ Cap \in [Instances -> Nat \ {0}]
  /\ Lanes \in Nat \ {0}
  /\ Budget \in Nat
  /\ Peaks \subseteq Nat
  /\ Telemetry \subseteq [gpu : BOOLEAN, short : SUBSET Instances,
                          tight : SUBSET Instances]
  /\ Priorities \subseteq Int
  /\ MaxHistory \in Nat \ {0}
  /\ MaxStarts \in Nat

VARIABLES
  status,     \* Job.status; "new" before submit
  pending,    \* _pending
  prio,       \* Job.priority
  arrival,    \* Job.submitted_at
  blocked,    \* the jobs whose block_reason is set
  running,    \* _running
  exclusive,  \* _running_exclusive
  reserved,   \* _gpu_reservations, 0 where there is no entry
  pc,         \* where the job's _execute_job task is suspended
  call,       \* the capability call awaited as exec_task
  cancelReq,  \* _cancel_requested
  phase,      \* Job.cancel_phase
  known,      \* keys of _jobs (and of _job_completed_events)
  history,    \* _history, oldest first
  signalled,  \* the jobs whose completion event was set
  profile,    \* admission profile of each instance: a GPU peak, or NoProfile
  available,  \* _job_available
  loop,       \* where _process_loop is
  flag,       \* _running_flag
  stopper,    \* where stop() is
  starts,     \* calls of start() so far
  evicting    \* the jobs an idle-eviction request is outstanding for

ledger == <<running, exclusive, reserved>>
heap   == <<pending, prio, arrival, blocked>>
task   == <<pc, call, cancelReq, phase>>
book   == <<known, history, signalled>>
sched  == <<available, loop, flag, stopper, starts, evicting>>

vars == <<status, heap, ledger, task, book, profile, sched>>

Terminal == {"completed", "failed", "cancelled"}

(* "created": create_task ran, the coroutine has not.  "calling": in the   *)
(* 0.1 s poll of exec_task.  "handshake": awaiting cancel_async().         *)
(* "grace": awaiting exec_task for cancel_timeout.  "closing": the status  *)
(* is terminal and published, the progress task is still being awaited.    *)
Suspended == {"calling", "handshake", "grace"}
Live == {"created", "closing"} \cup Suspended

(* "orphaned": exec_task was cancelled, the worker is still at the call.   *)
(* "dropped": exec_task was cancelled and the worker's call is over.       *)
Running == {"inflight", "orphaned"}

Ledger == INSTANCE AdmissionLedger WITH Footprints <- Peaks \cup {0}

Init ==
  /\ status = [j \in Jobs |-> "new"]
  /\ pending = {} /\ blocked = {}
  /\ prio = [j \in Jobs |-> 0]
  /\ arrival = [j \in Jobs |-> 0]
  /\ running = {} /\ exclusive = {}
  /\ reserved = [j \in Jobs |-> 0]
  /\ pc = [j \in Jobs |-> "none"]
  /\ call = [j \in Jobs |-> "none"]
  /\ cancelReq = {}
  /\ phase = [j \in Jobs |-> "none"]
  /\ known = {} /\ history = <<>> /\ signalled = {}
  /\ profile \in [Instances -> Peaks \cup {NoProfile}]
  /\ available = FALSE /\ loop = "exited" /\ flag = FALSE
  /\ stopper = "idle" /\ starts = 0 /\ evicting = {}

-----------------------------------------------------------------------------
(* Terminal bookkeeping.                                                   *)

(* _signal_job_completed and _move_to_history for the jobs of done, in     *)
(* that order: what falls out of the history is forgotten altogether.      *)
Overflow(h) == IF Len(h) > MaxHistory THEN Len(h) - MaxHistory ELSE 0

Retire_Unsignalled(done) ==
  LET h == history \o done
      cut == Overflow(h)
  IN  /\ signalled' = signalled
      /\ history' = [n \in 1 .. Len(h) - cut |-> h[n + cut]]
      /\ known' = known \ {h[n] : n \in 1 .. cut}

Retire(done) ==
  LET h == history \o done
      cut == Overflow(h)
  IN  /\ signalled' = signalled \cup {done[n] : n \in DOMAIN done}
      /\ history' = [n \in 1 .. Len(h) - cut |-> h[n + cut]]
      /\ known' = known \ {h[n] : n \in 1 .. cut}

(* The finalize section of _execute_job.                                   *)
Finalize_KeepsExclusive(j) ==
  /\ running' = running \ {j}
  /\ exclusive' = exclusive
  /\ reserved' = [reserved EXCEPT ![j] = 0]
  /\ Retire(<<j>>)
  /\ available' = TRUE

Finalize_NoWake(j) ==
  /\ running' = running \ {j}
  /\ exclusive' = exclusive \ {j}
  /\ reserved' = [reserved EXCEPT ![j] = 0]
  /\ Retire(<<j>>)
  /\ available' = available

Finalize(j) ==
  /\ running' = running \ {j}
  /\ exclusive' = exclusive \ {j}
  /\ reserved' = [reserved EXCEPT ![j] = 0]
  /\ Retire(<<j>>)
  /\ available' = TRUE

-----------------------------------------------------------------------------
(* Callers.                                                                *)

(* A submit refused by the journal wedge, half a task address or a         *)
(* disabled instance raises before anything changes: a stutter.            *)
Submit(j, p) ==
  /\ status[j] = "new"
  /\ status' = [status EXCEPT ![j] = "pending"]
  /\ prio' = [prio EXCEPT ![j] = p]
  /\ arrival' = [arrival EXCEPT
                   ![j] = Cardinality({k \in Jobs : status[k] # "new"}) + 1]
  /\ pending' = pending \cup {j}
  /\ known' = known \cup {j}
  /\ available' = TRUE
  /\ UNCHANGED <<blocked, ledger, task, history, signalled, profile,
                 loop, flag, stopper, starts, evicting>>

(* The job's status is what the code looks at, so this also takes a job    *)
(* the dispatch loop has popped and whose task has not run yet.            *)
CancelPending(j) ==
  /\ j \in known
  /\ status[j] = "pending"
  /\ status' = [status EXCEPT ![j] = "cancelled"]
  /\ pending' = pending \ {j}
  /\ Retire(<<j>>)
  /\ UNCHANGED <<prio, arrival, blocked, ledger, task, profile, sched>>

CancelRunning_Eager(j) ==
  /\ j \in known
  /\ status[j] = "running"
  /\ status' = [status EXCEPT ![j] = "cancelled"]
  /\ cancelReq' = cancelReq \cup {j}
  /\ UNCHANGED <<heap, ledger, pc, call, phase, book, profile, sched>>

CancelRunning(j) ==
  /\ j \in known
  /\ status[j] = "running"
  /\ cancelReq' = cancelReq \cup {j}
  /\ UNCHANGED <<status, heap, ledger, pc, call, phase, book, profile, sched>>

Reorder(j, p) ==
  /\ j \in known
  /\ status[j] = "pending"
  /\ prio' = [prio EXCEPT ![j] = p]
  /\ UNCHANGED <<status, pending, arrival, blocked, ledger, task, book,
                 profile, sched>>

-----------------------------------------------------------------------------
(* The admission ladder of _pop_next_admissible.  Telemetry t says whether *)
(* GPU statistics came back, which instances need more VRAM than is free   *)
(* once their own residency is credited, and which exceed free memory.     *)

Peak(j) == profile[Inst[j]]

InFlight(i) == {k \in running : Inst[k] = i}

UnderCap(j) == Cardinality(InFlight(Inst[j])) < Cap[Inst[j]]

Unverified(j, t) == Peak(j) = NoProfile \/ (Peak(j) > 0 /\ ~t.gpu)

Total(r) == Ledger!Total(r)

WithinLedger_Alone(j) == Peak(j) > 0 => Peak(j) =< Budget

WithinLedger(j) == Peak(j) > 0 => Total(reserved) + Peak(j) =< Budget

AdmitsAlone(j, t) ==
  /\ UnderCap(j)
  /\ Unverified(j, t)
  /\ running = {}

AdmitsShared(j, t) ==
  /\ UnderCap(j)
  /\ ~Unverified(j, t)
  /\ WithinLedger(j)
  /\ Peak(j) > 0 => Inst[j] \notin t.short
  /\ Inst[j] \notin t.tight

NeverFits(j, t) ==
  /\ UnderCap(j)
  /\ ~Unverified(j, t)
  /\ Peak(j) > Budget

(* Fits the budget, not the memory that resident models leave free.        *)
Starved(j, t) ==
  /\ UnderCap(j)
  /\ ~Unverified(j, t)
  /\ Peak(j) > 0
  /\ WithinLedger(j)
  /\ Inst[j] \in t.short

Open_Shared == Cardinality(running) < Lanes

Open == Cardinality(running) < Lanes /\ exclusive = {}

(* Job.__lt__                                                              *)
Ahead(j, k) ==
  \/ prio[j] > prio[k]
  \/ prio[j] = prio[k] /\ arrival[j] < arrival[k]

(* The job the scan stops at, in a set of at most one.                     *)
Chosen(t) ==
  {j \in pending :
     LET Admits(k) == AdmitsAlone(k, t) \/ AdmitsShared(k, t)
     IN  Open /\ Admits(j) /\ \A k \in pending : Ahead(k, j) => ~Admits(k)}

Examined(t) == {j \in pending : Open /\ \A k \in Chosen(t) : Ahead(j, k)}

Sorted(q) == \A m, n \in DOMAIN q : m < n => Ahead(q[m], q[n])

(* _emit_block_reason: the starved jobs get a reason, the launched loses it.*)
Blocked(thin, pick) == (blocked \cup thin) \ pick

(* Nothing is pending: the scan needs no telemetry, finds nothing and      *)
(* clears the event in the same step.                                      *)
WakeIdle ==
  /\ loop = "waiting" /\ available /\ flag
  /\ pending = {}
  /\ available' = FALSE
  /\ UNCHANGED <<status, heap, ledger, task, book, profile,
                 loop, flag, stopper, starts, evicting>>

WakeFetch ==
  /\ loop = "waiting" /\ available /\ flag
  /\ pending # {}
  /\ loop' = "fetching"
  /\ UNCHANGED <<status, heap, ledger, task, book, profile,
                 available, flag, stopper, starts, evicting>>

(* One pass of the dispatch loop after the telemetry is in: scan, surface  *)
(* block reasons, ask for at most one idle eviction (the per-job cooldown  *)
(* is time, hence a choice), fail the never-fits, launch the chosen job.   *)
Scan(t) ==
  LET dead == {j \in Examined(t) : NeverFits(j, t)}
      thin == {j \in Examined(t) : Starved(j, t)}
      pick == Chosen(t)
      alone == {j \in pick : Unverified(j, t)}
  IN
  /\ loop = "fetching"
  /\ pending' = pending \ (dead \cup pick)
  /\ running' = running \cup pick
  /\ exclusive' = exclusive \cup alone
  /\ reserved' = [j \in Jobs |-> IF j \in pick /\ Peak(j) > 0 THEN Peak(j)
                                                            ELSE reserved[j]]
  /\ pc' = [j \in Jobs |-> IF j \in pick THEN "created" ELSE pc[j]]
  /\ blocked' = Blocked(thin, pick)
  /\ status' = [j \in Jobs |-> IF j \in dead THEN "failed" ELSE status[j]]
  /\ \E q \in [1 .. Cardinality(dead) -> dead] : Sorted(q) /\ Retire(q)
  /\ \E ask \in SUBSET thin : Cardinality(ask) =< 1 /\ evicting' = evicting \cup ask
  /\ available' = (pick \cup dead # {})
  /\ loop' = IF flag THEN "waiting" ELSE "exited"
  /\ UNCHANGED <<prio, arrival, call, cancelReq, phase, profile,
                 flag, stopper, starts>>

(* _request_idle_eviction wakes the loop when the request returns; when it *)
(* freed something it wakes it again after the settle delay.               *)
EvictionWakes(j) ==
  /\ j \in evicting
  /\ available' = TRUE
  /\ \E settling \in BOOLEAN :
       evicting' = IF settling THEN evicting ELSE evicting \ {j}
  /\ UNCHANGED <<status, heap, ledger, task, book, profile,
                 loop, flag, stopper, starts>>

(* The empirical store is keyed by instance and configuration: a recorded  *)
(* run graduates an instance or raises its peak, a reconfiguration demotes *)
(* it to unprofiled.                                                       *)
ProfileChanges(i) ==
  /\ \E p \in Peaks \cup {NoProfile} : profile' = [profile EXCEPT ![i] = p]
  /\ UNCHANGED <<status, heap, ledger, task, book, sched>>

-----------------------------------------------------------------------------
(* _execute_job, one task per lane.                                        *)

StartJob(j) ==
  /\ pc[j] = "created"
  /\ status' = [status EXCEPT ![j] = "running"]
  /\ pc' = [pc EXCEPT ![j] = "calling"]
  /\ call' = [call EXCEPT ![j] = "inflight"]
  /\ UNCHANGED <<heap, ledger, cancelReq, phase, book, profile, sched>>

(* get_capability finds the instance unloaded: no call, no suspension.     *)
StartUnloaded(j) ==
  /\ pc[j] = "created"
  /\ status' = [status EXCEPT ![j] = "failed"]
  /\ pc' = [pc EXCEPT ![j] = "done"]
  /\ Finalize(j)
  /\ UNCHANGED <<heap, call, cancelReq, phase, profile,
                 loop, flag, stopper, starts, evicting>>

(* exec_task finishes.  "acked" is the proxy's CapabilityCancelledError,   *)
(* raised on the worker's 409 once this job's cancel signal has been sent; *)
(* one that a sibling's signal provoked counts among the errors.  The end  *)
(* of an orphaned call is told to nobody.                                  *)
CallReturns(j) ==
  /\ call[j] \in Running
  /\ \E r \in {"ok", "error", "acked", "dropped"} :
       /\ r = "acked" => j \in cancelReq /\ pc[j] # "calling"
       /\ r = "dropped" <=> call[j] = "orphaned"
       /\ call' = [call EXCEPT ![j] = r]
  /\ UNCHANGED <<status, heap, ledger, pc, cancelReq, phase, book, profile,
                 sched>>

(* The statuses _execute_job assigns once _execute_with_cancellation has   *)
(* returned a result or raised, and the cancellation flag it clears.       *)
Settle_Blind(j, result) ==
  /\ status' = [status EXCEPT ![j] =
                  CASE result = "cancelled" -> "cancelled"
                    [] result = "ok" -> "completed"
                    [] OTHER -> "failed"]
  /\ cancelReq' = cancelReq
  /\ pc' = [pc EXCEPT ![j] = "closing"]

Settle(j, result) ==
  /\ status' = [status EXCEPT ![j] =
                  CASE result = "cancelled" -> "cancelled"
                    [] result = "ok" /\ j \in cancelReq -> "cancelled"
                    [] result = "ok" /\ j \notin cancelReq -> "completed"
                    [] OTHER -> "failed"]
  /\ cancelReq' = IF result = "ok" THEN cancelReq \ {j} ELSE cancelReq
  /\ pc' = [pc EXCEPT ![j] = "closing"]

(* The poll loop finds exec_task done before it looks at the cancel flag.  *)
Observe(j) ==
  /\ pc[j] = "calling"
  /\ call[j] # "inflight"
  /\ Settle(j, call[j])
  /\ UNCHANGED <<heap, ledger, call, phase, book, profile, sched>>

BeginCancel(j) ==
  /\ pc[j] = "calling"
  /\ call[j] = "inflight"
  /\ j \in cancelReq
  /\ phase' = [phase EXCEPT ![j] = "cooperative"]
  /\ pc' = [pc EXCEPT ![j] = "handshake"]
  /\ UNCHANGED <<status, heap, ledger, call, cancelReq, book, profile, sched>>

HandshakeDone(j) ==
  /\ pc[j] = "handshake"
  /\ pc' = [pc EXCEPT ![j] = "grace"]
  /\ UNCHANGED <<status, heap, ledger, call, cancelReq, phase, book, profile,
                 sched>>

(* cancel_async raises, for instance on its own 2 s timeout: the exception *)
(* leaves _execute_with_cancellation and exec_task stays as it is.         *)
HandshakeFails(j) ==
  /\ pc[j] = "handshake"
  /\ Settle(j, "error")
  /\ UNCHANGED <<heap, ledger, call, phase, book, profile, sched>>

GraceAnswered(j) ==
  /\ pc[j] = "grace"
  /\ call[j] # "inflight"
  /\ phase' = IF call[j] = "ok" THEN [phase EXCEPT ![j] = "completed"] ELSE phase
  /\ Settle(j, call[j])
  /\ UNCHANGED <<heap, ledger, call, book, profile, sched>>

GraceExpires_Never(j) == FALSE

GraceExpires_CallKept(j) ==
  /\ pc[j] = "grace"
  /\ call[j] = "inflight"
  /\ phase' = [phase EXCEPT ![j] = "completed"]
  /\ Settle(j, "cancelled")
  /\ UNCHANGED <<heap, ledger, call, book, profile, sched>>

(* wait_for gives up and cancels exec_task; the instance is reloaded.      *)
(* FORCE, RELOADING and COMPLETED follow without a suspension: the manager *)
(* reports a reload that failed, it does not raise, and nobody looks.  A   *)
(* reload asks the worker for its configuration first: a wedged worker     *)
(* does not answer, is left alone, and goes on with the call.              *)
GraceExpires(j) ==
  /\ pc[j] = "grace"
  /\ call[j] = "inflight"
  /\ \E reloaded \in BOOLEAN :
       call' = [call EXCEPT ![j] = IF reloaded THEN "dropped" ELSE "orphaned"]
  /\ phase' = [phase EXCEPT ![j] = "completed"]
  /\ Settle(j, "cancelled")
  /\ UNCHANGED <<heap, ledger, book, profile, sched>>

(* The progress task is gone: release the lane and the ledgers, signal,    *)
(* file the job, wake the dispatch loop.                                   *)
Close(j) ==
  /\ pc[j] = "closing"
  /\ pc' = [pc EXCEPT ![j] = "done"]
  /\ Finalize(j)
  /\ UNCHANGED <<status, heap, call, cancelReq, phase, profile,
                 loop, flag, stopper, starts, evicting>>

-----------------------------------------------------------------------------
(* start() and stop().  stop() joins the dispatch loop, then drains the    *)
(* lanes, then the eviction requests, each within five seconds.  start()   *)
(* is not called while a stop() is under way.                              *)

Start ==
  /\ ~flag /\ stopper = "idle" /\ loop = "exited"
  /\ starts < MaxStarts
  /\ starts' = starts + 1
  /\ flag' = TRUE
  /\ loop' = "waiting"
  /\ UNCHANGED <<status, heap, ledger, task, book, profile,
                 available, stopper, evicting>>

Stop ==
  /\ flag /\ stopper = "idle"
  /\ flag' = FALSE
  /\ available' = TRUE
  /\ stopper' = "joining"
  /\ UNCHANGED <<status, heap, ledger, task, book, profile,
                 loop, starts, evicting>>

LoopExits ==
  /\ loop = "waiting" /\ available /\ ~flag
  /\ loop' = "exited"
  /\ UNCHANGED <<status, heap, ledger, task, book, profile,
                 available, flag, stopper, starts, evicting>>

(* The telemetry round trip outlasts the join: the loop is cancelled in it.*)
JoinExpires ==
  /\ stopper = "joining" /\ loop = "fetching"
  /\ loop' = "exited"
  /\ UNCHANGED <<status, heap, ledger, task, book, profile,
                 available, flag, stopper, starts, evicting>>

Joined ==
  /\ stopper = "joining" /\ loop = "exited"
  /\ stopper' = "draining"
  /\ UNCHANGED <<status, heap, ledger, task, book, profile,
                 available, loop, flag, starts, evicting>>

(* Every lane closed in time, and the eviction requests are over.          *)
Drained ==
  /\ stopper = "draining"
  /\ \A j \in Jobs : pc[j] \notin Live
  /\ stopper' = "idle"
  /\ evicting' = {}
  /\ available' = TRUE
  /\ UNCHANGED <<status, heap, ledger, task, book, profile, loop, flag, starts>>

DrainExpires_Never == FALSE

(* The leftover tasks are cancelled.  Five seconds in, each has taken its  *)
(* first step.  The poll of exec_task and the handshake leave exec_task    *)
(* running, the grace wait takes it down and leaves the worker at the      *)
(* call, and a closing task swallows the cancellation.                     *)
DrainExpires ==
  LET hit == {j \in Jobs : pc[j] \in Suspended} IN
  /\ stopper = "draining"
  /\ hit # {}
  /\ \A j \in Jobs : pc[j] # "created"
  /\ status' = [j \in Jobs |-> IF j \in hit THEN "cancelled" ELSE status[j]]
  /\ call' = [j \in Jobs |-> IF pc[j] = "grace" /\ call[j] = "inflight"
                             THEN "orphaned" ELSE call[j]]
  /\ pc' = [j \in Jobs |-> IF j \in hit THEN "closing" ELSE pc[j]]
  /\ stopper' = "idle"
  /\ evicting' = {}
  /\ available' = TRUE
  /\ UNCHANGED <<heap, ledger, cancelReq, phase, book, profile,
                 loop, flag, starts>>

-----------------------------------------------------------------------------

Caller ==
  \/ \E j \in Jobs :
       \/ \E p \in Priorities : Submit(j, p) \/ Reorder(j, p)
       \/ CancelPending(j) \/ CancelRunning(j)
  \/ Start \/ Stop

Dispatch ==
  \/ WakeIdle \/ WakeFetch \/ LoopExits
  \/ \E t \in Telemetry : Scan(t)

Lane(j) ==
  \/ StartJob(j) \/ StartUnloaded(j)
  \/ Observe(j) \/ BeginCancel(j)
  \/ HandshakeDone(j) \/ HandshakeFails(j)
  \/ GraceAnswered(j) \/ GraceExpires(j)
  \/ Close(j)

Stopping == JoinExpires \/ Joined \/ Drained \/ DrainExpires

Environment ==
  \/ \E j \in Jobs : CallReturns(j) \/ EvictionWakes(j)
  \/ \E i \in Instances : ProfileChanges(i)

Next ==
  \/ Caller
  \/ Dispatch
  \/ \E j \in Jobs : Lane(j)
  \/ Stopping
  \/ Environment

Spec == Init /\ [][Next]_vars

(* The event loop runs every ready task, and every timer fires: the        *)
(* dispatch loop, the lanes and stop() are weakly fair.  Callers, calls    *)
(* into a capability, evictions and profiles owe nothing.                  *)
LiveSpec ==
  /\ Spec
  /\ WF_vars(Dispatch)
  /\ \A j \in Jobs : WF_vars(Lane(j))
  /\ WF_vars(Stopping)

(* A capability call that is in flight comes back.                         *)
CallsReturn == \A j \in Jobs : WF_vars(CallReturns(j))

-----------------------------------------------------------------------------
(* Properties.                                                             *)

TypeOK ==
  /\ status \in [Jobs -> {"new", "pending", "running"} \cup Terminal]
  /\ pending \subseteq Jobs /\ blocked \subseteq Jobs
  /\ prio \in [Jobs -> Int]
  /\ arrival \in [Jobs -> Nat]
  /\ running \subseteq Jobs /\ exclusive \subseteq Jobs
  /\ reserved \in [Jobs -> Nat]
  /\ pc \in [Jobs -> {"none", "done"} \cup Live]
  /\ call \in [Jobs -> {"none", "ok", "error", "acked", "dropped"} \cup Running]
  /\ cancelReq \subseteq Jobs
  /\ phase \in [Jobs -> {"none", "cooperative", "completed"}]
  /\ known \subseteq Jobs /\ history \in Seq(Jobs) /\ signalled \subseteq Jobs
  /\ profile \in [Instances -> Peaks \cup {NoProfile}]
  /\ available \in BOOLEAN /\ flag \in BOOLEAN
  /\ loop \in {"waiting", "fetching", "exited"}
  /\ stopper \in {"idle", "joining", "draining"}
  /\ starts \in Nat /\ evicting \subseteq Jobs

(* Lanes, exclusivity, per-instance caps and the GPU budget hold together  *)
(* however admissions, completions, cancellations, stop() and profile      *)
(* changes interleave (_pop_next_admissible and the release in             *)
(* _execute_job).                                                          *)
AdmissionSafe == Ledger!AdmissionSafe

(* The queue implements the ledger: a lane is taken only by one of the two *)
(* admissions and given back by exactly one release.                       *)
LedgerSpec == Ledger!Spec

(* The lanes and ledgers are exactly those of the tasks that are alive:    *)
(* no path out of _execute_job leaks a lane or gives one back twice, and   *)
(* no exclusive mark or reservation outlives its job.                      *)
LanesAreTasks ==
  /\ running = {j \in Jobs : pc[j] \in Live}
  /\ exclusive \subseteq running
  /\ \A j \in Jobs : reserved[j] > 0 => j \in running

(* A job that was accepted and is not terminal is pending, or is on a      *)
(* lane; one that is terminal and off the lanes has woken its waiters; one *)
(* that still waits in the heap can be found, cancelled and reordered.     *)
NoJobLost ==
  \A j \in Jobs :
    /\ status[j] \in {"pending", "running"} => j \in pending \cup running
    /\ status[j] \in Terminal /\ j \notin running => j \in signalled
    /\ j \in pending => status[j] = "pending" /\ j \notin running /\ j \in known

(* The history never outgrows its limit, holds only jobs that ended, or    *)
(* that a lane has since picked up again, and the lookup table forgets     *)
(* such jobs only.                                                         *)
HistoryTruthful ==
  LET over(j) == status[j] \in Terminal \/ (j \in running /\ j \in signalled)
  IN  /\ Len(history) =< MaxHistory
      /\ \A n \in DOMAIN history : over(history[n])
      /\ \A j \in Jobs : status[j] # "new" /\ j \notin known => over(j)

(* A job on a lane shows no reason for being blocked.                      *)
BlockedNotRunning == blocked \cap running = {}

(* A terminal status is final, with one exception: a job cancelled between *)
(* its pop and its task's first step is run all the same (or fails for     *)
(* want of its capability).                                                *)
TerminalUndoneOnlyByLaunch ==
  [][\A j \in Jobs :
       status[j] \in Terminal /\ status'[j] # status[j]
         => /\ status[j] = "cancelled"
            /\ pc[j] = "created"
            /\ status'[j] \in {"running", "failed"}]_vars

(* Once cancel() has accepted a running job, the job does not complete:    *)
(* a result that arrives in time is dropped.                               *)
CancelledNeverCompletes ==
  [][\A j \in Jobs : j \in cancelReq => status'[j] # "completed"]_vars

(* A call that is still running at the worker after its job ended, past    *)
(* the per-instance cap and the GPU ledger, is one of three, and the job's *)
(* record tells which: the cancel signal could not be sent (failed in the  *)
(* cooperative phase); the force drop's reload gave up on the worker (the  *)
(* phase says completed, and exec_task is gone); stop() ran out of         *)
(* patience (cancelled before any force phase, and the queue is stopped or *)
(* was started again).  Otherwise a lane covers its call.                  *)
LaneCoversCall ==
  \A j \in Jobs :
    call[j] \in Running /\ pc[j] \notin Suspended
      => \/ /\ status[j] = "failed" /\ phase[j] = "cooperative"
            /\ call[j] = "inflight"
         \/ /\ status[j] = "cancelled" /\ phase[j] = "completed"
            /\ call[j] = "orphaned"
         \/ /\ status[j] = "cancelled" /\ phase[j] # "completed"
            /\ phase[j] = "none" => call[j] = "inflight"
            /\ ~flag \/ starts > 1

(* A cancel accepted for a running job is carried out even if its          *)
(* capability never answers: handshake, grace, force, reload.              *)
CancelResolves ==
  \A j \in Jobs : (j \in cancelReq /\ status[j] = "running")
                    ~> status[j] \in Terminal

(* stop() returns, whatever the capabilities do.                           *)
StopReturns == (stopper # "idle") ~> (stopper = "idle")

(* If calls come back then, while the queue runs, every pending job leaves *)
(* the heap: no wake-up of the dispatch loop is lost.                      *)
PendingServed ==
  CallsReturn => \A j \in Jobs : (j \in pending /\ flag) ~> (j \notin pending \/ ~flag)

-----------------------------------------------------------------------------
(* What a comment of the code says, and it does not do.                    *)

(* queue.py:535 "Move directly to cancelled (job never ran)".              *)
CancelledNeverRuns ==
  [][\A j \in Jobs : status[j] = "cancelled" => status'[j] = "cancelled"]_vars
=============================================================================
