--------------------------- MODULE CapabilityManager ---------------------------
(***************************************************************************)
(* core/manager.py: the instances of a CapabilityManager, the workers      *)
(* behind them, and the calls of execute_capability_async.  Calls, enable  *)
(* and disable run on the event loop; load and unload block it while they  *)
(* spawn or terminate a process, or run beside it in a thread              *)
(* (load_capability_async, unload_capability_async).                       *)
(***************************************************************************)
EXTENDS Integers, FiniteSets

CONSTANTS
  Ids,         \* instance ids
  Generated,   \* those generated at random for new_instance=True
  Canonical,   \* the capability name of each instance
  Serial,      \* the ids whose callers never overlap two calls
  Calls,       \* calls of execute_capability_async
  Loop,        \* the event loop
  Threads,     \* threads of asyncio.to_thread
  Limits,      \* values of max_concurrent_requests for each instance, 0 for None
  MaxRetries,  \* max_retries
  MaxWorkers,  \* bound of the model: how many workers are spawned
  MaxActs      \* bound of the model: how often an operator acts

ASSUME ManagerAssumption ==
  /\ Generated \subseteq Ids /\ Serial \subseteq Ids
  /\ Loop \notin Threads
  /\ IsFiniteSet(Calls) /\ "none" \notin Calls
  /\ \A i \in Ids : 0 \in Limits[i] /\ Limits[i] \subseteq Nat
  /\ MaxRetries \in Nat /\ MaxWorkers \in Nat /\ MaxActs \in Nat

Workers == 1 .. MaxWorkers
Agents == {Loop} \cup Threads

VARIABLES
  inst,      \* instances: the worker behind each id, 0 if not loaded
  obj,       \* the CapabilityInstance made with each worker
  spawned,   \* how many workers were spawned
  gone,      \* workers that were terminated
  told,      \* the hook each worker was last sent
  store,     \* config_store: the persisted enabled flag of each id
  marked,    \* _running_executions
  deferred,  \* _pending_disable_hooks
  limiter,   \* _concurrent_limiters: the worker it was created for, or 0
  op,        \* the load or unload the loop or a thread is in
  call,      \* the calls
  acts       \* loads, unloads, reloads, enables and disables so far

vars == <<inst, obj, spawned, gone, told, store, marked, deferred, limiter, op, call,
          acts>>
registry == <<inst, marked, deferred, limiter>>
workers == <<obj, spawned, gone, told, store>>

None == "none"

(* A pending operation: of a reload, the unload is followed by a load; the *)
(* reload of a retry has the call that goes on after it.                   *)
NoOp == [kind |-> None, id |-> None, worker |-> 0, reload |-> FALSE, for |-> None]

NoCall == [pc |-> "idle", id |-> None, attempt |-> 0, worker |-> 0, gate |-> 0]

NoObject == [id |-> None, enabled |-> FALSE, limit |-> 0, persistable |-> FALSE]

Init ==
  /\ inst = [i \in Ids |-> 0]
  /\ obj = [w \in Workers |-> NoObject]
  /\ spawned = 0 /\ gone = {}
  /\ told = [w \in Workers |-> None]
  /\ store = [i \in Ids |-> None]
  /\ marked = {} /\ deferred = {}
  /\ limiter = [i \in Ids |-> 0]
  /\ op = [a \in Agents |-> NoOp]
  /\ call = [c \in Calls |-> NoCall]
  /\ acts = 0

(* A blocking operation on the loop keeps everything else there waiting.   *)
LoopFree == op[Loop] = NoOp

Object(i) == obj[inst[i]]

-----------------------------------------------------------------------------
(* load_capability, unload_capability, reload_capability.                  *)

(* The persisted record is read before the spawn; the instance is made     *)
(* after it.  With no worker left to spawn the load can only fail.         *)
Spawn(a, i, limit, new, for) ==
  LET w == IF spawned < MaxWorkers THEN spawned + 1 ELSE 0 IN
  /\ op' = [op EXCEPT ![a] = [kind |-> "load", id |-> i, worker |-> w,
                              reload |-> FALSE, for |-> for]]
  /\ spawned' = IF w = 0 THEN spawned ELSE w
  /\ obj' = IF w = 0 THEN obj ELSE
       [obj EXCEPT ![w] = [id |-> i, enabled |-> new \/ store[i] # "disabled",
                           limit |-> limit, persistable |-> ~new]]

(* An id that is loaded is skipped.  A load in a thread has no limit.      *)
Load(a, i, limit) ==
  LET new == i \in Generated IN
  /\ op[a] = NoOp /\ inst[i] = 0
  /\ spawned < MaxWorkers
  /\ new => \A w \in Workers : obj[w].id # i
  /\ a # Loop => limit = 0
  /\ Spawn(a, i, limit, new, None)
  /\ UNCHANGED <<registry, gone, told, store, call>>

(* The limiter of a call is looked up, or made, for the instance as it is. *)
Limiter(i, w) == IF obj[w].limit = 0 THEN 0
                 ELSE IF limiter[i] # 0 THEN limiter[i] ELSE w

(* A retry goes on with whatever instance it finds after the reload.       *)
Resume(c, i) ==
  IF c = None THEN UNCHANGED <<call, limiter>>
  ELSE LET w == inst'[i] IN
       IF w = 0
         THEN call' = [call EXCEPT ![c] = NoCall] /\ UNCHANGED limiter
         ELSE /\ call' = [call EXCEPT ![c] =
                            [pc |-> "allocating", id |-> i, attempt |-> @.attempt + 1,
                             worker |-> w, gate |-> Limiter(i, w)]]
              /\ limiter' = [limiter EXCEPT ![i] =
                               IF Limiter(i, w) = 0 THEN @ ELSE Limiter(i, w)]

Loaded(a) ==
  LET o == op[a] IN
  /\ o.kind = "load" /\ o.worker # 0
  /\ inst' = [inst EXCEPT ![o.id] = o.worker]
  /\ op' = [op EXCEPT ![a] = NoOp]
  /\ Resume(o.for, o.id)
  /\ UNCHANGED <<workers, marked, deferred>>

LoadFails(a) ==
  LET o == op[a] IN
  /\ o.kind = "load"
  /\ inst' = inst
  /\ op' = [op EXCEPT ![a] = NoOp]
  /\ Resume(o.for, o.id)
  /\ UNCHANGED <<workers, marked, deferred>>

(* proxy.cleanup() terminates the worker; the tables are cleared after it. *)
(* It handles its own failures; the one left, of a cleanup that meets      *)
(* another of the same proxy, is not modelled (README, section 7).         *)
Terminate(a, i, reload, for) ==
  /\ op' = [op EXCEPT ![a] = [kind |-> "unload", id |-> i, worker |-> inst[i],
                              reload |-> reload, for |-> for]]
  /\ gone' = gone \cup {inst[i]}

Unload(a, i) ==
  /\ op[a] = NoOp /\ inst[i] # 0
  /\ Terminate(a, i, FALSE, None)
  /\ UNCHANGED <<registry, obj, spawned, told, store, call>>

(* With no configuration given it asks the worker for its own, and gives   *)
(* up, with nothing changed, if the worker does not answer.                *)
Reload(i) ==
  /\ LoopFree /\ inst[i] # 0
  /\ Terminate(Loop, i, TRUE, None)
  /\ UNCHANGED <<registry, obj, spawned, told, store, call>>

Forget_KeepsHook(i) ==
  IF inst[i] = 0 THEN UNCHANGED registry
  ELSE /\ inst' = [inst EXCEPT ![i] = 0]
       /\ marked' = marked \ {i, Canonical[i]}
       /\ deferred' = deferred
       /\ limiter' = [limiter EXCEPT ![i] = 0]

Forget_KeepsLimiter(i) ==
  IF inst[i] = 0 THEN UNCHANGED registry
  ELSE /\ inst' = [inst EXCEPT ![i] = 0]
       /\ marked' = marked \ {i, Canonical[i]}
       /\ deferred' = deferred \ {i, Canonical[i]}
       /\ limiter' = limiter

(* An entry that is gone already ends the unload before the tables.        *)
Forget(i) ==
  IF inst[i] = 0 THEN UNCHANGED registry
  ELSE /\ inst' = [inst EXCEPT ![i] = 0]
       /\ marked' = marked \ {i, Canonical[i]}
       /\ deferred' = deferred \ {i, Canonical[i]}
       /\ limiter' = [limiter EXCEPT ![i] = 0]

(* The load of a reload names the id and no limit.                         *)
Unloaded(a) ==
  LET o == op[a] IN
  /\ o.kind = "unload"
  /\ Forget(o.id)
  /\ IF o.reload THEN Spawn(a, o.id, 0, FALSE, o.for)
                 ELSE op' = [op EXCEPT ![a] = NoOp] /\ UNCHANGED <<spawned, obj>>
  /\ UNCHANGED <<gone, told, store, call>>

-----------------------------------------------------------------------------
(* enable_capability and disable_capability.                               *)

(* A worker that was terminated hears nothing.                             *)
Tell(w, hook) == IF w \in gone \cup {0} THEN told ELSE [told EXCEPT ![w] = hook]

SetEnabled(i, on) ==
  /\ obj' = [obj EXCEPT ![inst[i]].enabled = on]
  /\ store' = IF ~Object(i).persistable THEN store
              ELSE [store EXCEPT ![i] = IF on THEN "enabled" ELSE "disabled"]

Enable(i) ==
  /\ LoopFree /\ inst[i] # 0
  /\ SetEnabled(i, TRUE)
  /\ told' = IF Object(i).enabled THEN told ELSE Tell(inst[i], "on_enable")
  /\ UNCHANGED <<registry, spawned, gone, op, call>>

Disable(i) ==
  /\ LoopFree /\ inst[i] # 0
  /\ SetEnabled(i, FALSE)
  /\ IF Object(i).enabled /\ i \in marked
       THEN deferred' = deferred \cup {i} /\ UNCHANGED told
       ELSE /\ told' = IF Object(i).enabled THEN Tell(inst[i], "on_disable") ELSE told
            /\ UNCHANGED deferred
  /\ UNCHANGED <<inst, marked, limiter, spawned, gone, op, call>>

-----------------------------------------------------------------------------
(* execute_capability_async.                                               *)

On(i) == {c \in Calls : call[c].id = i}

(* What the caller's arguments, the scheduler and the telemetry wait for   *)
(* is over: the instance was looked up before, and is not looked at again. *)
Enter(c, i) ==
  /\ LoopFree
  /\ call[c].pc = "idle"
  /\ i \in Serial => On(i) = {}
  /\ inst[i] # 0 /\ Object(i).enabled
  /\ call' = [call EXCEPT ![c] = [pc |-> "allocating", id |-> i, attempt |-> 0,
                                  worker |-> inst[i], gate |-> Limiter(i, inst[i])]]
  /\ limiter' = [limiter EXCEPT ![i] = IF Limiter(i, inst[i]) = 0 THEN @
                                       ELSE Limiter(i, inst[i])]
  /\ UNCHANGED <<inst, marked, deferred, workers, op>>

Holders(s) == {c \in Calls : call[c].pc = "executing" /\ call[c].gate = s}

Room(s) == s # 0 => Cardinality(Holders(s)) < obj[s].limit

Execute_MarksOnce(c) ==
  /\ LoopFree
  /\ call[c].pc = "allocating"
  /\ marked' = IF call[c].attempt = 0 THEN marked \cup {call[c].id} ELSE marked
  /\ call' = [call EXCEPT ![c].pc = IF Room(call[c].gate) THEN "executing" ELSE "queued"]
  /\ UNCHANGED <<inst, deferred, limiter, workers, op>>

(* The mark is set before the limiter lets the call through.               *)
Execute(c) ==
  /\ LoopFree
  /\ call[c].pc = "allocating"
  /\ marked' = marked \cup {call[c].id}
  /\ call' = [call EXCEPT ![c].pc = IF Room(call[c].gate) THEN "executing" ELSE "queued"]
  /\ UNCHANGED <<inst, deferred, limiter, workers, op>>

Acquire_LookedUp(c) ==
  /\ LoopFree
  /\ call[c].pc = "queued" /\ Room(call[c].gate)
  /\ limiter[call[c].id] = call[c].gate
  /\ call' = [call EXCEPT ![c].pc = "executing"]
  /\ UNCHANGED <<registry, workers, op>>

Acquire(c) ==
  /\ LoopFree
  /\ call[c].pc = "queued" /\ Room(call[c].gate)
  /\ call' = [call EXCEPT ![c].pc = "executing"]
  /\ UNCHANGED <<registry, workers, op>>

(* A worker that is being unloaded in a thread may be seen dying of a kill,*)
(* which passes for running out of memory; one that was, is not reached.   *)
Outcomes(w) ==
  IF w \notin gone THEN {"ok", "error", "resource"}
  ELSE IF \E t \in Threads : op[t].kind = "unload" /\ op[t].worker = w
    THEN {"error", "resource"} ELSE {"error"}

(* _maybe_fire_disable_hook.                                               *)
FireHook(i) ==
  /\ deferred' = deferred \ {i}
  /\ told' = IF i \in deferred THEN Tell(inst[i], "on_disable") ELSE told

Retries(c, r) == r = "resource" /\ call[c].attempt < MaxRetries

Again_InPlace(c) ==
  /\ call' = [call EXCEPT ![c].pc = "allocating", ![c].attempt = @ + 1]
  /\ UNCHANGED <<op, gone>>

(* The eviction and the reload of a retry.                                 *)
Again(c) ==
  LET i == call[c].id IN
  IF inst[i] = 0
    THEN call' = [call EXCEPT ![c] = NoCall] /\ UNCHANGED <<op, gone>>
    ELSE /\ call' = [call EXCEPT ![c].pc = "retrying"]
         /\ Terminate(Loop, i, TRUE, c)

Return(c) ==
  LET i == call[c].id IN
  /\ LoopFree
  /\ call[c].pc = "executing"
  /\ marked' = marked \ {i}
  /\ FireHook(i)
  /\ \E r \in Outcomes(call[c].worker) :
       \/ Retries(c, r) /\ Again(c)
       \/ /\ ~Retries(c, r)
          /\ call' = [call EXCEPT ![c] = NoCall]
          /\ UNCHANGED <<op, gone>>
  /\ UNCHANGED <<inst, limiter, obj, spawned, store>>

-----------------------------------------------------------------------------

Operator ==
  /\ acts < MaxActs
  /\ acts' = acts + 1
  /\ \/ \E a \in Agents, i \in Ids : Unload(a, i) \/ \E l \in Limits[i] : Load(a, i, l)
     \/ \E i \in Ids : Reload(i) \/ Enable(i) \/ Disable(i)

Working(a) == Loaded(a) \/ LoadFails(a) \/ Unloaded(a)

Calling(c) == Execute(c) \/ Acquire(c) \/ Return(c)

Next ==
  \/ Operator
  \/ /\ \/ \E a \in Agents : Working(a)
        \/ \E c \in Calls : Calling(c) \/ \E i \in Ids : Enter(c, i)
     /\ UNCHANGED acts

Spec == Init /\ [][Next]_vars

(* Processes start or fail to, calls come back, and a semaphore serves     *)
(* those who wait on it in turn.  What an operator or a caller does is up  *)
(* to them.                                                                *)
FairSpec ==
  /\ Spec
  /\ WF_vars(Working(Loop) /\ UNCHANGED acts)
  /\ \A c \in Calls : SF_vars(Calling(c) /\ UNCHANGED acts)

-----------------------------------------------------------------------------
(* Properties.                                                             *)

TypeOK ==
  /\ inst \in [Ids -> 0 .. MaxWorkers]
  /\ spawned \in 0 .. MaxWorkers
  /\ gone \subseteq Workers
  /\ told \in [Workers -> {None, "on_enable", "on_disable"}]
  /\ store \in [Ids -> {None, "enabled", "disabled"}]
  /\ marked \subseteq Ids /\ deferred \subseteq Ids
  /\ limiter \in [Ids -> 0 .. MaxWorkers]
  /\ obj \in [Workers -> [id : Ids \cup {None}, enabled : BOOLEAN, limit : Nat,
                          persistable : BOOLEAN]]
  /\ op \in [Agents -> [kind : {None, "load", "unload"}, id : Ids \cup {None},
                        worker : 0 .. MaxWorkers, reload : BOOLEAN,
                        for : Calls \cup {None}]]
  /\ call \in [Calls -> [pc : {"idle", "allocating", "queued", "executing", "retrying"},
                         id : Ids \cup {None}, attempt : 0 .. MaxRetries,
                         worker : 0 .. MaxWorkers, gate : 0 .. MaxWorkers]]

(* A deferred on_disable is never stranded: the instance is marked, and a  *)
(* call is on it whose end will fire the hook.                             *)
DeferredHookHasCall ==
  \A i \in deferred :
    i \in marked /\ \E c \in On(i) : call[c].pc \in {"queued", "executing"}

(* The ids no sibling instance is named after.                             *)
Sole == {i \in Ids : \A k \in Ids \ {i} : Canonical[k] # i}

(* If callers do not overlap, an instance that executes is marked, so that *)
(* no eviction takes it, through retries, reloads and unloads of others.   *)
ExecutingIsMarked ==
  \A c \in Calls :
    LET i == call[c].id IN
    call[c].pc = "executing" /\ i \in Serial \cap Sole /\ inst[i] = call[c].worker
      => i \in marked

(* A worker never has more calls than the instance it was started for      *)
(* allows, also when the id was unloaded and loaded with another limit.    *)
LimitHolds ==
  \A w \in Workers : obj[w].limit # 0 =>
    Cardinality({c \in Calls : call[c].pc = "executing" /\ call[c].worker = w})
      =< obj[w].limit

(* A retry never goes back to the worker that just ran out of memory, even *)
(* if its own reload fails and another load takes its place.               *)
RetryOnFreshWorker ==
  [][\A c \in Calls : call'[c].attempt > call[c].attempt
                        => call'[c].worker # call[c].worker]_vars

(* Every call ends: none is left waiting on a limiter that a reload threw  *)
(* away, or on a reload that does not end.                                 *)
CallsEnd == \A c \in Calls : call[c].pc # "idle" ~> call[c].pc = "idle"
=============================================================================
