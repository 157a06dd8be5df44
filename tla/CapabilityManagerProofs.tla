------------------------ MODULE CapabilityManagerProofs ------------------------
(***************************************************************************)
(* Theorems about CapabilityManager, for every set of instances, calls,    *)
(* threads and limits, and however many workers are spawned; and, at the   *)
(* end, about the eviction of idle models.                                 *)
(***************************************************************************)
EXTENDS CapabilityManager, Sequences, FiniteSetTheorems, TLAPS

-----------------------------------------------------------------------------
(* Types.                                                                  *)

Op == [kind : {None, "load", "unload"}, id : Ids \cup {None},
       worker : 0 .. MaxWorkers, reload : BOOLEAN, for : Calls \cup {None}]

Call == [pc : {"idle", "allocating", "queued", "executing", "retrying"},
         id : Ids \cup {None}, attempt : 0 .. MaxRetries,
         worker : 0 .. MaxWorkers, gate : 0 .. MaxWorkers]

Instance == [id : Ids \cup {None}, enabled : BOOLEAN, limit : Nat,
             persistable : BOOLEAN]

(* The operation a retry waits for blocks the loop, and one retry is left. *)
Retrying ==
  \A a \in Agents :
    /\ op[a].kind # None => op[a].id \in Ids
    /\ op[a].for # None =>
         /\ a = Loop /\ op[a].kind # None
         /\ call[op[a].for].pc = "retrying"
         /\ call[op[a].for].id = op[a].id
         /\ call[op[a].for].attempt < MaxRetries

(* A call that is under way is on an instance.                             *)
Addressed == \A c \in Calls : call[c].pc # "idle" => call[c].id \in Ids

Typed == TypeOK /\ Retrying /\ Addressed

LEMMA Forgetting ==
  ASSUME TypeOK, NEW i \in Ids, Forget(i)
  PROVE  /\ inst' \in [Ids -> 0 .. MaxWorkers] /\ limiter' \in [Ids -> 0 .. MaxWorkers]
         /\ marked' \subseteq Ids /\ deferred' \subseteq Ids
         /\ inst'[i] = 0
<1>1. 0 \in 0 .. MaxWorkers
  BY ManagerAssumption
<1> QED
  BY <1>1 DEF TypeOK, Forget, registry

LEMMA Spawning ==
  ASSUME TypeOK, NEW a \in Agents, NEW i \in Ids, NEW l \in Nat, NEW new,
         NEW for \in Calls \cup {None}, Spawn(a, i, l, new, for)
  PROVE  /\ op' \in [Agents -> Op] /\ spawned' \in 0 .. MaxWorkers
         /\ obj' \in [Workers -> Instance]
         /\ \E w \in 0 .. MaxWorkers :
              /\ w = 0 \/ (w = spawned + 1 /\ spawned' = w /\ obj'[w].limit = l)
              /\ op' = [op EXCEPT ![a] = [kind |-> "load", id |-> i, worker |-> w,
                                          reload |-> FALSE, for |-> for]]
              /\ w = 0 => spawned' = spawned /\ obj' = obj
              /\ \A v \in Workers : v # w => obj'[v] = obj[v]
<1> DEFINE w == IF spawned < MaxWorkers THEN spawned + 1 ELSE 0
<1>1. w \in 0 .. MaxWorkers /\ (w # 0 => w = spawned + 1 /\ w \in Workers)
  BY ManagerAssumption DEF TypeOK, Workers
<1> DEFINE r == [kind |-> "load", id |-> i, worker |-> w, reload |-> FALSE, for |-> for]
<1>2. op' = [op EXCEPT ![a] = r]
  BY DEF Spawn
<1>3. /\ spawned' = IF w = 0 THEN spawned ELSE w
      /\ obj' = IF w = 0 THEN obj ELSE
           [obj EXCEPT ![w] = [id |-> i, enabled |-> new \/ store[i] # "disabled",
                               limit |-> l, persistable |-> ~new]]
  BY DEF Spawn
<1> HIDE DEF w
<1>5. r \in Op
  BY <1>1 DEF Op
<1> HIDE DEF r
<1>6. op' \in [Agents -> Op]
  BY <1>2, <1>5 DEF TypeOK, Op
<1>7. [id |-> i, enabled |-> new \/ store[i] # "disabled", limit |-> l,
       persistable |-> ~new] \in Instance
  BY DEF Instance
<1>8. obj' \in [Workers -> Instance]
  BY <1>1, <1>3, <1>7 DEF TypeOK, Instance
<1>9. \A v \in Workers : v # w => obj'[v] = obj[v]
  BY <1>3 DEF TypeOK
<1>10. w # 0 => obj'[w].limit = l
  BY <1>1, <1>3 DEF TypeOK
<1> QED
  BY <1>1, <1>2, <1>3, <1>6, <1>8, <1>9, <1>10 DEF TypeOK, r
LEMMA LimiterType ==
  ASSUME TypeOK, NEW i \in Ids, NEW w \in 0 .. MaxWorkers
  PROVE  Limiter(i, w) \in 0 .. MaxWorkers
BY ManagerAssumption DEF TypeOK, Limiter

LEMMA TypedInit == Init => Typed
<1> SUFFICES ASSUME Init PROVE Typed
  OBVIOUS
<1>1. 0 \in 0 .. MaxWorkers /\ 0 \in 0 .. MaxRetries
  BY ManagerAssumption
<1>2. NoOp \in Op /\ NoCall \in Call /\ NoObject \in Instance
  BY <1>1 DEF NoOp, NoCall, NoObject, Op, Call, Instance
<1>3. TypeOK
  BY <1>1, <1>2 DEF Init, TypeOK, Op, Call, Instance
<1>4. Retrying
  BY DEF Init, Retrying, NoOp
<1>5. Addressed
  BY DEF Init, Addressed, NoCall
<1> QED
  BY <1>3, <1>4, <1>5 DEF Typed

(* A retry that goes on, or gives up, leaves every other call alone.       *)
LEMMA Resuming ==
  ASSUME Typed, NEW a \in Agents, inst' \in [Ids -> 0 .. MaxWorkers],
         op[a].kind # None, op' = [op EXCEPT ![a] = NoOp],
         Resume(op[a].for, op[a].id)
  PROVE  /\ call' \in [Calls -> Call] /\ limiter' \in [Ids -> 0 .. MaxWorkers]
         /\ Retrying' /\ Addressed'
         /\ \A c \in Calls : c # op[a].for => call'[c] = call[c]
         /\ op[a].for # None => op[a].for \in Calls
<1> DEFINE c == op[a].for
           i == op[a].id
           w == inst'[i]
<1>1. i \in Ids /\ c \in Calls \cup {None} /\ w \in 0 .. MaxWorkers
  BY DEF Typed, TypeOK, Retrying
<1>2. /\ 0 \in 0 .. MaxWorkers /\ 0 \in 0 .. MaxRetries /\ NoCall \in Call
      /\ call \in [Calls -> Call] /\ limiter \in [Ids -> 0 .. MaxWorkers]
  BY ManagerAssumption DEF NoCall, Call, Typed, TypeOK
<1>3. NoOp.kind = None /\ NoOp.for = None
  BY DEF NoOp
<1>4. CASE c = None
  <2>1. call' = call /\ limiter' = limiter
    BY <1>4 DEF Resume
  <2>2. Retrying'
    BY <1>3, <2>1 DEF Typed, TypeOK, Retrying
  <2>3. Addressed'
    BY <2>1 DEF Typed, Addressed
  <2> QED
    BY <1>2, <1>4, <2>1, <2>2, <2>3
<1>5. CASE c # None
  <2>1. /\ c \in Calls /\ a = Loop /\ call[c].pc = "retrying"
        /\ call[c].attempt < MaxRetries
    BY <1>1, <1>5 DEF Typed, Retrying
  <2>2. \A b \in Agents : op'[b].for = None
    BY <1>3, <2>1 DEF Typed, TypeOK, Retrying
  <2>3. \A b \in Agents : op'[b].kind # None => op'[b].id \in Ids
    BY <1>3 DEF Typed, TypeOK, Retrying
  <2>4. Retrying'
    BY <2>2, <2>3 DEF Retrying
  <2>5. CASE w = 0
    <3>1. call' = [call EXCEPT ![c] = NoCall] /\ UNCHANGED limiter
      BY <1>5, <2>5 DEF Resume
    <3>2. Addressed'
      BY <1>2, <2>1, <3>1 DEF Typed, Addressed, NoCall
    <3> QED
      BY <1>2, <1>5, <2>1, <2>4, <3>1, <3>2
  <2>6. CASE w # 0
    <3> DEFINE g == Limiter(i, w)
               r == [pc |-> "allocating", id |-> i, attempt |-> call[c].attempt + 1,
                     worker |-> w, gate |-> g]
    <3>1. g \in 0 .. MaxWorkers
      BY <1>1, LimiterType DEF Typed
    <3>2. call' = [call EXCEPT ![c] = r]
      BY <1>5, <2>6 DEF Resume
    <3>3. limiter' = [limiter EXCEPT ![i] = IF g = 0 THEN @ ELSE g]
      BY <1>5, <2>6 DEF Resume
    <3>4. call[c].attempt + 1 \in 0 .. MaxRetries
      BY <1>2, <2>1, ManagerAssumption DEF Call
    <3> HIDE DEF g
    <3>5. r \in Call /\ r.id \in Ids
      BY <1>1, <3>1, <3>4 DEF Call
    <3> HIDE DEF r
    <3>6. Addressed'
      BY <1>2, <2>1, <3>2, <3>5 DEF Typed, Addressed
    <3> QED
      BY <1>1, <1>2, <2>1, <2>4, <3>1, <3>2, <3>3, <3>5, <3>6
  <2> QED
    BY <2>5, <2>6
<1> QED
  BY <1>4, <1>5

LEMMA TellType ==
  ASSUME TypeOK, NEW w, NEW hook \in {"on_enable", "on_disable"}
  PROVE  Tell(w, hook) \in [Workers -> {None, "on_enable", "on_disable"}]
BY DEF TypeOK, Tell

LEMMA SetEnabledType ==
  ASSUME TypeOK, NEW i \in Ids, NEW on \in BOOLEAN, SetEnabled(i, on)
  PROVE  /\ obj' \in [Workers -> Instance]
         /\ store' \in [Ids -> {None, "enabled", "disabled"}]
         /\ \A w \in Workers : obj'[w].limit = obj[w].limit
<1>1. obj \in [Workers -> Instance] /\ store \in [Ids -> {None, "enabled", "disabled"}]
  BY DEF TypeOK, Instance
<1>2. obj' = [obj EXCEPT ![inst[i]].enabled = on]
  BY DEF SetEnabled
<1>3. /\ obj' \in [Workers -> Instance]
      /\ \A w \in Workers : obj'[w].limit = obj[w].limit
  BY <1>1, <1>2 DEF Instance
<1>4. store' \in [Ids -> {None, "enabled", "disabled"}]
  BY <1>1 DEF SetEnabled
<1> QED
  BY <1>3, <1>4

(* Steps that leave the operations alone, and no call but c, which is not  *)
(* waiting for one.                                                        *)
LEMMA CallsOnly ==
  ASSUME Typed, UNCHANGED op, NEW c \in Calls, call[c].pc # "retrying",
         \A k \in Calls : k # c => call'[k] = call[k]
  PROVE  Retrying'
BY DEF Typed, TypeOK, Retrying

LEMMA Terminating ==
  ASSUME Typed, NEW a \in Agents, NEW i \in Ids, NEW reload \in BOOLEAN,
         NEW for \in Calls \cup {None}, Terminate(a, i, reload, for), inst[i] # 0
  PROVE  /\ op' \in [Agents -> Op] /\ gone' \subseteq Workers
         /\ op' = [op EXCEPT ![a] = [kind |-> "unload", id |-> i, worker |-> inst[i],
                                     reload |-> reload, for |-> for]]
<1>1. inst[i] \in 0 .. MaxWorkers /\ inst[i] \in Workers
  BY ManagerAssumption DEF Typed, TypeOK, Workers
<1> DEFINE r == [kind |-> "unload", id |-> i, worker |-> inst[i],
                 reload |-> reload, for |-> for]
<1>2. r \in Op
  BY <1>1 DEF Op
<1>3. op' = [op EXCEPT ![a] = r] /\ gone' = gone \cup {inst[i]}
  BY DEF Terminate
<1> HIDE DEF r
<1>4. op' \in [Agents -> Op] /\ gone' \subseteq Workers
  BY <1>1, <1>2, <1>3 DEF Typed, TypeOK, Op
<1> QED
  BY <1>3, <1>4 DEF r

LEMMA TypedNext == Typed /\ [Next]_vars => Typed'
<1> SUFFICES ASSUME Typed, [Next]_vars PROVE Typed'
  OBVIOUS
<1> USE DEF registry, workers
<1>t. /\ TypeOK /\ Retrying /\ Addressed /\ op \in [Agents -> Op] /\ call \in [Calls -> Call]
      /\ obj \in [Workers -> Instance]
  BY DEF Typed, TypeOK, Op, Call, Instance
<1>l. Loop \in Agents /\ \A a \in Agents : a # Loop => a \in Threads
  BY DEF Agents
<1>1. ASSUME NEW a \in Agents, NEW i \in Ids, NEW l \in Limits[i], Load(a, i, l)
      PROVE  Typed'
  <2>1. l \in Nat /\ (i \in Generated) \in BOOLEAN /\ Spawn(a, i, l, i \in Generated, None)
    BY <1>1, ManagerAssumption DEF Load
  <2>2. /\ op' \in [Agents -> Op] /\ spawned' \in 0 .. MaxWorkers
        /\ obj' \in [Workers -> Instance]
        /\ \E w \in 0 .. MaxWorkers :
             op' = [op EXCEPT ![a] = [kind |-> "load", id |-> i, worker |-> w,
                                      reload |-> FALSE, for |-> None]]
    BY <1>t, <2>1, Spawning
  <2>3. UNCHANGED <<inst, marked, deferred, limiter, gone, told, store, call>>
    BY <1>1 DEF Load
  <2>4. TypeOK'
    BY <1>t, <2>2, <2>3 DEF TypeOK, Op, Instance
  <2>5. Retrying'
    BY <1>t, <2>2, <2>3 DEF Retrying
  <2> QED
    BY <1>t, <2>3, <2>4, <2>5 DEF Typed, Addressed
<1>2. ASSUME NEW a \in Agents, NEW i \in Ids, Unload(a, i) PROVE Typed'
  <2>1. inst[i] # 0 /\ Terminate(a, i, FALSE, None)
    BY <1>2 DEF Unload
  <2>2. /\ op' \in [Agents -> Op] /\ gone' \subseteq Workers
        /\ op' = [op EXCEPT ![a] = [kind |-> "unload", id |-> i, worker |-> inst[i],
                                    reload |-> FALSE, for |-> None]]
    BY <2>1, Terminating
  <2>3. UNCHANGED <<inst, marked, deferred, limiter, obj, spawned, told, store, call>>
    BY <1>2 DEF Unload
  <2>4. TypeOK'
    BY <1>t, <2>2, <2>3 DEF TypeOK, Op, Instance
  <2>5. Retrying'
    BY <1>t, <2>2, <2>3 DEF Retrying
  <2> QED
    BY <1>t, <2>3, <2>4, <2>5 DEF Typed, Addressed
<1>3. ASSUME NEW i \in Ids, Reload(i) PROVE Typed'
  <2>1. inst[i] # 0 /\ Terminate(Loop, i, TRUE, None)
    BY <1>3 DEF Reload
  <2>2. /\ op' \in [Agents -> Op] /\ gone' \subseteq Workers
        /\ op' = [op EXCEPT ![Loop] = [kind |-> "unload", id |-> i, worker |-> inst[i],
                                       reload |-> TRUE, for |-> None]]
    BY <1>l, <2>1, Terminating
  <2>3. UNCHANGED <<inst, marked, deferred, limiter, obj, spawned, told, store, call>>
    BY <1>3 DEF Reload
  <2>4. TypeOK'
    BY <1>t, <2>2, <2>3 DEF TypeOK, Op, Instance
  <2>5. Retrying'
    BY <1>t, <2>2, <2>3 DEF Retrying
  <2> QED
    BY <1>t, <2>3, <2>4, <2>5 DEF Typed, Addressed
<1>4. ASSUME NEW i \in Ids, Enable(i) PROVE Typed'
  <2>1. /\ obj' \in [Workers -> Instance]
        /\ store' \in [Ids -> {None, "enabled", "disabled"}]
    BY <1>4, <1>t, SetEnabledType DEF Enable
  <2>2. told' \in [Workers -> {None, "on_enable", "on_disable"}]
    BY <1>4, <1>t, TellType DEF Enable, TypeOK
  <2>3. UNCHANGED <<inst, marked, deferred, limiter, spawned, gone, op, call>>
    BY <1>4 DEF Enable
  <2>4. TypeOK' /\ Retrying'
    BY <1>t, <2>1, <2>2, <2>3 DEF TypeOK, Instance, Retrying
  <2> QED
    BY <1>t, <2>3, <2>4 DEF Typed, Addressed
<1>5. ASSUME NEW i \in Ids, Disable(i) PROVE Typed'
  <2>1. /\ obj' \in [Workers -> Instance]
        /\ store' \in [Ids -> {None, "enabled", "disabled"}]
    BY <1>5, <1>t, SetEnabledType DEF Disable
  <2>2. /\ told' \in [Workers -> {None, "on_enable", "on_disable"}]
        /\ deferred' \subseteq Ids
    BY <1>5, <1>t, TellType DEF Disable, TypeOK
  <2>3. UNCHANGED <<inst, marked, limiter, spawned, gone, op, call>>
    BY <1>5 DEF Disable
  <2>4. TypeOK' /\ Retrying'
    BY <1>t, <2>1, <2>2, <2>3 DEF TypeOK, Instance, Retrying
  <2> QED
    BY <1>t, <2>3, <2>4 DEF Typed, Addressed
<1>6. ASSUME NEW a \in Agents, Loaded(a) PROVE Typed'
  <2>1. op[a].kind # None /\ op' = [op EXCEPT ![a] = NoOp] /\ Resume(op[a].for, op[a].id)
    BY <1>6 DEF Loaded, None
  <2>2. inst' \in [Ids -> 0 .. MaxWorkers]
    BY <1>6, <1>t DEF Loaded, TypeOK
  <2>3. /\ call' \in [Calls -> Call] /\ limiter' \in [Ids -> 0 .. MaxWorkers]
        /\ Retrying' /\ Addressed'
    BY <2>1, <2>2, Resuming
  <2>4. NoOp \in Op
    BY ManagerAssumption DEF NoOp, Op
  <2>5. UNCHANGED <<obj, spawned, gone, told, store, marked, deferred>>
    BY <1>6 DEF Loaded
  <2>6. TypeOK'
    BY <1>t, <2>1, <2>2, <2>3, <2>4, <2>5 DEF TypeOK, Op, Call, Instance
  <2> QED
    BY <2>3, <2>6 DEF Typed
<1>7. ASSUME NEW a \in Agents, LoadFails(a) PROVE Typed'
  <2>1. op[a].kind # None /\ op' = [op EXCEPT ![a] = NoOp] /\ Resume(op[a].for, op[a].id)
    BY <1>7 DEF LoadFails, None
  <2>2. inst' \in [Ids -> 0 .. MaxWorkers]
    BY <1>7, <1>t DEF LoadFails, TypeOK
  <2>3. /\ call' \in [Calls -> Call] /\ limiter' \in [Ids -> 0 .. MaxWorkers]
        /\ Retrying' /\ Addressed'
    BY <2>1, <2>2, Resuming
  <2>4. NoOp \in Op
    BY ManagerAssumption DEF NoOp, Op
  <2>5. UNCHANGED <<obj, spawned, gone, told, store, marked, deferred>>
    BY <1>7 DEF LoadFails
  <2>6. TypeOK'
    BY <1>t, <2>1, <2>2, <2>3, <2>4, <2>5 DEF TypeOK, Op, Call, Instance
  <2> QED
    BY <2>3, <2>6 DEF Typed
<1>8. ASSUME NEW a \in Agents, Unloaded(a) PROVE Typed'
  <2> DEFINE o == op[a]
  <2>1. /\ o.id \in Ids /\ o.for \in Calls \cup {None} /\ o.kind = "unload"
    BY <1>8, <1>t DEF Unloaded, Retrying, Op, None
  <2>2. /\ inst' \in [Ids -> 0 .. MaxWorkers] /\ limiter' \in [Ids -> 0 .. MaxWorkers]
        /\ marked' \subseteq Ids /\ deferred' \subseteq Ids
    BY <1>8, <1>t, <2>1, Forgetting DEF Unloaded
  <2>3. UNCHANGED <<gone, told, store, call>>
    BY <1>8 DEF Unloaded
  <2>4. CASE o.reload
    <3> DEFINE new == FALSE
               i == o.id
               f == o.for
    <3>1. Spawn(a, i, 0, new, f) /\ i \in Ids /\ f \in Calls \cup {None} /\ 0 \in Nat
      BY <1>8, <2>1, <2>4 DEF Unloaded
    <3> HIDE DEF new, i, f
    <3>2. /\ op' \in [Agents -> Op] /\ spawned' \in 0 .. MaxWorkers
          /\ obj' \in [Workers -> Instance]
          /\ \E w \in 0 .. MaxWorkers :
               op' = [op EXCEPT ![a] = [kind |-> "load", id |-> i, worker |-> w,
                                        reload |-> FALSE, for |-> f]]
      BY <1>t, <3>1, Spawning
    <3>3. TypeOK'
      BY <1>t, <2>2, <2>3, <3>2 DEF TypeOK, Op, Instance
    <3>4. Retrying'
      BY <1>t, <2>1, <2>3, <3>2 DEF Retrying, None, i, f
    <3> QED
      BY <1>t, <2>3, <3>3, <3>4 DEF Typed, Addressed
  <2>5. CASE ~o.reload
    <3>1. op' = [op EXCEPT ![a] = NoOp] /\ UNCHANGED <<spawned, obj>>
      BY <1>8, <2>5 DEF Unloaded
    <3>2. NoOp \in Op /\ NoOp.kind = None /\ NoOp.for = None
      BY ManagerAssumption DEF NoOp, Op
    <3>3. TypeOK'
      BY <1>t, <2>2, <2>3, <3>1, <3>2 DEF TypeOK, Op, Instance
    <3>4. Retrying'
      BY <1>t, <2>3, <3>1, <3>2 DEF Retrying
    <3> QED
      BY <1>t, <2>3, <3>3, <3>4 DEF Typed, Addressed
  <2> QED
    BY <2>4, <2>5
<1>9. ASSUME NEW c \in Calls, NEW i \in Ids, Enter(c, i) PROVE Typed'
  <2> DEFINE g == Limiter(i, inst[i])
             r == [pc |-> "allocating", id |-> i, attempt |-> 0,
                   worker |-> inst[i], gate |-> g]
  <2>1. inst[i] \in 0 .. MaxWorkers /\ g \in 0 .. MaxWorkers /\ 0 \in 0 .. MaxRetries
    BY <1>t, LimiterType, ManagerAssumption DEF TypeOK
  <2>2. /\ call' = [call EXCEPT ![c] = r]
        /\ limiter' = [limiter EXCEPT ![i] = IF g = 0 THEN @ ELSE g]
        /\ call[c].pc = "idle"
        /\ UNCHANGED <<inst, marked, deferred, obj, spawned, gone, told, store, op>>
    BY <1>9 DEF Enter
  <2> HIDE DEF g
  <2>3. r \in Call /\ r.id \in Ids
    BY <2>1 DEF Call
  <2> HIDE DEF r
  <2>4. TypeOK'
    BY <1>t, <2>1, <2>2, <2>3 DEF TypeOK, Op, Call, Instance
  <2>5. Retrying'
    BY <1>t, <2>2, CallsOnly
  <2>6. Addressed'
    BY <1>t, <2>2, <2>3 DEF Addressed
  <2> QED
    BY <2>4, <2>5, <2>6 DEF Typed
<1>10. ASSUME NEW c \in Calls, Execute(c) PROVE Typed'
  <2> DEFINE p == IF Room(call[c].gate) THEN "executing" ELSE "queued"
  <2>1. /\ call' = [call EXCEPT ![c].pc = p]
        /\ marked' = marked \cup {call[c].id} /\ call[c].pc = "allocating"
        /\ UNCHANGED <<inst, deferred, limiter, obj, spawned, gone, told, store, op>>
    BY <1>10 DEF Execute
  <2>2. p \in {"executing", "queued"}
    OBVIOUS
  <2> HIDE DEF p
  <2>a. call[c].id \in Ids
    BY <1>t, <2>1 DEF Addressed
  <2>3. call' \in [Calls -> Call]
    BY <1>t, <2>1, <2>2 DEF Call
  <2>4. Retrying'
    BY <1>t, <2>1, CallsOnly
  <2>5. TypeOK'
    BY <1>t, <2>1, <2>3, <2>a DEF TypeOK, Op, Call, Instance
  <2>6. Addressed'
    BY <1>t, <2>1, <2>a DEF Addressed, Call
  <2> QED
    BY <2>4, <2>5, <2>6 DEF Typed
<1>11. ASSUME NEW c \in Calls, Acquire(c) PROVE Typed'
  <2>1. /\ call' = [call EXCEPT ![c].pc = "executing"]
        /\ call[c].pc = "queued"
        /\ UNCHANGED <<inst, marked, deferred, limiter, obj, spawned, gone, told, store, op>>
    BY <1>11 DEF Acquire
  <2>2. call' \in [Calls -> Call]
    BY <1>t, <2>1 DEF Call
  <2>3. Retrying'
    BY <1>t, <2>1, CallsOnly
  <2>4. TypeOK'
    BY <1>t, <2>1, <2>2 DEF TypeOK, Op, Call, Instance
  <2>5. Addressed'
    BY <1>t, <2>1 DEF Addressed, Call
  <2> QED
    BY <2>3, <2>4, <2>5 DEF Typed
<1>12. ASSUME NEW c \in Calls, Return(c) PROVE Typed'
  <2> DEFINE i == call[c].id
  <2>1. /\ call[c].pc = "executing" /\ LoopFree
        /\ marked' = marked \ {i} /\ FireHook(i)
        /\ UNCHANGED <<inst, limiter, obj, spawned, store>>
        /\ \E r : \/ Retries(c, r) /\ Again(c)
                  \/ /\ call' = [call EXCEPT ![c] = NoCall]
                     /\ UNCHANGED <<op, gone>>
    BY <1>12 DEF Return
  <2>2. i \in Ids
    BY <1>t, <2>1 DEF Addressed
  <2>3. /\ told' \in [Workers -> {None, "on_enable", "on_disable"}]
        /\ deferred' \subseteq Ids
    BY <1>t, <2>1, TellType DEF FireHook, TypeOK
  <2>4. CASE call' = [call EXCEPT ![c] = NoCall] /\ UNCHANGED <<op, gone>>
    <3>1. NoCall \in Call /\ NoCall.pc = "idle"
      BY ManagerAssumption DEF NoCall, Call
    <3>2. TypeOK'
      BY <1>t, <2>1, <2>3, <2>4, <3>1 DEF TypeOK, Op, Call, Instance
    <3>3. Addressed'
      BY <1>t, <2>4, <3>1 DEF Addressed
    <3>4. Retrying'
      BY <1>t, <2>1, <2>4, CallsOnly
    <3> QED
      BY <3>2, <3>3, <3>4 DEF Typed
  <2>5. CASE /\ call[c].attempt < MaxRetries /\ inst[i] # 0
             /\ call' = [call EXCEPT ![c].pc = "retrying"]
             /\ Terminate(Loop, i, TRUE, c)
    <3>1. /\ op' \in [Agents -> Op] /\ gone' \subseteq Workers
          /\ op' = [op EXCEPT ![Loop] = [kind |-> "unload", id |-> i, worker |-> inst[i],
                                         reload |-> TRUE, for |-> c]]
      BY <1>l, <2>2, <2>5, Terminating
    <3>2. call' \in [Calls -> Call]
      BY <1>t, <2>5 DEF Call
    <3>3. TypeOK'
      BY <1>t, <2>1, <2>3, <3>1, <3>2 DEF TypeOK, Op, Call, Instance
    <3>4. Addressed'
      BY <1>t, <2>1, <2>5 DEF Addressed, Call
    <3>5. Retrying'
      BY <1>t, <1>l, <2>2, <2>5, <3>1 DEF Retrying, Call, None
    <3> QED
      BY <3>3, <3>4, <3>5 DEF Typed
  <2>6. \/ call' = [call EXCEPT ![c] = NoCall] /\ UNCHANGED <<op, gone>>
        \/ /\ call[c].attempt < MaxRetries /\ inst[i] # 0
           /\ call' = [call EXCEPT ![c].pc = "retrying"]
           /\ Terminate(Loop, i, TRUE, c)
    BY <2>1 DEF Retries, Again
  <2> QED
    BY <2>4, <2>5, <2>6
<1>13. CASE UNCHANGED vars
  BY <1>t, <1>13 DEF vars, Typed, TypeOK, Retrying, Addressed, Op, Call, Instance
<1> QED
  BY <1>1, <1>2, <1>3, <1>4, <1>5, <1>6, <1>7, <1>8, <1>9, <1>10, <1>11, <1>12, <1>13
  DEF Next, Operator, Working, Calling

LEMMA AlwaysTyped == Spec => []Typed
BY TypedInit, TypedNext, PTL DEF Spec

(* Every variable of the manager keeps its type: retries stay within       *)
(* max_retries, and a retry comes back to the id it was on.                *)
THEOREM TypeCorrect == Spec => []TypeOK
<1>1. Typed => TypeOK
  BY DEF Typed
<1> QED
  BY <1>1, AlwaysTyped, PTL

-----------------------------------------------------------------------------
(* Deferred hooks.  What makes the property inductive: every mark, not     *)
(* only that of an instance with a deferred hook, has a call behind it.    *)

Watched(i) == \E c \in Calls : call[c].id = i /\ call[c].pc \in {"queued", "executing"}

Hooks ==
  /\ deferred \subseteq marked
  /\ \A i \in marked : Watched(i)

LEMMA HooksInit == Init => Hooks
BY DEF Init, Hooks

(* Calls that are queued or executing stay so.                             *)
LEMMA StillWatched ==
  ASSUME NEW i, Watched(i),
         \A c \in Calls : call[c].pc \in {"queued", "executing"} /\ call[c].id = i
                            => /\ call'[c].id = call[c].id
                               /\ call'[c].pc \in {"queued", "executing"}
  PROVE  Watched(i)'
BY DEF Watched

LEMMA HooksNext == Typed /\ Hooks /\ [Next]_vars => Hooks'
<1> SUFFICES ASSUME Typed, Hooks, [Next]_vars PROVE Hooks'
  OBVIOUS
<1> USE DEF registry, workers
<1>t. Retrying /\ Addressed /\ call \in [Calls -> Call]
  BY DEF Typed, TypeOK, Call
<1>1. CASE UNCHANGED <<marked, deferred, call>>
  BY <1>1 DEF Hooks, Watched
<1>2. ASSUME NEW i \in Ids, Disable(i) PROVE Hooks'
  <2>1. UNCHANGED <<marked, call>> /\ deferred' \subseteq marked
    BY <1>2 DEF Disable, Hooks
  <2> QED
    BY <2>1 DEF Hooks, Watched
<1>3. ASSUME NEW a \in Agents, Loaded(a) \/ LoadFails(a) PROVE Hooks'
  <2>1. /\ UNCHANGED <<marked, deferred>> /\ op[a].kind # None
        /\ op' = [op EXCEPT ![a] = NoOp] /\ Resume(op[a].for, op[a].id)
        /\ inst' \in [Ids -> 0 .. MaxWorkers]
    BY <1>3 DEF Loaded, LoadFails, None, Typed, TypeOK
  <2>2. /\ \A c \in Calls : c # op[a].for => call'[c] = call[c]
        /\ op[a].for # None => call[op[a].for].pc = "retrying"
    BY <1>t, <2>1, Resuming DEF Retrying
  <2>3. \A c \in Calls : call[c].pc \in {"queued", "executing"} => call'[c] = call[c]
    BY ManagerAssumption, <2>2 DEF None
  <2>4. \A i : Watched(i) => Watched(i)'
    BY <2>3, StillWatched
  <2> QED
    BY <2>1, <2>4 DEF Hooks
<1>4. ASSUME NEW a \in Agents, Unloaded(a) PROVE Hooks'
  <2>1. UNCHANGED call /\ marked' \subseteq marked /\ deferred' \subseteq marked'
    BY <1>4 DEF Unloaded, Forget, Hooks
  <2> QED
    BY <2>1 DEF Hooks, Watched
<1>5. ASSUME NEW c \in Calls, NEW i \in Ids, Enter(c, i) PROVE Hooks'
  <2>1. /\ UNCHANGED <<marked, deferred>> /\ call[c].pc = "idle"
        /\ \A k \in Calls : k # c => call'[k] = call[k]
    BY <1>5, <1>t DEF Enter
  <2>2. \A k : Watched(k) => Watched(k)'
    BY <2>1, StillWatched
  <2> QED
    BY <2>1, <2>2 DEF Hooks
<1>6. ASSUME NEW c \in Calls, Execute(c) PROVE Hooks'
  <2>1. /\ marked' = marked \cup {call[c].id} /\ UNCHANGED deferred
        /\ call[c].pc = "allocating"
        /\ call' = [call EXCEPT ![c].pc =
                      IF Room(call[c].gate) THEN "executing" ELSE "queued"]
    BY <1>6 DEF Execute
  <2>2. /\ call'[c].id = call[c].id /\ call'[c].pc \in {"queued", "executing"}
        /\ \A k \in Calls : k # c => call'[k] = call[k]
    BY <1>t, <2>1 DEF Call
  <2>3. \A k : Watched(k) => Watched(k)'
    BY <2>2, StillWatched
  <2>4. Watched(call[c].id)'
    BY <2>2 DEF Watched
  <2> QED
    BY <2>1, <2>3, <2>4 DEF Hooks
<1>7. ASSUME NEW c \in Calls, Acquire(c) PROVE Hooks'
  <2>1. /\ UNCHANGED <<marked, deferred>>
        /\ call' = [call EXCEPT ![c].pc = "executing"]
    BY <1>7 DEF Acquire
  <2>2. \A k \in Calls : /\ call'[k].id = call[k].id
                         /\ call'[k].pc = call[k].pc \/ call'[k].pc = "executing"
    BY <1>t, <2>1 DEF Call
  <2>3. \A k : Watched(k) => Watched(k)'
    BY <2>2, StillWatched
  <2> QED
    BY <2>1, <2>3 DEF Hooks
<1>8. ASSUME NEW c \in Calls, Return(c) PROVE Hooks'
  <2> DEFINE i == call[c].id
  <2>1. /\ marked' = marked \ {i} /\ deferred' = deferred \ {i}
        /\ \A k \in Calls : k # c => call'[k] = call[k]
    BY <1>8, <1>t DEF Return, FireHook, Again
  <2>2. \A k : k # i /\ Watched(k) => Watched(k)'
    BY <2>1, StillWatched
  <2> QED
    BY <2>1, <2>2 DEF Hooks
<1> QED
  BY <1>1, <1>2, <1>3, <1>4, <1>5, <1>6, <1>7, <1>8
  DEF Next, Operator, Working, Calling, Load, Unload, Reload, Enable, vars

(* A deferred on_disable always has a running call on a marked instance    *)
(* that will fire it when it ends (disable_capability,                     *)
(* _maybe_fire_disable_hook, unload_capability).                           *)
THEOREM DeferredHooks == Spec => []DeferredHookHasCall
<1>1. Typed /\ Hooks /\ [Next]_vars => Hooks'
  BY HooksNext
<1>2. Typed /\ Hooks => DeferredHookHasCall
  BY DEF Hooks, Watched, DeferredHookHasCall, On
<1> QED
  BY <1>1, <1>2, HooksInit, AlwaysTyped, PTL DEF Spec

-----------------------------------------------------------------------------
(* Workers are numbered as they are spawned.                               *)

Busy(c) == call[c].pc # "idle"

Numbered ==
  /\ \A i \in Ids : inst[i] =< spawned
  /\ \A a \in Agents : op[a].worker =< spawned
  /\ \A c \in Calls : call[c].worker =< spawned
  /\ \A c \in Calls : Busy(c) => call[c].worker # 0

LEMMA NumberedInit == Init => Numbered
BY DEF Init, Numbered, Busy, NoOp, NoCall

LEMMA NumberedNext == Typed /\ Numbered /\ [Next]_vars => Numbered'
<1> SUFFICES ASSUME Typed, Numbered, [Next]_vars PROVE Numbered'
  OBVIOUS
<1> USE DEF registry, workers
<1>t. /\ TypeOK /\ Retrying /\ Addressed
      /\ op \in [Agents -> Op] /\ call \in [Calls -> Call]
      /\ inst \in [Ids -> 0 .. MaxWorkers] /\ spawned \in 0 .. MaxWorkers
      /\ MaxWorkers \in Nat /\ Loop \in Agents
  BY ManagerAssumption DEF Typed, TypeOK, Op, Call, Agents
<1>1. CASE UNCHANGED <<inst, op, call, spawned>>
  BY <1>1 DEF Numbered, Busy
<1>2. ASSUME NEW a \in Agents, NEW i \in Ids, NEW l \in Limits[i], Load(a, i, l)
      PROVE  Numbered'
  <2>1. l \in Nat /\ Spawn(a, i, l, i \in Generated, None)
        /\ UNCHANGED <<inst, call>>
    BY <1>2, ManagerAssumption DEF Load
  <2>2. PICK w \in 0 .. MaxWorkers :
          /\ w = 0 \/ (w = spawned + 1 /\ spawned' = w)
          /\ op' = [op EXCEPT ![a] = [kind |-> "load", id |-> i, worker |-> w,
                                      reload |-> FALSE, for |-> None]]
          /\ w = 0 => spawned' = spawned
    BY <1>t, <2>1, Spawning
  <2>3. spawned =< spawned' /\ w =< spawned' /\ spawned' \in Nat
    BY <1>t, <2>2
  <2>4. \A b \in Agents : op'[b].worker =< spawned'
    BY <1>t, <2>2, <2>3 DEF Numbered, Op
  <2> QED
    BY <1>t, <2>1, <2>3, <2>4 DEF Numbered, Busy, Call
<1>3. ASSUME NEW a \in Agents, NEW i \in Ids, NEW reload \in BOOLEAN,
             NEW for \in Calls \cup {None}, inst[i] # 0, Terminate(a, i, reload, for),
             UNCHANGED <<inst, spawned>>,
             \A c \in Calls : call'[c].worker = call[c].worker /\ (Busy(c)' => Busy(c))
      PROVE  Numbered'
  <2>1. op' = [op EXCEPT ![a] = [kind |-> "unload", id |-> i, worker |-> inst[i],
                                 reload |-> reload, for |-> for]]
    BY <1>3 DEF Terminate
  <2>2. \A b \in Agents : op'[b].worker =< spawned
    BY <1>t, <2>1 DEF Numbered, Op
  <2> QED
    BY <1>3, <2>2 DEF Numbered
<1>4. ASSUME NEW a \in Agents, Loaded(a) \/ LoadFails(a) PROVE Numbered'
  <2> DEFINE c == op[a].for
             i == op[a].id
  <2>1. /\ op' = [op EXCEPT ![a] = NoOp] /\ Resume(c, i) /\ i \in Ids
        /\ inst' = [inst EXCEPT ![i] = op[a].worker] \/ inst' = inst
        /\ c \in Calls \cup {None} /\ UNCHANGED spawned
        /\ op[a].worker \in 0 .. MaxWorkers
    BY <1>4, <1>t DEF Loaded, LoadFails, None, Retrying, Op
  <2>2. \A b \in Agents : op'[b].worker =< spawned
    BY <1>t, <2>1 DEF Numbered, NoOp
  <2>3. inst' \in [Ids -> 0 .. MaxWorkers] /\ \A k \in Ids : inst'[k] =< spawned
    BY <1>t, <2>1 DEF Numbered
  <2>4. CASE c = None
    BY <2>1, <2>2, <2>3, <2>4 DEF Resume, Numbered, Busy
  <2>5. CASE c # None
    <3> DEFINE w == inst'[i]
               r == [pc |-> "allocating", id |-> i, attempt |-> call[c].attempt + 1,
                     worker |-> w, gate |-> Limiter(i, w)]
    <3>1. c \in Calls
      BY <2>1, <2>5
    <3>2. \/ w = 0 /\ call' = [call EXCEPT ![c] = NoCall]
          \/ w # 0 /\ call' = [call EXCEPT ![c] = r]
      BY <2>1, <2>5 DEF Resume
    <3>3. NoCall.worker = 0 /\ NoCall.pc = "idle" /\ r.worker = w
      BY DEF NoCall
    <3>4. 0 =< spawned /\ w =< spawned
      BY <1>t, <2>1, <2>3
    <3> HIDE DEF r, w
    <3>5. \A k \in Calls : call'[k].worker =< spawned
      BY <1>t, <3>1, <3>2, <3>3, <3>4 DEF Numbered
    <3>6. \A k \in Calls : Busy(k)' => call'[k].worker # 0
      BY <1>t, <3>1, <3>2, <3>3 DEF Numbered, Busy
    <3> QED
      BY <2>1, <2>2, <2>3, <3>5, <3>6 DEF Numbered
  <2> QED
    BY <2>4, <2>5
<1>5. ASSUME NEW a \in Agents, Unloaded(a) PROVE Numbered'
  <2> DEFINE i == op[a].id
             f == op[a].for
             new == FALSE
  <2>1. /\ UNCHANGED call /\ i \in Ids /\ f \in Calls \cup {None} /\ 0 \in Nat
        /\ \/ Spawn(a, i, 0, new, f)
           \/ op' = [op EXCEPT ![a] = NoOp] /\ UNCHANGED spawned
    BY <1>5, <1>t DEF Unloaded, Retrying, None, Op
  <2>2. inst' = inst \/ inst' = [inst EXCEPT ![i] = 0]
    BY <1>5 DEF Unloaded, Forget
  <2> HIDE DEF i, f, new
  <2>3. /\ spawned =< spawned' /\ spawned' \in Nat
        /\ \A b \in Agents : op'[b].worker =< spawned'
    <3>1. CASE op' = [op EXCEPT ![a] = NoOp] /\ UNCHANGED spawned
      BY <1>t, <3>1 DEF Numbered, NoOp
    <3>2. CASE Spawn(a, i, 0, new, f)
      <4>1. PICK w \in 0 .. MaxWorkers :
              /\ w = 0 \/ (w = spawned + 1 /\ spawned' = w)
              /\ op' = [op EXCEPT ![a] = [kind |-> "load", id |-> i, worker |-> w,
                                          reload |-> FALSE, for |-> f]]
              /\ w = 0 => spawned' = spawned
        BY <1>t, <2>1, <3>2, Spawning
      <4>2. spawned =< spawned' /\ w =< spawned' /\ spawned' \in Nat
        BY <1>t, <4>1
      <4> QED
        BY <1>t, <4>1, <4>2 DEF Numbered, Op
    <3> QED
      BY <2>1, <3>1, <3>2
  <2>4. \A k \in Ids : inst'[k] =< spawned'
    BY <1>t, <2>2, <2>3 DEF Numbered
  <2> QED
    BY <1>t, <2>1, <2>3, <2>4 DEF Numbered, Busy, Call
<1>6. ASSUME NEW c \in Calls, NEW i \in Ids, Enter(c, i) PROVE Numbered'
  <2>1. /\ UNCHANGED <<inst, op, spawned>> /\ inst[i] # 0
        /\ call' = [call EXCEPT ![c] = [pc |-> "allocating", id |-> i, attempt |-> 0,
                                        worker |-> inst[i], gate |-> Limiter(i, inst[i])]]
    BY <1>6 DEF Enter
  <2> QED
    BY <1>t, <2>1 DEF Numbered, Busy
<1>7. ASSUME NEW c \in Calls, Execute(c) \/ Acquire(c) PROVE Numbered'
  <2>1. /\ UNCHANGED <<inst, op, spawned>> /\ Busy(c)
        /\ \E p : call' = [call EXCEPT ![c].pc = p]
    BY <1>7 DEF Execute, Acquire, Busy
  <2> QED
    BY <1>t, <2>1 DEF Numbered, Busy, Call
<1>8. ASSUME NEW c \in Calls, Return(c) PROVE Numbered'
  <2>1. /\ UNCHANGED <<inst, spawned>> /\ call[c].pc = "executing"
        /\ \/ call' = [call EXCEPT ![c] = NoCall] /\ UNCHANGED op
           \/ /\ call' = [call EXCEPT ![c].pc = "retrying"] /\ inst[call[c].id] # 0
              /\ Terminate(Loop, call[c].id, TRUE, c)
    BY <1>8 DEF Return, Again
  <2>2. call[c].id \in Ids /\ Busy(c)
    BY <1>t, <2>1 DEF Addressed, Busy
  <2>3. CASE call' = [call EXCEPT ![c] = NoCall] /\ UNCHANGED op
    BY <1>t, <2>1, <2>3 DEF Numbered, Busy, NoCall
  <2>4. CASE /\ call' = [call EXCEPT ![c].pc = "retrying"] /\ inst[call[c].id] # 0
             /\ Terminate(Loop, call[c].id, TRUE, c)
    <3>1. \A k \in Calls : call'[k].worker = call[k].worker /\ (Busy(k)' => Busy(k))
      BY <1>t, <2>2, <2>4 DEF Busy, Call
    <3> QED
      BY <1>3, <1>t, <2>1, <2>2, <2>4, <3>1
  <2> QED
    BY <2>1, <2>3, <2>4
<1>9. ASSUME NEW a \in Agents, NEW i \in Ids, Unload(a, i) PROVE Numbered'
  <2>1. /\ UNCHANGED <<inst, spawned, call>> /\ inst[i] # 0
        /\ Terminate(a, i, FALSE, None)
    BY <1>9 DEF Unload
  <2> QED
    BY <1>3, <2>1 DEF Busy
<1>10. ASSUME NEW i \in Ids, Reload(i) PROVE Numbered'
  <2>1. /\ UNCHANGED <<inst, spawned, call>> /\ inst[i] # 0
        /\ Terminate(Loop, i, TRUE, None)
    BY <1>10 DEF Reload
  <2> QED
    BY <1>3, <1>t, <2>1 DEF Busy
<1> QED
  BY <1>1, <1>2, <1>4, <1>5, <1>6, <1>7, <1>8, <1>9, <1>10
  DEF Next, Operator, Working, Calling, Enable, Disable, vars

-----------------------------------------------------------------------------
(* Concurrency limits.  What makes the property inductive: the limiter a   *)
(* call holds, or waits on, is the one made for the worker it runs on, and *)
(* the limiter kept for an id is that of its instance, if this has a limit.*)

Executing(w) == {c \in Calls : call[c].pc = "executing" /\ call[c].worker = w}

Gated ==
  \A c \in Calls : Busy(c) /\ obj[call[c].worker].limit # 0
                     => call[c].pc = "retrying" \/ call[c].gate = call[c].worker

Kept ==
  /\ \A i \in Ids : inst[i] = 0 => limiter[i] = 0
  /\ \A i \in Ids : limiter[i] # 0 /\ obj[inst[i]].limit # 0 => limiter[i] = inst[i]

(* Only a load that blocks the loop brings a limit, for an id that has no  *)
(* limiter.                                                                *)
Bringing ==
  \A a \in Agents :
    op[a].kind = "load" /\ op[a].worker # 0 /\ obj[op[a].worker].limit # 0
      => a = Loop /\ limiter[op[a].id] = 0

LimitsKept == Numbered /\ Gated /\ Kept /\ Bringing

LEMMA LimitsInit == Init => LimitsKept
<1> SUFFICES ASSUME Init PROVE LimitsKept
  OBVIOUS
<1>1. Numbered
  BY NumberedInit
<1>2. Gated /\ Kept /\ Bringing
  BY DEF Init, Gated, Kept, Bringing, Busy, NoOp, NoCall
<1> QED
  BY <1>1, <1>2 DEF LimitsKept

(* The limiter a call gets is the one of its worker.                       *)
LEMMA RightLimiter ==
  ASSUME NEW i \in Ids, NEW w, obj[w].limit # 0, limiter[i] # 0 => limiter[i] = w
  PROVE  Limiter(i, w) = w
BY DEF Limiter

(* A new worker disturbs no limit that is in use.                          *)
LEMMA FreshWorker ==
  ASSUME Typed, Numbered, NEW a \in Agents, NEW i \in Ids, NEW l \in Nat, NEW new,
         NEW for \in Calls \cup {None}, Spawn(a, i, l, new, for)
  PROVE  /\ \A v \in Workers : v =< spawned => obj'[v].limit = obj[v].limit
         /\ \E w \in 0 .. MaxWorkers :
              /\ w = 0 \/ (w > spawned /\ obj'[w].limit = l)
              /\ op' = [op EXCEPT ![a] = [kind |-> "load", id |-> i, worker |-> w,
                                          reload |-> FALSE, for |-> for]]
<1>1. TypeOK /\ spawned \in 0 .. MaxWorkers /\ MaxWorkers \in Nat
  BY ManagerAssumption DEF Typed, TypeOK
<1>2. PICK w \in 0 .. MaxWorkers :
        /\ w = 0 \/ (w = spawned + 1 /\ spawned' = w /\ obj'[w].limit = l)
        /\ op' = [op EXCEPT ![a] = [kind |-> "load", id |-> i, worker |-> w,
                                    reload |-> FALSE, for |-> for]]
        /\ w = 0 => spawned' = spawned /\ obj' = obj
        /\ \A v \in Workers : v # w => obj'[v] = obj[v]
  BY <1>1, Spawning
<1>3. \A v \in Workers : v =< spawned => obj'[v].limit = obj[v].limit
  BY <1>1, <1>2 DEF Workers
<1>4. w = 0 \/ (w > spawned /\ obj'[w].limit = l)
  BY <1>1, <1>2
<1> QED
  BY <1>2, <1>3, <1>4

(* Nothing changes the limit of a worker that was spawned.                 *)
LEMMA SameLimits ==
  ASSUME Typed, Numbered, [Next]_vars
  PROVE  \A w \in Workers : w =< spawned => obj'[w].limit = obj[w].limit
<1> USE DEF registry, workers
<1>t. /\ TypeOK /\ Retrying /\ op \in [Agents -> Op]
  BY DEF Typed, TypeOK, Op
<1>1. CASE UNCHANGED obj
  BY <1>1
<1>2. ASSUME NEW i \in Ids, Enable(i) \/ Disable(i)
      PROVE  \A w \in Workers : w =< spawned => obj'[w].limit = obj[w].limit
  BY <1>2, <1>t, SetEnabledType DEF Enable, Disable
<1>3. ASSUME NEW a \in Agents, NEW i \in Ids, NEW l \in Limits[i], Load(a, i, l)
      PROVE  \A w \in Workers : w =< spawned => obj'[w].limit = obj[w].limit
  <2>1. l \in Nat /\ Spawn(a, i, l, i \in Generated, None)
    BY <1>3, ManagerAssumption DEF Load
  <2> QED
    BY <2>1, FreshWorker
<1>4. ASSUME NEW a \in Agents, Unloaded(a)
      PROVE  \A w \in Workers : w =< spawned => obj'[w].limit = obj[w].limit
  <2> DEFINE i == op[a].id
             f == op[a].for
             new == FALSE
  <2>1. /\ i \in Ids /\ f \in Calls \cup {None} /\ 0 \in Nat
        /\ Spawn(a, i, 0, new, f) \/ UNCHANGED obj
    BY <1>4, <1>t DEF Unloaded, Retrying, None, Op
  <2> HIDE DEF i, f, new
  <2> QED
    BY <2>1, FreshWorker
<1> QED
  BY <1>1, <1>2, <1>3, <1>4
  DEF Next, Operator, Working, Calling, Unload, Reload, Loaded, LoadFails, Enter,
      Execute, Acquire, Return, vars

LEMMA LimitsNext == Typed /\ LimitsKept /\ [Next]_vars => LimitsKept'
<1> SUFFICES ASSUME Typed, LimitsKept, [Next]_vars PROVE LimitsKept'
  OBVIOUS
<1> USE DEF registry, workers
<1>t. /\ TypeOK /\ Retrying /\ Addressed
      /\ op \in [Agents -> Op] /\ call \in [Calls -> Call]
      /\ inst \in [Ids -> 0 .. MaxWorkers] /\ spawned \in 0 .. MaxWorkers
      /\ limiter \in [Ids -> 0 .. MaxWorkers]
      /\ MaxWorkers \in Nat /\ Loop \in Agents
      /\ \A a \in Agents : op[a].worker \in 0 .. MaxWorkers
      /\ \A c \in Calls : call[c].worker \in 0 .. MaxWorkers
  BY ManagerAssumption DEF Typed, TypeOK, Op, Call, Agents
<1>k. Numbered /\ Gated /\ Kept /\ Bringing
  BY DEF LimitsKept
<1>n. Numbered'
  BY <1>k, NumberedNext
<1>s. \A w \in Workers : w =< spawned => obj'[w].limit = obj[w].limit
  BY <1>k, SameLimits
<1>i. \A i \in Ids : inst[i] # 0 => obj'[inst[i]].limit = obj[inst[i]].limit
  BY <1>t, <1>k, <1>s DEF Numbered, Workers
<1>o. \A a \in Agents : op[a].worker # 0 => obj'[op[a].worker].limit = obj[op[a].worker].limit
  BY <1>t, <1>k, <1>s DEF Numbered, Workers
<1>c. \A c \in Calls : Busy(c) => obj'[call[c].worker].limit = obj[call[c].worker].limit
  BY <1>t, <1>k, <1>s DEF Numbered, Workers
<1>1. ASSUME UNCHANGED call PROVE Gated'
  BY <1>1, <1>k, <1>c DEF Gated, Busy
<1>2. ASSUME UNCHANGED <<inst, limiter>> PROVE Kept'
  BY <1>2, <1>k, <1>i DEF Kept
<1>3. ASSUME UNCHANGED <<op, limiter>> PROVE Bringing'
  BY <1>3, <1>k, <1>o DEF Bringing
<1>4. ASSUME NEW a \in Agents, NEW i \in Ids, NEW l \in Limits[i], Load(a, i, l)
      PROVE  LimitsKept'
  <2>1. /\ l \in Nat /\ Spawn(a, i, l, i \in Generated, None)
        /\ UNCHANGED <<inst, call, limiter>> /\ inst[i] = 0 /\ (a # Loop => l = 0)
    BY <1>4, ManagerAssumption DEF Load
  <2>2. PICK w \in 0 .. MaxWorkers :
          /\ w = 0 \/ (w > spawned /\ obj'[w].limit = l)
          /\ op' = [op EXCEPT ![a] = [kind |-> "load", id |-> i, worker |-> w,
                                      reload |-> FALSE, for |-> None]]
    BY <1>k, <2>1, FreshWorker
  <2>3. Bringing'
    BY <1>t, <1>k, <1>o, <2>1, <2>2 DEF Bringing, Kept, Op
  <2> QED
    BY <1>1, <1>2, <1>n, <2>1, <2>3 DEF LimitsKept
<1>5. ASSUME NEW a \in Agents, NEW i \in Ids, NEW reload \in BOOLEAN,
             NEW for \in Calls \cup {None}, Terminate(a, i, reload, for),
             UNCHANGED limiter
      PROVE  Bringing'
  <2>1. op' = [op EXCEPT ![a] = [kind |-> "unload", id |-> i, worker |-> inst[i],
                                 reload |-> reload, for |-> for]]
    BY <1>5 DEF Terminate
  <2> QED
    BY <1>5, <1>t, <1>k, <1>o, <2>1 DEF Bringing, Op
<1>6. ASSUME NEW a \in Agents, NEW i \in Ids, Unload(a, i) PROVE LimitsKept'
  <2>1. UNCHANGED <<inst, limiter, call>> /\ Terminate(a, i, FALSE, None)
    BY <1>6 DEF Unload
  <2> QED
    BY <1>1, <1>2, <1>5, <1>n, <2>1 DEF LimitsKept
<1>7. ASSUME NEW i \in Ids, Reload(i) PROVE LimitsKept'
  <2>1. UNCHANGED <<inst, limiter, call>> /\ Terminate(Loop, i, TRUE, None)
    BY <1>7 DEF Reload
  <2> QED
    BY <1>1, <1>2, <1>5, <1>n, <1>t, <2>1 DEF LimitsKept
<1>8. ASSUME NEW a \in Agents, Loaded(a) \/ LoadFails(a) PROVE LimitsKept'
  <2> DEFINE i == op[a].id
             c == op[a].for
             w == inst'[i]
  <2>1. /\ UNCHANGED obj /\ i \in Ids /\ c \in Calls \cup {None}
        /\ op' = [op EXCEPT ![a] = NoOp] /\ Resume(c, i)
        /\ op[a].kind = "load"
        /\ \/ inst' = [inst EXCEPT ![i] = op[a].worker] /\ op[a].worker # 0
           \/ inst' = inst
    BY <1>8, <1>t DEF Loaded, LoadFails, None, Retrying, Op
  <2>2. /\ op'[a].kind # "load"
        /\ \A b \in Agents : b # a => op'[b] = op[b]
    BY <1>t, <2>1 DEF NoOp, None
  (* With respect to the limiters as they are before the retry goes on.    *)
  <2>3. /\ \A k \in Ids : inst'[k] = 0 => limiter[k] = 0
        /\ \A k \in Ids : limiter[k] # 0 /\ obj[inst'[k]].limit # 0 => limiter[k] = inst'[k]
    BY <1>t, <1>k, <2>1 DEF Kept, Bringing
  <2>4. CASE c = None
    <3>1. UNCHANGED <<call, limiter>>
      BY <2>1, <2>4 DEF Resume
    <3>2. Kept'
      BY <2>1, <2>3, <3>1 DEF Kept
    <3>3. Bringing'
      BY <1>k, <1>o, <2>2, <3>1 DEF Bringing
    <3> QED
      BY <1>1, <1>n, <3>1, <3>2, <3>3 DEF LimitsKept
  <2>5. CASE c # None
    <3>1. c \in Calls /\ a = Loop
      BY <1>t, <2>1, <2>5 DEF Retrying
    <3>2. Bringing'
      BY <1>k, <1>o, <2>2, <3>1 DEF Bringing
    <3>3. CASE w = 0
      <4>1. call' = [call EXCEPT ![c] = NoCall] /\ UNCHANGED limiter
        BY <2>1, <2>5, <3>3 DEF Resume
      <4>2. \A k \in Calls : Busy(k)' => call'[k] = call[k]
        BY <1>t, <3>1, <4>1 DEF Busy, NoCall
      <4>3. Gated' /\ Kept'
        BY <1>k, <1>c, <2>1, <2>3, <4>1, <4>2 DEF Gated, Kept, Busy
      <4> QED
        BY <1>n, <3>2, <4>3 DEF LimitsKept
    <3>4. CASE w # 0
      <4> DEFINE g == Limiter(i, w)
                 r == [pc |-> "allocating", id |-> i, attempt |-> call[c].attempt + 1,
                       worker |-> w, gate |-> g]
      <4>1. /\ call' = [call EXCEPT ![c] = r]
            /\ limiter' = [limiter EXCEPT ![i] = IF g = 0 THEN @ ELSE g]
        BY <2>1, <2>5, <3>4 DEF Resume
      <4>2. obj[w].limit # 0 => g = w
        BY <2>1, <2>3, RightLimiter
      <4>3. obj[w].limit = 0 => g = 0
        BY DEF Limiter
      <4>4. r.worker = w /\ r.gate = g
        OBVIOUS
      <4> HIDE DEF g, r
      <4>5. Gated'
        BY <1>t, <1>k, <1>c, <2>1, <3>1, <4>1, <4>2, <4>4 DEF Gated, Busy
      <4>6. Kept'
        BY <1>t, <2>1, <2>3, <3>4, <4>1, <4>2, <4>3 DEF Kept
      <4> QED
        BY <1>n, <3>2, <4>5, <4>6 DEF LimitsKept
    <3> QED
      BY <3>3, <3>4
  <2> QED
    BY <2>4, <2>5
<1>9. ASSUME NEW a \in Agents, Unloaded(a) PROVE LimitsKept'
  <2> DEFINE i == op[a].id
             f == op[a].for
             new == FALSE
  <2>1. /\ UNCHANGED call /\ i \in Ids /\ f \in Calls \cup {None} /\ 0 \in Nat
        /\ \/ Spawn(a, i, 0, new, f)
           \/ op' = [op EXCEPT ![a] = NoOp] /\ UNCHANGED spawned
    BY <1>9, <1>t DEF Unloaded, Retrying, None, Op
  <2>2. \/ UNCHANGED <<inst, limiter>>
        \/ inst' = [inst EXCEPT ![i] = 0] /\ limiter' = [limiter EXCEPT ![i] = 0]
    BY <1>9 DEF Unloaded, Forget
  <2> HIDE DEF i, f, new
  <2>3. Kept'
    BY <1>t, <1>k, <1>i, <2>1, <2>2 DEF Kept
  <2>4. \A b \in Agents : op[b].kind = "load" =>
          (limiter[op[b].id] = 0 => limiter'[op[b].id] = 0)
    BY <1>t, <2>1, <2>2 DEF Retrying, None
  <2>5. ASSUME op' = [op EXCEPT ![a] = NoOp] PROVE Bringing'
    <3>1. /\ op'[a].kind # "load"
          /\ \A b \in Agents : b # a => op'[b] = op[b]
      BY <1>t, <2>5 DEF NoOp, None
    <3> SUFFICES ASSUME NEW b \in Agents, op'[b].kind = "load", op'[b].worker # 0,
                        obj'[op'[b].worker].limit # 0
                 PROVE  b = Loop /\ limiter'[op'[b].id] = 0
      BY DEF Bringing
    <3>2. op'[b] = op[b]
      BY <3>1
    <3> QED
      BY <1>k, <1>o, <2>4, <3>2 DEF Bringing
  <2>6. ASSUME Spawn(a, i, 0, new, f) PROVE Bringing'
    <3>1. PICK w \in 0 .. MaxWorkers :
            /\ w = 0 \/ (w > spawned /\ obj'[w].limit = 0)
            /\ op' = [op EXCEPT ![a] = [kind |-> "load", id |-> i, worker |-> w,
                                        reload |-> FALSE, for |-> f]]
      BY <1>k, <2>1, <2>6, FreshWorker
    <3>2. /\ op'[a].worker = w
          /\ \A b \in Agents : b # a => op'[b] = op[b]
      BY <1>t, <3>1
    <3> SUFFICES ASSUME NEW b \in Agents, op'[b].kind = "load", op'[b].worker # 0,
                        obj'[op'[b].worker].limit # 0
                 PROVE  b = Loop /\ limiter'[op'[b].id] = 0
      BY DEF Bringing
    <3>3. op'[b] = op[b]
      BY <3>1, <3>2
    <3> QED
      BY <1>k, <1>o, <2>4, <3>3 DEF Bringing
  <2> QED
    BY <1>1, <1>n, <2>1, <2>3, <2>5, <2>6 DEF LimitsKept
<1>10. ASSUME NEW c \in Calls, NEW i \in Ids, Enter(c, i) PROVE LimitsKept'
  <2> DEFINE w == inst[i]
             g == Limiter(i, w)
             r == [pc |-> "allocating", id |-> i, attempt |-> 0, worker |-> w, gate |-> g]
  <2>1. /\ UNCHANGED <<inst, op>> /\ w # 0 /\ LoopFree
        /\ call' = [call EXCEPT ![c] = r]
        /\ limiter' = [limiter EXCEPT ![i] = IF g = 0 THEN @ ELSE g]
    BY <1>10 DEF Enter
  <2>2. obj'[w].limit = obj[w].limit
    BY <1>i, <2>1
  <2>3. obj[w].limit # 0 => g = w
    BY <1>k, RightLimiter DEF Kept
  <2>4. obj[w].limit = 0 => g = 0
    BY DEF Limiter
  <2>5. r.worker = w /\ r.gate = g /\ r.pc = "allocating"
    OBVIOUS
  <2> HIDE DEF g, r
  <2>6. Gated'
    BY <1>t, <1>k, <1>c, <2>1, <2>2, <2>3, <2>5 DEF Gated, Busy
  <2>7. Kept'
    BY <1>t, <1>k, <1>i, <2>1, <2>2, <2>3, <2>4 DEF Kept
  <2>8. Bringing'
    BY <1>t, <1>k, <1>o, <2>1 DEF Bringing, LoopFree, NoOp, None
  <2> QED
    BY <1>n, <2>6, <2>7, <2>8 DEF LimitsKept
<1>11. ASSUME NEW c \in Calls, Execute(c) \/ Acquire(c) PROVE LimitsKept'
  <2>1. /\ UNCHANGED <<inst, op, limiter>> /\ Busy(c) /\ call[c].pc # "retrying"
        /\ \E p : call' = [call EXCEPT ![c].pc = p]
    BY <1>11 DEF Execute, Acquire, Busy
  <2>2. Gated'
    BY <1>t, <1>k, <1>c, <2>1 DEF Gated, Busy, Call
  <2> QED
    BY <1>2, <1>3, <1>n, <2>1, <2>2 DEF LimitsKept
<1>12. ASSUME NEW c \in Calls, Return(c) PROVE LimitsKept'
  <2>1. /\ UNCHANGED <<inst, limiter>> /\ call[c].pc = "executing"
        /\ \/ call' = [call EXCEPT ![c] = NoCall] /\ UNCHANGED op
           \/ /\ call' = [call EXCEPT ![c].pc = "retrying"]
              /\ Terminate(Loop, call[c].id, TRUE, c)
    BY <1>12 DEF Return, Again
  <2>2. call[c].id \in Ids
    BY <1>t, <2>1 DEF Addressed
  <2>3. Gated'
    <3>1. CASE call' = [call EXCEPT ![c] = NoCall]
      <4>1. ~Busy(c)' /\ \A k \in Calls : k # c => call'[k] = call[k]
        BY <1>t, <3>1 DEF Busy, NoCall
      <4> QED
        BY <1>k, <1>c, <4>1 DEF Gated, Busy
    <3>2. CASE call' = [call EXCEPT ![c].pc = "retrying"]
      BY <1>t, <1>k, <1>c, <3>2 DEF Gated, Busy, Call
    <3> QED
      BY <2>1, <3>1, <3>2
  <2>4. Bringing'
    BY <1>3, <1>5, <1>t, <2>1, <2>2
  <2> QED
    BY <1>2, <1>n, <2>1, <2>3, <2>4 DEF LimitsKept
<1>13. CASE UNCHANGED <<inst, limiter, op, call>>
  BY <1>13, <1>1, <1>2, <1>3, <1>n DEF LimitsKept
<1> QED
  BY <1>4, <1>6, <1>7, <1>8, <1>9, <1>10, <1>11, <1>12, <1>13
  DEF Next, Operator, Working, Calling, Enable, Disable, vars

LEMMA AlwaysLimits == Spec => []LimitsKept
BY LimitsInit, LimitsNext, AlwaysTyped, PTL DEF Spec

(* The calls that run on a worker with a limit all hold its limiter.       *)
LEMMA ExecutingHold ==
  ASSUME Typed, LimitsKept, NEW w \in Workers, obj[w].limit # 0
  PROVE  /\ IsFiniteSet(Executing(w)) /\ IsFiniteSet(Holders(w))
         /\ Executing(w) \subseteq Holders(w)
<1>1. Executing(w) \subseteq Holders(w)
  BY DEF Executing, Holders, LimitsKept, Gated, Busy
<1>2. IsFiniteSet(Executing(w)) /\ IsFiniteSet(Holders(w))
  BY FS_Subset, ManagerAssumption DEF Executing, Holders
<1> QED
  BY <1>1, <1>2

(* Room for one more call leaves the limit respected when it has started.  *)
LEMMA RoomForOne ==
  ASSUME Typed, LimitsKept, NEW c \in Calls, Busy(c), call[c].pc # "retrying",
         Room(call[c].gate), NEW w \in Workers, obj[w].limit # 0, call[c].worker = w
  PROVE  Cardinality(Executing(w) \cup {c}) =< obj[w].limit
<1>1. call[c].gate = w
  BY DEF LimitsKept, Gated
<1>2. w # 0 /\ obj[w].limit \in Nat
  BY DEF Typed, TypeOK, Workers
<1>3. Cardinality(Holders(w)) < obj[w].limit
  BY <1>1, <1>2 DEF Room
<1>4. /\ IsFiniteSet(Executing(w)) /\ IsFiniteSet(Holders(w))
      /\ Executing(w) \subseteq Holders(w)
  BY ExecutingHold
<1>5. /\ Cardinality(Executing(w)) =< Cardinality(Holders(w))
      /\ Cardinality(Executing(w)) \in Nat /\ Cardinality(Holders(w)) \in Nat
  BY <1>4, FS_Subset, FS_CardinalityType
<1>6. Cardinality(Executing(w) \cup {c})
         \in {Cardinality(Executing(w)), Cardinality(Executing(w)) + 1}
  BY <1>4, FS_AddElement
<1>7. Cardinality(Executing(w) \cup {c}) \in Nat
  BY <1>4, FS_AddElement, FS_CardinalityType
<1> QED
  BY <1>2, <1>3, <1>5, <1>6, <1>7

LEMMA LimitHoldsInit == Init => LimitHolds
<1> SUFFICES ASSUME Init, NEW w \in Workers, obj[w].limit # 0
             PROVE  FALSE
  BY DEF LimitHolds
<1> QED
  BY DEF Init, NoObject

LEMMA LimitHoldsNext == Typed /\ LimitsKept /\ LimitHolds /\ [Next]_vars => LimitHolds'
<1> SUFFICES ASSUME Typed, LimitsKept, LimitHolds, [Next]_vars,
                    NEW w \in Workers, obj'[w].limit # 0
             PROVE  Cardinality(Executing(w)') =< obj'[w].limit
  BY DEF LimitHolds, Executing
<1> USE DEF registry, workers
<1>t. /\ TypeOK /\ Retrying /\ call \in [Calls -> Call] /\ Numbered
      /\ spawned \in 0 .. MaxWorkers /\ MaxWorkers \in Nat
      /\ op \in [Agents -> Op] /\ inst \in [Ids -> 0 .. MaxWorkers]
  BY ManagerAssumption DEF Typed, TypeOK, Call, Op, LimitsKept
<1>s. w =< spawned => obj'[w].limit = obj[w].limit
  BY SameLimits DEF LimitsKept
<1>l. obj'[w].limit \in Nat
  BY TypedNext DEF Typed, TypeOK
(* Steps after which no more calls run on w than before.                   *)
<1>1. ASSUME Executing(w)' \subseteq Executing(w), w =< spawned
      PROVE  Cardinality(Executing(w)') =< obj'[w].limit
  <2>1. obj[w].limit # 0 /\ Cardinality(Executing(w)) =< obj[w].limit
    BY <1>1, <1>s DEF LimitHolds, Executing
  <2>2. IsFiniteSet(Executing(w))
    BY FS_Subset, ManagerAssumption DEF Executing
  <2>3. /\ Cardinality(Executing(w)') =< Cardinality(Executing(w))
        /\ Cardinality(Executing(w)') \in Nat /\ Cardinality(Executing(w)) \in Nat
    BY <1>1, <2>2, FS_Subset, FS_CardinalityType
  <2> QED
    BY <1>1, <1>s, <1>l, <2>1, <2>3
(* No call runs on a worker that was not spawned.                          *)
<1>2. ASSUME Executing(w)' \subseteq Executing(w), ~(w =< spawned)
      PROVE  Cardinality(Executing(w)') =< obj'[w].limit
  <2>1. Executing(w) = {}
    BY <1>2, <1>t DEF Executing, Numbered
  <2>2. Executing(w)' = {} /\ Cardinality({}) = 0
    BY <1>2, <2>1, FS_EmptySet
  <2> QED
    BY <1>l, <2>2
<1>3. CASE Executing(w)' \subseteq Executing(w)
  BY <1>1, <1>2, <1>3
<1>4. ASSUME NEW c \in Calls, Execute(c) \/ Acquire(c)
      PROVE  Cardinality(Executing(w)') =< obj'[w].limit
  <2>1. /\ Busy(c) /\ call[c].pc # "retrying" /\ UNCHANGED obj
        /\ \/ call' = [call EXCEPT ![c].pc = "executing"] /\ Room(call[c].gate)
           \/ call' = [call EXCEPT ![c].pc = "queued"]
    BY <1>4 DEF Execute, Acquire, Busy
  <2>2. CASE call' = [call EXCEPT ![c].pc = "executing"] /\ Room(call[c].gate)
    <3>1. Executing(w)' = IF call[c].worker = w THEN Executing(w) \cup {c}
                                                ELSE Executing(w)
      BY <1>t, <2>2 DEF Executing, Call
    <3>2. CASE call[c].worker = w
      BY <2>1, <2>2, <3>1, <3>2, RoomForOne
    <3> QED
      BY <1>3, <3>1, <3>2
  <2>3. CASE call' = [call EXCEPT ![c].pc = "queued"]
    <3>1. Executing(w)' \subseteq Executing(w)
      BY <1>t, <2>3 DEF Executing, Call
    <3> QED
      BY <1>3, <3>1
  <2> QED
    BY <2>1, <2>2, <2>3
<1>5. ASSUME NEW c \in Calls, \A k \in Calls : k # c => call'[k] = call[k],
             call'[c].pc # "executing"
      PROVE  Cardinality(Executing(w)') =< obj'[w].limit
  <2>1. Executing(w)' \subseteq Executing(w)
    BY <1>5 DEF Executing
  <2> QED
    BY <1>3, <2>1
<1>6. ASSUME NEW c \in Calls, Return(c)
      PROVE  Cardinality(Executing(w)') =< obj'[w].limit
  <2>1. \/ call' = [call EXCEPT ![c] = NoCall]
        \/ call' = [call EXCEPT ![c].pc = "retrying"]
    BY <1>6 DEF Return, Again
  <2>2. call'[c].pc # "executing" /\ \A k \in Calls : k # c => call'[k] = call[k]
    BY <1>t, <2>1 DEF Call, NoCall
  <2> QED
    BY <1>5, <2>2
<1>7. ASSUME NEW c \in Calls, NEW i \in Ids, Enter(c, i)
      PROVE  Cardinality(Executing(w)') =< obj'[w].limit
  <2>1. call' = [call EXCEPT ![c] = [pc |-> "allocating", id |-> i, attempt |-> 0,
                                     worker |-> inst[i], gate |-> Limiter(i, inst[i])]]
    BY <1>7 DEF Enter
  <2>2. call'[c].pc # "executing" /\ \A k \in Calls : k # c => call'[k] = call[k]
    BY <1>t, <2>1
  <2> QED
    BY <1>5, <2>2
<1>8. CASE UNCHANGED call
  <2>1. Executing(w)' = Executing(w)
    BY <1>8 DEF Executing
  <2> QED
    BY <1>3, <2>1
<1>9. ASSUME NEW a \in Agents, Loaded(a) \/ LoadFails(a)
      PROVE  Cardinality(Executing(w)') =< obj'[w].limit
  <2>1. PICK c : c = op[a].for
    OBVIOUS
  <2>2. PICK i : i = op[a].id
    OBVIOUS
  <2>3. Resume(c, i) /\ c \in Calls \cup {None}
    BY <1>9, <1>t, <2>1, <2>2 DEF Loaded, LoadFails, Op
  <2>4. CASE c = None
    BY <1>8, <2>3, <2>4 DEF Resume
  <2>5. CASE c # None
    <3>1. \/ call' = [call EXCEPT ![c] = NoCall]
          \/ call' = [call EXCEPT ![c] =
               [pc |-> "allocating", id |-> i, attempt |-> call[c].attempt + 1,
                worker |-> inst'[i], gate |-> Limiter(i, inst'[i])]]
      BY <2>3, <2>5 DEF Resume
    <3>2. call'[c].pc # "executing" /\ \A k \in Calls : k # c => call'[k] = call[k]
      BY <1>t, <2>3, <2>5, <3>1 DEF NoCall
    <3> QED
      BY <1>5, <2>3, <2>5, <3>2
  <2> QED
    BY <2>4, <2>5
<1> QED
  BY <1>4, <1>6, <1>7, <1>8, <1>9
  DEF Next, Operator, Working, Calling, Load, Unload, Reload, Enable, Disable,
      Unloaded, vars

(* However instances are unloaded, reloaded and loaded again with another  *)
(* limit, no worker runs more calls at a time than it was started for      *)
(* (_get_concurrent_limiter, unload_capability, execute_capability_async). *)
THEOREM LimitsHold == Spec => []LimitHolds
BY LimitHoldsInit, LimitHoldsNext, AlwaysTyped, AlwaysLimits, PTL DEF Spec

-----------------------------------------------------------------------------
(* Retries.  What makes the property inductive: the worker of a pending    *)
(* load is known to nobody yet, and once the instance of a retry is        *)
(* unloaded, the worker that failed never comes back under its id.         *)

Unseen ==
  \A a \in Agents :
    op[a].kind = "load" /\ op[a].worker # 0 =>
      /\ \A i \in Ids : inst[i] # op[a].worker
      /\ \A c \in Calls : call[c].worker # op[a].worker
      /\ \A b \in Agents : b # a /\ op[b].kind = "load" => op[b].worker # op[a].worker

Replaced ==
  \A a \in Agents :
    op[a].kind = "load" /\ op[a].for # None => inst[op[a].id] # call[op[a].for].worker

FreshRetries == Numbered /\ Unseen /\ Replaced

LEMMA FreshInit == Init => FreshRetries
BY NumberedInit DEF Init, FreshRetries, Unseen, Replaced, NoOp, None

(* Steps that begin no load, and bring no worker that was not an instance. *)
LEMMA StillUnseen ==
  ASSUME Unseen,
         \A b \in Agents : op'[b].kind = "load" => op'[b] = op[b],
         \A i \in Ids : inst'[i] = 0 \/ inst'[i] = inst[i],
         \A c \in Calls : \/ call'[c].worker = call[c].worker \/ call'[c].worker = 0
                          \/ \E i \in Ids : call'[c].worker = inst[i]
  PROVE  Unseen'
BY DEF Unseen

(* The same, when the call of a pending load stays on the worker it left.  *)
LEMMA StillReplaced ==
  ASSUME Typed, Numbered, Replaced,
         \A b \in Agents : op'[b].kind = "load" => op'[b] = op[b],
         \A i \in Ids : inst'[i] = 0 \/ inst'[i] = inst[i],
         \A c \in Calls : call[c].pc = "retrying" => call'[c].worker = call[c].worker
  PROVE  Replaced'
<1> SUFFICES ASSUME NEW a \in Agents, op'[a].kind = "load", op'[a].for # None
             PROVE  inst'[op'[a].id] # call'[op'[a].for].worker
  BY DEF Replaced
<1>1. op'[a] = op[a] /\ op[a].kind = "load" /\ op[a].for # None
  OBVIOUS
<1>2. PICK i : i = op[a].id
  OBVIOUS
<1>3. PICK c : c = op[a].for
  OBVIOUS
<1>4. i \in Ids /\ c \in Calls /\ call[c].pc = "retrying"
  BY <1>1, <1>2, <1>3 DEF Typed, TypeOK, Retrying, None
<1>5. call[c].worker # 0 /\ call'[c].worker = call[c].worker
  BY <1>4 DEF Numbered, Busy
<1>6. inst[i] # call[c].worker
  BY <1>1, <1>2, <1>3 DEF Replaced
<1> QED
  BY <1>1, <1>2, <1>3, <1>4, <1>5, <1>6

(* A load that begins has a worker with a new number, or none.             *)
LEMMA SpawnedUnseen ==
  ASSUME Typed, Numbered, Unseen, NEW a \in Agents, UNCHANGED call,
         \A i \in Ids : inst'[i] = 0 \/ inst'[i] = inst[i],
         NEW w \in 0 .. MaxWorkers, w = 0 \/ w = spawned + 1,
         op'[a].worker = w, \A b \in Agents : b # a => op'[b] = op[b]
  PROVE  Unseen'
<1>1. /\ spawned \in Nat /\ inst \in [Ids -> 0 .. MaxWorkers]
      /\ \A c \in Calls : call[c].worker \in 0 .. MaxWorkers
      /\ \A b \in Agents : op[b].worker \in 0 .. MaxWorkers
  BY ManagerAssumption DEF Typed, TypeOK
<1>2. ASSUME w # 0
      PROVE  /\ \A i \in Ids : inst'[i] # w
             /\ \A c \in Calls : call'[c].worker # w
             /\ \A b \in Agents : op[b].worker # w
  BY <1>1, <1>2 DEF Numbered
<1> SUFFICES ASSUME NEW b \in Agents, op'[b].kind = "load", op'[b].worker # 0
             PROVE  /\ \A i \in Ids : inst'[i] # op'[b].worker
                    /\ \A c \in Calls : call'[c].worker # op'[b].worker
                    /\ \A d \in Agents : d # b /\ op'[d].kind = "load"
                                            => op'[d].worker # op'[b].worker
  BY DEF Unseen
<1>3. CASE b = a
  BY <1>2, <1>3
<1>4. CASE b # a
  <2>1. op'[b] = op[b] /\ op[b].worker # 0
    BY <1>4
  <2>2. op[b].worker # w
    BY <1>2, <2>1
  <2> QED
    BY <1>4, <2>1, <2>2 DEF Unseen
<1> QED
  BY <1>3, <1>4

LEMMA FreshNext == Typed /\ FreshRetries /\ [Next]_vars => FreshRetries'
<1> SUFFICES ASSUME Typed, FreshRetries, [Next]_vars PROVE FreshRetries'
  OBVIOUS
<1> USE DEF registry, workers
<1>t. /\ TypeOK /\ Retrying /\ Addressed /\ Numbered /\ Unseen /\ Replaced
      /\ op \in [Agents -> Op] /\ call \in [Calls -> Call]
      /\ inst \in [Ids -> 0 .. MaxWorkers] /\ Loop \in Agents
  BY DEF Typed, TypeOK, Op, Call, Agents, FreshRetries
<1>n. Numbered'
  BY <1>t, NumberedNext
(* Steps that begin no load and end none.                                  *)
<1>1. ASSUME \A b \in Agents : op'[b].kind = "load" => op'[b] = op[b],
             \A i \in Ids : inst'[i] = 0 \/ inst'[i] = inst[i],
             \A c \in Calls : \/ call'[c].worker = call[c].worker
                              \/ /\ call[c].pc # "retrying"
                                 /\ \/ call'[c].worker = 0
                                    \/ \E i \in Ids : call'[c].worker = inst[i]
      PROVE  FreshRetries'
  <2>1. Unseen'
    BY <1>1, <1>t, StillUnseen
  <2>2. Replaced'
    BY <1>1, <1>t, StillReplaced
  <2> QED
    BY <1>n, <2>1, <2>2 DEF FreshRetries
<1>2. ASSUME NEW a \in Agents, NEW i \in Ids, NEW reload, NEW for,
             Terminate(a, i, reload, for), UNCHANGED inst,
             \A c \in Calls : call'[c].worker = call[c].worker
      PROVE  FreshRetries'
  <2>1. \A b \in Agents : op'[b].kind = "load" => op'[b] = op[b]
    BY <1>2, <1>t DEF Terminate
  <2> QED
    BY <1>1, <1>2, <2>1
<1>3. ASSUME NEW a \in Agents, NEW i \in Ids, NEW l \in Limits[i], Load(a, i, l)
      PROVE  FreshRetries'
  <2>1. l \in Nat /\ Spawn(a, i, l, i \in Generated, None) /\ UNCHANGED <<inst, call>>
    BY <1>3, ManagerAssumption DEF Load
  <2>2. PICK w \in 0 .. MaxWorkers :
          /\ w = 0 \/ w = spawned + 1
          /\ op' = [op EXCEPT ![a] = [kind |-> "load", id |-> i, worker |-> w,
                                      reload |-> FALSE, for |-> None]]
    BY <1>t, <2>1, Spawning
  <2>3. /\ op'[a].worker = w /\ op'[a].for = None
        /\ \A b \in Agents : b # a => op'[b] = op[b]
    BY <1>t, <2>2
  <2>4. Unseen'
    BY <1>t, <2>1, <2>2, <2>3, SpawnedUnseen
  <2>5. Replaced'
    BY <1>t, <2>1, <2>3 DEF Replaced
  <2> QED
    BY <1>n, <2>4, <2>5 DEF FreshRetries
<1>4. ASSUME NEW a \in Agents, Loaded(a) \/ LoadFails(a) PROVE FreshRetries'
  <2>1. PICK c : c = op[a].for
    OBVIOUS
  <2>2. PICK i : i = op[a].id
    OBVIOUS
  <2>3. PICK w : w = op[a].worker
    OBVIOUS
  <2>4. /\ op' = [op EXCEPT ![a] = NoOp] /\ Resume(c, i) /\ i \in Ids
        /\ c \in Calls \cup {None} /\ op[a].kind = "load"
        /\ \/ inst' = [inst EXCEPT ![i] = w] /\ w # 0
           \/ inst' = inst
    BY <1>4, <1>t, <2>1, <2>2, <2>3 DEF Loaded, LoadFails, Retrying, Op, None
  <2>5. \A b \in Agents : op'[b].kind = "load" => b # a /\ op'[b] = op[b]
    BY <1>t, <2>4 DEF NoOp, None
  <2>6. \A b \in Agents : op[b].kind = "load" /\ op[b].worker # 0 /\ b # a
                           => w # op[b].worker
    BY <2>3, <2>4 DEF Typed, FreshRetries, Unseen
  <2>7. \A k \in Calls : \/ call'[k] = call[k]
                         \/ call'[k].worker = 0 \/ call'[k].worker = inst'[i]
    <3>1. \/ UNCHANGED call
          \/ c \in Calls /\ call' = [call EXCEPT ![c] = NoCall]
          \/ c \in Calls /\ call' = [call EXCEPT ![c] =
               [pc |-> "allocating", id |-> i, attempt |-> call[c].attempt + 1,
                worker |-> inst'[i], gate |-> Limiter(i, inst'[i])]]
      BY <2>4 DEF Resume
    <3> QED
      BY <1>t, <3>1 DEF NoCall
  <2>8. \A k \in Ids : inst'[k] = inst[k] \/ (inst'[k] = w /\ w # 0 /\ k = i)
    BY <1>t, <2>4
  <2>9. Unseen'
    BY <1>t, <2>4, <2>5, <2>6, <2>7, <2>8 DEF Unseen
  <2>10. Replaced'
    <3> SUFFICES ASSUME NEW b \in Agents, op'[b].kind = "load", op'[b].for # None
                 PROVE  inst'[op'[b].id] # call'[op'[b].for].worker
      BY DEF Replaced
    <3>1. b # a /\ op'[b] = op[b]
      BY <2>5
    <3>2. PICK k : k = op[b].for
      OBVIOUS
    <3>3. k \in Calls /\ b = Loop /\ op[b].id \in Ids
      BY <1>t, <3>1, <3>2 DEF Retrying, Op, None
    <3>4. c = None
      BY <1>t, <2>1, <3>1, <3>3 DEF Retrying
    <3>5. UNCHANGED call
      BY <2>4, <3>4 DEF Resume
    <3>6. w # 0 => w # call[k].worker
      BY <1>t, <2>3, <2>4, <3>3 DEF Unseen
    <3>7. inst[op[b].id] # call[k].worker
      BY <1>t, <3>1, <3>2 DEF Replaced
    <3> QED
      BY <2>8, <3>1, <3>2, <3>3, <3>5, <3>6, <3>7
  <2> QED
    BY <1>n, <2>9, <2>10 DEF FreshRetries
<1>5. ASSUME NEW a \in Agents, Unloaded(a) PROVE FreshRetries'
  <2>1. PICK i : i = op[a].id
    OBVIOUS
  <2>2. PICK f : f = op[a].for
    OBVIOUS
  <2>3. PICK new : new = FALSE
    OBVIOUS
  <2>4. /\ UNCHANGED call /\ i \in Ids /\ f \in Calls \cup {None} /\ 0 \in Nat
        /\ Forget(i) /\ op[a].kind = "unload"
        /\ \/ Spawn(a, i, 0, new, f)
           \/ op' = [op EXCEPT ![a] = NoOp]
    BY <1>5, <1>t, <2>1, <2>2, <2>3 DEF Unloaded, Retrying, Op, None
  <2>5. inst'[i] = 0 /\ \A k \in Ids : inst'[k] = 0 \/ inst'[k] = inst[k]
    BY <1>t, <2>4 DEF Forget
  <2>6. CASE op' = [op EXCEPT ![a] = NoOp]
    <3>1. \A b \in Agents : op'[b].kind = "load" => op'[b] = op[b]
      BY <1>t, <2>6 DEF NoOp, None
    <3> QED
      BY <1>1, <2>4, <2>5, <3>1
  <2>7. CASE Spawn(a, i, 0, new, f)
    <3>1. PICK w \in 0 .. MaxWorkers :
            /\ w = 0 \/ w = spawned + 1
            /\ op' = [op EXCEPT ![a] = [kind |-> "load", id |-> i, worker |-> w,
                                        reload |-> FALSE, for |-> f]]
      BY <1>t, <2>4, <2>7, Spawning
    <3>2. /\ op'[a].worker = w /\ op'[a].for = f /\ op'[a].id = i
          /\ \A b \in Agents : b # a => op'[b] = op[b]
      BY <1>t, <3>1
    <3>3. Unseen'
      BY <1>t, <2>4, <2>5, <3>1, <3>2, SpawnedUnseen
    <3>4. f # None => call[f].pc = "retrying" /\ call[f].worker # 0 /\ a = Loop
      BY <1>t, <2>2, <2>4 DEF Retrying, Numbered, Busy
    <3>5. \A b \in Agents : b # a => op[b].for = None \/ f = None
      BY <1>t, <3>4 DEF Retrying
    <3>6. ASSUME NEW b \in Agents, op'[b].kind = "load", op'[b].for # None
          PROVE  inst'[op'[b].id] # call'[op'[b].for].worker
      <4>1. CASE b = a
        BY <2>4, <2>5, <3>2, <3>4, <3>6, <4>1
      <4>2. CASE b # a
        <5>1. op'[b] = op[b] /\ inst[op[b].id] # call[op[b].for].worker
          BY <1>t, <3>2, <3>6, <4>2 DEF Replaced
        <5>2. /\ op[b].id \in Ids /\ op[b].for \in Calls
              /\ call[op[b].for].pc = "retrying"
          BY <1>t, <3>6, <5>1 DEF Retrying, Op, None
        <5>3. call[op[b].for].worker # 0
          BY <1>t, <5>2 DEF Numbered, Busy
        <5> QED
          BY <2>4, <2>5, <5>1, <5>2, <5>3
      <4> QED
        BY <4>1, <4>2
    <3> QED
      BY <1>n, <3>3, <3>6 DEF FreshRetries, Replaced
  <2> QED
    BY <2>4, <2>6, <2>7
<1>6. ASSUME NEW c \in Calls, NEW i \in Ids, Enter(c, i) PROVE FreshRetries'
  <2>1. /\ UNCHANGED <<inst, op>> /\ call[c].pc = "idle"
        /\ call' = [call EXCEPT ![c] = [pc |-> "allocating", id |-> i, attempt |-> 0,
                                        worker |-> inst[i], gate |-> Limiter(i, inst[i])]]
    BY <1>6 DEF Enter
  <2>2. call'[c].worker = inst[i] /\ \A k \in Calls : k # c => call'[k] = call[k]
    BY <1>t, <2>1
  <2> QED
    BY <1>1, <2>1, <2>2
<1>7. ASSUME NEW c \in Calls, Execute(c) \/ Acquire(c) PROVE FreshRetries'
  <2>1. UNCHANGED <<inst, op>> /\ \E p : call' = [call EXCEPT ![c].pc = p]
    BY <1>7 DEF Execute, Acquire
  <2>2. \A k \in Calls : call'[k].worker = call[k].worker
    BY <1>t, <2>1 DEF Call
  <2> QED
    BY <1>1, <2>1, <2>2
<1>8. ASSUME NEW c \in Calls, Return(c) PROVE FreshRetries'
  <2>1. /\ UNCHANGED inst /\ call[c].pc = "executing"
        /\ \/ call' = [call EXCEPT ![c] = NoCall] /\ UNCHANGED op
           \/ /\ call' = [call EXCEPT ![c].pc = "retrying"]
              /\ Terminate(Loop, call[c].id, TRUE, c)
    BY <1>8 DEF Return, Again
  <2>2. CASE call' = [call EXCEPT ![c] = NoCall] /\ UNCHANGED op
    <3>1. call'[c].worker = 0 /\ \A k \in Calls : k # c => call'[k] = call[k]
      BY <1>t, <2>2 DEF NoCall
    <3> QED
      BY <1>1, <2>1, <2>2, <3>1
  <2>3. CASE /\ call' = [call EXCEPT ![c].pc = "retrying"]
             /\ Terminate(Loop, call[c].id, TRUE, c)
    <3>1. \A k \in Calls : call'[k].worker = call[k].worker
      BY <1>t, <2>3 DEF Call
    <3>2. call[c].id \in Ids
      BY <1>t, <2>1 DEF Addressed
    <3> QED
      BY <1>2, <1>t, <2>1, <2>3, <3>1, <3>2
  <2> QED
    BY <2>1, <2>2, <2>3
<1>9. ASSUME NEW a \in Agents, NEW i \in Ids, Unload(a, i) PROVE FreshRetries'
  BY <1>2, <1>9 DEF Unload
<1>10. ASSUME NEW i \in Ids, Reload(i) PROVE FreshRetries'
  BY <1>2, <1>10, <1>t DEF Reload
<1>11. CASE UNCHANGED <<inst, op, call>>
  BY <1>1, <1>11
<1> QED
  BY <1>3, <1>4, <1>5, <1>6, <1>7, <1>8, <1>9, <1>10, <1>11
  DEF Next, Operator, Working, Calling, Enable, Disable, vars

(* The attempts of a call grow only when a load of its retry ends.         *)
LEMMA RetryNext ==
  Typed /\ FreshRetries /\ [Next]_vars =>
    [\A c \in Calls : call'[c].attempt > call[c].attempt
                         => call'[c].worker # call[c].worker]_vars
<1> SUFFICES ASSUME Typed, FreshRetries, Next, NEW c \in Calls,
                    call'[c].attempt > call[c].attempt
             PROVE  call'[c].worker # call[c].worker
  OBVIOUS
<1> USE DEF registry, workers
<1>t. /\ TypeOK /\ Retrying /\ Numbered /\ Unseen /\ Replaced
      /\ op \in [Agents -> Op] /\ call \in [Calls -> Call]
      /\ inst \in [Ids -> 0 .. MaxWorkers] /\ MaxRetries \in Nat
  BY ManagerAssumption DEF Typed, TypeOK, Op, Call, FreshRetries
<1>1. call[c].attempt \in Nat
  BY <1>t DEF Call
<1>2. ASSUME call'[c] = call[c] \/ call'[c].attempt = call[c].attempt \/ call'[c].attempt = 0
      PROVE  FALSE
  BY <1>1, <1>2
<1>3. ASSUME NEW k \in Calls, Calling(k) PROVE FALSE
  <2>1. \/ \E p : call' = [call EXCEPT ![k].pc = p]
        \/ call' = [call EXCEPT ![k] = NoCall]
    BY <1>3 DEF Calling, Execute, Acquire, Return, Again
  <2>2. call'[c] = call[c] \/ call'[c].attempt = call[c].attempt \/ call'[c].attempt = 0
    BY <1>t, <2>1 DEF NoCall, Call
  <2> QED
    BY <1>2, <2>2
<1>4. ASSUME NEW k \in Calls, NEW i \in Ids, Enter(k, i) PROVE FALSE
  <2>1. call' = [call EXCEPT ![k] = [pc |-> "allocating", id |-> i, attempt |-> 0,
                                     worker |-> inst[i], gate |-> Limiter(i, inst[i])]]
    BY <1>4 DEF Enter
  <2>2. call'[c] = call[c] \/ call'[c].attempt = 0
    BY <1>t, <2>1
  <2> QED
    BY <1>2, <2>2
<1>5. ASSUME NEW a \in Agents, Loaded(a) \/ LoadFails(a)
      PROVE  call'[c].worker # call[c].worker
  <2>1. PICK k : k = op[a].for
    OBVIOUS
  <2>2. PICK i : i = op[a].id
    OBVIOUS
  <2>3. PICK w : w = op[a].worker
    OBVIOUS
  <2>4. /\ Resume(k, i) /\ i \in Ids /\ op[a].kind = "load"
        /\ \/ inst' = [inst EXCEPT ![i] = w] /\ w # 0
           \/ inst' = inst
    BY <1>5, <1>t, <2>1, <2>2, <2>3 DEF Loaded, LoadFails, Retrying, None
  <2>5. k = c /\ k # None
    <3>1. ASSUME k = None \/ k # c PROVE FALSE
      <4>1. call'[c] = call[c]
        BY <1>t, <2>4, <3>1 DEF Resume
      <4> QED
        BY <1>2, <4>1
    <3> QED
      BY <3>1
  <2>6. ASSUME inst'[i] = 0 PROVE FALSE
    <3>1. call' = [call EXCEPT ![c] = NoCall]
      BY <2>4, <2>5, <2>6 DEF Resume
    <3>2. call'[c].attempt = 0
      BY <1>t, <3>1 DEF NoCall
    <3> QED
      BY <1>2, <3>2
  <2>7. call'[c].worker = inst'[i]
    <3>1. call' = [call EXCEPT ![c] =
               [pc |-> "allocating", id |-> i, attempt |-> call[c].attempt + 1,
                worker |-> inst'[i], gate |-> Limiter(i, inst'[i])]]
      BY <2>4, <2>5, <2>6 DEF Resume
    <3> QED
      BY <1>t, <3>1
  <2>8. w # 0 => w # call[c].worker
    BY <1>t, <2>3, <2>4 DEF Unseen
  <2>9. inst[i] # call[c].worker
    BY <1>t, <2>1, <2>2, <2>4, <2>5 DEF Replaced
  <2> QED
    BY <1>t, <2>4, <2>7, <2>8, <2>9
<1>6. CASE UNCHANGED call
  BY <1>2, <1>6
<1> QED
  BY <1>3, <1>4, <1>5, <1>6
  DEF Next, Operator, Working, Load, Unload, Reload, Enable, Disable, Unloaded

(* A retry never runs on the worker its call just failed on, even if the   *)
(* reload fails and a load in a thread brings the id back                  *)
(* (execute_capability_async, reload_capability).                          *)
THEOREM RetriesAreFresh == Spec => RetryOnFreshWorker
<1>1. Spec => []FreshRetries
  BY FreshInit, FreshNext, AlwaysTyped, PTL DEF Spec
<1> QED
  BY <1>1, RetryNext, AlwaysTyped, PTL DEF Spec, RetryOnFreshWorker
-----------------------------------------------------------------------------
(* Marks.  What makes the property inductive: the id of a call of a serial *)
(* caller is on no other call, so that no return but its own unmarks it;   *)
(* the mark is there while the call waits for the limiter; and a worker    *)
(* whose call is under way never becomes an instance again (Unseen).       *)

Alone ==
  \A c, d \in Calls :
    /\ call[c].pc # "idle" /\ call[d].pc # "idle"
    /\ call[c].id = call[d].id /\ call[c].id \in Serial
    => c = d

Counted(c) ==
  /\ call[c].pc \in {"queued", "executing"}
  /\ call[c].id \in Serial \cap Sole
  /\ inst[call[c].id] = call[c].worker

Marked == \A c \in Calls : Counted(c) => call[c].id \in marked

LEMMA MarksInit == Init => Alone /\ Marked
BY DEF Init, Alone, Marked, Counted, NoCall

(* Steps that bring no call to an id.                                      *)
LEMMA StillAlone ==
  ASSUME Alone,
         \A c \in Calls : call'[c].pc # "idle" => /\ call[c].pc # "idle"
                                                  /\ call'[c].id = call[c].id
  PROVE  Alone'
BY DEF Alone

LEMMA AloneNext == Typed /\ Alone /\ [Next]_vars => Alone'
<1> SUFFICES ASSUME Typed, Alone, [Next]_vars PROVE Alone'
  OBVIOUS
<1>t. call \in [Calls -> Call] /\ Retrying
  BY DEF Typed, TypeOK, Call
<1>1. CASE UNCHANGED call
  BY <1>1, StillAlone
<1>2. ASSUME NEW c \in Calls, NEW i \in Ids, Enter(c, i) PROVE Alone'
  <2>1. /\ call[c].pc = "idle" /\ (i \in Serial => On(i) = {})
        /\ call' = [call EXCEPT ![c] = [pc |-> "allocating", id |-> i, attempt |-> 0,
                                        worker |-> inst[i], gate |-> Limiter(i, inst[i])]]
    BY <1>2 DEF Enter
  <2>2. call'[c].id = i /\ \A k \in Calls : k # c => call'[k] = call[k]
    BY <1>t, <2>1
  <2>3. i \in Serial => \A k \in Calls : call[k].id # i
    BY <2>1 DEF On
  <2> QED
    BY <2>2, <2>3 DEF Alone
<1>3. ASSUME NEW c \in Calls, Calling(c) PROVE Alone'
  <2>1. /\ call[c].pc # "idle"
        /\ \/ \E p : call' = [call EXCEPT ![c].pc = p]
           \/ call' = [call EXCEPT ![c] = NoCall]
    BY <1>3 DEF Calling, Execute, Acquire, Return, Again
  <2>2. /\ \A k \in Calls : k # c => call'[k] = call[k]
        /\ call'[c].pc # "idle" => call'[c].id = call[c].id
    BY <1>t, <2>1 DEF NoCall, Call
  <2> QED
    BY <2>1, <2>2, StillAlone
<1>4. ASSUME NEW a \in Agents, Loaded(a) \/ LoadFails(a) PROVE Alone'
  <2>1. PICK k : k = op[a].for
    OBVIOUS
  <2>2. PICK i : i = op[a].id
    OBVIOUS
  <2>3. Resume(k, i) /\ op[a].kind = "load"
    BY <1>4, <2>1, <2>2 DEF Loaded, LoadFails
  <2>4. k # None => call[k].pc = "retrying" /\ call[k].id = i
    BY <1>t, <2>1, <2>2, <2>3 DEF Retrying
  <2>5. \/ UNCHANGED call
        \/ k # None /\ call' = [call EXCEPT ![k] = NoCall]
        \/ k # None /\ call' = [call EXCEPT ![k] =
             [pc |-> "allocating", id |-> i, attempt |-> call[k].attempt + 1,
              worker |-> inst'[i], gate |-> Limiter(i, inst'[i])]]
    BY <2>3 DEF Resume
  <2>6. \A c \in Calls : call'[c].pc # "idle" => /\ call[c].pc # "idle"
                                                 /\ call'[c].id = call[c].id
    BY <1>t, <2>4, <2>5 DEF NoCall
  <2> QED
    BY <2>6, StillAlone
<1> QED
  BY <1>1, <1>2, <1>3, <1>4
  DEF Next, Operator, Working, Load, Unload, Reload, Enable, Disable, Unloaded, vars

(* Steps after which a call that counts was counted before, and no mark is *)
(* taken from under it.                                                    *)
LEMMA StillMarked ==
  ASSUME Marked,
         \A c \in Calls : Counted(c)' => /\ Counted(c) /\ call'[c].id = call[c].id
                                         /\ call[c].id \in marked => call[c].id \in marked'
  PROVE  Marked'
BY DEF Marked

LEMMA MarkedNext == Typed /\ FreshRetries /\ Alone /\ Marked /\ [Next]_vars => Marked'
<1> SUFFICES ASSUME Typed, FreshRetries, Alone, Marked, [Next]_vars PROVE Marked'
  OBVIOUS
<1> USE DEF registry, workers
<1>t. /\ call \in [Calls -> Call] /\ inst \in [Ids -> 0 .. MaxWorkers]
      /\ Retrying /\ Unseen /\ Numbered /\ Addressed
  BY DEF Typed, TypeOK, Call, FreshRetries
<1>1. CASE UNCHANGED <<inst, marked, call>>
  BY <1>1 DEF Marked, Counted, Sole
<1>2. ASSUME NEW a \in Agents, Loaded(a) \/ LoadFails(a) PROVE Marked'
  <2>1. PICK k : k = op[a].for
    OBVIOUS
  <2>2. PICK i : i = op[a].id
    OBVIOUS
  <2>3. PICK w : w = op[a].worker
    OBVIOUS
  <2>4. /\ Resume(k, i) /\ op[a].kind = "load" /\ UNCHANGED marked /\ i \in Ids
        /\ \/ inst' = [inst EXCEPT ![i] = w] /\ w # 0
           \/ inst' = inst
    BY <1>2, <1>t, <2>1, <2>2, <2>3 DEF Loaded, LoadFails, Retrying, None
  <2>5. \/ UNCHANGED call
        \/ call' = [call EXCEPT ![k] = NoCall]
        \/ call' = [call EXCEPT ![k] =
             [pc |-> "allocating", id |-> i, attempt |-> call[k].attempt + 1,
              worker |-> inst'[i], gate |-> Limiter(i, inst'[i])]]
    BY <2>4 DEF Resume
  <2>6. \A c \in Calls : call'[c].pc \in {"queued", "executing"} => call'[c] = call[c]
    BY <1>t, <2>5 DEF NoCall
  <2>7. w # 0 => \A c \in Calls : call[c].worker # w
    BY <1>t, <2>3, <2>4 DEF Unseen
  <2>8. \A c \in Calls : Counted(c)' => Counted(c) /\ call'[c].id = call[c].id
    <3> SUFFICES ASSUME NEW c \in Calls, Counted(c)'
                 PROVE  Counted(c) /\ call'[c].id = call[c].id
      OBVIOUS
    <3>1. /\ call'[c] = call[c] /\ call[c].pc \in {"queued", "executing"}
          /\ call[c].id \in Serial \cap Sole /\ inst'[call[c].id] = call[c].worker
      BY <2>6 DEF Counted, Sole
    <3>2. call[c].id \in Ids
      BY <3>1 DEF Sole
    <3>3. inst'[call[c].id] = inst[call[c].id]
      BY <1>t, <2>4, <2>7, <3>1, <3>2
    <3> QED
      BY <3>1, <3>3 DEF Counted
  <2> QED
    BY <2>4, <2>8, StillMarked
<1>3. ASSUME NEW a \in Agents, Unloaded(a) PROVE Marked'
  <2>1. PICK i : i = op[a].id
    OBVIOUS
  <2>2. Forget(i) /\ i \in Ids /\ UNCHANGED call
    BY <1>3, <1>t, <2>1 DEF Unloaded, Retrying, None
  <2>3. \/ UNCHANGED <<inst, marked>>
        \/ inst' = [inst EXCEPT ![i] = 0] /\ marked' = marked \ {i, Canonical[i]}
    BY <2>2 DEF Forget
  <2> SUFFICES ASSUME NEW c \in Calls, Counted(c)'
               PROVE  /\ Counted(c) /\ call'[c].id = call[c].id
                      /\ call[c].id \in marked => call[c].id \in marked'
    BY StillMarked
  <2>4. /\ call[c].pc \in {"queued", "executing"} /\ call[c].id \in Ids
        /\ call[c].id \in Serial \cap Sole /\ inst'[call[c].id] = call[c].worker
        /\ call[c].worker # 0
    BY <1>t, <2>2 DEF Counted, Sole, Numbered, Busy
  <2>5. CASE UNCHANGED <<inst, marked>>
    BY <2>2, <2>4, <2>5 DEF Counted
  <2>6. CASE inst' = [inst EXCEPT ![i] = 0] /\ marked' = marked \ {i, Canonical[i]}
    <3>1. call[c].id # i
      BY <1>t, <2>2, <2>4, <2>6
    <3>2. call[c].id # Canonical[i]
      BY <2>2, <2>4, <3>1 DEF Sole
    <3>3. inst[call[c].id] = call[c].worker
      BY <1>t, <2>4, <2>6, <3>1
    <3> QED
      BY <2>2, <2>4, <2>6, <3>1, <3>2, <3>3 DEF Counted
  <2> QED
    BY <2>3, <2>5, <2>6
<1>4. ASSUME NEW c \in Calls, NEW i \in Ids, Enter(c, i) PROVE Marked'
  <2>1. /\ UNCHANGED <<inst, marked>>
        /\ call' = [call EXCEPT ![c] = [pc |-> "allocating", id |-> i, attempt |-> 0,
                                        worker |-> inst[i], gate |-> Limiter(i, inst[i])]]
    BY <1>4 DEF Enter
  <2>2. call'[c].pc = "allocating" /\ \A k \in Calls : k # c => call'[k] = call[k]
    BY <1>t, <2>1
  <2> QED
    BY <2>1, <2>2, StillMarked DEF Counted, Sole
<1>5. ASSUME NEW c \in Calls, Execute(c) PROVE Marked'
  <2>1. /\ UNCHANGED inst /\ marked' = marked \cup {call[c].id}
        /\ \E p : call' = [call EXCEPT ![c].pc = p]
    BY <1>5 DEF Execute
  <2>2. call'[c].id = call[c].id /\ \A k \in Calls : k # c => call'[k] = call[k]
    BY <1>t, <2>1 DEF Call
  <2> QED
    BY <2>1, <2>2 DEF Marked, Counted, Sole
<1>6. ASSUME NEW c \in Calls, Acquire(c) PROVE Marked'
  <2>1. /\ UNCHANGED <<inst, marked>> /\ call[c].pc = "queued"
        /\ \E p : call' = [call EXCEPT ![c].pc = p]
    BY <1>6 DEF Acquire
  <2>2. /\ call'[c].id = call[c].id /\ call'[c].worker = call[c].worker
        /\ \A k \in Calls : k # c => call'[k] = call[k]
    BY <1>t, <2>1 DEF Call
  <2> QED
    BY <2>1, <2>2, StillMarked DEF Counted, Sole
<1>7. ASSUME NEW c \in Calls, Return(c) PROVE Marked'
  <2>1. /\ UNCHANGED inst /\ marked' = marked \ {call[c].id} /\ call[c].pc = "executing"
        /\ \/ call' = [call EXCEPT ![c].pc = "retrying"]
           \/ call' = [call EXCEPT ![c] = NoCall]
    BY <1>7 DEF Return, Again
  <2>2. /\ call'[c].pc \notin {"queued", "executing"}
        /\ \A k \in Calls : k # c => call'[k] = call[k]
    BY <1>t, <2>1 DEF Call, NoCall
  <2>3. ASSUME NEW k \in Calls, Counted(k)'
        PROVE  /\ Counted(k) /\ call'[k].id = call[k].id
               /\ call[k].id \in marked => call[k].id \in marked'
    <3>1. k # c /\ call'[k] = call[k]
      BY <2>2, <2>3 DEF Counted
    <3>2. Counted(k)
      BY <2>1, <2>3, <3>1 DEF Counted, Sole
    <3>3. call[k].id # call[c].id
      BY <2>1, <3>1, <3>2 DEF Counted, Alone
    <3> QED
      BY <2>1, <3>1, <3>2, <3>3
  <2> QED
    BY <2>3, StillMarked
<1> QED
  BY <1>1, <1>2, <1>3, <1>4, <1>5, <1>6, <1>7
  DEF Next, Operator, Working, Calling, Load, Unload, Reload, Enable, Disable, vars

(* If its callers do not overlap and no sibling is named after it, an      *)
(* instance that executes a call is marked all the while, so that          *)
(* evict_instance passes it over: through the limiter, retries, reloads,   *)
(* and unloads of other instances (execute_capability_async,               *)
(* _running_executions, unload_capability).                                *)
THEOREM ExecutingMarked == Spec => []ExecutingIsMarked
<1>1. Marked => ExecutingIsMarked
  BY DEF Marked, Counted, ExecutingIsMarked
<1>2. Spec => []FreshRetries
  BY FreshInit, FreshNext, AlwaysTyped, PTL DEF Spec
<1>3. Spec => []Alone
  BY MarksInit, AloneNext, AlwaysTyped, PTL DEF Spec
<1> QED
  BY <1>1, <1>2, <1>3, MarksInit, MarkedNext, AlwaysTyped, PTL DEF Spec

-----------------------------------------------------------------------------
(* The eviction of idle models (module IdleEviction), which asks the       *)
(* manager for what the queue needs.                                       *)
CONSTANTS Queue, Instances, Inst, Peak, Loads, Vram, Slots

VARIABLES phase, retried, resident, available, loop, stats, asked, cooling, request

Eviction == INSTANCE IdleEviction

Waits(k) == phase[k] \in {"pending", "admitted", "executing"}

(* What is known of a request: its fields, and one candidate or none for   *)
(* every instance.                                                         *)
Shaped(r) ==
  /\ r = [at |-> r.at, known |-> r.known, exclude |-> r.exclude, target |-> r.target,
          todo |-> r.todo, found |-> r.found, freed |-> r.freed]
  /\ r.found = [i \in Instances |-> r.found[i]]

(* A request that looks for victims leaves alone the instances of the jobs *)
(* that were there when it was made.                                       *)
Sparing(r) ==
  r.at = "evicting" =>
    /\ r.known \subseteq Eviction!Jobs
    /\ \A k \in r.known : phase[k] # "new" /\ (Waits(k) => Inst[k] \in r.exclude)
    /\ r.todo \cap r.exclude = {}
    /\ \A i \in Instances : r.found[i] # 0 => i \notin r.exclude

Held ==
  /\ phase \in [Eviction!Jobs -> {"new", "pending", "admitted", "executing", "done"}]
  /\ resident \in [Instances -> Int]
  /\ request = [s \in 1 .. Slots |-> request[s]]
  /\ \A s \in 1 .. Slots : Shaped(request[s])

(* The cap of an instance is one.                                          *)
OnePerInstance ==
  \A j, k \in Eviction!running : Inst[j] = Inst[k] => j = k

Spared == Held /\ OnePerInstance /\ \A s \in 1 .. Slots : Sparing(request[s])

LEMMA InstType ==
  ASSUME Eviction!EvictionAssumption
  PROVE  /\ \A j \in Eviction!Jobs :
              Inst[j] \in Instances /\ Loads[Inst[j]] \subseteq Int
         /\ \A j \in Eviction!Jobs :
              Eviction!Rank(j) \in Int /\ Queue[Eviction!Rank(j)] = j
<1>1. Queue \in [1 .. Len(Queue) -> Eviction!Jobs]
  BY DEF Eviction!EvictionAssumption
<1>2. \A j \in Eviction!Jobs : \E n \in DOMAIN Queue : Queue[n] = j
  BY <1>1 DEF Eviction!Jobs, Eviction!ToSet
<1>3. \A j \in Eviction!Jobs : Eviction!Rank(j) \in DOMAIN Queue /\ Queue[Eviction!Rank(j)] = j
  BY <1>2 DEF Eviction!Rank
<1>4. \A j \in Eviction!Jobs : Inst[j] \in Instances /\ Loads[Inst[j]] \subseteq Int
  BY DEF Eviction!EvictionAssumption
<1> QED
  BY <1>1, <1>3, <1>4

(* A scan chooses at most one job.                                         *)
LEMMA FirstIsOne ==
  ASSUME Eviction!EvictionAssumption, NEW S \in SUBSET Eviction!Jobs,
         NEW j \in Eviction!First(S), NEW k \in Eviction!First(S)
  PROVE  j = k
<1>1. /\ j \in Eviction!Jobs /\ k \in Eviction!Jobs
      /\ Eviction!Rank(j) =< Eviction!Rank(k) /\ Eviction!Rank(k) =< Eviction!Rank(j)
  BY DEF Eviction!First
<1> QED
  BY <1>1, InstType

LEMMA SparedInit ==
  ASSUME Eviction!EvictionAssumption, Eviction!Init
  PROVE  Spared
<1>1. resident \in [Instances -> Int] /\ Eviction!running = {}
  BY DEF Eviction!Init, Eviction!running, Eviction!EvictionAssumption
<1>2. \A s \in 1 .. Slots : request[s] = Eviction!Idle
  BY DEF Eviction!Init
<1>3. Shaped(Eviction!Idle) /\ Sparing(Eviction!Idle)
  BY DEF Eviction!Idle, Eviction!Nothing, Shaped, Sparing
<1>4. request = [s \in 1 .. Slots |-> request[s]]
  BY DEF Eviction!Init
<1> QED
  BY <1>1, <1>2, <1>3, <1>4 DEF Eviction!Init, Spared, Held, OnePerInstance

(* A job that waits or runs goes on, or ends; a new one comes in.          *)
Onward ==
  /\ phase' \in [Eviction!Jobs -> {"new", "pending", "admitted", "executing", "done"}]
  /\ \A k \in Eviction!Jobs : /\ phase[k] # "new" => phase'[k] # "new"
                              /\ Waits(k)' => phase[k] = "new" \/ Waits(k)

LEMMA StillSparing ==
  ASSUME Onward, NEW r, Sparing(r)
  PROVE  Sparing(r)'
BY DEF Onward, Sparing

(* A step of the jobs alone, none of which is admitted.                    *)
LEMMA JobsMove ==
  ASSUME Spared, Onward, UNCHANGED request, resident' \in [Instances -> Int],
         Eviction!running' \subseteq Eviction!running
  PROVE  Spared'
<1>1. \A s \in 1 .. Slots : Sparing(request[s])'
  BY StillSparing DEF Spared
<1>2. Held'
  BY DEF Spared, Held, Onward, Shaped
<1>3. OnePerInstance'
  BY DEF Spared, OnePerInstance
<1> QED
  BY <1>1, <1>2, <1>3 DEF Spared

(* A step that changes one request.                                        *)
LEMMA RequestMoves ==
  ASSUME Spared, Onward, OnePerInstance', resident' \in [Instances -> Int],
         NEW s \in 1 .. Slots, NEW r, Shaped(r), Sparing(r)',
         request' = [request EXCEPT ![s] = r]
  PROVE  Spared'
<1>1. \A t \in 1 .. Slots : request'[t] = IF t = s THEN r ELSE request[t]
  BY DEF Spared, Held
<1>2. \A t \in 1 .. Slots : Sparing(request[t])'
  <2>1. ASSUME NEW q, Sparing(q)
        PROVE  Sparing(q)'
    BY <2>1, StillSparing
  <2> QED
    BY <1>1, <2>1 DEF Spared, Sparing, Waits
<1>3. Held'
  <2>1. (\A t \in 1 .. Slots : Shaped(request[t]))'
    BY <1>1 DEF Spared, Held, Shaped
  <2>2. (request = [t \in 1 .. Slots |-> request[t]])'
    BY DEF Spared, Held
  <2> QED
    BY <2>1, <2>2 DEF Spared, Held, Onward
<1> QED
  BY <1>2, <1>3 DEF Spared

LEMMA ScanSpares ==
  ASSUME Eviction!EvictionAssumption, Spared, Eviction!Scan
  PROVE  Spared'
<1> DEFINE pick == Eviction!First({j \in Eviction!pending :
                     Eviction!Eligible(j) /\ ~Eviction!Starved(j)})
           seen == {j \in Eviction!pending :
                     \A k \in pick : Eviction!Rank(j) < Eviction!Rank(k)}
           ask == Eviction!First({j \in seen : Eviction!Starved(j) /\ j \notin cooling})
           Request(j) == [Eviction!Idle EXCEPT
             !.at = "evicting", !.known = {k \in Eviction!Jobs : phase[k] # "new"},
             !.exclude = Eviction!Spare(j), !.target = Eviction!Need(j) - stats.free,
             !.todo = Instances \ Eviction!Spare(j)]
<1>1. /\ phase' = [j \in Eviction!Jobs |-> IF j \in pick THEN "admitted" ELSE phase[j]]
      /\ UNCHANGED resident
      /\ \/ UNCHANGED request
         \/ \E j \in ask, s \in 1 .. Slots : request' = [request EXCEPT ![s] = Request(j)]
  BY DEF Eviction!Scan
<1>2. pick \subseteq Eviction!pending /\ \A j \in pick : Eviction!Eligible(j)
  BY DEF Eviction!First
<1>3. \A j, k \in pick : j = k
  <2> DEFINE S == {j \in Eviction!pending : Eviction!Eligible(j) /\ ~Eviction!Starved(j)}
  <2>1. S \in SUBSET Eviction!Jobs
    BY DEF Eviction!pending
  <2> HIDE DEF S
  <2>2. \A j, k \in Eviction!First(S) : j = k
    BY <2>1, FirstIsOne
  <2> QED
    BY <2>2 DEF S
<1>4. ask \subseteq Eviction!pending
  BY DEF Eviction!First
<1> HIDE DEF pick, ask
<1>5. Onward
  BY <1>1, <1>2 DEF Onward, Spared, Held, Waits, Eviction!pending
<1>6. OnePerInstance'
  <2>1. Eviction!running' \subseteq Eviction!running \cup pick
    BY <1>1 DEF Eviction!running
  <2>2. \A j \in pick, k \in Eviction!running : Inst[j] # Inst[k]
    BY <1>2 DEF Eviction!Eligible, Eviction!Targets
  <2> QED
    BY <1>3, <2>1, <2>2 DEF Spared, OnePerInstance
<1>7. ASSUME NEW j \in ask
      PROVE  \E r : r = Request(j) /\ Shaped(r) /\ Sparing(r)'
  <2> DEFINE known == {k \in Eviction!Jobs : phase[k] # "new"}
             exclude == Eviction!Spare(j)
             target == Eviction!Need(j) - stats.free
  <2>0. Request(j) = [Eviction!Idle EXCEPT !.at = "evicting", !.known = known,
          !.exclude = exclude, !.target = target, !.todo = Instances \ exclude]
    OBVIOUS
  <2>1. ASSUME NEW k \in Eviction!Jobs, phase[k] # "new", Waits(k)'
        PROVE  Inst[k] \in exclude
    <3>1. Waits(k)
      BY <1>5, <2>1 DEF Onward
    <3>2. k \in Eviction!running \/ k \in Eviction!pending
      BY <3>1 DEF Waits, Eviction!running, Eviction!pending
    <3> QED
      BY <3>2 DEF Eviction!Spare, Eviction!Targets
  <2>2. /\ known \subseteq Eviction!Jobs
        /\ \A k \in known : phase'[k] # "new" /\ (Waits(k)' => Inst[k] \in exclude)
    BY <1>5, <2>1 DEF Onward
  <2> HIDE DEF known, exclude, target, Request
  <2>3. PICK r : r = [at |-> "evicting", known |-> known, exclude |-> exclude,
                      target |-> target, todo |-> Instances \ exclude,
                      found |-> Eviction!Nothing, freed |-> 0]
    OBVIOUS
  <2>4. r = Request(j)
    BY <2>0, <2>3 DEF Eviction!Idle
  <2>5. Shaped(r)
    BY <2>3 DEF Shaped, Eviction!Nothing
  <2>6. /\ r.known = known /\ r.exclude = exclude /\ r.todo = Instances \ exclude
        /\ \A i \in Instances : r.found[i] = 0
    BY <2>3 DEF Eviction!Nothing
  <2>7. Sparing(r)'
    BY <2>2, <2>6 DEF Sparing
  <2> QED
    BY <2>4, <2>5, <2>7
<1> HIDE DEF Request
<1>8. resident' \in [Instances -> Int]
  BY <1>1 DEF Spared, Held
<1>9. CASE UNCHANGED request
  <2>1. \A s \in 1 .. Slots : Sparing(request[s])'
    BY <1>5, <1>9, StillSparing DEF Spared
  <2>2. Held'
    BY <1>5, <1>8, <1>9 DEF Spared, Held, Onward, Shaped
  <2> QED
    BY <1>6, <2>1, <2>2 DEF Spared
<1>10. CASE \E j \in ask, s \in 1 .. Slots : request' = [request EXCEPT ![s] = Request(j)]
  <2>1. PICK j \in ask, s \in 1 .. Slots : request' = [request EXCEPT ![s] = Request(j)]
    BY <1>10
  <2>2. PICK r : r = Request(j) /\ Shaped(r) /\ Sparing(r)'
    BY <1>7
  <2> QED
    BY <1>5, <1>6, <1>8, <2>1, <2>2, RequestMoves
<1> QED
  BY <1>1, <1>9, <1>10

(* A measured instance that executes, or is left alone, is no candidate.   *)
LEMMA MeasureSpares ==
  ASSUME Spared, NEW s \in 1 .. Slots, NEW i \in Instances, Eviction!Measure(s, i)
  PROVE  Spared'
<1> DEFINE held == IF i \in Eviction!Executing THEN 0 ELSE resident[i]
           q == request[s]
<1>1. q.at = "evicting" /\ i \in q.todo /\ Shaped(q) /\ Sparing(q)
  BY DEF Eviction!Measure, Spared, Held
<1>2. request' = [request EXCEPT ![s] = [q EXCEPT !.todo = q.todo \ {i}, !.found[i] = held]]
  BY DEF Eviction!Measure
<1> HIDE DEF held
<1>3. \E r : r = [q EXCEPT !.todo = q.todo \ {i}, !.found[i] = held] /\ Shaped(r) /\ Sparing(r)'
  <2>1. PICK r : r = [q EXCEPT !.todo = q.todo \ {i}, !.found[i] = held]
    OBVIOUS
  <2>2. /\ r.at = q.at /\ r.known = q.known /\ r.exclude = q.exclude
        /\ r.todo = q.todo \ {i}
        /\ \A j \in Instances : r.found[j] = IF j = i THEN held ELSE q.found[j]
    BY <1>1, <2>1 DEF Shaped
  <2>3. Shaped(r)
    BY <1>1, <2>1 DEF Shaped
  <2>4. Sparing(r)
    BY <1>1, <2>2 DEF Sparing
  <2>5. Sparing(r)'
    BY <2>4 DEF Sparing, Waits, Eviction!Measure, Eviction!jobs
  <2> QED
    BY <2>1, <2>3, <2>5
<1>4. Onward /\ OnePerInstance' /\ resident' \in [Instances -> Int]
  BY DEF Eviction!Measure, Eviction!jobs, Onward, Waits, Spared, Held, OnePerInstance,
         Eviction!running
<1> QED
  BY <1>2, <1>3, <1>4, RequestMoves

LEMMA ReleaseSpares ==
  ASSUME Spared, NEW s \in 1 .. Slots, NEW v \in Instances, Eviction!Release(s, v)
  PROVE  Spared'
<1> DEFINE q == request[s]
           sum == q.freed + q.found[v]
<1>1. Shaped(q) /\ Sparing(q)
  BY DEF Spared, Held
<1>2. request' = [request EXCEPT ![s] = [q EXCEPT !.found[v] = 0, !.freed = sum]]
  BY DEF Eviction!Release
<1> HIDE DEF sum
<1>3. \E r : r = [q EXCEPT !.found[v] = 0, !.freed = sum] /\ Shaped(r) /\ Sparing(r)'
  <2>1. PICK r : r = [q EXCEPT !.found[v] = 0, !.freed = sum]
    OBVIOUS
  <2>2. /\ r.at = q.at /\ r.known = q.known /\ r.exclude = q.exclude /\ r.todo = q.todo
        /\ \A j \in Instances : r.found[j] = IF j = v THEN 0 ELSE q.found[j]
    BY <1>1, <2>1 DEF Shaped
  <2>3. Shaped(r)
    BY <1>1, <2>1 DEF Shaped
  <2>4. Sparing(r)
    BY <1>1, <2>2 DEF Sparing
  <2>5. Sparing(r)'
    BY <2>4 DEF Sparing, Waits, Eviction!Release, Eviction!jobs
  <2> QED
    BY <2>1, <2>3, <2>5
<1>4. Onward /\ OnePerInstance' /\ resident' \in [Instances -> Int]
  BY DEF Eviction!Release, Eviction!jobs, Onward, Waits, Spared, Held, OnePerInstance,
         Eviction!running
<1> QED
  BY <1>2, <1>3, <1>4, RequestMoves

LEMMA DoneSpares ==
  ASSUME Spared, NEW s \in 1 .. Slots, Eviction!Return(s) \/ Eviction!Settled(s)
  PROVE  Spared'
<1>1. \E r : /\ request' = [request EXCEPT ![s] = r]
             /\ r = Eviction!Idle \/ r = [Eviction!Idle EXCEPT !.at = "settling"]
  BY DEF Eviction!Return, Eviction!Settled
<1>2. PICK r : /\ request' = [request EXCEPT ![s] = r]
               /\ r = Eviction!Idle \/ r = [Eviction!Idle EXCEPT !.at = "settling"]
  BY <1>1
<1>3. Shaped(r) /\ r.at # "evicting"
  BY <1>2 DEF Shaped, Eviction!Idle, Eviction!Nothing
<1>4. Onward /\ OnePerInstance' /\ resident' \in [Instances -> Int]
  BY DEF Eviction!Return, Eviction!Settled, Eviction!jobs, Onward, Waits, Spared, Held,
         OnePerInstance, Eviction!running
<1>5. Sparing(r)'
  BY <1>3 DEF Sparing
<1> QED
  BY <1>2, <1>3, <1>4, <1>5, RequestMoves

(* A step of one job, in the queue's or the manager's hands.               *)
LEMMA JobSpares ==
  ASSUME Eviction!EvictionAssumption, Spared, NEW j \in Eviction!Jobs,
         \/ Eviction!Submit(j) \/ Eviction!Begin(j) \/ Eviction!Load(j)
         \/ Eviction!OutOfMemory(j) \/ Eviction!End(j)
  PROVE  Spared'
<1>1. UNCHANGED request
  BY DEF Eviction!Submit, Eviction!Begin, Eviction!Load, Eviction!OutOfMemory, Eviction!End,
         Eviction!evictions
<1>2. resident' \in [Instances -> Int]
  BY InstType
     DEF Eviction!Submit, Eviction!Begin, Eviction!Load, Eviction!OutOfMemory, Eviction!End,
         Spared, Held
<1>3. \/ phase[j] = "new" /\ phase' = [phase EXCEPT ![j] = "pending"]
      \/ phase[j] = "admitted" /\ phase' = [phase EXCEPT ![j] = "executing"]
      \/ phase[j] = "executing" /\ phase' = [phase EXCEPT ![j] = "admitted"]
      \/ phase[j] \in {"admitted", "executing"} /\ phase' = [phase EXCEPT ![j] = "done"]
      \/ UNCHANGED phase
  BY DEF Eviction!Submit, Eviction!Begin, Eviction!Load, Eviction!OutOfMemory, Eviction!End,
         Eviction!Become, Eviction!jobs, Eviction!running
<1>4. Onward /\ Eviction!running' \subseteq Eviction!running
  BY <1>3 DEF Onward, Waits, Spared, Held, Eviction!running
<1> QED
  BY <1>1, <1>2, <1>4, JobsMove

(* A step of the loop that launches nothing, or of the clock.              *)
LEMMA LoopSpares ==
  ASSUME Spared,
         \/ Eviction!Fetch
         \/ \E i \in Instances : Eviction!FetchHeld(i)
         \/ \E j \in Eviction!Jobs : Eviction!CooldownPasses(j)
         \/ UNCHANGED Eviction!vars
  PROVE  Spared' /\ UNCHANGED <<phase, resident>>
<1>1. UNCHANGED <<phase, resident, request>>
  BY DEF Eviction!Fetch, Eviction!FetchHeld, Eviction!CooldownPasses, Eviction!vars,
         Eviction!jobs, Eviction!evictions
<1>2. Onward /\ Eviction!running' \subseteq Eviction!running /\ resident' \in [Instances -> Int]
  BY <1>1 DEF Onward, Waits, Spared, Held, Eviction!running
<1> QED
  BY <1>1, <1>2, JobsMove

LEMMA SparedNext ==
  ASSUME Eviction!EvictionAssumption, Spared, [Eviction!Next]_Eviction!vars
  PROVE  Spared'
BY ScanSpares, MeasureSpares, ReleaseSpares, DoneSpares, JobSpares, LoopSpares
   DEF Eviction!Next

(* What an executing job loses, a request made before it takes.            *)
LEMMA LossIsForewarned ==
  ASSUME Eviction!EvictionAssumption, Spared, [Eviction!Next]_Eviction!vars,
         NEW k \in Eviction!Jobs, phase[k] = "executing", phase'[k] = "executing",
         resident'[Inst[k]] < resident[Inst[k]]
  PROVE  \E s \in 1 .. Slots : request[s].at = "evicting" /\ k \notin request[s].known
<1>1. /\ Inst[k] \in Instances /\ resident[Inst[k]] \in Int
      /\ resident \in [Instances -> Int] /\ phase[k] # "new" /\ Waits(k)
      /\ k \in Eviction!running
  BY InstType DEF Spared, Held, Waits, Eviction!running
<1>2. resident' # resident
  BY <1>1
<1>3. CASE \E j \in Eviction!Jobs : Eviction!Load(j)
  BY <1>1, <1>3, InstType DEF Eviction!Load
<1>4. CASE \E j \in Eviction!Jobs : Eviction!OutOfMemory(j)
  <2>1. PICK j \in Eviction!Jobs : Eviction!OutOfMemory(j)
    BY <1>4
  <2>2. phase[j] = "executing" /\ phase'[j] = "admitted" /\ j \in Eviction!running
    BY <2>1 DEF Eviction!OutOfMemory, Eviction!Become, Eviction!running, Spared, Held
  <2>3. Inst[k] # Inst[j]
    BY <1>1, <2>2 DEF Spared, OnePerInstance
  <2>4. Inst[k] \notin Eviction!Cleared(j)
    BY <2>2 DEF Eviction!Cleared, Eviction!Targets
  <2> QED
    BY <1>1, <2>1, <2>3, <2>4 DEF Eviction!OutOfMemory
<1>5. CASE \E s \in 1 .. Slots, v \in Instances : Eviction!Release(s, v)
  <2>1. PICK s \in 1 .. Slots, v \in Instances : Eviction!Release(s, v)
    BY <1>5
  <2>2. /\ request[s].at = "evicting" /\ request[s].found[v] > 0 /\ Sparing(request[s])
        /\ resident' = [resident EXCEPT ![v] = 0]
    BY <2>1 DEF Eviction!Release, Spared
  <2>3. v = Inst[k]
    BY <1>1, <2>2
  <2>4. Inst[k] \notin request[s].exclude
    BY <2>2, <2>3 DEF Sparing
  <2> QED
    BY <1>1, <2>2, <2>4 DEF Sparing
<1>6. CASE UNCHANGED resident
  BY <1>2, <1>6
<1>7. \/ UNCHANGED resident
      \/ \E j \in Eviction!Jobs : Eviction!Load(j) \/ Eviction!OutOfMemory(j)
      \/ \E s \in 1 .. Slots, v \in Instances : Eviction!Release(s, v)
  BY DEF Eviction!Next, Eviction!Fetch, Eviction!FetchHeld, Eviction!Scan,
         Eviction!Submit, Eviction!CooldownPasses, Eviction!Begin, Eviction!End,
         Eviction!Measure, Eviction!Return, Eviction!Settled, Eviction!vars
<1> QED
  BY <1>3, <1>4, <1>5, <1>6, <1>7

(* A job that executes loses its model only to an eviction request made    *)
(* before the job was submitted, whatever the requests that overlap and    *)
(* however long they take: what queue.py:1611 and manager.py:1701 say of   *)
(* the jobs that wait and run.                                             *)
THEOREM SparedMemory ==
  Eviction!EvictionAssumption => (Eviction!Spec => Eviction!SparedKeepsMemory)
<1> SUFFICES ASSUME Eviction!EvictionAssumption
             PROVE  Eviction!Spec => Eviction!SparedKeepsMemory
  OBVIOUS
<1>1. Eviction!Init => Spared
  BY SparedInit
<1>2. Spared /\ [Eviction!Next]_Eviction!vars => Spared'
  BY SparedNext
<1>3. Spared /\ [Eviction!Next]_Eviction!vars
      => [\A k \in Eviction!Jobs :
            /\ phase[k] = "executing" /\ phase'[k] = "executing"
            /\ resident'[Inst[k]] < resident[Inst[k]]
            => \E s \in 1 .. Slots :
                 request[s].at = "evicting" /\ k \notin request[s].known]_Eviction!vars
  BY LossIsForewarned
<1> QED
  BY <1>1, <1>2, <1>3, PTL DEF Eviction!Spec, Eviction!SparedKeepsMemory

(* What the scan works on is a record of its own.                          *)
Tabled == stats = [free |-> stats.free, held |-> stats.held, todo |-> stats.todo,
                   late |-> stats.late]

EvictionTyped == Eviction!TypeOK /\ Tabled

LEMMA EvictionInitType ==
  ASSUME Eviction!EvictionAssumption, Eviction!Init
  PROVE  EvictionTyped
<1>1. \A i \in Instances : Loads[i] \subseteq 0 .. Vram
  BY DEF Eviction!EvictionAssumption
<1>2. Eviction!Nothing \in [Instances -> 0 .. Vram]
  BY DEF Eviction!Nothing, Eviction!EvictionAssumption
<1>3. \A s \in 1 .. Slots : request[s].at = "none" /\ request[s].found = Eviction!Nothing
  BY DEF Eviction!Init, Eviction!Idle
<1> QED
  BY <1>1, <1>2, <1>3 DEF Eviction!Init, Eviction!TypeOK, EvictionTyped, Tabled

LEMMA EvictionNextType ==
  ASSUME Eviction!EvictionAssumption, Spared, EvictionTyped, [Eviction!Next]_Eviction!vars
  PROVE  EvictionTyped'
<1> USE DEF EvictionTyped, Tabled, Eviction!TypeOK, Eviction!jobs, Eviction!evictions
<1>n. /\ Eviction!Nothing \in [Instances -> 0 .. Vram] /\ Vram \in Nat
      /\ \A i \in Instances : Loads[i] \subseteq 0 .. Vram
      /\ \A j \in Eviction!Jobs : Inst[j] \in Instances
  BY InstType DEF Eviction!Nothing, Eviction!EvictionAssumption
<1>h. /\ request = [s \in 1 .. Slots |-> request[s]] /\ \A s \in 1 .. Slots : Shaped(request[s])
      /\ request' = [s \in 1 .. Slots |-> request'[s]]
  BY SparedNext DEF Spared, Held
<1>1. CASE Eviction!Fetch
  <2>1. Eviction!Targets(Eviction!pending) \subseteq Instances
    BY <1>n DEF Eviction!Targets, Eviction!pending
  <2>2. \/ UNCHANGED stats
        \/ stats' = [free |-> Eviction!Free, held |-> Eviction!Nothing,
                     todo |-> Eviction!Targets(Eviction!pending), late |-> FALSE]
    BY <1>1 DEF Eviction!Fetch
  <2>3. stats'.held \in [Instances -> 0 .. Vram] /\ stats'.todo \subseteq Instances /\ Tabled'
    BY <1>n, <2>1, <2>2
  <2> QED
    BY <1>1, <2>3 DEF Eviction!Fetch
<1>2. ASSUME NEW i \in Instances, Eviction!FetchHeld(i) PROVE EvictionTyped'
  <2>1. /\ stats'.held = [stats.held EXCEPT ![i] = resident[i]]
        /\ stats'.todo = stats.todo \ {i}
        /\ Tabled'
    BY <1>2 DEF Eviction!FetchHeld
  <2> QED
    BY <1>2, <2>1 DEF Eviction!FetchHeld
<1>3. CASE Eviction!Scan
  <2> DEFINE pick == Eviction!First({j \in Eviction!pending :
                       Eviction!Eligible(j) /\ ~Eviction!Starved(j)})
             seen == {j \in Eviction!pending :
                       \A k \in pick : Eviction!Rank(j) < Eviction!Rank(k)}
             ask == Eviction!First({j \in seen : Eviction!Starved(j) /\ j \notin cooling})
             New(j) == [Eviction!Idle EXCEPT
               !.at = "evicting", !.known = {k \in Eviction!Jobs : phase[k] # "new"},
               !.exclude = Eviction!Spare(j), !.target = Eviction!Need(j) - stats.free,
               !.todo = Instances \ Eviction!Spare(j)]
  <2>1. ask \subseteq Eviction!Jobs
    BY DEF Eviction!First, Eviction!pending
  <2>2. /\ loop' = "waiting" /\ available' \in BOOLEAN /\ UNCHANGED <<retried, resident, stats>>
        /\ phase' \in [Eviction!Jobs -> {"new", "pending", "admitted", "executing", "done"}]
        /\ asked' = asked \cup ask /\ cooling' = cooling \cup ask
        /\ \/ UNCHANGED request
           \/ \E j \in ask, s \in 1 .. Slots : request' = [request EXCEPT ![s] = New(j)]
    BY <1>3 DEF Eviction!Scan
  <2> HIDE DEF ask
  <2>3. \A j \in ask : New(j).at = "evicting" /\ New(j).found = Eviction!Nothing
    BY DEF Eviction!Idle
  <2> HIDE DEF New
  <2>4. \A s \in 1 .. Slots : \/ request'[s] = request[s]
                              \/ /\ request'[s].at = "evicting"
                                 /\ request'[s].found = Eviction!Nothing
    BY <1>h, <2>2, <2>3
  <2> QED
    BY <1>n, <2>1, <2>2, <2>4
<1>4. ASSUME NEW j \in Eviction!Jobs,
             \/ Eviction!Submit(j) \/ Eviction!Begin(j) \/ Eviction!Load(j)
             \/ Eviction!OutOfMemory(j) \/ Eviction!End(j) \/ Eviction!CooldownPasses(j)
      PROVE  EvictionTyped'
  <2>1. /\ phase' \in [Eviction!Jobs -> {"new", "pending", "admitted", "executing", "done"}]
        /\ retried' \subseteq Eviction!Jobs /\ UNCHANGED <<loop, request>>
        /\ available' \in BOOLEAN /\ cooling' \subseteq asked' /\ asked' \subseteq Eviction!Jobs
    BY <1>4 DEF Eviction!Submit, Eviction!Begin, Eviction!Load, Eviction!OutOfMemory,
         Eviction!End, Eviction!CooldownPasses, Eviction!Become
  <2>2. resident' \in [Instances -> 0 .. Vram]
    <3>1. CASE Eviction!Load(j)
      BY <1>n, <3>1 DEF Eviction!Load
    <3>2. CASE Eviction!OutOfMemory(j)
      <4>1. PICK lost : resident' = [i \in Instances |->
                          IF i \in lost \cup {Inst[j]} THEN 0 ELSE resident[i]]
        BY <3>2 DEF Eviction!OutOfMemory
      <4> QED
        BY <1>n, <4>1
    <3> QED
      BY <1>4, <3>1, <3>2 DEF Eviction!Submit, Eviction!Begin, Eviction!End,
         Eviction!CooldownPasses
  <2>3. stats'.held = stats.held /\ stats'.todo = stats.todo /\ Tabled'
    BY <1>4 DEF Eviction!Submit, Eviction!Begin, Eviction!Load, Eviction!OutOfMemory,
         Eviction!End, Eviction!CooldownPasses
  <2> QED
    BY <2>1, <2>2, <2>3
<1>5. ASSUME NEW s \in 1 .. Slots, NEW i \in Instances,
             Eviction!Measure(s, i) \/ Eviction!Release(s, i)
      PROVE  EvictionTyped'
  <2> DEFINE q == request[s]
             held == IF i \in Eviction!Executing THEN 0 ELSE resident[i]
             sum == q.freed + q.found[i]
  <2>1. CASE Eviction!Measure(s, i)
    <3>1. /\ UNCHANGED <<phase, retried, resident, available, loop, stats, asked, cooling>>
          /\ request' = [request EXCEPT ![s] = [q EXCEPT !.todo = q.todo \ {i}, !.found[i] = held]]
      BY <2>1 DEF Eviction!Measure
    <3>2. held \in 0 .. Vram /\ Shaped(q) /\ q.found \in [Instances -> 0 .. Vram]
      BY <1>h, <1>n
    <3> HIDE DEF held
    <3>3. /\ request'[s].at = q.at
          /\ request'[s].found = [q.found EXCEPT ![i] = held]
          /\ \A t \in 1 .. Slots : t # s => request'[t] = request[t]
      BY <1>h, <3>1, <3>2 DEF Shaped
    <3>4. [q.found EXCEPT ![i] = held] \in [Instances -> 0 .. Vram]
      BY <3>2
    <3>5. UNCHANGED <<phase, retried, resident, available, loop, stats, asked, cooling>>
      BY <3>1
    <3> QED
      BY <3>3, <3>4, <3>5
  <2>2. CASE Eviction!Release(s, i)
    <3>1. /\ UNCHANGED <<phase, retried, available, loop, stats, asked, cooling>>
          /\ resident' = [resident EXCEPT ![i] = 0]
          /\ request' = [request EXCEPT ![s] = [q EXCEPT !.found[i] = 0, !.freed = sum]]
      BY <2>2 DEF Eviction!Release
    <3>2. Shaped(q) /\ q.found \in [Instances -> 0 .. Vram]
      BY <1>h
    <3> HIDE DEF sum
    <3>3. /\ request'[s].at = q.at
          /\ request'[s].found = [q.found EXCEPT ![i] = 0]
          /\ \A t \in 1 .. Slots : t # s => request'[t] = request[t]
      BY <1>h, <3>1, <3>2 DEF Shaped
    <3> QED
      BY <1>n, <3>1, <3>2, <3>3
  <2> QED
    BY <1>5, <2>1, <2>2
<1>6. ASSUME NEW s \in 1 .. Slots, Eviction!Return(s) \/ Eviction!Settled(s)
      PROVE  EvictionTyped'
  <2>1. /\ UNCHANGED <<phase, retried, resident, loop, stats, asked, cooling>>
        /\ available' = TRUE
        /\ \E r : /\ request' = [request EXCEPT ![s] = r]
                  /\ r = Eviction!Idle \/ r = [Eviction!Idle EXCEPT !.at = "settling"]
    BY <1>6 DEF Eviction!Return, Eviction!Settled
  <2>2. PICK r : /\ request' = [request EXCEPT ![s] = r]
                 /\ r = Eviction!Idle \/ r = [Eviction!Idle EXCEPT !.at = "settling"]
    BY <2>1
  <2>3. r.at \in {"none", "settling"} /\ r.found = Eviction!Nothing
    BY <2>2 DEF Eviction!Idle
  <2>4. \A t \in 1 .. Slots : request'[t] = IF t = s THEN r ELSE request[t]
    BY <1>h, <2>2
  <2> QED
    BY <1>n, <2>1, <2>3, <2>4
<1>7. CASE UNCHANGED Eviction!vars
  BY <1>7 DEF Eviction!vars
<1> QED
  BY <1>1, <1>2, <1>3, <1>4, <1>5, <1>6, <1>7 DEF Eviction!Next

(* The eviction's state keeps its types.                                   *)
THEOREM EvictionTypeCorrect ==
  Eviction!EvictionAssumption => (Eviction!Spec => []Eviction!TypeOK)
<1> SUFFICES ASSUME Eviction!EvictionAssumption
             PROVE  Eviction!Spec => []Eviction!TypeOK
  OBVIOUS
<1>1. Eviction!Init => Spared /\ EvictionTyped
  BY SparedInit, EvictionInitType
<1>2. Spared /\ EvictionTyped /\ [Eviction!Next]_Eviction!vars => (Spared /\ EvictionTyped)'
  BY SparedNext, EvictionNextType
<1>3. EvictionTyped => Eviction!TypeOK
  BY DEF EvictionTyped
<1> QED
  BY <1>1, <1>2, <1>3, PTL DEF Eviction!Spec
=============================================================================
