--------------------------- MODULE InstanceProfiles ---------------------------
(***************************************************************************)
(* What a CapabilityManager (core/manager.py) keeps of an instance across  *)
(* calls, reloads and sessions: the configuration its worker runs, the     *)
(* record in the config store (core/config_store.py), the secrets of its   *)
(* capability (core/secret_store.py) and the empirical profiles that       *)
(* admission reads (core/empirical_store.py).                              *)
(*                                                                         *)
(* Every action is one synchronous step of the host.  A configuration      *)
(* stands for its hash, and a measurement for the configurations it was    *)
(* taken under.                                                            *)
(***************************************************************************)
EXTENDS Integers, FiniteSets

CONSTANTS
  Ids,       \* instances of one capability, all with deterministic ids
  Ambient,   \* those of observability class ambient
  Configs,   \* valid configurations, and
  Empty,     \* the empty one
  Defaults,  \* what the schema gives as defaults
  Envs,      \* worker_env overrides, and
  NoEnv,     \* the empty one
  Secrets,   \* secrets of the capability, and
  NoSecret,
  None,
  Calls,     \* calls of execute_capability*
  MaxActs    \* bound of the model: what operators do

AnyConfig == Configs \cup {Empty}
AnyEnv == Envs \cup {NoEnv}

Instances == [config : AnyConfig, enabled : BOOLEAN]
Rows == [config : AnyConfig, enabled : BOOLEAN, env : AnyEnv]
Samples == [peaks : SUBSET AnyConfig, runs : SUBSET AnyConfig]

ASSUME ProfileAssumption ==
  /\ Ambient \subseteq Ids
  /\ Empty \notin Configs /\ Defaults \in AnyConfig
  /\ NoEnv \notin Envs /\ NoSecret \notin Secrets
  /\ None \notin AnyConfig \cup AnyEnv \cup BOOLEAN \cup Instances \cup Rows \cup Samples
  /\ MaxActs \in Nat

VARIABLES
  inst,      \* instances: config (and its hash) and enabled; None if not loaded
  worker,    \* the worker of each: what it runs, what it was started with
  store,     \* the rows of config_store
  secret,    \* the row of secret_store
  profile,   \* the rows of empirical_store
  cache,     \* _worker_stats_cache, as far as it is younger than its TTL
  call,      \* the calls
  acts,
  saved,     \* the enabled flag and the override that were last asked for and
  override,  \* written, None if none was or the write failed
  mixed,     \* instances whose configuration changed beneath a measurement, and
  refused    \* those whose worker did not take an update as a whole

durable == <<store, secret, profile, saved, override>>
ghosts == <<mixed, refused>>
vars == <<inst, worker, durable, cache, call, acts, ghosts>>

NoWorker == [config |-> Empty, env |-> NoEnv, secret |-> NoSecret, alive |-> FALSE]
NoCall == [pc |-> "idle", id |-> None, ran |-> Empty, hash |-> Empty]

Init ==
  /\ inst = [i \in Ids |-> None]
  /\ worker = [i \in Ids |-> NoWorker]
  /\ store = [i \in Ids |-> None]
  /\ secret = NoSecret
  /\ profile = [i \in Ids |-> [h \in AnyConfig |-> None]]
  /\ cache = [i \in Ids |-> None]
  /\ call = [c \in Calls |-> NoCall]
  /\ acts = 0
  /\ saved = [i \in Ids |-> None]
  /\ override = [i \in Ids |-> None]
  /\ mixed = {} /\ refused = {}

Loaded == {i \in Ids : inst[i] # None}
Live(i) == {c \in Calls : call[c].pc = "running" /\ call[c].id = i}

-----------------------------------------------------------------------------
(* load_capability, unload_capability, reload_capability.                  *)

(* Calls that are under way keep the object of an instance that goes.      *)
Orphaned(S) ==
  [c \in Calls |-> IF call[c].pc = "running" /\ call[c].id \in S
                   THEN [call[c] EXCEPT !.pc = "orphan", !.hash = inst[call[c].id].config]
                   ELSE call[c]]

StoredEnv(i) == IF store[i] = None THEN NoEnv ELSE store[i].env

(* The caller's configuration, else the persisted one, else the defaults.  *)
Effective(i, asked) ==
  CASE asked # Empty -> asked
    [] store[i] # None /\ store[i].config # Empty -> store[i].config
    [] OTHER -> Defaults

Restored_Enabled(i) == TRUE

Restored(i) == store[i] = None \/ store[i].enabled

(* What a load makes of the instance and its worker.                       *)
Instance(i, asked) == [config |-> Effective(i, asked), enabled |-> Restored(i)]
Started(i, asked, s) == [config |-> Effective(i, asked), env |-> StoredEnv(i),
                         secret |-> s, alive |-> TRUE]

(* What is still to be measured, or is cached, of an instance.             *)
Sources(i) ==
  {call[c].hash : c \in {d \in Calls : call[d].pc = "orphan" /\ call[d].id = i}}
    \cup {inst[k].config : k \in {k \in {i} : Live(k) # {}}}
    \cup ({cache[i]} \ {None})

(* The instances in S go on with the configurations new.                   *)
Disturb(S, new) ==
  /\ mixed' = mixed \cup {i \in S : ~(Sources(i) \subseteq {new[i]})}
  /\ UNCHANGED refused

(* An id that is loaded is skipped; a load that fails leaves no instance.  *)
Load(i, asked) ==
  /\ i \notin Loaded
  /\ inst' = [inst EXCEPT ![i] = Instance(i, asked)]
  /\ worker' = [worker EXCEPT ![i] = Started(i, asked, secret)]
  /\ Disturb({i}, [k \in {i} |-> Effective(k, asked)])
  /\ UNCHANGED <<durable, cache, call>>

Unload(i) ==
  /\ i \in Loaded
  /\ inst' = [inst EXCEPT ![i] = None]
  /\ worker' = [worker EXCEPT ![i] = NoWorker]
  /\ call' = Orphaned({i})
  /\ UNCHANGED <<durable, cache, ghosts>>

(* The instances in S come back, but for those in lost.                    *)
Respawn(S, asked, lost, s) ==
  /\ inst' = [i \in Ids |-> CASE i \in lost -> None
                              [] i \in S \ lost -> Instance(i, asked[i])
                              [] OTHER -> inst[i]]
  /\ worker' = [i \in Ids |-> CASE i \in lost -> NoWorker
                                [] i \in S \ lost -> Started(i, asked[i], s)
                                [] OTHER -> worker[i]]
  /\ call' = Orphaned(S)
  /\ Disturb(S \ lost, [i \in S |-> Effective(i, asked[i])])

(* With no configuration given, the worker's own; a worker that does not   *)
(* answer ends the reload before it began.                                 *)
Reload(i, given) ==
  /\ i \in Loaded
  /\ given = Empty => worker[i].alive
  /\ \E lost \in SUBSET {i} :
       Respawn({i}, [k \in {i} |-> IF given = Empty THEN worker[k].config ELSE given],
               lost, secret)
  /\ UNCHANGED <<durable, cache>>

-----------------------------------------------------------------------------
(* The config store and the secret store.                                  *)

(* A record is written as a whole, over the one there is.                  *)
Record(config, enabled, env) == [config |-> config, enabled |-> enabled, env |-> env]
Put(i, record) == store' = [store EXCEPT ![i] = record]

Persist_NoEnv(i, config, enabled, env) ==
  \/ /\ Put(i, Record(config, enabled, NoEnv))
     /\ saved' = [saved EXCEPT ![i] = enabled]
  \/ UNCHANGED store /\ saved' = [saved EXCEPT ![i] = None]

(* _persist_config: the worker's own account of its configuration, if it   *)
(* answers.  A write that fails is logged.                                 *)
Persist(i, config, enabled, env) ==
  \/ /\ Put(i, Record(config, enabled, env))
     /\ saved' = [saved EXCEPT ![i] = enabled]
  \/ UNCHANGED store /\ saved' = [saved EXCEPT ![i] = None]

SetEnabled(i, on) ==
  /\ i \in Loaded
  /\ inst' = [inst EXCEPT ![i].enabled = on]
  /\ Persist(i, IF worker[i].alive THEN worker[i].config ELSE inst[i].config, on,
             StoredEnv(i))
  /\ UNCHANGED <<worker, secret, profile, override, cache, call, ghosts>>

(* set_worker_env_override, for an instance loaded or not.                 *)
SetEnv(i, env) ==
  /\ \/ /\ Put(i, IF store[i] = None THEN Record(Empty, TRUE, env)
                  ELSE Record(store[i].config, store[i].enabled, env))
        /\ override' = [override EXCEPT ![i] = env]
     \/ UNCHANGED <<store, override>>
  /\ UNCHANGED <<inst, worker, secret, profile, saved, cache, call, ghosts>>

(* The file of secrets is read, changed and written back.                  *)
StoreSecret(s) == secret' = s

(* set_capability_secret: every worker of the capability is started again, *)
(* with what the store held before; those that do not answer stay.         *)
SetSecret(s, reload) ==
  /\ StoreSecret(s)
  /\ IF ~reload THEN UNCHANGED <<inst, worker, call, ghosts>>
     ELSE LET S == {i \in Loaded : worker[i].alive} IN
          \E lost \in SUBSET S : Respawn(S, [i \in S |-> worker[i].config], lost, s)
  /\ UNCHANGED <<store, profile, saved, override, cache>>

-----------------------------------------------------------------------------
(* update_capability_config.                                               *)

Update_KeepsHash(i, c) ==
  /\ i \in Loaded /\ worker[i].alive
  /\ worker' = [worker EXCEPT ![i].config = c]
  /\ Disturb({i}, [k \in {i} |-> c])
  /\ Persist(i, c, inst[i].enabled, StoredEnv(i))
  /\ UNCHANGED <<inst, secret, profile, override, cache, call>>

(* reconfigure, or initialize for a worker without it; then the instance   *)
(* and its hash, the row in the journal, and the store.                    *)
Update(i, c) ==
  /\ i \in Loaded /\ worker[i].alive
  /\ worker' = [worker EXCEPT ![i].config = c]
  /\ inst' = [inst EXCEPT ![i].config = c]
  /\ Disturb({i}, [k \in {i} |-> c])
  /\ Persist(i, c, inst[i].enabled, StoredEnv(i))
  /\ UNCHANGED <<secret, profile, override, cache, call>>

(* The worker raised, having applied the change or not; or the append did, *)
(* when everything but the store had changed.  Both come back as False.    *)
UpdateFails(i, c) ==
  /\ i \in Loaded /\ worker[i].alive
  /\ worker' = [worker EXCEPT ![i].config = c]
  /\ \/ inst' = inst /\ refused' = refused \cup {i} /\ UNCHANGED mixed
     \/ /\ inst' = [inst EXCEPT ![i].config = c]
        /\ Disturb({i}, [k \in {i} |-> c])
  /\ UNCHANGED <<durable, cache, call>>

-----------------------------------------------------------------------------
(* Calls, and what _record_sample_safe makes of them.                      *)

Begin(c, i) ==
  /\ call[c].pc = "idle"
  /\ i \in Loaded /\ inst[i].enabled
  /\ call' = [call EXCEPT ![c] = [pc |-> "running", id |-> i, ran |-> worker[i].config,
                                  hash |-> Empty]]
  /\ UNCHANGED <<inst, worker, durable, cache, ghosts>>

WorkerDies(i) ==
  /\ i \in Loaded /\ worker[i].alive /\ Live(i) # {}
  /\ worker' = [worker EXCEPT ![i].alive = FALSE]
  /\ UNCHANGED <<inst, durable, cache, call, ghosts>>

NoSamples == [peaks |-> {}, runs |-> {}]

(* record_sample: a new row, or the peaks of the old one and this.         *)
Fold(row, measured, ran) ==
  LET old == IF row = None THEN NoSamples ELSE row IN
  [peaks |-> old.peaks \cup measured, runs |-> old.runs \cup {ran}]

(* The stats of the worker: from the cache, from the worker, or none.      *)
Measured(i, running) ==
  CASE cache[i] # None -> {cache[i]}
    [] cache[i] = None /\ running /\ worker[i].alive -> {worker[i].config}
    [] OTHER -> {}

get_record(i, hash) == profile[i][hash]

Skipped(i, hash) == i \in Ambient /\ get_record(i, hash) # None

(* The call ends, and its sample is filed under the hash that the object   *)
(* of its instance has by now.  The fetch of the stats may fail.           *)
Finish(c) ==
  LET i == call[c].id
      running == call[c].pc = "running"
      hash == IF running THEN inst[i].config ELSE call[c].hash
  IN  /\ call[c].pc # "idle"
      /\ call' = [call EXCEPT ![c] = NoCall]
      /\ IF Skipped(i, hash) THEN UNCHANGED <<profile, cache>>
         ELSE \E measured \in {Measured(i, running)}
                                \cup (IF cache[i] = None THEN {{}} ELSE {}) :
                /\ profile' = [profile EXCEPT ![i][hash] = Fold(@, measured, call[c].ran)]
                /\ cache' = [cache EXCEPT ![i] = IF measured = {} THEN None
                                                ELSE CHOOSE m \in measured : TRUE]
      /\ UNCHANGED <<inst, worker, store, secret, saved, override, ghosts>>

(* A second passes.                                                        *)
Expire(i) ==
  /\ cache[i] # None
  /\ cache' = [cache EXCEPT ![i] = None]
  /\ UNCHANGED <<inst, worker, durable, call, ghosts>>

(* delete_record, from outside.                                            *)
DeleteRecord(i, h) ==
  /\ profile[i][h] # None
  /\ profile' = [profile EXCEPT ![i][h] = None]
  /\ UNCHANGED <<inst, worker, store, secret, saved, override, cache, call, ghosts>>

(* The host ends and comes back: what is in a store stays.                 *)
Restart ==
  /\ inst' = [i \in Ids |-> None]
  /\ worker' = [i \in Ids |-> NoWorker]
  /\ cache' = [i \in Ids |-> None]
  /\ call' = [c \in Calls |-> NoCall]
  /\ UNCHANGED <<durable, ghosts>>

-----------------------------------------------------------------------------
Operator ==
  /\ acts < MaxActs
  /\ acts' = acts + 1
  /\ \/ \E i \in Ids : Unload(i) \/ SetEnabled(i, TRUE) \/ SetEnabled(i, FALSE)
     \/ \E i \in Ids, c \in AnyConfig : Load(i, c) \/ Reload(i, c)
     \/ \E i \in Ids, c \in Configs : Update(i, c) \/ UpdateFails(i, c)
     \/ \E i \in Ids, e \in AnyEnv : SetEnv(i, e)
     \/ \E s \in Secrets, reload \in BOOLEAN : SetSecret(s, reload)
     \/ \E i \in Ids, h \in AnyConfig : DeleteRecord(i, h)
     \/ Restart

Next ==
  \/ Operator
  \/ /\ \/ \E c \in Calls : Finish(c) \/ \E i \in Ids : Begin(c, i)
        \/ \E i \in Ids : WorkerDies(i) \/ Expire(i)
     /\ UNCHANGED acts

Spec == Init /\ [][Next]_vars

-----------------------------------------------------------------------------
TypeOK ==
  /\ inst \in [Ids -> Instances \cup {None}]
  /\ worker \in [Ids -> [config : AnyConfig, env : AnyEnv, secret : Secrets \cup {NoSecret},
                        alive : BOOLEAN]]
  /\ store \in [Ids -> Rows \cup {None}]
  /\ secret \in Secrets \cup {NoSecret}
  /\ profile \in [Ids -> [AnyConfig -> Samples \cup {None}]]
  /\ cache \in [Ids -> AnyConfig \cup {None}]
  /\ call \in [Calls -> [pc : {"idle", "running", "orphan"}, id : Ids \cup {None},
                         ran : AnyConfig, hash : AnyConfig]]
  /\ \A c \in Calls : call[c].pc # "idle" => call[c].id \in Ids
  /\ \A c \in Calls : call[c].pc = "running" => call[c].id \in Loaded
  /\ saved \in [Ids -> BOOLEAN \cup {None}]
  /\ override \in [Ids -> AnyEnv \cup {None}]
  /\ mixed \subseteq Ids /\ refused \subseteq Ids
  /\ acts \in 0 .. MaxActs

(* A profile is of runs and measurements of its own configuration, through *)
(* updates, reloads and restarts, for an instance whose configuration did  *)
(* not change beneath a call or a cached measurement, nor half-way.        *)
ProfileOfConfig ==
  \A i \in Ids \ (mixed \cup refused) : \A h \in AnyConfig :
    profile[i][h] # None => profile[i][h].peaks \cup profile[i][h].runs \subseteq {h}

(* An instance is enabled or disabled as the operator last had it saved,   *)
(* after any unload, reload or restart.                                    *)
EnabledRestored ==
  \A i \in Loaded : saved[i] # None => inst[i].enabled = saved[i]

(* A worker_env override outlives every other write of its row.            *)
OverrideKept ==
  \A i \in Ids : override[i] # None => store[i] # None /\ store[i].env = override[i]
=============================================================================
