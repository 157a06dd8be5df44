------------------------ MODULE InstanceProfilesProofs ------------------------
(***************************************************************************)
(* Theorems about InstanceProfiles, for any instances, configurations,     *)
(* overrides, secrets and calls.                                           *)
(***************************************************************************)
EXTENDS InstanceProfiles, TLAPS

LEMMA UpdateType ==
  ASSUME NEW D, NEW R, NEW f \in [D -> R], NEW d, NEW v \in R
  PROVE  [f EXCEPT ![d] = v] \in [D -> R]
OBVIOUS

LEMMA EffectiveType ==
  ASSUME TypeOK, NEW i \in Ids, NEW asked \in AnyConfig
  PROVE  Effective(i, asked) \in AnyConfig
BY ProfileAssumption DEF TypeOK, Effective, Rows

LEMMA StoredEnvType ==
  ASSUME TypeOK, NEW i \in Ids
  PROVE  StoredEnv(i) \in AnyEnv
BY DEF TypeOK, StoredEnv, Rows, AnyEnv

LEMMA InstanceType ==
  ASSUME TypeOK, NEW i \in Ids, NEW asked \in AnyConfig
  PROVE  /\ Instance(i, asked) \in Instances
         /\ Instance(i, asked) # None
<1>1. Restored(i) \in BOOLEAN
  BY DEF TypeOK, Restored, Rows
<1> QED
  BY <1>1, EffectiveType, ProfileAssumption DEF Instance, Instances

WorkerRecords ==
  [config : AnyConfig, env : AnyEnv, secret : Secrets \cup {NoSecret}, alive : BOOLEAN]

CallRecords ==
  [pc : {"idle", "running", "orphan"}, id : Ids \cup {None}, ran : AnyConfig, hash : AnyConfig]

LEMMA StartedType ==
  ASSUME TypeOK, NEW i \in Ids, NEW asked \in AnyConfig, NEW s \in Secrets \cup {NoSecret}
  PROVE  Started(i, asked, s) \in WorkerRecords
BY EffectiveType, StoredEnvType DEF Started, WorkerRecords

LEMMA NoWorkerType == NoWorker \in WorkerRecords
BY DEF NoWorker, WorkerRecords, AnyConfig, AnyEnv

LEMMA NoCallType == NoCall \in CallRecords
BY DEF NoCall, CallRecords, AnyConfig

(* What becomes of the calls of instances that go.                         *)
LEMMA OrphanedType ==
  ASSUME TypeOK, NEW S \in SUBSET Ids
  PROVE  /\ Orphaned(S) \in [Calls -> CallRecords]
         /\ \A c \in Calls :
              /\ Orphaned(S)[c].id = call[c].id /\ Orphaned(S)[c].ran = call[c].ran
              /\ Orphaned(S)[c].pc = "idle" <=> call[c].pc = "idle"
              /\ Orphaned(S)[c].pc = "running"
                   <=> call[c].pc = "running" /\ call[c].id \notin S
              /\ Orphaned(S)[c].hash = IF call[c].pc = "running" /\ call[c].id \in S
                                       THEN inst[call[c].id].config ELSE call[c].hash
<1> SUFFICES ASSUME NEW c \in Calls
             PROVE  /\ Orphaned(S)[c] \in CallRecords
                    /\ Orphaned(S)[c].id = call[c].id /\ Orphaned(S)[c].ran = call[c].ran
                    /\ Orphaned(S)[c].pc = "idle" <=> call[c].pc = "idle"
                    /\ Orphaned(S)[c].pc = "running"
                         <=> call[c].pc = "running" /\ call[c].id \notin S
                    /\ Orphaned(S)[c].hash = IF call[c].pc = "running" /\ call[c].id \in S
                                             THEN inst[call[c].id].config ELSE call[c].hash
  BY DEF Orphaned
<1>1. call[c] \in CallRecords
  BY DEF TypeOK, CallRecords
<1>2. CASE call[c].pc = "running" /\ call[c].id \in S
  <2>1. inst[call[c].id].config \in AnyConfig
    BY <1>2, ProfileAssumption DEF TypeOK, Loaded, Instances
  <2>2. Orphaned(S)[c] = [call[c] EXCEPT !.pc = "orphan", !.hash = inst[call[c].id].config]
    BY <1>2 DEF Orphaned
  <2> QED
    BY <1>1, <1>2, <2>1, <2>2 DEF CallRecords
<1>3. CASE ~(call[c].pc = "running" /\ call[c].id \in S)
  BY <1>1, <1>3 DEF Orphaned, CallRecords
<1> QED
  BY <1>2, <1>3

-----------------------------------------------------------------------------
(* Types.                                                                  *)

(* A record of the config store and what is known of it stay in step with  *)
(* the instance, whether the write succeeds or not.                        *)
LEMMA PersistType ==
  ASSUME TypeOK, NEW i \in Ids, NEW config \in AnyConfig, NEW enabled \in BOOLEAN,
         NEW env \in AnyEnv, Persist(i, config, enabled, env)
  PROVE  /\ store' \in [Ids -> Rows \cup {None}]
         /\ saved' \in [Ids -> BOOLEAN \cup {None}]
<1>1. Record(config, enabled, env) \in Rows
  BY DEF Record, Rows
<1>2. store' \in [Ids -> Rows \cup {None}]
  BY <1>1 DEF TypeOK, Persist, Put
<1>3. saved' \in [Ids -> BOOLEAN \cup {None}]
  <2>1. saved \in [Ids -> BOOLEAN \cup {None}]
    BY DEF TypeOK
  <2>2. enabled \in BOOLEAN \cup {None} /\ None \in BOOLEAN \cup {None}
    OBVIOUS
  <2>3. \E v \in BOOLEAN \cup {None} : saved' = [saved EXCEPT ![i] = v]
    BY <2>2, Zenon DEF Persist
  <2> QED
    BY <2>1, <2>3, UpdateType
<1> QED
  BY <1>2, <1>3

(* What a load, a reload or a reload for a secret makes of the instances   *)
(* that come back.                                                         *)
LEMMA RespawnType ==
  ASSUME TypeOK, NEW S \in SUBSET Ids, S \subseteq Loaded, NEW lost \in SUBSET S,
         NEW asked, \A i \in S : asked[i] \in AnyConfig,
         NEW s \in Secrets \cup {NoSecret}, Respawn(S, asked, lost, s)
  PROVE  /\ inst' \in [Ids -> Instances \cup {None}]
         /\ worker' \in [Ids -> WorkerRecords]
         /\ call' \in [Calls -> CallRecords]
         /\ \A c \in Calls : call'[c].pc # "idle" => call'[c].id \in Ids
         /\ \A c \in Calls : call'[c].pc = "running" => inst'[call'[c].id] # None
         /\ mixed' \subseteq Ids /\ refused' \subseteq Ids
<1>1. inst' \in [Ids -> Instances \cup {None}]
  BY InstanceType DEF Respawn, TypeOK
<1>2. worker' \in [Ids -> WorkerRecords]
  <2>1. worker \in [Ids -> WorkerRecords]
    BY DEF TypeOK, WorkerRecords
  <2> QED
    BY <2>1, StartedType, NoWorkerType DEF Respawn
<1>3. call' = Orphaned(S)
  BY DEF Respawn
<1>4. \A c \in Calls : call'[c].pc = "running" => inst'[call'[c].id] # None
  <2> SUFFICES ASSUME NEW c \in Calls, call'[c].pc = "running"
               PROVE  inst'[call'[c].id] # None
    OBVIOUS
  <2>1. call[c].pc = "running" /\ call[c].id \notin S /\ call'[c].id = call[c].id
    BY <1>3, OrphanedType
  <2>2. call[c].id \in Ids /\ inst[call[c].id] # None
    BY <2>1 DEF TypeOK, Loaded
  <2> QED
    BY <2>1, <2>2 DEF Respawn
<1>5. mixed' \subseteq Ids /\ refused' \subseteq Ids
  BY DEF Respawn, Disturb, TypeOK
<1> QED
  BY <1>1, <1>2, <1>3, <1>4, <1>5, OrphanedType DEF TypeOK

(* Changes of one field.                                                   *)
LEMMA FieldTypes ==
  ASSUME TypeOK, NEW i \in Ids
  PROVE  /\ \A c \in AnyConfig : [worker EXCEPT ![i].config = c] \in [Ids -> WorkerRecords]
         /\ [worker EXCEPT ![i].alive = FALSE] \in [Ids -> WorkerRecords]
         /\ i \in Loaded => inst[i] \in Instances /\ inst[i].enabled \in BOOLEAN
<1>1. worker \in [Ids -> WorkerRecords] /\ worker[i] \in WorkerRecords
  BY DEF TypeOK, WorkerRecords
<1>2. ASSUME NEW c \in AnyConfig
      PROVE  [worker EXCEPT ![i].config = c] \in [Ids -> WorkerRecords]
  <2>1. [worker[i] EXCEPT !.config = c] \in WorkerRecords
    BY <1>1 DEF WorkerRecords
  <2> QED
    BY <1>1, <2>1, UpdateType
<1>3. [worker EXCEPT ![i].alive = FALSE] \in [Ids -> WorkerRecords]
  <2>1. [worker[i] EXCEPT !.alive = FALSE] \in WorkerRecords
    BY <1>1 DEF WorkerRecords
  <2> QED
    BY <1>1, <2>1, UpdateType
<1>4. ASSUME i \in Loaded
      PROVE  inst[i] \in Instances /\ inst[i].enabled \in BOOLEAN
  BY <1>4 DEF TypeOK, Loaded, Instances
<1> QED
  BY <1>2, <1>3, <1>4

(* An instance that changes in one field is still an instance.             *)
LEMMA InstanceChange ==
  ASSUME TypeOK, NEW i \in Loaded, NEW r \in Instances, inst' = [inst EXCEPT ![i] = r]
  PROVE  inst' \in [Ids -> Instances \cup {None}] /\ Loaded' = Loaded
<1>1. inst \in [Ids -> Instances \cup {None}] /\ i \in Ids /\ inst[i] # None
  BY DEF TypeOK, Loaded
<1>2. r # None
  BY ProfileAssumption
<1> QED
  BY <1>1, <1>2 DEF Loaded

(* The sample of a call that ends, and where it goes.                      *)
CalledId(c) == call[c].id
CalledHash(c) == IF call[c].pc = "running" THEN inst[call[c].id].config ELSE call[c].hash

LEMMA FinishSteps ==
  ASSUME TypeOK, NEW c \in Calls, Finish(c)
  PROVE  /\ CalledId(c) \in Ids /\ CalledHash(c) \in AnyConfig
         /\ call' = [call EXCEPT ![c] = NoCall]
         /\ \/ UNCHANGED <<profile, cache>>
            \/ \E m \in SUBSET AnyConfig :
                 /\ \/ m = {} /\ cache' = [cache EXCEPT ![CalledId(c)] = None]
                    \/ \E p \in AnyConfig :
                         /\ m = {p} /\ cache' = [cache EXCEPT ![CalledId(c)] = p]
                         /\ \/ cache[CalledId(c)] = p
                            \/ call[c].pc = "running" /\ worker[CalledId(c)].config = p
                 /\ profile' = [profile EXCEPT ![CalledId(c)][CalledHash(c)] =
                                  Fold(profile[CalledId(c)][CalledHash(c)], m, call[c].ran)]
<1> DEFINE i == CalledId(c)
           h == CalledHash(c)
           running == call[c].pc = "running"
<1>1. i \in Ids /\ call[c].ran \in AnyConfig
  BY DEF TypeOK, Finish, CalledId
<1>2. h \in AnyConfig
  BY <1>1, ProfileAssumption DEF TypeOK, Loaded, Instances, CalledHash
<1>3. Measured(i, running) = {} \/ \E p \in AnyConfig :
        /\ Measured(i, running) = {p}
        /\ cache[i] = p \/ (running /\ worker[i].config = p)
  BY <1>1 DEF TypeOK, Measured
<1>4. \/ UNCHANGED <<profile, cache>>
      \/ \E m \in {Measured(i, running)} \cup (IF cache[i] = None THEN {{}} ELSE {}) :
           /\ profile' = [profile EXCEPT ![i][h] = Fold(profile[i][h], m, call[c].ran)]
           /\ cache' = [cache EXCEPT ![i] = IF m = {} THEN None ELSE CHOOSE q \in m : TRUE]
  BY <1>1 DEF Finish, CalledId, CalledHash
<1>5. ASSUME NEW m \in {Measured(i, running)} \cup (IF cache[i] = None THEN {{}} ELSE {}),
             profile' = [profile EXCEPT ![i][h] = Fold(profile[i][h], m, call[c].ran)],
             cache' = [cache EXCEPT ![i] = IF m = {} THEN None ELSE CHOOSE q \in m : TRUE]
      PROVE  /\ m \in SUBSET AnyConfig
             /\ \/ m = {} /\ cache' = [cache EXCEPT ![i] = None]
                \/ \E p \in AnyConfig :
                     /\ m = {p} /\ cache' = [cache EXCEPT ![i] = p]
                     /\ cache[i] = p \/ (running /\ worker[i].config = p)
  <2>1. m = {} \/ \E p \in AnyConfig : m = {p} /\ (cache[i] = p \/ (running /\ worker[i].config = p))
    BY <1>3
  <2>2. CASE m = {}
    BY <1>5, <2>2
  <2>3. ASSUME NEW p \in AnyConfig, m = {p}, cache[i] = p \/ (running /\ worker[i].config = p)
        PROVE  cache' = [cache EXCEPT ![i] = p]
    <3>1. (CHOOSE q \in m : TRUE) = p
      BY <2>3
    <3> QED
      BY <1>5, <2>3, <3>1
  <2> QED
    BY <2>1, <2>2, <2>3
<1> QED
  <2>1. call' = [call EXCEPT ![c] = NoCall]
    BY DEF Finish
  <2> QED
    BY <1>1, <1>2, <1>4, <1>5, <2>1

LEMMA FinishType ==
  ASSUME TypeOK, NEW c \in Calls, Finish(c)
  PROVE  /\ profile' \in [Ids -> [AnyConfig -> Samples \cup {None}]]
         /\ cache' \in [Ids -> AnyConfig \cup {None}]
<1> DEFINE i == CalledId(c)
           h == CalledHash(c)
<1>1. profile \in [Ids -> [AnyConfig -> Samples \cup {None}]] /\ cache \in [Ids -> AnyConfig \cup {None}]
  BY DEF TypeOK
<1>2. i \in Ids /\ h \in AnyConfig /\ profile[i] \in [AnyConfig -> Samples \cup {None}]
  BY <1>1, FinishSteps
<1> HIDE DEF i, h
<1>3. ASSUME NEW m \in SUBSET AnyConfig,
             profile' = [profile EXCEPT ![i][h] = Fold(profile[i][h], m, call[c].ran)]
      PROVE  profile' \in [Ids -> [AnyConfig -> Samples \cup {None}]]
  <2>1. Fold(profile[i][h], m, call[c].ran) \in Samples
    <3>1. profile[i][h] = None \/ profile[i][h] \in Samples
      BY <1>2
    <3>2. call[c].ran \in AnyConfig
      BY DEF TypeOK
    <3> QED
      BY <3>1, <3>2 DEF Fold, Samples, NoSamples
  <2>2. [profile[i] EXCEPT ![h] = Fold(profile[i][h], m, call[c].ran)]
          \in [AnyConfig -> Samples \cup {None}]
    BY <1>2, <2>1, UpdateType
  <2> QED
    BY <1>1, <1>2, <1>3, <2>2, UpdateType
<1> QED
  BY <1>1, <1>2, <1>3, FinishSteps DEF i, h

LEMMA InitType == Init => TypeOK
BY NoWorkerType, NoCallType, ProfileAssumption
   DEF Init, TypeOK, WorkerRecords, CallRecords, NoCall, Loaded

LEMMA StepType == TypeOK /\ [Next]_vars => TypeOK'
<1> SUFFICES ASSUME TypeOK, [Next]_vars
             PROVE  TypeOK'
  OBVIOUS
<1>0. /\ worker \in [Ids -> WorkerRecords] /\ call \in [Calls -> CallRecords]
      /\ inst \in [Ids -> Instances \cup {None}]
  BY DEF TypeOK, WorkerRecords, CallRecords
<1> USE DEF TypeOK
<1>a. CASE acts' \in 0 .. MaxActs /\ \E i \in Ids, c \in AnyConfig : Load(i, c)
  <2>1. PICK i \in Ids, c \in AnyConfig : Load(i, c)
    BY <1>a
  <2> QED
    BY <1>a, <2>1, InstanceType, StartedType
    DEF Load, Disturb, durable, Loaded, WorkerRecords
<1>b. CASE acts' \in 0 .. MaxActs /\ \E i \in Ids : Unload(i)
  <2>1. PICK i \in Ids : Unload(i)
    BY <1>b
  <2>2. call' = Orphaned({i})
    BY <2>1 DEF Unload
  <2>3. inst' \in [Ids -> Instances \cup {None}] /\ worker' \in [Ids -> WorkerRecords]
    BY <1>0, <2>1, NoWorkerType, UpdateType DEF Unload
  <2>4. \A c \in Calls : call'[c].pc = "running" => call'[c].id \in Loaded'
    <3> SUFFICES ASSUME NEW c \in Calls, call'[c].pc = "running"
                 PROVE  call'[c].id \in Ids /\ inst'[call'[c].id] # None
      BY DEF Loaded
    <3>1. call[c].pc = "running" /\ call[c].id \notin {i} /\ call'[c].id = call[c].id
      BY <2>2, OrphanedType
    <3> QED
      BY <2>1, <3>1 DEF Unload, Loaded
  <2>5. /\ call' \in [Calls -> CallRecords]
        /\ \A c \in Calls : call'[c].pc # "idle" => call'[c].id \in Ids
    <3>1. {i} \in SUBSET Ids
      OBVIOUS
    <3>2. /\ call' \in [Calls -> CallRecords]
          /\ \A c \in Calls : call'[c].id = call[c].id /\ (call'[c].pc = "idle" <=> call[c].pc = "idle")
      <4> HIDE DEF TypeOK
      <4> QED
        BY <2>2, <3>1, OrphanedType, Zenon
    <3> QED
      BY <3>2
  <2>6. UNCHANGED <<store, secret, profile, saved, override, cache, mixed, refused>>
    BY <2>1 DEF Unload, durable, ghosts
  <2> QED
    BY <1>b, <2>3, <2>4, <2>5, <2>6 DEF WorkerRecords, CallRecords
<1>c. CASE acts' \in 0 .. MaxActs /\ \E i \in Ids, c \in AnyConfig : Reload(i, c)
  <2>1. PICK i \in Ids, c \in AnyConfig : Reload(i, c)
    BY <1>c
  <2>2. PICK lost \in SUBSET {i} :
          Respawn({i}, [k \in {i} |-> IF c = Empty THEN worker[k].config ELSE c], lost, secret)
    BY <2>1 DEF Reload
  <2>3. [k \in {i} |-> IF c = Empty THEN worker[k].config ELSE c][i] \in AnyConfig
    OBVIOUS
  <2>4. {i} \subseteq Loaded
    BY <2>1 DEF Reload
  <2> QED
    BY <1>c, <2>1, <2>2, <2>3, <2>4, RespawnType
    DEF Reload, durable, Loaded, WorkerRecords, CallRecords
<1>d. CASE acts' \in 0 .. MaxActs /\ \E i \in Ids, on \in BOOLEAN : SetEnabled(i, on)
  <2>1. PICK i \in Ids, on \in BOOLEAN : SetEnabled(i, on)
    BY <1>d
  <2>2. inst' \in [Ids -> Instances \cup {None}] /\ Loaded' = Loaded
    <3>1. i \in Loaded /\ inst' = [inst EXCEPT ![i].enabled = on]
      BY <2>1 DEF SetEnabled
    <3>2. [inst[i] EXCEPT !.enabled = on] \in Instances
      BY <3>1, FieldTypes DEF Instances
    <3> QED
      BY <3>1, <3>2, InstanceChange
  <2>3. store' \in [Ids -> Rows \cup {None}] /\ saved' \in [Ids -> BOOLEAN \cup {None}]
    <3>1. (IF worker[i].alive THEN worker[i].config ELSE inst[i].config) \in AnyConfig
      BY <2>1, FieldTypes DEF SetEnabled, Instances
    <3> QED
      BY <2>1, <3>1, PersistType, StoredEnvType DEF SetEnabled
  <2> QED
    BY <1>d, <2>1, <2>2, <2>3 DEF SetEnabled, ghosts
<1>e. CASE acts' \in 0 .. MaxActs /\ \E i \in Ids, e \in AnyEnv : SetEnv(i, e)
  <2>1. PICK i \in Ids, e \in AnyEnv : SetEnv(i, e)
    BY <1>e
  <2>2. store' \in [Ids -> Rows \cup {None}]
    <3> DEFINE r == IF store[i] = None THEN Record(Empty, TRUE, e)
                    ELSE Record(store[i].config, store[i].enabled, e)
    <3>1. r \in Rows
      <4>1. CASE store[i] = None
        BY <4>1 DEF Record, Rows, AnyConfig
      <4>2. CASE store[i] # None
        <5>1. store[i] \in Rows
          BY <4>2
        <5> QED
          BY <4>2, <5>1 DEF Record, Rows
      <4> QED
        BY <4>1, <4>2
    <3> HIDE DEF r
    <3>2. store' = [store EXCEPT ![i] = r] \/ store' = store
      BY <2>1 DEF SetEnv, Put, r
    <3> QED
      BY <3>1, <3>2
  <2>3. override' \in [Ids -> AnyEnv \cup {None}]
    BY <2>1 DEF SetEnv
  <2> QED
    BY <1>e, <2>1, <2>2, <2>3 DEF SetEnv, ghosts, Loaded
<1>f. CASE acts' \in 0 .. MaxActs /\ \E s \in Secrets, r \in BOOLEAN : SetSecret(s, r)
  <2>1. PICK s \in Secrets, r \in BOOLEAN : SetSecret(s, r)
    BY <1>f
  <2>2. CASE ~r
    BY <1>f, <2>1, <2>2 DEF SetSecret, StoreSecret, ghosts, Loaded
  <2>3. CASE r
    <3> DEFINE S == {i \in Loaded : worker[i].alive}
               asked == [i \in S |-> worker[i].config]
    <3>1. PICK lost \in SUBSET S : Respawn(S, asked, lost, s)
      BY <2>1, <2>3 DEF SetSecret
    <3>2. S \in SUBSET Ids /\ S \subseteq Loaded /\ \A i \in S : asked[i] \in AnyConfig
      BY DEF Loaded
    <3>3. /\ inst' \in [Ids -> Instances \cup {None}]
          /\ worker' \in [Ids -> WorkerRecords]
          /\ call' \in [Calls -> CallRecords]
          /\ \A c \in Calls : call'[c].pc # "idle" => call'[c].id \in Ids
          /\ \A c \in Calls : call'[c].pc = "running" => inst'[call'[c].id] # None
          /\ mixed' \subseteq Ids /\ refused' \subseteq Ids
      <4> HIDE DEF S, asked
      <4> QED
        BY <3>1, <3>2, RespawnType
    <3> QED
      BY <1>f, <2>1, <3>3 DEF SetSecret, StoreSecret, Loaded, WorkerRecords, CallRecords
  <2> QED
    BY <2>2, <2>3
<1>g. CASE acts' \in 0 .. MaxActs /\ \E i \in Ids, c \in Configs : Update(i, c)
  <2>1. PICK i \in Ids, c \in Configs : Update(i, c)
    BY <1>g
  <2>2. store' \in [Ids -> Rows \cup {None}] /\ saved' \in [Ids -> BOOLEAN \cup {None}]
    <3>1. inst[i] \in Instances /\ c \in AnyConfig
      BY <2>1 DEF Update, Loaded, AnyConfig
    <3>2. inst[i].enabled \in BOOLEAN
      BY <3>1 DEF Instances
    <3> QED
      BY <2>1, <3>1, <3>2, PersistType, StoredEnvType DEF Update
  <2>3. /\ inst' \in [Ids -> Instances \cup {None}] /\ Loaded' = Loaded
        /\ worker' \in [Ids -> WorkerRecords]
    <3>1. /\ i \in Loaded /\ c \in AnyConfig
          /\ worker' = [worker EXCEPT ![i].config = c] /\ inst' = [inst EXCEPT ![i].config = c]
      BY <2>1 DEF Update, AnyConfig
    <3>2. worker' \in [Ids -> WorkerRecords]
      BY <3>1, FieldTypes, Zenon
    <3>3. [inst[i] EXCEPT !.config = c] \in Instances
      BY <3>1, FieldTypes DEF Instances
    <3> QED
      BY <3>1, <3>2, <3>3, InstanceChange
  <2> QED
    BY <1>g, <2>1, <2>2, <2>3 DEF Update, Disturb, WorkerRecords
<1>h. CASE acts' \in 0 .. MaxActs /\ \E i \in Ids, c \in Configs : UpdateFails(i, c)
  <2>1. PICK i \in Ids, c \in Configs : UpdateFails(i, c)
    BY <1>h
  <2>2. /\ inst' \in [Ids -> Instances \cup {None}] /\ Loaded' = Loaded
        /\ worker' \in [Ids -> WorkerRecords]
    <3>1. i \in Loaded /\ c \in AnyConfig /\ worker' = [worker EXCEPT ![i].config = c]
      BY <2>1 DEF UpdateFails, AnyConfig
    <3>2. inst' = inst \/ inst' = [inst EXCEPT ![i].config = c]
      BY <2>1 DEF UpdateFails
    <3>3. CASE inst' = inst
      BY <1>0, <3>1, <3>3, FieldTypes, Zenon DEF Loaded
    <3>4. CASE inst' = [inst EXCEPT ![i].config = c]
      <4>1. worker' \in [Ids -> WorkerRecords]
        BY <3>1, FieldTypes, Zenon
      <4>2. [inst[i] EXCEPT !.config = c] \in Instances
        BY <3>1, FieldTypes DEF Instances
      <4> QED
        BY <3>1, <3>4, <4>1, <4>2, InstanceChange
    <3> QED
      BY <3>2, <3>3, <3>4
  <2> QED
    BY <1>h, <2>1, <2>2 DEF UpdateFails, Disturb, durable, WorkerRecords
<1>i. CASE acts' \in 0 .. MaxActs /\ \E i \in Ids, h \in AnyConfig : DeleteRecord(i, h)
  <2>1. PICK i \in Ids, h \in AnyConfig : DeleteRecord(i, h)
    BY <1>i
  <2> QED
    BY <1>i, <2>1 DEF DeleteRecord, ghosts, Loaded
<1>j. CASE acts' \in 0 .. MaxActs /\ Restart
  BY <1>j, NoWorkerType, NoCallType
  DEF Restart, durable, ghosts, WorkerRecords, CallRecords, NoCall, Loaded
<1>k. CASE acts' = acts /\ \E c \in Calls, i \in Ids : Begin(c, i)
  <2>1. PICK c \in Calls, i \in Ids : Begin(c, i)
    BY <1>k
  <2>2. call' \in [Calls -> CallRecords]
    BY <1>0, <2>1 DEF Begin, CallRecords, AnyConfig
  <2> QED
    BY <1>k, <2>1, <2>2 DEF Begin, durable, ghosts, Loaded, CallRecords
<1>l. CASE acts' = acts /\ \E c \in Calls : Finish(c)
  <2>1. PICK c \in Calls : Finish(c)
    BY <1>l
  <2>2. profile' \in [Ids -> [AnyConfig -> Samples \cup {None}]]
        /\ cache' \in [Ids -> AnyConfig \cup {None}]
    BY <2>1, FinishType
  <2>3. call' \in [Calls -> CallRecords]
    BY <1>0, <2>1, NoCallType DEF Finish
  <2> QED
    BY <1>l, <2>1, <2>2, <2>3 DEF Finish, ghosts, Loaded, CallRecords, NoCall
<1>m. CASE acts' = acts /\ \E i \in Ids : WorkerDies(i)
  <2>1. PICK i \in Ids : WorkerDies(i)
    BY <1>m
  <2> QED
    BY <1>m, <2>1, FieldTypes DEF WorkerDies, durable, ghosts, Loaded, WorkerRecords
<1>n. CASE acts' = acts /\ \E i \in Ids : Expire(i)
  BY <1>n DEF Expire, durable, ghosts, Loaded
<1>o. CASE UNCHANGED vars
  BY <1>o DEF vars, durable, ghosts, Loaded
<1>p. Operator => acts' \in 0 .. MaxActs
  BY ProfileAssumption DEF Operator
<1> QED
  BY <1>a, <1>b, <1>c, <1>d, <1>e, <1>f, <1>g, <1>h, <1>i, <1>j, <1>k, <1>l, <1>m, <1>n,
     <1>o, <1>p
  DEF Next, Operator, AnyConfig

(* Every variable keeps its type, and a call that runs has an instance     *)
(* (load_capability, unload_capability, execute_capability).               *)
THEOREM TypeCorrect == Spec => []TypeOK
BY InitType, StepType, PTL DEF Spec

-----------------------------------------------------------------------------
(* What operators had saved.                                               *)

(* The store, and the instance, have the enabled flag last saved.          *)
SavedIsStored ==
  \A i \in Ids : saved[i] # None =>
    /\ store[i] # None /\ store[i].enabled = saved[i]
    /\ i \in Loaded => inst[i].enabled = saved[i]

Kept == SavedIsStored /\ OverrideKept

LEMMA RestoredIsSaved ==
  ASSUME TypeOK, SavedIsStored, NEW i \in Ids, saved[i] # None
  PROVE  Restored(i) = saved[i]
<1>1. saved[i] \in BOOLEAN
  BY DEF TypeOK
<1>2. store[i] # None /\ store[i].enabled = saved[i]
  BY DEF SavedIsStored
<1> QED
  BY <1>1, <1>2 DEF Restored

LEMMA PersistKeeps ==
  ASSUME TypeOK, Kept, NEW i \in Ids, NEW config \in AnyConfig, NEW enabled \in BOOLEAN,
         Persist(i, config, enabled, StoredEnv(i)), override' = override
  PROVE  /\ OverrideKept'
         /\ \A k \in Ids : saved'[k] # None =>
              /\ store'[k] # None /\ store'[k].enabled = saved'[k]
              /\ k = i => saved'[k] = enabled
              /\ k # i => saved'[k] = saved[k]
<1> DEFINE r == Record(config, enabled, StoredEnv(i))
<1>1. r \in Rows /\ r # None /\ r.env = StoredEnv(i) /\ r.enabled = enabled
  BY StoredEnvType, ProfileAssumption DEF Record, Rows
<1>2. store \in [Ids -> Rows \cup {None}] /\ saved \in [Ids -> BOOLEAN \cup {None}]
  BY DEF TypeOK
<1> HIDE DEF r
<1>3. \/ store' = [store EXCEPT ![i] = r] /\ saved' = [saved EXCEPT ![i] = enabled]
      \/ store' = store /\ saved' = [saved EXCEPT ![i] = None]
  BY DEF Persist, Put, r
<1>4. OverrideKept'
  BY <1>1, <1>2, <1>3 DEF Kept, OverrideKept, StoredEnv
<1>5. ASSUME NEW k \in Ids, saved'[k] # None
      PROVE  /\ store'[k] # None /\ store'[k].enabled = saved'[k]
             /\ k = i => saved'[k] = enabled
             /\ k # i => saved'[k] = saved[k]
  <2>1. CASE k = i
    <3>1. store' = [store EXCEPT ![i] = r] /\ saved' = [saved EXCEPT ![i] = enabled]
      BY <1>2, <1>3, <1>5, <2>1, Zenon
    <3>2. store'[k] = r /\ saved'[k] = enabled
      BY <1>2, <2>1, <3>1, Zenon
    <3> QED
      BY <1>1, <2>1, <3>2, Zenon
  <2>2. CASE k # i
    <3>1. store'[k] = store[k] /\ saved'[k] = saved[k]
      BY <1>2, <1>3, <2>2, Zenon
    <3> QED
      BY <1>5, <2>2, <3>1, Zenon DEF Kept, SavedIsStored
  <2> QED
    BY <2>1, <2>2
<1> QED
  BY <1>4, <1>5

LEMMA RespawnKeeps ==
  ASSUME TypeOK, SavedIsStored, NEW S \in SUBSET Ids, NEW lost \in SUBSET S,
         NEW asked, NEW s, Respawn(S, asked, lost, s), UNCHANGED <<store, saved>>
  PROVE  SavedIsStored'
<1> SUFFICES ASSUME NEW i \in Ids, saved[i] # None
             PROVE  /\ store[i] # None /\ store[i].enabled = saved[i]
                    /\ inst'[i] # None => inst'[i].enabled = saved[i]
  BY Zenon DEF SavedIsStored, Loaded
<1>1. store[i] # None /\ store[i].enabled = saved[i]
  BY DEF SavedIsStored
<1>2. CASE i \in lost
  <2>1. inst'[i] = None
    BY <1>2 DEF Respawn
  <2> QED
    BY <1>1, <2>1, Zenon
<1>3. CASE i \in S \ lost
  <2>1. inst'[i] = Instance(i, asked[i])
    BY <1>3 DEF Respawn
  <2>2. Instance(i, asked[i]).enabled = Restored(i)
    BY DEF Instance
  <2> QED
    BY <1>1, <2>1, <2>2, RestoredIsSaved, Zenon
<1>4. CASE i \notin S
  <2>1. inst'[i] = inst[i]
    BY <1>4 DEF Respawn
  <2> QED
    BY <1>1, <2>1, Zenon DEF SavedIsStored, Loaded
<1> QED
  BY <1>2, <1>3, <1>4

(* Every step leaves saved flags and overrides where they can be restored. *)
LEMMA StepKeeps == TypeOK /\ Kept /\ [Next]_vars => Kept'
<1> SUFFICES ASSUME TypeOK, Kept, [Next]_vars
             PROVE  Kept'
  OBVIOUS
<1>0. SavedIsStored /\ OverrideKept
  BY DEF Kept
<1>1. ASSUME UNCHANGED <<store, saved, override>>, SavedIsStored'
      PROVE  Kept'
  BY <1>0, <1>1, Zenon DEF Kept, OverrideKept
<1>2. ASSUME NEW i \in Ids, NEW asked \in AnyConfig, Load(i, asked)
      PROVE  Kept'
  <2> SUFFICES ASSUME NEW k \in Ids, saved[k] # None
               PROVE  /\ store[k] # None /\ store[k].enabled = saved[k]
                      /\ inst'[k] # None => inst'[k].enabled = saved[k]
    BY <1>1, <1>2, Zenon DEF Load, durable, SavedIsStored, Loaded
  <2>1. /\ store[k] # None /\ store[k].enabled = saved[k]
        /\ inst[k] # None => inst[k].enabled = saved[k]
    BY <1>0, Zenon DEF SavedIsStored, Loaded
  <2>2. inst'[k] = IF k = i THEN Instance(i, asked) ELSE inst[k]
    BY <1>2 DEF Load, TypeOK
  <2>3. Instance(i, asked).enabled = Restored(i)
    BY DEF Instance
  <2>4. CASE k = i
    BY <1>0, <2>1, <2>2, <2>3, <2>4, RestoredIsSaved, Zenon
  <2>5. CASE k # i
    BY <2>1, <2>2, <2>5, Zenon
  <2> QED
    BY <2>4, <2>5
<1>3. ASSUME NEW i \in Ids, Unload(i)
      PROVE  Kept'
  <2>1. \A k \in Ids : inst'[k] # None => inst'[k] = inst[k]
    BY <1>3 DEF Unload, TypeOK
  <2> QED
    BY <1>0, <1>1, <1>3, <2>1, Zenon DEF Unload, durable, SavedIsStored, Loaded
<1>4. ASSUME NEW i \in Ids, NEW c \in AnyConfig, Reload(i, c)
      PROVE  Kept'
  <2>1. PICK lost \in SUBSET {i} :
          Respawn({i}, [k \in {i} |-> IF c = Empty THEN worker[k].config ELSE c], lost, secret)
    BY <1>4 DEF Reload
  <2>2. UNCHANGED <<store, saved, override>>
    BY <1>4 DEF Reload, durable
  <2>3. {i} \in SUBSET Ids
    OBVIOUS
  <2> QED
    BY <1>0, <1>1, <2>1, <2>2, <2>3, RespawnKeeps
<1>5. ASSUME NEW i \in Ids, NEW on \in BOOLEAN, SetEnabled(i, on)
      PROVE  Kept'
  <2>1. (IF worker[i].alive THEN worker[i].config ELSE inst[i].config) \in AnyConfig
    BY <1>5, FieldTypes DEF SetEnabled, Instances, TypeOK
  <2>2. /\ OverrideKept'
        /\ \A k \in Ids : saved'[k] # None =>
             /\ store'[k] # None /\ store'[k].enabled = saved'[k]
             /\ k = i => saved'[k] = on
             /\ k # i => saved'[k] = saved[k]
    BY <1>5, <2>1, PersistKeeps DEF SetEnabled
  <2>3. /\ inst'[i].enabled = on
        /\ \A k \in Ids \ {i} : inst'[k] = inst[k]
    BY <1>5, FieldTypes DEF SetEnabled, TypeOK, Instances
  <2> SUFFICES ASSUME NEW k \in Ids, saved'[k] # None, inst'[k] # None
               PROVE  inst'[k].enabled = saved'[k]
    BY <2>2, Zenon DEF Kept, SavedIsStored, Loaded
  <2>4. CASE k = i
    BY <2>2, <2>3, <2>4, Zenon
  <2>5. CASE k # i
    <3>1. saved'[k] = saved[k] /\ inst'[k] = inst[k]
      BY <2>2, <2>3, <2>5
    <3> QED
      BY <1>0, <3>1, Zenon DEF SavedIsStored, Loaded
  <2> QED
    BY <2>4, <2>5
<1>6. ASSUME NEW i \in Ids, NEW c \in Configs, Update(i, c)
      PROVE  Kept'
  <2>1. inst[i].enabled \in BOOLEAN /\ inst[i] \in Instances /\ c \in AnyConfig
    BY <1>6, FieldTypes DEF Update, AnyConfig
  <2>2. /\ OverrideKept'
        /\ \A k \in Ids : saved'[k] # None =>
             /\ store'[k] # None /\ store'[k].enabled = saved'[k]
             /\ k = i => saved'[k] = inst[i].enabled
             /\ k # i => saved'[k] = saved[k]
    BY <1>6, <2>1, PersistKeeps DEF Update
  <2>3. /\ inst'[i].enabled = inst[i].enabled
        /\ \A k \in Ids \ {i} : inst'[k] = inst[k]
    BY <1>6, <2>1 DEF Update, TypeOK, Instances
  <2> SUFFICES ASSUME NEW k \in Ids, saved'[k] # None, inst'[k] # None
               PROVE  inst'[k].enabled = saved'[k]
    BY <2>2, Zenon DEF Kept, SavedIsStored, Loaded
  <2>4. CASE k = i
    BY <2>2, <2>3, <2>4, Zenon
  <2>5. CASE k # i
    <3>1. saved'[k] = saved[k] /\ inst'[k] = inst[k]
      BY <2>2, <2>3, <2>5
    <3> QED
      BY <1>0, <3>1, Zenon DEF SavedIsStored, Loaded
  <2> QED
    BY <2>4, <2>5
<1>7. ASSUME NEW i \in Ids, NEW c \in Configs, UpdateFails(i, c)
      PROVE  Kept'
  <2>1. UNCHANGED <<store, saved, override>>
    BY <1>7 DEF UpdateFails, durable
  <2>2. inst[i] \in Instances /\ i \in Loaded
    BY <1>7, FieldTypes DEF UpdateFails
  <2>3. \A k \in Ids : inst'[k] # None => inst[k] # None /\ inst'[k].enabled = inst[k].enabled
    <3>1. inst' = inst \/ inst' = [inst EXCEPT ![i].config = c]
      BY <1>7 DEF UpdateFails
    <3>2. inst \in [Ids -> Instances \cup {None}] /\ inst[i] # None
      BY <2>2 DEF TypeOK, Loaded
    <3>3. [inst[i] EXCEPT !.config = c].enabled = inst[i].enabled
      BY <2>2 DEF Instances
    <3>4. CASE inst' = inst
      BY <3>4
    <3>5. CASE inst' = [inst EXCEPT ![i].config = c]
      BY <3>2, <3>3, <3>5
    <3> QED
      BY <3>1, <3>4, <3>5
  <2> QED
    BY <1>0, <1>1, <2>1, <2>3, Zenon DEF SavedIsStored, Loaded
<1>8. ASSUME NEW i \in Ids, NEW e \in AnyEnv, SetEnv(i, e)
      PROVE  Kept'
  <2> DEFINE r == IF store[i] = None THEN Record(Empty, TRUE, e)
                  ELSE Record(store[i].config, store[i].enabled, e)
  <2>1. /\ r # None /\ r.env = e
        /\ store[i] # None => r.enabled = store[i].enabled
    <3>1. CASE store[i] = None
      <4>1. r = Record(Empty, TRUE, e)
        BY <3>1
      <4>2. r \in Rows
        BY <4>1 DEF Record, Rows, AnyConfig
      <4> QED
        BY <3>1, <4>1, <4>2, ProfileAssumption DEF Record
    <3>2. CASE store[i] # None
      <4>1. r = Record(store[i].config, store[i].enabled, e)
        BY <3>2
      <4>2. store[i] \in Rows
        BY <3>2 DEF TypeOK
      <4>3. r \in Rows
        BY <4>1, <4>2 DEF Record, Rows
      <4>4. r.env = e /\ r.enabled = store[i].enabled
        BY <4>1 DEF Record
      <4> QED
        BY <4>3, <4>4, ProfileAssumption
    <3> QED
      BY <3>1, <3>2
  <2>2. UNCHANGED <<inst, saved>>
    BY <1>8 DEF SetEnv
  <2>3. \/ store' = [store EXCEPT ![i] = r] /\ override' = [override EXCEPT ![i] = e]
        \/ UNCHANGED <<store, override>>
    BY <1>8 DEF SetEnv, Put
  <2> HIDE DEF r
  <2>4. CASE UNCHANGED <<store, override>>
    BY <1>0, <2>2, <2>4, Zenon DEF Kept, SavedIsStored, OverrideKept, Loaded
  <2>5. CASE store' = [store EXCEPT ![i] = r] /\ override' = [override EXCEPT ![i] = e]
    <3>1. /\ store'[i] = r /\ override'[i] = e
          /\ \A k \in Ids \ {i} : store'[k] = store[k] /\ override'[k] = override[k]
      BY <2>5 DEF TypeOK
    <3>2. OverrideKept'
      <4> SUFFICES ASSUME NEW k \in Ids, override'[k] # None
                   PROVE  store'[k] # None /\ store'[k].env = override'[k]
        BY DEF OverrideKept
      <4>1. CASE k = i
        BY <2>1, <3>1, <4>1, Zenon
      <4>2. CASE k # i
        <5>1. store'[k] = store[k] /\ override'[k] = override[k]
          BY <3>1, <4>2
        <5> QED
          BY <1>0, <5>1, Zenon DEF OverrideKept
      <4> QED
        BY <4>1, <4>2
    <3>3. SavedIsStored'
      <4> SUFFICES ASSUME NEW k \in Ids, saved[k] # None
                   PROVE  /\ store'[k] # None /\ store'[k].enabled = saved[k]
                          /\ inst[k] # None => inst[k].enabled = saved[k]
        BY <2>2, Zenon DEF SavedIsStored, Loaded
      <4>1. /\ store[k] # None /\ store[k].enabled = saved[k]
            /\ inst[k] # None => inst[k].enabled = saved[k]
        BY <1>0, Zenon DEF SavedIsStored, Loaded
      <4>2. CASE k = i
        <5>1. store[i] # None /\ store[i].enabled = saved[i]
          BY <4>1, <4>2, Zenon
        <5>2. store'[i] # None /\ store'[i].enabled = saved[i]
          BY <2>1, <3>1, <5>1, Zenon
        <5> QED
          BY <4>1, <4>2, <5>2, Zenon
      <4>3. CASE k # i
        <5>1. store'[k] = store[k]
          BY <3>1, <4>3
        <5> QED
          BY <4>1, <5>1, Zenon
      <4> QED
        BY <4>2, <4>3
    <3> QED
      BY <3>2, <3>3 DEF Kept
  <2> QED
    BY <2>3, <2>4, <2>5
<1>9. ASSUME NEW s \in Secrets, NEW r \in BOOLEAN, SetSecret(s, r)
      PROVE  Kept'
  <2>1. UNCHANGED <<store, saved, override>>
    BY <1>9 DEF SetSecret
  <2>2. CASE ~r
    BY <1>0, <1>1, <1>9, <2>1, <2>2, Zenon DEF SetSecret, SavedIsStored, Loaded
  <2>3. CASE r
    <3> DEFINE S == {i \in Loaded : worker[i].alive}
               asked == [i \in S |-> worker[i].config]
    <3>1. PICK lost \in SUBSET S : Respawn(S, asked, lost, s)
      BY <1>9, <2>3 DEF SetSecret
    <3>2. S \in SUBSET Ids
      BY DEF Loaded
    <3> HIDE DEF S, asked
    <3> QED
      BY <1>0, <1>1, <2>1, <3>1, <3>2, RespawnKeeps
  <2> QED
    BY <2>2, <2>3
<1>10. ASSUME Restart
       PROVE  Kept'
  <2>1. \A k \in Ids : inst'[k] = None
    BY <1>10 DEF Restart
  <2> QED
    BY <1>0, <1>1, <1>10, <2>1, Zenon DEF Restart, durable, SavedIsStored, Loaded
<1>11. ASSUME UNCHANGED <<inst, store, saved, override>>
       PROVE  Kept'
  BY <1>0, <1>1, <1>11, Zenon DEF SavedIsStored, Loaded
<1>12. ASSUME \/ \E c \in Calls : Finish(c) \/ \E i \in Ids : Begin(c, i)
              \/ \E i \in Ids : WorkerDies(i) \/ Expire(i)
              \/ \E i \in Ids, h \in AnyConfig : DeleteRecord(i, h)
              \/ UNCHANGED vars
       PROVE  Kept'
  <2>1. UNCHANGED <<inst, store, saved, override>>
    BY <1>12 DEF Finish, Begin, WorkerDies, Expire, DeleteRecord, durable, vars
  <2> QED
    BY <1>11, <2>1
<1> QED
  BY <1>2, <1>3, <1>4, <1>5, <1>6, <1>7, <1>8, <1>9, <1>10, <1>12 DEF Next, Operator

LEMMA InitKeeps == Init => Kept
BY DEF Init, Kept, SavedIsStored, OverrideKept

LEMMA AlwaysKept == Spec => []Kept
<1>1. Init => Kept
  BY InitKeeps
<1>2. TypeOK /\ Kept /\ [Next]_vars => Kept'
  BY StepKeeps
<1> QED
  BY <1>1, <1>2, TypeCorrect, PTL DEF Spec

(* An instance that comes back is enabled or disabled as it was last saved *)
(* (_persist_config, _restore_enabled_state).                              *)
THEOREM EnabledIsRestored == Spec => []EnabledRestored
<1>1. Kept => EnabledRestored
  BY Zenon DEF Kept, SavedIsStored, EnabledRestored, Loaded
<1> QED
  BY <1>1, AlwaysKept, PTL

(* An override is in the store until another replaces it                   *)
(* (set_worker_env_override, _persist_config).                             *)
THEOREM OverridesKept == Spec => []OverrideKept
<1>1. Kept => OverrideKept
  BY DEF Kept
<1> QED
  BY <1>1, AlwaysKept, PTL

-----------------------------------------------------------------------------
(* What profiles are of.                                                   *)

(* All there is of instance i, and all that is still to be filed for it,   *)
(* is of configuration g.                                                  *)
Of(i, g) ==
  /\ \A c \in Calls : call[c].pc # "idle" /\ call[c].id = i => call[c].ran = g
  /\ \A c \in Calls : call[c].pc = "orphan" /\ call[c].id = i => call[c].hash = g
  /\ cache[i] # None => cache[i] = g
  /\ inst[i] # None => inst[i].config = g /\ worker[i].config = g

(* The profile of i, and that no two sources of samples disagree.          *)
Pure(i) ==
  /\ \E g \in AnyConfig : Of(i, g)
  /\ \A h \in AnyConfig :
       profile[i][h] # None => profile[i][h].peaks \cup profile[i][h].runs \subseteq {h}

AllPure == \A i \in Ids \ (mixed \cup refused) : Pure(i)

(* Nothing that matters to i changed.                                      *)
LEMMA SameIsPure ==
  ASSUME NEW i \in Ids, Pure(i), UNCHANGED <<call, cache, profile>>,
         inst'[i] # None =>
           /\ inst[i] # None /\ inst'[i].config = inst[i].config
           /\ worker'[i].config = worker[i].config
  PROVE  Pure(i)'
<1>1. PICK g \in AnyConfig : Of(i, g)
  BY DEF Pure
<1>2. Of(i, g)'
  BY <1>1, Zenon DEF Of
<1> QED
  BY <1>2, Zenon DEF Pure

(* An instance goes on with configuration new, undisturbed.                *)
LEMMA Resumes ==
  ASSUME TypeOK, NEW i \in Ids, NEW g \in AnyConfig, Of(i, g), NEW new,
         Sources(i) \subseteq {new}
  PROVE  /\ \A c \in Calls : call[c].pc # "idle" /\ call[c].id = i => call[c].ran = new
         /\ \A c \in Calls : call[c].pc = "orphan" /\ call[c].id = i => call[c].hash = new
         /\ cache[i] # None => cache[i] = new
         /\ \A c \in Calls : call[c].pc = "running" /\ call[c].id = i => inst[i].config = new
<1>1. ASSUME NEW c \in Calls, call[c].pc = "orphan", call[c].id = i
      PROVE  call[c].hash = new /\ call[c].ran = new
  <2>1. call[c].hash \in Sources(i)
    BY <1>1 DEF Sources
  <2>2. call[c].hash = new
    BY <2>1
  <2> QED
    BY <1>1, <2>2, Zenon DEF Of
<1>2. ASSUME NEW c \in Calls, call[c].pc = "running", call[c].id = i
      PROVE  inst[i].config = new /\ call[c].ran = new
  <2>1. c \in Live(i)
    BY <1>2 DEF Live
  <2>2. inst[i].config \in Sources(i)
    BY <2>1 DEF Sources
  <2>3. inst[i].config = new
    BY <2>2
  <2>4. inst[i] # None
    BY <1>2 DEF TypeOK, Loaded
  <2> QED
    BY <1>2, <2>3, <2>4, Zenon DEF Of
<1>3. ASSUME cache[i] # None
      PROVE  cache[i] = new
  <2>1. cache[i] \in Sources(i)
    BY <1>3 DEF Sources
  <2> QED
    BY <2>1
<1>4. \A c \in Calls : call[c].pc \in {"idle", "running", "orphan"}
  BY DEF TypeOK
<1> QED
  BY <1>1, <1>2, <1>3, <1>4

(* Loaded, or updated: it has configuration new, and so has its worker.    *)
LEMMA ResumedIsPure ==
  ASSUME TypeOK, NEW i \in Ids, Pure(i), NEW new \in AnyConfig, Sources(i) \subseteq {new},
         UNCHANGED <<call, cache, profile>>,
         inst'[i].config = new /\ worker'[i].config = new
  PROVE  Pure(i)'
<1>1. PICK g \in AnyConfig : Of(i, g)
  BY DEF Pure
<1>2. Of(i, new)'
  BY <1>1, Resumes DEF Of
<1> QED
  BY <1>2, Zenon DEF Pure

(* Started again, or gone.                                                 *)
LEMMA OrphanedIsPure ==
  ASSUME TypeOK, NEW i \in Ids, Pure(i), NEW S \in SUBSET Ids, i \in S,
         call' = Orphaned(S), UNCHANGED <<cache, profile>>,
         \/ inst'[i] = None
         \/ \E new \in AnyConfig :
              /\ Sources(i) \subseteq {new}
              /\ inst'[i].config = new /\ worker'[i].config = new
  PROVE  Pure(i)'
<1>1. PICK g \in AnyConfig : Of(i, g)
  BY DEF Pure
<1>2. \A c \in Calls :
        /\ call'[c].id = call[c].id /\ call'[c].ran = call[c].ran
        /\ call'[c].pc = "idle" <=> call[c].pc = "idle"
        /\ call'[c].hash = IF call[c].pc = "running" /\ call[c].id \in S
                           THEN inst[call[c].id].config ELSE call[c].hash
  BY OrphanedType, Zenon
<1>3. \A c \in Calls : call[c].pc = "running" /\ call[c].id = i => inst[i] # None
  BY DEF TypeOK, Loaded
<1>4. \A c \in Calls : call[c].pc \in {"idle", "running", "orphan"}
  BY DEF TypeOK
<1>5. CASE inst'[i] = None
  <2>1. Of(i, g)'
    <3>1. \A c \in Calls : call'[c].pc # "idle" /\ call'[c].id = i => call'[c].ran = g
      BY <1>1, <1>2 DEF Of
    <3>2. ASSUME NEW c \in Calls, call'[c].pc = "orphan", call'[c].id = i
          PROVE  call'[c].hash = g
      BY <1>1, <1>2, <1>3, <1>4, <3>2 DEF Of
    <3> QED
      BY <1>1, <1>5, <3>1, <3>2 DEF Of
  <2> QED
    BY <2>1, Zenon DEF Pure
<1>6. ASSUME NEW new \in AnyConfig, Sources(i) \subseteq {new},
             inst'[i].config = new, worker'[i].config = new
      PROVE  Pure(i)'
  <2>1. /\ \A c \in Calls : call[c].pc # "idle" /\ call[c].id = i => call[c].ran = new
        /\ \A c \in Calls : call[c].pc = "orphan" /\ call[c].id = i => call[c].hash = new
        /\ cache[i] # None => cache[i] = new
        /\ \A c \in Calls : call[c].pc = "running" /\ call[c].id = i => inst[i].config = new
    BY <1>1, <1>6, Resumes
  <2>2. \A c \in Calls : call'[c].pc # "idle" /\ call'[c].id = i => call'[c].ran = new
    BY <1>2, <2>1
  <2>3. ASSUME NEW c \in Calls, call'[c].pc = "orphan", call'[c].id = i
        PROVE  call'[c].hash = new
    BY <1>2, <1>4, <2>1, <2>3
  <2>4. Of(i, new)'
    BY <1>6, <2>1, <2>2, <2>3 DEF Of
  <2> QED
    BY <2>4, Zenon DEF Pure
<1> QED
  BY <1>5, <1>6

(* Calls of other instances change nothing for i.                          *)
LEMMA OthersArePure ==
  ASSUME TypeOK, NEW i \in Ids, Pure(i), NEW S \in SUBSET Ids, i \notin S,
         call' = Orphaned(S), UNCHANGED <<cache, profile>>,
         inst'[i] = inst[i], worker'[i] = worker[i]
  PROVE  Pure(i)'
<1>1. PICK g \in AnyConfig : Of(i, g)
  BY DEF Pure
<1>2. \A c \in Calls :
        call[c].id = i => call'[c] = call[c]
  BY DEF Orphaned
<1>3. \A c \in Calls : call'[c].id = call[c].id
  BY OrphanedType, Zenon
<1>4. Of(i, g)'
  BY <1>1, <1>2, <1>3, Zenon DEF Of
<1> QED
  BY <1>4, Zenon DEF Pure

LEMMA RespawnPure ==
  ASSUME TypeOK, AllPure, NEW S \in SUBSET Ids, S \subseteq Loaded, NEW lost \in SUBSET S,
         NEW asked, \A i \in S : asked[i] \in AnyConfig,
         NEW s \in Secrets \cup {NoSecret}, Respawn(S, asked, lost, s),
         UNCHANGED <<cache, profile>>
  PROVE  AllPure'
<1> SUFFICES ASSUME NEW i \in Ids \ (mixed \cup refused)',  i \in Ids
             PROVE  Pure(i)'
  BY DEF AllPure
<1>1. /\ mixed' = mixed \cup {k \in S \ lost :
                      ~(Sources(k) \subseteq {[j \in S |-> Effective(j, asked[j])][k]})}
      /\ refused' = refused /\ call' = Orphaned(S)
  BY DEF Respawn, Disturb
<1>2. Pure(i)
  BY <1>1 DEF AllPure
<1>3. CASE i \in lost
  <2>1. inst'[i] = None
    BY <1>3 DEF Respawn
  <2> QED
    BY <1>1, <1>2, <1>3, <2>1, OrphanedIsPure
<1>4. CASE i \in S \ lost
  <2>1. Effective(i, asked[i]) \in AnyConfig
    BY <1>4, EffectiveType
  <2>2. inst'[i].config = Effective(i, asked[i]) /\ worker'[i].config = Effective(i, asked[i])
    BY <1>4 DEF Respawn, Instance, Started
  <2>3. Sources(i) \subseteq {Effective(i, asked[i])}
    BY <1>1, <1>4
  <2> QED
    BY <1>1, <1>2, <1>4, <2>1, <2>2, <2>3, OrphanedIsPure
<1>5. CASE i \notin S
  <2>1. inst'[i] = inst[i] /\ worker'[i] = worker[i]
    BY <1>5 DEF Respawn
  <2> QED
    BY <1>1, <1>2, <1>5, <2>1, OthersArePure
<1> QED
  BY <1>3, <1>4, <1>5

(* A sample goes to the one configuration there is.                        *)
LEMMA FinishPure ==
  ASSUME TypeOK, AllPure, NEW c \in Calls, Finish(c)
  PROVE  AllPure'
<1>0. UNCHANGED <<inst, worker, mixed, refused>>
  BY DEF Finish, ghosts
<1> SUFFICES ASSUME NEW i \in Ids \ (mixed \cup refused)
             PROVE  Pure(i)'
  BY <1>0 DEF AllPure
<1> DEFINE j == CalledId(c)
           h == CalledHash(c)
<1>1. Pure(i)
  BY DEF AllPure
<1>2. PICK g \in AnyConfig : Of(i, g)
  BY <1>1 DEF Pure
<1>3. j \in Ids /\ h \in AnyConfig /\ call' = [call EXCEPT ![c] = NoCall] /\ j = call[c].id
  BY FinishSteps DEF CalledId
<1>4. \A d \in Calls : call'[d].pc # "idle" => d # c /\ call'[d] = call[d]
  BY <1>3 DEF TypeOK, NoCall
<1>5. i = j => h = g /\ call[c].ran = g
  <2> SUFFICES ASSUME i = j
               PROVE  h = g /\ call[c].ran = g
    OBVIOUS
  <2>1. call[c].pc # "idle"
    BY DEF Finish
  <2>2. call[c].pc = "running" \/ call[c].pc = "orphan"
    BY <2>1 DEF TypeOK
  <2>3. CASE call[c].pc = "running"
    <3>1. inst[i] # None
      BY <2>3, <1>3 DEF TypeOK, Loaded
    <3>2. h = inst[i].config
      BY <1>3, <2>3 DEF CalledHash
    <3> QED
      BY <1>2, <1>3, <2>1, <3>1, <3>2, Zenon DEF Of
  <2>4. CASE call[c].pc = "orphan"
    <3>1. h = call[c].hash
      BY <2>4 DEF CalledHash
    <3> QED
      BY <1>2, <1>3, <2>1, <2>4, <3>1, Zenon DEF Of
  <2> QED
    BY <2>2, <2>3, <2>4
<1>6. call[c].pc = "running" /\ i = j => worker[i].config = g
  <2> SUFFICES ASSUME call[c].pc = "running", i = j
               PROVE  worker[i].config = g
    OBVIOUS
  <2>1. inst[i] # None
    BY <1>3 DEF TypeOK, Loaded
  <2> QED
    BY <1>2, <2>1, Zenon DEF Of
<1>7. cache[i] # None => cache[i] = g
  BY <1>2, Zenon DEF Of
<1>8. /\ cache \in [Ids -> AnyConfig \cup {None}]
      /\ profile \in [Ids -> [AnyConfig -> Samples \cup {None}]]
  BY DEF TypeOK
<1>9. \/ UNCHANGED <<profile, cache>>
      \/ \E m \in SUBSET AnyConfig :
           /\ \/ m = {} /\ cache' = [cache EXCEPT ![j] = None]
              \/ \E p \in AnyConfig :
                   /\ m = {p} /\ cache' = [cache EXCEPT ![j] = p]
                   /\ \/ cache[j] = p
                      \/ call[c].pc = "running" /\ worker[j].config = p
           /\ profile' = [profile EXCEPT ![j][h] = Fold(profile[j][h], m, call[c].ran)]
  BY FinishSteps
<1> HIDE DEF j, h
<1>10. ASSUME cache'[i] # None => cache'[i] = g,
              \A k \in AnyConfig : profile'[i][k] # None =>
                profile'[i][k].peaks \cup profile'[i][k].runs \subseteq {k}
       PROVE  Pure(i)'
  <2>1. \A d \in Calls : call'[d].pc # "idle" /\ call'[d].id = i => call'[d].ran = g
    BY <1>2, <1>4, Zenon DEF Of
  <2>2. \A d \in Calls : call'[d].pc = "orphan" /\ call'[d].id = i => call'[d].hash = g
    <3>1. "orphan" # "idle"
      OBVIOUS
    <3> QED
      BY <1>2, <1>4, <3>1, Zenon DEF Of
  <2>3. Of(i, g)'
    BY <1>0, <1>2, <1>10, <2>1, <2>2, Zenon DEF Of
  <2> QED
    BY <1>10, <2>3, Zenon DEF Pure
<1>11. CASE UNCHANGED <<profile, cache>>
  BY <1>1, <1>7, <1>10, <1>11, Zenon DEF Pure
<1>12. ASSUME NEW m \in SUBSET AnyConfig,
              \/ m = {} /\ cache' = [cache EXCEPT ![j] = None]
              \/ \E p \in AnyConfig :
                   /\ m = {p} /\ cache' = [cache EXCEPT ![j] = p]
                   /\ \/ cache[j] = p
                      \/ call[c].pc = "running" /\ worker[j].config = p,
              profile' = [profile EXCEPT ![j][h] = Fold(profile[j][h], m, call[c].ran)]
       PROVE  Pure(i)'
  <2>1. CASE i # j
    <3>1. cache'[i] = cache[i]
      BY <1>3, <1>8, <1>12, <2>1
    <3>2. profile'[i] = profile[i]
      BY <1>3, <1>8, <1>12, <2>1
    <3> QED
      BY <1>1, <1>7, <1>10, <3>1, <3>2, Zenon DEF Pure
  <2>2. CASE i = j
    <3>1. m \subseteq {g} /\ (cache'[i] # None => cache'[i] = g)
      <4>1. CASE m = {} /\ cache' = [cache EXCEPT ![j] = None]
        BY <1>3, <1>8, <2>2, <4>1
      <4>2. ASSUME NEW p \in AnyConfig, m = {p}, cache' = [cache EXCEPT ![j] = p],
                   cache[j] = p \/ (call[c].pc = "running" /\ worker[j].config = p)
            PROVE  m \subseteq {g} /\ (cache'[i] # None => cache'[i] = g)
        <5>1. p # None
          BY ProfileAssumption
        <5>2. p = g
          BY <1>6, <1>7, <2>2, <4>2, <5>1, Zenon
        <5> QED
          BY <1>3, <1>8, <2>2, <4>2, <5>2
      <4> QED
        BY <1>12, <4>1, <4>2
    <3>2. h = g /\ call[c].ran = g
      BY <1>5, <2>2
    <3>3. ASSUME NEW k \in AnyConfig, profile'[i][k] # None
          PROVE  profile'[i][k].peaks \cup profile'[i][k].runs \subseteq {k}
      <4>1. CASE k # h
        <5>1. profile'[i][k] = profile[i][k]
          BY <1>3, <1>8, <1>12, <2>2, <4>1
        <5> QED
          BY <1>1, <3>3, <5>1, Zenon DEF Pure
      <4>2. CASE k = h
        <5>1. profile'[i][k] = Fold(profile[i][k], m, g)
          BY <1>3, <1>8, <1>12, <2>2, <3>2, <4>2
        <5>2. profile[i][k] # None =>
                profile[i][k].peaks \subseteq {k} /\ profile[i][k].runs \subseteq {k}
          BY <1>1 DEF Pure
        <5> QED
          BY <3>1, <3>2, <4>2, <5>1, <5>2 DEF Fold, NoSamples
      <4> QED
        BY <4>1, <4>2
    <3> QED
      BY <1>10, <3>1, <3>3
  <2> QED
    BY <2>1, <2>2
<1> QED
  BY <1>9, <1>11, <1>12

LEMMA InitPure == Init => AllPure
<1> SUFFICES ASSUME Init, NEW i \in Ids
             PROVE  Pure(i)
  BY DEF AllPure
<1>1. Of(i, Empty)
  BY DEF Init, Of, NoCall
<1> QED
  BY <1>1 DEF Init, Pure, AnyConfig

LEMMA StepPure == TypeOK /\ AllPure /\ [Next]_vars => AllPure'
<1> SUFFICES ASSUME TypeOK, AllPure, [Next]_vars
             PROVE  AllPure'
  OBVIOUS
(* Steps that no source of samples notices.                                *)
<1>1. ASSUME UNCHANGED <<call, cache, profile>>,
             mixed \subseteq mixed', refused \subseteq refused',
             \A i \in Ids \ (mixed' \cup refused') : inst'[i] # None =>
               /\ inst[i] # None /\ inst'[i].config = inst[i].config
               /\ worker'[i].config = worker[i].config
      PROVE  AllPure'
  <2> SUFFICES ASSUME NEW i \in Ids \ (mixed' \cup refused')
               PROVE  Pure(i)'
    BY DEF AllPure
  <2>1. i \in Ids /\ Pure(i)
    BY <1>1 DEF AllPure
  <2> QED
    BY <1>1, <2>1, SameIsPure
(* Steps that give one instance the configuration new.                     *)
<1>2. ASSUME NEW i \in Ids, NEW new \in AnyConfig, UNCHANGED <<call, cache, profile>>,
             mixed' = mixed \cup {j \in {i} : ~(Sources(j) \subseteq {new})},
             refused' = refused,
             inst'[i].config = new /\ worker'[i].config = new,
             \A k \in Ids \ {i} : inst'[k] = inst[k] /\ worker'[k] = worker[k]
      PROVE  AllPure'
  <2> SUFFICES ASSUME NEW k \in Ids \ (mixed' \cup refused')
               PROVE  Pure(k)'
    BY DEF AllPure
  <2>1. k \in Ids /\ Pure(k)
    BY <1>2 DEF AllPure
  <2>2. CASE k = i
    <3>1. Sources(i) \subseteq {new}
      BY <1>2, <2>2
    <3> QED
      BY <1>2, <2>1, <2>2, <3>1, ResumedIsPure
  <2>3. CASE k # i
    BY <1>2, <2>1, <2>3, SameIsPure
  <2> QED
    BY <2>2, <2>3
<1>3. ASSUME NEW i \in Ids, NEW asked \in AnyConfig, Load(i, asked)
      PROVE  AllPure'
  <2>1. Effective(i, asked) \in AnyConfig
    BY EffectiveType
  <2>2. /\ inst'[i].config = Effective(i, asked) /\ worker'[i].config = Effective(i, asked)
        /\ \A k \in Ids \ {i} : inst'[k] = inst[k] /\ worker'[k] = worker[k]
    BY <1>3 DEF Load, TypeOK, Instance, Started
  <2>3. /\ mixed' = mixed \cup {j \in {i} : ~(Sources(j) \subseteq {Effective(i, asked)})}
        /\ refused' = refused /\ UNCHANGED <<call, cache, profile>>
    BY <1>3 DEF Load, Disturb, durable
  <2> QED
    BY <1>2, <2>1, <2>2, <2>3
<1>4. ASSUME NEW i \in Ids, Unload(i)
      PROVE  AllPure'
  <2>1. call' = Orphaned({i}) /\ UNCHANGED <<cache, profile, mixed, refused>>
    BY <1>4 DEF Unload, durable, ghosts
  <2> SUFFICES ASSUME NEW k \in Ids \ (mixed \cup refused)
               PROVE  Pure(k)'
    BY <2>1 DEF AllPure
  <2>2. Pure(k) /\ {i} \in SUBSET Ids
    BY DEF AllPure
  <2>3. CASE k = i
    <3>1. inst'[i] = None
      BY <1>4 DEF Unload, TypeOK
    <3> QED
      BY <2>1, <2>2, <2>3, <3>1, OrphanedIsPure
  <2>4. CASE k # i
    <3>1. inst'[k] = inst[k] /\ worker'[k] = worker[k]
      BY <1>4, <2>4 DEF Unload, TypeOK
    <3> QED
      BY <2>1, <2>2, <2>4, <3>1, OthersArePure
  <2> QED
    BY <2>3, <2>4
<1>5. ASSUME NEW i \in Ids, NEW c \in AnyConfig, Reload(i, c)
      PROVE  AllPure'
  <2> DEFINE asked == [k \in {i} |-> IF c = Empty THEN worker[k].config ELSE c]
  <2>1. PICK lost \in SUBSET {i} : Respawn({i}, asked, lost, secret)
    BY <1>5 DEF Reload
  <2>2. \A k \in {i} : asked[k] \in AnyConfig
    BY DEF TypeOK
  <2>3. {i} \in SUBSET Ids /\ {i} \subseteq Loaded /\ secret \in Secrets \cup {NoSecret}
    BY <1>5 DEF Reload, TypeOK
  <2>4. UNCHANGED <<cache, profile>>
    BY <1>5 DEF Reload, durable
  <2> HIDE DEF asked
  <2> QED
    BY <2>1, <2>2, <2>3, <2>4, RespawnPure
<1>6. ASSUME NEW s \in Secrets, NEW r \in BOOLEAN, SetSecret(s, r)
      PROVE  AllPure'
  <2>1. UNCHANGED <<cache, profile>>
    BY <1>6 DEF SetSecret
  <2>2. CASE ~r
    BY <1>1, <1>6, <2>1, <2>2 DEF SetSecret, ghosts
  <2>3. CASE r
    <3> DEFINE S == {i \in Loaded : worker[i].alive}
               asked == [i \in S |-> worker[i].config]
    <3>1. PICK lost \in SUBSET S : Respawn(S, asked, lost, s)
      BY <1>6, <2>3 DEF SetSecret
    <3>2. S \in SUBSET Ids /\ S \subseteq Loaded /\ \A i \in S : asked[i] \in AnyConfig
      BY DEF Loaded, TypeOK
    <3> HIDE DEF S, asked
    <3> QED
      BY <2>1, <3>1, <3>2, RespawnPure
  <2> QED
    BY <2>2, <2>3
<1>7. ASSUME NEW i \in Ids, NEW on \in BOOLEAN, SetEnabled(i, on)
      PROVE  AllPure'
  <2>1. inst[i] \in Instances /\ i \in Loaded
    BY <1>7, FieldTypes DEF SetEnabled
  <2>2. inst' = [inst EXCEPT ![i].enabled = on] /\ inst \in [Ids -> Instances \cup {None}]
    BY <1>7 DEF SetEnabled, TypeOK
  <2>3. \A k \in Ids : inst'[k] # None => inst[k] # None /\ inst'[k].config = inst[k].config
    BY <2>1, <2>2 DEF Instances, Loaded
  <2>4. UNCHANGED <<worker, call, cache, profile, mixed, refused>>
    BY <1>7 DEF SetEnabled, ghosts
  <2> QED
    BY <1>1, <2>3, <2>4
<1>8. ASSUME NEW i \in Ids, NEW c \in Configs, Update(i, c)
      PROVE  AllPure'
  <2>1. i \in Loaded /\ inst[i] \in Instances /\ c \in AnyConfig
    BY <1>8, FieldTypes DEF Update, AnyConfig
  <2>2. /\ inst'[i].config = c /\ worker'[i].config = c
        /\ \A k \in Ids \ {i} : inst'[k] = inst[k] /\ worker'[k] = worker[k]
    BY <1>8, <2>1 DEF Update, TypeOK, Instances
  <2>3. /\ mixed' = mixed \cup {j \in {i} : ~(Sources(j) \subseteq {c})} /\ refused' = refused
        /\ UNCHANGED <<call, cache, profile>>
    BY <1>8 DEF Update, Disturb
  <2> QED
    BY <1>2, <2>1, <2>2, <2>3
<1>9. ASSUME NEW i \in Ids, NEW c \in Configs, UpdateFails(i, c)
      PROVE  AllPure'
  <2>1. i \in Loaded /\ inst[i] \in Instances /\ c \in AnyConfig
    BY <1>9, FieldTypes DEF UpdateFails, AnyConfig
  <2>2. /\ worker' = [worker EXCEPT ![i].config = c]
        /\ UNCHANGED <<call, cache, profile>>
    BY <1>9 DEF UpdateFails, durable
  <2>3. CASE inst' = inst /\ refused' = refused \cup {i} /\ UNCHANGED mixed
    BY <1>1, <2>2, <2>3 DEF TypeOK
  <2>4. CASE inst' = [inst EXCEPT ![i].config = c] /\ Disturb({i}, [k \in {i} |-> c])
    <3>1. /\ inst'[i].config = c /\ worker'[i].config = c
          /\ \A k \in Ids \ {i} : inst'[k] = inst[k] /\ worker'[k] = worker[k]
      BY <2>1, <2>2, <2>4 DEF TypeOK, Instances
    <3>2. /\ mixed' = mixed \cup {j \in {i} : ~(Sources(j) \subseteq {c})} /\ refused' = refused
      BY <2>4 DEF Disturb
    <3> QED
      BY <1>2, <2>1, <2>2, <3>1, <3>2
  <2> QED
    BY <1>9, <2>3, <2>4 DEF UpdateFails
<1>10. ASSUME NEW i \in Ids, NEW e \in AnyEnv, SetEnv(i, e)
       PROVE  AllPure'
  BY <1>1, <1>10 DEF SetEnv, ghosts
<1>11. ASSUME NEW i \in Ids, NEW h \in AnyConfig, DeleteRecord(i, h)
       PROVE  AllPure'
  <2>1. UNCHANGED <<inst, worker, call, cache, mixed, refused>>
    BY <1>11 DEF DeleteRecord, ghosts
  <2> SUFFICES ASSUME NEW k \in Ids \ (mixed \cup refused)
               PROVE  Pure(k)'
    BY <2>1 DEF AllPure
  <2>2. Pure(k)
    BY DEF AllPure
  <2>3. PICK g \in AnyConfig : Of(k, g)
    BY <2>2 DEF Pure
  <2>4. Of(k, g)'
    BY <2>1, <2>3, Zenon DEF Of
  <2>5. \A x \in AnyConfig : profile'[k][x] # None => profile'[k][x] = profile[k][x]
    BY <1>11 DEF DeleteRecord, TypeOK
  <2> QED
    BY <2>2, <2>4, <2>5, Zenon DEF Pure
<1>12. ASSUME Restart
       PROVE  AllPure'
  <2>1. mixed' = mixed /\ refused' = refused /\ profile' = profile
    BY <1>12 DEF Restart, durable, ghosts
  <2> SUFFICES ASSUME NEW k \in Ids \ (mixed \cup refused)
               PROVE  Pure(k)'
    BY <2>1 DEF AllPure
  <2>2. Pure(k)
    BY DEF AllPure
  <2>3. Of(k, Empty)'
    BY <1>12 DEF Restart, Of, NoCall
  <2>4. Empty \in AnyConfig
    BY DEF AnyConfig
  <2> QED
    BY <2>1, <2>2, <2>3, <2>4, Zenon DEF Pure
<1>13. ASSUME NEW c \in Calls, NEW i \in Ids, Begin(c, i)
       PROVE  AllPure'
  <2>1. UNCHANGED <<inst, worker, cache, profile, mixed, refused>> /\ inst[i] # None
    BY <1>13 DEF Begin, durable, ghosts, Loaded
  <2>2. /\ call'[c] = [pc |-> "running", id |-> i, ran |-> worker[i].config, hash |-> Empty]
        /\ \A d \in Calls \ {c} : call'[d] = call[d]
    BY <1>13 DEF Begin, TypeOK
  <2> SUFFICES ASSUME NEW k \in Ids \ (mixed \cup refused)
               PROVE  Pure(k)'
    BY <2>1 DEF AllPure
  <2>3. Pure(k)
    BY DEF AllPure
  <2>4. PICK g \in AnyConfig : Of(k, g)
    BY <2>3 DEF Pure
  <2>5. k = i => worker[i].config = g
    BY <2>1, <2>4, Zenon DEF Of
  <2>6. \A d \in Calls : call'[d].pc # "idle" /\ call'[d].id = k => call'[d].ran = g
    BY <2>2, <2>4, <2>5 DEF Of
  <2>7. \A d \in Calls : call'[d].pc = "orphan" /\ call'[d].id = k => call'[d].hash = g
    BY <2>2, <2>4 DEF Of
  <2>8. Of(k, g)'
    BY <2>1, <2>4, <2>6, <2>7, Zenon DEF Of
  <2> QED
    BY <2>1, <2>3, <2>8, Zenon DEF Pure
<1>14. ASSUME NEW i \in Ids, WorkerDies(i)
       PROVE  AllPure'
  <2>1. /\ UNCHANGED <<inst, call, cache, profile, mixed, refused>>
        /\ worker' = [worker EXCEPT ![i].alive = FALSE]
    BY <1>14 DEF WorkerDies, durable, ghosts
  <2>2. \A k \in Ids : worker'[k].config = worker[k].config
    BY <2>1 DEF TypeOK
  <2> QED
    BY <1>1, <2>1, <2>2
<1>15. ASSUME NEW i \in Ids, Expire(i)
       PROVE  AllPure'
  <2>1. UNCHANGED <<inst, worker, call, profile, mixed, refused>>
    BY <1>15 DEF Expire, durable, ghosts
  <2> SUFFICES ASSUME NEW k \in Ids \ (mixed \cup refused)
               PROVE  Pure(k)'
    BY <2>1 DEF AllPure
  <2>2. Pure(k)
    BY DEF AllPure
  <2>3. PICK g \in AnyConfig : Of(k, g)
    BY <2>2 DEF Pure
  <2>4. cache'[k] # None => cache'[k] = cache[k]
    BY <1>15 DEF Expire, TypeOK
  <2>5. Of(k, g)'
    BY <2>1, <2>3, <2>4, Zenon DEF Of
  <2> QED
    BY <2>1, <2>2, <2>5, Zenon DEF Pure
<1>16. CASE UNCHANGED vars
  BY <1>1, <1>16 DEF vars, durable, ghosts
<1> QED
  BY <1>3, <1>4, <1>5, <1>6, <1>7, <1>8, <1>9, <1>10, <1>11, <1>12, <1>13, <1>14, <1>15,
     <1>16, FinishPure
  DEF Next, Operator

(* What admission reads of an instance was run and measured under the      *)
(* configuration it is filed under (_record_sample_safe, record_sample).   *)
THEOREM ProfilesAreOfConfig == Spec => []ProfileOfConfig
<1>1. AllPure => ProfileOfConfig
  BY DEF AllPure, Pure, ProfileOfConfig
<1>2. Init => AllPure
  BY InitPure
<1>3. TypeOK /\ AllPure /\ [Next]_vars => AllPure'
  BY StepPure
<1> QED
  BY <1>1, <1>2, <1>3, TypeCorrect, PTL DEF Spec
=============================================================================
