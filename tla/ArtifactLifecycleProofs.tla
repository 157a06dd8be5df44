------------------------ MODULE ArtifactLifecycleProofs ------------------------
(***************************************************************************)
(* Theorems about ArtifactLifecycle, for any processes, files, contents    *)
(* and numbers of verbs.                                                   *)
(***************************************************************************)
EXTENDS ArtifactLifecycle, SequenceTheorems, TLAPS

LEMMA FreshType == Fresh \in Records
BY DEF Fresh, Records, States

LEMMA IdleType == Idle \in Processes
BY FreshType DEF Idle, Processes, Sides

LEMMA LoadType ==
  ASSUME side \in Sides
  PROVE  load \in Records
BY FreshType DEF load, Sides

LEMMA SetType ==
  ASSUME NEW r \in Records, NEW s \in States
  PROVE  [r EXCEPT !.state = s, !.history = Append(@, s)] \in Records
<1>1. r.history \in Seq(States)
  BY DEF Records
<1>2. Append(r.history, s) \in Seq(States)
  BY <1>1
<1> QED
  BY <1>2 DEF Records

(* An upload puts files beside those that the hub has.                     *)
LEMMA UploadType ==
  ASSUME remote \in Seq(Trees), content \in Trees
  PROVE  Upload \in Trees
<1> DEFINE head == IF remote = <<>> THEN Absent ELSE Last(remote)
<1>1. head \in Trees
  <2>1. CASE remote = <<>>
    BY <2>1 DEF Absent, Trees
  <2>2. CASE remote # <<>>
    <3>1. Len(remote) \in 1 .. Len(remote)
      BY <2>2
    <3> QED
      BY <2>2, <3>1 DEF Last
  <2> QED
    BY <2>1, <2>2
<1> HIDE DEF head
<1>2. [f \in Paths |-> IF content[f] = None THEN head[f] ELSE content[f]] \in Trees
  BY <1>1 DEF Trees
<1> QED
  BY <1>2 DEF Upload, head

LEMMA AddType ==
  ASSUME NEW r \in Records, NEW b \in Backups
  PROVE  [r EXCEPT !.backups = Append(@, b)] \in Records
<1>1. r.backups \in Seq(Backups)
  BY DEF Records
<1>2. Append(r.backups, b) \in Seq(Backups)
  BY <1>1
<1> QED
  BY <1>2 DEF Records

(* What a process may be, given the revisions of the hub.                  *)
Sound(r, revisions) ==
  /\ r \in Processes
  /\ r.pc \in {"found", "push", "verify", "pushed"} => r.hash \in Trees
  /\ r.pc \in {"verify", "pushed"} => r.rev \in 1 .. Len(revisions)

OnDisk ==
  /\ content \in Trees /\ manifest \in BOOLEAN /\ gone \in BOOLEAN
  /\ side \in Sides
  /\ names \subseteq Files /\ remote \in Seq(Trees)
  /\ kept \in [state : States, revs : SUBSET Nat] /\ spoilt \in BOOLEAN
  /\ acts \in 0 .. MaxActs

AllSound ==
  /\ proc = [p \in Procs |-> proc[p]]
  /\ \A p \in Procs : Sound(proc[p], remote)

LEMMA SoundType == TypeOK <=> OnDisk /\ AllSound
BY DEF TypeOK, OnDisk, AllSound, Sound

LEMMA IdleSound ==
  ASSUME NEW s
  PROVE  Sound(Idle, s)
BY IdleType DEF Sound, Idle

(* A step of process p that leaves it sound, and the hub alone.            *)
LEMMA OneProcess ==
  ASSUME AllSound, NEW p \in Procs, NEW r, Sound(r, remote), remote' = remote,
         proc' = [proc EXCEPT ![p] = r]
  PROVE  AllSound'
BY DEF AllSound

LEMMA ReturnSound ==
  ASSUME AllSound, NEW p \in Procs, Return(p), remote' = remote
  PROVE  AllSound'
BY IdleSound, OneProcess DEF Return

LEMMA UpdateSound ==
  ASSUME AllSound, side \in Sides, NEW p \in Procs, NEW r \in Records, Update(p, r),
         remote' = remote
  PROVE  AllSound'
<1> DEFINE new == [proc[p] EXCEPT !.pc = "loaded", !.rec = r, !.seen = side]
<1>1. Sound(new, remote)
  BY DEF AllSound, Processes, Sound
<1>2. proc' = [proc EXCEPT ![p] = new]
  BY DEF Update
<1> QED
  BY <1>1, <1>2, OneProcess

(* A file that is read names nothing, or ends the scan.                    *)
LEMMA ScanWays ==
  ASSUME NEW p, NEW f, Scan(p, f)
  PROVE  \/ Return(p)
         \/ /\ f \notin names
            /\ proc' = [proc EXCEPT ![p] = [proc[p] EXCEPT !.todo = @ \ {f}]]
         \/ proc' = [proc EXCEPT ![p] = [proc[p] EXCEPT !.todo = @ \ {f}, !.unread = @ \cup {f}]]
<1>1. CASE f \in names /\ Return(p)
  BY <1>1
<1>2. CASE f \notin names /\ proc' = [proc EXCEPT ![p].todo = @ \ {f}]
  BY <1>2
<1>3. CASE proc' = [proc EXCEPT ![p] = [proc[p] EXCEPT !.todo = @ \ {f}, !.unread = @ \cup {f}]]
  BY <1>3, Zenon
<1> QED
  BY <1>1, <1>2, <1>3, Zenon DEF Scan

LEMMA InitType == Init => TypeOK
<1> SUFFICES ASSUME Init
             PROVE  TypeOK
  OBVIOUS
<1>1. AllSound
  BY IdleSound DEF Init, AllSound
<1>2. OnDisk
  <2>1. remote \in Seq(Trees) /\ side \in Sides /\ acts \in 0 .. MaxActs
    BY ArtifactAssumption DEF Init, Sides
  <2>2. kept \in [state : States, revs : SUBSET Nat]
    BY DEF Init, States
  <2> QED
    BY <2>1, <2>2 DEF Init, OnDisk
<1> QED
  BY <1>1, <1>2, SoundType

LEMMA StepType == TypeOK /\ [Next]_vars => TypeOK'
<1> SUFFICES ASSUME OnDisk, AllSound, [Next]_vars
             PROVE  OnDisk' /\ AllSound'
  <2>1. TypeOK => OnDisk /\ AllSound
    BY SoundType
  <2>2. OnDisk' /\ AllSound' => TypeOK'
    BY DEF TypeOK, OnDisk, AllSound, Sound
  <2> QED
    BY <2>1, <2>2
<1> DEFINE Counted == acts' \in 0 .. MaxActs
<1>0. Counted
  BY ArtifactAssumption DEF Next, Start, OnDisk, vars
<1> HIDE DEF Counted
<1>l. load \in Records /\ side \in Sides
  BY LoadType DEF OnDisk
<1>p. \A p \in Procs : proc[p] \in Processes
  BY DEF AllSound, Sound
<1>d. ASSUME UNCHANGED <<disk, kept, spoilt>>
      PROVE  OnDisk' /\ remote' = remote
  BY <1>0, <1>d DEF OnDisk, disk, Counted
<1>1. ASSUME NEW p \in Procs, NEW s \in States, set_state(p, s)
      PROVE  OnDisk' /\ AllSound'
  <2>1. UNCHANGED <<disk, kept, spoilt>>
    BY <1>1 DEF set_state
  <2>2. Update(p, [load EXCEPT !.state = s, !.history = Append(@, s)])
    BY <1>1 DEF set_state
  <2> QED
    BY <1>l, <1>d, <2>1, <2>2, SetType, UpdateSound
<1>2. ASSUME NEW p \in Procs, record_backup(p)
      PROVE  OnDisk' /\ AllSound'
  <2> DEFINE b == [rev |-> proc[p].rev, hash |-> proc[p].hash, verified |-> proc[p].verified]
  <2>1. UNCHANGED <<disk, kept, spoilt>> /\ At(p, "pushed")
    BY <1>2 DEF record_backup
  <2>2. b \in Backups
    BY <1>p, <2>1 DEF AllSound, Sound, Processes, At, Backups
  <2>3. Update(p, [load EXCEPT !.backups = Append(@, b)]) \/ Return(p)
    BY <1>2 DEF record_backup
  <2> HIDE DEF b
  <2> QED
    BY <1>l, <1>d, <2>1, <2>2, <2>3, AddType, UpdateSound, ReturnSound
<1>3. ASSUME NEW p \in Procs, Truncate(p)
      PROVE  OnDisk' /\ AllSound'
  <2>1. OnDisk' /\ remote' = remote
    BY <1>0, <1>3 DEF Truncate, OnDisk, Sides, Counted
  <2>2. CASE gone
    BY <1>3, <2>1, <2>2, ReturnSound DEF Truncate
  <2>3. CASE ~gone
    <3> DEFINE new == [proc[p] EXCEPT !.pc = "writing"]
    <3>1. Sound(new, remote)
      BY DEF AllSound, Sound, Processes
    <3>2. proc' = [proc EXCEPT ![p] = new]
      BY <1>3, <2>3 DEF Truncate
    <3> QED
      BY <2>1, <3>1, <3>2, OneProcess
  <2> QED
    BY <2>2, <2>3
<1>4. ASSUME NEW p \in Procs, Write(p)
      PROVE  OnDisk' /\ AllSound'
  <2>1. proc[p].rec \in Records
    BY <1>p DEF Processes
  <2>2. side' \in Sides
    BY <1>4, <1>l, <2>1 DEF Write, Sides
  <2>3. Revisions(proc[p].rec) \subseteq Nat
    <3>1. proc[p].rec.backups \in Seq(Backups)
      BY <2>1 DEF Records
    <3>2. ASSUME NEW k \in DOMAIN proc[p].rec.backups
          PROVE  proc[p].rec.backups[k].rev \in Nat
      <4>1. proc[p].rec.backups[k] \in Backups
        BY <3>1
      <4> QED
        BY <4>1 DEF Backups
    <3> QED
      BY <3>2 DEF Revisions, ToSet
  <2>4. kept' \in [state : States, revs : SUBSET Nat]
    BY <1>4, <2>1, <2>3 DEF Write, OnDisk, Records
  <2> QED
    BY <1>0, <1>4, <2>2, <2>4, ReturnSound DEF Write, OnDisk, Counted
<1>5. ASSUME NEW p \in Procs, find_holders(p)
      PROVE  OnDisk' /\ AllSound'
  <2> DEFINE new == [proc[p] EXCEPT !.pc = "scan", !.todo = Files, !.since = names, !.unread = {}]
  <2>1. Sound(new, remote)
    BY DEF AllSound, Sound, Processes, OnDisk
  <2>2. proc' = [proc EXCEPT ![p] = new]
    BY <1>5 DEF find_holders
  <2> QED
    BY <1>5, <1>d, <2>1, <2>2, OneProcess DEF find_holders
<1>6. ASSUME NEW p \in Procs, NEW f \in Files, Scan(p, f)
      PROVE  OnDisk' /\ AllSound'
  <2> DEFINE new == [proc[p] EXCEPT !.todo = @ \ {f}]
             skip == [proc[p] EXCEPT !.todo = @ \ {f}, !.unread = @ \cup {f}]
  <2>1. Sound(new, remote) /\ Sound(skip, remote)
    BY DEF AllSound, Sound, Processes
  <2>2. \/ Return(p) \/ proc' = [proc EXCEPT ![p] = new]
        \/ proc' = [proc EXCEPT ![p] = skip]
    BY <1>6, ScanWays
  <2> HIDE DEF new, skip
  <2>3. OnDisk' /\ remote' = remote
    BY <1>6, <1>d DEF Scan
  <2> QED
    BY <2>1, <2>2, <2>3, OneProcess, ReturnSound
<1>7. ASSUME NEW p \in Procs, delete(p)
      PROVE  OnDisk' /\ AllSound'
  <2> DEFINE new == [proc[p] EXCEPT !.pc = "rmtree", !.todo = {"manifest", "side"}]
  <2>1. Sound(new, remote)
    BY DEF AllSound, Sound, Processes
  <2>2. proc' = [proc EXCEPT ![p] = new] \/ Return(p)
    BY <1>7 DEF delete
  <2>3. OnDisk' /\ remote' = remote
    BY <1>0, <1>7 DEF delete, OnDisk, disk, Counted
  <2> QED
    BY <2>1, <2>2, <2>3, OneProcess, ReturnSound
<1>8. ASSUME NEW p \in Procs, NEW x \in {"manifest", "side"}, Unlink(p, x)
      PROVE  OnDisk' /\ AllSound'
  <2>1. OnDisk' /\ remote' = remote
    BY <1>0, <1>8 DEF Unlink, OnDisk, Sides, Counted
  <2> DEFINE new == [proc[p] EXCEPT !.todo = @ \ {x}]
             rest == [proc EXCEPT ![p] = new]
  <2>2. Sound(new, remote)
    BY DEF AllSound, Sound, Processes
  <2>3. CASE proc' = rest
    BY <2>1, <2>2, <2>3, OneProcess
  <2>4. CASE Return(p)
    BY <2>1, <2>4, ReturnSound
  <2>5. CASE proc' = [q \in Procs |-> IF At(q, "writing")
                                      THEN [proc[q] EXCEPT !.linked = FALSE] ELSE rest[q]]
    <3>1. ASSUME NEW q \in Procs
          PROVE  Sound([proc[q] EXCEPT !.linked = FALSE], remote)
      <4>1. Sound(proc[q], remote)
        BY DEF AllSound
      <4> QED
        BY <4>1 DEF Sound, Processes
    <3>2. \A q \in Procs : Sound(rest[q], remote)
      BY <2>2 DEF AllSound
    <3> HIDE DEF rest
    <3> QED
      BY <2>1, <2>5, <3>1, <3>2 DEF AllSound
  <2>6. rest = [proc EXCEPT ![p].todo = @ \ {x}]
    OBVIOUS
  <2> HIDE DEF rest
  <2> QED
    BY <1>8, <2>3, <2>4, <2>5, <2>6, Zenon DEF Unlink
<1>9. ASSUME NEW p \in Procs, Rmdir(p)
      PROVE  OnDisk' /\ AllSound'
  BY <1>0, <1>9, ReturnSound DEF Rmdir, OnDisk, Counted
<1>10. ASSUME NEW p \in Procs, discover_artifacts(p)
       PROVE  OnDisk' /\ AllSound'
  <2> DEFINE new == [proc[p] EXCEPT !.pc = "found", !.hash = content]
  <2>1. Sound(new, remote)
    BY DEF AllSound, Sound, Processes, OnDisk
  <2>2. proc' = [proc EXCEPT ![p] = new]
    BY <1>10 DEF discover_artifacts
  <2> QED
    BY <1>10, <1>d, <2>1, <2>2, OneProcess DEF discover_artifacts
<1>11. ASSUME NEW p \in Procs, already_backed_up(p)
       PROVE  OnDisk' /\ AllSound'
  <2> DEFINE new == [proc[p] EXCEPT !.pc = "push"]
  <2>1. Sound(new, remote)
    BY <1>11 DEF AllSound, Sound, Processes, already_backed_up, At
  <2>2. proc' = [proc EXCEPT ![p] = new] \/ Return(p)
    BY <1>11 DEF already_backed_up
  <2> QED
    BY <1>11, <1>d, <2>1, <2>2, OneProcess, ReturnSound DEF already_backed_up
<1>12. ASSUME NEW p \in Procs, push_artifact(p)
       PROVE  OnDisk' /\ AllSound'
  <2>1. CASE ~manifest
    BY <1>0, <1>12, <2>1, ReturnSound DEF push_artifact, OnDisk, Counted
  <2>2. CASE manifest
    <3>1. /\ remote' \in Seq(Trees) /\ Len(remote') \in 1 .. Len(remote')
          /\ Len(remote) <= Len(remote')
      <4>1. remote \in Seq(Trees) /\ content \in Trees
        BY DEF OnDisk
      <4>2. \/ remote' = remote /\ remote # <<>>
            \/ remote' = Append(remote, Upload)
        BY <1>12, <2>2 DEF push_artifact
      <4>3. CASE remote' = remote /\ remote # <<>>
        BY <4>1, <4>3
      <4>4. CASE remote' = Append(remote, Upload)
        BY <4>1, <4>4, UploadType
      <4> QED
        BY <4>2, <4>3, <4>4
    <3> DEFINE new == [proc[p] EXCEPT !.pc = "verify", !.rev = Len(remote')]
    <3>2. Sound(new, remote')
      <4>1. At(p, "push") /\ Len(remote') \in Nat
        BY <1>12, <3>1 DEF push_artifact
      <4>2. Sound(proc[p], remote) /\ proc[p].pc = "push"
        BY <4>1 DEF AllSound, At
      <4> QED
        BY <3>1, <4>1, <4>2 DEF Sound, Processes
    <3>3. proc' = [proc EXCEPT ![p] = new]
      BY <1>12, <2>2 DEF push_artifact
    <3>4. \A q \in Procs : Sound(proc[q], remote')
      BY <3>1 DEF AllSound, Sound, OnDisk
    <3>5. AllSound'
      <4> HIDE DEF new
      <4> QED
        BY <3>2, <3>3, <3>4 DEF AllSound
    <3>6. OnDisk'
      BY <1>0, <1>12, <2>2, <3>1 DEF push_artifact, OnDisk, Counted
    <3> QED
      BY <3>5, <3>6
  <2> QED
    BY <2>1, <2>2
<1>13. ASSUME NEW p \in Procs, verify_artifact(p) \/ no_verify(p)
       PROVE  OnDisk' /\ AllSound'
  <2> DEFINE new(ok) == [proc[p] EXCEPT !.pc = "pushed", !.verified = ok]
  <2>1. \A ok \in BOOLEAN : Sound(new(ok), remote)
    <3>1. Sound(proc[p], remote) /\ proc[p].pc = "verify"
      BY <1>13 DEF AllSound, verify_artifact, no_verify, At
    <3> QED
      BY <3>1 DEF Sound, Processes
  <2>2. Return(p) \/ \E ok \in BOOLEAN : proc' = [proc EXCEPT ![p] = new(ok)]
    <3>1. CASE verify_artifact(p)
      BY <3>1 DEF verify_artifact
    <3>2. CASE no_verify(p)
      <4>1. [proc[p] EXCEPT !.pc = "pushed"] = new(proc[p].verified)
        BY <1>p DEF Processes
      <4>2. proc[p].verified \in BOOLEAN
        BY <1>p DEF Processes
      <4> QED
        BY <3>2, <4>1, <4>2 DEF no_verify
    <3> QED
      BY <1>13, <3>1, <3>2
  <2>3. OnDisk' /\ remote' = remote
    BY <1>13, <1>d DEF verify_artifact, no_verify
  <2> HIDE DEF new
  <2> QED
    BY <2>1, <2>2, <2>3, OneProcess, ReturnSound
<1>14. ASSUME NEW f \in Files, Name(f)
       PROVE  OnDisk' /\ AllSound'
  BY <1>0, <1>14 DEF Name, OnDisk, AllSound, Counted
<1>15. ASSUME NEW f \in Files, Unname(f)
       PROVE  OnDisk' /\ AllSound'
  <2>1. \A p \in Procs : Sound([proc[p] EXCEPT !.since = @ \ {f}], remote)
    BY DEF AllSound, Sound, Processes
  <2>2. OnDisk' /\ remote' = remote
    BY <1>0, <1>15 DEF Unname, OnDisk, Counted
  <2> QED
    BY <1>15, <2>1, <2>2 DEF Unname, AllSound
<1>16. ASSUME NEW f \in Paths, NEW d \in Digests \cup {None}, Retrain(f, d)
       PROVE  OnDisk' /\ AllSound'
  <2>1. content' \in Trees
    BY <1>16 DEF Retrain, OnDisk, Trees
  <2> QED
    BY <1>0, <1>16, <2>1 DEF Retrain, OnDisk, AllSound, Counted
<1>17. ASSUME NEW p \in Procs, Dies(p)
       PROVE  OnDisk' /\ AllSound'
  BY <1>0, <1>17, ReturnSound DEF Dies, disk, OnDisk, Counted
<1>18. CASE UNCHANGED vars
  BY <1>18 DEF vars, disk, OnDisk, AllSound
<1> QED
  BY <1>1, <1>2, <1>3, <1>4, <1>5, <1>6, <1>7, <1>8, <1>9, <1>10, <1>11, <1>12, <1>13,
     <1>14, <1>15, <1>16, <1>17, <1>18
  DEF Next, Start, States

(* Every variable keeps its type, and a push that is verified or recorded  *)
(* names a revision of the hub.                                            *)
THEOREM TypeCorrect == Spec => []TypeOK
BY InitType, StepType, PTL DEF Spec

-----------------------------------------------------------------------------
(* The records of the sidecar.                                             *)

Truthful(r) ==
  /\ r.state = IF r.history = <<>> THEN "active" ELSE Last(r.history)
  /\ \A k \in DOMAIN r.history :
       r.history[k] # IF k = 1 THEN "active" ELSE r.history[k - 1]

Fetchable(r, revisions) ==
  \A k \in DOMAIN r.backups :
    /\ r.backups[k].rev \in 1 .. Len(revisions)
    /\ r.backups[k].verified => Holds(revisions[r.backups[k].rev], r.backups[k].hash)

Good(r, revisions) == Truthful(r) /\ Fetchable(r, revisions)

(* What has been verified of a process is so.                              *)
Fine(r, revisions) ==
  /\ Good(r.rec, revisions)
  /\ r.verified => r.pc \in {"pushed", "loaded", "writing"}
  /\ r.verified /\ r.pc = "pushed" => Holds(revisions[r.rev], r.hash)

AllFine ==
  /\ \A p \in Procs : Fine(proc[p], remote)
  /\ side \notin {None, Blank, Garbled} => Good(side, remote)

LEMMA FreshGood ==
  ASSUME NEW s
  PROVE  Good(Fresh, s) /\ Fine(Idle, s)
BY DEF Good, Fresh, Truthful, Fetchable, Fine, Idle

LEMMA LoadGood ==
  ASSUME AllFine
  PROVE  Good(load, remote)
BY FreshGood DEF AllFine, load

LEMMA SetGood ==
  ASSUME NEW r \in Records, NEW s \in States, r.state # s, NEW revisions, Good(r, revisions)
  PROVE  Good([r EXCEPT !.state = s, !.history = Append(@, s)], revisions)
<1> DEFINE h == r.history
           new == [r EXCEPT !.state = s, !.history = Append(@, s)]
<1>1. h \in Seq(States)
  BY DEF Records
<1>2. new.state = s /\ new.history = Append(h, s) /\ new.backups = r.backups
  BY DEF Records
<1>3. /\ Append(h, s) # <<>> /\ Len(Append(h, s)) = Len(h) + 1
      /\ Append(h, s)[Len(h) + 1] = s
      /\ \A k \in 1 .. Len(h) : Append(h, s)[k] = h[k]
      /\ DOMAIN Append(h, s) = 1 .. Len(h) + 1 /\ DOMAIN h = 1 .. Len(h) /\ Len(h) \in Nat
  BY <1>1
<1>4. Last(Append(h, s)) = s
  BY <1>3 DEF Last
<1>5. ASSUME NEW k \in DOMAIN Append(h, s)
      PROVE  Append(h, s)[k] # IF k = 1 THEN "active" ELSE Append(h, s)[k - 1]
  <2>1. CASE k \in 1 .. Len(h)
    <3>1. h[k] # IF k = 1 THEN "active" ELSE h[k - 1]
      BY <1>3, <2>1 DEF Good, Truthful
    <3>2. k # 1 => k - 1 \in 1 .. Len(h)
      BY <1>3, <2>1
    <3> QED
      BY <1>3, <2>1, <3>1, <3>2
  <2>2. CASE k = Len(h) + 1
    <3>1. CASE h = <<>>
      BY <1>3, <2>2, <3>1 DEF Good, Truthful
    <3>2. CASE h # <<>>
      <4>1. Len(h) > 0 /\ r.state = h[Len(h)]
        BY <1>1, <3>2 DEF Good, Truthful, Last
      <4>2. k # 1 /\ k - 1 = Len(h) /\ Len(h) \in 1 .. Len(h)
        BY <1>3, <2>2, <4>1
      <4> QED
        BY <1>3, <2>2, <4>1, <4>2
    <3> QED
      BY <3>1, <3>2
  <2> QED
    BY <1>3, <2>1, <2>2
<1>6. Truthful(new)
  <2> HIDE DEF new, h
  <2> QED
    BY <1>2, <1>3, <1>4, <1>5 DEF Truthful
<1>7. Fetchable(new, revisions)
  BY <1>2 DEF Good, Fetchable
<1> QED
  BY <1>6, <1>7 DEF Good

LEMMA AddGood ==
  ASSUME NEW r \in Records, NEW b \in Backups, NEW revisions, Good(r, revisions),
         b.rev \in 1 .. Len(revisions), b.verified => Holds(revisions[b.rev], b.hash)
  PROVE  Good([r EXCEPT !.backups = Append(@, b)], revisions)
<1> DEFINE s == r.backups
           new == [r EXCEPT !.backups = Append(@, b)]
<1>1. s \in Seq(Backups)
  BY DEF Records
<1>2. new.state = r.state /\ new.history = r.history /\ new.backups = Append(s, b)
  BY DEF Records
<1>3. /\ DOMAIN Append(s, b) = 1 .. Len(s) + 1 /\ Append(s, b)[Len(s) + 1] = b
      /\ DOMAIN s = 1 .. Len(s) /\ Len(s) \in Nat
      /\ \A k \in 1 .. Len(s) : Append(s, b)[k] = s[k]
  BY <1>1
<1>4. Truthful(new)
  BY <1>2 DEF Good, Truthful
<1>5. \A k \in DOMAIN s : /\ s[k].rev \in 1 .. Len(revisions)
                          /\ s[k].verified => Holds(revisions[s[k].rev], s[k].hash)
  BY DEF Good, Fetchable
<1>6. \A k \in 1 .. Len(s) + 1 : k \in 1 .. Len(s) \/ k = Len(s) + 1
  BY <1>3
<1>7. Fetchable(new, revisions)
  <2> HIDE DEF new, s
  <2> QED
    BY <1>2, <1>3, <1>5, <1>6 DEF Fetchable
<1> QED
  BY <1>4, <1>7 DEF Good

(* The hub keeps the revisions that it has.                                *)
LEMMA MoreIsFine ==
  ASSUME TypeOK, AllFine, NEW h \in Trees, remote' = Append(remote, h) \/ remote' = remote
  PROVE  /\ \A p \in Procs : Fine(proc[p], remote')
         /\ side \notin {None, Blank, Garbled} => Good(side, remote')
<1>1. /\ \A k \in 1 .. Len(remote) : k \in 1 .. Len(remote') /\ remote'[k] = remote[k]
  <2>1. remote \in Seq(Trees)
    BY DEF TypeOK
  <2> QED
    BY <2>1
<1>2. ASSUME NEW r, Good(r, remote)
      PROVE  Good(r, remote')
  BY <1>1, <1>2 DEF Good, Fetchable
<1>3. ASSUME NEW p \in Procs
      PROVE  Fine(proc[p], remote')
  <2>1. Fine(proc[p], remote)
    BY DEF AllFine
  <2>2. proc[p].pc = "pushed" => proc[p].rev \in 1 .. Len(remote)
    BY DEF TypeOK
  <2> QED
    BY <1>1, <1>2, <2>1, <2>2 DEF Fine
<1> QED
  BY <1>2, <1>3 DEF AllFine

(* A step of process p after which it is fine, on the same files.          *)
LEMMA OneFine ==
  ASSUME TypeOK, AllFine, NEW p \in Procs, NEW r, Fine(r, remote), remote' = remote,
         side' \in {side, None, Blank, Garbled}, proc' = [proc EXCEPT ![p] = r]
  PROVE  AllFine'
BY DEF AllFine, TypeOK

LEMMA ReturnFine ==
  ASSUME TypeOK, AllFine, NEW p \in Procs, Return(p), remote' = remote,
         side' \in {side, None, Blank, Garbled}
  PROVE  AllFine'
BY FreshGood, OneFine DEF Return

(* Moving on, with the same record and nothing verified anew.              *)
LEMMA MoveFine ==
  ASSUME TypeOK, AllFine, NEW p \in Procs, NEW r, remote' = remote,
         side' \in {side, None, Blank, Garbled}, proc' = [proc EXCEPT ![p] = r],
         r.rec = proc[p].rec, r.verified = proc[p].verified,
         r.verified => r.pc \in {"loaded", "writing"}
  PROVE  AllFine'
<1>1. Fine(proc[p], remote)
  BY DEF AllFine
<1>2. Fine(r, remote)
  BY <1>1 DEF Fine
<1> QED
  BY <1>2, OneFine

LEMMA InitFine == Init => AllFine
BY FreshGood DEF Init, AllFine

LEMMA UpdateFine ==
  ASSUME TypeOK, AllFine, NEW p \in Procs, NEW r \in Records, Good(r, remote), Update(p, r),
         remote' = remote, side' = side
  PROVE  AllFine'
<1> DEFINE new == [proc[p] EXCEPT !.pc = "loaded", !.rec = r, !.seen = side]
<1>1. new.rec = r /\ new.pc = "loaded" /\ proc[p] \in Processes
  BY DEF TypeOK, Processes
<1>2. Fine(new, remote)
  <2> HIDE DEF new
  <2> QED
    BY <1>1 DEF Fine
<1>3. proc' = [proc EXCEPT ![p] = new]
  BY DEF Update
<1> QED
  BY <1>2, <1>3, OneFine

LEMMA StepFine == TypeOK /\ AllFine /\ [Next]_vars => AllFine'
<1> SUFFICES ASSUME TypeOK, AllFine, [Next]_vars
             PROVE  AllFine'
  OBVIOUS
<1>l. load \in Records /\ Good(load, remote)
  BY LoadType, LoadGood DEF TypeOK
<1>p. ASSUME NEW p \in Procs
      PROVE  /\ proc[p] \in Processes
             /\ proc[p].verified => proc[p].pc \in {"pushed", "loaded", "writing"}
  BY DEF TypeOK, AllFine, Fine
<1>1. ASSUME NEW p \in Procs, NEW s \in States, set_state(p, s)
      PROVE  AllFine'
  <2>1. /\ remote' = remote /\ side' = side /\ load.state # s
        /\ Update(p, [load EXCEPT !.state = s, !.history = Append(@, s)])
    BY <1>1 DEF set_state, disk
  <2> QED
    BY <1>l, <2>1, SetType, SetGood, UpdateFine
<1>2. ASSUME NEW p \in Procs, record_backup(p)
      PROVE  AllFine'
  <2> DEFINE b == [rev |-> proc[p].rev, hash |-> proc[p].hash, verified |-> proc[p].verified]
  <2>1. remote' = remote /\ side' = side /\ proc[p].pc = "pushed"
    BY <1>2 DEF record_backup, disk, At
  <2>2. Update(p, [load EXCEPT !.backups = Append(@, b)]) \/ Return(p)
    BY <1>2 DEF record_backup
  <2>3. /\ proc[p].hash \in Trees /\ proc[p].rev \in 1 .. Len(remote)
        /\ proc[p] \in Processes /\ Fine(proc[p], remote)
    BY <2>1 DEF TypeOK, AllFine
  <2>4. b \in Backups /\ b.rev \in 1 .. Len(remote) /\ (b.verified => Holds(remote[b.rev], b.hash))
    BY <2>1, <2>3 DEF Backups, Processes, Fine
  <2> HIDE DEF b
  <2>5. CASE Return(p)
    BY <2>1, <2>5, ReturnFine
  <2>6. CASE Update(p, [load EXCEPT !.backups = Append(@, b)])
    BY <1>l, <2>1, <2>4, <2>6, AddType, AddGood, UpdateFine
  <2> QED
    BY <2>2, <2>5, <2>6
<1>3. ASSUME NEW p \in Procs, Truncate(p)
      PROVE  AllFine'
  <2>1. remote' = remote /\ side' \in {side, None, Blank, Garbled}
    BY <1>3 DEF Truncate
  <2>2. Return(p) \/ proc' = [proc EXCEPT ![p] = [proc[p] EXCEPT !.pc = "writing"]]
    BY <1>3 DEF Truncate
  <2>3. [proc[p] EXCEPT !.pc = "writing"].pc = "writing"
    BY <1>p DEF Processes
  <2> QED
    BY <1>p, <2>1, <2>2, <2>3, ReturnFine, MoveFine DEF Processes
<1>4. ASSUME NEW p \in Procs, Write(p)
      PROVE  AllFine'
  <2>1. remote' = remote /\ Return(p) /\ side' \in {side, proc[p].rec, Garbled}
    BY <1>4 DEF Write
  <2>2. Good(proc[p].rec, remote)
    BY DEF AllFine, Fine
  <2>3. CASE side' \in {side, Garbled}
    BY <2>1, <2>3, ReturnFine
  <2>4. CASE side' = proc[p].rec
    <3>1. \A q \in Procs : Fine(proc'[q], remote')
      BY <2>1, FreshGood DEF Return, AllFine, TypeOK
    <3> QED
      BY <2>1, <2>2, <2>4, <3>1 DEF AllFine
  <2> QED
    BY <2>1, <2>3, <2>4
(* Steps of a process that has verified nothing.                           *)
<1>5. ASSUME NEW p \in Procs, ~proc[p].verified,
             NEW r, r.rec = proc[p].rec, r.verified = proc[p].verified,
             Return(p) \/ proc' = [proc EXCEPT ![p] = r],
             remote' = remote, side' \in {side, None, Blank, Garbled}
      PROVE  AllFine'
  BY <1>5, ReturnFine, MoveFine
<1>6. ASSUME NEW p \in Procs, find_holders(p)
      PROVE  AllFine'
  <2> DEFINE r == [proc[p] EXCEPT !.pc = "scan", !.todo = Files, !.since = names, !.unread = {}]
  <2>1. r.rec = proc[p].rec /\ r.verified = proc[p].verified /\ ~proc[p].verified
    BY <1>6, <1>p DEF Processes, find_holders, At
  <2>2. proc' = [proc EXCEPT ![p] = r] /\ remote' = remote /\ side' = side
    BY <1>6 DEF find_holders, disk
  <2> HIDE DEF r
  <2> QED
    BY <1>5, <2>1, <2>2
<1>7. ASSUME NEW p \in Procs, NEW f \in Files, Scan(p, f)
      PROVE  AllFine'
  <2> DEFINE r == [proc[p] EXCEPT !.todo = @ \ {f}]
             t == [proc[p] EXCEPT !.todo = @ \ {f}, !.unread = @ \cup {f}]
  <2>1. /\ r.rec = proc[p].rec /\ r.verified = proc[p].verified /\ ~proc[p].verified
        /\ t.rec = proc[p].rec /\ t.verified = proc[p].verified
    BY <1>7, <1>p DEF Processes, Scan, At
  <2>2. /\ \/ Return(p) \/ proc' = [proc EXCEPT ![p] = r]
           \/ proc' = [proc EXCEPT ![p] = t]
        /\ remote' = remote /\ side' = side
    <3>1. remote' = remote /\ side' = side
      BY <1>7 DEF Scan, disk
    <3> QED
      BY <1>7, <3>1, ScanWays
  <2> HIDE DEF r, t
  <2> QED
    BY <1>5, <2>1, <2>2
<1>8. ASSUME NEW p \in Procs, delete(p)
      PROVE  AllFine'
  <2> DEFINE r == [proc[p] EXCEPT !.pc = "rmtree", !.todo = {"manifest", "side"}]
  <2>1. r.rec = proc[p].rec /\ r.verified = proc[p].verified /\ ~proc[p].verified
    BY <1>8, <1>p DEF Processes, delete, At
  <2>2. (Return(p) \/ proc' = [proc EXCEPT ![p] = r]) /\ remote' = remote /\ side' = side
    BY <1>8 DEF delete, disk
  <2> HIDE DEF r
  <2> QED
    BY <1>5, <2>1, <2>2
<1>9. ASSUME NEW p \in Procs, NEW x \in {"manifest", "side"}, Unlink(p, x)
      PROVE  AllFine'
  <2>1. remote' = remote /\ side' \in {side, None, Blank, Garbled}
    BY <1>9 DEF Unlink
  <2> DEFINE r == [proc[p] EXCEPT !.todo = @ \ {x}]
             rest == [proc EXCEPT ![p] = r]
  <2>2. r.rec = proc[p].rec /\ r.verified = proc[p].verified /\ ~proc[p].verified
    BY <1>9, <1>p DEF Processes, Unlink, At
  <2>3. \/ Return(p) \/ proc' = rest
        \/ proc' = [q \in Procs |-> IF At(q, "writing") THEN [proc[q] EXCEPT !.linked = FALSE]
                                    ELSE rest[q]]
    <3>1. rest = [proc EXCEPT ![p].todo = @ \ {x}]
      OBVIOUS
    <3> HIDE DEF rest
    <3> QED
      BY <1>9, <3>1, Zenon DEF Unlink
  <2>4. CASE Return(p) \/ proc' = rest
    <3> HIDE DEF r
    <3> QED
      BY <1>5, <2>1, <2>2, <2>4
  <2>5. CASE proc' = [q \in Procs |-> IF At(q, "writing") THEN [proc[q] EXCEPT !.linked = FALSE]
                                      ELSE rest[q]]
    <3>1. ASSUME NEW q \in Procs
          PROVE  Fine([proc[q] EXCEPT !.linked = FALSE], remote)
      <4>1. proc[q] \in Processes /\ Fine(proc[q], remote)
        BY <1>p DEF AllFine
      <4> QED
        BY <4>1 DEF Fine, Processes
    <3>2. Fine(r, remote)
      <4>1. Fine(proc[p], remote)
        BY DEF AllFine
      <4> HIDE DEF r
      <4> QED
        BY <2>2, <4>1 DEF Fine
    <3>3. \A q \in Procs : Fine(rest[q], remote)
      <4> HIDE DEF r
      <4> QED
        BY <3>2 DEF AllFine, TypeOK
    <3> HIDE DEF rest
    <3>4. \A q \in Procs : Fine(proc'[q], remote')
      BY <2>1, <2>5, <3>1, <3>3
    <3> QED
      BY <2>1, <3>4 DEF AllFine
  <2> QED
    BY <2>3, <2>4, <2>5
<1>10. ASSUME NEW p \in Procs, Rmdir(p) \/ Dies(p)
       PROVE  AllFine'
  <2>1. Return(p) /\ remote' = remote /\ side' = side
    BY <1>10 DEF Rmdir, Dies, disk
  <2> QED
    BY <2>1, ReturnFine
<1>11. ASSUME NEW p \in Procs, discover_artifacts(p)
       PROVE  AllFine'
  <2> DEFINE r == [proc[p] EXCEPT !.pc = "found", !.hash = content]
  <2>1. r.rec = proc[p].rec /\ r.verified = proc[p].verified /\ ~proc[p].verified
    BY <1>11, <1>p DEF Processes, discover_artifacts, At
  <2>2. proc' = [proc EXCEPT ![p] = r] /\ remote' = remote /\ side' = side
    BY <1>11 DEF discover_artifacts, disk
  <2> HIDE DEF r
  <2> QED
    BY <1>5, <2>1, <2>2
<1>12. ASSUME NEW p \in Procs, already_backed_up(p)
       PROVE  AllFine'
  <2> DEFINE r == [proc[p] EXCEPT !.pc = "push"]
  <2>1. r.rec = proc[p].rec /\ r.verified = proc[p].verified /\ ~proc[p].verified
    BY <1>12, <1>p DEF Processes, already_backed_up, At
  <2>2. (Return(p) \/ proc' = [proc EXCEPT ![p] = r]) /\ remote' = remote /\ side' = side
    BY <1>12 DEF already_backed_up, disk
  <2> HIDE DEF r
  <2> QED
    BY <1>5, <2>1, <2>2
<1>13. ASSUME NEW p \in Procs, push_artifact(p)
       PROVE  AllFine'
  <2>1. CASE ~manifest
    BY <1>13, <2>1, ReturnFine DEF push_artifact
  <2>2. CASE manifest
    <3> DEFINE r == [proc[p] EXCEPT !.pc = "verify", !.rev = Len(remote')]
    <3>1. r.rec = proc[p].rec /\ ~r.verified
      BY <1>13, <1>p DEF Processes, push_artifact, At
    <3>2. /\ proc' = [proc EXCEPT ![p] = r] /\ side' = side /\ Upload \in Trees
          /\ remote' = Append(remote, Upload) \/ remote' = remote
      BY <1>13, <2>2, UploadType DEF push_artifact, TypeOK
    <3>3. /\ \A q \in Procs : Fine(proc[q], remote')
          /\ side \notin {None, Blank, Garbled} => Good(side, remote')
      BY <3>2, MoreIsFine
    <3> HIDE DEF r
    <3>4. Fine(r, remote')
      BY <3>1, <3>3 DEF Fine
    <3> QED
      BY <3>2, <3>3, <3>4 DEF AllFine, TypeOK
  <2> QED
    BY <2>1, <2>2
<1>14. ASSUME NEW p \in Procs, verify_artifact(p) \/ no_verify(p)
       PROVE  AllFine'
  <2>1. remote' = remote /\ side' = side /\ proc[p].pc = "verify" /\ ~proc[p].verified
    BY <1>14, <1>p DEF verify_artifact, no_verify, disk, At
  <2>2. CASE verify_artifact(p)
    <3> DEFINE r == [proc[p] EXCEPT !.pc = "pushed", !.verified = TRUE]
    <3>1. /\ r.rec = proc[p].rec /\ r.pc = "pushed" /\ r.rev = proc[p].rev
          /\ r.hash = proc[p].hash
      BY <1>p DEF Processes
    <3>2. Return(p) \/ (proc' = [proc EXCEPT ![p] = r] /\ Holds(remote[proc[p].rev], proc[p].hash))
      BY <2>2 DEF verify_artifact
    <3>3. Fine(proc[p], remote)
      BY DEF AllFine
    <3> HIDE DEF r
    <3>4. CASE Return(p)
      BY <2>1, <3>4, ReturnFine
    <3>5. CASE proc' = [proc EXCEPT ![p] = r] /\ Holds(remote[proc[p].rev], proc[p].hash)
      <4>1. Fine(r, remote)
        BY <3>1, <3>3, <3>5 DEF Fine
      <4> QED
        BY <2>1, <3>5, <4>1, OneFine
    <3> QED
      BY <3>2, <3>4, <3>5
  <2>3. CASE no_verify(p)
    <3> DEFINE r == [proc[p] EXCEPT !.pc = "pushed"]
    <3>1. r.rec = proc[p].rec /\ r.verified = proc[p].verified
      BY <1>p DEF Processes
    <3>2. proc' = [proc EXCEPT ![p] = r]
      BY <2>3 DEF no_verify
    <3> HIDE DEF r
    <3> QED
      BY <1>5, <2>1, <3>1, <3>2
  <2> QED
    BY <1>14, <2>2, <2>3
<1>15. ASSUME NEW f \in Files, Unname(f)
       PROVE  AllFine'
  <2>1. ASSUME NEW q \in Procs
        PROVE  Fine([proc[q] EXCEPT !.since = @ \ {f}], remote)
    <3>1. proc[q] \in Processes /\ Fine(proc[q], remote)
      BY <1>p DEF AllFine
    <3> QED
      BY <3>1 DEF Fine, Processes
  <2> QED
    BY <1>15, <2>1 DEF Unname, AllFine
<1>16. ASSUME UNCHANGED <<proc, remote, side>>
       PROVE  AllFine'
  BY <1>16 DEF AllFine
<1>17. ASSUME \/ \E f \in Files : Name(f)
              \/ \E f \in Paths, d \in Digests \cup {None} : Retrain(f, d)
              \/ UNCHANGED vars
       PROVE  AllFine'
  BY <1>16, <1>17 DEF Name, Retrain, vars, disk
<1> QED
  BY <1>1, <1>2, <1>3, <1>4, <1>6, <1>7, <1>8, <1>9, <1>10, <1>11, <1>12, <1>13, <1>14,
     <1>15, <1>17
  DEF Next, Start, States

LEMMA AlwaysFine == Spec => []AllFine
<1>1. Init => AllFine
  BY InitFine
<1>2. TypeOK /\ AllFine /\ [Next]_vars => AllFine'
  BY StepFine
<1> QED
  BY <1>1, <1>2, TypeCorrect, PTL DEF Spec

(* Whatever crosses or is lost, what can be read of a sidecar is a         *)
(* succession of changes of state (set_state, record_backup).              *)
THEOREM HistoriesAlternate == Spec => []HistoryAlternates
<1>1. AllFine => HistoryAlternates
  BY DEF AllFine, Good, Truthful, HistoryAlternates, Readable
<1> QED
  BY <1>1, AlwaysFine, PTL

(* A backup that was verified can be fetched, whatever became of the files *)
(* since they were hashed (discover_artifacts, verify_artifact).           *)
THEOREM VerifiedBackups == Spec => []VerifiedIsFetchable
<1>1. AllFine => VerifiedIsFetchable
  BY DEF AllFine, Good, Fetchable, VerifiedIsFetchable, Readable, ToSet
<1> QED
  BY <1>1, AlwaysFine, PTL

-----------------------------------------------------------------------------
(* Deletions.                                                              *)

(* What is not yet scanned, or could not be, holds all that named the      *)
(* artifact before.                                                        *)
Spares(r, named) ==
  /\ r.pc = "scan" => r.since \subseteq (r.todo \cup r.unread) \cap named
  /\ r.pc = "rmtree" => r.since \subseteq r.unread

AllSpare == \A p \in Procs : Spares(proc[p], names)

LEMMA OneSpares ==
  ASSUME TypeOK, AllSpare, names' = names, NEW p \in Procs, NEW r, Spares(r, names),
         proc' = [proc EXCEPT ![p] = r]
  PROVE  AllSpare'
BY DEF TypeOK, AllSpare

(* A step that ends outside of a deletion.                                 *)
LEMMA OtherSpares ==
  ASSUME TypeOK, AllSpare, names' = names, NEW p \in Procs, NEW r,
         r.pc \notin {"scan", "rmtree"}, proc' = [proc EXCEPT ![p] = r]
  PROVE  AllSpare'
BY OneSpares DEF Spares

LEMMA StepSpares == TypeOK /\ AllSpare /\ [Next]_vars => AllSpare'
<1> SUFFICES ASSUME TypeOK, AllSpare, [Next]_vars
             PROVE  AllSpare'
  OBVIOUS
<1>p. \A p \in Procs : proc[p] \in Processes
  BY DEF TypeOK
<1>r. ASSUME NEW p \in Procs, Return(p), names' = names
      PROVE  AllSpare'
  BY <1>r, OtherSpares DEF Return, Idle
<1>u. ASSUME NEW p \in Procs, NEW r, Update(p, r), names' = names
      PROVE  AllSpare'
  <2> DEFINE new == [proc[p] EXCEPT !.pc = "loaded", !.rec = r, !.seen = side]
  <2>1. new.pc = "loaded"
    BY <1>p DEF Processes
  <2>2. proc' = [proc EXCEPT ![p] = new]
    BY <1>u DEF Update
  <2> QED
    BY <1>u, <2>1, <2>2, OtherSpares
<1>1. ASSUME NEW p \in Procs, \/ \E s \in States : set_state(p, s)
                              \/ record_backup(p)
      PROVE  AllSpare'
  BY <1>1, <1>r, <1>u DEF set_state, record_backup, disk
<1>2. ASSUME NEW p \in Procs, Write(p) \/ Rmdir(p) \/ Dies(p)
      PROVE  AllSpare'
  BY <1>2, <1>r DEF Write, Rmdir, Dies, disk
<1>3. ASSUME NEW p \in Procs,
             \/ Truncate(p) \/ discover_artifacts(p) \/ already_backed_up(p)
             \/ push_artifact(p) \/ verify_artifact(p) \/ no_verify(p)
      PROVE  AllSpare'
  <2>1. names' = names
    BY <1>3 DEF Truncate, discover_artifacts, already_backed_up, push_artifact,
                verify_artifact, no_verify, disk
  <2>2. ASSUME NEW r, proc' = [proc EXCEPT ![p] = r],
               r.pc \in {"writing", "found", "push", "verify", "pushed"}
        PROVE  AllSpare'
    BY <2>1, <2>2, OtherSpares
  <2>3. CASE Truncate(p)
    <3>1. [proc[p] EXCEPT !.pc = "writing"].pc = "writing"
      BY <1>p DEF Processes
    <3> QED
      BY <1>r, <2>1, <2>2, <2>3, <3>1 DEF Truncate
  <2>4. CASE discover_artifacts(p)
    <3>1. [proc[p] EXCEPT !.pc = "found", !.hash = content].pc = "found"
      BY <1>p DEF Processes
    <3> QED
      BY <2>2, <2>4, <3>1 DEF discover_artifacts
  <2>5. CASE already_backed_up(p)
    <3>1. [proc[p] EXCEPT !.pc = "push"].pc = "push"
      BY <1>p DEF Processes
    <3> QED
      BY <1>r, <2>1, <2>2, <2>5, <3>1 DEF already_backed_up
  <2>6. CASE push_artifact(p)
    <3>1. [proc[p] EXCEPT !.pc = "verify", !.rev = Len(remote')].pc = "verify"
      BY <1>p DEF Processes
    <3> QED
      BY <1>r, <2>1, <2>2, <2>6, <3>1 DEF push_artifact
  <2>7. CASE verify_artifact(p)
    <3>1. [proc[p] EXCEPT !.pc = "pushed", !.verified = TRUE].pc = "pushed"
      BY <1>p DEF Processes
    <3> QED
      BY <1>r, <2>1, <2>2, <2>7, <3>1 DEF verify_artifact
  <2>8. CASE no_verify(p)
    <3>1. [proc[p] EXCEPT !.pc = "pushed"].pc = "pushed"
      BY <1>p DEF Processes
    <3> QED
      BY <2>2, <2>8, <3>1 DEF no_verify
  <2> QED
    BY <1>3, <2>3, <2>4, <2>5, <2>6, <2>7, <2>8
<1>4. ASSUME NEW p \in Procs, find_holders(p)
      PROVE  AllSpare'
  <2> DEFINE new == [proc[p] EXCEPT !.pc = "scan", !.todo = Files, !.since = names, !.unread = {}]
  <2>1. new.pc = "scan" /\ new.todo = Files /\ new.since = names /\ new.unread = {}
    BY <1>p DEF Processes
  <2>2. Spares(new, names)
    BY <2>1 DEF Spares, TypeOK
  <2>3. proc' = [proc EXCEPT ![p] = new] /\ names' = names
    BY <1>4 DEF find_holders, disk
  <2> QED
    BY <2>2, <2>3, OneSpares
<1>5. ASSUME NEW p \in Procs, NEW f \in Files, Scan(p, f)
      PROVE  AllSpare'
  <2> DEFINE new == [proc[p] EXCEPT !.todo = @ \ {f}]
             skip == [proc[p] EXCEPT !.todo = @ \ {f}, !.unread = @ \cup {f}]
  <2>1. /\ new.pc = "scan" /\ new.todo = proc[p].todo \ {f} /\ new.since = proc[p].since
        /\ new.unread = proc[p].unread
        /\ proc[p].pc = "scan"
    BY <1>5, <1>p DEF Scan, At, Processes
  <2>2. names' = names
    BY <1>5 DEF Scan, disk
  <2>3. CASE Return(p)
    BY <1>r, <2>2, <2>3
  <2>4. CASE f \notin names /\ proc' = [proc EXCEPT ![p] = new]
    <3>1. Spares(new, names)
      BY <2>1, <2>4 DEF AllSpare, Spares
    <3> QED
      BY <2>2, <2>4, <3>1, OneSpares
  <2>5. CASE proc' = [proc EXCEPT ![p] = skip]
    <3>1. /\ skip.pc = "scan" /\ skip.todo = proc[p].todo \ {f}
          /\ skip.since = proc[p].since /\ skip.unread = proc[p].unread \cup {f}
      BY <2>1, <1>p DEF Processes
    <3>2. Spares(skip, names)
      BY <2>1, <3>1 DEF AllSpare, Spares
    <3> QED
      BY <2>2, <2>5, <3>2, OneSpares
  <2> HIDE DEF new, skip
  <2>6. \/ Return(p)
        \/ f \notin names /\ proc' = [proc EXCEPT ![p] = new]
        \/ proc' = [proc EXCEPT ![p] = skip]
    BY <1>5, ScanWays, Zenon DEF new, skip
  <2> QED
    BY <2>3, <2>4, <2>5, <2>6
<1>6. ASSUME NEW p \in Procs, delete(p)
      PROVE  AllSpare'
  <2> DEFINE new == [proc[p] EXCEPT !.pc = "rmtree", !.todo = {"manifest", "side"}]
  <2>1. new.pc = "rmtree" /\ new.since = proc[p].since /\ new.unread = proc[p].unread
    BY <1>p DEF Processes
  <2>2. names' = names /\ proc[p].pc = "scan" /\ proc[p].todo = {}
    BY <1>6 DEF delete, disk, At
  <2>3. Spares(new, names)
    BY <2>1, <2>2 DEF AllSpare, Spares
  <2>4. Return(p) \/ proc' = [proc EXCEPT ![p] = new]
    BY <1>6 DEF delete
  <2> QED
    BY <1>r, <2>2, <2>3, <2>4, OneSpares
<1>7. ASSUME NEW p \in Procs, NEW x \in {"manifest", "side"}, Unlink(p, x)
      PROVE  AllSpare'
  <2> DEFINE new == [proc[p] EXCEPT !.todo = @ \ {x}]
             rest == [proc EXCEPT ![p] = new]
  <2>1. Spares(new, names)
    BY <1>7, <1>p DEF AllSpare, Spares, Processes, Unlink, At
  <2>2. names' = names
    BY <1>7 DEF Unlink
  <2>3. \A q \in Procs : rest[q] \in Processes /\ Spares(rest[q], names)
    BY <1>p, <2>1 DEF AllSpare, Processes
  <2>4. ASSUME NEW q \in Procs
        PROVE  Spares([proc[q] EXCEPT !.linked = FALSE], names)
    BY <1>p DEF AllSpare, Spares, Processes
  <2>5. CASE proc' = rest
    BY <2>1, <2>2, <2>5, OneSpares
  <2>6. CASE proc' = [q \in Procs |-> IF At(q, "writing")
                                      THEN [proc[q] EXCEPT !.linked = FALSE] ELSE rest[q]]
    <3> HIDE DEF rest
    <3> QED
      BY <2>2, <2>3, <2>4, <2>6 DEF AllSpare
  <2>7. rest = [proc EXCEPT ![p].todo = @ \ {x}]
    OBVIOUS
  <2>8. CASE Return(p)
    BY <1>r, <2>2, <2>8
  <2> HIDE DEF rest
  <2> QED
    BY <1>7, <2>5, <2>6, <2>7, <2>8, Zenon DEF Unlink
<1>8. ASSUME NEW f \in Files, Name(f)
      PROVE  AllSpare'
  BY <1>8 DEF Name, AllSpare, Spares
<1>9. ASSUME NEW f \in Files, Unname(f)
      PROVE  AllSpare'
  <2>1. ASSUME NEW q \in Procs
        PROVE  Spares([proc[q] EXCEPT !.since = @ \ {f}], names \ {f})
    <3>1. Spares(proc[q], names) /\ proc[q] \in Processes
      BY <1>p DEF AllSpare
    <3> QED
      BY <3>1 DEF Spares, Processes
  <2> QED
    BY <1>9, <2>1 DEF Unname, AllSpare
<1>10. ASSUME (\E f \in Paths, d \in Digests \cup {None} : Retrain(f, d)) \/ UNCHANGED vars
       PROVE  AllSpare'
  BY <1>10 DEF Retrain, vars, disk, AllSpare
<1> QED
  BY <1>1, <1>2, <1>3, <1>4, <1>5, <1>6, <1>7, <1>8, <1>9, <1>10
  DEF Next, Start, States

(* A deletion spares what a file named before it looked, and names still   *)
(* (find_holders, delete).                                                 *)
THEOREM NamedSpared == Spec => []NamedIsKept
<1>1. Init => AllSpare
  BY DEF Init, AllSpare, Spares, Idle
<1>2. TypeOK /\ AllSpare /\ [Next]_vars => AllSpare'
  BY StepSpares
<1>3. AllSpare => NamedIsKept
  BY DEF AllSpare, Spares, NamedIsKept, At
<1> QED
  BY <1>1, <1>2, <1>3, TypeCorrect, PTL DEF Spec

-----------------------------------------------------------------------------
(* What the verbs that returned have made of the artifact.                 *)

Read(x) == IF x \in {None, Blank, Garbled} THEN Fresh ELSE x

(* A process that neither removes the artifact nor has lost its file, and  *)
(* that forgets no backup of what it read.                                 *)
Clear(r) ==
  /\ r.pc # "rmtree" /\ r.linked
  /\ r.pc = "loaded" => Revisions(Read(r.seen)) \subseteq Revisions(r.rec)

(* One process writes, or the sidecar is what the last one wrote.          *)
Settled ==
  /\ \A p \in Procs : Clear(proc[p])
  /\ (\A p \in Procs : ~At(p, "writing")) =>
       load.state = kept.state /\ kept.revs = Revisions(load)
  /\ \A p \in Procs : At(p, "writing") =>
       /\ side = Blank /\ kept.revs \subseteq Revisions(proc[p].rec)
       /\ \A q \in Procs : At(q, "writing") => q = p

LEMMA LoadRead == load = Read(side)
BY DEF load, Read

LEMMA IdleClear == Clear(Idle) /\ Idle.pc = "idle"
BY DEF Clear, Idle

(* A step of a process that does not write.                                *)
LEMMA OneClear ==
  ASSUME TypeOK, Settled, UNCHANGED <<side, kept>>, NEW p \in Procs, ~At(p, "writing"),
         NEW r, Clear(r), r.pc # "writing", proc' = [proc EXCEPT ![p] = r]
  PROVE  Settled'
<1>1. \A q \in Procs : proc'[q] = IF q = p THEN r ELSE proc[q]
  BY DEF TypeOK
<1>2. load' = load
  BY DEF load
<1>3. \A q \in Procs : At(q, "writing")' <=> At(q, "writing")
  BY <1>1 DEF At
<1>4. \A q \in Procs : At(q, "writing") => proc'[q] = proc[q]
  BY <1>1
<1>5. (\A q \in Procs : Clear(proc[q]))'
  BY <1>1 DEF Settled
<1> QED
  BY <1>2, <1>3, <1>4, <1>5, Zenon DEF Settled

LEMMA ReturnClear ==
  ASSUME TypeOK, Settled, UNCHANGED <<side, kept>>, NEW p \in Procs, ~At(p, "writing"),
         Return(p)
  PROVE  Settled'
BY IdleClear, OneClear DEF Return

LEMMA UpdateClear ==
  ASSUME TypeOK, Settled, UNCHANGED <<side, kept>>, NEW p \in Procs, ~At(p, "writing"),
         NEW r, Revisions(load) \subseteq Revisions(r), Update(p, r)
  PROVE  Settled'
<1> DEFINE new == [proc[p] EXCEPT !.pc = "loaded", !.rec = r, !.seen = side]
<1>1. /\ new.pc = "loaded" /\ new.rec = r /\ new.seen = side
      /\ new.linked = proc[p].linked
  BY DEF TypeOK, Processes
<1>2. Clear(new)
  <2> HIDE DEF new
  <2> QED
    BY <1>1, LoadRead DEF Clear, Settled
<1>3. proc' = [proc EXCEPT ![p] = new]
  BY DEF Update
<1> QED
  BY <1>1, <1>2, <1>3, OneClear

LEMMA AddRevisions ==
  ASSUME NEW r \in Records, NEW b \in Backups
  PROVE  Revisions(r) \subseteq Revisions([r EXCEPT !.backups = Append(@, b)])
<1>1. r.backups \in Seq(Backups)
  BY DEF Records
<1>2. ToSet(r.backups) \subseteq ToSet(Append(r.backups, b))
  BY <1>1 DEF ToSet
<1>3. [r EXCEPT !.backups = Append(@, b)].backups = Append(r.backups, b)
  BY DEF Records
<1> QED
  BY <1>2, <1>3 DEF Revisions

LEMMA StepSettled == TypeOK /\ (~spoilt => Settled) /\ [Next]_vars => (~spoilt => Settled)'
<1> SUFFICES ASSUME TypeOK, ~spoilt => Settled, [Next]_vars, ~spoilt'
             PROVE  Settled'
  OBVIOUS
<1>0. ~spoilt
  BY DEF Next, Start, set_state, record_backup, Truncate, Write, find_holders, Scan, delete,
         Unlink, Rmdir, discover_artifacts, already_backed_up, push_artifact,
         verify_artifact, no_verify, Name, Unname, Retrain, Dies, vars, TypeOK
<1>s. Settled
  BY <1>0
<1>p. \A p \in Procs : proc[p] \in Processes /\ Clear(proc[p])
  BY <1>s DEF TypeOK, Settled
<1>l. load \in Records
  BY LoadType DEF TypeOK
<1>m. ASSUME NEW p \in Procs, UNCHANGED <<side, kept>>, ~At(p, "writing"), NEW r,
             r.linked = proc[p].linked, r.pc \notin {"rmtree", "loaded", "writing"},
             proc' = [proc EXCEPT ![p] = r]
      PROVE  Settled'
  <2>1. Clear(r)
    BY <1>p, <1>m DEF Clear
  <2> QED
    BY <1>s, <1>m, <2>1, OneClear
<1>1. ASSUME NEW p \in Procs, NEW s \in States, set_state(p, s)
      PROVE  Settled'
  <2> DEFINE r == [load EXCEPT !.state = s, !.history = Append(@, s)]
  <2>1. Revisions(load) \subseteq Revisions(r)
    BY <1>l DEF Records, Revisions
  <2>2. UNCHANGED <<side, kept>> /\ ~At(p, "writing") /\ Update(p, r)
    BY <1>1 DEF set_state, disk, At
  <2> HIDE DEF r
  <2> QED
    BY <1>s, <2>1, <2>2, UpdateClear
<1>2. ASSUME NEW p \in Procs, record_backup(p)
      PROVE  Settled'
  <2> DEFINE b == [rev |-> proc[p].rev, hash |-> proc[p].hash, verified |-> proc[p].verified]
             r == [load EXCEPT !.backups = Append(@, b)]
  <2>1. UNCHANGED <<side, kept>> /\ At(p, "pushed") /\ ~At(p, "writing")
    BY <1>2 DEF record_backup, disk, At
  <2>2. b \in Backups
    BY <1>p, <2>1 DEF TypeOK, Processes, At, Backups
  <2>3. Revisions(load) \subseteq Revisions(r)
    BY <1>l, <2>2, AddRevisions
  <2>4. Update(p, r) \/ Return(p)
    BY <1>2 DEF record_backup
  <2> HIDE DEF r
  <2> QED
    BY <1>s, <2>1, <2>3, <2>4, UpdateClear, ReturnClear
<1>3. ASSUME NEW p \in Procs, Truncate(p)
      PROVE  Settled'
  <2>1. UNCHANGED kept /\ At(p, "loaded") /\ ~At(p, "writing")
    BY <1>3 DEF Truncate, At
  <2>2. CASE gone
    <3>1. Return(p) /\ UNCHANGED side
      BY <1>3, <2>2 DEF Truncate
    <3> QED
      BY <1>s, <2>1, <3>1, ReturnClear
  <2>3. CASE ~gone
    <3> DEFINE r == [proc[p] EXCEPT !.pc = "writing"]
    <3>1. /\ side' = Blank /\ side = proc[p].seen /\ proc' = [proc EXCEPT ![p] = r]
          /\ \A q \in Procs : ~At(q, "writing")
      BY <1>3, <2>3 DEF Truncate
    <3>2. r.pc = "writing" /\ r.rec = proc[p].rec /\ r.linked = proc[p].linked
      BY <1>p DEF Processes
    <3>3. kept.revs \subseteq Revisions(proc[p].rec)
      BY <1>p, <1>s, <2>1, <3>1, LoadRead DEF Clear, Settled, At
    <3>4. Clear(r)
      BY <1>p, <3>2 DEF Clear
    <3> HIDE DEF r
    <3>5. \A q \in Procs : proc'[q] = IF q = p THEN r ELSE proc[q]
      BY <3>1 DEF TypeOK
    <3>6. \A q \in Procs : At(q, "writing")' => q = p
      BY <3>1, <3>5 DEF At
    <3>7. At(p, "writing")'
      BY <3>2, <3>5 DEF At
    <3>8. (\A q \in Procs : Clear(proc[q]))'
      BY <1>p, <3>4, <3>5
    <3>9. kept'.revs \subseteq Revisions(proc'[p].rec)
      BY <2>1, <3>2, <3>3, <3>5
    <3> QED
      BY <3>1, <3>6, <3>7, <3>8, <3>9 DEF Settled
  <2> QED
    BY <2>2, <2>3
<1>4. ASSUME NEW p \in Procs, Write(p)
      PROVE  Settled'
  <2> DEFINE r == proc[p].rec
  <2>1. /\ proc[p].linked /\ side = Blank /\ kept.revs \subseteq Revisions(r)
        /\ \A q \in Procs : At(q, "writing") => q = p
    BY <1>4, <1>p, <1>s DEF Write, Settled, Clear
  <2>2. /\ side' = r /\ proc' = [proc EXCEPT ![p] = Idle]
        /\ kept' = [state |-> r.state, revs |-> kept.revs \cup Revisions(r)]
    BY <1>4, <2>1 DEF Write, Return
  <2>3. r \notin {None, Blank, Garbled}
    BY <1>p, ArtifactAssumption DEF Processes
  <2>4. load' = r
    BY <2>2, <2>3 DEF load
  <2>5. kept'.state = r.state /\ kept'.revs = Revisions(r)
    BY <2>1, <2>2
  <2>6. \A q \in Procs : proc'[q] = IF q = p THEN Idle ELSE proc[q]
    BY <2>2 DEF TypeOK
  <2>7. \A q \in Procs : ~At(q, "writing")'
    BY <2>1, <2>6, IdleClear DEF At
  <2>8. (\A q \in Procs : Clear(proc[q]))'
    BY <1>p, <2>6, IdleClear
  <2> HIDE DEF r
  <2> QED
    BY <2>4, <2>5, <2>7, <2>8 DEF Settled
<1>5. ASSUME NEW p \in Procs, find_holders(p)
      PROVE  Settled'
  <2> DEFINE r == [proc[p] EXCEPT !.pc = "scan", !.todo = Files, !.since = names, !.unread = {}]
  <2>1. r.pc = "scan" /\ r.linked = proc[p].linked
    BY <1>p DEF Processes
  <2>2. proc' = [proc EXCEPT ![p] = r] /\ UNCHANGED <<side, kept>> /\ ~At(p, "writing")
    BY <1>5 DEF find_holders, disk, At
  <2> QED
    BY <1>m, <2>1, <2>2
<1>6. ASSUME NEW p \in Procs, NEW f \in Files, Scan(p, f)
      PROVE  Settled'
  <2> DEFINE r == [proc[p] EXCEPT !.todo = @ \ {f}]
             t == [proc[p] EXCEPT !.todo = @ \ {f}, !.unread = @ \cup {f}]
  <2>1. /\ r.pc = "scan" /\ r.linked = proc[p].linked
        /\ t.pc = "scan" /\ t.linked = proc[p].linked
    BY <1>6, <1>p DEF Processes, Scan, At
  <2>2. /\ proc' = [proc EXCEPT ![p] = r] \/ proc' = [proc EXCEPT ![p] = t] \/ Return(p)
        /\ UNCHANGED <<side, kept>> /\ ~At(p, "writing")
    <3>1. UNCHANGED <<side, kept>> /\ ~At(p, "writing")
      BY <1>6 DEF Scan, disk, At
    <3> QED
      BY <1>6, <3>1, ScanWays
  <2> HIDE DEF r, t
  <2> QED
    BY <1>m, <1>s, <2>1, <2>2, ReturnClear
<1>7. ASSUME NEW p \in Procs, delete(p) \/ (Dies(p) /\ ~At(p, "writing"))
      PROVE  Settled'
  <2>1. Return(p) /\ UNCHANGED <<side, kept>> /\ ~At(p, "writing")
    BY <1>7 DEF delete, Dies, disk, At
  <2> QED
    BY <1>s, <2>1, ReturnClear
<1>8. ASSUME NEW p \in Procs, \/ Rmdir(p) \/ (Dies(p) /\ At(p, "writing"))
                              \/ \E x \in {"manifest", "side"} : Unlink(p, x)
      PROVE  Settled'
  BY <1>8, <1>p DEF Rmdir, Unlink, Clear, Dies, At
<1>9. ASSUME NEW p \in Procs, discover_artifacts(p)
      PROVE  Settled'
  <2> DEFINE r == [proc[p] EXCEPT !.pc = "found", !.hash = content]
  <2>1. r.pc = "found" /\ r.linked = proc[p].linked
    BY <1>p DEF Processes
  <2>2. proc' = [proc EXCEPT ![p] = r] /\ UNCHANGED <<side, kept>> /\ ~At(p, "writing")
    BY <1>9 DEF discover_artifacts, disk, At
  <2> QED
    BY <1>m, <2>1, <2>2
<1>10. ASSUME NEW p \in Procs, already_backed_up(p)
       PROVE  Settled'
  <2> DEFINE r == [proc[p] EXCEPT !.pc = "push"]
  <2>1. r.pc = "push" /\ r.linked = proc[p].linked
    BY <1>p DEF Processes
  <2>2. /\ proc' = [proc EXCEPT ![p] = r] \/ Return(p)
        /\ UNCHANGED <<side, kept>> /\ ~At(p, "writing")
    BY <1>10 DEF already_backed_up, disk, At
  <2> QED
    BY <1>m, <1>s, <2>1, <2>2, ReturnClear
<1>11. ASSUME NEW p \in Procs, push_artifact(p)
       PROVE  Settled'
  <2> DEFINE r == [proc[p] EXCEPT !.pc = "verify", !.rev = Len(remote')]
  <2>1. r.pc = "verify" /\ r.linked = proc[p].linked
    BY <1>p DEF Processes
  <2>2. /\ proc' = [proc EXCEPT ![p] = r] \/ Return(p)
        /\ UNCHANGED <<side, kept>> /\ ~At(p, "writing")
    BY <1>11 DEF push_artifact, At
  <2> QED
    BY <1>m, <1>s, <2>1, <2>2, ReturnClear
<1>12. ASSUME NEW p \in Procs, verify_artifact(p) \/ no_verify(p)
       PROVE  Settled'
  <2> DEFINE r(ok) == [proc[p] EXCEPT !.pc = "pushed", !.verified = ok]
             same == [proc[p] EXCEPT !.pc = "pushed"]
  <2>1. /\ r(TRUE).pc = "pushed" /\ r(TRUE).linked = proc[p].linked
        /\ same.pc = "pushed" /\ same.linked = proc[p].linked
    BY <1>p DEF Processes
  <2>2. /\ Return(p) \/ proc' = [proc EXCEPT ![p] = r(TRUE)] \/ proc' = [proc EXCEPT ![p] = same]
        /\ UNCHANGED <<side, kept>> /\ ~At(p, "writing")
    BY <1>12 DEF verify_artifact, no_verify, disk, At
  <2> HIDE DEF r, same
  <2> QED
    BY <1>m, <1>s, <2>1, <2>2, ReturnClear
<1>13. ASSUME NEW f \in Files, Unname(f)
       PROVE  Settled'
  <2>1. \A q \in Procs : /\ proc'[q].pc = proc[q].pc /\ proc'[q].rec = proc[q].rec
                         /\ proc'[q].seen = proc[q].seen /\ proc'[q].linked = proc[q].linked
    BY <1>13, <1>p DEF Unname, Processes
  <2>2. side' = side /\ kept' = kept /\ load' = load
    BY <1>13 DEF Unname, load
  <2>3. (\A q \in Procs : Clear(proc[q]))'
    BY <1>p, <2>1 DEF Clear
  <2>4. \A q \in Procs : At(q, "writing")' <=> At(q, "writing")
    BY <2>1 DEF At
  <2> QED
    BY <1>s, <2>1, <2>2, <2>3, <2>4 DEF Settled
<1>14. ASSUME UNCHANGED <<side, proc, kept>>
       PROVE  Settled'
  BY <1>s, <1>14 DEF Settled, load, At
<1>15. ASSUME \/ \E f \in Files : Name(f)
              \/ \E f \in Paths, d \in Digests \cup {None} : Retrain(f, d)
              \/ UNCHANGED vars
       PROVE  Settled'
  BY <1>14, <1>15 DEF Name, Retrain, vars, disk
<1> QED
  BY <1>1, <1>2, <1>3, <1>4, <1>5, <1>6, <1>7, <1>8, <1>9, <1>10, <1>11, <1>12, <1>13, <1>15
  DEF Next, Start, States

(* While no verb crossed another's write or broke off in its own, the      *)
(* artifact is what the verbs that returned have made of it (set_state,    *)
(* record_backup).                                                         *)
THEOREM VerbsAreKept == Spec => []VerbsKept
<1>1. Init => Settled
  <2>1. Revisions(Fresh) = {}
    BY DEF Revisions, Fresh, ToSet
  <2> QED
    BY <2>1, IdleClear DEF Init, Settled, At, load, Fresh
<1>2. TypeOK /\ (~spoilt => Settled) /\ [Next]_vars => (~spoilt => Settled)'
  BY StepSettled
<1>3. (~spoilt => Settled) => VerbsKept
  BY DEF Settled, VerbsKept
<1> QED
  BY <1>1, <1>2, <1>3, TypeCorrect, PTL DEF Spec
=============================================================================
