--------------------------- MODULE ArtifactLifecycle ---------------------------
(***************************************************************************)
(* One artifact of the flywheel: its directory with a manifest and a       *)
(* lifecycle.json beside it (utils/lifecycle.py), the files of the         *)
(* workspace that name it, and its pushes to a hub                         *)
(* (scripts/flywheel_backup.py).                                           *)
(*                                                                         *)
(* Processes run the verbs of the command line and the backup script side  *)
(* by side, with no lock among them.  A step is one operation on the file  *)
(* system or the hub, so that they interleave between the read of a file   *)
(* and its write, and within a write, which truncates the file first.  A   *)
(* process may die at any step.                                            *)
(***************************************************************************)
EXTENDS Naturals, Sequences, SequencesExt

CONSTANTS
  Procs,    \* processes
  Files,    \* manifests and workspace markers that can name the artifact
  Paths,    \* the files of the artifact,
  Digests,  \* what one of them may hash to
  None,
  Blank,    \* a sidecar that is being written, and
  Garbled,  \* one that two processes wrote at a time
  MaxActs   \* bound of the model: verbs that start, and changes of the files

States == {"active", "archived"}

(* The files of the artifact by their digests, None for one that is not    *)
(* there: what the content hash of a backup stands for.                    *)
Trees == [Paths -> Digests \cup {None}]
Backups == [rev : Nat, hash : Trees, verified : BOOLEAN]
Records == [state : States, history : Seq(States), backups : Seq(Backups)]

ASSUME ArtifactAssumption ==
  /\ None \notin Digests /\ None \notin Trees
  /\ Blank # None /\ Garbled \notin {None, Blank}
  /\ {None, Blank, Garbled} \cap Records = {}
  /\ MaxActs \in Nat

VARIABLES
  content,   \* the files of the artifact
  manifest,  \* whether it has its manifest
  side,      \* lifecycle.json: a record, Blank, Garbled, or None
  gone,      \* the directory was removed
  names,     \* the files that name the artifact
  remote,    \* the revisions of the hub, each by the files it has
  proc,
  acts,
  kept,      \* what the verbs that returned have made of the artifact, and
  spoilt     \* whether something came between: a write that crossed another
             \* or broke off, or a removal

disk == <<content, manifest, side, gone, names, remote>>
vars == <<disk, proc, acts, kept, spoilt>>

Fresh == [state |-> "active", history |-> <<>>, backups |-> <<>>]
Idle == [pc |-> "idle", rec |-> Fresh, seen |-> None, linked |-> TRUE, todo |-> {},
         since |-> {}, unread |-> {},
         hash |-> None, rev |-> 0, verified |-> FALSE]

Init ==
  /\ content \in Trees /\ manifest = TRUE /\ side = None /\ gone = FALSE
  /\ names \in SUBSET Files
  /\ remote = <<>>
  /\ proc = [p \in Procs |-> Idle]
  /\ acts = 0
  /\ kept = [state |-> "active", revs |-> {}] /\ spoilt = FALSE

At(p, pc) == proc[p].pc = pc
Return(p) == proc' = [proc EXCEPT ![p] = Idle]

(* Absent, half-written and corrupt all read as active, with no history.   *)
load == IF side \in {None, Blank, Garbled} THEN Fresh ELSE side

-----------------------------------------------------------------------------
(* The verbs that change the sidecar read it, then write it as a whole.    *)

Update(p, record) ==
  proc' = [proc EXCEPT ![p] = [@ EXCEPT !.pc = "loaded", !.rec = record, !.seen = side]]

set_state_Forgets(p, s) ==
  /\ At(p, "idle") /\ manifest
  /\ load.state # s
  /\ Update(p, [load EXCEPT !.state = s, !.history = Append(@, s), !.backups = <<>>])
  /\ UNCHANGED <<disk, kept, spoilt>>

(* The state it has already is no change, and no directory without a       *)
(* manifest is an artifact.                                                *)
set_state(p, s) ==
  /\ At(p, "idle") /\ manifest
  /\ load.state # s
  /\ Update(p, [load EXCEPT !.state = s, !.history = Append(@, s)])
  /\ UNCHANGED <<disk, kept, spoilt>>

Revisions(record) == {b.rev : b \in ToSet(record.backups)}

record_backup_Current(p) ==
  LET b == [rev |-> proc[p].rev, hash |-> content, verified |-> proc[p].verified] IN
  /\ At(p, "pushed")
  /\ IF manifest /\ proc[p].rev \notin Revisions(load)
     THEN Update(p, [load EXCEPT !.backups = Append(@, b)])
     ELSE Return(p)
  /\ UNCHANGED <<disk, kept, spoilt>>

(* A push that is recorded already is no change.  The record does not say  *)
(* whether the push was verified; `verified' keeps that for the properties.*)
record_backup(p) ==
  LET b == [rev |-> proc[p].rev, hash |-> proc[p].hash, verified |-> proc[p].verified] IN
  /\ At(p, "pushed")
  /\ IF manifest /\ proc[p].rev \notin Revisions(load)
     THEN Update(p, [load EXCEPT !.backups = Append(@, b)])
     ELSE Return(p)
  /\ UNCHANGED <<disk, kept, spoilt>>

(* write_text: open and truncate, write, close.                            *)
Truncate(p) ==
  /\ At(p, "loaded")
  /\ IF gone THEN Return(p) /\ UNCHANGED <<side, spoilt>>
     ELSE /\ side' = Blank
          /\ proc' = [proc EXCEPT ![p].pc = "writing"]
          /\ spoilt' = (spoilt \/ side # proc[p].seen \/ \E q \in Procs : At(q, "writing"))
  /\ UNCHANGED <<content, manifest, gone, names, remote, kept>>

(* Over what another wrote meanwhile, if it is still the file of the       *)
(* directory.                                                              *)
Write(p) ==
  /\ At(p, "writing")
  /\ IF proc[p].linked
     THEN side' \in IF side = Blank THEN {proc[p].rec} ELSE {proc[p].rec, Garbled}
     ELSE side' = side
  /\ kept' = [state |-> proc[p].rec.state, revs |-> kept.revs \cup Revisions(proc[p].rec)]
  /\ Return(p)
  /\ UNCHANGED <<content, manifest, gone, names, remote, spoilt>>

-----------------------------------------------------------------------------
(* delete.                                                                 *)

find_holders_Some(p) ==
  /\ At(p, "idle")
  /\ \E f \in Files :
       proc' = [proc EXCEPT ![p] = [@ EXCEPT !.pc = "scan", !.todo = Files \ {f}, !.since = names,
                                        !.unread = {}]]
  /\ UNCHANGED <<disk, kept, spoilt>>

(* The command line looks for holders first.                               *)
find_holders(p) ==
  /\ At(p, "idle")
  /\ proc' = [proc EXCEPT ![p] = [@ EXCEPT !.pc = "scan", !.todo = Files, !.since = names,
                                      !.unread = {}]]
  /\ UNCHANGED <<disk, kept, spoilt>>

(* One holder is enough to be refused in the end.  A file that cannot be   *)
(* read, or that no glob lists because its directory cannot be, counts as  *)
(* none.                                                                   *)
Scan(p, f) ==
  /\ At(p, "scan") /\ f \in proc[p].todo
  /\ \/ IF f \in names THEN Return(p) ELSE proc' = [proc EXCEPT ![p].todo = @ \ {f}]
     \/ proc' = [proc EXCEPT ![p] = [proc[p] EXCEPT !.todo = @ \ {f}, !.unread = @ \cup {f}]]
  /\ UNCHANGED <<disk, kept, spoilt>>

(* No holders: an archived artifact goes.                                  *)
delete(p) ==
  /\ At(p, "scan") /\ proc[p].todo = {}
  /\ IF manifest /\ load.state = "archived"
     THEN /\ proc' = [proc EXCEPT ![p].pc = "rmtree", ![p].todo = {"manifest", "side"}]
          /\ spoilt' = TRUE
     ELSE Return(p) /\ UNCHANGED spoilt
  /\ UNCHANGED <<disk, kept>>

(* Files go one by one, in any order.  A write that is under way goes on   *)
(* in a file that has no name; one that is missing may end the removal.    *)
Unlink(p, x) ==
  /\ At(p, "rmtree") /\ x \in proc[p].todo
  /\ LET here == IF x = "side" THEN side # None ELSE manifest
         rest == [proc EXCEPT ![p].todo = @ \ {x}]
     IN  CASE here /\ x = "side" ->
                proc' = [q \in Procs |-> IF At(q, "writing") THEN [proc[q] EXCEPT !.linked = FALSE]
                                         ELSE rest[q]]
           [] here /\ x # "side" -> proc' = rest
           [] OTHER -> proc' = rest \/ Return(p)
  /\ side' = IF x = "side" THEN None ELSE side
  /\ manifest' = (manifest /\ x # "manifest")
  /\ UNCHANGED <<content, gone, names, remote, kept, spoilt>>

(* rmdir raises if there is a new file.                                    *)
Rmdir(p) ==
  /\ At(p, "rmtree") /\ proc[p].todo = {}
  /\ gone' = (gone \/ (side = None /\ ~manifest))
  /\ Return(p)
  /\ UNCHANGED <<content, manifest, side, names, remote, kept, spoilt>>

-----------------------------------------------------------------------------
(* flywheel_backup.py.  It hashes all artifacts before it pushes any.      *)

discover_artifacts(p) ==
  /\ At(p, "idle") /\ manifest
  /\ proc' = [proc EXCEPT ![p] = [@ EXCEPT !.pc = "found", !.hash = content]]
  /\ UNCHANGED <<disk, kept, spoilt>>

already_backed_up(p) ==
  /\ At(p, "found")
  /\ IF \E b \in ToSet(load.backups) : b.hash = proc[p].hash
     THEN Return(p) ELSE proc' = [proc EXCEPT ![p].pc = "push"]
  /\ UNCHANGED <<disk, kept, spoilt>>

Absent == [f \in Paths |-> None]

(* The newest revision, with what it has of files that are no longer here. *)
Upload ==
  LET head == IF remote = <<>> THEN Absent ELSE Last(remote)
  IN  [f \in Paths |-> IF content[f] = None THEN head[f] ELSE content[f]]

(* One commit; the hub makes none of files that it has.  What is pushed of *)
(* a directory without its manifest is not recorded.                       *)
push_artifact(p) ==
  /\ At(p, "push")
  /\ IF ~manifest THEN Return(p) /\ UNCHANGED remote
     ELSE /\ remote' = IF remote # <<>> /\ Last(remote) = Upload THEN remote
                       ELSE Append(remote, Upload)
          /\ proc' = [proc EXCEPT ![p] = [@ EXCEPT !.pc = "verify", !.rev = Len(remote')]]
  /\ UNCHANGED <<content, manifest, side, gone, names, kept, spoilt>>

(* Every file of the tree is in the revision as it is in the tree.         *)
Holds(revision, tree) == \A f \in Paths : tree[f] # None => revision[f] = tree[f]

(* A fresh download is compared with the files of the start; a mismatch is *)
(* reported and not recorded.  What else the revision has does not matter. *)
verify_artifact(p) ==
  /\ At(p, "verify")
  /\ IF Holds(remote[proc[p].rev], proc[p].hash)
     THEN proc' = [proc EXCEPT ![p] = [@ EXCEPT !.pc = "pushed", !.verified = TRUE]]
     ELSE Return(p)
  /\ UNCHANGED <<disk, kept, spoilt>>

(* --no-verify.                                                            *)
no_verify(p) ==
  /\ At(p, "verify")
  /\ proc' = [proc EXCEPT ![p].pc = "pushed"]
  /\ UNCHANGED <<disk, kept, spoilt>>

-----------------------------------------------------------------------------
(* Around them: a run or a marker names the artifact or ceases to, and a   *)
(* capability writes a file anew, or removes it.                           *)
Name(f) ==
  /\ f \notin names /\ names' = names \cup {f}
  /\ UNCHANGED <<content, manifest, side, gone, remote, proc, kept, spoilt>>

Unname(f) ==
  /\ f \in names /\ names' = names \ {f}
  /\ proc' = [p \in Procs |-> [proc[p] EXCEPT !.since = @ \ {f}]]
  /\ UNCHANGED <<content, manifest, side, gone, remote, kept, spoilt>>

Retrain(f, d) ==
  /\ manifest /\ content[f] # d /\ content' = [content EXCEPT ![f] = d]
  /\ UNCHANGED <<manifest, side, gone, names, remote, proc, kept, spoilt>>

(* A process is killed, or its write fails.                                *)
Dies(p) ==
  /\ ~At(p, "idle")
  /\ Return(p)
  /\ spoilt' = (spoilt \/ At(p, "writing"))
  /\ UNCHANGED <<disk, kept>>

Start ==
  /\ acts < MaxActs
  /\ acts' = acts + 1
  /\ \/ \E p \in Procs : \/ set_state(p, "archived") \/ set_state(p, "active")
                         \/ find_holders(p) \/ discover_artifacts(p)
     \/ \E f \in Files : Name(f) \/ Unname(f)
     \/ \E f \in Paths, d \in Digests \cup {None} : Retrain(f, d)

Next ==
  \/ Start
  \/ /\ \E p \in Procs :
          \/ record_backup(p) \/ Truncate(p) \/ Write(p)
          \/ \E f \in Files : Scan(p, f)
          \/ delete(p) \/ Rmdir(p)
          \/ \E x \in {"manifest", "side"} : Unlink(p, x)
          \/ already_backed_up(p) \/ push_artifact(p) \/ verify_artifact(p) \/ no_verify(p)
          \/ Dies(p)
     /\ UNCHANGED acts

Spec == Init /\ [][Next]_vars

-----------------------------------------------------------------------------
Sides == Records \cup {None, Blank, Garbled}
Processes ==
  [pc : {"idle", "loaded", "writing", "scan", "rmtree", "found", "push", "verify", "pushed"},
   rec : Records, seen : Sides, linked : BOOLEAN, todo : SUBSET (Files \cup {"manifest", "side"}),
   since : SUBSET Files, unread : SUBSET Files,
   hash : Trees \cup {None}, rev : Nat, verified : BOOLEAN]

TypeOK ==
  /\ content \in Trees /\ manifest \in BOOLEAN /\ gone \in BOOLEAN
  /\ side \in Sides
  /\ names \subseteq Files /\ remote \in Seq(Trees)
  /\ proc \in [Procs -> Processes]
  /\ \A p \in Procs :
       /\ proc[p].pc \in {"found", "push", "verify", "pushed"} => proc[p].hash \in Trees
       /\ proc[p].pc \in {"verify", "pushed"} => proc[p].rev \in 1 .. Len(remote)
  /\ kept \in [state : States, revs : SUBSET Nat] /\ spoilt \in BOOLEAN
  /\ acts \in 0 .. MaxActs

(* The records on disk.                                                    *)
Readable == {side} \ {None, Blank, Garbled}

(* Between verbs, the artifact has the state of the last that returned and *)
(* every backup that one recorded.                                         *)
VerbsKept ==
  ~spoilt /\ (\A p \in Procs : ~At(p, "writing")) =>
    load.state = kept.state /\ kept.revs = Revisions(load)

(* Whatever crossed or was lost, a history that can be read is one that    *)
(* the artifact may have had: changes of state only, the last to its own.  *)
HistoryAlternates ==
  \A r \in Readable :
    /\ r.state = IF r.history = <<>> THEN "active" ELSE Last(r.history)
    /\ \A k \in DOMAIN r.history :
         r.history[k] # IF k = 1 THEN "active" ELSE r.history[k - 1]

(* A backup that was verified can be fetched: the revision it names has    *)
(* every file it stands for, with that digest, though files change and go  *)
(* while they are pushed, and others push in between.  (What earlier       *)
(* pushes left of other files is there too.)                               *)
VerifiedIsFetchable ==
  \A r \in Readable : \A b \in ToSet(r.backups) : b.verified => Holds(remote[b.rev], b.hash)

(* What a file named before a deletion was asked for, and names still, is  *)
(* not removed, unless the scan could not read that file.                  *)
NamedIsKept ==
  \A p \in Procs : At(p, "rmtree") => proc[p].since \subseteq proc[p].unread
=============================================================================
