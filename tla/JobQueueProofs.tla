----------------------------- MODULE JobQueueProofs -----------------------------
(***************************************************************************)
(* Theorems about JobQueue, for every set of jobs, capabilities, limits    *)
(* and telemetry.  Each invariant is proved by the three facts that Init   *)
(* establishes it, every action preserves it, and it implies what is       *)
(* wanted.                                                                 *)
(***************************************************************************)
EXTENDS JobQueue, FiniteSetTheorems, SequenceTheorems, TLAPS

-----------------------------------------------------------------------------
(* Helpers.                                                                *)

(* The jobs a call of Retire may leave in the history, or forget.          *)
Ended(q) == {history[n] : n \in DOMAIN history} \cup {q[n] : n \in DOMAIN q}

(* _move_to_history keeps the history a bounded sequence of jobs, and      *)
(* whatever it stores or forgets had ended.                                *)
LEMMA RetireEffect ==
  ASSUME NEW q \in Seq(Jobs), history \in Seq(Jobs), Retire(q)
  PROVE  /\ history' \in Seq(Jobs)
         /\ Len(history') =< MaxHistory
         /\ \A n \in DOMAIN history' : history'[n] \in Ended(q)
         /\ known' \subseteq known
         /\ known \ known' \subseteq Ended(q)
         /\ signalled' = signalled \cup {q[n] : n \in DOMAIN q}
<1> DEFINE h == history \o q
           cut == Overflow(h)
<1>1. h \in Seq(Jobs) /\ Len(h) = Len(history) + Len(q)
  BY ConcatProperties
<1>2. \A n \in 1 .. Len(h) : h[n] \in Ended(q) /\ h[n] \in Jobs
  <2> TAKE n \in 1 .. Len(h)
  <2>1. CASE n =< Len(history)
    BY <2>1, <1>1, LenProperties, ConcatProperties, ElementOfSeq DEF Ended
  <2>2. CASE n > Len(history)
    <3>1. n - Len(history) \in 1 .. Len(q) /\ h[n] = q[n - Len(history)]
      BY <2>2, <1>1, LenProperties, ConcatProperties
    <3> QED
      BY <3>1, <1>1, LenProperties, ElementOfSeq DEF Ended
  <2> QED
    BY <2>1, <2>2, <1>1, LenProperties
<1>3. cut \in 0 .. Len(h) /\ Len(h) - cut =< MaxHistory
  BY <1>1, LenProperties, QueueAssumption DEF Overflow
<1>4. history' = [n \in 1 .. Len(h) - cut |-> h[n + cut]]
  BY DEF Retire
<1>5. Len(h) - cut \in Nat /\ \A n \in 1 .. Len(h) - cut : n + cut \in 1 .. Len(h)
  BY <1>1, <1>3, LenProperties
<1>6. history' \in Seq(Jobs) /\ Len(history') = Len(h) - cut
  <2>1. history' \in [1 .. Len(h) - cut -> Jobs]
    BY <1>2, <1>4, <1>5
  <2>2. history' \in Seq(Jobs)
    <3> DEFINE m == Len(h) - cut
    <3>1. m \in Nat /\ history' \in [1 .. m -> Jobs]
      BY <2>1, <1>5
    <3> HIDE DEF m
    <3>2. history' \in UNION {[1 .. n -> Jobs] : n \in Nat}
      BY ONLY <3>1
    <3> QED
      BY ONLY <3>2, SeqDef
  <2> QED
    BY <2>1, <2>2, <1>5, LenProperties
<1>7. \A n \in DOMAIN history' : history'[n] \in Ended(q)
  BY <1>2, <1>4, <1>5
<1>8. known' = known \ {h[n] : n \in 1 .. cut}
  BY DEF Retire
<1>9. \A n \in 1 .. cut : n \in 1 .. Len(h)
  BY <1>1, <1>3, LenProperties
<1> QED
  BY <1>2, <1>3, <1>6, <1>7, <1>8, <1>9 DEF Retire

LEMMA RetireType ==
  ASSUME NEW q \in Seq(Jobs), history \in Seq(Jobs), known \subseteq Jobs,
         signalled \subseteq Jobs, Retire(q)
  PROVE  history' \in Seq(Jobs) /\ known' \subseteq Jobs /\ signalled' \subseteq Jobs
<1>1. \A n \in DOMAIN q : q[n] \in Jobs
  BY LenProperties, ElementOfSeq
<1> QED
  BY <1>1, RetireEffect

LEMMA RetireOneType ==
  ASSUME NEW j \in Jobs, history \in Seq(Jobs), known \subseteq Jobs,
         signalled \subseteq Jobs, Retire(<<j>>)
  PROVE  history' \in Seq(Jobs) /\ known' \subseteq Jobs /\ signalled' \subseteq Jobs
<1>1. <<j>> \in Seq(Jobs)
  OBVIOUS
<1> QED
  BY <1>1, RetireType

LEMMA Counted ==
  ASSUME NEW S \in SUBSET Jobs
  PROVE  IsFiniteSet(S) /\ Cardinality(S) \in Nat
BY QueueAssumption, FS_Subset, FS_CardinalityType

LEMMA PeakType ==
  ASSUME TypeOK, NEW j \in Jobs
  PROVE  /\ Peak(j) \in Peaks \cup {NoProfile}
         /\ Peak(j) \in Int
         /\ Peak(j) > 0 => Peak(j) \in Peaks
<1>1. Inst[j] \in Instances
  BY QueueAssumption
<1>2. Peak(j) \in Peaks \cup {NoProfile}
  BY <1>1 DEF TypeOK, Peak
<1>3. CASE Peak(j) \in Peaks
  <2>1. Peak(j) \in Nat
    BY <1>3, QueueAssumption
  <2> QED
    BY ONLY <1>2, <1>3, <2>1
<1>4. CASE Peak(j) = -1
  <2>1. Peak(j) \in Int /\ ~(Peak(j) > 0)
    BY ONLY <1>4
  <2> QED
    BY ONLY <1>2, <2>1
<1> QED
  BY <1>2, <1>3, <1>4 DEF NoProfile

-----------------------------------------------------------------------------
(* Types.                                                                  *)

LEMMA TypeInit == Init => TypeOK
<1> SUFFICES ASSUME Init PROVE TypeOK
  OBVIOUS
<1>1. history \in Seq(Jobs)
  BY DEF Init
<1>2. /\ reserved \in [Jobs -> Nat] /\ arrival \in [Jobs -> Nat]
      /\ prio \in [Jobs -> Int] /\ starts \in Nat
  BY DEF Init
<1>3. profile \in [Instances -> Peaks \cup {NoProfile}]
  BY DEF Init
<1> QED
  BY <1>1, <1>2, <1>3 DEF Init, TypeOK, Live, Suspended, Terminal

LEMMA TypeNext == TypeOK /\ [Next]_vars => TypeOK'
<1> SUFFICES ASSUME TypeOK, [Next]_vars PROVE TypeOK'
  OBVIOUS
<1> USE DEF TypeOK, vars, heap, ledger, task, book, sched, Live, Suspended, Running,
      Terminal
<1>1. ASSUME NEW j \in Jobs, NEW p \in Priorities, Submit(j, p) PROVE TypeOK'
  <2> DEFINE old == {k \in Jobs : status[k] # "new"}
  <2>1. Cardinality(old) + 1 \in Nat
    <3>1. old \in SUBSET Jobs
      OBVIOUS
    <3> HIDE DEF old
    <3>2. Cardinality(old) \in Nat
      BY ONLY <3>1, Counted
    <3> QED
      BY ONLY <3>2
  <2> QED
    BY <1>1, <2>1, QueueAssumption DEF Submit
<1>2. ASSUME NEW j \in Jobs, NEW p \in Priorities, Reorder(j, p) PROVE TypeOK'
  BY <1>2, QueueAssumption DEF Reorder
<1>3. ASSUME NEW j \in Jobs, Retire(<<j>>)
      PROVE  history' \in Seq(Jobs) /\ known' \subseteq Jobs /\ signalled' \subseteq Jobs
  BY <1>3, RetireOneType
<1>4. ASSUME NEW j \in Jobs, CancelPending(j) PROVE TypeOK'
  BY <1>3, <1>4 DEF CancelPending
<1>5. ASSUME NEW j \in Jobs, CancelRunning(j) PROVE TypeOK'
  BY <1>5 DEF CancelRunning
<1>6. ASSUME NEW j \in Jobs, Finalize(j)
      PROVE  /\ running' \subseteq Jobs /\ exclusive' \subseteq Jobs
             /\ reserved' \in [Jobs -> Nat] /\ available' \in BOOLEAN
             /\ history' \in Seq(Jobs) /\ known' \subseteq Jobs /\ signalled' \subseteq Jobs
  BY <1>3, <1>6 DEF Finalize
<1>7. CASE WakeIdle \/ WakeFetch \/ LoopExits \/ Start \/ Stop
  <2>1. CASE WakeIdle
    BY <2>1 DEF WakeIdle
  <2>2. CASE WakeFetch
    BY <2>2 DEF WakeFetch
  <2>3. CASE LoopExits
    BY <2>3 DEF LoopExits
  <2>4. CASE Start
    BY <2>4 DEF Start
  <2>5. CASE Stop
    BY <2>5 DEF Stop
  <2> QED
    BY <1>7, <2>1, <2>2, <2>3, <2>4, <2>5
<1>8. CASE Stopping
  <2>1. CASE JoinExpires
    BY <2>1 DEF JoinExpires
  <2>2. CASE Joined
    BY <2>2 DEF Joined
  <2>3. CASE Drained
    BY <2>3 DEF Drained
  <2>4. CASE DrainExpires
    BY <2>4 DEF DrainExpires
  <2> QED
    BY <1>8, <2>1, <2>2, <2>3, <2>4 DEF Stopping
<1>9. ASSUME NEW t \in Telemetry, Scan(t) PROVE TypeOK'
  <2> DEFINE dead == {j \in Examined(t) : NeverFits(j, t)}
             thin == {j \in Examined(t) : Starved(j, t)}
             pick == Chosen(t)
  <2>1. dead \subseteq Jobs /\ thin \subseteq Jobs /\ pick \subseteq Jobs
    BY DEF Examined, Chosen
  <2>2. Cardinality(dead) \in Nat
    BY <2>1, Counted
  <2>3. PICK q \in [1 .. Cardinality(dead) -> dead] : Sorted(q) /\ Retire(q)
    BY <1>9 DEF Scan
  <2>4. q \in Seq(Jobs)
    <3>1. q \in [1 .. Cardinality(dead) -> Jobs]
      BY <2>1
    <3> QED
      BY ONLY <2>2, <3>1, SeqDef
  <2>5. history' \in Seq(Jobs) /\ known' \subseteq Jobs /\ signalled' \subseteq Jobs
    BY <2>3, <2>4, RetireType
  <2>6. reserved' \in [Jobs -> Nat]
    <3>1. \A j \in Jobs : Peak(j) > 0 => Peak(j) \in Nat
      BY PeakType, QueueAssumption
    <3>2. reserved' = [j \in Jobs |-> IF j \in pick /\ Peak(j) > 0 THEN Peak(j)
                                                               ELSE reserved[j]]
      BY <1>9 DEF Scan
    <3> QED
      BY <3>1, <3>2
  <2>7. /\ pending' = pending \ (dead \cup pick)
        /\ running' = running \cup pick
        /\ blocked' = (blocked \cup thin) \ pick
        /\ exclusive' = exclusive \cup {j \in pick : Unverified(j, t)}
    BY <1>9 DEF Scan, Blocked
  <2>8. /\ pc' = [j \in Jobs |-> IF j \in pick THEN "created" ELSE pc[j]]
        /\ status' = [j \in Jobs |-> IF j \in dead THEN "failed" ELSE status[j]]
        /\ \E ask \in SUBSET thin : evicting' = evicting \cup ask
        /\ available' = (pick # {} \/ dead # {})
        /\ loop' = IF flag THEN "waiting" ELSE "exited"
        /\ UNCHANGED <<prio, arrival, call, cancelReq, phase, profile, flag,
                       stopper, starts>>
    BY <1>9 DEF Scan
  <2>9. /\ pending' \subseteq Jobs /\ running' \subseteq Jobs
        /\ blocked' \subseteq Jobs /\ exclusive' \subseteq Jobs
        /\ evicting' \subseteq Jobs
    BY <2>1, <2>7, <2>8
  <2> HIDE DEF dead, thin, pick
  <2> QED
    BY <2>5, <2>6, <2>8, <2>9
<1>10. ASSUME NEW j \in Jobs, StartJob(j) PROVE TypeOK'
  BY <1>10 DEF StartJob
<1>11. ASSUME NEW j \in Jobs, StartUnloaded(j) PROVE TypeOK'
  BY <1>6, <1>11 DEF StartUnloaded
<1>12. ASSUME NEW j \in Jobs, NEW r, Settle(j, r)
       PROVE  /\ status' \in [Jobs -> {"new", "pending", "running"} \cup Terminal]
              /\ pc' \in [Jobs -> {"none", "done"} \cup Live]
              /\ cancelReq' \subseteq Jobs
  BY <1>12 DEF Settle
<1>13. ASSUME NEW j \in Jobs, Observe(j) PROVE TypeOK'
  BY <1>12, <1>13 DEF Observe
<1>14. ASSUME NEW j \in Jobs, BeginCancel(j) PROVE TypeOK'
  BY <1>14 DEF BeginCancel
<1>15. ASSUME NEW j \in Jobs, HandshakeDone(j) PROVE TypeOK'
  BY <1>15 DEF HandshakeDone
<1>16. ASSUME NEW j \in Jobs, HandshakeFails(j) PROVE TypeOK'
  BY <1>12, <1>16 DEF HandshakeFails
<1>17. ASSUME NEW j \in Jobs, GraceAnswered(j) PROVE TypeOK'
  BY <1>12, <1>17 DEF GraceAnswered
<1>18. ASSUME NEW j \in Jobs, GraceExpires(j) PROVE TypeOK'
  BY <1>12, <1>18 DEF GraceExpires
<1>19. ASSUME NEW j \in Jobs, Close(j) PROVE TypeOK'
  BY <1>6, <1>19 DEF Close
<1>20. ASSUME NEW j \in Jobs, CallReturns(j) PROVE TypeOK'
  BY <1>20 DEF CallReturns
<1>21. ASSUME NEW j \in Jobs, EvictionWakes(j) PROVE TypeOK'
  BY <1>21 DEF EvictionWakes
<1>22. ASSUME NEW i \in Instances, ProfileChanges(i) PROVE TypeOK'
  BY <1>22 DEF ProfileChanges
<1>23. CASE UNCHANGED vars
  BY <1>23
<1> QED
  BY <1>1, <1>2, <1>4, <1>5, <1>7, <1>8, <1>9, <1>10, <1>11, <1>13, <1>14, <1>15,
     <1>16, <1>17, <1>18, <1>19, <1>20, <1>21, <1>22, <1>23
     DEF Next, Caller, Dispatch, Lane, Environment

(* Every variable of the queue keeps its type, for any jobs and limits.    *)
THEOREM TypeCorrect == Spec => []TypeOK
  BY TypeInit, TypeNext, PTL DEF Spec

-----------------------------------------------------------------------------
(* One pass of the dispatch loop.                                          *)

(* The jobs a scan fails as never admissible, and those it finds starved.  *)
Dead(t) == {j \in Examined(t) : NeverFits(j, t)}
Thin(t) == {j \in Examined(t) : Starved(j, t)}

(* The jobs of the history.                                                *)
Filed == {history[n] : n \in DOMAIN history}

LEMMA AheadIrreflexive ==
  ASSUME TypeOK, NEW j \in Jobs
  PROVE  ~Ahead(j, j)
BY DEF TypeOK, Ahead

(* What is examined on the way to the chosen job is not the chosen job.    *)
LEMMA ScanSets ==
  ASSUME TypeOK, NEW t
  PROVE  /\ Chosen(t) \subseteq pending /\ Dead(t) \subseteq pending
         /\ Thin(t) \subseteq pending
         /\ Dead(t) \cap Chosen(t) = {} /\ pending \subseteq Jobs
<1>1. Chosen(t) \subseteq pending
  BY DEF Chosen
<1>2. Examined(t) \subseteq pending
  BY DEF Examined
<1>3. pending \subseteq Jobs
  BY DEF TypeOK
<1>4. Examined(t) \cap Chosen(t) = {}
  <2> SUFFICES ASSUME NEW j \in Examined(t), j \in Chosen(t) PROVE FALSE
    OBVIOUS
  <2>1. Ahead(j, j)
    BY DEF Examined
  <2> QED
    BY <1>2, <1>3, <2>1, AheadIrreflexive
<1> QED
  BY <1>1, <1>2, <1>3, <1>4 DEF Dead, Thin

(* A sequence of the length of a finite set, strictly sorted, has every    *)
(* member of the set: the scan fails all the jobs it found dead.           *)
LEMMA SortedCovers ==
  ASSUME TypeOK, NEW S \in SUBSET Jobs,
         NEW q \in [1 .. Cardinality(S) -> S], Sorted(q)
  PROVE  {q[n] : n \in DOMAIN q} = S
<1>1. IsFiniteSet(S) /\ Cardinality(S) \in Nat
  BY Counted
<1>2. ASSUME NEW m \in 1 .. Cardinality(S), NEW n \in 1 .. Cardinality(S),
             q[m] = q[n], m < n
      PROVE  FALSE
  <2>1. Ahead(q[m], q[n]) /\ q[m] \in Jobs
    BY <1>2 DEF Sorted
  <2> QED
    BY <1>2, <2>1, AheadIrreflexive
<1>3. IsInjective(q)
  BY <1>1, <1>2 DEF IsInjective
<1>4. q \in Injection(1 .. Cardinality(S), S)
  BY <1>3 DEF Injection
<1>5. Cardinality(1 .. Cardinality(S)) = Cardinality(S)
  BY <1>1, FS_Interval
<1>6. q \in Surjection(1 .. Cardinality(S), S)
  BY <1>1, <1>4, <1>5, FS_Injection
<1> QED
  BY <1>6 DEF Surjection

LEMMA ScanEffect ==
  ASSUME TypeOK, NEW t, Scan(t)
  PROVE  /\ pending' = pending \ (Dead(t) \cup Chosen(t))
         /\ running' = running \cup Chosen(t)
         /\ exclusive' = exclusive \cup {j \in Chosen(t) : Unverified(j, t)}
         /\ reserved' = [j \in Jobs |-> IF j \in Chosen(t) /\ Peak(j) > 0
                                        THEN Peak(j) ELSE reserved[j]]
         /\ pc' = [j \in Jobs |-> IF j \in Chosen(t) THEN "created" ELSE pc[j]]
         /\ status' = [j \in Jobs |-> IF j \in Dead(t) THEN "failed" ELSE status[j]]
         /\ blocked' = (blocked \cup Thin(t)) \ Chosen(t)
         /\ UNCHANGED <<prio, arrival, call, cancelReq, phase, profile, flag,
                        stopper, starts>>
         /\ Len(history') =< MaxHistory
         /\ Filed' \subseteq Filed \cup Dead(t)
         /\ known' \subseteq known /\ known \ known' \subseteq Filed \cup Dead(t)
         /\ signalled' = signalled \cup Dead(t)
<1>1. PICK q \in [1 .. Cardinality(Dead(t)) -> Dead(t)] : Sorted(q) /\ Retire(q)
  BY DEF Scan, Dead
<1>2. Dead(t) \in SUBSET Jobs
  BY ScanSets
<1>3. {q[n] : n \in DOMAIN q} = Dead(t)
  BY <1>1, <1>2, SortedCovers
<1>4. q \in Seq(Jobs)
  <2>1. Cardinality(Dead(t)) \in Nat
    BY <1>2, Counted
  <2>2. q \in [1 .. Cardinality(Dead(t)) -> Jobs]
    BY <1>2
  <2> QED
    BY ONLY <2>1, <2>2, SeqDef
<1>5. Ended(q) = Filed \cup Dead(t)
  BY <1>3 DEF Ended, Filed
<1>6. /\ Len(history') =< MaxHistory
      /\ \A n \in DOMAIN history' : history'[n] \in Ended(q)
      /\ known' \subseteq known /\ known \ known' \subseteq Ended(q)
      /\ signalled' = signalled \cup {q[n] : n \in DOMAIN q}
  <2>1. history \in Seq(Jobs)
    BY DEF TypeOK
  <2> QED
    BY <1>1, <1>4, <2>1, RetireEffect
<1>7. Filed' \subseteq Ended(q)
  BY <1>6 DEF Filed
<1> QED
  BY <1>3, <1>5, <1>6, <1>7 DEF Scan, Blocked, Dead, Thin

LEMMA RetireOne ==
  ASSUME TypeOK, NEW j \in Jobs, Retire(<<j>>)
  PROVE  /\ Len(history') =< MaxHistory
         /\ Filed' \subseteq Filed \cup {j}
         /\ known' \subseteq known /\ known \ known' \subseteq Filed \cup {j}
         /\ signalled' = signalled \cup {j}
<1>1. <<j>> \in Seq(Jobs) /\ {<<j>>[n] : n \in DOMAIN <<j>>} = {j}
  OBVIOUS
<1>2. Ended(<<j>>) = Filed \cup {j}
  BY <1>1 DEF Ended, Filed
<1>3. history \in Seq(Jobs)
  BY DEF TypeOK
<1>4. /\ Len(history') =< MaxHistory
      /\ \A n \in DOMAIN history' : history'[n] \in Ended(<<j>>)
      /\ known' \subseteq known /\ known \ known' \subseteq Ended(<<j>>)
      /\ signalled' = signalled \cup {<<j>>[n] : n \in DOMAIN <<j>>}
  BY <1>1, <1>3, RetireEffect
<1> QED
  BY <1>1, <1>2, <1>4 DEF Filed

-----------------------------------------------------------------------------
(* What a step does to a job's life: the steps that leave it alone, move   *)
(* its task from one wait to the next or settle its status fall together.  *)

Quiet == UNCHANGED <<status, pending, arrival, blocked, ledger, pc, book>>

Moves(j) ==
  /\ pc[j] \in Suspended
  /\ \E w \in Suspended : pc' = [pc EXCEPT ![j] = w]
  /\ UNCHANGED <<status, pending, arrival, blocked, ledger, book>>

Settles(j) ==
  /\ pc[j] \in Suspended
  /\ \E s \in Terminal : status' = [status EXCEPT ![j] = s]
  /\ pc' = [pc EXCEPT ![j] = "closing"]
  /\ UNCHANGED <<pending, arrival, blocked, ledger, book>>

JobStep ==
  \/ Quiet
  \/ \E j \in Jobs :
       \/ \E p \in Priorities : Submit(j, p)
       \/ CancelPending(j)
       \/ StartJob(j) \/ StartUnloaded(j) \/ Close(j)
       \/ Moves(j) \/ Settles(j)
  \/ \E t \in Telemetry : Scan(t)
  \/ DrainExpires

LEMMA NextIsJobStep == [Next]_vars => JobStep
<1> SUFFICES ASSUME [Next]_vars PROVE JobStep
  OBVIOUS
<1> USE DEF heap, ledger, task, book, sched
<1>1. CASE Caller
  <2>1. ASSUME NEW j \in Jobs, NEW p \in Priorities, Reorder(j, p) PROVE Quiet
    BY <2>1 DEF Reorder, Quiet
  <2>2. ASSUME NEW j \in Jobs, CancelRunning(j) PROVE Quiet
    BY <2>2 DEF CancelRunning, Quiet
  <2>3. ASSUME Start \/ Stop PROVE Quiet
    BY <2>3 DEF Start, Stop, Quiet
  <2> QED
    BY <1>1, <2>1, <2>2, <2>3 DEF Caller, JobStep
<1>2. CASE Dispatch
  <2>1. ASSUME WakeIdle \/ WakeFetch \/ LoopExits PROVE Quiet
    BY <2>1 DEF WakeIdle, WakeFetch, LoopExits, Quiet
  <2> QED
    BY <1>2, <2>1 DEF Dispatch, JobStep
<1>3. CASE \E j \in Jobs : Lane(j)
  <2>1. PICK j \in Jobs : Lane(j)
    BY <1>3
  <2>2. ASSUME NEW r, Settle(j, r)
        PROVE  /\ \E s \in Terminal : status' = [status EXCEPT ![j] = s]
               /\ pc' = [pc EXCEPT ![j] = "closing"]
    BY <2>2 DEF Settle, Terminal
  <2>3. CASE Observe(j)
    BY <2>2, <2>3 DEF Observe, Settles, Suspended, JobStep
  <2>4. CASE HandshakeFails(j)
    BY <2>2, <2>4 DEF HandshakeFails, Settles, Suspended, JobStep
  <2>5. CASE GraceAnswered(j)
    BY <2>2, <2>5 DEF GraceAnswered, Settles, Suspended, JobStep
  <2>6. CASE GraceExpires(j)
    BY <2>2, <2>6 DEF GraceExpires, Settles, Suspended, JobStep
  <2>7. CASE BeginCancel(j)
    BY <2>7 DEF BeginCancel, Moves, Suspended, JobStep
  <2>8. CASE HandshakeDone(j)
    BY <2>8 DEF HandshakeDone, Moves, Suspended, JobStep
  <2> QED
    BY <2>1, <2>3, <2>4, <2>5, <2>6, <2>7, <2>8 DEF Lane, JobStep
<1>4. CASE Stopping
  <2>1. ASSUME JoinExpires \/ Joined \/ Drained PROVE Quiet
    BY <2>1 DEF JoinExpires, Joined, Drained, Quiet
  <2> QED
    BY <1>4, <2>1 DEF Stopping, JobStep
<1>5. CASE Environment
  <2>1. ASSUME NEW j \in Jobs, CallReturns(j) PROVE Quiet
    BY <2>1 DEF CallReturns, Quiet
  <2>2. ASSUME NEW j \in Jobs, EvictionWakes(j) PROVE Quiet
    BY <2>2 DEF EvictionWakes, Quiet
  <2>3. ASSUME NEW i \in Instances, ProfileChanges(i) PROVE Quiet
    BY <2>3 DEF ProfileChanges, Quiet
  <2> QED
    BY <1>5, <2>1, <2>2, <2>3 DEF Environment, JobStep
<1>6. CASE UNCHANGED vars
  BY <1>6 DEF vars, Quiet, JobStep
<1> QED
  BY <1>1, <1>2, <1>3, <1>4, <1>5, <1>6 DEF Next

-----------------------------------------------------------------------------
(* Lanes are tasks.                                                        *)

LEMMA LanesInit == Init => LanesAreTasks
BY DEF Init, LanesAreTasks, Live, Suspended

LEMMA LanesNext == TypeOK /\ LanesAreTasks /\ [Next]_vars => LanesAreTasks'
<1> SUFFICES ASSUME TypeOK, LanesAreTasks, JobStep PROVE LanesAreTasks'
  BY NextIsJobStep
<1> USE DEF LanesAreTasks, Live, Suspended, ledger, task
<1>0. /\ pc \in [Jobs -> {"none", "done"} \cup Live] /\ reserved \in [Jobs -> Nat]
  BY DEF TypeOK
<1>1. CASE Quiet
  BY <1>1 DEF Quiet
<1>2. ASSUME NEW j \in Jobs, NEW p \in Priorities, Submit(j, p) PROVE LanesAreTasks'
  BY <1>2 DEF Submit
<1>3. ASSUME NEW j \in Jobs, CancelPending(j) PROVE LanesAreTasks'
  BY <1>3 DEF CancelPending
<1>4. ASSUME NEW j \in Jobs, StartJob(j) PROVE LanesAreTasks'
  BY <1>0, <1>4 DEF StartJob
<1>5. ASSUME NEW j \in Jobs, StartUnloaded(j) \/ Close(j) PROVE LanesAreTasks'
  <2>1. /\ pc' = [pc EXCEPT ![j] = "done"]
        /\ running' = running \ {j} /\ exclusive' = exclusive \ {j}
        /\ reserved' = [reserved EXCEPT ![j] = 0]
    BY <1>5 DEF StartUnloaded, Close, Finalize
  <2> QED
    BY <1>0, <2>1
<1>6. ASSUME NEW j \in Jobs, Moves(j) \/ Settles(j) PROVE LanesAreTasks'
  BY <1>0, <1>6 DEF Moves, Settles
<1>7. ASSUME NEW t \in Telemetry, Scan(t) PROVE LanesAreTasks'
  <2>1. /\ running' = running \cup Chosen(t)
        /\ exclusive' = exclusive \cup {j \in Chosen(t) : Unverified(j, t)}
        /\ reserved' = [j \in Jobs |-> IF j \in Chosen(t) /\ Peak(j) > 0
                                       THEN Peak(j) ELSE reserved[j]]
        /\ pc' = [j \in Jobs |-> IF j \in Chosen(t) THEN "created" ELSE pc[j]]
        /\ Chosen(t) \subseteq Jobs
    BY <1>7, ScanEffect, ScanSets
  <2> QED
    BY <1>0, <2>1
<1>8. CASE DrainExpires
  BY <1>0, <1>8 DEF DrainExpires
<1> QED
  BY <1>1, <1>2, <1>3, <1>4, <1>5, <1>6, <1>7, <1>8 DEF JobStep

(* The lanes and ledgers are those of the live tasks, in every behaviour:  *)
(* no path through _execute_job or stop() leaks one or frees one twice.    *)
THEOREM LanesCorrect == Spec => []LanesAreTasks
<1>1. TypeOK /\ LanesAreTasks /\ [Next]_vars => LanesAreTasks'
  BY LanesNext
<1> QED
  BY <1>1, LanesInit, TypeCorrect, PTL DEF Spec

-----------------------------------------------------------------------------
(* The stages of a job: what its status says about its task and the heap.  *)
(* This is what makes the facts below inductive: cancel() and the dispatch *)
(* loop decide by the status, the lanes by where their task is.            *)

Stages ==
  \A j \in Jobs :
    /\ j \in pending => status[j] = "pending" /\ pc[j] = "none"
    /\ status[j] = "pending" => j \in pending \/ pc[j] = "created"
    /\ pc[j] = "none" => status[j] # "running"
    /\ pc[j] = "created" => status[j] \in {"pending", "cancelled"}
    /\ pc[j] \in Suspended => status[j] = "running"
    /\ pc[j] \in {"closing", "done"} => status[j] \in Terminal

LEMMA StagesInit == Init => Stages
BY DEF Init, Stages, Suspended, Terminal

LEMMA StagesNext == TypeOK /\ Stages /\ [Next]_vars => Stages'
<1> SUFFICES ASSUME TypeOK, Stages, JobStep PROVE Stages'
  BY NextIsJobStep
<1> USE DEF Stages, Suspended, Terminal, heap, ledger, task
<1>0. /\ status \in [Jobs -> {"new", "pending", "running"} \cup Terminal]
      /\ pc \in [Jobs -> {"none", "done"} \cup Live]
      /\ pending \subseteq Jobs
  BY DEF TypeOK
<1>1. CASE Quiet
  BY <1>1 DEF Quiet
<1>2. ASSUME NEW j \in Jobs, NEW p \in Priorities, Submit(j, p) PROVE Stages'
  BY <1>0, <1>2 DEF Submit, Live
<1>3. ASSUME NEW j \in Jobs, CancelPending(j) PROVE Stages'
  BY <1>0, <1>3 DEF CancelPending
<1>4. ASSUME NEW j \in Jobs, StartJob(j) PROVE Stages'
  BY <1>0, <1>4 DEF StartJob
<1>5. ASSUME NEW j \in Jobs, StartUnloaded(j) PROVE Stages'
  BY <1>0, <1>5 DEF StartUnloaded
<1>6. ASSUME NEW j \in Jobs, Close(j) PROVE Stages'
  BY <1>0, <1>6 DEF Close
<1>7. ASSUME NEW j \in Jobs, Moves(j) PROVE Stages'
  BY <1>0, <1>7 DEF Moves
<1>8. ASSUME NEW j \in Jobs, Settles(j) PROVE Stages'
  BY <1>0, <1>8 DEF Settles
<1>9. ASSUME NEW t \in Telemetry, Scan(t) PROVE Stages'
  <2>1. /\ pending' = pending \ (Dead(t) \cup Chosen(t))
        /\ pc' = [j \in Jobs |-> IF j \in Chosen(t) THEN "created" ELSE pc[j]]
        /\ status' = [j \in Jobs |-> IF j \in Dead(t) THEN "failed" ELSE status[j]]
    BY <1>9, ScanEffect
  <2>2. /\ Chosen(t) \subseteq pending /\ Dead(t) \subseteq pending
        /\ Dead(t) \cap Chosen(t) = {}
    BY ScanSets
  <2> QED
    BY <1>0, <2>1, <2>2
<1>10. CASE DrainExpires
  BY <1>0, <1>10 DEF DrainExpires
<1> QED
  BY <1>1, <1>2, <1>3, <1>4, <1>5, <1>6, <1>7, <1>8, <1>9, <1>10 DEF JobStep

LEMMA StagesCorrect == Spec => []Stages
<1>1. TypeOK /\ Stages /\ [Next]_vars => Stages'
  BY StagesNext
<1> QED
  BY <1>1, StagesInit, TypeCorrect, PTL DEF Spec

(* A terminal status changes only when the lane of a job that was popped   *)
(* and then cancelled takes its first step: _execute_job never asks.       *)
THEOREM TerminalStatus == Spec => TerminalUndoneOnlyByLaunch
<1> DEFINE A == \A j \in Jobs :
                  status[j] \in Terminal /\ status'[j] # status[j]
                    => /\ status[j] = "cancelled"
                       /\ pc[j] = "created"
                       /\ status'[j] \in {"running", "failed"}
<1>1. TypeOK /\ Stages /\ [Next]_vars => A
  <2> SUFFICES ASSUME TypeOK, Stages, JobStep PROVE A
    BY NextIsJobStep
  <2> USE DEF Stages, Suspended, Terminal, heap, ledger, task
  <2>0. /\ status \in [Jobs -> {"new", "pending", "running"} \cup Terminal]
        /\ pending \subseteq Jobs
    BY DEF TypeOK
  <2>1. CASE Quiet
    BY <2>1 DEF Quiet
  <2>2. ASSUME NEW j \in Jobs, NEW p \in Priorities, Submit(j, p) PROVE A
    BY <2>0, <2>2 DEF Submit
  <2>3. ASSUME NEW j \in Jobs, CancelPending(j) PROVE A
    BY <2>0, <2>3 DEF CancelPending
  <2>4. ASSUME NEW j \in Jobs, StartJob(j) PROVE A
    BY <2>0, <2>4 DEF StartJob
  <2>5. ASSUME NEW j \in Jobs, StartUnloaded(j) PROVE A
    BY <2>0, <2>5 DEF StartUnloaded
  <2>6. ASSUME NEW j \in Jobs, Close(j) \/ Moves(j) PROVE A
    BY <2>0, <2>6 DEF Close, Moves
  <2>7. ASSUME NEW j \in Jobs, Settles(j) PROVE A
    BY <2>0, <2>7 DEF Settles
  <2>8. ASSUME NEW t \in Telemetry, Scan(t) PROVE A
    <3>1. status' = [j \in Jobs |-> IF j \in Dead(t) THEN "failed" ELSE status[j]]
      BY <2>8, ScanEffect
    <3>2. Dead(t) \subseteq pending
      BY ScanSets
    <3> QED
      BY <2>0, <3>1, <3>2
  <2>9. CASE DrainExpires
    BY <2>0, <2>9 DEF DrainExpires
  <2> QED
    BY <2>1, <2>2, <2>3, <2>4, <2>5, <2>6, <2>7, <2>8, <2>9 DEF JobStep
<1>2. TypeOK /\ Stages /\ [Next]_vars => [A]_vars
  BY <1>1
<1> HIDE DEF A
<1>3. Spec => [][A]_vars
  BY <1>2, TypeCorrect, StagesCorrect, PTL DEF Spec
<1> QED
  BY <1>3 DEF A, TerminalUndoneOnlyByLaunch

-----------------------------------------------------------------------------
(* Waiters, the lookup table and the history.                              *)

Over(j) == status[j] \in Terminal \/ (j \in running /\ j \in signalled)

Archive ==
  /\ Len(history) =< MaxHistory
  /\ \A j \in Jobs :
       /\ j \in Filed => Over(j)
       /\ status[j] # "new" /\ j \notin known => Over(j)
       /\ status[j] \in Terminal /\ pc[j] # "closing" => j \in signalled
       /\ j \in pending => j \in known

LEMMA ArchiveInit == Init => Archive
<1> SUFFICES ASSUME Init PROVE Archive
  OBVIOUS
<1>1. Len(history) = 0 /\ Filed = {}
  BY DEF Init, Filed
<1> QED
  BY <1>1, QueueAssumption DEF Init, Archive, Terminal

LEMMA ArchiveNext ==
  TypeOK /\ LanesAreTasks /\ Stages /\ Archive /\ [Next]_vars => Archive'
<1> SUFFICES ASSUME TypeOK, LanesAreTasks, Stages, Archive, JobStep PROVE Archive'
  BY NextIsJobStep
<1> USE DEF Archive, Over
<1>0. /\ status \in [Jobs -> {"new", "pending", "running"} \cup Terminal]
      /\ pc \in [Jobs -> {"none", "done"} \cup Live]
      /\ pending \subseteq Jobs
      /\ running = {j \in Jobs : pc[j] \in Live}
  BY DEF TypeOK, LanesAreTasks
<1>1. CASE Quiet
  BY <1>1 DEF Quiet, ledger, book, Filed
<1>2. ASSUME NEW j \in Jobs, NEW p \in Priorities, Submit(j, p) PROVE Archive'
  <2>1. Filed' = Filed
    BY <1>2 DEF Submit, Filed
  <2> QED
    BY <1>0, <1>2, <2>1 DEF Submit, ledger, task, Terminal, Stages
<1>3. ASSUME NEW j \in Jobs, CancelPending(j) PROVE Archive'
  <2>1. /\ Len(history') =< MaxHistory /\ Filed' \subseteq Filed \cup {j}
        /\ known' \subseteq known /\ known \ known' \subseteq Filed \cup {j}
        /\ signalled' = signalled \cup {j}
    BY <1>3, RetireOne DEF CancelPending
  <2> QED
    BY <1>0, <1>3, <2>1 DEF CancelPending, ledger, task, Terminal, Stages, Live,
       Suspended
<1>4. ASSUME NEW j \in Jobs, StartJob(j) PROVE Archive'
  <2>1. Filed' = Filed
    BY <1>4 DEF StartJob, book, Filed
  <2> QED
    BY <1>0, <1>4, <2>1 DEF StartJob, heap, ledger, book, Terminal, Stages, Live
<1>5. ASSUME NEW j \in Jobs, StartUnloaded(j) \/ Close(j) PROVE Archive'
  <2>1. Retire(<<j>>) /\ running' = running \ {j}
    BY <1>5 DEF StartUnloaded, Close, Finalize
  <2>2. /\ Len(history') =< MaxHistory /\ Filed' \subseteq Filed \cup {j}
        /\ known' \subseteq known /\ known \ known' \subseteq Filed \cup {j}
        /\ signalled' = signalled \cup {j}
    BY <2>1, RetireOne
  <2>3. /\ status'[j] \in Terminal /\ j \notin pending
        /\ status' = [status EXCEPT ![j] = status'[j]]
        /\ pc' = [pc EXCEPT ![j] = "done"] /\ pending' = pending
    BY <1>0, <1>5 DEF StartUnloaded, Close, Stages, Terminal, heap
  <2> QED
    BY <1>0, <2>1, <2>2, <2>3 DEF Terminal, Stages, Live, Suspended
<1>6. ASSUME NEW j \in Jobs, Moves(j) PROVE Archive'
  <2>1. Filed' = Filed
    BY <1>6 DEF Moves, book, Filed
  <2> QED
    BY <1>0, <1>6, <2>1 DEF Moves, ledger, book, Terminal, Stages, Suspended
<1>7. ASSUME NEW j \in Jobs, Settles(j) PROVE Archive'
  <2>1. Filed' = Filed
    BY <1>7 DEF Settles, book, Filed
  <2> QED
    BY <1>0, <1>7, <2>1 DEF Settles, ledger, book, Terminal, Stages, Suspended
<1>8. ASSUME NEW t \in Telemetry, Scan(t) PROVE Archive'
  <2>1. /\ pending' = pending \ (Dead(t) \cup Chosen(t))
        /\ running' = running \cup Chosen(t)
        /\ pc' = [j \in Jobs |-> IF j \in Chosen(t) THEN "created" ELSE pc[j]]
        /\ status' = [j \in Jobs |-> IF j \in Dead(t) THEN "failed" ELSE status[j]]
        /\ Len(history') =< MaxHistory
        /\ Filed' \subseteq Filed \cup Dead(t)
        /\ known' \subseteq known /\ known \ known' \subseteq Filed \cup Dead(t)
        /\ signalled' = signalled \cup Dead(t)
    BY <1>8, ScanEffect
  <2>2. /\ Chosen(t) \subseteq pending /\ Dead(t) \subseteq pending
        /\ Dead(t) \cap Chosen(t) = {}
    BY ScanSets
  <2> QED
    BY <1>0, <2>1, <2>2 DEF Terminal, Stages, Live, Suspended
<1>9. CASE DrainExpires
  <2>1. Filed' = Filed
    BY <1>9 DEF DrainExpires, book, Filed
  <2> QED
    BY <1>0, <1>9, <2>1 DEF DrainExpires, heap, ledger, book, Terminal, Stages,
       Suspended
<1> QED
  BY <1>1, <1>2, <1>3, <1>4, <1>5, <1>6, <1>7, <1>8, <1>9 DEF JobStep

LEMMA ArchiveCorrect == Spec => []Archive
<1>1. TypeOK /\ LanesAreTasks /\ Stages /\ Archive /\ [Next]_vars => Archive'
  BY ArchiveNext
<1> QED
  BY <1>1, ArchiveInit, TypeCorrect, LanesCorrect, StagesCorrect, PTL DEF Spec

(* No job that was accepted is dropped: it is in the heap or on a lane,    *)
(* or its waiters were woken; and what is in the heap can be looked up.    *)
THEOREM NoJobIsLost == Spec => []NoJobLost
<1>1. TypeOK /\ LanesAreTasks /\ Stages /\ Archive => NoJobLost
  BY DEF TypeOK, LanesAreTasks, Stages, Archive, NoJobLost, Live, Suspended, Terminal
<1> QED
  BY <1>1, TypeCorrect, LanesCorrect, StagesCorrect, ArchiveCorrect, PTL

(* The history holds, and the lookup table forgets, only jobs that ended   *)
(* or were launched after their cancellation.                              *)
THEOREM HistoryIsTruthful == Spec => []HistoryTruthful
<1>1. TypeOK /\ Archive => HistoryTruthful
  <2> SUFFICES ASSUME TypeOK, Archive PROVE HistoryTruthful
    OBVIOUS
  <2>1. \A n \in DOMAIN history : history[n] \in Jobs /\ history[n] \in Filed
    BY LenProperties, ElementOfSeq DEF TypeOK, Filed
  <2> QED
    BY <2>1 DEF Archive, HistoryTruthful, Over
<1> QED
  BY <1>1, TypeCorrect, ArchiveCorrect, PTL

-----------------------------------------------------------------------------
(* Block reasons, cancellation, and what a lane covers.                    *)

(* A job on a lane shows no reason for being blocked.                      *)
THEOREM BlockedReasons == Spec => []BlockedNotRunning
<1>1. Init => BlockedNotRunning
  BY DEF Init, BlockedNotRunning
<1>2. TypeOK /\ LanesAreTasks /\ Stages /\ BlockedNotRunning /\ [Next]_vars
        => BlockedNotRunning'
  <2> SUFFICES ASSUME TypeOK, LanesAreTasks, Stages, BlockedNotRunning, JobStep
               PROVE  BlockedNotRunning'
    BY NextIsJobStep
  <2> USE DEF BlockedNotRunning, heap, ledger
  <2>1. CASE Quiet
    BY <2>1 DEF Quiet
  <2>2. ASSUME NEW j \in Jobs,
               \/ \E p \in Priorities : Submit(j, p)
               \/ CancelPending(j) \/ StartJob(j) \/ Moves(j) \/ Settles(j)
        PROVE  BlockedNotRunning'
    BY <2>2 DEF Submit, CancelPending, StartJob, Moves, Settles
  <2>3. ASSUME NEW j \in Jobs, StartUnloaded(j) \/ Close(j) PROVE BlockedNotRunning'
    BY <2>3 DEF StartUnloaded, Close, Finalize
  <2>4. ASSUME NEW t \in Telemetry, Scan(t) PROVE BlockedNotRunning'
    <3>1. blocked' = (blocked \cup Thin(t)) \ Chosen(t)
      BY <2>4, ScanEffect
    <3>2. running' = running \cup Chosen(t)
      BY <2>4, ScanEffect
    <3>3. Thin(t) \subseteq pending /\ pending \subseteq Jobs
      BY ScanSets
    <3>4. pending \cap running = {}
      BY <3>3 DEF LanesAreTasks, Stages, Live, Suspended
    <3> QED
      BY <3>1, <3>2, <3>3, <3>4
  <2>5. CASE DrainExpires
    BY <2>5 DEF DrainExpires
  <2> QED
    BY <2>1, <2>2, <2>3, <2>4, <2>5 DEF JobStep
<1> QED
  BY <1>1, <1>2, TypeCorrect, LanesCorrect, StagesCorrect, PTL DEF Spec

(* A cancellation request outlives its job only if the job did not         *)
(* complete.                                                               *)
RequestsHold == \A j \in cancelReq : status[j] # "completed"

(* Settling a job whose cancellation is requested never completes it, and  *)
(* clears no other request.                                                *)
LEMMA SettleHonours ==
  ASSUME TypeOK, RequestsHold, NEW j \in Jobs, NEW r, Settle(j, r)
  PROVE  RequestsHold' /\ \A k \in cancelReq : status'[k] # "completed"
BY DEF TypeOK, RequestsHold, Settle

LEMMA RequestsNext ==
  TypeOK /\ Stages /\ RequestsHold /\ [Next]_vars
    => RequestsHold' /\ \A j \in cancelReq : status'[j] # "completed"
<1> DEFINE Goal == RequestsHold' /\ \A j \in cancelReq : status'[j] # "completed"
<1> SUFFICES ASSUME TypeOK, Stages, RequestsHold, [Next]_vars PROVE Goal
  OBVIOUS
<1>1. ASSUME UNCHANGED <<status, cancelReq>> PROVE Goal
  BY <1>1 DEF RequestsHold
<1>2. CASE Caller
  <2>1. ASSUME NEW j \in Jobs, NEW p \in Priorities, Submit(j, p) PROVE Goal
    BY <2>1 DEF Submit, task, RequestsHold, TypeOK
  <2>2. ASSUME NEW j \in Jobs, NEW p \in Priorities, Reorder(j, p) PROVE Goal
    BY <1>1, <2>2 DEF Reorder, task
  <2>3. ASSUME NEW j \in Jobs, CancelPending(j) PROVE Goal
    BY <2>3 DEF CancelPending, task, RequestsHold, TypeOK
  <2>4. ASSUME NEW j \in Jobs, CancelRunning(j) PROVE Goal
    BY <2>4 DEF CancelRunning, RequestsHold
  <2>5. CASE Start \/ Stop
    BY <1>1, <2>5 DEF Start, Stop, task
  <2> QED
    BY <1>2, <2>1, <2>2, <2>3, <2>4, <2>5 DEF Caller
<1>3. CASE Dispatch
  <2>1. CASE WakeIdle \/ WakeFetch \/ LoopExits
    BY <1>1, <2>1 DEF WakeIdle, WakeFetch, LoopExits, task
  <2>2. ASSUME NEW t \in Telemetry, Scan(t) PROVE Goal
    <3>1. status' = [j \in Jobs |-> IF j \in Dead(t) THEN "failed" ELSE status[j]]
      BY <2>2, ScanEffect
    <3>2. cancelReq' = cancelReq /\ cancelReq \subseteq Jobs
      BY <2>2 DEF Scan, TypeOK
    <3> QED
      BY <3>1, <3>2 DEF RequestsHold
  <2> QED
    BY <1>3, <2>1, <2>2 DEF Dispatch
<1>4. CASE \E j \in Jobs : Lane(j)
  <2>1. PICK j \in Jobs : Lane(j)
    BY <1>4
  <2>2. ASSUME NEW r, Settle(j, r) PROVE Goal
    BY <2>2, SettleHonours
  <2>3. CASE StartJob(j)
    BY <2>3 DEF StartJob, RequestsHold, TypeOK
  <2>4. CASE StartUnloaded(j)
    BY <2>4 DEF StartUnloaded, RequestsHold, TypeOK
  <2>5. CASE BeginCancel(j) \/ HandshakeDone(j) \/ Close(j)
    BY <1>1, <2>5 DEF BeginCancel, HandshakeDone, Close
  <2>6. CASE Observe(j)
    BY <2>2, <2>6 DEF Observe
  <2>7. CASE HandshakeFails(j)
    BY <2>2, <2>7 DEF HandshakeFails
  <2>8. CASE GraceAnswered(j)
    BY <2>2, <2>8 DEF GraceAnswered
  <2>9. CASE GraceExpires(j)
    BY <2>2, <2>9 DEF GraceExpires
  <2> QED
    BY <2>1, <2>3, <2>4, <2>5, <2>6, <2>7, <2>8, <2>9 DEF Lane
<1>5. CASE Stopping
  <2>1. CASE JoinExpires \/ Joined \/ Drained
    BY <1>1, <2>1 DEF JoinExpires, Joined, Drained, task
  <2>2. CASE DrainExpires
    BY <2>2 DEF DrainExpires, RequestsHold, TypeOK
  <2> QED
    BY <1>5, <2>1, <2>2 DEF Stopping
<1>6. CASE Environment
  BY <1>1, <1>6 DEF Environment, CallReturns, EvictionWakes, ProfileChanges, task
<1>7. CASE UNCHANGED vars
  BY <1>1, <1>7 DEF vars, task
<1> QED
  BY <1>2, <1>3, <1>4, <1>5, <1>6, <1>7 DEF Next

(* A job does not complete once cancel() has accepted it while it ran.     *)
THEOREM CancelIsFinal == Spec => CancelledNeverCompletes
<1> DEFINE A == \A j \in Jobs : j \in cancelReq => status'[j] # "completed"
<1>1. Init => RequestsHold
  BY DEF Init, RequestsHold
<1>2. TypeOK /\ Stages /\ RequestsHold /\ [Next]_vars => RequestsHold' /\ [A]_vars
  BY RequestsNext
<1> HIDE DEF A
<1>3. Spec => [][A]_vars
  BY <1>1, <1>2, TypeCorrect, StagesCorrect, PTL DEF Spec
<1> QED
  BY <1>3 DEF A, CancelledNeverCompletes

(* Along a job's way to its end: no call before its task starts it, none   *)
(* orphaned while the task waits, the phase the task is in, no task before *)
(* the queue was first started; and what LaneCoversCall says of the job.   *)
CallOf(j) ==
  /\ pc[j] # "none" => starts > 0
  /\ pc[j] \in {"none", "created"} => call[j] = "none"
  /\ pc[j] \in {"none", "created", "calling"} => phase[j] = "none"
  /\ pc[j] \in {"handshake", "grace"} => phase[j] = "cooperative"
  /\ pc[j] \in Suspended => call[j] # "orphaned"
  /\ call[j] \in Running /\ pc[j] \notin Suspended
       => \/ /\ status[j] = "failed" /\ phase[j] = "cooperative"
             /\ call[j] = "inflight"
          \/ /\ status[j] = "cancelled" /\ phase[j] = "completed"
             /\ call[j] = "orphaned"
          \/ /\ status[j] = "cancelled" /\ phase[j] # "completed"
             /\ phase[j] = "none" => call[j] = "inflight"
             /\ ~flag \/ starts > 1

(* stop() has cleared the flag, and only a started queue has a loop.       *)
Switch ==
  /\ stopper # "idle" => ~flag
  /\ flag \/ loop # "exited" => starts > 0

Calls == Switch /\ \A j \in Jobs : CallOf(j)

LEMMA CallsInit == Init => Calls
BY DEF Init, Calls, Switch, CallOf, Running, Suspended

(* A step that leaves the tasks, the switch and this job alone.            *)
LEMMA CallKept ==
  ASSUME NEW j \in Jobs, CallOf(j), pc'[j] = pc[j], call'[j] = call[j],
         phase'[j] = phase[j], status'[j] = status[j],
         UNCHANGED <<flag, starts>>
  PROVE  CallOf(j)'
BY DEF CallOf

(* A settled job: its exec_task has ended, its signal failed, or its force *)
(* drop has begun.                                                         *)
LEMMA CallsLane ==
  ASSUME TypeOK, Stages, Calls, NEW j \in Jobs, Lane(j)
  PROVE  Calls'
<1> USE DEF Running, Suspended
<1>0. /\ status \in [Jobs -> {"new", "pending", "running"} \cup Terminal]
      /\ pc \in [Jobs -> {"none", "done"} \cup Live]
      /\ call \in [Jobs -> {"none", "ok", "error", "acked", "dropped"} \cup Running]
      /\ phase \in [Jobs -> {"none", "cooperative", "completed"}]
  BY DEF TypeOK
<1>1. UNCHANGED <<loop, flag, stopper, starts>>
  BY DEF Lane, StartJob, StartUnloaded, Observe, BeginCancel, HandshakeDone,
     HandshakeFails, GraceAnswered, GraceExpires, Close, sched, Settle
<1>2. Switch'
  BY <1>1 DEF Calls, Switch
<1>3. ASSUME NEW k \in Jobs, k # j PROVE CallOf(k)'
  <2>1. /\ status'[k] = status[k] /\ pc'[k] = pc[k]
        /\ call'[k] = call[k] /\ phase'[k] = phase[k]
    BY <1>0, <1>3 DEF Lane, StartJob, StartUnloaded, Observe, BeginCancel,
       HandshakeDone, HandshakeFails, GraceAnswered, GraceExpires, Close, Settle
  <2> QED
    BY <1>1, <1>3, <2>1, CallKept DEF Calls
<1>4. CallOf(j) /\ Stages
  BY DEF Calls
<1>5. ASSUME NEW r, Settle(j, r)
      PROVE  /\ pc'[j] = "closing"
             /\ r = "cancelled" => status'[j] = "cancelled"
             /\ r = "error" => status'[j] = "failed"
  BY <1>0, <1>5 DEF Settle
<1>6. ASSUME StartJob(j) \/ StartUnloaded(j) PROVE CallOf(j)'
  BY <1>0, <1>1, <1>4, <1>6 DEF StartJob, StartUnloaded, CallOf
<1>7. ASSUME BeginCancel(j) \/ HandshakeDone(j) PROVE CallOf(j)'
  BY <1>0, <1>1, <1>4, <1>7 DEF BeginCancel, HandshakeDone, CallOf
<1>8. ASSUME Observe(j) \/ GraceAnswered(j) PROVE CallOf(j)'
  <2>1. call[j] \notin Running /\ call'[j] = call[j] /\ pc'[j] = "closing"
    BY <1>0, <1>4, <1>5, <1>8 DEF Observe, GraceAnswered, CallOf
  <2>2. pc[j] # "none"
    BY <1>8 DEF Observe, GraceAnswered
  <2> QED
    BY <1>1, <1>4, <2>1, <2>2 DEF CallOf
<1>9. ASSUME HandshakeFails(j) PROVE CallOf(j)'
  <2>1. /\ pc'[j] = "closing" /\ status'[j] = "failed"
        /\ call'[j] = call[j] /\ phase'[j] = phase[j] /\ pc[j] = "handshake"
    BY <1>5, <1>9 DEF HandshakeFails
  <2> QED
    BY <1>0, <1>1, <1>4, <2>1 DEF CallOf
<1>10. ASSUME GraceExpires(j) PROVE CallOf(j)'
  <2>1. /\ pc'[j] = "closing" /\ status'[j] = "cancelled" /\ pc[j] = "grace"
        /\ phase'[j] = "completed" /\ call'[j] \in {"dropped", "orphaned"}
    BY <1>0, <1>5, <1>10 DEF GraceExpires
  <2> QED
    BY <1>0, <1>1, <1>4, <2>1 DEF CallOf
<1>11. ASSUME Close(j) PROVE CallOf(j)'
  <2>1. /\ pc[j] = "closing" /\ pc'[j] = "done" /\ status'[j] = status[j]
        /\ call'[j] = call[j] /\ phase'[j] = phase[j]
    BY <1>0, <1>11 DEF Close
  <2> QED
    BY <1>1, <1>4, <2>1 DEF CallOf
<1>12. CallOf(j)'
  BY <1>6, <1>7, <1>8, <1>9, <1>10, <1>11 DEF Lane
<1> QED
  BY <1>2, <1>3, <1>12 DEF Calls

LEMMA CallsNext == TypeOK /\ Stages /\ Calls /\ [Next]_vars => Calls'
<1> SUFFICES ASSUME TypeOK, Stages, Calls, [Next]_vars PROVE Calls'
  OBVIOUS
<1>0. /\ status \in [Jobs -> {"new", "pending", "running"} \cup Terminal]
      /\ pc \in [Jobs -> {"none", "done"} \cup Live]
      /\ call \in [Jobs -> {"none", "ok", "error", "acked", "dropped"} \cup Running]
      /\ starts \in Nat /\ flag \in BOOLEAN
  BY DEF TypeOK
<1>1. \A j \in Jobs : CallOf(j)
  BY DEF Calls
<1>2. ASSUME UNCHANGED <<status, pc, call, phase, loop, flag, stopper, starts>>
      PROVE  Calls'
  BY <1>2, CallKept DEF Calls, Switch
<1>3. ASSUME UNCHANGED <<pc, call, phase, flag, starts, stopper>>, Switch',
             \A j \in Jobs : status'[j] # status[j] => pc[j] \in {"none", "created"}
      PROVE  Calls'
  <2> SUFFICES ASSUME NEW j \in Jobs PROVE CallOf(j)'
    BY <1>3 DEF Calls
  <2>1. CASE status'[j] = status[j]
    BY <1>1, <1>3, <2>1, CallKept
  <2>2. CASE pc[j] \in {"none", "created"}
    BY <1>1, <1>3, <2>2 DEF CallOf, Running
  <2> QED
    BY <1>3, <2>1, <2>2
<1>4. CASE Caller
  <2>1. ASSUME NEW j \in Jobs, NEW p \in Priorities, Submit(j, p) PROVE Calls'
    <3>1. \A k \in Jobs : status'[k] # status[k] => pc[k] = "none"
      BY <1>0, <2>1 DEF Submit, Stages, Suspended, Terminal, Live
    <3> QED
      BY <1>3, <2>1, <3>1 DEF Submit, task, Calls, Switch
  <2>2. ASSUME NEW j \in Jobs, NEW p \in Priorities, Reorder(j, p) PROVE Calls'
    BY <1>2, <2>2 DEF Reorder, task, sched
  <2>3. ASSUME NEW j \in Jobs, CancelPending(j) PROVE Calls'
    <3>1. \A k \in Jobs : status'[k] # status[k] => pc[k] \in {"none", "created"}
      BY <1>0, <2>3 DEF CancelPending, Stages
    <3> QED
      BY <1>3, <2>3, <3>1 DEF CancelPending, task, sched, Calls, Switch
  <2>4. ASSUME NEW j \in Jobs, CancelRunning(j) PROVE Calls'
    BY <1>2, <2>4 DEF CancelRunning, sched
  <2>5. CASE Start
    <3>1. /\ starts' = starts + 1 /\ flag' = TRUE /\ stopper = "idle"
          /\ UNCHANGED <<status, pc, call, phase, stopper>>
      BY <2>5 DEF Start, task
    <3> SUFFICES ASSUME NEW j \in Jobs PROVE CallOf(j)'
      BY <1>0, <3>1 DEF Calls, Switch
    <3>2. call[j] \in Running => starts > 0
      BY <1>1 DEF CallOf, Running
    <3> QED
      BY <1>0, <1>1, <3>1, <3>2 DEF CallOf, Running
  <2>6. CASE Stop
    <3>1. /\ flag' = FALSE /\ UNCHANGED <<status, pc, call, phase, loop, starts>>
      BY <2>6 DEF Stop, task
    <3> QED
      BY <1>0, <1>1, <3>1 DEF CallOf, Calls, Switch
  <2> QED
    BY <1>4, <2>1, <2>2, <2>3, <2>4, <2>5, <2>6 DEF Caller
<1>5. CASE Dispatch
  <2>1. CASE WakeIdle \/ WakeFetch \/ LoopExits
    BY <1>3, <2>1 DEF WakeIdle, WakeFetch, LoopExits, task, Calls, Switch
  <2>2. ASSUME NEW t \in Telemetry, Scan(t) PROVE Calls'
    <3>1. /\ status' = [j \in Jobs |-> IF j \in Dead(t) THEN "failed" ELSE status[j]]
          /\ pc' = [j \in Jobs |-> IF j \in Chosen(t) THEN "created" ELSE pc[j]]
          /\ UNCHANGED <<call, phase, flag, stopper, starts>>
      BY <2>2, ScanEffect
    <3>2. \A j \in Dead(t) \cup Chosen(t) : pc[j] = "none"
      BY ScanSets DEF Stages
    <3>3. starts > 0 /\ (loop' # "exited" => flag)
      BY <2>2 DEF Scan, Calls, Switch
    <3>4. Switch'
      BY <3>1, <3>3 DEF Calls, Switch
    <3> SUFFICES ASSUME NEW j \in Jobs PROVE CallOf(j)'
      BY <3>4 DEF Calls
    <3>5. CASE j \in Dead(t) \cup Chosen(t)
      <4>1. call[j] = "none" /\ phase[j] = "none"
        BY <1>1, <3>2, <3>5 DEF CallOf
      <4>2. pc'[j] \in {"none", "created"}
        BY <3>1, <3>2, <3>5
      <4> QED
        BY <3>1, <3>3, <4>1, <4>2 DEF CallOf, Running, Suspended
    <3>6. CASE j \notin Dead(t) \cup Chosen(t)
      BY <1>1, <3>1, <3>6, CallKept
    <3> QED
      BY <3>5, <3>6
  <2> QED
    BY <1>5, <2>1, <2>2 DEF Dispatch
<1>6. CASE \E j \in Jobs : Lane(j)
  BY <1>6, CallsLane
<1>7. CASE Stopping
  <2>1. CASE JoinExpires \/ Joined \/ Drained
    <3>1. /\ UNCHANGED <<status, pc, call, phase, flag, starts>>
          /\ stopper' # "idle" => stopper # "idle"
          /\ loop' # "exited" => loop # "exited"
      BY <2>1 DEF JoinExpires, Joined, Drained, task
    <3> QED
      BY <1>1, <3>1, CallKept DEF Calls, Switch
  <2>2. CASE DrainExpires
    <3>1. /\ status' = [j \in Jobs |-> IF pc[j] \in Suspended THEN "cancelled"
                                                              ELSE status[j]]
          /\ call' = [j \in Jobs |-> IF pc[j] = "grace" /\ call[j] = "inflight"
                                     THEN "orphaned" ELSE call[j]]
          /\ pc' = [j \in Jobs |-> IF pc[j] \in Suspended THEN "closing" ELSE pc[j]]
          /\ stopper = "draining" /\ stopper' = "idle"
          /\ UNCHANGED <<phase, loop, flag, starts>>
      BY <2>2 DEF DrainExpires
    <3>2. ~flag /\ Switch'
      BY <3>1 DEF Calls, Switch
    <3> SUFFICES ASSUME NEW j \in Jobs PROVE CallOf(j)'
      BY <3>2 DEF Calls
    <3> QED
      BY <1>0, <1>1, <3>1, <3>2 DEF CallOf, Running, Suspended
  <2> QED
    BY <1>7, <2>1, <2>2 DEF Stopping
<1>8. CASE Environment
  <2>1. ASSUME NEW j \in Jobs, CallReturns(j) PROVE Calls'
    <3>1. /\ call[j] \in Running
          /\ \E r \in {"ok", "error", "acked", "dropped"} : call' = [call EXCEPT ![j] = r]
          /\ UNCHANGED <<status, pc, phase, loop, flag, stopper, starts>>
      BY <2>1 DEF CallReturns, sched
    <3> SUFFICES ASSUME NEW k \in Jobs PROVE CallOf(k)'
      BY <3>1 DEF Calls, Switch
    <3> QED
      BY <1>0, <1>1, <3>1 DEF CallOf, Running
  <2>2. CASE \E j \in Jobs : EvictionWakes(j)
    BY <1>2, <2>2 DEF EvictionWakes, task
  <2>3. CASE \E i \in Instances : ProfileChanges(i)
    BY <1>2, <2>3 DEF ProfileChanges, task, sched
  <2> QED
    BY <1>8, <2>1, <2>2, <2>3 DEF Environment
<1>9. CASE UNCHANGED vars
  BY <1>2, <1>9 DEF vars, task, sched
<1> QED
  BY <1>4, <1>5, <1>6, <1>7, <1>8, <1>9 DEF Next

(* A call that outlives its job's lane is one whose cancel signal could    *)
(* not be sent, one the force drop's reload gave up on, or one stop() left *)
(* behind, and the job's record tells which.                               *)
THEOREM LanesCoverCalls == Spec => []LaneCoversCall
<1>1. TypeOK /\ Stages /\ Calls /\ [Next]_vars => Calls'
  BY CallsNext
<1>2. Calls => LaneCoversCall
  BY DEF Calls, CallOf, LaneCoversCall
<1> QED
  BY <1>1, <1>2, CallsInit, TypeCorrect, StagesCorrect, PTL DEF Spec

-----------------------------------------------------------------------------
(* The queue implements the ledger.                                        *)

Submitted == {k \in Jobs : status[k] # "new"}

(* submitted_at orders the jobs: no two have the same, none is ahead of    *)
(* the clock.                                                              *)
Arrivals ==
  \A j \in Submitted :
    /\ arrival[j] =< Cardinality(Submitted)
    /\ \A k \in Submitted : k # j => arrival[k] # arrival[j]

LEMMA ArrivalsInit == Init => Arrivals
BY DEF Init, Arrivals, Submitted

LEMMA ArrivalsNext == TypeOK /\ Stages /\ Arrivals /\ [Next]_vars => Arrivals'
<1> SUFFICES ASSUME TypeOK, Stages, Arrivals, JobStep PROVE Arrivals'
  BY NextIsJobStep
<1>0. /\ status \in [Jobs -> {"new", "pending", "running"} \cup Terminal]
      /\ arrival \in [Jobs -> Nat] /\ pending \subseteq Jobs
      /\ pc \in [Jobs -> {"none", "done"} \cup Live]
  BY DEF TypeOK
<1>1. ASSUME NEW j \in Jobs, NEW p \in Priorities, Submit(j, p) PROVE Arrivals'
  <2>1. Submitted \in SUBSET Jobs
    BY DEF Submitted
  <2>2. IsFiniteSet(Submitted) /\ Cardinality(Submitted) \in Nat
    BY <2>1, Counted
  <2>3. Submitted' = Submitted \cup {j} /\ j \notin Submitted
    BY <1>0, <1>1 DEF Submit, Submitted
  <2>4. Cardinality(Submitted') = Cardinality(Submitted) + 1
    BY <2>2, <2>3, FS_AddElement
  <2>5. arrival' = [arrival EXCEPT ![j] = Cardinality(Submitted) + 1]
    BY <1>1 DEF Submit, Submitted
  <2> QED
    BY <1>0, <2>1, <2>2, <2>3, <2>4, <2>5 DEF Arrivals
<1>2. ASSUME Submitted' = Submitted, arrival' = arrival PROVE Arrivals'
  BY <1>2 DEF Arrivals
<1>3. CASE Quiet
  BY <1>2, <1>3 DEF Quiet, Submitted
<1>4. ASSUME NEW j \in Jobs, CancelPending(j) PROVE Arrivals'
  BY <1>0, <1>2, <1>4 DEF CancelPending, Submitted
<1>5. ASSUME NEW j \in Jobs, StartJob(j) \/ StartUnloaded(j) PROVE Arrivals'
  <2>1. status[j] # "new"
    BY <1>5 DEF StartJob, StartUnloaded, Stages
  <2> QED
    BY <1>0, <1>2, <1>5, <2>1 DEF StartJob, StartUnloaded, Submitted, heap
<1>6. ASSUME NEW j \in Jobs, Close(j) \/ Moves(j) PROVE Arrivals'
  BY <1>2, <1>6 DEF Close, Moves, Submitted, heap
<1>7. ASSUME NEW j \in Jobs, Settles(j) PROVE Arrivals'
  <2>1. status[j] # "new"
    BY <1>7 DEF Settles, Stages
  <2> QED
    BY <1>0, <1>2, <1>7, <2>1 DEF Settles, Submitted, Terminal
<1>8. ASSUME NEW t \in Telemetry, Scan(t) PROVE Arrivals'
  <2>1. /\ status' = [j \in Jobs |-> IF j \in Dead(t) THEN "failed" ELSE status[j]]
        /\ arrival' = arrival
    BY <1>8, ScanEffect
  <2>2. \A j \in Dead(t) : j \in Jobs /\ status[j] # "new"
    BY <1>0, ScanSets DEF Stages
  <2> QED
    BY <1>0, <1>2, <2>1, <2>2 DEF Submitted
<1>9. CASE DrainExpires
  <2>1. \A j \in Jobs : pc[j] \in Suspended => status[j] # "new"
    BY DEF Stages
  <2> QED
    BY <1>0, <1>2, <1>9, <2>1 DEF DrainExpires, Submitted, heap
<1> QED
  BY <1>1, <1>3, <1>4, <1>5, <1>6, <1>7, <1>8, <1>9 DEF JobStep

LEMMA ArrivalsCorrect == Spec => []Arrivals
<1>1. TypeOK /\ Stages /\ Arrivals /\ [Next]_vars => Arrivals'
  BY ArrivalsNext
<1> QED
  BY <1>1, ArrivalsInit, TypeCorrect, StagesCorrect, PTL DEF Spec

(* A scan admits at most one job.                                          *)
LEMMA OneChosen ==
  ASSUME TypeOK, Stages, Arrivals, NEW t, NEW j \in Chosen(t), NEW k \in Chosen(t)
  PROVE  j = k
<1> SUFFICES ASSUME j # k PROVE FALSE
  OBVIOUS
<1>1. j \in pending /\ k \in pending /\ j \in Jobs /\ k \in Jobs
  BY ScanSets
<1>2. j \in Submitted /\ k \in Submitted
  BY <1>1 DEF Stages, Submitted
<1>3. Ahead(j, k) \/ Ahead(k, j)
  BY <1>1, <1>2 DEF Arrivals, Ahead, TypeOK
<1>4. AdmitsAlone(j, t) \/ AdmitsShared(j, t)
  BY DEF Chosen
<1>5. AdmitsAlone(k, t) \/ AdmitsShared(k, t)
  BY DEF Chosen
<1>6. ~Ahead(j, k)
  BY <1>1, <1>4 DEF Chosen
<1>7. ~Ahead(k, j)
  BY <1>1, <1>5 DEF Chosen
<1> QED
  BY <1>3, <1>6, <1>7

(* The cardinality an instance of AdmissionLedger uses is the library's.   *)
LEMMA SameCount == \A S : Ledger!Cardinality(S) = Cardinality(S)
BY DEF Cardinality, Ledger!Cardinality

LEMMA ScanImplements ==
  ASSUME TypeOK, LanesAreTasks, Stages, Arrivals, NEW t, Scan(t)
  PROVE  [Ledger!Next]_(Ledger!ledger)
<1>1. /\ running' = running \cup Chosen(t)
      /\ exclusive' = exclusive \cup {j \in Chosen(t) : Unverified(j, t)}
      /\ reserved' = [j \in Jobs |-> IF j \in Chosen(t) /\ Peak(j) > 0
                                     THEN Peak(j) ELSE reserved[j]]
  BY ScanEffect
<1>2. reserved \in [Jobs -> Nat]
  BY DEF TypeOK
<1>3. CASE Chosen(t) = {}
  BY <1>1, <1>2, <1>3 DEF Ledger!ledger
<1>4. CASE Chosen(t) # {}
  <2>1. PICK j : j \in Chosen(t)
    BY <1>4
  <2>2. Chosen(t) = {j}
    BY <2>1, OneChosen
  <2>3. j \in pending /\ j \in Jobs
    BY <2>1, ScanSets
  <2>4. j \notin running /\ reserved[j] = 0
    BY <1>2, <2>3 DEF LanesAreTasks, Stages, Live, Suspended
  <2>5. Cardinality(running) < Lanes /\ exclusive = {}
    BY <2>1 DEF Chosen, Open
  <2> DEFINE gpu == IF Peak(j) > 0 THEN Peak(j) ELSE 0
  <2>6. gpu \in Peaks \cup {0}
    BY <2>3, PeakType
  <2>7. reserved' = [reserved EXCEPT ![j] = gpu]
    BY <1>1, <1>2, <2>2, <2>3, <2>4
  <2>8. AdmitsAlone(j, t) \/ AdmitsShared(j, t)
    BY <2>1 DEF Chosen
  <2>9. Ledger!UnderCap(j)
    BY <2>8, SameCount DEF AdmitsAlone, AdmitsShared, UnderCap, InFlight, Ledger!UnderCap,
       Ledger!InFlight
  <2>10. CASE AdmitsAlone(j, t)
    <3>1. running = {} /\ exclusive' = {j}
      BY <1>1, <2>2, <2>5, <2>10 DEF AdmitsAlone
    <3>2. Ledger!AdmitAlone(j, gpu)
      BY <1>1, <2>2, <2>7, <3>1 DEF Ledger!AdmitAlone
    <3> QED
      BY <2>3, <2>6, <3>2 DEF Ledger!Next
  <2>11. CASE AdmitsShared(j, t)
    <3>1. exclusive' = exclusive
      BY <1>1, <2>2, <2>11 DEF AdmitsShared
    <3>2. gpu > 0 => Ledger!Total(reserved) + gpu =< Budget
      BY <2>11 DEF AdmitsShared, WithinLedger, Total
    <3>3. Ledger!AdmitShared(j, gpu)
      BY <1>1, <2>2, <2>4, <2>5, <2>7, <2>9, <3>1, <3>2, SameCount
         DEF Ledger!AdmitShared
    <3> QED
      BY <2>3, <2>6, <3>3 DEF Ledger!Next
  <2> QED
    BY <2>8, <2>10, <2>11
<1> QED
  BY <1>3, <1>4

LEMMA NextImplements ==
  TypeOK /\ LanesAreTasks /\ Stages /\ Arrivals /\ [Next]_vars
    => [Ledger!Next]_(Ledger!ledger)
<1> SUFFICES ASSUME TypeOK, LanesAreTasks, Stages, Arrivals, JobStep
             PROVE  [Ledger!Next]_(Ledger!ledger)
  BY NextIsJobStep
<1>1. ASSUME UNCHANGED ledger PROVE UNCHANGED Ledger!ledger
  BY <1>1 DEF ledger, Ledger!ledger
<1>2. CASE Quiet
  BY <1>1, <1>2 DEF Quiet
<1>3. ASSUME NEW j \in Jobs,
             \/ \E p \in Priorities : Submit(j, p)
             \/ CancelPending(j) \/ StartJob(j) \/ Moves(j) \/ Settles(j)
      PROVE  UNCHANGED Ledger!ledger
  BY <1>1, <1>3 DEF Submit, CancelPending, StartJob, Moves, Settles
<1>4. ASSUME NEW j \in Jobs, StartUnloaded(j) \/ Close(j) PROVE Ledger!Next
  <2>1. j \in running
    BY <1>4 DEF LanesAreTasks, StartUnloaded, Close, Live
  <2>2. Ledger!Release(j)
    BY <1>4, <2>1 DEF StartUnloaded, Close, Finalize, Ledger!Release
  <2> QED
    BY <2>2 DEF Ledger!Next
<1>5. ASSUME NEW t \in Telemetry, Scan(t) PROVE [Ledger!Next]_(Ledger!ledger)
  BY <1>5, ScanImplements
<1>6. CASE DrainExpires
  BY <1>1, <1>6 DEF DrainExpires
<1> QED
  BY <1>2, <1>3, <1>4, <1>5, <1>6 DEF JobStep

(* Lanes are taken by one of the two admissions of the ledger and given    *)
(* back by one release: the queue implements AdmissionLedger.              *)
THEOREM ImplementsLedger == Spec => LedgerSpec
<1>1. Init => Ledger!Init
  BY DEF Init, Ledger!Init
<1>2. Spec => Ledger!Init /\ [][Ledger!Next]_(Ledger!ledger)
  BY <1>1, NextImplements, TypeCorrect, LanesCorrect, StagesCorrect,
     ArrivalsCorrect, PTL DEF Spec
<1> QED
  BY <1>2 DEF LedgerSpec, Ledger!Spec

-----------------------------------------------------------------------------
(* The ledger keeps its promise.  What makes AdmissionSafe inductive: a    *)
(* reservation belongs to a running job, and what is counted is finite.    *)
LedgerInv ==
  /\ running \subseteq Jobs /\ IsFiniteSet(running)
  /\ exclusive \subseteq running
  /\ reserved \in [Jobs -> Nat]
  /\ \A j \in Jobs : reserved[j] > 0 => j \in running
  /\ IsFiniteSet(Ledger!Units(reserved))
  /\ Ledger!AdmissionSafe

(* An empty ledger sums to nothing.                                        *)
LEMMA NothingReserved ==
  ASSUME NEW r \in [Jobs -> Nat], \A j \in Jobs : r[j] = 0
  PROVE  IsFiniteSet(Ledger!Units(r)) /\ Ledger!Total(r) = 0
<1>1. \A j \in Jobs : {j} \X (1 .. r[j]) = {}
  OBVIOUS
<1>2. Ledger!Units(r) = {}
  BY <1>1 DEF Ledger!Units
<1> QED
  BY SameCount, <1>2, FS_EmptySet DEF Ledger!Total

LEMMA Block ==
  ASSUME NEW j, NEW n \in Nat
  PROVE  IsFiniteSet({j} \X (1 .. n)) /\ Cardinality({j} \X (1 .. n)) = n
<1>1. IsFiniteSet({j}) /\ Cardinality({j}) = 1
  BY FS_Singleton
<1>2. IsFiniteSet(1 .. n) /\ Cardinality(1 .. n) = n
  BY FS_Interval
<1>3. /\ IsFiniteSet({j} \X (1 .. n))
      /\ Cardinality({j} \X (1 .. n)) = Cardinality({j}) * Cardinality(1 .. n)
  BY <1>1, <1>2, FS_Product
<1> QED
  BY <1>1, <1>2, <1>3

(* Entering n units for a job that has none adds n to the total.           *)
LEMMA Reserving ==
  ASSUME NEW r \in [Jobs -> Nat], IsFiniteSet(Ledger!Units(r)),
         NEW j \in Jobs, r[j] = 0, NEW n \in Nat
  PROVE  LET s == [r EXCEPT ![j] = n]
         IN  IsFiniteSet(Ledger!Units(s)) /\ Ledger!Total(s) = Ledger!Total(r) + n
<1> DEFINE s == [r EXCEPT ![j] = n]
           B == {j} \X (1 .. n)
<1>1. IsFiniteSet(B) /\ Cardinality(B) = n
  BY Block
<1>2. Ledger!Units(s) = Ledger!Units(r) \cup B
  <2>1. \A k \in Jobs : k # j => {k} \X (1 .. s[k]) = {k} \X (1 .. r[k])
    OBVIOUS
  <2>2. {j} \X (1 .. s[j]) = B
    OBVIOUS
  <2>3. {j} \X (1 .. r[j]) = {}
    OBVIOUS
  <2> HIDE DEF s, B
  <2> QED
    BY <2>1, <2>2, <2>3 DEF Ledger!Units
<1>3. Ledger!Units(r) \cap B = {}
  <2> SUFFICES ASSUME NEW x \in Ledger!Units(r), x \in B PROVE FALSE
    OBVIOUS
  <2>1. PICK k \in Jobs : x \in {k} \X (1 .. r[k])
    BY DEF Ledger!Units
  <2>2. x[1] = k /\ x[1] = j /\ x[2] \in 1 .. r[k]
    BY <2>1
  <2> QED
    BY <2>2
<1> HIDE DEF B, s
<1>4. /\ IsFiniteSet(Ledger!Units(r) \cup B)
      /\ Cardinality(Ledger!Units(r) \cup B)
           = Cardinality(Ledger!Units(r)) + Cardinality(B)
               - Cardinality(Ledger!Units(r) \cap B)
  BY <1>1, FS_Union
<1>5. Cardinality(Ledger!Units(r)) \in Nat
  BY FS_CardinalityType
<1>6. Cardinality(Ledger!Units(r) \cap B) = 0
  BY <1>3, FS_EmptySet
<1>7. /\ IsFiniteSet(Ledger!Units(s))
      /\ Cardinality(Ledger!Units(s)) = Cardinality(Ledger!Units(r)) + n
  BY <1>1, <1>2, <1>4, <1>5, <1>6
<1> QED
  BY SameCount, <1>7 DEF Ledger!Total, s

(* Clearing a job's entry never raises the total.                          *)
LEMMA Returning ==
  ASSUME NEW r \in [Jobs -> Nat], IsFiniteSet(Ledger!Units(r)), NEW j \in Jobs
  PROVE  LET s == [r EXCEPT ![j] = 0]
         IN  IsFiniteSet(Ledger!Units(s)) /\ Ledger!Total(s) =< Ledger!Total(r)
<1> DEFINE s == [r EXCEPT ![j] = 0]
<1>1. \A k \in Jobs : {k} \X (1 .. s[k]) \subseteq {k} \X (1 .. r[k])
  OBVIOUS
<1> HIDE DEF s
<1>2. Ledger!Units(s) \in SUBSET Ledger!Units(r)
  BY <1>1 DEF Ledger!Units
<1> QED
  BY SameCount, <1>2, FS_Subset DEF Ledger!Total, s

-----------------------------------------------------------------------------

LEMMA LedgerInit ==
  ASSUME Ledger!LedgerAssumption
  PROVE  Ledger!Init => LedgerInv
<1> SUFFICES ASSUME Ledger!Init PROVE LedgerInv
  OBVIOUS
<1>1. reserved \in [Jobs -> Nat] /\ \A j \in Jobs : reserved[j] = 0
  BY DEF Ledger!Init
<1>2. IsFiniteSet(Ledger!Units(reserved)) /\ Ledger!Total(reserved) = 0
  BY <1>1, NothingReserved
<1>3. IsFiniteSet(running) /\ Cardinality(running) = 0
  BY FS_EmptySet DEF Ledger!Init
<1>4. \A i \in Instances : Ledger!InFlight(i) = {}
  BY DEF Ledger!Init, Ledger!InFlight
<1>5. Ledger!CapRespected
  BY SameCount, <1>4, FS_EmptySet DEF Ledger!LedgerAssumption, Ledger!CapRespected
<1>6. Ledger!LanesRespected /\ Ledger!AloneIsAlone /\ Ledger!BudgetRespected
  BY SameCount, <1>2, <1>3
     DEF Ledger!LedgerAssumption, Ledger!Init, Ledger!LanesRespected,
         Ledger!AloneIsAlone, Ledger!BudgetRespected
<1> QED
  BY <1>1, <1>2, <1>3, <1>5, <1>6 DEF LedgerInv, Ledger!AdmissionSafe, Ledger!Init

(* The jobs an instance has in flight when one more job is admitted.       *)
LEMMA OneMoreInFlight ==
  ASSUME LedgerInv, NEW j \in Jobs, j \notin running, running' = running \cup {j},
         NEW i \in Instances
  PROVE  /\ IsFiniteSet(Ledger!InFlight(i))
         /\ Cardinality(Ledger!InFlight(i)) \in Nat
         /\ Ledger!InFlight(i)'
              = IF Inst[j] = i THEN Ledger!InFlight(i) \cup {j} ELSE Ledger!InFlight(i)
         /\ Inst[j] = i =>
              Cardinality(Ledger!InFlight(i)') = Cardinality(Ledger!InFlight(i)) + 1
<1>1. IsFiniteSet(Ledger!InFlight(i)) /\ Cardinality(Ledger!InFlight(i)) \in Nat
  <2>1. Ledger!InFlight(i) \in SUBSET running
    BY DEF Ledger!InFlight
  <2> QED
    BY <2>1, FS_Subset, FS_CardinalityType DEF LedgerInv
<1>2. Ledger!InFlight(i)'
        = IF Inst[j] = i THEN Ledger!InFlight(i) \cup {j} ELSE Ledger!InFlight(i)
  BY DEF Ledger!InFlight
<1>3. j \notin Ledger!InFlight(i)
  BY DEF Ledger!InFlight
<1>4. Cardinality(Ledger!InFlight(i) \cup {j}) = Cardinality(Ledger!InFlight(i)) + 1
  BY <1>1, <1>3, FS_AddElement
<1> QED
  BY <1>1, <1>2, <1>4

LEMMA SharedKeeps ==
  ASSUME Ledger!LedgerAssumption, LedgerInv, NEW j \in Jobs, NEW gpu \in Nat,
         Ledger!AdmitShared(j, gpu)
  PROVE  LedgerInv'
<1> USE DEF LedgerInv
<1>1. reserved[j] = 0
  BY DEF Ledger!AdmitShared
<1>2. IsFiniteSet(Ledger!Units(reserved)) /\ Ledger!Total(reserved) \in Nat
  BY SameCount, FS_CardinalityType DEF Ledger!Total
<1>3. /\ IsFiniteSet(Ledger!Units(reserved'))
      /\ Ledger!Total(reserved') = Ledger!Total(reserved) + gpu
  BY <1>1, <1>2, Reserving DEF Ledger!AdmitShared
<1>4. Ledger!BudgetRespected'
  <2>1. Ledger!Total(reserved) =< Budget
    BY DEF Ledger!AdmitShared, Ledger!AdmissionSafe, Ledger!BudgetRespected
  <2>2. CASE gpu = 0
    BY <1>2, <1>3, <2>1, <2>2 DEF Ledger!BudgetRespected, Ledger!Total, Ledger!Units
  <2>3. CASE gpu > 0
    BY <1>2, <1>3, <2>3
       DEF Ledger!BudgetRespected, Ledger!AdmitShared, Ledger!Total, Ledger!Units
  <2> QED
    BY <2>2, <2>3
<1>5. Ledger!LanesRespected' /\ IsFiniteSet(running')
  <2>1. Cardinality(running) \in Nat
    BY FS_CardinalityType
  <2>2. /\ IsFiniteSet(running \cup {j})
        /\ Cardinality(running \cup {j}) = Cardinality(running) + 1
    BY FS_AddElement DEF Ledger!AdmitShared
  <2> QED
    BY SameCount, <2>1, <2>2
       DEF Ledger!LedgerAssumption, Ledger!AdmitShared, Ledger!LanesRespected
<1>6. Ledger!CapRespected'
  <2> SUFFICES ASSUME NEW i \in Instances
               PROVE  Cardinality(Ledger!InFlight(i)') =< Cap[i]
    BY SameCount DEF Ledger!CapRespected
  <2>1. /\ Cardinality(Ledger!InFlight(i)) \in Nat
        /\ Ledger!InFlight(i)'
             = IF Inst[j] = i THEN Ledger!InFlight(i) \cup {j} ELSE Ledger!InFlight(i)
        /\ Inst[j] = i =>
             Cardinality(Ledger!InFlight(i)') = Cardinality(Ledger!InFlight(i)) + 1
    BY OneMoreInFlight DEF Ledger!AdmitShared
  <2>2. CASE Inst[j] = i
    <3>1. Cardinality(Ledger!InFlight(i)) < Cap[i] /\ Cap[i] \in Nat
      BY SameCount, <2>2
         DEF Ledger!LedgerAssumption, Ledger!AdmitShared, Ledger!UnderCap
    <3> QED
      BY <2>1, <2>2, <3>1
  <2>3. CASE Inst[j] # i
    BY SameCount, <2>1, <2>3 DEF Ledger!AdmissionSafe, Ledger!CapRespected
  <2> QED
    BY <2>2, <2>3
<1>7. Ledger!AloneIsAlone'
  BY DEF Ledger!AdmitShared, Ledger!AloneIsAlone
<1>8. /\ running' \subseteq Jobs /\ exclusive' \subseteq running'
      /\ reserved' \in [Jobs -> Nat]
      /\ \A k \in Jobs : reserved'[k] > 0 => k \in running'
  BY DEF Ledger!AdmitShared
<1> QED
  BY <1>3, <1>4, <1>5, <1>6, <1>7, <1>8
     DEF Ledger!AdmissionSafe, Ledger!Units, Ledger!Total

LEMMA AloneKeeps ==
  ASSUME Ledger!LedgerAssumption, LedgerInv, NEW j \in Jobs, NEW gpu \in Nat,
         Ledger!AdmitAlone(j, gpu)
  PROVE  LedgerInv'
<1>1. /\ reserved \in [Jobs -> Nat] /\ reserved[j] = 0
      /\ \A k \in Jobs : reserved[k] = 0
      /\ IsFiniteSet(Ledger!Units(reserved))
  BY DEF LedgerInv, Ledger!AdmitAlone
<1>2. IsFiniteSet(Ledger!Units(reserved'))
  BY <1>1, Reserving DEF Ledger!AdmitAlone
<1>3. IsFiniteSet(running') /\ Cardinality(running') = 1
  BY FS_Singleton DEF Ledger!AdmitAlone
<1>4. Ledger!LanesRespected' /\ Ledger!AloneIsAlone' /\ Ledger!BudgetRespected'
  BY SameCount, <1>3
     DEF Ledger!LedgerAssumption, Ledger!AdmitAlone, Ledger!LanesRespected,
         Ledger!AloneIsAlone, Ledger!BudgetRespected
<1>5. Ledger!CapRespected'
  <2> SUFFICES ASSUME NEW i \in Instances
               PROVE  Cardinality(Ledger!InFlight(i)') =< Cap[i]
    BY SameCount DEF Ledger!CapRespected
  <2>1. Ledger!InFlight(i)' \in SUBSET running'
    BY DEF Ledger!InFlight
  <2>2. /\ Cardinality(Ledger!InFlight(i)') =< 1
        /\ Cardinality(Ledger!InFlight(i)') \in Nat
    BY <1>3, <2>1, FS_Subset, FS_CardinalityType
  <2>3. Cap[i] \in Nat \ {0}
    BY DEF Ledger!LedgerAssumption
  <2> QED
    BY <2>2, <2>3
<1>6. /\ running' \subseteq Jobs /\ exclusive' \subseteq running'
      /\ reserved' \in [Jobs -> Nat]
      /\ \A k \in Jobs : reserved'[k] > 0 => k \in running'
  BY <1>1 DEF Ledger!AdmitAlone
<1> QED
  BY <1>2, <1>3, <1>4, <1>5, <1>6 DEF LedgerInv, Ledger!AdmissionSafe, Ledger!Units

LEMMA ReleaseKeeps ==
  ASSUME Ledger!LedgerAssumption, LedgerInv, NEW j \in Jobs, Ledger!Release(j)
  PROVE  LedgerInv'
<1>0. /\ reserved \in [Jobs -> Nat]
      /\ IsFiniteSet(Ledger!Units(reserved))
      /\ IsFiniteSet(running)
  BY DEF LedgerInv
<1>1. /\ IsFiniteSet(Ledger!Units(reserved'))
      /\ Ledger!Total(reserved') =< Ledger!Total(reserved)
  BY <1>0, Returning DEF Ledger!Release
<1>2. Ledger!Total(reserved) \in Nat /\ Ledger!Total(reserved') \in Nat
  BY SameCount, <1>0, <1>1, FS_CardinalityType DEF Ledger!Total
<1>3. running' \in SUBSET running
  BY DEF Ledger!Release
<1>4. /\ IsFiniteSet(running') /\ Cardinality(running') =< Cardinality(running)
      /\ Cardinality(running') \in Nat /\ Cardinality(running) \in Nat
  BY <1>0, <1>3, FS_Subset, FS_CardinalityType
<1>5. Ledger!LanesRespected'
  BY SameCount, <1>4
     DEF Ledger!LedgerAssumption, LedgerInv, Ledger!AdmissionSafe,
         Ledger!LanesRespected
<1>6. Ledger!CapRespected'
  <2> SUFFICES ASSUME NEW i \in Instances
               PROVE  Cardinality(Ledger!InFlight(i)') =< Cap[i]
    BY SameCount DEF Ledger!CapRespected
  <2>1. /\ Ledger!InFlight(i)' \in SUBSET Ledger!InFlight(i)
        /\ Ledger!InFlight(i) \in SUBSET running
    BY <1>3 DEF Ledger!InFlight
  <2>2. IsFiniteSet(Ledger!InFlight(i)) /\ Cardinality(Ledger!InFlight(i)) \in Nat
    BY <1>0, <2>1, FS_Subset, FS_CardinalityType
  <2>3. /\ Cardinality(Ledger!InFlight(i)') =< Cardinality(Ledger!InFlight(i))
        /\ Cardinality(Ledger!InFlight(i)') \in Nat
    BY <2>1, <2>2, FS_Subset, FS_CardinalityType
  <2>4. Cap[i] \in Nat /\ Cardinality(Ledger!InFlight(i)) =< Cap[i]
    BY SameCount
       DEF Ledger!LedgerAssumption, LedgerInv, Ledger!AdmissionSafe,
           Ledger!CapRespected
  <2> QED
    BY <2>2, <2>3, <2>4
<1>7. ASSUME exclusive = {} PROVE Ledger!AloneIsAlone' /\ Ledger!BudgetRespected'
  <2>1. Ledger!Total(reserved) =< Budget
    BY <1>7 DEF LedgerInv, Ledger!AdmissionSafe, Ledger!BudgetRespected
  <2>2. Ledger!Total(reserved') =< Budget
    BY <1>1, <1>2, <2>1 DEF Ledger!LedgerAssumption
  <2> QED
    BY <1>7, <2>2
       DEF Ledger!Release, Ledger!AloneIsAlone, Ledger!BudgetRespected,
           Ledger!Total, Ledger!Units
<1>8. ASSUME exclusive # {} PROVE Ledger!AloneIsAlone' /\ Ledger!BudgetRespected'
  <2>1. running = exclusive /\ Cardinality(running) = 1
    BY SameCount, <1>8 DEF LedgerInv, Ledger!AdmissionSafe, Ledger!AloneIsAlone
  <2>2. running = {j}
    BY <1>0, <2>1, FS_Singleton DEF Ledger!Release
  <2>3. exclusive' = {} /\ \A k \in Jobs : reserved'[k] = 0
    BY <1>0, <2>1, <2>2 DEF Ledger!Release, LedgerInv
  <2>4. reserved' \in [Jobs -> Nat]
    BY <1>0 DEF Ledger!Release
  <2>5. Ledger!Total(reserved') = 0
    BY <2>3, <2>4, NothingReserved
  <2> QED
    BY <2>3, <2>5
       DEF Ledger!LedgerAssumption, Ledger!AloneIsAlone, Ledger!BudgetRespected,
           Ledger!Total, Ledger!Units
<1>9. /\ running' \subseteq Jobs /\ exclusive' \subseteq running'
      /\ reserved' \in [Jobs -> Nat]
      /\ \A k \in Jobs : reserved'[k] > 0 => k \in running'
  BY <1>0 DEF Ledger!Release, LedgerInv
<1> QED
  BY <1>1, <1>4, <1>5, <1>6, <1>7, <1>8, <1>9
     DEF LedgerInv, Ledger!AdmissionSafe, Ledger!Units

LEMMA LedgerNext ==
  ASSUME Ledger!LedgerAssumption
  PROVE  LedgerInv /\ [Ledger!Next]_(Ledger!ledger) => LedgerInv'
<1> SUFFICES ASSUME LedgerInv, [Ledger!Next]_(Ledger!ledger) PROVE LedgerInv'
  OBVIOUS
<1>1. ASSUME NEW j \in Jobs, NEW gpu \in Peaks \cup {0}, Ledger!AdmitShared(j, gpu)
      PROVE  LedgerInv'
  BY <1>1, SharedKeeps DEF Ledger!LedgerAssumption
<1>2. ASSUME NEW j \in Jobs, NEW gpu \in Peaks \cup {0}, Ledger!AdmitAlone(j, gpu)
      PROVE  LedgerInv'
  BY <1>2, AloneKeeps DEF Ledger!LedgerAssumption
<1>3. ASSUME NEW j \in Jobs, Ledger!Release(j) PROVE LedgerInv'
  BY <1>3, ReleaseKeeps
<1>4. CASE UNCHANGED Ledger!ledger
  BY <1>4
     DEF Ledger!ledger, LedgerInv, Ledger!AdmissionSafe, Ledger!LanesRespected,
         Ledger!AloneIsAlone, Ledger!CapRespected, Ledger!BudgetRespected,
         Ledger!InFlight, Ledger!Total, Ledger!Units
<1> QED
  BY <1>1, <1>2, <1>3, <1>4 DEF Ledger!Next

(* Lanes, exclusivity, the per-instance caps and the GPU budget hold       *)
(* together, whatever the admissions and their order.                      *)
THEOREM LedgerIsSafe ==
  ASSUME Ledger!LedgerAssumption
  PROVE  Ledger!Spec => []Ledger!AdmissionSafe
<1>1. LedgerInv => Ledger!AdmissionSafe
  BY DEF LedgerInv
<1> QED
  BY <1>1, LedgerInit, LedgerNext, PTL DEF Ledger!Spec

(* Lanes, exclusivity, caps and the GPU budget hold in every behaviour of  *)
(* the queue.                                                              *)
THEOREM AdmissionIsSafe == Spec => []AdmissionSafe
<1>1. Ledger!LedgerAssumption
  BY QueueAssumption DEF Ledger!LedgerAssumption
<1> QED
  BY <1>1, LedgerIsSafe, ImplementsLedger, PTL DEF LedgerSpec, AdmissionSafe
=============================================================================
