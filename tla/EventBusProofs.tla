----------------------------- MODULE EventBusProofs -----------------------------
(***************************************************************************)
(* Theorems about EventBus, for every set of jobs, every graph of them,    *)
(* every limit of the queues and any number of followers.                  *)
(***************************************************************************)
EXTENDS EventBus, FiniteSetTheorems, SequenceTheorems, WellFoundedInduction, TLAPS

-----------------------------------------------------------------------------
(* What holds of an empty list, and is kept by each element added to it,   *)
(* holds of every list: otherwise take the first for which it does not.    *)

LEMMA Rounds ==
  ASSUME NEW n \in Nat, NEW T, 0 \in T, \A k \in 1 .. n : k - 1 \in T => k \in T
  PROVE  n \in T
<1> DEFINE Bad == {k \in 0 .. n : k \notin T}
<1> SUFFICES ASSUME Bad # {} PROVE FALSE
  OBVIOUS
<1>1. Bad \subseteq Nat
  OBVIOUS
<1> HIDE DEF Bad
<1>2. PICK k \in Bad : \A j \in Bad : ~ (<<j, k>> \in OpToRel(<, Nat))
  BY <1>1, NatLessThanWellFounded, WFMin
<1>3. \A j \in Bad : ~ (j < k)
  BY <1>1, <1>2 DEF OpToRel
<1>4. k \in 0 .. n /\ k \notin T
  BY DEF Bad
<1>5. k # 0 /\ k - 1 \in 0 .. n /\ k \in 1 .. n
  BY <1>4
<1>6. k - 1 \in Bad
  BY <1>4, <1>5 DEF Bad
<1> QED
  BY <1>3, <1>5, <1>6

(* Only sifts the elements of s one by one.                                *)
Sift(list, x, S) == IF x \in S THEN Append(list, x) ELSE list

Sifts(g, s, S, n) == g[0] = <<>> /\ \A i \in 1 .. n : g[i] = Sift(g[i - 1], s[i], S)

LEMMA SiftTyped ==
  ASSUME NEW list \in Seq(Nat), NEW x \in Nat, NEW S
  PROVE  Sift(list, x, S) \in Seq(Nat)
BY DEF Sift

LEMMA SiftExists ==
  ASSUME NEW s \in Seq(Nat), NEW S
  PROVE  \E g \in [0 .. Len(s) -> Seq(Nat)] : Sifts(g, s, S, Len(s))
<1> DEFINE n == Len(s)
           T == {k \in 0 .. n : \E g \in [0 .. k -> Seq(Nat)] : Sifts(g, s, S, k)}
<1>1. n \in Nat /\ \A i \in 1 .. n : s[i] \in Nat
  OBVIOUS
<1> HIDE DEF n
<1>2. 0 \in T
  <2> DEFINE g == [i \in 0 .. 0 |-> <<>>]
  <2>1. g \in [0 .. 0 -> Seq(Nat)] /\ Sifts(g, s, S, 0)
    BY DEF Sifts
  <2>2. 0 \in 0 .. n
    BY <1>1
  <2> HIDE DEF g
  <2> QED
    BY <2>1, <2>2
<1>3. ASSUME NEW k \in 1 .. n, k - 1 \in T PROVE k \in T
  <2>1. PICK g \in [0 .. k - 1 -> Seq(Nat)] : Sifts(g, s, S, k - 1)
    BY <1>3
  <2> DEFINE x == Sift(g[k - 1], s[k], S)
             h == [i \in 0 .. k |-> IF i = k THEN x ELSE g[i]]
  <2>2. k \in Nat \ {0} /\ k \in 0 .. n /\ k - 1 \in 0 .. k - 1
    BY <1>1
  <2>3. x \in Seq(Nat)
    BY <1>1, <2>2, SiftTyped
  <2> HIDE DEF x
  <2>4. h \in [0 .. k -> Seq(Nat)]
    BY <2>2, <2>3
  <2>5. h[0] = <<>> /\ h[k] = x /\ h[k - 1] = g[k - 1]
    BY <2>1, <2>2 DEF Sifts
  <2>6. \A i \in 1 .. k - 1 : h[i] = g[i] /\ h[i - 1] = g[i - 1]
    BY <2>2
  <2> HIDE DEF h
  <2>7. ASSUME NEW i \in 1 .. k PROVE h[i] = Sift(h[i - 1], s[i], S)
    <3>1. CASE i = k
      BY <2>5, <3>1 DEF x
    <3>2. CASE i # k
      <4>1. i \in 1 .. k - 1
        BY <2>2, <3>2
      <4>2. g[i] = Sift(g[i - 1], s[i], S)
        BY <2>1, <4>1 DEF Sifts
      <4> QED
        BY <2>6, <4>1, <4>2
    <3> QED
      BY <3>1, <3>2
  <2>8. Sifts(h, s, S, k)
    BY <2>5, <2>7 DEF Sifts
  <2> QED
    BY <2>2, <2>4, <2>8
<1> HIDE DEF T
<1>4. n \in T
  BY <1>1, <1>2, <1>3, Rounds
<1> QED
  BY <1>4 DEF T, n

(* Two such computations over one list agree.                              *)
LEMMA SiftsAgree ==
  ASSUME NEW n \in Nat, NEW f, NEW g, NEW s, NEW S, Sifts(f, s, S, n), Sifts(g, s, S, n)
  PROVE  \A k \in 0 .. n : f[k] = g[k]
<1> SUFFICES ASSUME NEW k \in 0 .. n PROVE f[k] = g[k]
  OBVIOUS
<1> DEFINE T == {i \in 0 .. k : f[i] = g[i]}
<1>1. 0 \in T
  BY DEF Sifts
<1>2. ASSUME NEW i \in 1 .. k, i - 1 \in T PROVE i \in T
  <2>1. i \in 1 .. n /\ i \in 0 .. k /\ f[i - 1] = g[i - 1]
    BY <1>2
  <2>2. f[i] = Sift(f[i - 1], s[i], S) /\ g[i] = Sift(g[i - 1], s[i], S)
    BY <2>1 DEF Sifts
  <2>3. f[i] = g[i]
    BY <2>1, <2>2 DEF Sift
  <2> QED
    BY <2>1, <2>3
<1> HIDE DEF T
<1>3. k \in T
  BY <1>1, <1>2, Rounds
<1> QED
  BY <1>3 DEF T

LEMMA OnlySifts ==
  ASSUME NEW s \in Seq(Nat), NEW S
  PROVE  \E g \in [0 .. Len(s) -> Seq(Nat)] : Sifts(g, s, S, Len(s)) /\ Only(s, S) = g[Len(s)]
<1> DEFINE n == Len(s)
           P(f) == f = [i \in 0 .. n |-> IF i = 0 THEN <<>> ELSE Sift(f[i - 1], s[i], S)]
           h == CHOOSE f : P(f)
<1>1. n \in Nat
  OBVIOUS
<1>2. Only(s, S) = h[n]
  BY DEF Only, Sift
<1>3. PICK g \in [0 .. n -> Seq(Nat)] : Sifts(g, s, S, n)
  BY SiftExists
<1> HIDE DEF n
<1>4. ASSUME NEW i \in 0 .. n PROVE g[i] = IF i = 0 THEN <<>> ELSE Sift(g[i - 1], s[i], S)
  BY <1>1, <1>3 DEF Sifts
<1>5. P(g)
  BY <1>4
<1>6. ASSUME NEW f, P(f) PROVE Sifts(f, s, S, n)
  <2>1. \A i \in 0 .. n : f[i] = IF i = 0 THEN <<>> ELSE Sift(f[i - 1], s[i], S)
    BY <1>6
  <2>2. 0 \in 0 .. n /\ \A i \in 1 .. n : i \in 0 .. n /\ i # 0
    BY <1>1
  <2> QED
    BY <2>1, <2>2 DEF Sifts
<1> HIDE DEF P
<1>7. P(h)
  BY <1>5
<1>8. Sifts(h, s, S, n)
  BY <1>6, <1>7
<1> HIDE DEF h
<1>9. n \in 0 .. n
  BY <1>1
<1>10. \A k \in 0 .. n : h[k] = g[k]
  BY <1>1, <1>3, <1>8, SiftsAgree
<1>11. Only(s, S) = g[n]
  BY <1>2, <1>9, <1>10
<1> QED
  BY <1>3, <1>11 DEF n

LEMMA OnlyTyped ==
  ASSUME NEW s \in Seq(Nat), NEW S
  PROVE  Only(s, S) \in Seq(Nat)
<1>1. PICK g \in [0 .. Len(s) -> Seq(Nat)] : Sifts(g, s, S, Len(s)) /\ Only(s, S) = g[Len(s)]
  BY OnlySifts
<1> QED
  BY <1>1

LEMMA OnlyEmpty ==
  ASSUME NEW S
  PROVE  Only(<<>>, S) = <<>>
<1>1. <<>> \in Seq(Nat) /\ Len(<<>>) = 0
  OBVIOUS
<1>2. \E g : Sifts(g, <<>>, S, 0) /\ Only(<<>>, S) = g[0]
  BY <1>1, OnlySifts
<1> QED
  BY <1>2 DEF Sifts

LEMMA OnlyAppend ==
  ASSUME NEW s \in Seq(Nat), NEW x \in Nat, NEW S
  PROVE  Only(Append(s, x), S) = Sift(Only(s, S), x, S)
<1> DEFINE n == Len(s)
           t == Append(s, x)
<1>1. /\ n \in Nat /\ t \in Seq(Nat) /\ Len(t) = n + 1 /\ t[n + 1] = x
      /\ \A i \in 1 .. n : t[i] = s[i]
  OBVIOUS
<1>2. PICK f \in [0 .. n -> Seq(Nat)] : Sifts(f, s, S, n) /\ Only(s, S) = f[n]
  BY OnlySifts
<1> HIDE DEF t, n
<1>3. PICK g \in [0 .. n + 1 -> Seq(Nat)] : Sifts(g, t, S, n + 1) /\ Only(t, S) = g[n + 1]
  BY <1>1, OnlySifts
<1>4. Sifts(g, s, S, n)
  BY <1>1, <1>3 DEF Sifts
<1>5. \A k \in 0 .. n : f[k] = g[k]
  <2>1. n \in Nat
    BY <1>1
  <2>2. Sifts(f, s, S, n)
    BY <1>2
  <2> HIDE <1>2, <1>3
  <2> QED
    BY <2>1, <2>2, <1>4, SiftsAgree
<1>6. n \in 0 .. n /\ n + 1 \in 1 .. n + 1 /\ n + 1 - 1 = n
  BY <1>1
<1>7. g[n + 1] = Sift(g[n], x, S)
  BY <1>1, <1>3, <1>6 DEF Sifts
<1> QED
  BY <1>2, <1>3, <1>5, <1>6, <1>7 DEF t

(* A list depends on the set by the elements it has.                       *)
LEMMA OnlySame ==
  ASSUME NEW s \in Seq(Nat), NEW S, NEW U, \A i \in 1 .. Len(s) : s[i] \in S <=> s[i] \in U
  PROVE  Only(s, S) = Only(s, U)
<1> DEFINE n == Len(s)
<1>1. n \in Nat /\ n \in 0 .. n
  OBVIOUS
<1>2. PICK f \in [0 .. n -> Seq(Nat)] : Sifts(f, s, S, n) /\ Only(s, S) = f[n]
  BY OnlySifts
<1>3. PICK g \in [0 .. n -> Seq(Nat)] : Sifts(g, s, U, n) /\ Only(s, U) = g[n]
  BY OnlySifts
<1>4. Sifts(f, s, U, n)
  BY <1>2 DEF Sifts, Sift
<1>5. \A k \in 0 .. n : f[k] = g[k]
  BY <1>1, <1>3, <1>4, SiftsAgree
<1> QED
  BY <1>1, <1>2, <1>3, <1>5

LEMMA OnlyOnly ==
  ASSUME NEW s \in Seq(Nat), NEW S, NEW U
  PROVE  Only(Only(s, U), S) = Only(s, U \cap S)
<1> DEFINE n == Len(s)
<1>1. n \in Nat /\ \A i \in 1 .. n : s[i] \in Nat
  OBVIOUS
<1>2. PICK f \in [0 .. n -> Seq(Nat)] : Sifts(f, s, U, n) /\ Only(s, U) = f[n]
  BY OnlySifts
<1>3. PICK g \in [0 .. n -> Seq(Nat)] : Sifts(g, s, U \cap S, n) /\ Only(s, U \cap S) = g[n]
  BY OnlySifts
<1> HIDE DEF n
<1> DEFINE T == {k \in 0 .. n : Only(f[k], S) = g[k]}
<1>4. 0 \in T
  BY <1>1, <1>2, <1>3, OnlyEmpty DEF Sifts
<1>5. ASSUME NEW k \in 1 .. n, k - 1 \in T PROVE k \in T
  <2>1. k \in 0 .. n /\ k - 1 \in 0 .. n
    BY <1>1
  <2>2. f[k - 1] \in Seq(Nat) /\ s[k] \in Nat /\ Only(f[k - 1], S) = g[k - 1]
    BY <1>1, <1>2, <1>5, <2>1
  <2>3. f[k] = Sift(f[k - 1], s[k], U) /\ g[k] = Sift(g[k - 1], s[k], U \cap S)
    BY <1>2, <1>3 DEF Sifts
  <2>4. Only(Append(f[k - 1], s[k]), S) = Sift(g[k - 1], s[k], S)
    BY <2>2, OnlyAppend
  <2>5. Only(f[k], S) = g[k]
    BY <2>2, <2>3, <2>4 DEF Sift
  <2> QED
    BY <2>1, <2>5
<1> HIDE DEF T
<1>6. n \in T
  BY <1>1, <1>4, <1>5, Rounds
<1> QED
  BY <1>2, <1>3, <1>6 DEF T

-----------------------------------------------------------------------------
(* The inductive invariant.                                                *)

Kinds == {"running", "progress", "retry", "blocked", "unblocked", "admitted", "advanced",
          "cooperative", "force", "reloading", "resolved"} \cup TerminalStatus
Events == [job : Jobs, kind : Kinds]
Statuses == {"none", "pending", "running", "lost"} \cup TerminalStatus
Places == {"out", "heap", "popped", "lane", "ending"}

JobsTyped ==
  /\ composed \in BOOLEAN
  /\ status \in [Jobs -> Statuses] /\ stage \in [Jobs -> Places]
  /\ asked \subseteq Jobs /\ phase \subseteq Jobs /\ blocked \subseteq Jobs
  /\ known \subseteq Jobs
  /\ history \in Seq(Jobs) /\ Len(history) =< MaxHistory
  /\ told \in [Jobs -> TerminalStatus \cup {None}]

LogTyped ==
  /\ todo \in Seq(Events) /\ occurred \in Seq(Events)
  /\ journal \in Seq(Nat) /\ open \in Seq(Nat) /\ Rows \subseteq DOMAIN occurred
  /\ wedged \in BOOLEAN /\ broken \subseteq DOMAIN occurred

FollowersTyped ==
  /\ on \subseteq Followers
  /\ queue \in [Followers -> Seq(Nat)] /\ view \in [Followers -> Seq(Nat)]
  /\ dropped \in [Followers -> Nat]
  /\ \A f \in Followers : Len(queue[f]) =< MaxQueue /\ (f \notin on => queue[f] = <<>>)

Typed == JobsTyped /\ LogTyped /\ FollowersTyped

(* Nobody reads what has not been emitted.                                 *)
Seen == \A f \in Followers : ToSet(view[f]) \cup ToSet(queue[f]) \subseteq DOMAIN occurred

(* Where a job is says what its status may be.                             *)
Staged ==
  \A j \in Jobs :
    /\ status[j] = "none" => stage[j] = "out"
    /\ stage[j] = "heap" => status[j] = "pending"
    /\ stage[j] = "lane" => status[j] = "running"
    /\ stage[j] = "ending" => status[j] \in TerminalStatus

(* An end that has been emitted, or that the current step has still to     *)
(* emit.  The gate looks up whether a completion is kept, so that one has  *)
(* to be emitted before its job is filed and perhaps forgotten.            *)
Needed(j, s) == s # "completed" \/ Class(j, Override[j]) = "full"

Recorded == {occurred[n] : n \in DOMAIN occurred \cap (ToSet(journal) \cup broken)}

ToldRecorded ==
  \A j \in Jobs :
    told[j] # None /\ Needed(j, told[j]) =>
      \/ Event(j, told[j]) \in Recorded
      \/ told[j] # "completed" /\ Event(j, told[j]) \in ToSet(todo)

EndRecorded ==
  \A j \in Jobs :
    /\ stage[j] = "ending"
    /\ Needed(j, status[j]) /\ (status[j] = "completed" => j \in known)
    => Event(j, status[j]) \in Recorded \cup ToSet(todo)

(* No end of job j is the last that was said of it before position n.      *)
Unended(t, j, n) ==
  \A m \in 1 .. n - 1 :
    t[m].job = j /\ t[m].kind \in TerminalStatus =>
      \E k \in m + 1 .. n - 1 : t[k].job = j /\ t[k].kind \notin TerminalStatus \cup {"retry"}

(* What was emitted, and what the current step still emits.                *)
Said == occurred \o todo

Quiet(t) ==
  \A n \in DOMAIN t : t[n].kind \in {"progress", "cooperative"} => Unended(t, t[n].job, n)

LaneOpen == \A j \in Jobs : stage[j] = "lane" => Unended(Said, j, Len(Said) + 1)

Inductive ==
  /\ Typed /\ Seen /\ Staged
  /\ ToldRecorded /\ EndRecorded
  /\ Quiet(Said) /\ LaneOpen
  /\ TailOfJournal

-----------------------------------------------------------------------------
(* Types.                                                                  *)

(* The steps of jobs: what they emit they leave in todo.                   *)
JobStep(j) ==
  \/ Submit(j) \/ CancelPending(j) \/ CancelRunning(j) \/ Handle(j)

Handler ==
  \/ SubmitComposition
  \/ \E j \in Jobs : JobStep(j)
  \/ \E S \in SUBSET Jobs, launch \in SUBSET Jobs : Scan(S, launch)

LEMMA FileTyped ==
  ASSUME BusAssumption, JobsTyped, NEW j \in Jobs, NEW s \in TerminalStatus,
         NEW new \in SUBSET Jobs, File(j, s, new)
  PROVE  /\ told' \in [Jobs -> TerminalStatus \cup {None}] /\ known' \subseteq Jobs
         /\ history' \in Seq(Jobs) /\ Len(history') =< MaxHistory
<1> DEFINE filed == Append(history, j)
<1>1. /\ filed \in Seq(Jobs) /\ Len(filed) = Len(history) + 1 /\ Len(history) \in Nat
  BY DEF JobsTyped
<1>2. /\ told' = IF j \in known THEN [told EXCEPT ![j] = s] ELSE told
      /\ history' = IF Len(filed) > MaxHistory THEN Tail(filed) ELSE filed
      /\ known' = (known \ (IF Len(filed) > MaxHistory THEN {Head(filed)} ELSE {})) \cup new
  BY DEF File
<1> HIDE DEF filed
<1>5. Tail(filed) \in Seq(Jobs) /\ Len(Tail(filed)) = Len(history)
  <2>1. filed # <<>>
    BY <1>1
  <2> QED
    BY <1>1, <2>1
<1>3. told' \in [Jobs -> TerminalStatus \cup {None}] /\ known' \subseteq Jobs
  BY <1>2 DEF JobsTyped
<1>4. history' \in Seq(Jobs) /\ Len(history') =< MaxHistory
  BY <1>1, <1>2, <1>5 DEF JobsTyped, BusAssumption
<1> QED
  BY <1>3, <1>4

LEMMA EventTyped ==
  ASSUME NEW j \in Jobs, NEW k \in Kinds
  PROVE  /\ Event(j, k) \in Events /\ Event(j, k).job = j /\ Event(j, k).kind = k
         /\ <<Event(j, k)>> \in Seq(Events)
BY DEF Event, Events

(* What the end of a job is emitted with.                                  *)
LEMMA EndingIs ==
  ASSUME NEW j \in Jobs, NEW kinds \in Endings(j)
  PROVE  /\ kinds \in Seq(Kinds) /\ kinds # <<>> /\ Last(kinds) \in TerminalStatus
         /\ \A i \in DOMAIN kinds : kinds[i] \notin {"progress", "cooperative"}
<1>1. kinds \in {<<"resolved", "cancelled">>, <<"failed">>, <<"cancelled">>, <<"completed">>,
                <<"force", "reloading", "failed">>,
                <<"force", "reloading", "resolved", "cancelled">>}
  BY DEF Endings
<1>2. ASSUME NEW s \in TerminalStatus, kinds = <<s>>
      PROVE  /\ kinds \in Seq(Kinds) /\ Len(kinds) = 1 /\ kinds[1] = s
    BY <1>2 DEF Kinds
<1>3. CASE kinds = <<"resolved", "cancelled">>
    BY <1>3 DEF Kinds, TerminalStatus, Last
<1>4. CASE kinds = <<"force", "reloading", "failed">>
    BY <1>4 DEF Kinds, TerminalStatus, Last
<1>5. CASE kinds = <<"force", "reloading", "resolved", "cancelled">>
    BY <1>5 DEF Kinds, TerminalStatus, Last
<1> QED
  BY <1>1, <1>2, <1>3, <1>4, <1>5 DEF TerminalStatus, Last

LEMMA ScanTyped ==
  ASSUME BusAssumption, JobsTyped, NEW S \in SUBSET Jobs, NEW launch \in SUBSET Jobs,
         Scan(S, launch)
  PROVE  /\ todo' \in Seq(Events)
         /\ \A i \in DOMAIN todo' : todo'[i].kind \in {"blocked", "unblocked", "admitted"}
<1>1. Cardinality(S) \in Nat /\ Cardinality(launch) \in Nat
      /\ (Cardinality(launch) = 0 <=> launch = {})
  BY FS_Subset, FS_CardinalityType, FS_EmptySet DEF BusAssumption
<1>2. PICK order \in SetToSeqs(S) :
        todo' = [i \in DOMAIN order |-> BlockChange(order[i])]
                  \o [i \in 1 .. Cardinality(launch) |->
                        Event(CHOOSE j \in launch : TRUE, "admitted")]
  BY DEF Scan
<1> DEFINE p == [i \in DOMAIN order |-> BlockChange(order[i])]
           e == Event(CHOOSE j \in launch : TRUE, "admitted")
           q == [i \in 1 .. Cardinality(launch) |-> e]
           K == {"blocked", "unblocked", "admitted"}
           X == {x \in Events : x.kind \in K}
<1>3. order \in [1 .. Cardinality(S) -> S]
  BY DEF SetToSeqs
<1>4. p \in Seq(X)
  <2>1. \A i \in 1 .. Cardinality(S) : BlockChange(order[i]) \in X
    BY <1>3, EventTyped DEF BlockChange, Kinds
  <2> HIDE DEF X
  <2> QED
    BY <1>1, <1>3, <2>1
<1>5. q \in Seq(X)
  <2>1. Cardinality(launch) > 0 => e \in X
    BY <1>1, EventTyped DEF Kinds
  <2> HIDE DEF X, e
  <2> QED
    BY <1>1, <2>1
<1> HIDE DEF p, q
<1>6. todo' \in Seq(X)
  BY <1>2, <1>4, <1>5 DEF p, q
<1> QED
  BY <1>6

LEMMA HandlerFrame ==
  ASSUME Handler
  PROVE  /\ todo = <<>> /\ UNCHANGED <<logVars, runVars, subVars>>
BY DEF Handler, JobStep, Handle, SubmitComposition, Submit, CancelPending, CancelRunning, Scan,
       StartJob, PollProgress, Retry, Report, BeginCancel, Settle, Close, FailNever, Idle

LEMMA JobStepTyped ==
  ASSUME BusAssumption, JobsTyped, Staged, NEW j \in Jobs, JobStep(j)
  PROVE  JobsTyped' /\ (todo' = todo \/ todo' \in Seq(Events))
<1>1. composed' = composed
  BY DEF JobStep, Handle, Submit, CancelPending, CancelRunning, StartJob, PollProgress, Retry,
         Report, BeginCancel, Settle, Close, FailNever, runVars
<1>2. CASE Submit(j)
  BY <1>1, <1>2 DEF Submit, Enqueued, JobsTyped, Statuses, Places
<1>3. CASE CancelPending(j)
  <2>1. /\ status' = [status EXCEPT ![j] = "cancelled"] /\ File(j, "cancelled", {})
        /\ stage' = [stage EXCEPT ![j] = IF @ = "heap" THEN "out" ELSE @]
        /\ todo' = <<Event(j, "cancelled")>> /\ UNCHANGED <<asked, phase, blocked>>
    BY <1>3 DEF CancelPending
  <2>2. /\ told' \in [Jobs -> TerminalStatus \cup {None}] /\ known' \subseteq Jobs
        /\ history' \in Seq(Jobs) /\ Len(history') =< MaxHistory
    BY <2>1, FileTyped DEF TerminalStatus
  <2>3. todo' \in Seq(Events)
    BY <2>1, EventTyped DEF Kinds, TerminalStatus
  <2>4. status' \in [Jobs -> Statuses] /\ stage' \in [Jobs -> Places]
    BY <2>1 DEF JobsTyped, Statuses, TerminalStatus, Places
  <2> QED
    BY <1>1, <2>1, <2>2, <2>3, <2>4 DEF JobsTyped
<1>4. CASE CancelRunning(j)
  BY <1>1, <1>4 DEF CancelRunning, JobsTyped
<1>5. CASE FailNever(j)
  <2>1. todo' \in Seq(Events)
    BY <1>5, EventTyped DEF FailNever, Kinds, TerminalStatus
  <2> QED
    BY <1>1, <1>5, <2>1 DEF FailNever, JobsTyped, Statuses, Places, TerminalStatus
<1>6. CASE StartJob(j)
  <2>1. todo' \in Seq(Events)
    BY <1>6, EventTyped DEF StartJob, Kinds
  <2> QED
    BY <1>1, <1>6, <2>1 DEF StartJob, JobsTyped, Statuses, Places
<1>7. CASE PollProgress(j) \/ Retry(j)
  <2>1. PICK k \in Kinds : Report(j, k)
    BY <1>7 DEF PollProgress, Retry, Kinds
  <2>2. todo' \in Seq(Events)
    BY <2>1, EventTyped DEF Report
  <2> QED
    BY <1>1, <2>1, <2>2 DEF Report, JobsTyped
<1>8. CASE BeginCancel(j)
  <2>1. todo' \in Seq(Events)
    BY <1>8, EventTyped DEF BeginCancel, Kinds
  <2> QED
    BY <1>1, <1>8, <2>1 DEF BeginCancel, JobsTyped
<1>9. CASE Settle(j)
  <2>1. PICK kinds \in Endings(j) :
          /\ todo' = [i \in DOMAIN kinds |-> Event(j, kinds[i])]
          /\ status' = [status EXCEPT ![j] = Last(kinds)]
    BY <1>9 DEF Settle
  <2>2. kinds \in Seq(Kinds) /\ Last(kinds) \in TerminalStatus
    BY EndingIs
  <2>3. /\ Len(kinds) \in Nat /\ DOMAIN kinds = 1 .. Len(kinds)
        /\ \A i \in 1 .. Len(kinds) : Event(j, kinds[i]) \in Events
    BY <2>2, EventTyped
  <2>4. todo' \in Seq(Events)
    BY <2>1, <2>3
  <2> QED
    BY <1>1, <1>9, <2>1, <2>2, <2>4 DEF Settle, JobsTyped, Statuses, Places
<1>10. CASE Close(j)
  <2> DEFINE next == IF status[j] = "completed"
                     THEN {k \in Unlocks[j] \cap Members : status[k] = "none"} ELSE {}
  <2>1. /\ File(j, status[j], next) /\ stage[j] = "ending"
        /\ status' = [k \in Jobs |-> IF k \in next THEN "pending" ELSE status[k]]
        /\ stage' = [k \in Jobs |-> IF k \in next THEN "heap"
                                    ELSE IF k = j THEN "out" ELSE stage[k]]
        /\ todo' = IF next = {} THEN <<>> ELSE <<Event(j, "advanced")>>
        /\ UNCHANGED <<asked, phase, blocked>>
    BY <1>10 DEF Close
  <2>2. next \in SUBSET Jobs /\ status[j] \in TerminalStatus
    BY <2>1 DEF BusAssumption, Staged
  <2> HIDE DEF next
  <2>3. /\ told' \in [Jobs -> TerminalStatus \cup {None}] /\ known' \subseteq Jobs
        /\ history' \in Seq(Jobs) /\ Len(history') =< MaxHistory
    BY <2>1, <2>2, FileTyped
  <2>4. todo' \in Seq(Events)
    BY <2>1, EventTyped DEF Kinds
  <2>5. status' \in [Jobs -> Statuses] /\ stage' \in [Jobs -> Places]
    BY <2>1 DEF JobsTyped, Statuses, Places
  <2> QED
    BY <1>1, <2>1, <2>3, <2>4, <2>5 DEF JobsTyped
<1> QED
  BY <1>2, <1>3, <1>4, <1>5, <1>6, <1>7, <1>8, <1>9, <1>10 DEF JobStep, Handle

LEMMA HandlerTyped ==
  ASSUME BusAssumption, Typed, Staged, Handler
  PROVE  Typed'
<1>1. JobsTyped' /\ todo' \in Seq(Events)
  <2>1. ASSUME SubmitComposition PROVE JobsTyped' /\ todo' \in Seq(Events)
    BY <2>1 DEF SubmitComposition, Enqueued, Typed, JobsTyped, LogTyped, Statuses, Places,
                BusAssumption, runVars
  <2>2. ASSUME NEW j \in Jobs, JobStep(j) PROVE JobsTyped' /\ todo' \in Seq(Events)
    BY <2>2, JobStepTyped DEF Typed, LogTyped
  <2>3. ASSUME NEW S \in SUBSET Jobs, NEW launch \in SUBSET Jobs, Scan(S, launch)
        PROVE  JobsTyped' /\ todo' \in Seq(Events)
    <3>1. todo' \in Seq(Events)
      BY <2>3, ScanTyped DEF Typed
    <3>2. JobsTyped'
      BY <2>3 DEF Scan, Typed, JobsTyped, Places, runVars
    <3> QED
      BY <3>1, <3>2
  <2> QED
    BY <2>1, <2>2, <2>3 DEF Handler
<1>2. UNCHANGED <<occurred, journal, open, wedged, broken, on, queue, dropped, view>>
  BY HandlerFrame DEF logVars, subVars
<1>3. LogTyped'
  BY <1>1, <1>2 DEF Typed, LogTyped, Rows
<1>4. FollowersTyped'
  BY <1>2 DEF Typed, FollowersTyped
<1> QED
  BY <1>1, <1>3, <1>4 DEF Typed

-----------------------------------------------------------------------------
(* The journal.                                                            *)

LEMMA ConcatSet ==
  ASSUME NEW s \in Seq(Nat), NEW t \in Seq(Nat)
  PROVE  s \o t \in Seq(Nat) /\ ToSet(s \o t) = ToSet(s) \cup ToSet(t)
<1>1. s \o t \in Seq(Nat)
  OBVIOUS
<1>2. ASSUME NEW x \in ToSet(s \o t) PROVE x \in ToSet(s) \cup ToSet(t)
  <2>1. PICK i \in 1 .. Len(s) + Len(t) : x = (s \o t)[i]
    BY DEF ToSet
  <2>2. CASE i =< Len(s)
    BY <2>1, <2>2 DEF ToSet
  <2>3. CASE i > Len(s)
    <3>1. i - Len(s) \in 1 .. Len(t) /\ x = t[i - Len(s)]
      BY <2>1, <2>3
    <3> QED
      BY <3>1 DEF ToSet
  <2> QED
    BY <2>1, <2>2, <2>3
<1>3. ASSUME NEW x \in ToSet(s) PROVE x \in ToSet(s \o t)
  <2>1. PICK i \in 1 .. Len(s) : x = s[i]
    BY DEF ToSet
  <2>2. i \in DOMAIN (s \o t) /\ (s \o t)[i] = x
    BY <2>1
  <2> QED
    BY <2>2 DEF ToSet
<1>4. ASSUME NEW x \in ToSet(t) PROVE x \in ToSet(s \o t)
  <2>1. PICK i \in 1 .. Len(t) : x = t[i]
    BY DEF ToSet
  <2>2. Len(s) + i \in DOMAIN (s \o t) /\ (s \o t)[Len(s) + i] = x
    BY <2>1
  <2> QED
    BY <2>2 DEF ToSet
<1> QED
  BY <1>1, <1>2, <1>3, <1>4

LEMMA ConcatAppend ==
  ASSUME NEW X, NEW s \in Seq(X), NEW t \in Seq(X), NEW x \in X
  PROVE  s \o Append(t, x) = Append(s \o t, x)
<1>1. <<x>> \in Seq(X) /\ s \o t \in Seq(X)
  OBVIOUS
<1>2. Append(t, x) = t \o <<x>> /\ Append(s \o t, x) = (s \o t) \o <<x>>
  BY <1>1, AppendIsConcat
<1>3. (s \o t) \o <<x>> = s \o (t \o <<x>>)
  BY <1>1, ConcatAssociative
<1> QED
  BY <1>2, <1>3

LEMMA ConcatTail ==
  ASSUME NEW X, NEW s \in Seq(X), NEW t \in Seq(X), t # <<>>
  PROVE  Append(s, Head(t)) \o Tail(t) = s \o t
<1>1. Head(t) \in X /\ <<Head(t)>> \in Seq(X) /\ Tail(t) \in Seq(X)
  OBVIOUS
<1>2. t = <<Head(t)>> \o Tail(t)
  OBVIOUS
<1>3. Append(s, Head(t)) = s \o <<Head(t)>>
  BY <1>1, AppendIsConcat
<1>4. (s \o <<Head(t)>>) \o Tail(t) = s \o (<<Head(t)>> \o Tail(t))
  BY <1>1, ConcatAssociative
<1> QED
  BY <1>2, <1>3, <1>4

LEMMA AppendSet ==
  ASSUME NEW s \in Seq(Nat), NEW x \in Nat
  PROVE  Append(s, x) \in Seq(Nat) /\ ToSet(Append(s, x)) = ToSet(s) \cup {x}
<1>1. Append(s, x) = s \o <<x>> /\ <<x>> \in Seq(Nat) /\ Append(s, x) \in Seq(Nat)
  OBVIOUS
<1>2. ToSet(<<x>>) = {x}
  BY DEF ToSet
<1> QED
  BY <1>1, <1>2, ConcatSet

(* The rows, committed or not, in their order.                             *)
Written == journal \o open

LEMMA RowsWritten ==
  ASSUME LogTyped
  PROVE  Written \in Seq(Nat) /\ Rows = ToSet(Written)
BY ConcatSet DEF LogTyped, Written, Rows

LEMMA AppendRowDoes ==
  ASSUME LogTyped, NEW n \in Nat, AppendRow(n)
  PROVE  /\ journal' \in Seq(Nat) /\ open' \in Seq(Nat) /\ wedged' \in BOOLEAN
         /\ Written' \in {Written, Append(Written, n)}
         /\ ToSet(journal) \subseteq ToSet(journal')
         /\ broken \subseteq broken' /\ broken' \subseteq broken \cup {n}
         /\ n \in ToSet(journal') \cup broken'
<1>1. journal \in Seq(Nat) /\ open \in Seq(Nat) /\ Written \in Seq(Nat) /\ wedged \in BOOLEAN
  BY RowsWritten DEF LogTyped
<1>2. CASE /\ journal' = Append(journal \o open, n)
           /\ open' = <<>>
           /\ UNCHANGED <<wedged, broken>>
  <2>1. journal' = Append(Written, n) /\ Written' = Append(Written, n)
    BY <1>1, <1>2 DEF Written
  <2>2. ToSet(journal') = ToSet(Written) \cup {n} /\ journal' \in Seq(Nat)
    BY <1>1, <2>1, AppendSet
  <2>3. ToSet(journal) \subseteq ToSet(Written)
    BY <1>1, ConcatSet DEF Written
  <2> QED
    BY <1>1, <1>2, <2>1, <2>2, <2>3
<1>3. CASE /\ broken' = broken \cup {n}
           /\ wedged' = TRUE
           /\ open' \in {open, Append(open, n)}
           /\ UNCHANGED journal
  <2>1. journal \o Append(open, n) = Append(journal \o open, n)
    <3> HIDE <1>3
    <3> QED
      BY <1>1, ConcatAppend
  <2>2. open' \in Seq(Nat)
    <3>1. Append(open, n) \in Seq(Nat)
      BY <1>1, AppendSet
    <3>2. open' = open \/ open' = Append(open, n)
      BY <1>3
    <3> HIDE <1>3
    <3> QED
      BY <1>1, <3>1, <3>2
  <2>3. Written' \in {Written, Append(Written, n)}
    BY <1>3, <2>1 DEF Written
  <2> QED
    BY <1>1, <1>3, <2>2, <2>3
<1> QED
  BY <1>2, <1>3 DEF AppendRow

(* One emission.                                                           *)
LEMMA EmitDoes ==
  ASSUME LogTyped, Emit
  PROVE  LET e == Head(todo)
             n == Len(occurred) + 1
         IN  /\ e \in Events /\ n \in Nat \ {0} /\ n \notin DOMAIN occurred /\ n \notin Rows
             /\ todo # <<>> /\ todo' = Tail(todo) /\ todo' \in Seq(Events)
             /\ occurred' = Append(occurred, e) /\ occurred' \in Seq(Events)
             /\ DOMAIN occurred' = DOMAIN occurred \cup {n} /\ occurred'[n] = e
             /\ \A m \in DOMAIN occurred : occurred'[m] = occurred[m]
             /\ journal' \in Seq(Nat) /\ open' \in Seq(Nat) /\ wedged' \in BOOLEAN
             /\ Written' \in {Written, Append(Written, n)}
             /\ ToSet(journal) \subseteq ToSet(journal')
             /\ broken \subseteq broken' /\ broken' \subseteq broken \cup {n}
             /\ Admits(e) => n \in ToSet(journal') \cup broken'
<1> DEFINE e == Head(todo)
           n == Len(occurred) + 1
<1>1. todo \in Seq(Events) /\ todo # <<>> /\ todo' = Tail(todo) /\ occurred' = Append(occurred, e)
      /\ occurred \in Seq(Events)
  BY DEF Emit, LogTyped
<1>2. e \in Events /\ todo' \in Seq(Events)
  BY <1>1
<1> HIDE DEF e
<1>3. /\ n \in Nat \ {0} /\ n \notin DOMAIN occurred /\ occurred' \in Seq(Events)
      /\ DOMAIN occurred' = DOMAIN occurred \cup {n} /\ occurred'[n] = e
      /\ \A m \in DOMAIN occurred : occurred'[m] = occurred[m]
  BY <1>1, <1>2
<1>4. n \notin Rows
  BY <1>3 DEF LogTyped
<1> HIDE DEF n
<1>5. CASE AppendRow(n)
  BY <1>1, <1>2, <1>3, <1>4, <1>5, AppendRowDoes DEF e, n
<1>6. CASE UNCHANGED <<journal, open, wedged, broken>> /\ ~ Admits(e)
  BY <1>1, <1>2, <1>3, <1>4, <1>6 DEF LogTyped, Written, e, n
<1> QED
  BY <1>5, <1>6 DEF Emit, e, n

(* A reached follower gets the event, unless its queue is full.            *)
LEMMA FanOutDoes ==
  ASSUME BusAssumption, FollowersTyped, NEW e, NEW n \in Nat, FanOut(e, n)
  PROVE  /\ queue' \in [Followers -> Seq(Nat)] /\ dropped' \in [Followers -> Nat]
         /\ \A f \in Followers :
              /\ Len(queue'[f]) =< MaxQueue
              /\ f \notin on \/ ~ Reaches(f, e) => queue'[f] = queue[f]
              /\ dropped'[f] = 0 => dropped[f] = 0
              /\ f \in on /\ Reaches(f, e) /\ dropped'[f] = 0 => queue'[f] = Append(queue[f], n)
<1> DEFINE full == {f \in on : Reaches(f, e) /\ Len(queue[f]) = MaxQueue}
<1>1. /\ queue' = [f \in Followers |-> IF f \in on \ full /\ Reaches(f, e)
                                       THEN Append(queue[f], n) ELSE queue[f]]
      /\ dropped' = [f \in Followers |-> IF f \in full THEN dropped[f] + 1 ELSE dropped[f]]
  BY DEF FanOut
<1>2. ASSUME NEW f \in Followers
      PROVE  /\ queue[f] \in Seq(Nat) /\ Len(queue[f]) \in Nat /\ Len(queue[f]) =< MaxQueue
             /\ Append(queue[f], n) \in Seq(Nat)
             /\ Len(Append(queue[f], n)) = Len(queue[f]) + 1
             /\ dropped[f] \in Nat
  <2>1. queue[f] \in Seq(Nat) /\ dropped[f] \in Nat /\ Len(queue[f]) =< MaxQueue
    BY DEF FollowersTyped
  <2> QED
    BY <2>1
<1>3. \A f \in on : f \in full <=> Reaches(f, e) /\ Len(queue[f]) = MaxQueue
  OBVIOUS
<1>4. full \subseteq on
  OBVIOUS
<1> HIDE DEF full
<1>5. queue' \in [Followers -> Seq(Nat)]
  BY <1>1, <1>2
<1>6. dropped' \in [Followers -> Nat]
  BY <1>1, <1>2
<1>7. MaxQueue \in Nat
  BY DEF BusAssumption
<1>8. ASSUME NEW f \in Followers
      PROVE  /\ Len(queue'[f]) =< MaxQueue
             /\ f \notin on \/ ~ Reaches(f, e) => queue'[f] = queue[f]
             /\ dropped'[f] = 0 => dropped[f] = 0
             /\ f \in on /\ Reaches(f, e) /\ dropped'[f] = 0 => queue'[f] = Append(queue[f], n)
  <2>1. /\ queue'[f] = IF f \in on \ full /\ Reaches(f, e) THEN Append(queue[f], n) ELSE queue[f]
        /\ dropped'[f] = IF f \in full THEN dropped[f] + 1 ELSE dropped[f]
    BY <1>1
  <2> QED
    BY <1>2, <1>3, <1>4, <1>7, <2>1
<1> QED
  BY <1>5, <1>6, <1>8

LEMMA EmitTyped ==
  ASSUME BusAssumption, Typed, Emit
  PROVE  Typed'
<1> DEFINE e == Head(todo)
           n == Len(occurred) + 1
<1>1. /\ n \in Nat /\ todo' \in Seq(Events) /\ occurred' \in Seq(Events)
      /\ DOMAIN occurred' = DOMAIN occurred \cup {n}
      /\ journal' \in Seq(Nat) /\ open' \in Seq(Nat) /\ wedged' \in BOOLEAN
      /\ Written' \in {Written, Append(Written, n)} /\ broken' \subseteq broken \cup {n}
  BY EmitDoes DEF Typed
<1>2. FanOut(e, n) /\ UNCHANGED <<jobVars, runVars, on, view>>
  BY DEF Emit
<1> HIDE DEF e, n
<1>3. Rows' \subseteq DOMAIN occurred'
  <2>1. Written \in Seq(Nat) /\ Rows = ToSet(Written)
    BY RowsWritten DEF Typed
  <2>2. Rows' = ToSet(Written')
    BY <1>1, ConcatSet DEF Rows, Written
  <2>3. Rows' \subseteq Rows \cup {n}
    BY <1>1, <2>1, <2>2, AppendSet
  <2> QED
    BY <1>1, <2>3 DEF Typed, LogTyped
<1>4. LogTyped'
  BY <1>1, <1>3 DEF Typed, LogTyped
<1>5. JobsTyped'
  BY <1>2 DEF Typed, JobsTyped, jobVars, runVars
<1>6. FollowersTyped'
  <2>1. /\ queue' \in [Followers -> Seq(Nat)] /\ dropped' \in [Followers -> Nat]
        /\ \A f \in Followers : /\ Len(queue'[f]) =< MaxQueue
                                /\ f \notin on => queue'[f] = queue[f]
    BY <1>1, <1>2, FanOutDoes DEF Typed
  <2> QED
    BY <1>2, <2>1 DEF Typed, FollowersTyped
<1> QED
  BY <1>4, <1>5, <1>6 DEF Typed

LEMMA OtherAppendDoes ==
  ASSUME LogTyped, OtherAppend
  PROVE  /\ journal' \in Seq(Nat) /\ open' = <<>> /\ Rows' = Rows /\ Written' = Written
         /\ ToSet(journal) \subseteq ToSet(journal')
<1>1. journal \in Seq(Nat) /\ open \in Seq(Nat) /\ journal' = journal \o open /\ open' = <<>>
  BY DEF LogTyped, OtherAppend
<1>2. journal' \in Seq(Nat) /\ ToSet(journal') = ToSet(journal) \cup ToSet(open)
  BY <1>1, ConcatSet
<1>3. ToSet(<<>>) = {}
  BY DEF ToSet
<1>4. journal' \o <<>> = journal'
  BY <1>2
<1> QED
  BY <1>1, <1>2, <1>3, <1>4 DEF Rows, Written

LEMMA FollowerTyped ==
  ASSUME BusAssumption, Typed, NEW f \in Followers, CatchUp(f) \/ Deliver(f) \/ Leave(f)
  PROVE  Typed'
<1>1. UNCHANGED <<jobVars, todo, logVars, runVars>>
  BY DEF CatchUp, Deliver, Leave
<1>2. JobsTyped' /\ LogTyped'
  BY <1>1 DEF Typed, JobsTyped, LogTyped, jobVars, logVars, runVars, Rows
<1>3. CASE CatchUp(f)
  <2>1. Only(Written, {n \in Rows : Wanted(f, n)}) \in Seq(Nat)
    BY RowsWritten, OnlyTyped DEF Typed
  <2>2. FollowersTyped'
    BY <1>3, <2>1 DEF CatchUp, Typed, FollowersTyped, Written
  <2> QED
    BY <1>2, <2>2 DEF Typed
<1>4. CASE Deliver(f)
  <2> DEFINE q == queue[f]
  <2>1. q \in Seq(Nat) /\ view[f] \in Seq(Nat) /\ q # <<>> /\ f \in on /\ Len(q) =< MaxQueue
    BY <1>4 DEF Deliver, Typed, FollowersTyped
  <2>2. view' = [view EXCEPT ![f] = Append(view[f], Head(q))] /\ queue' = [queue EXCEPT ![f] = Tail(q)]
        /\ UNCHANGED <<on, dropped>>
    BY <1>4 DEF Deliver
  <2> HIDE DEF q
  <2>3. Tail(q) \in Seq(Nat) /\ Len(Tail(q)) =< MaxQueue
    BY <2>1 DEF BusAssumption
  <2>4. Append(view[f], Head(q)) \in Seq(Nat)
    BY <2>1
  <2>5. FollowersTyped'
    BY <2>1, <2>2, <2>3, <2>4 DEF Typed, FollowersTyped
  <2> QED
    BY <1>2, <2>5 DEF Typed
<1>5. CASE Leave(f)
  <2>1. /\ on' = on \ {f} /\ queue' = [queue EXCEPT ![f] = <<>>]
        /\ dropped' = [dropped EXCEPT ![f] = 0] /\ view' = [view EXCEPT ![f] = <<>>]
    BY <1>5 DEF Leave
  <2>2. Len(<<>>) =< MaxQueue
    BY DEF BusAssumption
  <2>3. FollowersTyped'
    BY <2>1, <2>2 DEF Typed, FollowersTyped
  <2> QED
    BY <1>2, <2>3 DEF Typed
<1> QED
  BY <1>3, <1>4, <1>5

LEMMA RestartTyped ==
  ASSUME BusAssumption, Typed, Restart
  PROVE  Typed'
<1>1. JobsTyped'
  <2>1. Len(<<>>) =< MaxHistory /\ <<>> \in Seq(Jobs)
    BY DEF BusAssumption
  <2> QED
    BY <2>1 DEF Restart, Typed, JobsTyped, Statuses, Places
<1>2. LogTyped'
  <2>1. ToSet(<<>>) = {}
    BY DEF ToSet
  <2>2. Rows' \subseteq Rows
    BY <2>1 DEF Restart, Rows
  <2>3. todo' = <<>> /\ open' = <<>> /\ wedged' = FALSE /\ UNCHANGED <<occurred, journal, broken>>
    BY DEF Restart
  <2>4. <<>> \in Seq(Events) /\ <<>> \in Seq(Nat)
    OBVIOUS
  <2>5. todo' \in Seq(Events) /\ open' \in Seq(Nat)
    BY <2>3, <2>4
  <2>6. wedged' \in BOOLEAN
    BY <2>3
  <2>7. occurred' \in Seq(Events) /\ journal' \in Seq(Nat) /\ broken' \subseteq DOMAIN occurred'
        /\ Rows' \subseteq DOMAIN occurred'
    BY <2>2, <2>3 DEF Typed, LogTyped
  <2> QED
    BY <2>5, <2>6, <2>7 DEF LogTyped
<1>3. FollowersTyped'
  <2>1. Len(<<>>) =< MaxQueue
    BY DEF BusAssumption
  <2> QED
    BY <2>1 DEF Restart, Typed, FollowersTyped
<1> QED
  BY <1>1, <1>2, <1>3 DEF Typed

LEMMA StepTyped ==
  ASSUME BusAssumption, Typed, Staged, [Next]_vars
  PROVE  Typed'
<1>1. CASE Handler
  BY <1>1, HandlerTyped
<1>2. CASE Emit
  BY <1>2, EmitTyped
<1>3. ASSUME NEW f \in Followers, CatchUp(f) \/ Deliver(f) \/ Leave(f) PROVE Typed'
  BY <1>3, FollowerTyped
<1>4. CASE OtherAppend
  <2>1. LogTyped'
    BY <1>4, OtherAppendDoes DEF OtherAppend, Typed, LogTyped
  <2> QED
    BY <1>4, <2>1 DEF OtherAppend, Typed, JobsTyped, FollowersTyped, jobVars, runVars, subVars
<1>5. CASE Reset
  BY <1>5 DEF Reset, Typed, JobsTyped, LogTyped, FollowersTyped, jobVars, runVars, subVars, Rows
<1>6. CASE Restart
  BY <1>6, RestartTyped
<1>7. CASE UNCHANGED vars
  BY <1>7 DEF Typed, JobsTyped, LogTyped, FollowersTyped, vars, jobVars, runVars, logVars, subVars,
              Rows
<1> QED
  BY <1>1, <1>2, <1>3, <1>4, <1>5, <1>6, <1>7 DEF Next, Handler, JobStep

-----------------------------------------------------------------------------
(* Stages.                                                                 *)

LEMMA JobStepStaged ==
  ASSUME JobsTyped, Staged, NEW j \in Jobs, JobStep(j)
  PROVE  Staged'
<1>1. status \in [Jobs -> Statuses] /\ stage \in [Jobs -> Places]
  BY DEF JobsTyped
<1>2. CASE Submit(j)
  BY <1>1, <1>2 DEF Submit, Enqueued, Staged
<1>3. CASE CancelPending(j)
  BY <1>1, <1>3 DEF CancelPending, Staged, TerminalStatus, Places
<1>4. CASE CancelRunning(j)
  BY <1>1, <1>4 DEF CancelRunning, Staged
<1>5. CASE FailNever(j)
  BY <1>1, <1>5 DEF FailNever, Staged, TerminalStatus
<1>6. CASE StartJob(j)
  BY <1>1, <1>6 DEF StartJob, Staged
<1>7. CASE PollProgress(j) \/ Retry(j)
  BY <1>1, <1>7 DEF PollProgress, Retry, Report, Staged
<1>8. CASE BeginCancel(j)
  BY <1>1, <1>8 DEF BeginCancel, Staged
<1>9. CASE Settle(j)
  <2>1. PICK kinds \in Endings(j) : status' = [status EXCEPT ![j] = Last(kinds)]
    BY <1>9 DEF Settle
  <2>2. Last(kinds) \in TerminalStatus
    BY EndingIs
  <2> QED
    BY <1>1, <1>9, <2>1, <2>2 DEF Settle, Staged, TerminalStatus
<1>10. CASE Close(j)
  BY <1>1, <1>10 DEF Close, Staged
<1> QED
  BY <1>2, <1>3, <1>4, <1>5, <1>6, <1>7, <1>8, <1>9, <1>10 DEF JobStep, Handle

LEMMA StepStaged ==
  ASSUME BusAssumption, Typed, Staged, [Next]_vars
  PROVE  Staged'
<1>1. status \in [Jobs -> Statuses] /\ stage \in [Jobs -> Places]
  BY DEF Typed, JobsTyped
<1>2. ASSUME NEW j \in Jobs, JobStep(j) PROVE Staged'
  BY <1>2, JobStepStaged DEF Typed
<1>3. CASE SubmitComposition
  BY <1>1, <1>3 DEF SubmitComposition, Enqueued, Staged, BusAssumption
<1>4. ASSUME NEW S \in SUBSET Jobs, NEW launch \in SUBSET Jobs, Scan(S, launch) PROVE Staged'
  <2>1. /\ stage' = [j \in Jobs |-> IF j \in launch THEN "popped" ELSE stage[j]]
        /\ \A j \in launch : stage[j] = "heap" /\ status' = status
    BY <1>4 DEF Scan
  <2>2. status' = status
    BY <1>4 DEF Scan
  <2> QED
    BY <1>1, <2>1, <2>2 DEF Staged
<1>5. CASE Restart
  BY <1>1, <1>5 DEF Restart, Staged
<1>6. ASSUME UNCHANGED <<status, stage>> PROVE Staged'
  BY <1>6 DEF Staged
<1>7. CASE Emit \/ OtherAppend \/ Reset \/ \E f \in Followers : CatchUp(f) \/ Deliver(f) \/ Leave(f)
  BY <1>6, <1>7 DEF Emit, OtherAppend, Reset, CatchUp, Deliver, Leave, jobVars
<1>8. CASE UNCHANGED vars
  BY <1>6, <1>8 DEF vars, jobVars
<1> QED
  BY <1>2, <1>3, <1>4, <1>5, <1>7, <1>8 DEF Next, JobStep

-----------------------------------------------------------------------------
(* Records.                                                                *)

LEMMA RecordedStays ==
  ASSUME Typed, Emit \/ OtherAppend
  PROVE  Recorded \subseteq Recorded'
<1>1. /\ ToSet(journal) \subseteq ToSet(journal') /\ broken \subseteq broken'
      /\ DOMAIN occurred \subseteq DOMAIN occurred'
      /\ \A m \in DOMAIN occurred : occurred'[m] = occurred[m]
  <2>1. CASE Emit
    BY <2>1, EmitDoes DEF Typed
  <2>2. CASE OtherAppend
    BY <2>2, OtherAppendDoes DEF Typed, OtherAppend
  <2> QED
    BY <2>1, <2>2
<1> QED
  BY <1>1 DEF Recorded

LEMMA TodoEmpty == ToSet(<<>>) = {}
BY DEF ToSet

LEMMA HeadDue ==
  ASSUME NEW X, NEW s \in Seq(X), s # <<>>
  PROVE  ToSet(s) = {Head(s)} \cup ToSet(Tail(s))
<1>1. /\ Len(s) \in Nat \ {0} /\ DOMAIN s = 1 .. Len(s) /\ Head(s) = s[1]
      /\ DOMAIN Tail(s) = 1 .. Len(s) - 1 /\ \A i \in 1 .. Len(s) - 1 : Tail(s)[i] = s[i + 1]
  OBVIOUS
<1>2. ASSUME NEW x \in ToSet(s) PROVE x \in {Head(s)} \cup ToSet(Tail(s))
  <2>1. PICK i \in 1 .. Len(s) : x = s[i]
    BY <1>1 DEF ToSet
  <2>2. CASE i = 1
    BY <1>1, <2>1, <2>2
  <2>3. CASE i # 1
    <3>1. i - 1 \in 1 .. Len(s) - 1 /\ i - 1 + 1 = i
      BY <1>1, <2>3
    <3>2. x = Tail(s)[i - 1]
      BY <1>1, <2>1, <3>1
    <3> QED
      BY <1>1, <3>1, <3>2 DEF ToSet
  <2> QED
    BY <2>2, <2>3
<1>3. ASSUME NEW x \in ToSet(Tail(s)) PROVE x \in ToSet(s)
  <2>1. PICK i \in 1 .. Len(s) - 1 : x = s[i + 1]
    BY <1>1 DEF ToSet
  <2>2. i + 1 \in 1 .. Len(s)
    BY <1>1
  <2> QED
    BY <1>1, <2>1, <2>2 DEF ToSet
<1>4. Head(s) \in ToSet(s)
  <2>1. 1 \in 1 .. Len(s)
    BY <1>1
  <2> QED
    BY <1>1, <2>1 DEF ToSet
<1> QED
  BY <1>2, <1>3, <1>4

(* The gate lets every failure and cancellation in, and the completions of *)
(* the jobs it finds in _jobs that are not ambient.                        *)
LEMMA EndAdmitted ==
  ASSUME NEW j \in Jobs, NEW s \in TerminalStatus, Needed(j, s), s = "completed" => j \in known
  PROVE  Admits(Event(j, s))
BY DEF Admits, Event, Needed, TerminalStatus, Liveness, Precious

LEMMA EmitRecorded ==
  ASSUME Typed, Staged, ToldRecorded, EndRecorded, Emit
  PROVE  ToldRecorded' /\ EndRecorded'
<1>1. todo \in Seq(Events) /\ todo # <<>> /\ todo' = Tail(todo)
      /\ UNCHANGED <<status, stage, known, told>>
  BY DEF Typed, LogTyped, Emit, jobVars
<1>2. ToSet(todo) = {Head(todo)} \cup ToSet(todo')
  BY <1>1, HeadDue
<1>3. Recorded \subseteq Recorded'
  BY RecordedStays
<1>4. Admits(Head(todo)) => Head(todo) \in Recorded'
  <2> DEFINE n == Len(occurred) + 1
             e == Head(todo)
  <2>1. /\ DOMAIN occurred' = DOMAIN occurred \cup {n} /\ occurred'[n] = e
        /\ Admits(e) => n \in ToSet(journal') \cup broken'
    BY EmitDoes DEF Typed
  <2> HIDE DEF n, e
  <2>2. Admits(e) => e \in Recorded'
    BY <2>1 DEF Recorded
  <2> QED
    BY <2>2 DEF e
<1>5. ASSUME NEW j \in Jobs, told[j] # None, Needed(j, told[j])
      PROVE  \/ Event(j, told[j]) \in Recorded'
             \/ told[j] # "completed" /\ Event(j, told[j]) \in ToSet(todo')
  <2>1. told[j] \in TerminalStatus
    BY <1>5 DEF Typed, JobsTyped
  <2>2. told[j] # "completed" => Admits(Event(j, told[j]))
    BY <1>5, <2>1, EndAdmitted
  <2> QED
    BY <1>2, <1>3, <1>4, <1>5, <2>2 DEF ToldRecorded
<1>6. ASSUME NEW j \in Jobs, stage[j] = "ending", Needed(j, status[j]),
             status[j] = "completed" => j \in known
      PROVE  Event(j, status[j]) \in Recorded' \cup ToSet(todo')
  <2>1. Admits(Event(j, status[j]))
    BY <1>6, EndAdmitted DEF Staged
  <2> QED
    BY <1>2, <1>3, <1>4, <1>6, <2>1 DEF EndRecorded
<1>7. ToldRecorded'
  BY <1>1, <1>5 DEF ToldRecorded, Needed
<1>8. EndRecorded'
  BY <1>1, <1>6 DEF EndRecorded, Needed
<1> QED
  BY <1>7, <1>8

(* A handler begins with everything emitted.                               *)
LEMMA BeforeHandler ==
  ASSUME ToldRecorded, EndRecorded, todo = <<>>
  PROVE  /\ \A j \in Jobs : told[j] # None /\ Needed(j, told[j]) => Event(j, told[j]) \in Recorded
         /\ \A j \in Jobs :
              /\ stage[j] = "ending"
              /\ Needed(j, status[j]) /\ (status[j] = "completed" => j \in known)
              => Event(j, status[j]) \in Recorded
BY TodoEmpty DEF ToldRecorded, EndRecorded

LEMMA FirstDue ==
  ASSUME NEW e
  PROVE  ToSet(<<e>>) = {e}
BY DEF ToSet

LEMMA LastDue ==
  ASSUME NEW j \in Jobs, NEW kinds \in Seq(Kinds), kinds # <<>>
  PROVE  Event(j, Last(kinds)) \in ToSet([i \in DOMAIN kinds |-> Event(j, kinds[i])])
<1>1. Len(kinds) \in DOMAIN kinds /\ Last(kinds) = kinds[Len(kinds)]
  BY DEF Last
<1> QED
  BY <1>1 DEF ToSet

LEMMA JobStepRecorded ==
  ASSUME BusAssumption, JobsTyped, Staged, ToldRecorded, EndRecorded, NEW j \in Jobs, JobStep(j)
  PROVE  ToldRecorded' /\ EndRecorded'
<1> USE DEF Needed
<1>1. todo = <<>> /\ Recorded' = Recorded
  <2>1. Handler
    BY DEF Handler
  <2> QED
    BY <2>1, HandlerFrame DEF Recorded, logVars
<1>2. /\ \A k \in Jobs : told[k] # None /\ Needed(k, told[k]) => Event(k, told[k]) \in Recorded
      /\ \A k \in Jobs :
           /\ stage[k] = "ending"
           /\ Needed(k, status[k]) /\ (status[k] = "completed" => k \in known)
           => Event(k, status[k]) \in Recorded
  BY <1>1, BeforeHandler
<1>3. status \in [Jobs -> Statuses] /\ stage \in [Jobs -> Places]
      /\ told \in [Jobs -> TerminalStatus \cup {None}]
  BY DEF JobsTyped
<1>4. CASE UNCHANGED <<status, stage, known, told>>
  BY <1>1, <1>2, <1>4 DEF ToldRecorded, EndRecorded
<1>5. CASE Submit(j)
  BY <1>1, <1>2, <1>3, <1>5 DEF Submit, Enqueued, ToldRecorded, EndRecorded
<1>6. CASE CancelPending(j)
  <2>1. /\ status' = [status EXCEPT ![j] = "cancelled"] /\ File(j, "cancelled", {})
        /\ stage' = [stage EXCEPT ![j] = IF @ = "heap" THEN "out" ELSE @]
        /\ ToSet(todo') = {Event(j, "cancelled")} /\ stage[j] # "ending" /\ j \in known
    BY <1>6, FirstDue DEF CancelPending, Staged, TerminalStatus
  <2>2. told' = [told EXCEPT ![j] = "cancelled"] /\ known' \subseteq known
    BY <2>1 DEF File
  <2>3. ToldRecorded'
    BY <1>1, <1>2, <1>3, <2>1, <2>2 DEF ToldRecorded
  <2>4. EndRecorded'
    BY <1>1, <1>2, <1>3, <2>1, <2>2 DEF EndRecorded
  <2> QED
    BY <2>3, <2>4
<1>7. CASE FailNever(j)
  <2>1. /\ status' = [status EXCEPT ![j] = "failed"] /\ stage' = [stage EXCEPT ![j] = "ending"]
        /\ ToSet(todo') = {Event(j, "failed")} /\ UNCHANGED <<told, known>>
    BY <1>7, FirstDue DEF FailNever
  <2> QED
    BY <1>1, <1>2, <1>3, <2>1 DEF ToldRecorded, EndRecorded
<1>8. CASE StartJob(j)
  BY <1>1, <1>2, <1>3, <1>8 DEF StartJob, ToldRecorded, EndRecorded
<1>9. CASE Settle(j)
  <2>1. PICK kinds \in Endings(j) :
          /\ todo' = [i \in DOMAIN kinds |-> Event(j, kinds[i])]
          /\ status' = [status EXCEPT ![j] = Last(kinds)]
    BY <1>9 DEF Settle
  <2>2. Event(j, Last(kinds)) \in ToSet(todo')
    BY <2>1, EndingIs, LastDue
  <2>3. stage' = [stage EXCEPT ![j] = "ending"] /\ UNCHANGED <<told, known>>
    BY <1>9 DEF Settle
  <2> QED
    BY <1>1, <1>2, <1>3, <2>1, <2>2, <2>3 DEF ToldRecorded, EndRecorded
<1>10. CASE Close(j)
  <2> DEFINE next == IF status[j] = "completed"
                     THEN {k \in Unlocks[j] \cap Members : status[k] = "none"} ELSE {}
  <2>1. /\ File(j, status[j], next) /\ stage[j] = "ending"
        /\ status' = [k \in Jobs |-> IF k \in next THEN "pending" ELSE status[k]]
        /\ stage' = [k \in Jobs |-> IF k \in next THEN "heap"
                                    ELSE IF k = j THEN "out" ELSE stage[k]]
    BY <1>10 DEF Close
  <2> HIDE DEF next
  <2>2. /\ told' = IF j \in known THEN [told EXCEPT ![j] = status[j]] ELSE told
        /\ known' \subseteq known \cup next
    BY <2>1 DEF File
  <2>3. ToldRecorded'
    BY <1>1, <1>2, <1>3, <2>1, <2>2 DEF ToldRecorded
  <2>4. EndRecorded'
    BY <1>1, <1>2, <1>3, <2>1, <2>2 DEF EndRecorded
  <2> QED
    BY <2>3, <2>4
<1> QED
  BY <1>4, <1>5, <1>6, <1>7, <1>8, <1>9, <1>10 DEF JobStep, Handle, CancelRunning, PollProgress,
     Retry, Report, BeginCancel

LEMMA StepRecorded ==
  ASSUME BusAssumption, Typed, Staged, ToldRecorded, EndRecorded, [Next]_vars
  PROVE  ToldRecorded' /\ EndRecorded'
<1> USE DEF Needed
<1>1. CASE Emit
  BY <1>1, EmitRecorded
<1>2. ASSUME NEW j \in Jobs, JobStep(j) PROVE ToldRecorded' /\ EndRecorded'
  BY <1>2, JobStepRecorded DEF Typed
<1>3. CASE SubmitComposition \/ \E S \in SUBSET Jobs, launch \in SUBSET Jobs : Scan(S, launch)
  <2>1. Handler /\ stage \in [Jobs -> Places] /\ status \in [Jobs -> Statuses]
    BY <1>3 DEF Handler, Typed, JobsTyped
  <2>2. todo = <<>> /\ Recorded' = Recorded
    BY <2>1, HandlerFrame DEF Recorded, logVars
  <2>3. /\ told' = told
        /\ \A j \in Jobs : stage'[j] = "ending" =>
             stage[j] = "ending" /\ status'[j] = status[j] /\ (j \in known' => j \in known)
    BY <1>3, <2>1 DEF SubmitComposition, Enqueued, Scan
  <2> QED
    BY <2>2, <2>3, BeforeHandler DEF ToldRecorded, EndRecorded
<1>4. CASE OtherAppend
  <2>1. Recorded \subseteq Recorded' /\ UNCHANGED <<todo, status, stage, known, told>>
    BY <1>4, RecordedStays DEF OtherAppend, jobVars
  <2> QED
    BY <2>1 DEF ToldRecorded, EndRecorded
<1>5. CASE Restart
  <2>1. Recorded' = Recorded /\ ToSet(todo') = {} /\ stage' = [j \in Jobs |-> "out"]
        /\ told' = [j \in Jobs |-> IF \E e \in ToSet(todo) : e.job = j THEN None ELSE told[j]]
    BY <1>5, TodoEmpty DEF Restart, Recorded
  <2>2. \A j \in Jobs, s \in TerminalStatus : Event(j, s).job = j
    BY DEF Event
  <2>3. told \in [Jobs -> TerminalStatus \cup {None}]
    BY DEF Typed, JobsTyped
  <2>4. ToldRecorded'
    BY <2>1, <2>2, <2>3 DEF ToldRecorded
  <2>5. EndRecorded'
    BY <2>1 DEF EndRecorded
  <2> QED
    BY <2>4, <2>5
<1>6. ASSUME UNCHANGED <<jobVars, todo, occurred, journal, broken>> PROVE ToldRecorded' /\ EndRecorded'
  BY <1>6 DEF ToldRecorded, EndRecorded, Recorded, jobVars
<1>7. CASE Reset \/ \E f \in Followers : CatchUp(f) \/ Deliver(f) \/ Leave(f)
  BY <1>6, <1>7 DEF Reset, CatchUp, Deliver, Leave, logVars
<1>8. CASE UNCHANGED vars
  BY <1>6, <1>8 DEF vars, logVars
<1> QED
  BY <1>1, <1>2, <1>3, <1>4, <1>5, <1>7, <1>8 DEF Next, JobStep

-----------------------------------------------------------------------------
(* The ends of jobs.                                                       *)

LEMMA ConcatAt ==
  ASSUME NEW X, NEW s \in Seq(X), NEW u \in Seq(X)
  PROVE  /\ s \o u \in Seq(X) /\ Len(s) \in Nat /\ Len(u) \in Nat
         /\ Len(s \o u) = Len(s) + Len(u)
         /\ \A i \in 1 .. Len(s) : (s \o u)[i] = s[i]
         /\ \A i \in 1 .. Len(u) : (s \o u)[Len(s) + i] = u[i]
OBVIOUS

LEMMA UnendedSame ==
  ASSUME NEW n \in Nat, NEW s, NEW t, NEW j, \A i \in 1 .. n - 1 : t[i] = s[i], Unended(s, j, n)
  PROVE  Unended(t, j, n)
<1> SUFFICES ASSUME NEW m \in 1 .. n - 1, t[m].job = j, t[m].kind \in TerminalStatus
             PROVE  \E k \in m + 1 .. n - 1 : t[k].job = j /\ t[k].kind \notin TerminalStatus \cup {"retry"}
  BY DEF Unended
<1>1. s[m].job = j /\ s[m].kind \in TerminalStatus
  OBVIOUS
<1>2. PICK k \in m + 1 .. n - 1 : s[k].job = j /\ s[k].kind \notin TerminalStatus \cup {"retry"}
  BY <1>1 DEF Unended
<1>3. k \in 1 .. n - 1
  OBVIOUS
<1>4. t[k] = s[k]
  BY <1>3
<1> QED
  BY <1>2, <1>4

(* Positions of a list that goes on with u.                                *)
LEMMA UnendedPrefix ==
  ASSUME NEW s \in Seq(Events), NEW u \in Seq(Events), NEW j, NEW n \in 1 .. Len(s) + 1
  PROVE  Unended(s \o u, j, n) <=> Unended(s, j, n)
<1> DEFINE t == s \o u
<1>1. n \in Nat /\ \A i \in 1 .. n - 1 : t[i] = s[i]
  BY ConcatAt
<1> HIDE DEF t
<1>2. \A i \in 1 .. n - 1 : s[i] = t[i]
  BY <1>1
<1>3. Unended(t, j, n) => Unended(s, j, n)
  BY <1>1, <1>2, UnendedSame
<1>4. Unended(s, j, n) => Unended(t, j, n)
  BY <1>1, UnendedSame
<1> QED
  BY <1>3, <1>4 DEF t

LEMMA QuietPrefix ==
  ASSUME NEW s \in Seq(Events), NEW u \in Seq(Events), Quiet(s \o u)
  PROVE  Quiet(s)
<1> DEFINE t == s \o u
<1>1. ASSUME NEW n \in 1 .. Len(s), s[n].kind \in {"progress", "cooperative"}
      PROVE  Unended(s, s[n].job, n)
  <2>1. n \in DOMAIN t /\ t[n] = s[n] /\ n \in 1 .. Len(s) + 1
    BY ConcatAt
  <2>2. Unended(t, s[n].job, n)
    BY <1>1, <2>1 DEF Quiet
  <2> QED
    BY <2>1, <2>2, UnendedPrefix
<1> QED
  BY <1>1 DEF Quiet

LEMMA QuietExtended ==
  ASSUME NEW s \in Seq(Events), NEW u \in Seq(Events), Quiet(s),
         \A i \in DOMAIN u : u[i].kind \in {"progress", "cooperative"} =>
           i = 1 /\ Unended(s, u[i].job, Len(s) + 1)
  PROVE  Quiet(s \o u)
<1> DEFINE t == s \o u
<1>1. /\ Len(s) \in Nat /\ Len(u) \in Nat /\ DOMAIN t = 1 .. Len(s) + Len(u)
      /\ \A i \in 1 .. Len(s) : t[i] = s[i]
      /\ \A i \in 1 .. Len(u) : t[Len(s) + i] = u[i]
  BY ConcatAt
<1>2. \A j, n : n \in 1 .. Len(s) + 1 => (Unended(t, j, n) <=> Unended(s, j, n))
  BY UnendedPrefix
<1> HIDE DEF t
<1>3. ASSUME NEW n \in DOMAIN t, t[n].kind \in {"progress", "cooperative"}
      PROVE  Unended(t, t[n].job, n)
  <2>1. CASE n =< Len(s)
    <3>1. n \in 1 .. Len(s) + 1 /\ n \in DOMAIN s /\ t[n] = s[n]
      BY <1>1, <2>1
    <3>2. Unended(s, t[n].job, n)
      BY <1>3, <3>1 DEF Quiet
    <3> QED
      BY <1>2, <3>1, <3>2
  <2>2. CASE n > Len(s)
    <3>1. n - Len(s) \in 1 .. Len(u) /\ Len(s) + (n - Len(s)) = n
      BY <1>1, <2>2
    <3>2. n - Len(s) \in DOMAIN u /\ t[n] = u[n - Len(s)]
      BY <1>1, <3>1
    <3>3. n - Len(s) = 1 /\ Unended(s, t[n].job, Len(s) + 1)
      BY <1>3, <3>2
    <3>4. n = Len(s) + 1 /\ n \in 1 .. Len(s) + 1
      BY <1>1, <3>1, <3>3
    <3> QED
      BY <1>2, <3>3, <3>4
  <2> QED
    BY <1>1, <2>1, <2>2
<1>4. Quiet(t)
  BY <1>3 DEF Quiet
<1> QED
  BY <1>4 DEF t

LEMMA UnendedExtended ==
  ASSUME NEW s \in Seq(Events), NEW u \in Seq(Events), NEW j, Unended(s, j, Len(s) + 1),
         \A i \in DOMAIN u : u[i].job = j => u[i].kind \notin TerminalStatus
  PROVE  Unended(s \o u, j, Len(s \o u) + 1)
<1> DEFINE t == s \o u
<1>1. /\ Len(s) \in Nat /\ Len(u) \in Nat /\ Len(t) = Len(s) + Len(u)
      /\ \A i \in 1 .. Len(s) : t[i] = s[i]
      /\ \A i \in 1 .. Len(u) : t[Len(s) + i] = u[i]
  BY ConcatAt
<1> HIDE DEF t
<1>2. ASSUME NEW m \in 1 .. Len(t), t[m].job = j, t[m].kind \in TerminalStatus
      PROVE  \E k \in m + 1 .. Len(t) : t[k].job = j /\ t[k].kind \notin TerminalStatus \cup {"retry"}
  <2>1. m =< Len(s)
    <3> SUFFICES ASSUME m > Len(s) PROVE FALSE
      BY <1>1
    <3>1. m - Len(s) \in 1 .. Len(u) /\ Len(s) + (m - Len(s)) = m
      BY <1>1
    <3>2. m - Len(s) \in DOMAIN u /\ t[m] = u[m - Len(s)]
      BY <1>1, <3>1
    <3> QED
      BY <1>2, <3>2
  <2>2. m \in 1 .. Len(s) /\ m \in 1 .. Len(s) + 1 - 1 /\ s[m] = t[m]
    BY <1>1, <2>1
  <2>3. PICK k \in m + 1 .. Len(s) + 1 - 1 : s[k].job = j /\ s[k].kind \notin TerminalStatus \cup {"retry"}
    BY <1>2, <2>2 DEF Unended
  <2>4. k \in 1 .. Len(s) /\ k \in m + 1 .. Len(t) /\ t[k] = s[k]
    BY <1>1, <2>2, <2>3
  <2> QED
    BY <2>3, <2>4
<1>3. 1 .. Len(t) + 1 - 1 = 1 .. Len(t) /\ \A m \in 1 .. Len(t) : m + 1 .. Len(t) + 1 - 1 = m + 1 .. Len(t)
  BY <1>1
<1>4. Unended(t, j, Len(t) + 1)
  BY <1>2, <1>3 DEF Unended
<1> QED
  BY <1>4 DEF t

LEMMA UnendedFresh ==
  ASSUME NEW s \in Seq(Events), NEW e \in Events, e.kind \notin TerminalStatus \cup {"retry"}
  PROVE  Unended(s \o <<e>>, e.job, Len(s \o <<e>>) + 1)
<1> DEFINE t == s \o <<e>>
           l == Len(s) + 1
<1>1. Len(s) \in Nat /\ Len(t) = l /\ t[l] = e
  OBVIOUS
<1> HIDE DEF t
<1>2. ASSUME NEW m \in 1 .. l, t[m].kind \in TerminalStatus
      PROVE  \E k \in m + 1 .. l : t[k].job = e.job /\ t[k].kind \notin TerminalStatus \cup {"retry"}
  <2>1. m # l
    BY <1>1, <1>2
  <2>2. l \in m + 1 .. l
    BY <1>1, <2>1
  <2> QED
    BY <1>1, <2>2
<1>3. 1 .. Len(t) + 1 - 1 = 1 .. l /\ \A m \in 1 .. l : m + 1 .. Len(t) + 1 - 1 = m + 1 .. l
  BY <1>1
<1>4. Unended(t, e.job, Len(t) + 1)
  BY <1>2, <1>3 DEF Unended
<1> QED
  BY <1>4 DEF t

(* What a handler says of progress and cancellation it says of a job in    *)
(* its lane; no job is in its lane when its end is said.                   *)
OfLane == \A i \in DOMAIN todo' : todo'[i].kind \in {"progress", "cooperative"} =>
            i = 1 /\ todo'[i].job \in Jobs /\ stage[todo'[i].job] = "lane"

LaneKept == \A k \in Jobs : stage'[k] = "lane" =>
              \/ /\ stage[k] = "lane"
                 /\ \A i \in DOMAIN todo' : todo'[i].job = k => todo'[i].kind \notin TerminalStatus
              \/ todo' = <<Event(k, "running")>>

LEMMA One ==
  ASSUME NEW j \in Jobs, NEW kind \in Kinds, todo' = <<Event(j, kind)>>
  PROVE  DOMAIN todo' = {1} /\ todo'[1].job = j /\ todo'[1].kind = kind
BY EventTyped

LEMMA JobStepSays ==
  ASSUME BusAssumption, JobsTyped, Staged, NEW j \in Jobs, JobStep(j)
  PROVE  OfLane /\ LaneKept
<1>1. stage \in [Jobs -> Places] /\ status \in [Jobs -> Statuses]
  BY DEF JobsTyped
<1>2. todo = <<>>
  <2>1. Handler
    BY DEF Handler
  <2> QED
    BY <2>1, HandlerFrame
<1>3. CASE Submit(j) \/ CancelRunning(j)
  <2>1. DOMAIN todo' = {} /\ \A k \in Jobs : stage'[k] = "lane" => stage[k] = "lane"
    BY <1>1, <1>2, <1>3 DEF Submit, Enqueued, CancelRunning
  <2> QED
    BY <2>1 DEF OfLane, LaneKept
<1>4. CASE CancelPending(j)
  <2>1. /\ DOMAIN todo' = {1} /\ todo'[1].job = j /\ todo'[1].kind = "cancelled"
    BY <1>4, One DEF CancelPending, Kinds, TerminalStatus
  <2>2. \A k \in Jobs : stage'[k] = "lane" => k # j /\ stage[k] = "lane"
    BY <1>1, <1>4 DEF CancelPending, Staged
  <2> QED
    BY <2>1, <2>2 DEF OfLane, LaneKept
<1>5. CASE FailNever(j)
  <2>1. /\ DOMAIN todo' = {1} /\ todo'[1].job = j /\ todo'[1].kind = "failed"
    BY <1>5, One DEF FailNever, Kinds, TerminalStatus
  <2>2. \A k \in Jobs : stage'[k] = "lane" => k # j /\ stage[k] = "lane"
    BY <1>1, <1>5 DEF FailNever
  <2> QED
    BY <2>1, <2>2 DEF OfLane, LaneKept
<1>6. CASE StartJob(j)
  <2>1. /\ DOMAIN todo' = {1} /\ todo'[1].job = j /\ todo'[1].kind = "running"
        /\ todo' = <<Event(j, "running")>>
    BY <1>6, One DEF StartJob, Kinds
  <2>2. \A k \in Jobs : stage'[k] = "lane" => k = j \/ stage[k] = "lane"
    BY <1>1, <1>6 DEF StartJob
  <2> QED
    BY <2>1, <2>2 DEF OfLane, LaneKept, TerminalStatus
<1>7. CASE PollProgress(j) \/ Retry(j) \/ BeginCancel(j)
  <2>1. PICK kind \in {"progress", "retry", "cooperative"} :
          todo' = <<Event(j, kind)>> /\ stage' = stage /\ (kind # "retry" => stage[j] = "lane")
    BY <1>7 DEF PollProgress, Retry, Report, BeginCancel
  <2>2. DOMAIN todo' = {1} /\ todo'[1].job = j /\ todo'[1].kind = kind
    BY <2>1, One DEF Kinds
  <2> QED
    BY <2>1, <2>2 DEF OfLane, LaneKept, TerminalStatus
<1>8. CASE Settle(j)
  <2>1. PICK kinds \in Endings(j) : todo' = [i \in DOMAIN kinds |-> Event(j, kinds[i])]
    BY <1>8 DEF Settle
  <2>2. /\ kinds \in Seq(Kinds)
        /\ \A i \in DOMAIN kinds : kinds[i] \notin {"progress", "cooperative"}
    BY EndingIs
  <2>3. \A i \in DOMAIN todo' : todo'[i].job = j /\ todo'[i].kind \notin {"progress", "cooperative"}
    BY <2>1, <2>2, EventTyped
  <2>4. \A k \in Jobs : stage'[k] = "lane" => k # j /\ stage[k] = "lane"
    BY <1>1, <1>8 DEF Settle
  <2> QED
    BY <2>3, <2>4 DEF OfLane, LaneKept
<1>9. CASE Close(j)
  <2> DEFINE next == IF status[j] = "completed"
                     THEN {k \in Unlocks[j] \cap Members : status[k] = "none"} ELSE {}
  <2>1. /\ stage' = [k \in Jobs |-> IF k \in next THEN "heap"
                                    ELSE IF k = j THEN "out" ELSE stage[k]]
        /\ todo' = <<>> \/ todo' = <<Event(j, "advanced")>>
    BY <1>9 DEF Close
  <2> HIDE DEF next
  <2>2. \A k \in Jobs : stage'[k] = "lane" => k # j /\ stage[k] = "lane"
    BY <1>1, <2>1
  <2>3. CASE todo' = <<>>
    BY <2>2, <2>3 DEF OfLane, LaneKept
  <2>4. CASE todo' = <<Event(j, "advanced")>>
    <3>1. DOMAIN todo' = {1} /\ todo'[1].job = j /\ todo'[1].kind = "advanced"
      BY <2>4, One DEF Kinds
    <3> QED
      BY <2>2, <3>1 DEF OfLane, LaneKept
  <2> QED
    BY <2>1, <2>3, <2>4
<1> QED
  BY <1>3, <1>4, <1>5, <1>6, <1>7, <1>8, <1>9 DEF JobStep, Handle

LEMMA HandlerSays ==
  ASSUME BusAssumption, Typed, Staged, Handler
  PROVE  OfLane /\ LaneKept
<1>1. CASE \E j \in Jobs : JobStep(j)
  BY <1>1, JobStepSays DEF Typed
<1>2. CASE SubmitComposition
  <2>1. todo' = <<>> /\ \A k \in Jobs : stage'[k] = "lane" => stage[k] = "lane"
    BY <1>2 DEF SubmitComposition, Enqueued, Idle, Typed, JobsTyped
  <2> QED
    BY <2>1 DEF OfLane, LaneKept
<1>3. ASSUME NEW S \in SUBSET Jobs, NEW launch \in SUBSET Jobs, Scan(S, launch)
      PROVE  OfLane /\ LaneKept
  <2>1. \A i \in DOMAIN todo' : todo'[i].kind \in {"blocked", "unblocked", "admitted"}
    BY <1>3, ScanTyped DEF Typed
  <2>2. \A k \in Jobs : stage'[k] = "lane" => stage[k] = "lane"
    BY <1>3 DEF Scan, Typed, JobsTyped
  <2> QED
    BY <2>1, <2>2 DEF OfLane, LaneKept, TerminalStatus
<1> QED
  BY <1>1, <1>2, <1>3 DEF Handler

LEMMA HandlerQuiet ==
  ASSUME BusAssumption, Typed, Staged, Quiet(Said), LaneOpen, Handler
  PROVE  Quiet(Said)' /\ LaneOpen'
<1> DEFINE s == occurred
           u == todo'
<1>1. s \in Seq(Events) /\ u \in Seq(Events) /\ todo = <<>> /\ occurred' = occurred
  BY HandlerFrame, HandlerTyped DEF Typed, LogTyped, logVars
<1>2. Said = s /\ Said' = s \o u
  BY <1>1 DEF Said
<1>3. OfLane /\ LaneKept
  BY HandlerSays
<1>4. Quiet(s) /\ \A j \in Jobs : stage[j] = "lane" => Unended(s, j, Len(s) + 1)
  BY <1>2 DEF LaneOpen
<1>5. Quiet(s \o u)
  <2>1. \A i \in DOMAIN u : u[i].kind \in {"progress", "cooperative"} =>
          i = 1 /\ Unended(s, u[i].job, Len(s) + 1)
    BY <1>3, <1>4 DEF OfLane
  <2> HIDE DEF s, u
  <2> QED
    BY <1>1, <1>4, <2>1, QuietExtended
<1>6. ASSUME NEW j \in Jobs, stage'[j] = "lane"
      PROVE  Unended(s \o u, j, Len(s \o u) + 1)
  <2>1. CASE stage[j] = "lane" /\ \A i \in DOMAIN u : u[i].job = j => u[i].kind \notin TerminalStatus
    <3>1. Unended(s, j, Len(s) + 1)
      BY <1>4, <2>1
    <3> HIDE DEF s, u
    <3> QED
      BY <1>1, <2>1, <3>1, UnendedExtended
  <2>2. CASE u = <<Event(j, "running")>>
    <3>1. /\ Event(j, "running") \in Events /\ Event(j, "running").job = j
          /\ Event(j, "running").kind \notin TerminalStatus \cup {"retry"}
      BY EventTyped DEF Kinds, TerminalStatus
    <3> HIDE DEF s, u
    <3> QED
      BY <1>1, <2>2, <3>1, UnendedFresh
  <2> QED
    BY <1>3, <1>6, <2>1, <2>2 DEF LaneKept
<1>7. Quiet(Said)'
  BY <1>2, <1>5 DEF Quiet, Unended
<1>8. LaneOpen'
  <2>1. \A j \in Jobs : stage'[j] = "lane" => Unended(Said', j, Len(Said') + 1)
    BY <1>2, <1>6
  <2> QED
    BY <2>1 DEF LaneOpen, Unended
<1> QED
  BY <1>7, <1>8

LEMMA StepQuiet ==
  ASSUME BusAssumption, Typed, Staged, Quiet(Said), LaneOpen, [Next]_vars
  PROVE  Quiet(Said)' /\ LaneOpen'
<1>1. CASE Handler
  BY <1>1, HandlerQuiet
<1>2. ASSUME Said' = Said, stage' = stage PROVE Quiet(Said)' /\ LaneOpen'
  BY <1>2 DEF Quiet, LaneOpen, Unended
<1>3. CASE Emit
  <2>1. occurred \in Seq(Events) /\ todo \in Seq(Events) /\ todo # <<>> /\ stage' = stage
        /\ occurred' = Append(occurred, Head(todo)) /\ todo' = Tail(todo)
    BY <1>3 DEF Typed, LogTyped, Emit, jobVars
  <2>2. Said' = Said
    BY <2>1, ConcatTail DEF Said
  <2> QED
    BY <1>2, <2>1, <2>2
<1>4. CASE Restart
  <2>1. occurred \in Seq(Events) /\ todo \in Seq(Events) /\ todo' = <<>> /\ occurred' = occurred
        /\ stage' = [j \in Jobs |-> "out"]
    BY <1>4 DEF Typed, LogTyped, Restart
  <2>2. Said' = occurred
    BY <2>1 DEF Said
  <2>3. Quiet(occurred)
    BY <2>1, QuietPrefix DEF Said
  <2>4. Quiet(Said)'
    BY <2>2, <2>3 DEF Quiet, Unended
  <2>5. LaneOpen'
    BY <2>1 DEF LaneOpen
  <2> QED
    BY <2>4, <2>5
<1>5. CASE OtherAppend \/ Reset \/ \E f \in Followers : CatchUp(f) \/ Deliver(f) \/ Leave(f)
  BY <1>2, <1>5 DEF OtherAppend, Reset, CatchUp, Deliver, Leave, Said, jobVars, logVars
<1>6. CASE UNCHANGED vars
  BY <1>2, <1>6 DEF vars, Said, jobVars, logVars
<1> QED
  BY <1>1, <1>3, <1>4, <1>5, <1>6 DEF Next, Handler, JobStep

LEMMA MaxIsLast ==
  ASSUME NEW n \in Nat, NEW S \in SUBSET (1 .. n), S # {}
  PROVE  Max(S) \in S /\ \A y \in S : Max(S) >= y
<1> DEFINE T == {k \in 0 .. n : \A r \in SUBSET (1 .. k) : r # {} => \E x \in r : \A y \in r : x >= y}
<1>1. 0 \in T
  <2>1. \A r \in SUBSET (1 .. 0) : r = {}
    OBVIOUS
  <2>2. 0 \in 0 .. n
    OBVIOUS
  <2> QED
    BY <2>1, <2>2, Zenon
<1>2. ASSUME NEW k \in 1 .. n, k - 1 \in T PROVE k \in T
  <2>1. ASSUME NEW r \in SUBSET (1 .. k), r # {} PROVE \E x \in r : \A y \in r : x >= y
    <3>1. CASE k \in r
      BY <3>1
    <3>2. CASE k \notin r
      <4>1. r \in SUBSET (1 .. k - 1)
        BY <3>2
      <4> QED
        BY <1>2, <2>1, <4>1
    <3> QED
      BY <3>1, <3>2
  <2> QED
    BY <2>1
<1> HIDE DEF T
<1>3. n \in T
  BY <1>1, <1>2, Rounds
<1>4. \E x \in S : \A y \in S : x >= y
  BY <1>3 DEF T
<1> QED
  BY <1>4 DEF Max

LEMMA QuietIsNothing ==
  ASSUME Typed, Quiet(Said)
  PROVE  NothingAfterTheEnd
<1>1. occurred \in Seq(Events) /\ todo \in Seq(Events)
  BY DEF Typed, LogTyped
<1>2. Quiet(occurred)
  BY <1>1, QuietPrefix DEF Said
<1> SUFFICES ASSUME NEW n \in DOMAIN occurred,
                    occurred[n].kind \in {"progress", "cooperative"}
             PROVE  LET before == {m \in 1 .. n - 1 : occurred[m].job = occurred[n].job
                                                        /\ occurred[m].kind # "retry"}
                    IN  before # {} => occurred[Max(before)].kind \notin TerminalStatus
  BY DEF NothingAfterTheEnd
<1> DEFINE j == occurred[n].job
           before == {m \in 1 .. n - 1 : occurred[m].job = j /\ occurred[m].kind # "retry"}
<1>3. n \in Nat \ {0} /\ n - 1 \in Nat
  BY <1>1
<1>4. ASSUME before # {}, occurred[Max(before)].kind \in TerminalStatus PROVE FALSE
  <2> DEFINE m == Max(before)
  <2>1. m \in before /\ \A y \in before : m >= y
    <3>1. before \in SUBSET (1 .. n - 1)
      OBVIOUS
    <3> HIDE DEF before
    <3> QED
      BY <1>3, <1>4, <3>1, MaxIsLast
  <2>2. occurred[m].kind \in TerminalStatus
    BY <1>4
  <2> HIDE DEF m
  <2>3. Unended(occurred, j, n)
    BY <1>2 DEF Quiet
  <2>4. PICK k \in m + 1 .. n - 1 : occurred[k].job = j /\ occurred[k].kind \notin TerminalStatus \cup {"retry"}
    BY <2>1, <2>2, <2>3 DEF Unended
  <2>5. k \in before /\ k > m
    BY <1>3, <2>1, <2>4
  <2> QED
    BY <1>3, <2>1, <2>5
<1> QED
  BY <1>4

-----------------------------------------------------------------------------
(* What followers read.                                                    *)

LEMMA OnlyFrom ==
  ASSUME NEW s \in Seq(Nat), NEW S
  PROVE  ToSet(Only(s, S)) \subseteq ToSet(s)
<1> DEFINE n == Len(s)
<1>1. n \in Nat /\ \A i \in 1 .. n : s[i] \in Nat /\ s[i] \in ToSet(s)
  BY DEF ToSet
<1>2. PICK g \in [0 .. n -> Seq(Nat)] : Sifts(g, s, S, n) /\ Only(s, S) = g[n]
  BY OnlySifts
<1> HIDE DEF n
<1> DEFINE T == {k \in 0 .. n : ToSet(g[k]) \subseteq ToSet(s)}
<1>3. 0 \in T
  <2>1. 0 \in 0 .. n /\ g[0] = <<>>
    BY <1>1, <1>2 DEF Sifts
  <2> QED
    BY <2>1, TodoEmpty
<1>4. ASSUME NEW k \in 1 .. n, k - 1 \in T PROVE k \in T
  <2>1. k \in 0 .. n /\ k - 1 \in 0 .. n
    BY <1>1
  <2>2. g[k - 1] \in Seq(Nat) /\ ToSet(g[k - 1]) \subseteq ToSet(s) /\ s[k] \in Nat /\ s[k] \in ToSet(s)
    BY <1>1, <1>2, <1>4, <2>1
  <2>3. g[k] = g[k - 1] \/ g[k] = Append(g[k - 1], s[k])
    BY <1>2 DEF Sifts, Sift
  <2>4. ToSet(Append(g[k - 1], s[k])) = ToSet(g[k - 1]) \cup {s[k]}
    BY <2>2, AppendSet
  <2>5. ToSet(Append(g[k - 1], s[k])) \subseteq ToSet(s)
    BY <2>2, <2>4
  <2>6. ToSet(g[k]) \subseteq ToSet(s)
    BY <2>2, <2>3, <2>5, Zenon
  <2> QED
    BY <2>1, <2>6
<1> HIDE DEF T
<1>5. n \in T
  BY <1>1, <1>3, <1>4, Rounds
<1> QED
  BY <1>2, <1>5 DEF T

(* OnlySame, for lists by their sets.                                      *)
LEMMA OnlyAgree ==
  ASSUME NEW s \in Seq(Nat), NEW S, NEW U, \A x \in ToSet(s) : x \in S <=> x \in U
  PROVE  Only(s, S) = Only(s, U)
<1>1. \A i \in 1 .. Len(s) : s[i] \in ToSet(s)
  BY DEF ToSet
<1> QED
  BY <1>1, OnlySame

(* What was read of the rows S is what there is of them; now n is emitted, *)
(* and written or not, and wanted or not.                                  *)
Goes(s, w, n, S, R) ==
  /\ Only(Append(s, n), (S \cup {n}) \cap (R \cup {n})) = Only(Append(w, n), S \cup {n})
  /\ Only(Append(s, n), (S \cup {n}) \cap R) = Only(w, S \cup {n})
  /\ Only(s, S \cap (R \cup {n})) = Only(Append(w, n), S)

LEMMA EmitKeepsExact ==
  ASSUME NEW s \in Seq(Nat), NEW w \in Seq(Nat), NEW n \in Nat, NEW S, NEW R,
         n \notin ToSet(s), n \notin ToSet(w), n \notin S, n \notin R,
         Only(s, S \cap R) = Only(w, S)
  PROVE  Goes(s, w, n, S, R)
<1>1. \A x \in ToSet(s) : x # n
  OBVIOUS
<1>2. \A x \in ToSet(w) : x # n
  OBVIOUS
<1>3. Only(w, S \cup {n}) = Only(w, S)
  BY <1>2, OnlyAgree
<1>4. Only(s, (S \cup {n}) \cap (R \cup {n})) = Only(s, S \cap R)
  BY <1>1, OnlyAgree
<1>5. (S \cup {n}) \cap R = S \cap R /\ S \cap (R \cup {n}) = S \cap R
  OBVIOUS
<1>6. Only(Append(s, n), (S \cup {n}) \cap (R \cup {n})) = Append(Only(s, S \cap R), n)
  <2> DEFINE X == (S \cup {n}) \cap (R \cup {n})
  <2>1. n \in X /\ Only(s, X) = Only(s, S \cap R)
    BY <1>4
  <2> HIDE DEF X
  <2>2. Only(Append(s, n), X) = Append(Only(s, X), n)
    BY <2>1, OnlyAppend DEF Sift
  <2> QED
    BY <2>1, <2>2 DEF X
<1>7. Only(Append(w, n), S \cup {n}) = Append(Only(w, S), n)
  <2> DEFINE X == S \cup {n}
  <2>1. n \in X /\ Only(w, X) = Only(w, S)
    BY <1>3
  <2> HIDE DEF X
  <2>2. Only(Append(w, n), X) = Append(Only(w, X), n)
    BY <2>1, OnlyAppend DEF Sift
  <2> QED
    BY <2>1, <2>2 DEF X
<1>8. Only(Append(s, n), S \cap R) = Only(s, S \cap R)
  BY OnlyAppend DEF Sift
<1>9. Only(Append(w, n), S) = Only(w, S)
  BY OnlyAppend DEF Sift
<1> QED
  BY <1>3, <1>5, <1>6, <1>7, <1>8, <1>9 DEF Goes

Stream(f) == {n \in DOMAIN occurred : occurred[n].kind # "admitted" /\ Wanted(f, n)}

Exact(f) == Only(view[f] \o queue[f], Stream(f) \cap Rows) = Only(Written, Stream(f))

LEMMA TailIsExact == TailOfJournal <=> \A f \in on : dropped[f] = 0 => Exact(f)
BY DEF TailOfJournal, Exact, Stream, Written

LEMMA EmitStream ==
  ASSUME Typed, Emit, NEW f
  PROVE  /\ Len(occurred) + 1 \notin Stream(f)
         /\ Stream(f)' = IF Reaches(f, Head(todo)) THEN Stream(f) \cup {Len(occurred) + 1}
                                                   ELSE Stream(f)
<1>n. PICK n : n = Len(occurred) + 1
  OBVIOUS
<1>e. PICK e : e = Head(todo)
  OBVIOUS
<1>1. /\ n \notin DOMAIN occurred /\ DOMAIN occurred' = DOMAIN occurred \cup {n} /\ occurred'[n] = e
      /\ \A m \in DOMAIN occurred : occurred'[m] = occurred[m]
  BY <1>n, <1>e, EmitDoes DEF Typed
<1>2. Members' = Members
  BY DEF Emit, runVars, Members
<1>3. \A m \in DOMAIN occurred : Wanted(f, m)' <=> Wanted(f, m)
  BY <1>1, <1>2 DEF Wanted
<1>4. (e.kind # "admitted" /\ Wanted(f, n)') <=> Reaches(f, e)
  BY <1>1, <1>2 DEF Wanted, Reaches
<1>5. Stream(f)' = {m \in DOMAIN occurred \cup {n} : occurred'[m].kind # "admitted" /\ Wanted(f, m)'}
  BY <1>1 DEF Stream
<1>6. Stream(f)' = IF Reaches(f, e) THEN Stream(f) \cup {n} ELSE Stream(f)
  BY <1>1, <1>3, <1>4, <1>5 DEF Stream
<1>7. n \notin Stream(f)
  BY <1>1 DEF Stream
<1> QED
  BY <1>n, <1>e, <1>6, <1>7

LEMMA EmitSeen ==
  ASSUME BusAssumption, Typed, Seen, Emit
  PROVE  Seen'
<1> DEFINE e == Head(todo)
           n == Len(occurred) + 1
<1>1. n \in Nat /\ DOMAIN occurred' = DOMAIN occurred \cup {n} /\ view' = view
  BY EmitDoes DEF Typed, Emit
<1>2. FanOut(e, n)
  BY DEF Emit
<1> HIDE DEF e, n
<1>3. ASSUME NEW f \in Followers PROVE ToSet(queue'[f]) \subseteq ToSet(queue[f]) \cup {n}
  <2>1. queue'[f] = queue[f] \/ queue'[f] = Append(queue[f], n)
    BY <1>2 DEF FanOut
  <2>2. ToSet(Append(queue[f], n)) = ToSet(queue[f]) \cup {n}
    BY <1>1, AppendSet DEF Typed, FollowersTyped
  <2> QED
    BY <2>1, <2>2
<1> QED
  BY <1>1, <1>3 DEF Seen

LEMMA EmitExact ==
  ASSUME BusAssumption, Typed, Seen, TailOfJournal, Emit
  PROVE  TailOfJournal'
<1> DEFINE e == Head(todo)
           n == Len(occurred) + 1
<1>1. /\ n \in Nat /\ n \notin DOMAIN occurred /\ n \notin Rows
      /\ Written' \in {Written, Append(Written, n)}
      /\ journal' \in Seq(Nat) /\ open' \in Seq(Nat)
  BY EmitDoes DEF Typed
<1>2. FanOut(e, n) /\ view' = view /\ on' = on
  BY DEF Emit
<1>3. \A f : /\ n \notin Stream(f)
             /\ Stream(f)' = IF Reaches(f, e) THEN Stream(f) \cup {n} ELSE Stream(f)
  BY EmitStream
<1> HIDE DEF e, n
<1>4. /\ Written \in Seq(Nat) /\ Rows = ToSet(Written) /\ Rows' = ToSet(Written')
      /\ ToSet(Append(Written, n)) = Rows \cup {n}
  <2>1. Written \in Seq(Nat) /\ Rows = ToSet(Written)
    BY RowsWritten DEF Typed
  <2>2. Rows' = ToSet(Written')
    BY <1>1, ConcatSet DEF Rows, Written
  <2> QED
    BY <1>1, <2>1, <2>2, AppendSet
<1>5. ASSUME NEW f \in on, dropped'[f] = 0
      PROVE  Only(view[f] \o queue'[f], Stream(f)' \cap Rows') = Only(Written', Stream(f)')
  <2> DEFINE s == view[f] \o queue[f]
             S == Stream(f)
  <2>1. f \in Followers /\ view[f] \in Seq(Nat) /\ queue[f] \in Seq(Nat)
    BY DEF Typed, FollowersTyped
  <2>2. /\ ~ Reaches(f, e) => queue'[f] = queue[f]
        /\ Reaches(f, e) => queue'[f] = Append(queue[f], n)
        /\ dropped[f] = 0
    BY <1>1, <1>2, <1>5, <2>1, FanOutDoes DEF Typed
  <2>3. s \in Seq(Nat) /\ n \notin ToSet(s)
    BY <1>1, <2>1, ConcatSet DEF Seen
  <2>4. view[f] \o Append(queue[f], n) = Append(s, n)
    <3> DEFINE v == view[f]
               q == queue[f]
    <3>1. n \in Nat /\ v \in Seq(Nat) /\ q \in Seq(Nat)
      BY <1>1, <2>1
    <3> HIDE DEF v, q
    <3>2. v \o Append(q, n) = Append(v \o q, n)
      BY <3>1, ConcatAppend
    <3> QED
      BY <3>2 DEF v, q
  <2>5. Only(s, S \cap Rows) = Only(Written, S)
    BY <2>2, TailIsExact DEF Exact
  <2>6. n \notin S
    BY <1>3
  <2>7. Stream(f)' = IF Reaches(f, e) THEN S \cup {n} ELSE S
    BY <1>3
  <2>8. view[f] \o queue'[f] = IF Reaches(f, e) THEN Append(s, n) ELSE s
    BY <2>2, <2>4
  <2> HIDE DEF s, S
  <2>9. /\ Only(Append(s, n), (S \cup {n}) \cap (Rows \cup {n})) = Only(Append(Written, n), S \cup {n})
        /\ Only(Append(s, n), (S \cup {n}) \cap Rows) = Only(Written, S \cup {n})
        /\ Only(s, S \cap (Rows \cup {n})) = Only(Append(Written, n), S)
    <3>1. n \in Nat /\ n \notin Rows /\ n \notin ToSet(Written) /\ Written \in Seq(Nat)
      BY <1>1, <1>4
    <3>2. Goes(s, Written, n, S, Rows)
      BY <2>3, <2>5, <2>6, <3>1, EmitKeepsExact
    <3> QED
      BY <3>2 DEF Goes
  <2>10. CASE Written' = Written
    <3>1. Rows' = Rows
      BY <1>4, <2>10
    <3> QED
      BY <2>5, <2>7, <2>8, <2>9, <2>10, <3>1
  <2>11. CASE Written' = Append(Written, n)
    <3>1. Rows' = Rows \cup {n}
      BY <1>4, <2>11
    <3> QED
      BY <2>7, <2>8, <2>9, <2>11, <3>1
  <2> QED
    BY <1>1, <2>10, <2>11
<1>6. \A f \in on' : dropped'[f] = 0 => Exact(f)'
  BY <1>2, <1>5 DEF Exact
<1>7. (\A f \in on : dropped[f] = 0 => Exact(f))'
  BY <1>6
<1> QED
  BY <1>7, TailIsExact DEF TailOfJournal, Exact, Stream, Written

(* Nothing was emitted or written: what a follower has is all that counts. *)
LEMMA SameStream ==
  ASSUME UNCHANGED <<occurred, composed>>, Rows' = Rows, Written' = Written, NEW f,
         view'[f] \o queue'[f] = view[f] \o queue[f], Exact(f)
  PROVE  Exact(f)'
<1>1. Stream(f)' = Stream(f)
  BY DEF Stream, Wanted, Members
<1> QED
  BY <1>1 DEF Exact

LEMMA CatchUpExact ==
  ASSUME Typed, NEW f \in Followers, CatchUp(f)
  PROVE  Exact(f)'
<1> DEFINE U == {n \in Rows : Wanted(f, n)}
<1>1. /\ view'[f] = Only(Written, U) /\ queue'[f] = <<>>
      /\ UNCHANGED <<occurred, journal, open, composed>>
  BY DEF CatchUp, Typed, FollowersTyped, Written, logVars, runVars
<1>2. Stream(f)' = Stream(f) /\ Rows' = Rows /\ Written' = Written
  BY <1>1 DEF Stream, Wanted, Members, Rows, Written
<1>3. Written \in Seq(Nat) /\ Rows = ToSet(Written)
  BY RowsWritten DEF Typed
<1>4. Only(Written, U) \in Seq(Nat)
  BY <1>3, OnlyTyped
<1>5. view'[f] \o queue'[f] = Only(Written, U)
  BY <1>1, <1>4
<1>6. \A x \in ToSet(Written) : x \in U \cap (Stream(f) \cap Rows) <=> x \in Stream(f)
  BY <1>3 DEF Stream
<1> HIDE DEF U
<1>7. Only(Only(Written, U), Stream(f) \cap Rows) = Only(Written, U \cap (Stream(f) \cap Rows))
  BY <1>3, OnlyOnly
<1>8. Only(Written, U \cap (Stream(f) \cap Rows)) = Only(Written, Stream(f))
  BY <1>3, <1>6, OnlyAgree
<1> QED
  BY <1>2, <1>5, <1>7, <1>8 DEF Exact

LEMMA FollowerExact ==
  ASSUME BusAssumption, Typed, Seen, TailOfJournal, NEW f \in Followers,
         CatchUp(f) \/ Deliver(f) \/ Leave(f)
  PROVE  Seen' /\ TailOfJournal'
<1>1. UNCHANGED <<occurred, journal, open, composed>> /\ Rows' = Rows /\ Written' = Written
  BY DEF CatchUp, Deliver, Leave, logVars, runVars, Rows, Written
<1>2. ASSUME NEW g \in on, g # f, dropped'[g] = 0
      PROVE  Exact(g)'
  <2>1. view'[g] = view[g] /\ queue'[g] = queue[g] /\ dropped'[g] = dropped[g]
    BY <1>2 DEF CatchUp, Deliver, Leave, Typed, FollowersTyped
  <2>2. Exact(g)
    BY <1>2, <2>1, TailIsExact
  <2> QED
    BY <1>1, <2>1, <2>2, SameStream
<1>3. queue[f] \in Seq(Nat) /\ view[f] \in Seq(Nat) /\ f \in DOMAIN queue /\ f \in DOMAIN view
  BY DEF Typed, FollowersTyped
<1>4. (f \in on' /\ dropped'[f] = 0 => Exact(f)') /\ ToSet(view'[f]) \cup ToSet(queue'[f]) \subseteq DOMAIN occurred
  <2>1. CASE CatchUp(f)
    <3>1. queue'[f] = <<>> /\ view'[f] = Only(Written, {n \in Rows : Wanted(f, n)})
      BY <1>3, <2>1 DEF CatchUp, Typed, FollowersTyped, Written
    <3>2. ToSet(view'[f]) \subseteq Rows
      BY <3>1, RowsWritten, OnlyFrom DEF Typed
    <3> QED
      BY <2>1, <3>1, <3>2, CatchUpExact, TodoEmpty DEF Typed, LogTyped
  <2>2. CASE Deliver(f)
    <3> DEFINE q == queue[f]
               v == view[f]
    <3>1. q # <<>> /\ f \in on /\ dropped' = dropped /\ view'[f] = Append(v, Head(q)) /\ queue'[f] = Tail(q)
      BY <1>3, <2>2 DEF Deliver
    <3>2. v \in Seq(Nat) /\ q \in Seq(Nat) /\ Head(q) \in Nat
      BY <1>3, <3>1
    <3>3. ToSet(v) \cup ToSet(q) \subseteq DOMAIN occurred
      BY DEF Seen
    <3>4. dropped[f] = 0 => Exact(f)
      BY <3>1, TailIsExact
    <3>5. view'[f] \o queue'[f] = view[f] \o queue[f]
      <4> HIDE DEF q, v
      <4>1. Append(v, Head(q)) \o Tail(q) = v \o q
        BY <3>1, <3>2, ConcatTail
      <4> QED
        BY <3>1, <4>1 DEF q, v
    <3> HIDE DEF q, v
    <3>6. ToSet(q) = {Head(q)} \cup ToSet(Tail(q)) /\ ToSet(Append(v, Head(q))) = ToSet(v) \cup {Head(q)}
      BY <3>1, <3>2, HeadDue, AppendSet
    <3>7. dropped[f] = 0 => Exact(f)'
      BY <1>1, <3>4, <3>5, SameStream
    <3> QED
      BY <3>1, <3>3, <3>6, <3>7
  <2>3. CASE Leave(f)
    <3>1. f \notin on' /\ view'[f] = <<>> /\ queue'[f] = <<>>
      BY <1>3, <2>3 DEF Leave
    <3> QED
      BY <3>1, TodoEmpty
  <2> QED
    BY <2>1, <2>2, <2>3
<1>5. on' \subseteq on \cup {f}
  BY DEF CatchUp, Deliver, Leave
<1>6. \A g \in on' : dropped'[g] = 0 => Exact(g)'
  BY <1>2, <1>4, <1>5
<1>7. (\A g \in on : dropped[g] = 0 => Exact(g))'
  BY <1>6
<1>8. TailOfJournal'
  BY <1>7, TailIsExact DEF TailOfJournal, Exact, Stream, Written
<1>9. Seen'
  <2>1. ASSUME NEW g \in Followers, g # f PROVE view'[g] = view[g] /\ queue'[g] = queue[g]
    BY <2>1 DEF CatchUp, Deliver, Leave, Typed, FollowersTyped
  <2> QED
    BY <1>1, <1>4, <2>1 DEF Seen
<1> QED
  BY <1>8, <1>9

LEMMA StepExact ==
  ASSUME BusAssumption, Typed, Seen, TailOfJournal, [Next]_vars
  PROVE  Seen' /\ TailOfJournal'
<1>1. CASE Emit
  BY <1>1, EmitSeen, EmitExact
<1>2. ASSUME NEW f \in Followers, CatchUp(f) \/ Deliver(f) \/ Leave(f) PROVE Seen' /\ TailOfJournal'
  BY <1>2, FollowerExact
<1>3. ASSUME UNCHANGED <<occurred, runVars, subVars>>, Rows' = Rows, Written' = Written
      PROVE  Seen' /\ TailOfJournal'
  <2>1. Seen'
    BY <1>3 DEF Seen, subVars
  <2>2. TailOfJournal'
    <3>1. \A f \in on' : dropped'[f] = 0 => Exact(f)'
      BY <1>3, TailIsExact, SameStream DEF runVars, subVars
    <3>2. (\A f \in on : dropped[f] = 0 => Exact(f))'
      BY <3>1
    <3> QED
      BY <3>2, TailIsExact DEF TailOfJournal, Exact, Stream, Written
  <2> QED
    BY <2>1, <2>2
<1>4. CASE Handler \/ Reset \/ UNCHANGED vars
  <2>1. UNCHANGED <<occurred, journal, open, runVars, subVars>>
    BY <1>4, HandlerFrame DEF Reset, vars, logVars
  <2> QED
    BY <1>3, <2>1 DEF Rows, Written
<1>5. CASE OtherAppend
  BY <1>3, <1>5, OtherAppendDoes DEF Typed, OtherAppend
<1>6. CASE Restart
  <2>1. on' = {} /\ occurred' = occurred /\ \A f \in Followers : view'[f] = <<>> /\ queue'[f] = <<>>
    BY <1>6 DEF Restart
  <2>2. Seen'
    BY <2>1, TodoEmpty DEF Seen
  <2>3. TailOfJournal'
    BY <2>1 DEF TailOfJournal
  <2> QED
    BY <2>2, <2>3
<1> QED
  BY <1>1, <1>2, <1>4, <1>5, <1>6 DEF Next, Handler, JobStep

-----------------------------------------------------------------------------
(* The theorems.                                                           *)

LEMMA Start ==
  ASSUME BusAssumption, Init
  PROVE  Inductive
<1> USE DEF Init
<1>1. Len(<<>>) = 0 /\ DOMAIN <<>> = {} /\ <<>> \in Seq(Nat) /\ <<>> \in Seq(Events)
      /\ <<>> \in Seq(Jobs)
  OBVIOUS
<1>2. Rows = {}
  BY TodoEmpty DEF Rows
<1>3. JobsTyped
  BY <1>1 DEF JobsTyped, Statuses, Places, BusAssumption
<1>4. LogTyped
  BY <1>1, <1>2 DEF LogTyped
<1>5. FollowersTyped
  BY <1>1 DEF FollowersTyped, BusAssumption
<1>6. Seen
  BY TodoEmpty DEF Seen
<1>7. Staged /\ ToldRecorded /\ EndRecorded
  BY DEF Staged, ToldRecorded, EndRecorded
<1>8. Said = <<>>
  BY DEF Said
<1>9. Quiet(Said)
  BY <1>1, <1>8 DEF Quiet
<1>10. LaneOpen
  BY DEF LaneOpen
<1>11. TailOfJournal
  BY DEF TailOfJournal
<1> QED
  BY <1>3, <1>4, <1>5, <1>6, <1>7, <1>9, <1>10, <1>11 DEF Inductive, Typed

LEMMA Step ==
  ASSUME BusAssumption, Inductive, [Next]_vars
  PROVE  Inductive'
BY StepTyped, StepStaged, StepRecorded, StepQuiet, StepExact DEF Inductive

THEOREM Invariance == Spec => []Inductive
<1>1. Init => Inductive
  BY BusAssumption, Start
<1>2. Inductive /\ [Next]_vars => Inductive'
  BY BusAssumption, Step
<1> QED
  BY <1>1, <1>2, PTL DEF Spec

(* Every variable has its type: no queue of a subscriber exceeds           *)
(* SUBSCRIBER_QUEUE_MAXSIZE, the history never exceeds max_history, and    *)
(* every row of the journal is of an emission that there was.              *)
THEOREM TypeCorrect == Spec => []TypeOK
<1>1. Inductive => TypeOK
  BY DEF Inductive, Typed, JobsTyped, LogTyped, FollowersTyped, TypeOK, Statuses, Places
<1> QED
  BY <1>1, Invariance, PTL

(* Between two steps of the event loop, the end that the waiters of a job  *)
(* were told of (_signal_job_completed) is a committed row of the journal, *)
(* or the one whose append raised, whatever crashes there were; only the   *)
(* completion of an ambient job need not be.                               *)
THEOREM WaitersHaveRecord == Spec => []WaiterHasRecord
<1>1. ASSUME Inductive, NEW j \in Jobs, Idle, told[j] # None,
             told[j] # "completed" \/ Class(j, Override[j]) = "full"
      PROVE  \E n \in DOMAIN occurred :
               occurred[n] = Event(j, told[j]) /\ n \in ToSet(journal) \cup broken
  <2>1. Event(j, told[j]) \in Recorded
    BY <1>1, BeforeHandler DEF Inductive, Idle, Needed
  <2> QED
    BY <2>1 DEF Recorded
<1>2. Inductive => WaiterHasRecord
  BY <1>1 DEF WaiterHasRecord
<1> QED
  BY <1>2, Invariance, PTL

(* What a subscriber has read, by query() and then from its queue, and     *)
(* what is waiting in the queue, are together exactly the rows it asked    *)
(* for, each once and in the journal's order, unless _publish_event        *)
(* dropped one and counted it.                                             *)
THEOREM CatchUpIsExact == Spec => []TailOfJournal
<1>1. Inductive => TailOfJournal
  BY DEF Inductive
<1> QED
  BY <1>1, Invariance, PTL

(* _poll_progress and the cooperative phase of a cancellation emit nothing *)
(* of a job whose end has been emitted.                                    *)
THEOREM QuietAfterTheEnd == Spec => []NothingAfterTheEnd
<1>1. Inductive => NothingAfterTheEnd
  BY QuietIsNothing DEF Inductive
<1> QED
  BY <1>1, Invariance, PTL
=============================================================================
