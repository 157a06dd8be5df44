--------------------------- MODULE CompositionsProofs ---------------------------
(***************************************************************************)
(* Theorems about Compositions, for every graph that may be submitted.     *)
(***************************************************************************)
EXTENDS Compositions, FiniteSetTheorems, WellFoundedInduction, TLAPS

-----------------------------------------------------------------------------
(* Loops.  What holds before a loop, and is kept by each of its rounds,    *)
(* holds after it: otherwise take the first round after which it does not. *)

LEMMA Rounds ==
  ASSUME NEW n \in Nat, NEW T, 0 \in T, \A k \in 1 .. n : k - 1 \in T => k \in T
  PROVE  n \in T
<1> DEFINE Bad == {k \in 0 .. n : k \notin T}
<1> SUFFICES ASSUME Bad # {} PROVE FALSE
  OBVIOUS
<1>1. Bad \subseteq Nat
  OBVIOUS
<1> HIDE DEF Bad
<1>2. PICK k \in Bad : \A j \in Bad : ~ (<<j, k>> \in OpToRel(<, Nat))
  BY <1>1, NatLessThanWellFounded, WFMin
<1>3. \A j \in Bad : ~ (j < k)
  BY <1>1, <1>2 DEF OpToRel
<1>4. k \in 0 .. n /\ k \notin T
  BY DEF Bad
<1>5. k # 0 /\ k - 1 \in 0 .. n /\ k \in 1 .. n
  BY <1>4
<1>6. k - 1 \in Bad
  BY <1>4, <1>5 DEF Bad
<1> QED
  BY <1>3, <1>5, <1>6

LEMMA MaxIs ==
  ASSUME NEW k \in Nat, NEW s \in SUBSET (1 .. k), k \in s
  PROVE  Max(s) = k
<1> DEFINE P(x) == x \in s /\ \A y \in s : x >= y
<1>1. P(k)
  OBVIOUS
<1>2. Max(s) = CHOOSE x : P(x)
  BY DEF Max
<1> HIDE DEF P
<1>3. P(Max(s))
  BY <1>1, <1>2
<1>4. Max(s) \in s /\ Max(s) >= k
  BY <1>3 DEF P
<1>5. Max(s) \in 1 .. k
  BY <1>4
<1> QED
  BY <1>4, <1>5

LEMMA MaxIsIn ==
  ASSUME NEW n \in Nat, NEW s \in SUBSET (1 .. n), s # {}
  PROVE  Max(s) \in s
<1> DEFINE T == {k \in 0 .. n : \A r \in SUBSET (1 .. k) : r # {} => Max(r) \in r}
<1>1. 0 \in T
  <2>1. \A r \in SUBSET (1 .. 0) : r # {} => Max(r) \in r
    <3>1. \A r \in SUBSET (1 .. 0) : r = {}
      OBVIOUS
    <3> QED
      BY <3>1, Zenon
  <2>2. 0 \in 0 .. n
    OBVIOUS
  <2> QED
    BY <2>1, <2>2, Zenon
<1>2. ASSUME NEW k \in 1 .. n, k - 1 \in T PROVE k \in T
  <2>1. ASSUME NEW r \in SUBSET (1 .. k), r # {} PROVE Max(r) \in r
    <3>1. CASE k \in r
      BY <3>1, MaxIs
    <3>2. CASE k \notin r
      <4>1. r \in SUBSET (1 .. k - 1)
        BY <3>2
      <4> QED
        BY <1>2, <2>1, <4>1
    <3> QED
      BY <3>1, <3>2
  <2> QED
    BY <2>1
<1> HIDE DEF T
<1>3. n \in T
  BY <1>1, <1>2, Rounds
<1> QED
  BY <1>3 DEF T

(* The loop over a list as FoldLeft computes it: g[1 .. k] is what the     *)
(* first k rounds make of base.                                            *)
Computes(g, n, base, next) ==
  \A s \in SUBSET (1 .. n) :
    g[s] = IF s = {} THEN base ELSE next[<<Max(s), g[s \ {Max(s)}]>>]

LEMMA Folding ==
  ASSUME NEW n \in Nat, NEW C, NEW base \in C, NEW next \in [(1 .. n) \X C -> C]
  PROVE  \E g \in [SUBSET (1 .. n) -> C] : Computes(g, n, base, next)
<1> DEFINE R(g, s) == IF s = {} THEN base ELSE next[<<Max(s), g[s \ {Max(s)}]>>]
           T == {k \in 0 .. n : \E g \in [SUBSET (1 .. k) -> C] :
                                  \A s \in SUBSET (1 .. k) : g[s] = R(g, s)}
<1>1. 0 \in T
  <2> DEFINE g == [s \in SUBSET (1 .. 0) |-> base]
  <2>1. g \in [SUBSET (1 .. 0) -> C] /\ \A s \in SUBSET (1 .. 0) : s = {}
    OBVIOUS
  <2>2. \A s \in SUBSET (1 .. 0) : g[s] = R(g, s)
    BY <2>1
  <2> HIDE DEF g, R
  <2>3. \E f \in [SUBSET (1 .. 0) -> C] : \A s \in SUBSET (1 .. 0) : f[s] = R(f, s)
    BY <2>1, <2>2
  <2>4. 0 \in 0 .. n
    OBVIOUS
  <2> QED
    BY <2>3, <2>4
<1>2. ASSUME NEW k \in 1 .. n, k - 1 \in T PROVE k \in T
  <2>1. PICK g \in [SUBSET (1 .. k - 1) -> C] : \A s \in SUBSET (1 .. k - 1) : g[s] = R(g, s)
    BY <1>2
  <2> DEFINE h == [s \in SUBSET (1 .. k) |-> IF k \in s THEN next[<<k, g[s \ {k}]>>] ELSE g[s]]
  <2>2. \A s \in SUBSET (1 .. k) : /\ s \ {k} \in SUBSET (1 .. k - 1)
                                   /\ k \notin s => s \in SUBSET (1 .. k - 1)
    OBVIOUS
  <2>3. h \in [SUBSET (1 .. k) -> C]
    BY <2>2
  <2>4. ASSUME NEW s \in SUBSET (1 .. k) PROVE h[s] = R(h, s)
    <3>1. CASE k \in s
      <4>1. Max(s) = k
        BY <3>1, MaxIs
      <4>2. h[s \ {k}] = g[s \ {k}]
        BY <2>2
      <4>3. h[s] = next[<<k, g[s \ {k}]>>] /\ s # {}
        BY <3>1
      <4> HIDE DEF h
      <4> QED
        BY <4>1, <4>2, <4>3
    <3>2. CASE k \notin s
      <4> DEFINE t == s \ {Max(s)}
      <4>1. s \in SUBSET (1 .. k - 1) /\ t \in SUBSET (1 .. k) /\ k \notin t
        BY <2>2, <3>2
      <4>2. h[s] = g[s] /\ h[t] = g[t]
        BY <3>2, <4>1
      <4> HIDE DEF h
      <4> QED
        BY <2>1, <4>1, <4>2
    <3> QED
      BY <3>1, <3>2
  <2> HIDE DEF h, R
  <2>5. \E f \in [SUBSET (1 .. k) -> C] : \A s \in SUBSET (1 .. k) : f[s] = R(f, s)
    BY <2>3, <2>4
  <2>6. k \in 0 .. n
    OBVIOUS
  <2> QED
    BY <2>5, <2>6
<1> HIDE DEF T
<1>3. n \in T
  BY <1>1, <1>2, Rounds
<1> QED
  BY <1>3 DEF T, Computes

LEMMA Prefix ==
  ASSUME NEW n \in Nat, NEW k \in 1 .. n
  PROVE  /\ 1 .. k \in SUBSET (1 .. n) /\ 1 .. k # {} /\ 1 .. 0 = {}
         /\ Max(1 .. k) = k /\ (1 .. k) \ {k} = 1 .. k - 1
<1>1. 1 .. k \in SUBSET (1 .. n) /\ 1 .. k # {} /\ 1 .. 0 = {}
  OBVIOUS
<1>2. Max(1 .. k) = k
  BY MaxIs
<1>3. (1 .. k) \ {k} = 1 .. k - 1
  OBVIOUS
<1> QED
  BY <1>1, <1>2, <1>3

-----------------------------------------------------------------------------
(* Types.                                                                  *)

Over == {"completed", "failed", "cancelled"}
NodeStates == {"none", "pending", "running"} \cup TerminalNode
JobStates == {"none", "pending", "running", "completed", "failed", "cancelled"}
Lanes == {"off", "popped", "executing", "closing"}

(* What the advancement functions take and return.                         *)
Partial == [status : {"none", "running"} \cup Over, node : [Nodes -> NodeStates],
            job : [Nodes -> JobStates], heap : SUBSET Nodes]

(* A composition that was let in.                                          *)
Accepted ==
  /\ comp.order \in Seq(Nodes) /\ IsInjective(comp.order)
  /\ \A n \in Members : comp.deps[n] \subseteq Members

Context == Accepted /\ failFast \in BOOLEAN /\ cancelled \in BOOLEAN

LEMMA MembersAreNodes == comp.order \in Seq(Nodes) => Members \subseteq Nodes
BY DEF Members, ToSet

LEMMA RecordTyped ==
  ASSUME NEW c \in Partial, NEW n \in Nodes, NEW s \in NodeStates
  PROVE  /\ record_result(c, n, s) \in Partial
         /\ record_result(c, n, s).node = [c.node EXCEPT ![n] = s]
         /\ record_result(c, n, s).status = c.status
         /\ record_result(c, n, s).job = c.job
         /\ record_result(c, n, s).heap = c.heap
BY DEF Partial, record_result

LEMMA SkipTyped ==
  ASSUME NEW c \in Partial, NEW n
  PROVE  LET d == skip_dependents(c, n) IN
         /\ d \in Partial /\ d.status = c.status /\ d.job = c.job /\ d.heap = c.heap
         /\ \A m \in Nodes : \/ d.node[m] = c.node[m]
                             \/ c.node[m] = "pending" /\ d.node[m] = "skipped"
BY DEF Partial, skip_dependents, NodeStates, TerminalNode

LEMMA FinalizeTyped ==
  ASSUME NEW c \in Partial
  PROVE  LET d == maybe_finalize(c) IN
         /\ d \in Partial /\ d.node = c.node /\ d.job = c.job /\ d.heap = c.heap
         /\ \/ d.status = c.status
            \/ /\ c.status = "running" /\ all_terminal(c)
               /\ d.status = derive_terminal_status(c) /\ d.status \in Over
<1>1. derive_terminal_status(c) \in Over
  BY DEF derive_terminal_status, Over
<1> QED
  BY <1>1 DEF Partial, maybe_finalize

LEMMA CancelTyped ==
  ASSUME NEW c \in Partial
  PROVE  LET live == {n \in Nodes : c.node[n] = "running" /\ c.job[n] = "pending"}
             d == cancel_pending_members(c)
         IN
         /\ d \in Partial
         /\ d.node = [n \in Nodes |-> IF c.node[n] = "pending" \/ n \in live
                                     THEN "cancelled" ELSE c.node[n]]
         /\ d.job = [n \in Nodes |-> IF n \in live THEN "cancelled" ELSE c.job[n]]
         /\ d.heap = c.heap \ live
         /\ \/ d.status = c.status
            \/ /\ c.status = "running" /\ all_terminal([c EXCEPT !.node = d.node])
               /\ d.status = derive_terminal_status([c EXCEPT !.node = d.node])
               /\ d.status \in Over
<1> DEFINE live == {n \in Nodes : c.node[n] = "running" /\ c.job[n] = "pending"}
           N == [n \in Nodes |-> IF c.node[n] = "pending" \/ n \in live
                                 THEN "cancelled" ELSE c.node[n]]
           J == [n \in Nodes |-> IF n \in live THEN "cancelled" ELSE c.job[n]]
           e == [c EXCEPT !.node = N, !.job = J, !.heap = c.heap \ live]
<1>1. N \in [Nodes -> NodeStates] /\ J \in [Nodes -> JobStates] /\ c.heap \ live \subseteq Nodes
  BY DEF Partial, NodeStates, TerminalNode, JobStates
<1>2. cancel_pending_members(c) = IF live = {} THEN e ELSE maybe_finalize(e)
  BY DEF cancel_pending_members, Partial
<1> HIDE DEF N, J, live
<1>3. /\ e \in Partial /\ e.node = N /\ e.job = J /\ e.heap = c.heap \ live
      /\ e.status = c.status /\ [c EXCEPT !.node = N].node = N
  BY <1>1 DEF Partial
<1>4. /\ all_terminal(e) <=> all_terminal([c EXCEPT !.node = N])
      /\ derive_terminal_status(e) = derive_terminal_status([c EXCEPT !.node = N])
  BY <1>3 DEF all_terminal, derive_terminal_status
<1> HIDE DEF e
<1>5. LET d == cancel_pending_members(c) IN
      /\ d \in Partial /\ d.node = N /\ d.job = J /\ d.heap = c.heap \ live
      /\ \/ d.status = c.status
         \/ /\ c.status = "running" /\ all_terminal([c EXCEPT !.node = N])
            /\ d.status = derive_terminal_status([c EXCEPT !.node = N])
            /\ d.status \in Over
  BY <1>2, <1>3, <1>4, FinalizeTyped
<1> QED
  BY <1>5 DEF N, J, live

LEMMA PoisonTyped ==
  ASSUME NEW c \in Partial, NEW n
  PROVE  Poison(c, n) \in Partial
BY SkipTyped, CancelTyped DEF Poison

LEMMA StartTyped ==
  ASSUME NEW c \in Partial, NEW n \in Nodes, NEW broken
  PROVE  start_node(c, n, broken) \in Partial
<1>1. "failed" \in NodeStates
  BY DEF NodeStates, TerminalNode
<1>2. record_result(c, n, "failed") \in Partial
  BY <1>1, RecordTyped
<1>3. [c EXCEPT !.node[n] = "running", !.job[n] = "pending", !.heap = @ \cup {n}] \in Partial
  BY DEF Partial, NodeStates, JobStates
<1> QED
  BY <1>2, <1>3, PoisonTyped DEF start_node

-----------------------------------------------------------------------------
(* What the records agree on.  o are members a scan took out of the heap   *)
(* and has not failed yet, l the lanes as the step leaves them.            *)

Fits(c, l, o, n) ==
  /\ c.node[n] = "none" <=> n \notin Members
  /\ c.node[n] \in {"none", "pending"} => c.job[n] = "none"
  /\ c.node[n] = "running" => n \in (c.heap \cup o) \/ l[n] # "off"
  /\ c.node[n] = "completed" => c.job[n] = "completed"
  /\ c.job[n] = "none" => n \notin (c.heap \cup o) /\ l[n] = "off"
  /\ c.job[n] = "pending" => /\ c.node[n] = "running"
                             /\ n \in (c.heap \cup o) \/ l[n] = "popped"
  /\ c.job[n] = "running" <=> l[n] = "executing"
  /\ n \in c.heap => c.job[n] = "pending" /\ l[n] = "off" /\ n \notin o
  /\ n \in o => /\ c.job[n] \in {"pending", "cancelled"} /\ l[n] = "off"
                /\ c.node[n] \in {"running", "cancelled"}
  /\ l[n] # "off" => c.node[n] \in {"running", "cancelled"}
  /\ l[n] = "popped" => c.job[n] \in {"pending", "cancelled"}
  /\ l[n] = "closing" => c.job[n] \in Over

(* The verdict agrees with the members, those revived after it included.   *)
Verdict(c) ==
  /\ c.status # "none"
  /\ cancelled => c.status \in {"running", "cancelled"}
  /\ c.status = "failed" => failFast
  /\ c.status = "completed" =>
       \A n \in Members : /\ c.node[n] \in {"completed", "failed", "skipped"}
                          /\ failFast => c.node[n] # "failed"
  /\ c.status \in Over /\ ~ failFast => \A n \in Members : c.node[n] \in TerminalNode

Produced(c) ==
  \A n \in Nodes : c.job[n] # "none" => \A d \in comp.deps[n] : c.node[d] = "completed"

Sound(c, l, o) ==
  /\ c \in Partial /\ l \in [Nodes -> Lanes]
  /\ \A n \in Nodes : Fits(c, l, o, n)
  /\ Verdict(c)
  /\ Produced(c)

(* Before the submit.                                                      *)
Fresh ==
  /\ status = "none" /\ ~ cancelled /\ heap = {}
  /\ job = [n \in Nodes |-> "none"] /\ lane = [n \in Nodes |-> "off"]
  /\ node = [n \in Nodes |-> IF n \in Members THEN "pending" ELSE "none"]

Consistent ==
  /\ comp \in Submissions /\ failFast \in BOOLEAN /\ cancelled \in BOOLEAN
  /\ asked \subseteq Nodes
  /\ Fresh \/ (Accepted /\ Sound(Here, lane, {}))

(* How a step of the advancement may change what it was given.             *)
Later(c, d) ==
  /\ \/ d.status = c.status
     \/ failFast /\ c.status = "running" /\ d.status \in {"failed", "cancelled"}
  /\ \A n \in Nodes : c.node[n] = "completed" => d.node[n] = "completed"
  /\ \A n \in Nodes : c.job[n] = "none" => d.job[n] = "none"

(* A member whose job has ended and whose node does not say so yet.        *)
Leaving(c, l, o, n) ==
  /\ c \in Partial /\ l \in [Nodes -> Lanes]
  /\ n \in Members /\ n \notin (c.heap \cup o)
  /\ c.node[n] \in {"running", "cancelled"} /\ c.job[n] \in Over
  /\ l[n] = "off" \/ (l[n] = "popped" /\ c.job[n] = "cancelled")
  /\ \A m \in Nodes \ {n} : Fits(c, l, o, m)
  /\ Verdict(c)
  /\ Produced(c)

LEMMA LaterIsTransitive ==
  ASSUME NEW c, NEW d, NEW e, Later(c, d), Later(d, e)
  PROVE  Later(c, e)
BY DEF Later

LEMMA RecordSound ==
  ASSUME Context, NEW c, NEW l, NEW o, NEW n \in Nodes, Leaving(c, l, o, n)
  PROVE  LET d == record_result(c, n, c.job[n]) IN
         Sound(d, l, o) /\ d.status = c.status /\ d.job = c.job /\ d.node[n] = c.job[n]
<1> DEFINE s == c.job[n]
           d == record_result(c, n, s)
<1>1. s \in NodeStates /\ s \in Over /\ c \in Partial
  BY DEF Leaving, Over, NodeStates, TerminalNode
<1> HIDE DEF s
<1>2. /\ d \in Partial /\ d.node = [c.node EXCEPT ![n] = s] /\ d.status = c.status
      /\ d.job = c.job /\ d.heap = c.heap
  BY <1>1, RecordTyped
<1> HIDE DEF d
<1>3. /\ d.node[n] = s /\ d.job[n] = s /\ c.node \in [Nodes -> NodeStates]
      /\ \A m \in Nodes \ {n} : d.node[m] = c.node[m]
  BY <1>1, <1>2 DEF Partial, s
<1>4. ASSUME NEW m \in Nodes PROVE Fits(d, l, o, m)
  <2>1. CASE m = n
    BY <1>1, <1>2, <1>3, <2>1 DEF Fits, Leaving, Over
  <2>2. CASE m # n
    BY <1>2, <1>3, <2>2 DEF Fits, Leaving
  <2> QED
    BY <2>1, <2>2
<1>5. Verdict(d)
  BY <1>1, <1>2, <1>3, MembersAreNodes DEF Verdict, Leaving, Over, TerminalNode, Context, Accepted
<1>6. Produced(d)
  BY <1>2, <1>3, MembersAreNodes DEF Produced, Leaving, Context, Accepted, Fits
<1>7. Sound(d, l, o)
  BY <1>2, <1>4, <1>5, <1>6 DEF Sound, Leaving
<1> QED
  BY <1>2, <1>3, <1>7 DEF d, s

LEMMA SkipSound ==
  ASSUME Context, NEW c, NEW l, NEW o, NEW n \in Nodes, Sound(c, l, o)
  PROVE  LET d == skip_dependents(c, n) IN
         /\ Sound(d, l, o) /\ d.status = c.status /\ Later(c, d)
         /\ \A m \in Nodes : c.node[m] \in {"failed", "cancelled"} => d.node[m] = c.node[m]
<1> DEFINE d == skip_dependents(c, n)
<1>1. /\ d \in Partial /\ d.status = c.status /\ d.job = c.job /\ d.heap = c.heap
      /\ \A m \in Nodes : \/ d.node[m] = c.node[m]
                          \/ c.node[m] = "pending" /\ d.node[m] = "skipped"
  BY SkipTyped DEF Sound
<1> HIDE DEF d
<1>2. ASSUME NEW m \in Nodes PROVE Fits(d, l, o, m)
  BY <1>1 DEF Fits, Sound
<1>3. Verdict(d)
  BY <1>1, MembersAreNodes DEF Verdict, Sound, TerminalNode, Context, Accepted
<1>4. Produced(d)
  BY <1>1, MembersAreNodes DEF Produced, Sound, Fits, Context, Accepted
<1>5. Later(c, d)
  BY <1>1 DEF Later
<1> QED
  BY <1>1, <1>2, <1>3, <1>4, <1>5 DEF Sound, d


LEMMA DeriveIs ==
  ASSUME NEW c
  PROVE  derive_terminal_status(c) =
           IF cancelled THEN "cancelled"
           ELSE IF failFast /\ \E n \in Nodes : c.node[n] = "failed" THEN "failed"
           ELSE IF \E n \in Nodes : c.node[n] = "cancelled" THEN "cancelled"
           ELSE "completed"
BY DEF derive_terminal_status

(* A verdict given when every member has ended is one the members bear out. *)
LEMMA DeriveSound ==
  ASSUME Context, NEW c, NEW s, NEW d, all_terminal(c),
         d.status = derive_terminal_status(c), d.node = c.node
  PROVE  Verdict(d)
<1>1. d.status \in Over
  BY DeriveIs DEF Over
<1>2. \A n \in Members : n \in Nodes /\ d.node[n] \in TerminalNode
  BY MembersAreNodes DEF all_terminal, Context, Accepted
<1>3. d.status = "completed" =>
        \A n \in Nodes : d.node[n] # "cancelled" /\ (failFast => d.node[n] # "failed")
  BY DeriveIs
<1>4. /\ cancelled => d.status = "cancelled"
      /\ d.status = "failed" => failFast
  BY DeriveIs
<1> QED
  BY <1>1, <1>2, <1>3, <1>4 DEF Verdict, Over, TerminalNode

LEMMA FinalizeSound ==
  ASSUME Context, NEW c, NEW l, NEW o, Sound(c, l, o)
  PROVE  LET d == maybe_finalize(c) IN
         Sound(d, l, o) /\ (c.status \in Over => d.status = c.status)
<1> DEFINE d == maybe_finalize(c)
<1>1. /\ d \in Partial /\ d.node = c.node /\ d.job = c.job /\ d.heap = c.heap
      /\ \/ d.status = c.status
         \/ /\ c.status = "running" /\ all_terminal(c)
            /\ d.status = derive_terminal_status(c) /\ d.status \in Over
  BY FinalizeTyped DEF Sound
<1> HIDE DEF d
<1>2. Verdict(d)
  BY <1>1, DeriveSound DEF Verdict, Sound
<1>3. (\A n \in Nodes : Fits(d, l, o, n)) /\ Produced(d)
  BY <1>1 DEF Fits, Produced, Sound
<1>4. Sound(d, l, o)
  BY <1>1, <1>2, <1>3 DEF Sound
<1> QED
  BY <1>1, <1>4 DEF Over, d

LEMMA CancelSound ==
  ASSUME Context, NEW c, NEW l, NEW o, Sound(c, l, o), failFast, ~ cancelled,
         NEW n \in Nodes, c.node[n] \in {"failed", "cancelled"}
  PROVE  LET d == cancel_pending_members(c) IN Sound(d, l, o) /\ Later(c, d)
<1> DEFINE live == {m \in Nodes : c.node[m] = "running" /\ c.job[m] = "pending"}
           d == cancel_pending_members(c)
           N == [m \in Nodes |-> IF c.node[m] = "pending" \/ m \in live
                                 THEN "cancelled" ELSE c.node[m]]
           e == [c EXCEPT !.node = N]
<1>1. /\ d \in Partial /\ d.node = N
      /\ d.job = [m \in Nodes |-> IF m \in live THEN "cancelled" ELSE c.job[m]]
      /\ d.heap = c.heap \ live
      /\ \/ d.status = c.status
         \/ /\ c.status = "running" /\ all_terminal(e)
            /\ d.status = derive_terminal_status(e) /\ d.status \in Over
  BY CancelTyped DEF Sound
<1>2. e.node = N
  BY DEF Sound, Partial
<1> HIDE DEF d, e
<1>3. ASSUME NEW m \in Nodes PROVE Fits(d, l, o, m)
  BY <1>1 DEF Fits, Sound
<1>4. c.status # "completed"
  BY DEF Sound, Verdict, Fits
<1>5. d.status # c.status => c.status = "running" /\ d.status \in {"failed", "cancelled"}
  <2>1. N[n] \in {"failed", "cancelled"}
    OBVIOUS
  <2> QED
    BY <1>1, <1>2, <2>1, DeriveIs
<1>6. Verdict(d)
  BY <1>1, <1>2, <1>4, <1>5, DeriveSound DEF Verdict, Sound
<1>7. Produced(d)
  BY <1>1, MembersAreNodes DEF Produced, Sound, Fits, Context, Accepted
<1>8. Later(c, d)
  BY <1>1, <1>5 DEF Later
<1> QED
  BY <1>1, <1>3, <1>6, <1>7, <1>8 DEF Sound, d

LEMMA PoisonSound ==
  ASSUME Context, NEW c, NEW l, NEW o, Sound(c, l, o),
         NEW n \in Nodes, c.node[n] \in {"failed", "cancelled"}
  PROVE  Sound(Poison(c, n), l, o) /\ Later(c, Poison(c, n))
<1> DEFINE d == skip_dependents(c, n)
<1>1. /\ Sound(d, l, o) /\ Later(c, d)
      /\ d.node[n] \in {"failed", "cancelled"}
  BY SkipSound
<1>2. CASE failFast /\ ~ cancelled
  <2>1. Sound(cancel_pending_members(d), l, o) /\ Later(d, cancel_pending_members(d))
    BY <1>1, <1>2, CancelSound
  <2> QED
    BY <1>1, <1>2, <2>1, LaterIsTransitive DEF Poison
<1>3. CASE ~ (failFast /\ ~ cancelled)
  BY <1>1, <1>3 DEF Poison
<1> QED
  BY <1>2, <1>3

-----------------------------------------------------------------------------
(* The loops.                                                              *)

(* One ready node: r is what the list was made from, c what the nodes      *)
(* before it in the list have left.                                        *)
LEMMA StartSound ==
  ASSUME Context, NEW r, NEW c, NEW l, NEW o, NEW b, Sound(r, l, o), Sound(c, l, o),
         NEW n \in Nodes, n \in ready_nodes(r), c.job[n] = "none",
         \/ c.status = r.status
         \/ failFast /\ r.status = "running" /\ c.status \in {"failed", "cancelled"},
         \A m \in Nodes : r.node[m] = "completed" => c.node[m] = "completed"
  PROVE  LET d == start_node(c, n, b) IN
         /\ Sound(d, l, o)
         /\ \/ d.status = c.status
            \/ failFast /\ c.status = "running" /\ d.status \in {"failed", "cancelled"}
         /\ \A m \in Nodes : c.node[m] = "completed" => d.node[m] = "completed"
         /\ \A m \in Nodes \ {n} : c.job[m] = "none" => d.job[m] = "none"
<1>1. /\ c \in Partial /\ n \in Members /\ r.node[n] = "pending" /\ Members \subseteq Nodes
      /\ \A x \in comp.deps[n] : r.node[x] = "completed" /\ x \in Nodes /\ x # n
  BY MembersAreNodes DEF Sound, ready_nodes, Context, Accepted
<1>2. /\ c.status # "completed" /\ c.node[n] # "completed"
      /\ c.status \in Over => failFast
  BY <1>1 DEF Sound, Verdict, Fits, Over, TerminalNode
<1>3. CASE n \in b
  <2> DEFINE d == record_result(c, n, "failed")
  <2>0. "failed" \in NodeStates
    BY DEF NodeStates, TerminalNode
  <2>1. /\ d \in Partial /\ d.node = [c.node EXCEPT ![n] = "failed"] /\ d.status = c.status
        /\ d.job = c.job /\ d.heap = c.heap
    BY <1>1, <2>0, RecordTyped
  <2> HIDE DEF d
  <2>2. d.node[n] = "failed" /\ \A m \in Nodes \ {n} : d.node[m] = c.node[m]
    BY <1>1, <2>1 DEF Partial
  <2>3. ASSUME NEW m \in Nodes PROVE Fits(d, l, o, m)
    <3>1. CASE m = n
      BY <1>1, <2>1, <2>2, <3>1 DEF Fits, Sound
    <3>2. CASE m # n
      BY <2>1, <2>2, <3>2 DEF Fits, Sound
    <3> QED
      BY <3>1, <3>2
  <2>4. Verdict(d)
    BY <1>2, <2>1 DEF Verdict, Sound
  <2>5. Produced(d)
    BY <1>1, <1>2, <2>1, <2>2, MembersAreNodes DEF Produced, Sound, Fits, Context, Accepted
  <2>6. Sound(d, l, o)
    BY <2>1, <2>3, <2>4, <2>5 DEF Sound
  <2>7. Sound(Poison(d, n), l, o) /\ Later(d, Poison(d, n))
    BY <2>2, <2>6, PoisonSound
  <2>8. start_node(c, n, b) = Poison(d, n)
    BY <1>3 DEF start_node, d
  <2> QED
    BY <1>2, <2>1, <2>2, <2>7, <2>8 DEF Later
<1>4. CASE n \notin b
  <2> DEFINE d == start_node(c, n, b)
  <2>1. /\ d \in Partial /\ d.node = [c.node EXCEPT ![n] = "running"] /\ d.status = c.status
        /\ d.job = [c.job EXCEPT ![n] = "pending"] /\ d.heap = c.heap \cup {n}
    BY <1>1, <1>4, StartTyped DEF start_node, Partial
  <2> HIDE DEF d
  <2>2. /\ d.node[n] = "running" /\ d.job[n] = "pending"
        /\ \A m \in Nodes \ {n} : d.node[m] = c.node[m] /\ d.job[m] = c.job[m]
    BY <1>1, <2>1 DEF Partial
  <2>3. ASSUME NEW m \in Nodes PROVE Fits(d, l, o, m)
    <3>1. CASE m = n
      BY <1>1, <2>1, <2>2, <3>1 DEF Fits, Sound
    <3>2. CASE m # n
      BY <2>1, <2>2, <3>2 DEF Fits, Sound
    <3> QED
      BY <3>1, <3>2
  <2>4. Verdict(d)
    BY <1>2, <2>1 DEF Verdict, Sound
  <2>5. ASSUME NEW m \in Nodes, d.job[m] # "none", NEW x \in comp.deps[m]
        PROVE  d.node[x] = "completed"
    <3>1. CASE m = n
      BY <1>1, <2>2, <2>5, <3>1
    <3>2. CASE m # n
      <4>1. c.node[x] = "completed" /\ m \in Members
        BY <2>2, <2>5, <3>2 DEF Sound, Produced, Fits
      <4>2. x \in Nodes \ {n}
        BY <1>1, <1>2, <4>1 DEF Context, Accepted
      <4> QED
        BY <2>2, <4>1, <4>2
    <3> QED
      BY <3>1, <3>2
  <2>6. Sound(d, l, o)
    BY <2>1, <2>3, <2>4, <2>5 DEF Sound, Produced
  <2> QED
    BY <1>2, <2>1, <2>2, <2>6 DEF d
<1> QED
  BY <1>3, <1>4

(* start_ready_nodes, round by round: f[1 .. k] is what the first k nodes  *)
(* of the composition leave.                                               *)
LEMMA StartLoop ==
  ASSUME Context, NEW r \in Partial, NEW b
  PROVE  \E f : /\ start_ready_nodes(r, b) = f[1 .. Len(comp.order)]
                /\ f[1 .. 0] = r
                /\ \A k \in 1 .. Len(comp.order) :
                     f[1 .. k] = IF comp.order[k] \in ready_nodes(r)
                                   THEN start_node(f[1 .. k - 1], comp.order[k], b)
                                   ELSE f[1 .. k - 1]
<1> DEFINE q == comp.order
           n == Len(q)
           R == ready_nodes(r)
           start(d, m) == IF m \in R THEN start_node(d, m, b) ELSE d
           next == [p \in (1 .. n) \X Partial |-> start(p[2], q[p[1]])]
           P(f) == f = [s \in SUBSET DOMAIN q |-> IF s = {} THEN r
                                                 ELSE start(f[s \ {Max(s)}], q[Max(s)])]
           h == CHOOSE f : P(f)
<1>1. q \in Seq(Nodes) /\ n \in Nat /\ DOMAIN q = 1 .. n
  BY DEF Context, Accepted
<1>2. start_ready_nodes(r, b) = h[DOMAIN q]
  BY DEF start_ready_nodes, FoldLeft, MapThenFoldSet
<1>3. \A d \in Partial, k \in 1 .. n : start(d, q[k]) \in Partial
  BY <1>1, StartTyped
<1> HIDE DEF start, q, n
<1>4. next \in [(1 .. n) \X Partial -> Partial]
  BY <1>3
<1> HIDE DEF next
<1>5. PICK g \in [SUBSET (1 .. n) -> Partial] :
        Computes(g, n, r, next)
  BY <1>1, <1>4, Folding
<1>6. ASSUME NEW s \in SUBSET (1 .. n), s # {}
      PROVE  next[<<Max(s), g[s \ {Max(s)}]>>] = start(g[s \ {Max(s)}], q[Max(s)])
  <2>1. Max(s) \in 1 .. n /\ g[s \ {Max(s)}] \in Partial
    BY <1>1, <1>6, MaxIsIn
  <2> QED
    BY <2>1 DEF next
<1>7. g = [s \in SUBSET (1 .. n) |-> IF s = {} THEN r
                                     ELSE start(g[s \ {Max(s)}], q[Max(s)])]
  BY <1>5, <1>6 DEF Computes
<1>8. P(g)
  BY <1>1, <1>7
<1> HIDE DEF P
<1>9. P(h)
  BY <1>8
<1>10. h = [s \in SUBSET (1 .. n) |-> IF s = {} THEN r
                                      ELSE start(h[s \ {Max(s)}], q[Max(s)])]
  BY <1>1, <1>9 DEF P
<1> HIDE DEF h
<1>11. h[1 .. 0] = r
  BY <1>10
<1>12. ASSUME NEW k \in 1 .. n PROVE h[1 .. k] = start(h[1 .. k - 1], q[k])
  <2>1. /\ 1 .. k \in SUBSET (1 .. n) /\ 1 .. k # {}
        /\ Max(1 .. k) = k /\ (1 .. k) \ {k} = 1 .. k - 1
    BY <1>1, Prefix
  <2> QED
    BY <1>10, <2>1
<1>13. start_ready_nodes(r, b) = h[1 .. n]
  BY <1>1, <1>2
<1> QED
  BY <1>11, <1>12, <1>13 DEF start, n, q

LEMMA StartAllSound ==
  ASSUME Context, NEW r, NEW l, NEW o, NEW b, Sound(r, l, o)
  PROVE  LET d == start_ready_nodes(r, b) IN
         Sound(d, l, o) /\ (r.status \in Over => d.status = r.status)
<1> DEFINE q == comp.order
           n == Len(q)
<1>1. q \in Seq(Nodes) /\ n \in Nat /\ DOMAIN q = 1 .. n /\ IsInjective(q)
  BY DEF Context, Accepted
<1>2. PICK f : /\ start_ready_nodes(r, b) = f[1 .. n]
               /\ f[1 .. 0] = r
               /\ \A k \in 1 .. n :
                    f[1 .. k] = IF q[k] \in ready_nodes(r)
                                  THEN start_node(f[1 .. k - 1], q[k], b)
                                  ELSE f[1 .. k - 1]
  BY StartLoop DEF Sound
<1> DEFINE Kept(k) ==
             /\ Sound(f[1 .. k], l, o)
             /\ \/ f[1 .. k].status = r.status
                \/ /\ failFast /\ r.status = "running"
                   /\ f[1 .. k].status \in {"failed", "cancelled"}
             /\ \A m \in Nodes : r.node[m] = "completed" => f[1 .. k].node[m] = "completed"
             /\ \A m \in Nodes : r.job[m] = "none" /\ (\A i \in 1 .. k : q[i] # m)
                                 => f[1 .. k].job[m] = "none"
           T == {k \in 0 .. n : Kept(k)}
<1> HIDE DEF q, n
<1>3. 0 \in T
  BY <1>1, <1>2
<1>4. ASSUME NEW k \in 1 .. n, k - 1 \in T PROVE k \in T
  <2> DEFINE c == f[1 .. k - 1]
             d == f[1 .. k]
             m == q[k]
  <2>1. m \in Nodes /\ Kept(k - 1)
    BY <1>1, <1>4
  <2>2. CASE m \in ready_nodes(r)
    <3>1. d = start_node(c, m, b)
      BY <1>2, <2>2
    <3>2. r.job[m] = "none"
      BY <2>1, <2>2 DEF ready_nodes, Sound, Fits
    <3>3. \A i \in 1 .. k - 1 : q[i] # m
      BY <1>1 DEF IsInjective
    <3>4. c.job[m] = "none"
      BY <2>1, <3>2, <3>3
    <3> HIDE DEF m, c, d
    <3>5. /\ Sound(c, l, o) /\ m \in Nodes
          /\ \/ c.status = r.status
             \/ failFast /\ r.status = "running" /\ c.status \in {"failed", "cancelled"}
          /\ \A i \in Nodes : r.node[i] = "completed" => c.node[i] = "completed"
      BY <2>1 DEF c
    <3>6. /\ Sound(d, l, o)
          /\ \/ d.status = c.status
             \/ failFast /\ c.status = "running" /\ d.status \in {"failed", "cancelled"}
          /\ \A i \in Nodes : c.node[i] = "completed" => d.node[i] = "completed"
          /\ \A i \in Nodes \ {m} : c.job[i] = "none" => d.job[i] = "none"
      BY <2>2, <3>1, <3>4, <3>5, StartSound
    <3>7. \A i \in Nodes : r.job[i] = "none" /\ (\A j \in 1 .. k : q[j] # i)
                           => d.job[i] = "none"
      <4> SUFFICES ASSUME NEW i \in Nodes, r.job[i] = "none", \A j \in 1 .. k : q[j] # i
                   PROVE  d.job[i] = "none"
        OBVIOUS
      <4>1. i # m /\ \A j \in 1 .. k - 1 : q[j] # i
        BY <1>1 DEF m
      <4>2. c.job[i] = "none"
        BY <2>1, <4>1 DEF c
      <4> QED
        BY <3>6, <4>1, <4>2
    <3>8. Kept(k)
      BY <3>5, <3>6, <3>7 DEF d
    <3> QED
      BY <1>1, <3>8
  <2>3. CASE m \notin ready_nodes(r)
    <3>1. d = c
      BY <1>2, <2>3
    <3>2. \A i : (\A j \in 1 .. k : q[j] # i) => (\A j \in 1 .. k - 1 : q[j] # i)
      BY <1>1
    <3>3. Kept(k)
      BY <2>1, <3>1, <3>2
    <3> QED
      BY <1>1, <3>3
  <2> QED
    BY <2>2, <2>3
<1>5. n \in T
  <2> HIDE DEF T
  <2> QED
    BY <1>1, <1>3, <1>4, Rounds
<1> QED
  BY <1>2, <1>5 DEF Over

LEMMA AdvanceSound ==
  ASSUME Context, NEW c, NEW l, NEW o, NEW n \in Nodes, NEW b, Leaving(c, l, o, n)
  PROVE  LET d == advance_composition(c, n, b) IN
         Sound(d, l, o) /\ (c.status \in Over => d.status = c.status)
<1> DEFINE r == record_result(c, n, c.job[n])
           e == IF c.job[n] = "completed" THEN start_ready_nodes(r, b) ELSE Poison(r, n)
<1>1. /\ Sound(r, l, o) /\ r.status = c.status /\ r.node[n] = c.job[n]
      /\ c.job[n] \in Over
  BY RecordSound DEF Leaving
<1>2. advance_composition(c, n, b) = maybe_finalize(e)
  BY DEF advance_composition
<1>3. Sound(e, l, o) /\ (c.status \in Over => e.status = c.status)
  <2> HIDE DEF r
  <2>1. CASE c.job[n] = "completed"
    BY <1>1, <2>1, StartAllSound
  <2>2. CASE c.job[n] # "completed"
    <3>1. r.node[n] \in {"failed", "cancelled"}
      BY <1>1, <2>2 DEF Over
    <3> QED
      BY <1>1, <2>2, <3>1, PoisonSound DEF Later, Over
  <2> QED
    BY <2>1, <2>2
<1> HIDE DEF e
<1>4. /\ Sound(maybe_finalize(e), l, o)
      /\ e.status \in Over => maybe_finalize(e).status = e.status
  BY <1>3, FinalizeSound
<1> QED
  BY <1>2, <1>3, <1>4

LEMMA FailTyped ==
  ASSUME NEW c \in Partial, NEW n \in Nodes
  PROVE  fail_member(c, n) \in Partial
<1> DEFINE e == [c EXCEPT !.job[n] = "failed"]
           r == record_result(e, n, "failed")
<1>1. "failed" \in NodeStates /\ "failed" \in JobStates
  BY DEF NodeStates, TerminalNode, JobStates
<1>2. e \in Partial /\ e.job[n] = "failed"
  BY <1>1 DEF Partial
<1>3. fail_member(c, n) = maybe_finalize(Poison(r, n))
  BY <1>2 DEF fail_member, advance_composition
<1> HIDE DEF e
<1>4. r \in Partial
  BY <1>1, <1>2, RecordTyped
<1> HIDE DEF r
<1> QED
  BY <1>3, <1>4, PoisonTyped, FinalizeTyped

LEMMA FailSound ==
  ASSUME Context, NEW c, NEW l, NEW o, NEW n \in Nodes, Sound(c, l, o), n \in o
  PROVE  LET d == fail_member(c, n) IN
         Sound(d, l, o \ {n}) /\ (c.status \in Over => d.status = c.status)
<1> DEFINE e == [c EXCEPT !.job[n] = "failed"]
<1>1. /\ e \in Partial /\ e.job[n] = "failed" /\ e.node = c.node /\ e.heap = c.heap
      /\ e.status = c.status /\ \A m \in Nodes \ {n} : e.job[m] = c.job[m]
  BY DEF Sound, Partial, JobStates
<1>2. fail_member(c, n) = advance_composition(e, n, {})
  BY DEF fail_member
<1> HIDE DEF e
<1>3. ASSUME NEW m \in Nodes \ {n} PROVE Fits(e, l, o \ {n}, m)
  BY <1>1 DEF Fits, Sound
<1>4. /\ n \in Members /\ n \notin c.heap /\ l[n] = "off"
      /\ c.node[n] \in {"running", "cancelled"}
      /\ c.job[n] # "none"
  BY DEF Fits, Sound
<1>5. Verdict(e) /\ Produced(e)
  BY <1>1, <1>4 DEF Verdict, Produced, Sound
<1>6. Leaving(e, l, o \ {n}, n)
  BY <1>1, <1>3, <1>4, <1>5 DEF Leaving, Sound, Over
<1> QED
  BY <1>1, <1>2, <1>6, AdvanceSound

(* The members a scan fails, one by one.                                   *)
LEMMA FailLoop ==
  ASSUME NEW q \in Seq(Nodes), NEW r \in Partial
  PROVE  \E f : /\ FoldLeft(fail_member, r, q) = f[1 .. Len(q)]
                /\ f[1 .. 0] = r
                /\ \A k \in 1 .. Len(q) : f[1 .. k] = fail_member(f[1 .. k - 1], q[k])
<1> DEFINE n == Len(q)
           next == [p \in (1 .. n) \X Partial |-> fail_member(p[2], q[p[1]])]
           P(f) == f = [s \in SUBSET DOMAIN q |->
                          IF s = {} THEN r ELSE fail_member(f[s \ {Max(s)}], q[Max(s)])]
           h == CHOOSE f : P(f)
<1>1. n \in Nat /\ DOMAIN q = 1 .. n
  OBVIOUS
<1>2. FoldLeft(fail_member, r, q) = h[DOMAIN q]
  BY DEF FoldLeft, MapThenFoldSet
<1>3. \A d \in Partial, k \in 1 .. n : fail_member(d, q[k]) \in Partial
  BY <1>1, FailTyped
<1> HIDE DEF n
<1>4. next \in [(1 .. n) \X Partial -> Partial]
  BY <1>3
<1> HIDE DEF next
<1>5. PICK g \in [SUBSET (1 .. n) -> Partial] : Computes(g, n, r, next)
  BY <1>1, <1>4, Folding
<1>6. ASSUME NEW s \in SUBSET (1 .. n), s # {}
      PROVE  next[<<Max(s), g[s \ {Max(s)}]>>] = fail_member(g[s \ {Max(s)}], q[Max(s)])
  <2>1. Max(s) \in 1 .. n /\ g[s \ {Max(s)}] \in Partial
    BY <1>1, <1>6, MaxIsIn
  <2> QED
    BY <2>1 DEF next
<1>7. g = [s \in SUBSET (1 .. n) |->
             IF s = {} THEN r ELSE fail_member(g[s \ {Max(s)}], q[Max(s)])]
  BY <1>5, <1>6 DEF Computes
<1>8. P(g)
  BY <1>1, <1>7
<1> HIDE DEF P
<1>9. P(h)
  BY <1>8
<1>10. h = [s \in SUBSET (1 .. n) |->
              IF s = {} THEN r ELSE fail_member(h[s \ {Max(s)}], q[Max(s)])]
  BY <1>1, <1>9 DEF P
<1> HIDE DEF h
<1>11. h[1 .. 0] = r
  BY <1>10
<1>12. ASSUME NEW k \in 1 .. n PROVE h[1 .. k] = fail_member(h[1 .. k - 1], q[k])
  <2>1. /\ 1 .. k \in SUBSET (1 .. n) /\ 1 .. k # {}
        /\ Max(1 .. k) = k /\ (1 .. k) \ {k} = 1 .. k - 1
    BY <1>1, Prefix
  <2> QED
    BY <1>10, <2>1
<1>13. FoldLeft(fail_member, r, q) = h[1 .. n]
  BY <1>1, <1>2
<1> QED
  BY <1>11, <1>12, <1>13 DEF n

LEMMA FailAllSound ==
  ASSUME Context, NEW r, NEW l, NEW q \in Seq(Nodes), IsInjective(q),
         Sound(r, l, ToSet(q))
  PROVE  LET d == FoldLeft(fail_member, r, q) IN
         Sound(d, l, {}) /\ (r.status \in Over => d.status = r.status)
<1> DEFINE n == Len(q)
           Left(k) == {q[j] : j \in k + 1 .. n}
<1>1. n \in Nat /\ DOMAIN q = 1 .. n
  OBVIOUS
<1>2. PICK f : /\ FoldLeft(fail_member, r, q) = f[1 .. n]
               /\ f[1 .. 0] = r
               /\ \A k \in 1 .. n : f[1 .. k] = fail_member(f[1 .. k - 1], q[k])
  BY FailLoop DEF Sound
<1> DEFINE Kept(k) == /\ Sound(f[1 .. k], l, Left(k))
                      /\ r.status \in Over => f[1 .. k].status = r.status
           T == {k \in 0 .. n : Kept(k)}
<1> HIDE DEF n
<1>3. 0 \in T
  <2>1. Left(0) = ToSet(q)
    BY <1>1 DEF ToSet
  <2> HIDE DEF Left
  <2> QED
    BY <1>1, <1>2, <2>1
<1>4. ASSUME NEW k \in 1 .. n, k - 1 \in T PROVE k \in T
  <2>1. q[k] \in Nodes /\ q[k] \in Left(k - 1) /\ Left(k) = Left(k - 1) \ {q[k]}
    BY <1>1 DEF IsInjective
  <2> HIDE DEF Left
  <2>2. Kept(k)
    BY <1>2, <1>4, <2>1, FailSound
  <2> QED
    BY <1>1, <2>2
<1>5. n \in T
  <2> HIDE DEF T
  <2> QED
    BY <1>1, <1>3, <1>4, Rounds
<1>6. Left(n) = {}
  BY <1>1
<1> HIDE DEF Left
<1> QED
  BY <1>2, <1>5, <1>6

-----------------------------------------------------------------------------
(* Steps.                                                                  *)

LEMMA Became ==
  ASSUME NEW c \in Partial, Become(c)
  PROVE  Here' = c
BY DEF Partial, Become, Here

(* The records a step leaves are judged by a composition and an intent     *)
(* that it did not change.                                                 *)
LEMMA Unmoved ==
  ASSUME UNCHANGED <<composition, cancelled>>, Accepted, Sound(Here', lane', {})
  PROVE  Accepted' /\ Sound(Here, lane, {})'
BY DEF composition, Accepted, Members, Sound, Fits, Verdict, Produced, Here, Partial, Over

LEMMA Judged ==
  ASSUME UNCHANGED composition, Accepted, Here' \in Partial, lane' \in [Nodes -> Lanes],
         \A n \in Nodes : Fits(Here', lane', {}, n), Verdict(Here)', Produced(Here')
  PROVE  Accepted' /\ Sound(Here, lane, {})'
BY DEF composition, Accepted, Members, Sound, Fits, Produced, Here, Partial, Over

LEMMA SubmitSound ==
  ASSUME comp \in Submissions, failFast \in BOOLEAN, cancelled \in BOOLEAN, Fresh, Submit
  PROVE  Accepted' /\ Sound(Here, lane, {})'
<1>1. Context
  BY CompositionAssumption DEF Submit, Context, Accepted, validate_composition, Members
<1>2. Members \subseteq Nodes /\ "pending" \in NodeStates /\ "none" \in NodeStates
  BY <1>1, MembersAreNodes DEF Context, Accepted, NodeStates
<1>3. Here \in Partial /\ lane \in [Nodes -> Lanes] /\ lane' = lane
  BY <1>2 DEF Fresh, Partial, Here, Lanes, Submit, JobStates
<1>4. ASSUME NEW c, c \in {[Here EXCEPT !.status = "running"], [Here EXCEPT !.status = "completed"]},
             comp.order = <<>> \/ c.status = "running"
      PROVE  Sound(c, lane, {})
  <2>1. /\ c \in Partial /\ c.node = node /\ c.job = job /\ c.heap = {}
        /\ c.status \in {"running", "completed"}
    BY <1>3, <1>4 DEF Partial, Here, Fresh, Over
  <2>2. \A n \in Nodes : /\ c.node[n] = IF n \in Members THEN "pending" ELSE "none"
                         /\ c.job[n] = "none" /\ lane[n] = "off"
    BY <2>1 DEF Fresh
  <2>3. c.status # "running" => Members = {}
    BY <1>4 DEF Members, ToSet
  <2>4. \A n \in Nodes : Fits(c, lane, {}, n)
    BY <2>1, <2>2 DEF Fits
  <2>5. Verdict(c) /\ Produced(c)
    BY <2>1, <2>2, <2>3 DEF Verdict, Produced, Fresh, Over
  <2> QED
    BY <1>3, <2>1, <2>4, <2>5 DEF Sound
<1>5. CASE comp.order = <<>>
  <2> DEFINE c == [Here EXCEPT !.status = "completed"]
  <2>1. Sound(c, lane, {}) /\ Become(c)
    BY <1>4, <1>5 DEF Submit
  <2> HIDE DEF c
  <2> QED
    BY <1>1, <1>3, <2>1, Became, Unmoved DEF Submit, Context, Sound
<1>6. CASE comp.order # <<>>
  <2> DEFINE r == [Here EXCEPT !.status = "running"]
             c == start_ready_nodes(r, {})
  <2>1. Become(c)
    BY <1>6 DEF Submit
  <2>2. r.status = "running"
    BY <1>3 DEF Partial
  <2>3. Sound(r, lane, {})
    BY <1>4, <2>2
  <2> HIDE DEF r
  <2>4. Sound(c, lane, {})
    BY <1>1, <2>3, StartAllSound
  <2> HIDE DEF c
  <2> QED
    BY <1>1, <1>3, <2>1, <2>4, Became, Unmoved DEF Submit, Context, Sound
<1> QED
  BY <1>5, <1>6

(* What a scan takes out of the heap it fails, but for the one it picked.  *)
LEMMA ScanSound ==
  ASSUME Context, Sound(Here, lane, {}),
         NEW out \in SUBSET heap, NEW dead \in SetToSeqs(out),
         NEW pick \in {{}} \cup {{n} : n \in heap \ out}, Scan(dead, pick)
  PROVE  /\ Accepted' /\ Sound(Here, lane, {})'
         /\ status \in Over => status' = status
<1> DEFINE gone == ToSet(dead) \cup pick
           r == [Here EXCEPT !.heap = @ \ gone]
           d == FoldLeft(fail_member, r, dead)
<1>1. /\ Here.status = status /\ Here.node = node /\ Here.job = job /\ Here.heap = heap
      /\ heap \subseteq Nodes
  BY DEF Here, Sound, Partial
<1>2. Members \subseteq Nodes /\ comp.order \in Seq(Nodes)
  BY MembersAreNodes DEF Context, Accepted
<1>3. heap \subseteq Members
  BY <1>1 DEF Sound, Fits
<1>4. IsFiniteSet(Members)
  <2>1. comp.order \in Surjection(DOMAIN comp.order, Members)
    BY <1>2 DEF Surjection, Members, ToSet, Range
  <2>2. IsFiniteSet(DOMAIN comp.order)
    BY <1>2, FS_Interval
  <2> QED
    BY <2>1, <2>2, FS_Surjection
<1>5. Cardinality(out) \in Nat
  BY <1>3, <1>4, FS_Subset, FS_CardinalityType
<1>6. dead \in Seq(Nodes) /\ IsInjective(dead) /\ ToSet(dead) \subseteq out
  <2>1. /\ dead \in [1 .. Cardinality(out) -> out]
        /\ \A i, j \in 1 .. Cardinality(out) : i # j => dead[i] # dead[j]
    BY DEF SetToSeqs
  <2>2. dead \in [1 .. Cardinality(out) -> Nodes]
    BY <1>1, <2>1
  <2>3. dead \in Seq(Nodes)
    BY <1>5, <2>2
  <2> QED
    BY <2>1, <2>3 DEF IsInjective, ToSet
<1>7. pick \subseteq heap \ ToSet(dead)
  BY <1>6
<1>8. /\ r \in Partial /\ r.status = status /\ r.node = node /\ r.job = job
      /\ r.heap = heap \ gone
  BY DEF Here, Sound, Partial
<1>9. lane' = [n \in Nodes |-> IF n \in pick THEN "popped" ELSE lane[n]] /\ Become(d)
  BY DEF Scan
<1> HIDE DEF r
<1>10. Sound(r, lane', ToSet(dead))
  <2>1. lane' \in [Nodes -> Lanes]
    BY <1>9 DEF Sound, Lanes
  <2>2. ASSUME NEW n \in Nodes PROVE Fits(r, lane', ToSet(dead), n)
    <3>1. Fits(Here, lane, {}, n)
      BY DEF Sound
    <3>2. lane'[n] = IF n \in pick THEN "popped" ELSE lane[n]
      BY <1>9
    <3> QED
      BY <1>1, <1>6, <1>7, <1>8, <3>1, <3>2 DEF Fits
  <2>3. Verdict(r) /\ Produced(r)
    BY <1>1, <1>8 DEF Verdict, Produced, Sound
  <2> QED
    BY <1>8, <2>1, <2>2, <2>3 DEF Sound
<1>11. Sound(d, lane', {}) /\ (status \in Over => d.status = status)
  BY <1>6, <1>8, <1>10, FailAllSound
<1> HIDE DEF d
<1>12. Here' = d
  BY <1>9, <1>11, Became DEF Sound
<1> QED
  BY <1>11, <1>12, Unmoved DEF Scan, Context, Here

LEMMA LaunchSound ==
  ASSUME Context, Sound(Here, lane, {}), NEW n \in Nodes, Launch(n)
  PROVE  Accepted' /\ Sound(Here, lane, {})' /\ status' = status
<1>1. /\ Here' \in Partial /\ Here'.status = status /\ Here'.node = node
      /\ Here'.job = [job EXCEPT ![n] = "running"] /\ Here'.heap = heap
      /\ Here.status = status /\ Here.node = node /\ Here.job = job /\ Here.heap = heap
      /\ Here \in Partial /\ lane \in [Nodes -> Lanes]
  BY DEF Launch, Here, Sound, Partial, JobStates
<1>2. lane' = [lane EXCEPT ![n] = "executing"] /\ lane[n] = "popped"
  BY DEF Launch
<1>3. /\ Here'.job[n] = "running" /\ lane'[n] = "executing"
      /\ \A m \in Nodes \ {n} : Here'.job[m] = job[m] /\ lane'[m] = lane[m]
  BY <1>1, <1>2 DEF Partial
<1>4. ASSUME NEW m \in Nodes PROVE Fits(Here', lane', {}, m)
  <2>1. Fits(Here, lane, {}, m)
    BY DEF Sound
  <2>2. CASE m = n
    BY <1>1, <1>2, <1>3, <2>1, <2>2 DEF Fits
  <2>3. CASE m # n
    BY <1>1, <1>3, <2>1, <2>3 DEF Fits
  <2> QED
    BY <2>2, <2>3
<1>5. Verdict(Here') /\ Produced(Here')
  BY <1>1, <1>2, <1>3 DEF Verdict, Produced, Sound, Fits
<1>6. lane' \in [Nodes -> Lanes]
  BY <1>1, <1>2 DEF Lanes
<1>7. Sound(Here', lane', {})
  BY <1>1, <1>4, <1>5, <1>6 DEF Sound
<1> QED
  BY <1>7, Unmoved DEF Launch, Context

LEMMA SettleSound ==
  ASSUME Context, Sound(Here, lane, {}), NEW n \in Nodes, Settle(n)
  PROVE  Accepted' /\ Sound(Here, lane, {})' /\ status' = status
<1>1. PICK s \in Over : job' = [job EXCEPT ![n] = s]
  BY DEF Settle, Over
<1>2. /\ Here' \in Partial /\ Here'.status = status /\ Here'.node = node
      /\ Here'.job = [job EXCEPT ![n] = s] /\ Here'.heap = heap
      /\ Here.status = status /\ Here.node = node /\ Here.job = job /\ Here.heap = heap
      /\ Here \in Partial /\ lane \in [Nodes -> Lanes]
  BY <1>1 DEF Settle, Here, Sound, Partial, JobStates, Over
<1>3. lane' = [lane EXCEPT ![n] = "closing"] /\ lane[n] = "executing"
  BY DEF Settle
<1>4. /\ Here'.job[n] = s /\ lane'[n] = "closing"
      /\ \A m \in Nodes \ {n} : Here'.job[m] = job[m] /\ lane'[m] = lane[m]
  BY <1>2, <1>3 DEF Partial
<1>5. ASSUME NEW m \in Nodes PROVE Fits(Here', lane', {}, m)
  <2>1. Fits(Here, lane, {}, m)
    BY DEF Sound
  <2>2. CASE m = n
    BY <1>1, <1>2, <1>3, <1>4, <2>1, <2>2 DEF Fits, Over
  <2>3. CASE m # n
    BY <1>2, <1>4, <2>1, <2>3 DEF Fits
  <2> QED
    BY <2>2, <2>3
<1>6. Verdict(Here') /\ Produced(Here')
  BY <1>2, <1>3, <1>4 DEF Verdict, Produced, Sound, Fits
<1>7. lane' \in [Nodes -> Lanes]
  BY <1>2, <1>3 DEF Lanes
<1>8. Sound(Here', lane', {})
  BY <1>2, <1>5, <1>6, <1>7 DEF Sound
<1> QED
  BY <1>8, Unmoved DEF Settle, Context

(* The steps that end in one call of advance_composition, for a member n   *)
(* whose job has just ended.                                               *)
LEMMA AdvanceStep ==
  ASSUME Context, NEW c \in Partial, NEW n \in Nodes, NEW b, Leaving(c, lane', {}, n),
         c.status = status, Become(advance_composition(c, n, b)),
         UNCHANGED <<composition, cancelled>>
  PROVE  /\ Accepted' /\ Sound(Here, lane, {})'
         /\ status \in Over => status' = status
<1> DEFINE d == advance_composition(c, n, b)
<1>1. Sound(d, lane', {}) /\ (status \in Over => d.status = status)
  BY AdvanceSound
<1> HIDE DEF d
<1>2. Here' = d
  BY <1>1, Became DEF Sound, d
<1> QED
  BY <1>1, <1>2, Unmoved DEF Here, Context

LEMMA EndedSound ==
  ASSUME Context, Sound(Here, lane, {}), NEW n \in Nodes,
         LaunchUnloaded(n) \/ Close(n) \/ (job[n] = "pending" /\ CancelJob(n))
  PROVE  /\ Accepted' /\ Sound(Here, lane, {})'
         /\ status \in Over => status' = status
<1>1. /\ Here.status = status /\ Here.node = node /\ Here.job = job /\ Here.heap = heap
      /\ Here \in Partial /\ lane \in [Nodes -> Lanes] /\ Fits(Here, lane, {}, n)
      /\ Verdict(Here) /\ Produced(Here)
      /\ \A m \in Nodes : Fits(Here, lane, {}, m)
  BY DEF Here, Sound
<1>2. CASE LaunchUnloaded(n)
  <2> DEFINE c == [Here EXCEPT !.job[n] = "failed"]
  <2>1. /\ c \in Partial /\ c.status = status /\ c.node = node /\ c.heap = heap
        /\ c.job[n] = "failed" /\ \A m \in Nodes \ {n} : c.job[m] = job[m]
    BY <1>1 DEF Partial, JobStates, Here
  <2>2. /\ Become(advance_composition(c, n, {})) /\ UNCHANGED <<composition, cancelled>>
        /\ lane[n] = "popped" /\ lane' = [lane EXCEPT ![n] = "off"]
    BY <1>2 DEF LaunchUnloaded, fail_member
  <2> HIDE DEF c
  <2>3. /\ lane' \in [Nodes -> Lanes] /\ lane'[n] = "off"
        /\ \A m \in Nodes \ {n} : lane'[m] = lane[m]
    BY <1>1, <2>2 DEF Lanes
  <2>4. \A m \in Nodes \ {n} : Fits(c, lane', {}, m)
    BY <1>1, <2>1, <2>3 DEF Fits
  <2>5. Verdict(c) /\ Produced(c)
    BY <1>1, <2>1, <2>2 DEF Verdict, Produced, Fits
  <2>6. Leaving(c, lane', {}, n)
    BY <1>1, <2>1, <2>2, <2>3, <2>4, <2>5 DEF Leaving, Fits, Over
  <2> QED
    BY <2>1, <2>2, <2>6, AdvanceStep
<1>3. CASE Close(n)
  <2>1. PICK b : Become(advance_composition(Here, n, b))
    BY <1>3 DEF Close
  <2>2. /\ UNCHANGED <<composition, cancelled>>
        /\ lane[n] = "closing" /\ lane' = [lane EXCEPT ![n] = "off"]
    BY <1>3 DEF Close
  <2>3. /\ lane' \in [Nodes -> Lanes] /\ lane'[n] = "off"
        /\ \A m \in Nodes \ {n} : lane'[m] = lane[m]
    BY <1>1, <2>2 DEF Lanes
  <2>4. \A m \in Nodes \ {n} : Fits(Here, lane', {}, m)
    BY <1>1, <2>3 DEF Fits
  <2>5. Leaving(Here, lane', {}, n)
    BY <1>1, <2>2, <2>3, <2>4 DEF Leaving, Fits, Over
  <2> QED
    BY <1>1, <2>1, <2>2, <2>5, AdvanceStep
<1>4. CASE job[n] = "pending" /\ CancelJob(n)
  <2> DEFINE c == [Here EXCEPT !.job[n] = "cancelled", !.heap = @ \ {n}]
  <2>1. /\ c \in Partial /\ c.status = status /\ c.node = node /\ c.heap = heap \ {n}
        /\ c.job[n] = "cancelled" /\ \A m \in Nodes \ {n} : c.job[m] = job[m]
    BY <1>1 DEF Partial, JobStates, Here
  <2>2. /\ Become(advance_composition(c, n, {})) /\ UNCHANGED <<composition, cancelled>>
        /\ job[n] = "pending" /\ lane' = lane
    BY <1>4 DEF CancelJob
  <2> HIDE DEF c
  <2>3. \A m \in Nodes \ {n} : Fits(c, lane, {}, m)
    BY <1>1, <2>1 DEF Fits
  <2>4. Verdict(c) /\ Produced(c)
    BY <1>1, <2>1, <2>2 DEF Verdict, Produced, Fits
  <2>5. Leaving(c, lane', {}, n)
    BY <1>1, <2>1, <2>2, <2>3, <2>4 DEF Leaving, Fits, Over
  <2> QED
    BY <2>1, <2>2, <2>5, AdvanceStep
<1> QED
  BY <1>2, <1>3, <1>4

LEMMA CancelCompositionSound ==
  ASSUME Context, Sound(Here, lane, {}), CancelComposition
  PROVE  /\ Accepted' /\ Sound(Here, lane, {})'
         /\ status = "running" /\ cancelled' = TRUE
<1> DEFINE live == {n \in Nodes : node[n] = "running" /\ job[n] = "pending"}
           d == Here'
<1>1. /\ Here.status = status /\ Here.node = node /\ Here.job = job /\ Here.heap = heap
      /\ Here \in Partial /\ lane \in [Nodes -> Lanes]
      /\ \A m \in Nodes : Fits(Here, lane, {}, m)
      /\ Verdict(Here) /\ Produced(Here)
  BY DEF Here, Sound
<1>2. /\ d.status = status' /\ d.node = node' /\ d.job = job' /\ d.heap = heap'
      /\ d = [status |-> status', node |-> node', job |-> job', heap |-> heap']
  BY DEF Here
<1>3. /\ status = "running" /\ cancelled' = TRUE /\ lane' = lane
      /\ comp' = comp /\ failFast' = failFast /\ Members' = Members
      /\ node' = [n \in Nodes |-> IF node[n] = "pending" \/ n \in live
                                  THEN "cancelled" ELSE node[n]]
      /\ job' = [n \in Nodes |-> IF n \in live THEN "cancelled" ELSE job[n]]
      /\ heap' = heap \ live
      /\ \/ status' = status
         \/ status' = "cancelled" /\ \A n \in Members : node'[n] \in TerminalNode
  BY DEF CancelComposition, composition, Members
<1>4. d \in Partial
  <2>1. /\ node' \in [Nodes -> NodeStates] /\ job' \in [Nodes -> JobStates]
        /\ heap' \subseteq Nodes /\ status' \in {"none", "running"} \cup Over
    BY <1>1, <1>3 DEF Partial, NodeStates, TerminalNode, JobStates, Over
  <2> QED
    BY <1>2, <2>1 DEF Partial
<1> HIDE DEF d
<1>5. ASSUME NEW m \in Nodes PROVE Fits(d, lane, {}, m)
  BY <1>1, <1>2, <1>3 DEF Fits
<1>6. Verdict(Here)'
  BY <1>2, <1>3 DEF Verdict, Here, Over
<1>7. Produced(d)
  BY <1>1, <1>2, <1>3, MembersAreNodes DEF Produced, Fits, Context, Accepted
<1> QED
  BY <1>1, <1>3, <1>4, <1>5, <1>6, <1>7, Judged DEF d, CancelComposition, Context

-----------------------------------------------------------------------------
(* Every state, and the theorems.                                          *)

LEMMA InitConsistent == Init => Consistent
BY DEF Init, Consistent, Fresh, Members

LEMMA NextConsistent ==
  ASSUME Consistent, [Next]_vars
  PROVE  Consistent' /\ (status \in Over => status' = status)
<1>1. /\ comp \in Submissions /\ failFast \in BOOLEAN /\ cancelled \in BOOLEAN
      /\ asked \subseteq Nodes
  BY DEF Consistent
<1> DEFINE Settled == Accepted /\ Sound(Here, lane, {})
           Final == status \in Over => status' = status
<1>2. CASE UNCHANGED vars
  <2>1. UNCHANGED <<composition, cancelled, asked, status, node, job, heap, lane>>
    BY <1>2 DEF vars, composition
  <2>2. Fresh => Fresh'
    BY <2>1 DEF Fresh, composition, Members
  <2>3. Settled => Settled'
    <3>1. Here' = Here /\ lane' = lane
      BY <2>1 DEF Here
    <3> QED
      BY <2>1, <3>1, Unmoved
  <2> QED
    BY <1>1, <2>1, <2>2, <2>3 DEF Consistent, composition
<1>3. CASE Submit
  <2>1. Fresh
    BY <1>3 DEF Submit, Consistent, Sound, Verdict, Here
  <2>2. Settled'
    BY <1>1, <1>3, <2>1, SubmitSound
  <2> QED
    BY <1>1, <1>3, <2>1, <2>2 DEF Consistent, Submit, Fresh, composition, Over
<1>4. ASSUME Next, ~ Submit PROVE Settled /\ Context
  <2>1. ASSUME Fresh PROVE FALSE
    <3>1. CASE Scans
      <4>0. PICK out \in SUBSET heap : \E dead \in SetToSeqs(out) :
              \E pick \in {{}} \cup {{n} : n \in heap \ out} : Scan(dead, pick)
        BY <3>1 DEF Scans
      <4>1. PICK dead \in SetToSeqs(out) :
              \E pick \in {{}} \cup {{n} : n \in heap \ out} : Scan(dead, pick)
        BY <4>0
      <4>2. PICK pick \in {{}} \cup {{n} : n \in heap \ out} : Scan(dead, pick)
        BY <4>1
      <4>3. out = {} /\ pick = {}
        BY <2>1, <4>2 DEF Fresh
      <4>4. ToSet(dead) = {}
        BY <4>3 DEF SetToSeqs, ToSet
      <4> QED
        BY <4>2, <4>3, <4>4 DEF Scan
    <3>2. ASSUME NEW n \in Nodes, Member(n) PROVE FALSE
      BY <2>1, <3>2 DEF Fresh, Member, Launch, LaunchUnloaded, Settle, Close
    <3>3. ASSUME NEW n \in Nodes, CancelJob(n) PROVE FALSE
      BY <2>1, <3>3 DEF Fresh, CancelJob
    <3>4. CASE CancelComposition
      BY <2>1, <3>4 DEF Fresh, CancelComposition
    <3> QED
      BY <1>4, <3>1, <3>2, <3>3, <3>4 DEF Next, Progress
  <2> QED
    BY <1>1, <2>1 DEF Consistent, Context
<1>5. ASSUME Settled, Settled', Final, UNCHANGED <<composition, cancelled>>, asked' \subseteq Nodes
      PROVE  Consistent' /\ Final
  BY <1>1, <1>5 DEF Consistent, composition
<1>6. ASSUME Scans, Settled, Context PROVE Consistent' /\ Final
  <2>1. PICK out \in SUBSET heap : \E dead \in SetToSeqs(out) :
          \E pick \in {{}} \cup {{n} : n \in heap \ out} : Scan(dead, pick)
    BY <1>6 DEF Scans
  <2>2. PICK dead \in SetToSeqs(out) :
          \E pick \in {{}} \cup {{n} : n \in heap \ out} : Scan(dead, pick)
    BY <2>1
  <2>3. PICK pick \in {{}} \cup {{n} : n \in heap \ out} : Scan(dead, pick)
    BY <2>2
  <2>4. Settled' /\ Final
    BY <1>6, <2>3, ScanSound
  <2> QED
    BY <1>1, <1>5, <1>6, <2>3, <2>4 DEF Scan
<1>7. ASSUME NEW n \in Nodes, Launch(n) \/ Settle(n), Settled, Context
      PROVE  Consistent' /\ Final
  <2>1. Settled' /\ Final
    BY <1>7, LaunchSound, SettleSound
  <2> QED
    BY <1>1, <1>5, <1>7, <2>1 DEF Launch, Settle
<1>8. ASSUME NEW n \in Nodes, LaunchUnloaded(n) \/ Close(n) \/ (job[n] = "pending" /\ CancelJob(n)),
             Settled, Context
      PROVE  Consistent' /\ Final
  <2>1. Settled' /\ Final
    BY <1>8, EndedSound
  <2> QED
    BY <1>1, <1>5, <1>8, <2>1 DEF LaunchUnloaded, Close, CancelJob
<1>9. ASSUME NEW n \in Nodes, CancelJob(n), job[n] # "pending", Settled, Context
      PROVE  Consistent' /\ Final
  <2>1. /\ UNCHANGED <<composition, status, cancelled, node, job, heap, lane>>
        /\ asked' \subseteq Nodes
    BY <1>1, <1>9 DEF CancelJob
  <2>2. Here' = Here /\ lane' = lane
    BY <2>1 DEF Here
  <2> QED
    BY <1>5, <1>9, <2>1, <2>2, Unmoved
<1>10. ASSUME CancelComposition, Settled, Context PROVE Consistent' /\ Final
  <2>1. Settled' /\ status = "running" /\ cancelled' = TRUE
    BY <1>10, CancelCompositionSound
  <2> QED
    BY <1>1, <1>10, <2>1 DEF Consistent, CancelComposition, composition, Over
<1> HIDE DEF Settled
<1> QED
  BY <1>2, <1>3, <1>4, <1>6, <1>7, <1>8, <1>9, <1>10 DEF Next, Progress, Member

LEMMA AlwaysConsistent == Spec => []Consistent
<1>1. Consistent /\ [Next]_vars => Consistent'
  BY NextConsistent
<1> QED
  BY <1>1, InitConsistent, PTL DEF Spec

(* Whatever graph is submitted, accepted or not, cancelled or not, every   *)
(* record stays of its type.                                               *)
THEOREM TypeCorrect == Spec => []TypeOK
<1>1. Consistent => TypeOK
  <2> SUFFICES ASSUME Consistent PROVE TypeOK
    OBVIOUS
  <2>1. CASE Fresh
    BY <2>1 DEF Consistent, Fresh, TypeOK
  <2>2. CASE Sound(Here, lane, {})
    BY <2>2 DEF Consistent, Sound, Partial, Here, TypeOK, NodeStates, JobStates, Lanes, Over
  <2> QED
    BY <2>1, <2>2 DEF Consistent
<1> QED
  BY <1>1, AlwaysConsistent, PTL

(* No node of any graph is left running without a job that somebody will   *)
(* still bring to an end: not by the housekeeping of a failure, nor by a   *)
(* scan that fails several members, nor by a member that is launched after *)
(* it was cancelled.                                                       *)
THEOREM RunningHasJob == Spec => []RunningNodeHasJob
<1>1. Consistent => RunningNodeHasJob
  <2> SUFFICES ASSUME Consistent PROVE RunningNodeHasJob
    OBVIOUS
  <2>1. CASE Fresh
    BY <2>1 DEF Fresh, RunningNodeHasJob
  <2>2. CASE Sound(Here, lane, {})
    BY <2>2 DEF Sound, Fits, Here, RunningNodeHasJob
  <2> QED
    BY <2>1, <2>2 DEF Consistent
<1> QED
  BY <1>1, AlwaysConsistent, PTL

(* In every graph a member exists only when all its producers completed,   *)
(* and stay completed: no loop works through a list of ready nodes that an *)
(* earlier failure of the same loop has made wrong.                        *)
THEOREM ProducersCompleted == Spec => []ProducersFirst
<1>1. Consistent => ProducersFirst
  <2> SUFFICES ASSUME Consistent PROVE ProducersFirst
    OBVIOUS
  <2>1. CASE Fresh
    BY <2>1 DEF Fresh, ProducersFirst
  <2>2. CASE Sound(Here, lane, {})
    BY <2>2 DEF Sound, Produced, Here, ProducersFirst
  <2> QED
    BY <2>1, <2>2 DEF Consistent
<1> QED
  BY <1>1, AlwaysConsistent, PTL

(* The verdict of every run agrees with the nodes of its graph.            *)
THEOREM VerdictAgrees == Spec => []VerdictSound
<1>1. Consistent => VerdictSound
  <2> SUFFICES ASSUME Consistent PROVE VerdictSound
    OBVIOUS
  <2>1. CASE Fresh
    BY <2>1 DEF Fresh, VerdictSound
  <2>2. CASE Accepted /\ Sound(Here, lane, {})
    BY <2>2, MembersAreNodes
    DEF Consistent, Accepted, Sound, Verdict, Fits, Here, Over, VerdictSound
  <2> QED
    BY <2>1, <2>2 DEF Consistent
<1> QED
  BY <1>1, AlwaysConsistent, PTL

(* No verdict is taken back, by a member launched after it, by the rest of *)
(* the loop that brought it about, or by a cancel.                         *)
THEOREM VerdictStands == Spec => VerdictFinal
<1>1. Consistent /\ [Next]_vars
        => [(status \in {"completed", "failed", "cancelled"}) => status' = status]_vars
  BY NextConsistent DEF Over
<1> QED
  BY <1>1, AlwaysConsistent, PTL DEF Spec, VerdictFinal
=============================================================================
