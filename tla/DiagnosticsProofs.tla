--------------------------- MODULE DiagnosticsProofs ----------------------------
(***************************************************************************)
(* Theorems about Diagnostics, for every set of calls, every budget and    *)
(* batch of the retention, and any number of lines, failed transactions,   *)
(* crashes and intervals.                                                  *)
(***************************************************************************)
EXTENDS Diagnostics, SequenceTheorems, WellFoundedInduction, TLAPS

(* What holds of an empty list, and is kept by each element added to it,   *)
(* holds of every list: otherwise take the first for which it does not.    *)

LEMMA Rounds ==
  ASSUME NEW n \in Nat, NEW T, 0 \in T, \A k \in 1 .. n : k - 1 \in T => k \in T
  PROVE  n \in T
<1> DEFINE Bad == {k \in 0 .. n : k \notin T}
<1> SUFFICES ASSUME Bad # {} PROVE FALSE
  OBVIOUS
<1>1. Bad \subseteq Nat
  OBVIOUS
<1> HIDE DEF Bad
<1>2. PICK k \in Bad : \A j \in Bad : ~ (<<j, k>> \in OpToRel(<, Nat))
  BY <1>1, NatLessThanWellFounded, WFMin
<1>3. \A j \in Bad : ~ (j < k)
  BY <1>1, <1>2 DEF OpToRel
<1>4. k \in 0 .. n /\ k \notin T
  BY DEF Bad
<1>5. k # 0 /\ k - 1 \in 0 .. n /\ k \in 1 .. n
  BY <1>4
<1>6. k - 1 \in Bad
  BY <1>4, <1>5 DEF Bad
<1> QED
  BY <1>3, <1>5, <1>6

(* Only sifts the elements of s one by one.                                *)
Sift(list, x, S) == IF x \in S THEN Append(list, x) ELSE list

Sifts(g, s, S, n) == g[0] = <<>> /\ \A i \in 1 .. n : g[i] = Sift(g[i - 1], s[i], S)

LEMMA SiftTyped ==
  ASSUME NEW list \in Seq(Nat), NEW x \in Nat, NEW S
  PROVE  Sift(list, x, S) \in Seq(Nat)
BY DEF Sift

LEMMA SiftExists ==
  ASSUME NEW s \in Seq(Nat), NEW S
  PROVE  \E g \in [0 .. Len(s) -> Seq(Nat)] : Sifts(g, s, S, Len(s))
<1> DEFINE n == Len(s)
           T == {k \in 0 .. n : \E g \in [0 .. k -> Seq(Nat)] : Sifts(g, s, S, k)}
<1>1. n \in Nat /\ \A i \in 1 .. n : s[i] \in Nat
  OBVIOUS
<1> HIDE DEF n
<1>2. 0 \in T
  <2> DEFINE g == [i \in 0 .. 0 |-> <<>>]
  <2>1. g \in [0 .. 0 -> Seq(Nat)] /\ Sifts(g, s, S, 0)
    BY DEF Sifts
  <2>2. 0 \in 0 .. n
    BY <1>1
  <2> HIDE DEF g
  <2> QED
    BY <2>1, <2>2
<1>3. ASSUME NEW k \in 1 .. n, k - 1 \in T PROVE k \in T
  <2>1. PICK g \in [0 .. k - 1 -> Seq(Nat)] : Sifts(g, s, S, k - 1)
    BY <1>3
  <2> DEFINE x == Sift(g[k - 1], s[k], S)
             h == [i \in 0 .. k |-> IF i = k THEN x ELSE g[i]]
  <2>2. k \in Nat \ {0} /\ k \in 0 .. n /\ k - 1 \in 0 .. k - 1
    BY <1>1
  <2>3. x \in Seq(Nat)
    BY <1>1, <2>2, SiftTyped
  <2> HIDE DEF x
  <2>4. h \in [0 .. k -> Seq(Nat)]
    BY <2>2, <2>3
  <2>5. h[0] = <<>> /\ h[k] = x /\ h[k - 1] = g[k - 1]
    BY <2>1, <2>2 DEF Sifts
  <2>6. \A i \in 1 .. k - 1 : h[i] = g[i] /\ h[i - 1] = g[i - 1]
    BY <2>2
  <2> HIDE DEF h
  <2>7. ASSUME NEW i \in 1 .. k PROVE h[i] = Sift(h[i - 1], s[i], S)
    <3>1. CASE i = k
      BY <2>5, <3>1 DEF x
    <3>2. CASE i # k
      <4>1. i \in 1 .. k - 1
        BY <2>2, <3>2
      <4>2. g[i] = Sift(g[i - 1], s[i], S)
        BY <2>1, <4>1 DEF Sifts
      <4> QED
        BY <2>6, <4>1, <4>2
    <3> QED
      BY <3>1, <3>2
  <2>8. Sifts(h, s, S, k)
    BY <2>5, <2>7 DEF Sifts
  <2> QED
    BY <2>2, <2>4, <2>8
<1> HIDE DEF T
<1>4. n \in T
  BY <1>1, <1>2, <1>3, Rounds
<1> QED
  BY <1>4 DEF T, n

(* Two such computations over one list agree.                              *)
LEMMA SiftsAgree ==
  ASSUME NEW n \in Nat, NEW f, NEW g, NEW s, NEW S, Sifts(f, s, S, n), Sifts(g, s, S, n)
  PROVE  \A k \in 0 .. n : f[k] = g[k]
<1> SUFFICES ASSUME NEW k \in 0 .. n PROVE f[k] = g[k]
  OBVIOUS
<1> DEFINE T == {i \in 0 .. k : f[i] = g[i]}
<1>1. 0 \in T
  BY DEF Sifts
<1>2. ASSUME NEW i \in 1 .. k, i - 1 \in T PROVE i \in T
  <2>1. i \in 1 .. n /\ i \in 0 .. k /\ f[i - 1] = g[i - 1]
    BY <1>2
  <2>2. f[i] = Sift(f[i - 1], s[i], S) /\ g[i] = Sift(g[i - 1], s[i], S)
    BY <2>1 DEF Sifts
  <2>3. f[i] = g[i]
    BY <2>1, <2>2 DEF Sift
  <2> QED
    BY <2>1, <2>3
<1> HIDE DEF T
<1>3. k \in T
  BY <1>1, <1>2, Rounds
<1> QED
  BY <1>3 DEF T

LEMMA OnlySifts ==
  ASSUME NEW s \in Seq(Nat), NEW S
  PROVE  \E g \in [0 .. Len(s) -> Seq(Nat)] : Sifts(g, s, S, Len(s)) /\ Only(s, S) = g[Len(s)]
<1> DEFINE n == Len(s)
           P(f) == f = [i \in 0 .. n |-> IF i = 0 THEN <<>> ELSE Sift(f[i - 1], s[i], S)]
           h == CHOOSE f : P(f)
<1>1. n \in Nat
  OBVIOUS
<1>2. Only(s, S) = h[n]
  BY DEF Only, Sift
<1>3. PICK g \in [0 .. n -> Seq(Nat)] : Sifts(g, s, S, n)
  BY SiftExists
<1> HIDE DEF n
<1>4. ASSUME NEW i \in 0 .. n PROVE g[i] = IF i = 0 THEN <<>> ELSE Sift(g[i - 1], s[i], S)
  BY <1>1, <1>3 DEF Sifts
<1>5. P(g)
  BY <1>4
<1>6. ASSUME NEW f, P(f) PROVE Sifts(f, s, S, n)
  <2>1. \A i \in 0 .. n : f[i] = IF i = 0 THEN <<>> ELSE Sift(f[i - 1], s[i], S)
    BY <1>6
  <2>2. 0 \in 0 .. n /\ \A i \in 1 .. n : i \in 0 .. n /\ i # 0
    BY <1>1
  <2> QED
    BY <2>1, <2>2 DEF Sifts
<1> HIDE DEF P
<1>7. P(h)
  BY <1>5
<1>8. Sifts(h, s, S, n)
  BY <1>6, <1>7
<1> HIDE DEF h
<1>9. n \in 0 .. n
  BY <1>1
<1>10. \A k \in 0 .. n : h[k] = g[k]
  BY <1>1, <1>3, <1>8, SiftsAgree
<1>11. Only(s, S) = g[n]
  BY <1>2, <1>9, <1>10
<1> QED
  BY <1>3, <1>11 DEF n

-----------------------------------------------------------------------------
(* What is in a list.                                                      *)

LEMMA SetIs ==
  ASSUME NEW s \in Seq(Nat)
  PROVE  /\ ToSet(s) = {s[i] : i \in 1 .. Len(s)} /\ ToSet(s) \subseteq Nat
         /\ IsInjective(s) <=> \A i, k \in 1 .. Len(s) : s[i] = s[k] => i = k
BY DEF ToSet, IsInjective

LEMMA EmptyDoes == <<>> \in Seq(Nat) /\ ToSet(<<>>) = {} /\ IsInjective(<<>>)
BY DEF ToSet, IsInjective

LEMMA SetEmpty ==
  ASSUME NEW s \in Seq(Nat), s # <<>>
  PROVE  ToSet(s) # {}
<1>1. 1 \in DOMAIN s
  OBVIOUS
<1> QED
  BY <1>1 DEF ToSet

LEMMA AppendDoes ==
  ASSUME NEW s \in Seq(Nat), NEW x \in Nat
  PROVE  /\ Append(s, x) \in Seq(Nat)
         /\ ToSet(Append(s, x)) = ToSet(s) \cup {x}
         /\ IsInjective(s) /\ x \notin ToSet(s) => IsInjective(Append(s, x))
<1> DEFINE t == Append(s, x)
           n == Len(s)
<1>1. /\ t \in Seq(Nat) /\ n \in Nat /\ Len(t) = n + 1 /\ t[n + 1] = x
      /\ \A i \in 1 .. n : t[i] = s[i]
  OBVIOUS
<1> HIDE DEF t
<1>2. ToSet(t) = {t[i] : i \in 1 .. n + 1} /\ ToSet(s) = {s[i] : i \in 1 .. n}
  BY <1>1, SetIs
<1>3. \A i \in 1 .. n + 1 : i \in 1 .. n \/ i = n + 1
  BY <1>1
<1> HIDE DEF n
<1>4. 1 .. n + 1 = 1 .. n \cup {n + 1}
  BY <1>1
<1>5. ToSet(t) = ToSet(s) \cup {x}
  <2>1. \A i \in 1 .. n : i \in 1 .. n + 1
    BY <1>4
  <2>2. ToSet(s) \subseteq ToSet(t) /\ x \in ToSet(t)
    BY <1>1, <1>2, <1>4, <2>1
  <2>3. ASSUME NEW y \in ToSet(t) PROVE y \in ToSet(s) \cup {x}
    BY <1>1, <1>2, <1>3, <2>3
  <2> QED
    BY <2>2, <2>3
<1>6. ASSUME IsInjective(s), x \notin ToSet(s) PROVE IsInjective(t)
  <2>1. \A i, k \in 1 .. n : s[i] = s[k] => i = k
    BY <1>6, SetIs DEF n
  <2>2. \A i \in 1 .. n : s[i] # x
    BY <1>6, <1>2
  <2>3. \A i, k \in 1 .. n + 1 : t[i] = t[k] => i = k
    BY <1>1, <1>3, <2>1, <2>2
  <2> QED
    BY <1>1, <2>3, SetIs
<1> QED
  BY <1>1, <1>5, <1>6 DEF t

LEMMA ConcatDoes ==
  ASSUME NEW s \in Seq(Nat), NEW t \in Seq(Nat)
  PROVE  /\ s \o t \in Seq(Nat)
         /\ ToSet(s \o t) = ToSet(s) \cup ToSet(t)
         /\ IsInjective(s) /\ IsInjective(t) /\ ToSet(s) \cap ToSet(t) = {}
              => IsInjective(s \o t)
<1> DEFINE u == s \o t
           m == Len(s)
           n == Len(t)
<1>1. /\ u \in Seq(Nat) /\ m \in Nat /\ n \in Nat /\ Len(u) = m + n
      /\ \A i \in 1 .. m : u[i] = s[i]
      /\ \A i \in 1 .. n : u[m + i] = t[i]
  OBVIOUS
<1>2. /\ ToSet(u) = {u[i] : i \in 1 .. Len(u)}
      /\ ToSet(s) = {s[i] : i \in 1 .. m} /\ ToSet(t) = {t[i] : i \in 1 .. n}
  BY <1>1, SetIs
<1>3. /\ IsInjective(s) => \A i, k \in 1 .. m : s[i] = s[k] => i = k
      /\ IsInjective(t) => \A i, k \in 1 .. n : t[i] = t[k] => i = k
      /\ (\A i, k \in 1 .. m + n : u[i] = u[k] => i = k) => IsInjective(u)
  BY <1>1, SetIs
<1> HIDE DEF u, m, n
<1>4. /\ \A i \in 1 .. m + n : i \in 1 .. m \/ i - m \in 1 .. n
      /\ \A i \in 1 .. m : i \in 1 .. m + n
      /\ \A i \in 1 .. n : m + i \in 1 .. m + n
  BY <1>1
<1>5. \A i \in 1 .. m + n : i - m \in 1 .. n => u[i] = t[i - m]
  <2> SUFFICES ASSUME NEW i \in 1 .. m + n, i - m \in 1 .. n PROVE u[i] = t[i - m]
    OBVIOUS
  <2>1. u[m + (i - m)] = t[i - m]
    BY <1>1
  <2>2. m + (i - m) = i
    BY <1>1
  <2> QED
    BY <2>1, <2>2
<1>6. ToSet(u) = ToSet(s) \cup ToSet(t)
  <2>1. ASSUME NEW x \in ToSet(u) PROVE x \in ToSet(s) \cup ToSet(t)
    <3>1. PICK i \in 1 .. m + n : x = u[i]
      BY <1>1, <1>2, <2>1
    <3> QED
      BY <1>1, <1>2, <1>4, <1>5, <3>1
  <2>2. ASSUME NEW x \in ToSet(s) PROVE x \in ToSet(u)
    BY <1>1, <1>2, <1>4
  <2>3. ASSUME NEW x \in ToSet(t) PROVE x \in ToSet(u)
    BY <1>1, <1>2, <1>4
  <2> QED
    BY <2>1, <2>2, <2>3
<1>7. ASSUME IsInjective(s), IsInjective(t), ToSet(s) \cap ToSet(t) = {},
             NEW i \in 1 .. m + n, NEW k \in 1 .. m + n, u[i] = u[k]
      PROVE  i = k
  <2>1. CASE i \in 1 .. m /\ k \in 1 .. m
    BY <1>1, <1>3, <1>7, <2>1
  <2>2. CASE i - m \in 1 .. n /\ k - m \in 1 .. n
    <3>1. t[i - m] = t[k - m]
      BY <1>5, <1>7, <2>2
    <3>2. i - m = k - m
      BY <1>3, <1>7, <2>2, <3>1
    <3> QED
      BY <1>1, <3>2
  <2>3. CASE i \in 1 .. m /\ k - m \in 1 .. n
    <3>1. u[i] \in ToSet(s) /\ u[k] \in ToSet(t)
      BY <1>1, <1>2, <1>5, <2>3
    <3> QED
      BY <1>7, <3>1
  <2>4. CASE i - m \in 1 .. n /\ k \in 1 .. m
    <3>1. u[k] \in ToSet(s) /\ u[i] \in ToSet(t)
      BY <1>1, <1>2, <1>5, <2>4
    <3> QED
      BY <1>7, <3>1
  <2> QED
    BY <1>4, <2>1, <2>2, <2>3, <2>4
<1> QED
  BY <1>1, <1>3, <1>6, <1>7 DEF u

(* A part of a list.                                                       *)
LEMMA PartDoes ==
  ASSUME NEW s \in Seq(Nat), NEW a \in Nat \ {0}, NEW z \in 0 .. Len(s)
  PROVE  /\ SubSeq(s, a, z) \in Seq(Nat)
         /\ ToSet(SubSeq(s, a, z)) = {s[i] : i \in a .. z}
         /\ ToSet(SubSeq(s, a, z)) \subseteq ToSet(s)
         /\ IsInjective(s) => IsInjective(SubSeq(s, a, z))
<1> DEFINE t == SubSeq(s, a, z)
           n == Len(t)
<1>1. /\ t \in Seq(Nat) /\ n = IF a =< z THEN z - a + 1 ELSE 0
      /\ \A i \in 1 .. z - a + 1 : t[i] = s[a + i - 1]
  BY SubSeqProperties
<1>2. t \in Seq(Nat) /\ n \in Nat /\ n = IF a =< z THEN z - a + 1 ELSE 0
  BY <1>1
<1>3. ASSUME NEW i \in 1 .. n PROVE t[i] = s[a + i - 1] /\ a + i - 1 \in a .. z
  <2>1. a =< z /\ n = z - a + 1
    BY <1>2, <1>3
  <2> HIDE DEF t
  <2> QED
    BY <1>1, <2>1, <1>3
<1> HIDE DEF t
<1>4. /\ ToSet(t) = {t[i] : i \in 1 .. n} /\ ToSet(s) = {s[i] : i \in 1 .. Len(s)}
      /\ IsInjective(s) => \A i, k \in 1 .. Len(s) : s[i] = s[k] => i = k
      /\ (\A i, k \in 1 .. n : t[i] = t[k] => i = k) => IsInjective(t)
  BY <1>2, SetIs
<1> HIDE DEF n
<1>5. \A i \in a .. z : i \in 1 .. Len(s)
  OBVIOUS
<1>6. ASSUME NEW x \in ToSet(t) PROVE x \in {s[i] : i \in a .. z}
  <2>1. PICK i \in 1 .. n : x = t[i]
    BY <1>4, <1>6
  <2> QED
    BY <1>3, <2>1
<1>7. ASSUME NEW i \in a .. z PROVE s[i] \in ToSet(t)
  <2>1. i - a + 1 \in 1 .. n /\ a + (i - a + 1) - 1 = i
    BY <1>2
  <2>2. t[i - a + 1] = s[i]
    BY <1>3, <2>1
  <2> QED
    BY <1>4, <2>1, <2>2
<1>8. ASSUME IsInjective(s), NEW i \in 1 .. n, NEW k \in 1 .. n, t[i] = t[k] PROVE i = k
  <2>1. a + i - 1 \in 1 .. Len(s) /\ a + k - 1 \in 1 .. Len(s)
    BY <1>3, <1>5
  <2>2. a + i - 1 = a + k - 1
    BY <1>3, <1>4, <1>8, <2>1
  <2> QED
    BY <1>2, <2>2
<1>9. {s[i] : i \in a .. z} \subseteq ToSet(s)
  BY <1>4, <1>5
<1>10. ToSet(t) = {s[i] : i \in a .. z}
  BY <1>6, <1>7
<1>11. IsInjective(s) => IsInjective(t)
  BY <1>4, <1>8
<1> QED
  BY <1>2, <1>9, <1>10, <1>11 DEF t

(* What a table loses to a sweep by age leaves the rest as it was.         *)
LEMMA OnlyDoes ==
  ASSUME NEW s \in Seq(Nat), NEW S
  PROVE  /\ Only(s, S) \in Seq(Nat)
         /\ ToSet(Only(s, S)) = ToSet(s) \cap S
         /\ IsInjective(s) => IsInjective(Only(s, S))
<1> DEFINE n == Len(s)
           Done(k) == {s[i] : i \in 1 .. k}
<1>1. n \in Nat /\ \A i \in 1 .. n : s[i] \in Nat
  OBVIOUS
<1>2. PICK g \in [0 .. n -> Seq(Nat)] : Sifts(g, s, S, n) /\ Only(s, S) = g[n]
  BY OnlySifts
<1>3. ToSet(s) = Done(n) /\ (IsInjective(s) => \A i, k \in 1 .. n : s[i] = s[k] => i = k)
  BY SetIs
<1> DEFINE Good(k) == /\ ToSet(g[k]) = Done(k) \cap S
                      /\ IsInjective(s) => IsInjective(g[k])
           U == {k \in 0 .. n : Good(k)}
<1> HIDE DEF n
<1>4. 0 \in U
  <2>1. g[0] = <<>> /\ Done(0) = {} /\ 0 \in 0 .. n
    BY <1>1, <1>2 DEF Sifts
  <2> QED
    BY <2>1, EmptyDoes
<1>5. ASSUME NEW k \in 1 .. n, k - 1 \in U PROVE k \in U
  <2>1. k \in 0 .. n /\ k - 1 \in 0 .. n /\ k \in Nat
    BY <1>1
  <2>2. g[k - 1] \in Seq(Nat) /\ s[k] \in Nat /\ Good(k - 1)
    BY <1>1, <1>2, <1>5, <2>1
  <2>3. g[k] = Sift(g[k - 1], s[k], S)
    BY <1>2 DEF Sifts
  <2>4. 1 .. k = 1 .. k - 1 \cup {k}
    BY <2>1
  <2>5. Done(k) = Done(k - 1) \cup {s[k]}
    BY <2>4
  <2>6. IsInjective(s) => s[k] \notin Done(k - 1)
    <3> SUFFICES ASSUME IsInjective(s), NEW i \in 1 .. k - 1, s[i] = s[k] PROVE FALSE
      OBVIOUS
    <3>1. i \in 1 .. n /\ k \in 1 .. n /\ i # k
      BY <1>1, <2>1
    <3> QED
      BY <1>3, <3>1
  <2> HIDE DEF Done
  <2>7. CASE s[k] \in S
    <3>1. g[k] = Append(g[k - 1], s[k])
      BY <2>3, <2>7 DEF Sift
    <3>2. /\ ToSet(g[k]) = ToSet(g[k - 1]) \cup {s[k]}
          /\ IsInjective(g[k - 1]) /\ s[k] \notin ToSet(g[k - 1]) => IsInjective(g[k])
      BY <2>2, <3>1, AppendDoes
    <3> QED
      BY <2>1, <2>2, <2>5, <2>6, <2>7, <3>2
  <2>8. CASE s[k] \notin S
    <3>1. g[k] = g[k - 1]
      BY <2>3, <2>8 DEF Sift
    <3> QED
      BY <2>1, <2>2, <2>5, <2>8, <3>1
  <2> QED
    BY <2>7, <2>8
<1> HIDE DEF U
<1>6. n \in U
  BY <1>1, <1>4, <1>5, Rounds
<1>7. Good(n)
  BY <1>6 DEF U
<1> QED
  BY <1>1, <1>2, <1>3, <1>7

-----------------------------------------------------------------------------
(* The inductive invariant.                                                *)

(* The types, with lines as numbers.                                       *)
Typed ==
  /\ pc \in [Calls -> {"idle", "running", "returned", "ended", "lost"}]
  /\ lines \in Seq(Threads) /\ Len(lines) =< MaxLines
  /\ buffer \in Seq(Nat) /\ open \in Seq(Nat)
  /\ records \in Seq(Nat) /\ chunks \in Seq(Nat)
  /\ taken \in [Threads -> Seq(Nat)]
  /\ lock \in Calls \cup {None} /\ serving \in Threads \cup {None}
  /\ wal \in 0 .. WalMax + 1
  /\ failures \in 0 .. MaxFailures /\ ends \in 0 .. MaxEnds
  /\ sweep \in {"none", "due", "size", "mark"}

Buffered == ToSet(buffer)
InBatch(t) == ToSet(taken[t])
Recorded == ToSet(records)
Opened == ToSet(open)
Pumped == ToSet(chunks)
Stored == Recorded \cup Opened \cup Pumped
Written == DOMAIN lines

(* Every list is of lines that were written, each once, and a line is in   *)
(* one list at a time; what was deleted is in none.                        *)
Apart ==
  /\ IsInjective(buffer) /\ IsInjective(open)
  /\ IsInjective(records) /\ IsInjective(chunks)
  /\ \A t \in Threads :
       /\ IsInjective(taken[t])
       /\ InBatch(t) \subseteq Written
       /\ InBatch(t) \cap (Buffered \cup Stored \cup deleted) = {}
       /\ \A u \in Threads : t # u => InBatch(t) \cap InBatch(u) = {}
  /\ Buffered \cap (Stored \cup deleted) = {}
  /\ Recorded \cap Opened = {} /\ Recorded \cap Pumped = {} /\ Opened \cap Pumped = {}
  /\ Stored \cap deleted = {}
  /\ Buffered \cup Stored \cup deleted \cup dropped \subseteq Written

(* A batch is in the hands of the loop, which ends a request, or of the    *)
(* thread that holds the lock; the request of a call that is being ended   *)
(* has returned.                                                           *)
Held ==
  /\ \A t \in Threads : taken[t] # <<>> =>
       IF t = Loop THEN serving # None ELSE lock = t
  /\ \A c \in Calls : serving = c => pc[c] = "returned"

Landed == Recorded \cup dropped \cup deleted

InHand(n) == n \in Buffered \/ \E t \in Threads : n \in InBatch(t)

(* Where a line that call c wrote may be.                                  *)
Traced(n, c) ==
  /\ pc[c] # "idle"
  /\ pc[c] \in {"running", "returned"} => InHand(n) \/ n \in Landed
  /\ pc[c] = "ended" => n \in Landed
  /\ serving = c => n \notin Buffered /\ \A t \in Calls : n \notin InBatch(t)

Followed == \A c \in Calls \ Streams, n \in Written : lines[n] = c => Traced(n, c)

(* An interval in which a sweep ended is over for the sweeps to come.      *)
Swept ==
  /\ interval \in 0 .. MaxIntervals /\ last \in -1 .. interval
  /\ since \in [at : 0 .. interval, early : BOOLEAN]
  /\ sweep # "none" => last =< since.at /\ (~since.early => last < since.at)
  /\ swept \in [0 .. MaxIntervals -> {0, 1}]
  /\ \A e \in 0 .. MaxIntervals : swept[e] = 1 => e =< last

Inductive == Typed /\ Apart /\ Held /\ Followed /\ Swept

-----------------------------------------------------------------------------
(* What the actions do to the lists.                                       *)

LEMMA Known ==
  /\ Loop \notin Calls /\ None \notin Threads /\ Threads = Calls \cup {Loop}
  /\ WalMax \in Nat /\ MaxLines \in Nat /\ MaxFailures \in Nat /\ MaxEnds \in Nat
  /\ MaxIntervals \in Nat /\ Batch \in Nat \ {0}
BY DiagnosticsAssumption DEF Threads

(* A line is written.                                                      *)
LEMMA LineDoes ==
  ASSUME Typed, NEW t \in Threads, Len(lines) < MaxLines, lines' = Append(lines, t)
  PROVE  /\ NewLine \in Nat /\ NewLine \notin Written /\ Written' = Written \cup {NewLine}
         /\ lines' \in Seq(Threads) /\ Len(lines') =< MaxLines
         /\ lines'[NewLine] = t /\ \A n \in Written : lines'[n] = lines[n]
<1>1. lines \in Seq(Threads) /\ MaxLines \in Nat
  BY Known DEF Typed
<1>2. /\ Len(lines) \in Nat /\ DOMAIN lines = 1 .. Len(lines)
      /\ lines' \in Seq(Threads) /\ Len(lines') = Len(lines) + 1
      /\ DOMAIN lines' = 1 .. Len(lines) + 1
      /\ lines'[Len(lines) + 1] = t /\ \A n \in 1 .. Len(lines) : lines'[n] = lines[n]
  BY <1>1
<1> QED
  BY <1>1, <1>2 DEF Written, NewLine

(* A line is added to the buffer, or thread c takes them all.              *)
LEMMA LogDoes ==
  ASSUME Typed, Apart, NEW c \in Calls, NEW w \in BOOLEAN, Log(c, w)
  PROVE  /\ lines' = Append(lines, c) /\ Len(lines) < MaxLines
         /\ pc[c] = "running" /\ lock = None
         /\ UNCHANGED <<pc, serving, storeVars, ends, sweepVars>>
         /\ \/ /\ buffer' \in Seq(Nat) /\ IsInjective(buffer')
               /\ Buffered' = Buffered \cup {NewLine}
               /\ UNCHANGED <<taken, lock>>
            \/ /\ buffer' = <<>> /\ Buffered' = {} /\ lock' = c
               /\ taken' \in [Threads -> Seq(Nat)] /\ IsInjective(taken'[c])
               /\ \A t \in Threads : taken'[t] = IF t = c THEN taken'[c] ELSE taken[t]
               /\ \A t \in Threads : InBatch(t)' = IF t = c THEN Buffered \cup {NewLine}
                                                          ELSE InBatch(t)
<1>1. lines' = Append(lines, c) /\ Len(lines) < MaxLines /\ pc[c] = "running" /\ lock = None
  BY DEF Log
<1>2. UNCHANGED <<pc, serving, storeVars, ends, sweepVars>>
  BY DEF Log
<1>3. c \in Threads /\ buffer \in Seq(Nat) /\ taken \in [Threads -> Seq(Nat)]
  BY Known DEF Typed
<1>4. NewLine \in Nat /\ NewLine \notin Written
  BY <1>1, <1>3, LineDoes
<1> DEFINE b == Append(buffer, NewLine)
<1>5. NewLine \notin Buffered
  BY <1>4 DEF Apart
<1>6. b \in Seq(Nat) /\ IsInjective(b) /\ ToSet(b) = Buffered \cup {NewLine}
  BY <1>3, <1>4, <1>5, AppendDoes DEF Apart, Buffered
<1> HIDE DEF b
<1>7. CASE ~w
  <2>1. buffer' = b /\ UNCHANGED <<taken, lock>>
    BY <1>7 DEF Log, b
  <2> QED
    BY <1>1, <1>2, <1>6, <2>1 DEF Buffered
<1>8. CASE w
  <2>1. buffer' = <<>> /\ taken' = [taken EXCEPT ![c] = b] /\ lock' = c
    BY <1>8 DEF Log, Take, b
  <2>2. /\ taken' \in [Threads -> Seq(Nat)] /\ taken'[c] = b
        /\ \A t \in Threads : taken'[t] = IF t = c THEN b ELSE taken[t]
    BY <1>3, <1>6, <2>1
  <2>3. Buffered' = {}
    BY <2>1, EmptyDoes DEF Buffered
  <2>4. \A t \in Threads : InBatch(t)' = IF t = c THEN Buffered \cup {NewLine} ELSE InBatch(t)
    BY <1>6, <2>2 DEF InBatch
  <2> QED
    BY <1>1, <1>2, <1>6, <2>1, <2>2, <2>3, <2>4
<1> QED
  BY <1>7, <1>8

(* The loop takes the buffer when nobody has a batch.                      *)
LEMMA FlushDoes ==
  ASSUME Typed, Apart, Held, NEW r \in Threads, Flush(r)
  PROVE  /\ serving = None /\ lock = None /\ \A t \in Threads : InBatch(t) = {}
         /\ UNCHANGED <<lines, lock, storeVars, ends, sweepVars>>
         /\ buffer' = <<>> /\ Buffered' = {}
         /\ taken' \in [Threads -> Seq(Nat)] /\ taken'[Loop] = buffer
         /\ \A t \in Threads : taken'[t] = IF t = Loop THEN buffer ELSE taken[t]
         /\ \A t \in Threads : InBatch(t)' = IF t = Loop THEN Buffered ELSE {}
         /\ serving' = IF buffer = <<>> THEN None ELSE r
         /\ IF r = Loop THEN pc' = pc
            ELSE pc[r] = "returned"
                 /\ pc' = [pc EXCEPT ![r] = IF buffer = <<>> THEN "ended" ELSE @]
<1>1. /\ serving = None /\ lock = None
      /\ UNCHANGED <<lines, lock, storeVars, ends, sweepVars>>
      /\ buffer' = <<>> /\ taken' = [taken EXCEPT ![Loop] = buffer]
      /\ serving' = IF buffer = <<>> THEN None ELSE r
      /\ IF r = Loop THEN pc' = pc
         ELSE pc[r] = "returned"
              /\ pc' = [pc EXCEPT ![r] = IF buffer = <<>> THEN "ended" ELSE @]
  BY DEF Flush, Take
<1>2. /\ buffer \in Seq(Nat) /\ taken \in [Threads -> Seq(Nat)] /\ Loop \in Threads
  BY Known DEF Typed
<1>3. \A t \in Threads : taken[t] = <<>>
  BY <1>1, Known DEF Held
<1>4. \A t \in Threads : InBatch(t) = {}
  BY <1>3, EmptyDoes DEF InBatch
<1>5. /\ taken' \in [Threads -> Seq(Nat)] /\ taken'[Loop] = buffer
      /\ \A t \in Threads : taken'[t] = IF t = Loop THEN buffer ELSE taken[t]
  BY <1>1, <1>2
<1>6. Buffered' = {}
  BY <1>1, EmptyDoes DEF Buffered
<1>7. \A t \in Threads : InBatch(t)' = IF t = Loop THEN Buffered ELSE {}
  <2> SUFFICES ASSUME NEW t \in Threads
               PROVE  ToSet(taken'[t]) = IF t = Loop THEN ToSet(buffer) ELSE {}
    BY DEF InBatch, Buffered
  <2> QED
    BY <1>3, <1>5, EmptyDoes
<1> QED
  BY <1>1, <1>4, <1>5, <1>6, <1>7

(* The batch of t is gone.                                                 *)
LEMMA FlushedDoes ==
  ASSUME Typed, NEW t \in Threads, Flushed(t)
  PROVE  /\ taken' \in [Threads -> Seq(Nat)]
         /\ \A u \in Threads : taken'[u] = IF u = t THEN <<>> ELSE taken[u]
         /\ \A u \in Threads : InBatch(u)' = IF u = t THEN {} ELSE InBatch(u)
         /\ lock' = IF lock = t THEN None ELSE lock
         /\ serving' = IF t = Loop THEN None ELSE serving
         /\ pc' \in [Calls -> {"idle", "running", "returned", "ended", "lost"}]
         /\ \A c \in Calls : pc'[c] = IF t = Loop /\ serving = c THEN "ended" ELSE pc[c]
<1>1. /\ taken' = [taken EXCEPT ![t] = <<>>]
      /\ lock' = IF lock = t THEN None ELSE lock
      /\ serving' = IF t = Loop THEN None ELSE serving
      /\ pc' = IF t = Loop /\ serving \in Calls THEN [pc EXCEPT ![serving] = "ended"] ELSE pc
  BY DEF Flushed
<1>2. /\ taken \in [Threads -> Seq(Nat)]
      /\ pc \in [Calls -> {"idle", "running", "returned", "ended", "lost"}]
  BY DEF Typed
<1>3. /\ taken' \in [Threads -> Seq(Nat)]
      /\ \A u \in Threads : taken'[u] = IF u = t THEN <<>> ELSE taken[u]
  BY <1>1, <1>2, EmptyDoes
<1>4. \A u \in Threads : InBatch(u)' = IF u = t THEN {} ELSE InBatch(u)
  BY <1>3, EmptyDoes DEF InBatch
<1>5. /\ pc' \in [Calls -> {"idle", "running", "returned", "ended", "lost"}]
      /\ \A c \in Calls : pc'[c] = IF t = Loop /\ serving = c THEN "ended" ELSE pc[c]
  BY <1>1, <1>2
<1> QED
  BY <1>1, <1>3, <1>4, <1>5

LEMMA CommitDoes ==
  ASSUME Typed, Apart, NEW t \in Threads, Commit(t)
  PROVE  /\ records' \in Seq(Nat) /\ IsInjective(records')
         /\ Recorded' = Recorded \cup Opened \cup InBatch(t)
         /\ open' = <<>> /\ Opened' = {}
<1>1. /\ records \in Seq(Nat) /\ open \in Seq(Nat) /\ taken[t] \in Seq(Nat)
      /\ IsInjective(records) /\ IsInjective(open) /\ IsInjective(taken[t])
      /\ Recorded \cap Opened = {} /\ (Recorded \cup Opened) \cap InBatch(t) = {}
  BY DEF Typed, Apart, Stored
<1>2. /\ records \o open \in Seq(Nat) /\ IsInjective(records \o open)
      /\ ToSet(records \o open) = Recorded \cup Opened
  BY <1>1, ConcatDoes DEF Recorded, Opened
<1> DEFINE q == records \o open
<1>3. q \in Seq(Nat) /\ IsInjective(q) /\ ToSet(q) \cap ToSet(taken[t]) = {}
  BY <1>1, <1>2 DEF InBatch
<1>4. records' = q \o taken[t] /\ open' = <<>>
  BY DEF Commit
<1> HIDE DEF q
<1>5. /\ records' \in Seq(Nat) /\ IsInjective(records')
      /\ ToSet(records') = ToSet(q) \cup ToSet(taken[t])
  BY <1>1, <1>3, <1>4, ConcatDoes
<1>6. Recorded' = Recorded \cup Opened \cup InBatch(t)
  BY <1>2, <1>5 DEF Recorded, InBatch, q
<1> QED
  BY <1>4, <1>5, <1>6, EmptyDoes DEF Opened

LEMMA CommitFailsDoes ==
  ASSUME Typed, Apart, NEW t \in Threads, CommitFails(t)
  PROVE  /\ open' \in Seq(Nat) /\ IsInjective(open')
         /\ Opened \subseteq Opened' /\ Opened' \subseteq Opened \cup InBatch(t)
         /\ dropped' = dropped \cup InBatch(t)
<1>1. /\ open \in Seq(Nat) /\ taken[t] \in Seq(Nat)
      /\ IsInjective(open) /\ IsInjective(taken[t]) /\ Opened \cap InBatch(t) = {}
  BY DEF Typed, Apart, Stored
<1>2. PICK k \in 0 .. Len(taken[t]) : open' = open \o SubSeq(taken[t], 1, k)
  BY DEF CommitFails
<1> DEFINE q == SubSeq(taken[t], 1, k)
<1>3. q \in Seq(Nat) /\ IsInjective(q) /\ ToSet(q) \subseteq ToSet(taken[t])
  BY <1>1, PartDoes
<1> HIDE DEF q
<1>4. ToSet(open) \cap ToSet(q) = {}
  BY <1>1, <1>3 DEF Opened, InBatch
<1>5. /\ open' \in Seq(Nat) /\ IsInjective(open')
      /\ ToSet(open') = ToSet(open) \cup ToSet(q)
  BY <1>1, <1>2, <1>3, <1>4, ConcatDoes DEF q
<1>6. dropped' = dropped \cup InBatch(t)
  BY DEF CommitFails, InBatch
<1> QED
  BY <1>3, <1>5, <1>6 DEF Opened, InBatch

(* A line of the worker's pipe becomes a row, or is dropped.               *)
LEMMA PumpDoes ==
  ASSUME Typed, Apart, Pump
  PROVE  /\ lines' = Append(lines, Loop) /\ Len(lines) < MaxLines
         /\ UNCHANGED <<pc, buffer, taken, lock, serving, open, records, failures, ends,
                        sweepVars>>
         /\ chunks' \in Seq(Nat) /\ IsInjective(chunks')
         /\ \/ Pumped' = Pumped \cup {NewLine} /\ dropped' = dropped
            \/ Pumped' = Pumped /\ dropped' = dropped \cup {NewLine}
         /\ wal' \in 0 .. WalMax + 1
<1>1. /\ lines' = Append(lines, Loop) /\ Len(lines) < MaxLines
      /\ UNCHANGED <<pc, buffer, taken, lock, serving, open, records, failures, ends,
                     sweepVars>>
  BY DEF Pump
<1>2. chunks \in Seq(Nat) /\ IsInjective(chunks) /\ wal \in 0 .. WalMax + 1
  BY DEF Typed, Apart
<1>3. NewLine \in Nat /\ NewLine \notin Written
  BY <1>1, LineDoes, Known
<1>4. NewLine \notin ToSet(chunks)
  BY <1>3 DEF Apart, Stored, Pumped
<1>5. CASE Writable
  <2>1. chunks' = Append(chunks, NewLine) /\ dropped' = dropped
    BY <1>5 DEF Pump, AppendChunk
  <2>2. chunks' \in Seq(Nat) /\ IsInjective(chunks') /\ Pumped' = Pumped \cup {NewLine}
    BY <1>2, <1>3, <1>4, <2>1, AppendDoes DEF Pumped
  <2>3. wal' = IF wal > WalMax THEN wal ELSE wal + 1
    BY <1>5 DEF Pump, AppendChunk
  <2>4. wal' \in 0 .. WalMax + 1
    BY <1>2, <2>3, Known
  <2> QED
    BY <1>1, <2>1, <2>2, <2>4
<1>6. CASE ~Writable
  BY <1>1, <1>2, <1>6 DEF Pump, Pumped
<1> QED
  BY <1>5, <1>6

(* A sweep moves lines from the tables to what was deleted.                *)
LEMMA SweepDoes ==
  ASSUME Typed, Apart, ByAge \/ BySize
  PROVE  /\ records' \in Seq(Nat) /\ IsInjective(records') /\ Recorded' \subseteq Recorded
         /\ chunks' \in Seq(Nat) /\ IsInjective(chunks') /\ Pumped' \subseteq Pumped
         /\ deleted' = deleted \cup (Recorded \ Recorded') \cup (Pumped \ Pumped')
<1>1. /\ records \in Seq(Nat) /\ IsInjective(records)
      /\ chunks \in Seq(Nat) /\ IsInjective(chunks)
      /\ Recorded \cup Pumped \subseteq Written
  BY DEF Typed, Apart, Stored
<1>2. CASE ByAge
  <2>1. PICK cutoff \in 1 .. NewLine :
          LET recent == cutoff .. Len(lines) IN
          /\ records' = Only(records, recent)
          /\ chunks' = Only(chunks, recent)
          /\ deleted' = deleted \cup ((ToSet(records) \cup ToSet(chunks)) \ recent)
    BY <1>2 DEF ByAge
  <2> DEFINE recent == cutoff .. Len(lines)
  <2>2. /\ records' \in Seq(Nat) /\ IsInjective(records')
        /\ ToSet(records') = ToSet(records) \cap recent
    BY <1>1, <2>1, OnlyDoes
  <2>3. /\ chunks' \in Seq(Nat) /\ IsInjective(chunks')
        /\ ToSet(chunks') = ToSet(chunks) \cap recent
    BY <1>1, <2>1, OnlyDoes
  <2> HIDE DEF recent
  <2>4. deleted' = deleted \cup ((ToSet(records) \cup ToSet(chunks)) \ recent)
    BY <2>1 DEF recent
  <2> QED
    BY <2>2, <2>3, <2>4 DEF Recorded, Pumped
<1>3. ASSUME NEW s \in Seq(Nat), IsInjective(s)
      PROVE  /\ Newer(s) \in Seq(Nat) /\ IsInjective(Newer(s))
             /\ ToSet(Newer(s)) \subseteq ToSet(s)
             /\ ToSet(Oldest(s)) = ToSet(s) \ ToSet(Newer(s))
  <2> DEFINE n == Len(s)
             z == IF n < Batch THEN n ELSE Batch
  <2>1. /\ n \in Nat /\ Batch \in Nat \ {0} /\ z \in 0 .. n /\ n \in 0 .. n
        /\ z = IF n < Batch THEN n ELSE Batch
    BY <1>3, Known
  <2>2. Newer(s) = SubSeq(s, Batch + 1, Len(s)) /\ Oldest(s) = SubSeq(s, 1, z)
    BY DEF Newer, Oldest
  <2> HIDE DEF z
  <2> DEFINE a == Batch + 1
  <2>3. a \in Nat \ {0} /\ Len(s) \in 0 .. Len(s)
    BY <2>1
  <2>4. z \in 0 .. Len(s) /\ 1 \in Nat \ {0}
    BY <2>1
  <2> HIDE DEF a
  <2>5. /\ SubSeq(s, a, Len(s)) \in Seq(Nat) /\ IsInjective(SubSeq(s, a, Len(s)))
         /\ ToSet(SubSeq(s, a, Len(s))) \subseteq ToSet(s)
         /\ ToSet(SubSeq(s, a, Len(s))) = {s[i] : i \in a .. Len(s)}
    BY <1>3, <2>3, PartDoes
  <2>6. /\ Newer(s) \in Seq(Nat) /\ IsInjective(Newer(s))
        /\ ToSet(Newer(s)) \subseteq ToSet(s)
        /\ ToSet(Newer(s)) = {s[i] : i \in Batch + 1 .. n}
    BY <2>2, <2>5 DEF a
  <2>7. ToSet(SubSeq(s, 1, z)) = {s[i] : i \in 1 .. z}
    BY <1>3, <2>4, PartDoes
  <2>8. ToSet(Oldest(s)) = {s[i] : i \in 1 .. z}
    BY <2>2, <2>7
  <2>9. ToSet(s) = {s[i] : i \in 1 .. n} /\ \A i, k \in 1 .. n : s[i] = s[k] => i = k
    BY <1>3, SetIs
  <2> HIDE DEF n
  <2>10. \A i \in 1 .. n : i \in 1 .. z \/ i \in Batch + 1 .. n
    BY <2>1
  <2>11. /\ \A i \in 1 .. z : i \in 1 .. n
        /\ \A i \in Batch + 1 .. n : i \in 1 .. n /\ i \notin 1 .. z
    BY <2>1
  <2>12. ASSUME NEW x \in ToSet(Oldest(s)) PROVE x \in ToSet(s) /\ x \notin ToSet(Newer(s))
    <3>1. PICK i \in 1 .. z : x = s[i]
      BY <2>8, <2>12
    <3>2. i \in 1 .. n /\ \A k \in Batch + 1 .. n : s[k] # s[i]
      BY <2>9, <2>11, <3>1
    <3> QED
      BY <2>6, <2>9, <3>1, <3>2
  <2>13. ASSUME NEW x \in ToSet(s), x \notin ToSet(Newer(s)) PROVE x \in ToSet(Oldest(s))
    BY <2>6, <2>8, <2>9, <2>10, <2>13
  <2> QED
    BY <2>6, <2>12, <2>13
<1>4. CASE BySize /\ Over
  <2>1. /\ records' = Newer(records) /\ chunks' = Newer(chunks)
        /\ deleted' = deleted \cup ToSet(Oldest(records)) \cup ToSet(Oldest(chunks))
    BY <1>4 DEF BySize
  <2> QED
    BY <1>1, <1>3, <2>1 DEF Recorded, Pumped
<1>5. CASE BySize /\ ~Over
  BY <1>1, <1>5 DEF BySize, Recorded, Pumped
<1> QED
  BY <1>2, <1>4, <1>5

-----------------------------------------------------------------------------
(* What the actions leave alone.                                           *)

LEMMA SameLists ==
  ASSUME Apart, UNCHANGED <<lines, buffer, taken, open, records, chunks, dropped, deleted>>
  PROVE  /\ Apart' /\ Written' = Written /\ Landed' = Landed
         /\ Buffered' = Buffered /\ \A t \in Threads : InBatch(t)' = InBatch(t)
<1>1. /\ Buffered' = Buffered /\ \A t \in Threads : InBatch(t)' = InBatch(t)
      /\ Recorded' = Recorded /\ Opened' = Opened /\ Pumped' = Pumped /\ Written' = Written
  BY DEF Buffered, InBatch, Recorded, Opened, Pumped, Written
<1>2. Apart'
  BY <1>1 DEF Apart, Stored
<1> QED
  BY <1>1, <1>2 DEF Landed

(* The lines of call c are where they may be if they were, its state and   *)
(* whose request is being ended are as before, and nothing was lost.       *)
LEMMA SameTrace ==
  ASSUME Typed, Followed, NEW c \in Calls \ Streams, NEW n \in Written, lines[n] = c,
         pc'[c] = pc[c], serving' = c => serving = c,
         InHand(n) => InHand(n)' \/ n \in Landed',
         n \in Landed => n \in Landed',
         n \notin Buffered => n \notin Buffered',
         \A t \in Calls : n \in InBatch(t)' => n \in InBatch(t)
  PROVE  Traced(n, c)'
<1>1. Traced(n, c)
  BY DEF Followed
<1> QED
  BY <1>1 DEF Traced

LEMMA CallsAreThreads == Calls \subseteq Threads
BY DEF Threads

(* An action that moves no line, and ends no request.                      *)
LEMMA QuietFollowed ==
  ASSUME Typed, Apart, Followed,
         UNCHANGED <<lines, buffer, taken, open, records, chunks, dropped, deleted, serving>>,
         \A c \in Calls : \/ pc'[c] = pc[c]
                          \/ pc[c] = "idle" /\ pc'[c] = "running"
                          \/ pc[c] = "running" /\ pc'[c] = "returned"
                          \/ c \in Streams
  PROVE  Followed'
<1>1. /\ Written' = Written /\ Landed' = Landed /\ Buffered' = Buffered
      /\ \A t \in Threads : InBatch(t)' = InBatch(t)
  BY SameLists
<1> SUFFICES ASSUME NEW c \in Calls \ Streams, NEW n \in Written', lines'[n] = c
             PROVE  Traced(n, c)'
  BY DEF Followed
<1>2. n \in Written /\ lines[n] = c
  BY <1>1
<1>3. Traced(n, c)
  BY <1>2 DEF Followed
<1>4. InHand(n) => InHand(n)'
  BY <1>1 DEF InHand
<1> QED
  BY <1>1, <1>3, <1>4, CallsAreThreads DEF Traced

-----------------------------------------------------------------------------
(* Every action keeps the invariant.                                       *)

LEMMA BeginKeeps ==
  ASSUME Inductive, NEW c \in Calls, Begin(c)
  PROVE  Inductive'
<1>1. /\ pc[c] = "idle" /\ pc' = [pc EXCEPT ![c] = "running"]
      /\ UNCHANGED <<handlerVars, storeVars, ends, sweepVars>>
  BY DEF Begin
<1> USE <1>1 DEF handlerVars, storeVars, sweepVars, Inductive
<1>2. Typed'
  BY DEF Typed
<1>3. Apart'
  BY SameLists
<1>4. \A d \in Calls : pc'[d] = IF d = c THEN "running" ELSE pc[d]
  BY DEF Typed
<1>5. Held'
  BY <1>4 DEF Held
<1>6. Followed'
  BY <1>4, QuietFollowed
<1>7. Swept'
  BY DEF Swept
<1> QED
  BY <1>2, <1>3, <1>5, <1>6, <1>7

LEMMA ReturnsKeeps ==
  ASSUME Inductive, NEW c \in Calls, Returns(c)
  PROVE  Inductive'
<1>1. /\ pc[c] = "running"
      /\ pc' = [pc EXCEPT ![c] = IF c \in Streams THEN "ended" ELSE "returned"]
      /\ UNCHANGED <<handlerVars, storeVars, ends, sweepVars>>
  BY DEF Returns
<1> USE <1>1 DEF handlerVars, storeVars, sweepVars, Inductive
<1>2. Typed'
  BY DEF Typed
<1>3. Apart'
  BY SameLists
<1>4. \A d \in Calls : pc'[d] = IF d # c THEN pc[d]
                                ELSE IF c \in Streams THEN "ended" ELSE "returned"
  BY DEF Typed
<1>5. Held'
  BY <1>4 DEF Held
<1>6. Followed'
  BY <1>4, QuietFollowed
<1>7. Swept'
  BY DEF Swept
<1> QED
  BY <1>2, <1>3, <1>5, <1>6, <1>7

LEMMA LogKeeps ==
  ASSUME Inductive, NEW c \in Calls, NEW w \in BOOLEAN, Log(c, w)
  PROVE  Inductive'
<1> USE DEF Inductive
<1>1. /\ lines' = Append(lines, c) /\ Len(lines) < MaxLines
      /\ pc[c] = "running" /\ lock = None
      /\ UNCHANGED <<pc, serving, storeVars, ends, sweepVars>>
      /\ \/ /\ buffer' \in Seq(Nat) /\ IsInjective(buffer')
            /\ Buffered' = Buffered \cup {NewLine}
            /\ UNCHANGED <<taken, lock>>
         \/ /\ buffer' = <<>> /\ Buffered' = {} /\ lock' = c
            /\ taken' \in [Threads -> Seq(Nat)] /\ IsInjective(taken'[c])
            /\ \A t \in Threads : taken'[t] = IF t = c THEN taken'[c] ELSE taken[t]
            /\ \A t \in Threads : InBatch(t)' = IF t = c THEN Buffered \cup {NewLine}
                                                       ELSE InBatch(t)
  BY LogDoes
<1>2. c \in Threads /\ c # Loop
  BY Known
<1>3. /\ NewLine \in Nat /\ NewLine \notin Written /\ Written' = Written \cup {NewLine}
      /\ lines' \in Seq(Threads) /\ Len(lines') =< MaxLines
      /\ lines'[NewLine] = c /\ \A n \in Written : lines'[n] = lines[n]
  BY <1>1, <1>2, LineDoes
<1>4. /\ Recorded' = Recorded /\ Opened' = Opened /\ Pumped' = Pumped
      /\ UNCHANGED <<open, records, chunks, dropped, deleted>>
  BY <1>1 DEF storeVars, sweepVars, Recorded, Opened, Pumped
<1>5. \A t \in Calls : InBatch(t) = {}
  <2> SUFFICES ASSUME NEW t \in Calls PROVE taken[t] = <<>>
    BY EmptyDoes DEF InBatch
  <2>1. t \in Threads /\ t # Loop /\ lock # t
    BY <1>1, Known
  <2> QED
    BY <2>1 DEF Held
<1>6. \/ /\ buffer' \in Seq(Nat) /\ IsInjective(buffer') /\ taken' = taken /\ lock' = lock
         /\ Buffered' = Buffered \cup {NewLine}
         /\ \A t \in Threads : InBatch(t)' = InBatch(t)
      \/ /\ buffer' = <<>> /\ Buffered' = {} /\ lock' = c
         /\ taken' \in [Threads -> Seq(Nat)] /\ IsInjective(taken'[c])
         /\ \A t \in Threads : taken'[t] = IF t = c THEN taken'[c] ELSE taken[t]
         /\ \A t \in Threads : InBatch(t)' = IF t = c THEN Buffered \cup {NewLine}
                                                    ELSE InBatch(t)
  BY <1>1 DEF InBatch
<1>7. Typed'
  BY <1>1, <1>3, <1>6, EmptyDoes, Known DEF Typed, storeVars, sweepVars
<1>8. Apart'
  <2>1. Buffered \cup {NewLine} \subseteq Written' /\ Stored' = Stored /\ NewLine \notin Stored
        /\ NewLine \notin deleted
    BY <1>3, <1>4 DEF Apart, Stored
  <2>2. /\ IsInjective(buffer') /\ IsInjective(open') /\ IsInjective(records')
        /\ IsInjective(chunks')
    BY <1>4, <1>6, EmptyDoes DEF Apart
  <2>3. \A t \in Threads :
          /\ IsInjective(taken'[t]) /\ InBatch(t)' \subseteq Written'
          /\ InBatch(t)' \cap (Buffered' \cup Stored' \cup deleted') = {}
          /\ \A u \in Threads : t # u => InBatch(t)' \cap InBatch(u)' = {}
    <3>1. CASE /\ Buffered' = Buffered \cup {NewLine} /\ taken' = taken
               /\ \A t \in Threads : InBatch(t)' = InBatch(t)
      BY <1>3, <1>4, <2>1, <3>1 DEF Apart
    <3>2. CASE /\ Buffered' = {} /\ IsInjective(taken'[c])
               /\ \A t \in Threads : taken'[t] = IF t = c THEN taken'[c] ELSE taken[t]
               /\ \A t \in Threads : InBatch(t)' = IF t = c THEN Buffered \cup {NewLine}
                                                          ELSE InBatch(t)
      BY <1>2, <1>3, <1>4, <2>1, <3>2 DEF Apart
    <3> QED
      BY <1>6, <3>1, <3>2
  <2>4. /\ Buffered' \cap (Stored' \cup deleted') = {}
        /\ Recorded' \cap Opened' = {} /\ Recorded' \cap Pumped' = {}
        /\ Opened' \cap Pumped' = {} /\ Stored' \cap deleted' = {}
        /\ Buffered' \cup Stored' \cup deleted' \cup dropped' \subseteq Written'
    BY <1>3, <1>4, <1>6, <2>1 DEF Apart
  <2> QED
    BY <2>2, <2>3, <2>4 DEF Apart
<1>9. Held'
  <2>1. \A t \in Threads : taken'[t] # <<>> => t = c \/ taken[t] # <<>>
    BY <1>6
  <2>2. \A t \in Threads : taken[t] # <<>> => t = Loop /\ serving # None
    BY <1>1, Known DEF Held
  <2>3. taken'[c] # <<>> => lock' = c
    BY <1>2, <1>6, <2>2
  <2> QED
    BY <1>1, <1>2, <2>1, <2>2, <2>3 DEF Held
<1>10. Followed'
  <2> SUFFICES ASSUME NEW d \in Calls \ Streams, NEW n \in Written', lines'[n] = d
               PROVE  Traced(n, d)'
    BY DEF Followed
  <2>1. CASE n = NewLine
    <3>1. d = c /\ pc'[d] = "running" /\ serving' # d
      BY <1>1, <1>3, <2>1 DEF Held
    <3>2. InHand(n)'
      BY <1>2, <1>6, <2>1 DEF InHand
    <3> QED
      BY <3>1, <3>2 DEF Traced
  <2>2. CASE n # NewLine
    <3>1. n \in Written /\ lines[n] = d /\ pc'[d] = pc[d] /\ serving' = serving
          /\ Landed' = Landed
      BY <1>1, <1>3, <1>4, <2>2 DEF Landed
    <3>2. InHand(n) => InHand(n)'
      BY <1>2, <1>5, <1>6, Known DEF InHand
    <3>3. Traced(n, d)
      BY <3>1 DEF Followed
    <3>4. serving = d => n \notin Buffered' /\ \A t \in Calls : n \notin InBatch(t)'
      BY <1>5, <1>6, <2>2, <3>3, CallsAreThreads DEF Traced
    <3> QED
      BY <3>1, <3>2, <3>3, <3>4 DEF Traced
  <2> QED
    BY <2>1, <2>2
<1>11. Swept'
  BY <1>1 DEF Swept, sweepVars
<1> QED
  BY <1>7, <1>8, <1>9, <1>10, <1>11

LEMMA FlushKeeps ==
  ASSUME Inductive, NEW r \in Threads, Flush(r)
  PROVE  Inductive'
<1> USE DEF Inductive
<1>1. /\ serving = None /\ lock = None /\ \A t \in Threads : InBatch(t) = {}
      /\ UNCHANGED <<lines, lock, storeVars, ends, sweepVars>>
      /\ buffer' = <<>> /\ Buffered' = {}
      /\ taken' \in [Threads -> Seq(Nat)] /\ taken'[Loop] = buffer
      /\ \A t \in Threads : taken'[t] = IF t = Loop THEN buffer ELSE taken[t]
      /\ \A t \in Threads : InBatch(t)' = IF t = Loop THEN Buffered ELSE {}
      /\ serving' = IF buffer = <<>> THEN None ELSE r
      /\ IF r = Loop THEN pc' = pc
         ELSE pc[r] = "returned"
              /\ pc' = [pc EXCEPT ![r] = IF buffer = <<>> THEN "ended" ELSE @]
  BY FlushDoes
<1>2. /\ Recorded' = Recorded /\ Opened' = Opened /\ Pumped' = Pumped /\ Written' = Written
      /\ UNCHANGED <<open, records, chunks, dropped, deleted>>
  BY <1>1 DEF storeVars, sweepVars, Recorded, Opened, Pumped, Written
<1>3. Loop \in Threads /\ None \notin Threads /\ Loop \notin Calls /\ Threads = Calls \cup {Loop}
  BY Known
<1>4. \A d \in Calls : pc'[d] = IF d = r /\ buffer = <<>> THEN "ended" ELSE pc[d]
  BY <1>1, <1>3 DEF Typed
<1>5. pc' \in [Calls -> {"idle", "running", "returned", "ended", "lost"}]
  BY <1>1 DEF Typed
<1>6. Typed'
  BY <1>1, <1>5, EmptyDoes DEF Typed, storeVars, sweepVars
<1>7. Apart'
  <2>1. IsInjective(buffer') /\ \A t \in Threads : IsInjective(taken'[t])
    BY <1>1, EmptyDoes DEF Apart
  <2>2. Stored' = Stored
    BY <1>2 DEF Stored
  <2> QED
    BY <1>1, <1>2, <2>1, <2>2 DEF Apart
<1>8. Held'
  <2>1. \A t \in Threads : t # Loop => taken'[t] = <<>>
    <3> SUFFICES ASSUME NEW t \in Threads, t # Loop PROVE taken[t] = <<>>
      BY <1>1
    <3> QED
      BY <1>1, <1>3 DEF Held
  <2>2. taken'[Loop] # <<>> => serving' # None
    BY <1>1, <1>3
  <2>3. \A c \in Calls : serving' = c => pc'[c] = "returned"
    BY <1>1, <1>3, <1>4
  <2> QED
    BY <1>3, <2>1, <2>2, <2>3 DEF Held
<1>9. Followed'
  <2> SUFFICES ASSUME NEW c \in Calls \ Streams, NEW n \in Written', lines'[n] = c
               PROVE  Traced(n, c)'
    BY DEF Followed
  <2>1. n \in Written /\ lines[n] = c /\ Landed' = Landed
    BY <1>1, <1>2 DEF Landed
  <2>2. Traced(n, c)
    BY <2>1 DEF Followed
  <2>3. InHand(n) => n \in Buffered
    BY <1>1 DEF InHand
  <2>4. InHand(n) => InHand(n)'
    BY <1>1, <1>3, <2>3 DEF InHand
  <2>5. n \notin Buffered' /\ \A t \in Calls : n \notin InBatch(t)'
    BY <1>1, <1>3
  <2>6. CASE c = r /\ buffer = <<>>
    <3>1. pc[c] = "returned" /\ Buffered = {} /\ pc'[c] = "ended" /\ serving' # c
      BY <1>1, <1>3, <1>4, <2>6, EmptyDoes DEF Buffered
    <3> QED
      BY <2>1, <2>2, <2>3, <3>1 DEF Traced
  <2>7. CASE ~(c = r /\ buffer = <<>>)
    <3>1. pc'[c] = pc[c]
      BY <1>4, <2>7
    <3> QED
      BY <2>1, <2>2, <2>4, <2>5, <3>1 DEF Traced
  <2> QED
    BY <2>6, <2>7
<1>10. Swept'
  BY <1>1 DEF Swept, sweepVars
<1> QED
  BY <1>6, <1>7, <1>8, <1>9, <1>10

(* The end of a flush, whichever way its transaction went: the batch is in *)
(* no list any more, or in one of the tables.                              *)
LEMMA FlushedHeld ==
  ASSUME Inductive, NEW t \in Threads, Flushed(t), lines' = lines
  PROVE  Held'
<1>1. /\ \A u \in Threads : taken'[u] = IF u = t THEN <<>> ELSE taken[u]
      /\ lock' = IF lock = t THEN None ELSE lock
      /\ serving' = IF t = Loop THEN None ELSE serving
      /\ \A c \in Calls : pc'[c] = IF t = Loop /\ serving = c THEN "ended" ELSE pc[c]
  BY FlushedDoes DEF Inductive
<1>2. Held
  BY DEF Inductive
<1>3. ASSUME NEW u \in Threads, taken'[u] # <<>>
      PROVE  IF u = Loop THEN serving' # None ELSE lock' = u
  <2>1. u # t /\ taken[u] # <<>>
    BY <1>1, <1>3
  <2> QED
    BY <1>1, <1>2, <2>1 DEF Held
<1>4. \A c \in Calls : serving' = c => pc'[c] = "returned"
  BY <1>1, <1>2, Known DEF Held
<1> QED
  BY <1>3, <1>4 DEF Held

LEMMA FlushedFollowed ==
  ASSUME Inductive, NEW t \in Threads, Flushed(t), lines' = lines, buffer' = buffer,
         Landed \cup InBatch(t) \subseteq Landed'
  PROVE  Followed'
<1> SUFFICES ASSUME NEW c \in Calls \ Streams, NEW n \in Written', lines'[n] = c
             PROVE  Traced(n, c)'
  BY DEF Followed
<1>1. n \in Written /\ lines[n] = c /\ Buffered' = Buffered
  BY DEF Written, Buffered
<1>2. Traced(n, c)
  BY <1>1 DEF Followed, Inductive
<1>3. /\ \A u \in Threads : InBatch(u)' = IF u = t THEN {} ELSE InBatch(u)
      /\ serving' = IF t = Loop THEN None ELSE serving
      /\ pc'[c] = IF t = Loop /\ serving = c THEN "ended" ELSE pc[c]
  BY FlushedDoes DEF Inductive
<1>4. InHand(n) => InHand(n)' \/ n \in Landed'
  BY <1>1, <1>3 DEF InHand
<1>5. Threads = Calls \cup {Loop} /\ None \notin Threads
  BY Known
<1>6. CASE t = Loop /\ serving = c
  <2>1. pc[c] = "returned" /\ pc'[c] = "ended" /\ serving' # c
    BY <1>3, <1>5, <1>6 DEF Inductive, Held
  <2>2. n \notin Buffered /\ \A u \in Calls : n \notin InBatch(u)
    BY <1>2, <1>6 DEF Traced
  <2>3. InHand(n) => n \in InBatch(t)
    BY <1>5, <1>6, <2>2 DEF InHand
  <2>4. n \in Landed'
    BY <1>2, <2>1, <2>3 DEF Traced
  <2> QED
    BY <2>1, <2>4 DEF Traced
<1>7. CASE ~(t = Loop /\ serving = c)
  <2>1. pc'[c] = pc[c] /\ (serving' = c => serving = c)
    BY <1>3, <1>5, <1>7
  <2> QED
    BY <1>1, <1>2, <1>3, <1>4, <1>5, <2>1 DEF Traced
<1> QED
  BY <1>6, <1>7

LEMMA CommitKeeps ==
  ASSUME Inductive, NEW t \in Threads, Commit(t)
  PROVE  Inductive'
<1> USE DEF Inductive
<1>1. /\ Flushed(t) /\ wal' = IF wal > WalMax THEN wal ELSE wal + 1
      /\ UNCHANGED <<lines, buffer, chunks, failures, dropped, ends, sweepVars>>
  BY DEF Commit
<1>2. /\ taken' \in [Threads -> Seq(Nat)]
      /\ \A u \in Threads : taken'[u] = IF u = t THEN <<>> ELSE taken[u]
      /\ \A u \in Threads : InBatch(u)' = IF u = t THEN {} ELSE InBatch(u)
      /\ lock' = IF lock = t THEN None ELSE lock
      /\ serving' = IF t = Loop THEN None ELSE serving
      /\ pc' \in [Calls -> {"idle", "running", "returned", "ended", "lost"}]
  BY <1>1, FlushedDoes
<1>3. /\ records' \in Seq(Nat) /\ IsInjective(records')
      /\ Recorded' = Recorded \cup Opened \cup InBatch(t)
      /\ open' = <<>> /\ Opened' = {}
  BY CommitDoes
<1>4. /\ Buffered' = Buffered /\ Pumped' = Pumped /\ Written' = Written
      /\ UNCHANGED <<buffer, chunks, dropped, deleted>>
  BY <1>1 DEF Buffered, Pumped, Written, sweepVars
<1>5. Typed'
  <2>1. wal' \in 0 .. WalMax + 1
    BY <1>1, Known DEF Typed
  <2> QED
    BY <1>1, <1>2, <1>3, <2>1, EmptyDoes DEF Typed, sweepVars
<1>6. Apart'
  <2>1. Stored' = Stored \cup InBatch(t)
    BY <1>3, <1>4 DEF Stored
  <2>2. \A u \in Threads : IsInjective(taken'[u])
    BY <1>2, EmptyDoes DEF Apart
  <2>3. /\ InBatch(t) \cap (Buffered \cup Stored \cup deleted) = {}
        /\ InBatch(t) \subseteq Written
        /\ \A u \in Threads : u # t => InBatch(u) \cap InBatch(t) = {}
    BY DEF Apart
  <2>4. \A u \in Threads :
          /\ InBatch(u)' \subseteq Written'
          /\ InBatch(u)' \cap (Buffered' \cup Stored' \cup deleted') = {}
          /\ \A v \in Threads : u # v => InBatch(u)' \cap InBatch(v)' = {}
    BY <1>2, <1>4, <2>1, <2>3 DEF Apart
  <2>5. Recorded' \cap Pumped' = {} /\ Stored' \cap deleted' = {}
    BY <1>3, <1>4, <2>1, <2>3 DEF Apart, Stored
  <2>6. /\ Buffered' \cap (Stored' \cup deleted') = {}
        /\ Buffered' \cup Stored' \cup deleted' \cup dropped' \subseteq Written'
    BY <1>4, <2>1, <2>3 DEF Apart
  <2>7. IsInjective(buffer') /\ IsInjective(open') /\ IsInjective(chunks')
    BY <1>3, <1>4, EmptyDoes DEF Apart
  <2> QED
    BY <1>3, <2>2, <2>4, <2>5, <2>6, <2>7 DEF Apart
<1>7. Held'
  BY <1>1, FlushedHeld
<1>8. Followed'
  BY <1>1, <1>3, <1>4, FlushedFollowed DEF Landed
<1>9. Swept'
  BY <1>1 DEF Swept, sweepVars
<1> QED
  BY <1>5, <1>6, <1>7, <1>8, <1>9

LEMMA CommitFailsKeeps ==
  ASSUME Inductive, NEW t \in Threads, CommitFails(t)
  PROVE  Inductive'
<1> USE DEF Inductive
<1>1. /\ Flushed(t) /\ failures < MaxFailures /\ failures' = failures + 1
      /\ UNCHANGED <<lines, buffer, records, chunks, wal, ends, sweepVars>>
  BY DEF CommitFails
<1>2. /\ taken' \in [Threads -> Seq(Nat)]
      /\ \A u \in Threads : taken'[u] = IF u = t THEN <<>> ELSE taken[u]
      /\ \A u \in Threads : InBatch(u)' = IF u = t THEN {} ELSE InBatch(u)
      /\ lock' = IF lock = t THEN None ELSE lock
      /\ serving' = IF t = Loop THEN None ELSE serving
      /\ pc' \in [Calls -> {"idle", "running", "returned", "ended", "lost"}]
  BY <1>1, FlushedDoes
<1>3. /\ open' \in Seq(Nat) /\ IsInjective(open')
      /\ Opened \subseteq Opened' /\ Opened' \subseteq Opened \cup InBatch(t)
      /\ dropped' = dropped \cup InBatch(t)
  BY CommitFailsDoes
<1>4. /\ Buffered' = Buffered /\ Pumped' = Pumped /\ Written' = Written
      /\ Recorded' = Recorded /\ UNCHANGED <<buffer, records, chunks, deleted>>
  BY <1>1 DEF Buffered, Pumped, Written, Recorded, sweepVars
<1>5. Typed'
  <2>1. failures' \in 0 .. MaxFailures
    BY <1>1, Known DEF Typed
  <2> QED
    BY <1>1, <1>2, <1>3, <2>1 DEF Typed, sweepVars
<1>6. Apart'
  <2>1. Stored' \subseteq Stored \cup InBatch(t)
    BY <1>3, <1>4 DEF Stored
  <2>2. \A u \in Threads : IsInjective(taken'[u])
    BY <1>2, EmptyDoes DEF Apart
  <2>3. /\ InBatch(t) \cap (Buffered \cup Stored \cup deleted) = {}
        /\ InBatch(t) \subseteq Written
        /\ \A u \in Threads : u # t => InBatch(u) \cap InBatch(t) = {}
    BY DEF Apart
  <2>4. \A u \in Threads :
          /\ InBatch(u)' \subseteq Written'
          /\ InBatch(u)' \cap (Buffered' \cup Stored' \cup deleted') = {}
          /\ \A v \in Threads : u # v => InBatch(u)' \cap InBatch(v)' = {}
    BY <1>2, <1>4, <2>1, <2>3 DEF Apart
  <2>5. /\ Recorded' \cap Opened' = {} /\ Recorded' \cap Pumped' = {}
        /\ Opened' \cap Pumped' = {} /\ Stored' \cap deleted' = {}
    BY <1>3, <1>4, <2>1, <2>3 DEF Apart, Stored
  <2>6. /\ Buffered' \cap (Stored' \cup deleted') = {}
        /\ Buffered' \cup Stored' \cup deleted' \cup dropped' \subseteq Written'
    BY <1>3, <1>4, <2>1, <2>3 DEF Apart
  <2>7. IsInjective(buffer') /\ IsInjective(records') /\ IsInjective(chunks')
    BY <1>4 DEF Apart
  <2> QED
    BY <1>3, <2>2, <2>4, <2>5, <2>6, <2>7 DEF Apart
<1>7. Held'
  BY <1>1, FlushedHeld
<1>8. Followed'
  BY <1>1, <1>3, <1>4, FlushedFollowed DEF Landed
<1>9. Swept'
  BY <1>1 DEF Swept, sweepVars
<1> QED
  BY <1>5, <1>6, <1>7, <1>8, <1>9

LEMMA CrashKeeps ==
  ASSUME Inductive, Crash
  PROVE  Inductive'
<1> USE DEF Inductive
<1>1. /\ ends < MaxEnds /\ ends' = ends + 1
      /\ pc' = [c \in Calls |-> IF pc[c] \in {"running", "returned"} THEN "lost" ELSE pc[c]]
      /\ buffer' = <<>> /\ open' = <<>> /\ taken' = [t \in Threads |-> <<>>]
      /\ lock' = None /\ serving' = None
      /\ UNCHANGED <<lines, records, chunks, wal, failures, dropped, sweepVars>>
  BY DEF Crash
<1>2. /\ Buffered' = {} /\ Opened' = {} /\ \A t \in Threads : InBatch(t)' = {}
      /\ \A t \in Threads : taken'[t] = <<>>
  BY <1>1, EmptyDoes DEF Buffered, Opened, InBatch
<1>3. /\ Recorded' = Recorded /\ Pumped' = Pumped /\ Written' = Written
      /\ UNCHANGED <<dropped, deleted>>
  BY <1>1 DEF Recorded, Pumped, Written, sweepVars
<1>4. Typed'
  <2>1. ends' \in 0 .. MaxEnds
    BY <1>1, Known DEF Typed
  <2>2. taken' \in [Threads -> Seq(Nat)]
    BY <1>1, EmptyDoes
  <2>3. pc' \in [Calls -> {"idle", "running", "returned", "ended", "lost"}]
    BY <1>1 DEF Typed
  <2> QED
    BY <1>1, <2>1, <2>2, <2>3, EmptyDoes DEF Typed, sweepVars
<1>5. Apart'
  <2>1. Stored' \subseteq Stored
    BY <1>2, <1>3 DEF Stored
  <2>2. /\ IsInjective(buffer') /\ IsInjective(open') /\ IsInjective(records')
        /\ IsInjective(chunks') /\ \A t \in Threads : IsInjective(taken'[t])
    BY <1>1, <1>2, EmptyDoes DEF Apart
  <2> QED
    BY <1>2, <1>3, <2>1, <2>2 DEF Apart
<1>6. Held'
  BY <1>1, <1>2, Known, CallsAreThreads DEF Held
<1>7. Followed'
  <2> SUFFICES ASSUME NEW c \in Calls \ Streams, NEW n \in Written', lines'[n] = c
               PROVE  Traced(n, c)'
    BY DEF Followed
  <2>1. Traced(n, c) /\ Landed' = Landed
    BY <1>1, <1>3 DEF Followed, Landed
  <2>2. /\ pc'[c] = IF pc[c] \in {"running", "returned"} THEN "lost" ELSE pc[c]
        /\ serving' # c
    BY <1>1, Known, CallsAreThreads
  <2> QED
    BY <2>1, <2>2 DEF Traced
<1>8. Swept'
  BY <1>1 DEF Swept, sweepVars
<1> QED
  BY <1>4, <1>5, <1>6, <1>7, <1>8

LEMMA PumpKeeps ==
  ASSUME Inductive, Pump
  PROVE  Inductive'
<1> USE DEF Inductive
<1>1. /\ lines' = Append(lines, Loop) /\ Len(lines) < MaxLines
      /\ UNCHANGED <<pc, buffer, taken, lock, serving, open, records, failures, ends,
                     sweepVars>>
      /\ chunks' \in Seq(Nat) /\ IsInjective(chunks')
      /\ \/ Pumped' = Pumped \cup {NewLine} /\ dropped' = dropped
         \/ Pumped' = Pumped /\ dropped' = dropped \cup {NewLine}
      /\ wal' \in 0 .. WalMax + 1
  BY PumpDoes
<1>2. /\ NewLine \in Nat /\ NewLine \notin Written /\ Written' = Written \cup {NewLine}
      /\ lines' \in Seq(Threads) /\ Len(lines') =< MaxLines
      /\ lines'[NewLine] = Loop /\ \A n \in Written : lines'[n] = lines[n]
  BY <1>1, Known, LineDoes
<1>3. /\ Recorded' = Recorded /\ Opened' = Opened /\ Buffered' = Buffered
      /\ \A t \in Threads : InBatch(t)' = InBatch(t)
      /\ UNCHANGED <<buffer, taken, open, records, deleted>>
  BY <1>1 DEF sweepVars, Recorded, Opened, Buffered, InBatch
<1>4. Typed'
  BY <1>1, <1>2 DEF Typed, sweepVars
<1>5. Apart'
  <2>1. /\ NewLine \notin Stored /\ NewLine \notin deleted /\ NewLine \notin Buffered
        /\ \A t \in Threads : NewLine \notin InBatch(t)
    BY <1>2 DEF Apart
  <2>2. Stored' \subseteq Stored \cup {NewLine}
    BY <1>1, <1>3 DEF Stored
  <2>3. /\ IsInjective(buffer') /\ IsInjective(open') /\ IsInjective(records')
        /\ \A t \in Threads : IsInjective(taken'[t])
    BY <1>3 DEF Apart
  <2>4. \A t \in Threads :
          /\ InBatch(t)' \subseteq Written'
          /\ InBatch(t)' \cap (Buffered' \cup Stored' \cup deleted') = {}
          /\ \A u \in Threads : t # u => InBatch(t)' \cap InBatch(u)' = {}
    BY <1>2, <1>3, <2>1, <2>2 DEF Apart
  <2>5. /\ Recorded' \cap Opened' = {} /\ Recorded' \cap Pumped' = {}
        /\ Opened' \cap Pumped' = {} /\ Stored' \cap deleted' = {}
    BY <1>1, <1>3, <2>1, <2>2 DEF Apart, Stored
  <2>6. /\ Buffered' \cap (Stored' \cup deleted') = {}
        /\ Buffered' \cup Stored' \cup deleted' \cup dropped' \subseteq Written'
    BY <1>1, <1>2, <1>3, <2>1, <2>2 DEF Apart
  <2> QED
    BY <1>1, <2>3, <2>4, <2>5, <2>6 DEF Apart
<1>6. Held'
  BY <1>1 DEF Held
<1>7. Followed'
  <2> SUFFICES ASSUME NEW c \in Calls \ Streams, NEW n \in Written', lines'[n] = c
               PROVE  Traced(n, c)'
    BY DEF Followed
  <2>1. n \in Written /\ lines[n] = c
    BY <1>2, Known
  <2>2. Traced(n, c)
    BY <2>1 DEF Followed
  <2>3. n \in Landed => n \in Landed'
    BY <1>1, <1>3 DEF Landed
  <2>4. InHand(n)' <=> InHand(n)
    BY <1>3 DEF InHand
  <2> QED
    BY <1>1, <1>3, <2>2, <2>3, <2>4, CallsAreThreads DEF Traced
<1>8. Swept'
  BY <1>1 DEF Swept, sweepVars
<1> QED
  BY <1>4, <1>5, <1>6, <1>7, <1>8

LEMMA HostStartsKeeps ==
  ASSUME Inductive, HostStarts
  PROVE  Inductive'
<1>1. /\ ends < MaxEnds /\ ends' = ends + 1
      /\ sweep' = "due" /\ since' = [at |-> interval, early |-> ~Due]
      /\ UNCHANGED <<pc, handlerVars, storeVars, deleted, last, interval, swept>>
  BY DEF HostStarts
<1> USE <1>1 DEF handlerVars, storeVars, Inductive
<1>2. Typed'
  BY Known DEF Typed
<1>3. Apart'
  BY SameLists
<1>4. Held'
  BY DEF Held
<1>5. Followed'
  BY QuietFollowed
<1>6. Swept'
  <2>1. interval \in 0 .. MaxIntervals /\ last \in -1 .. interval
    BY DEF Swept
  <2>2. since' \in [at : 0 .. interval, early : BOOLEAN]
    BY <2>1 DEF Due
  <2>3. since'.at = interval /\ (~since'.early => Due)
    BY Zenon
  <2>4. last =< since'.at /\ (~since'.early => last < since'.at)
    BY <2>1, <2>3 DEF Due
  <2> QED
    BY <2>2, <2>4 DEF Swept
<1> QED
  BY <1>2, <1>3, <1>4, <1>5, <1>6

(* A sweep deletes rows, by age or by size.                                *)
LEMMA SweepKeeps ==
  ASSUME Inductive, ByAge \/ BySize
  PROVE  Inductive'
<1> USE DEF Inductive
<1>1. /\ sweep # "none" /\ sweep' \in {"size", "mark"}
      /\ UNCHANGED <<pc, handlerVars, open, wal, failures, dropped, ends, since, last,
                     interval, swept>>
  BY DEF ByAge, BySize
<1>2. /\ records' \in Seq(Nat) /\ IsInjective(records') /\ Recorded' \subseteq Recorded
      /\ chunks' \in Seq(Nat) /\ IsInjective(chunks') /\ Pumped' \subseteq Pumped
      /\ deleted' = deleted \cup (Recorded \ Recorded') \cup (Pumped \ Pumped')
  BY SweepDoes
<1>3. /\ Opened' = Opened /\ Buffered' = Buffered /\ Written' = Written
      /\ \A t \in Threads : InBatch(t)' = InBatch(t)
      /\ UNCHANGED <<lines, buffer, taken, open, serving, dropped>>
  BY <1>1 DEF handlerVars, Opened, Buffered, InBatch, Written
<1>4. Typed'
  BY <1>1, <1>2 DEF Typed, handlerVars
<1>5. Apart'
  <2>1. Stored' \cup deleted' = Stored \cup deleted /\ Stored' \subseteq Stored
    BY <1>2, <1>3 DEF Stored
  <2>2. /\ IsInjective(buffer') /\ IsInjective(open')
        /\ \A t \in Threads : IsInjective(taken'[t])
    BY <1>3 DEF Apart
  <2>3. \A t \in Threads :
          /\ InBatch(t)' \subseteq Written'
          /\ InBatch(t)' \cap (Buffered' \cup Stored' \cup deleted') = {}
          /\ \A u \in Threads : t # u => InBatch(t)' \cap InBatch(u)' = {}
    BY <1>3, <2>1 DEF Apart
  <2>4. /\ Recorded' \cap Opened' = {} /\ Recorded' \cap Pumped' = {}
        /\ Opened' \cap Pumped' = {} /\ Stored' \cap deleted' = {}
    BY <1>2, <1>3 DEF Apart, Stored
  <2>5. /\ Buffered' \cap (Stored' \cup deleted') = {}
        /\ Buffered' \cup Stored' \cup deleted' \cup dropped' \subseteq Written'
    BY <1>3, <2>1 DEF Apart
  <2> QED
    BY <1>2, <2>2, <2>3, <2>4, <2>5 DEF Apart
<1>6. Held'
  BY <1>1 DEF Held, handlerVars
<1>7. Followed'
  <2> SUFFICES ASSUME NEW c \in Calls \ Streams, NEW n \in Written', lines'[n] = c
               PROVE  Traced(n, c)'
    BY DEF Followed
  <2>1. n \in Written /\ lines[n] = c
    BY <1>3
  <2>2. Traced(n, c)
    BY <2>1 DEF Followed
  <2>3. n \in Landed => n \in Landed'
    BY <1>2, <1>3 DEF Landed
  <2>4. InHand(n)' <=> InHand(n)
    BY <1>3 DEF InHand
  <2> QED
    BY <1>1, <1>3, <2>2, <2>3, <2>4, CallsAreThreads DEF Traced
<1>8. Swept'
  BY <1>1 DEF Swept
<1> QED
  BY <1>4, <1>5, <1>6, <1>7, <1>8

LEMMA MarkKeeps ==
  ASSUME Inductive, Mark
  PROVE  Inductive'
<1>1. /\ sweep = "mark" /\ last' = since.at /\ wal' = 0 /\ sweep' = "none"
      /\ swept' = [swept EXCEPT ![since.at] = IF since.early THEN @ ELSE @ + 1]
      /\ UNCHANGED <<pc, handlerVars, open, records, chunks, failures, dropped, ends, deleted,
                     since, interval>>
  BY DEF Mark
<1> USE <1>1 DEF handlerVars, Inductive
<1>2. Typed'
  BY Known DEF Typed
<1>3. Apart'
  BY SameLists
<1>4. Held'
  BY DEF Held
<1>5. Followed'
  BY QuietFollowed
<1>6. Swept'
  <2>1. /\ interval \in 0 .. MaxIntervals /\ MaxIntervals \in Nat
        /\ last \in -1 .. interval /\ since.at \in 0 .. interval
        /\ since \in [at : 0 .. interval, early : BOOLEAN]
        /\ last =< since.at /\ (~since.early => last < since.at)
        /\ swept \in [0 .. MaxIntervals -> {0, 1}]
        /\ \A e \in 0 .. MaxIntervals : swept[e] = 1 => e =< last
    BY Known DEF Swept
  <2>2. since.at \in 0 .. MaxIntervals
    BY <2>1
  <2>3. ~since.early => swept[since.at] = 0
    BY <2>1, <2>2
  <2>4. /\ swept' \in [0 .. MaxIntervals -> {0, 1}]
        /\ \A e \in 0 .. MaxIntervals : e # since.at => swept'[e] = swept[e]
    BY <2>1, <2>2, <2>3
  <2>5. \A e \in 0 .. MaxIntervals : swept'[e] = 1 => e =< last'
    BY <2>1, <2>4
  <2>6. last' \in -1 .. interval'
    BY <2>1
  <2> QED
    BY <2>1, <2>4, <2>5, <2>6 DEF Swept
<1> QED
  BY <1>2, <1>3, <1>4, <1>5, <1>6

LEMMA SweepEndsKeeps ==
  ASSUME Inductive, SweepEnds
  PROVE  Inductive'
<1>1. /\ sweep' = "none"
      /\ UNCHANGED <<pc, handlerVars, storeVars, ends, deleted, since, last, interval, swept>>
  BY DEF SweepEnds
<1> USE <1>1 DEF handlerVars, storeVars, Inductive
<1>2. Typed'
  BY DEF Typed
<1>3. Apart'
  BY SameLists
<1>4. Held'
  BY DEF Held
<1>5. Followed'
  BY QuietFollowed
<1>6. Swept'
  BY DEF Swept
<1> QED
  BY <1>2, <1>3, <1>4, <1>5, <1>6

LEMMA IntervalKeeps ==
  ASSUME Inductive, IntervalPasses
  PROVE  Inductive'
<1>1. /\ interval < MaxIntervals /\ interval' = interval + 1
      /\ UNCHANGED <<pc, handlerVars, storeVars, ends, deleted, sweep, since, last, swept>>
  BY DEF IntervalPasses
<1> USE <1>1 DEF handlerVars, storeVars, Inductive
<1>2. Typed'
  BY DEF Typed
<1>3. Apart'
  BY SameLists
<1>4. Held'
  BY DEF Held
<1>5. Followed'
  BY QuietFollowed
<1>6. Swept'
  <2>1. /\ interval \in 0 .. MaxIntervals /\ MaxIntervals \in Nat /\ last \in -1 .. interval
        /\ since \in [at : 0 .. interval, early : BOOLEAN]
    BY Known DEF Swept
  <2>2. interval' \in 0 .. MaxIntervals /\ last \in -1 .. interval'
    BY <2>1
  <2>3. since \in [at : 0 .. interval', early : BOOLEAN]
    BY <2>1
  <2> QED
    BY <2>2, <2>3 DEF Swept
<1> QED
  BY <1>2, <1>3, <1>4, <1>5, <1>6

LEMMA StutterKeeps ==
  ASSUME Inductive, UNCHANGED vars
  PROVE  Inductive'
<1> USE DEF handlerVars, storeVars, sweepVars, vars, Inductive
<1>1. Typed'
  BY DEF Typed
<1>2. Apart'
  BY SameLists
<1>3. Held'
  BY DEF Held
<1>4. Followed'
  BY QuietFollowed
<1>5. Swept'
  BY DEF Swept
<1> QED
  BY <1>1, <1>2, <1>3, <1>4, <1>5

LEMMA InitInductive == Init => Inductive
<1> SUFFICES ASSUME Init PROVE Inductive
  OBVIOUS
<1> USE DEF Init
<1>1. /\ Buffered = {} /\ Opened = {} /\ Recorded = {} /\ Pumped = {} /\ Written = {}
      /\ \A t \in Threads : taken[t] = <<>> /\ InBatch(t) = {}
  BY EmptyDoes DEF Buffered, Opened, Recorded, Pumped, Written, InBatch
<1>2. Typed
  BY EmptyDoes, Known DEF Typed
<1>3. Apart
  BY <1>1, EmptyDoes DEF Apart, Stored
<1>4. Held
  BY <1>1, Known, CallsAreThreads DEF Held
<1>5. Followed
  BY <1>1 DEF Followed
<1>6. Swept
  BY Known DEF Swept
<1> QED
  BY <1>2, <1>3, <1>4, <1>5, <1>6 DEF Inductive

LEMMA NextInductive == Inductive /\ [Next]_vars => Inductive'
<1> SUFFICES ASSUME Inductive, [Next]_vars PROVE Inductive'
  OBVIOUS
<1>1. ASSUME NEW c \in Calls, Begin(c) PROVE Inductive'
  BY <1>1, BeginKeeps
<1>2. ASSUME NEW c \in Calls, Returns(c) PROVE Inductive'
  BY <1>2, ReturnsKeeps
<1>3. ASSUME NEW c \in Calls, NEW w \in BOOLEAN, Log(c, w) PROVE Inductive'
  BY <1>3, LogKeeps
<1>4. ASSUME NEW t \in Threads, Flush(t) PROVE Inductive'
  BY <1>4, FlushKeeps
<1>5. ASSUME NEW t \in Threads, Commit(t) PROVE Inductive'
  BY <1>5, CommitKeeps
<1>6. ASSUME NEW t \in Threads, CommitFails(t) PROVE Inductive'
  BY <1>6, CommitFailsKeeps
<1> QED
  BY <1>1, <1>2, <1>3, <1>4, <1>5, <1>6, CrashKeeps, PumpKeeps, HostStartsKeeps, SweepKeeps,
     MarkKeeps, SweepEndsKeeps, IntervalKeeps, StutterKeeps DEF Next

LEMMA AlwaysInductive == Spec => []Inductive
BY InitInductive, NextInductive, PTL DEF Spec

-----------------------------------------------------------------------------
(* What follows from it.                                                   *)

(* A list of lines that were written is one of their numbers.              *)
LEMMA ListIsOf ==
  ASSUME NEW s \in Seq(Nat), NEW S, ToSet(s) \subseteq S
  PROVE  s \in Seq(S)
<1>1. \A i \in 1 .. Len(s) : s[i] \in S
  BY SetIs
<1>2. Len(s) \in Nat /\ s \in [1 .. Len(s) -> Nat]
  OBVIOUS
<1> QED
  BY <1>1, <1>2, SeqDef

(* The variables of the handler, the store and the sweep keep their types: *)
(* every list is of lines that were written.                               *)
THEOREM TypeCorrect == Spec => []TypeOK
<1>1. ASSUME Inductive PROVE TypeOK
  <2> USE <1>1 DEF Inductive
  <2>1. {buffer, open, records, chunks} \subseteq Seq(DOMAIN lines)
    <3>1. /\ ToSet(buffer) \subseteq DOMAIN lines /\ ToSet(open) \subseteq DOMAIN lines
          /\ ToSet(records) \subseteq DOMAIN lines /\ ToSet(chunks) \subseteq DOMAIN lines
      BY DEF Apart, Stored, Buffered, Opened, Recorded, Pumped, Written
    <3> QED
      BY <3>1, ListIsOf DEF Typed
  <2>2. taken \in [Threads -> Seq(DOMAIN lines)]
    <3>1. taken \in [Threads -> Seq(Nat)]
          /\ \A t \in Threads : ToSet(taken[t]) \subseteq DOMAIN lines
      BY DEF Typed, Apart, InBatch, Written
    <3>2. \A t \in Threads : taken[t] \in Seq(DOMAIN lines)
      BY <3>1, ListIsOf
    <3> QED
      BY <3>1, <3>2
  <2>3. dropped \subseteq DOMAIN lines /\ deleted \subseteq DOMAIN lines
    BY DEF Apart, Written
  <2>4. /\ since \in [at : 0 .. MaxIntervals, early : BOOLEAN]
        /\ last \in -1 .. MaxIntervals /\ interval \in 0 .. MaxIntervals
        /\ swept \in [0 .. MaxIntervals -> Nat]
    BY Known DEF Swept
  <2> QED
    BY <2>1, <2>2, <2>3, <2>4 DEF Typed, TypeOK
<1> QED
  BY <1>1, AlwaysInductive, PTL

(* "A job's records land": what a call logged is stored when its request   *)
(* is over, unless its transaction failed or a sweep deleted it, whatever  *)
(* logs, warns, crashes and sweeps at the same time.                       *)
THEOREM EndedAreRecorded == Spec => []EndedIsRecorded
<1>1. ASSUME Inductive PROVE EndedIsRecorded
  <2> SUFFICES ASSUME NEW c \in Calls \ Streams, pc[c] = "ended",
                      NEW n \in DOMAIN lines, lines[n] = c
               PROVE  n \in ToSet(records) \cup dropped \cup deleted
    BY DEF EndedIsRecorded
  <2> QED
    BY <1>1 DEF Inductive, Followed, Traced, Landed, Recorded, Written
<1> QED
  BY <1>1, AlwaysInductive, PTL

(* A line is stored at most once and never again after a sweep deleted it, *)
(* though what a failed transaction inserted joins the next one.           *)
THEOREM LinesAreStoredOnce == Spec => []StoredOnce
<1>1. ASSUME Inductive PROVE StoredOnce
  <2>1. /\ records \in Seq(Nat) /\ open \in Seq(Nat) /\ chunks \in Seq(Nat)
        /\ IsInjective(records) /\ IsInjective(open) /\ IsInjective(chunks)
        /\ ToSet(records) \cap ToSet(open) = {} /\ ToSet(records) \cap ToSet(chunks) = {}
        /\ ToSet(open) \cap ToSet(chunks) = {}
        /\ (ToSet(records) \cup ToSet(open) \cup ToSet(chunks)) \cap deleted = {}
    BY <1>1 DEF Inductive, Typed, Apart, Stored, Recorded, Opened, Pumped
  <2> DEFINE q == records \o open
  <2>2. q \in Seq(Nat) /\ IsInjective(q) /\ ToSet(q) = ToSet(records) \cup ToSet(open)
    BY <2>1, ConcatDoes
  <2> HIDE DEF q
  <2>3. IsInjective(q \o chunks) /\ ToSet(q \o chunks) = ToSet(q) \cup ToSet(chunks)
    BY <2>1, <2>2, ConcatDoes
  <2>4. IsInjective(q \o chunks) /\ ToSet(q \o chunks) \cap deleted = {}
    BY <2>1, <2>2, <2>3
  <2> QED
    BY <2>4 DEF StoredOnce, q
<1> QED
  BY <1>1, AlwaysInductive, PTL

(* "At most once per interval": however many hosts start, and however      *)
(* their sweeps end, one of them completes.                                *)
THEOREM OneSweepPerInterval == Spec => []OncePerInterval
<1>1. ASSUME Inductive PROVE OncePerInterval
  BY <1>1 DEF Inductive, Swept, OncePerInterval
<1> QED
  BY <1>1, AlwaysInductive, PTL
=============================================================================
