-------------------------- MODULE SelectionProofs ---------------------------
(***************************************************************************)
(* Facts about sets of integers and about selections from a sequence that  *)
(* the proofs about grids need.                                            *)
(***************************************************************************)
EXTENDS Selection, FiniteSetsExt, WellFoundedInduction, TLAPS

Joins == INSTANCE FoldProofs WITH Step <- Join

(* A set of integers with a lower bound has a least element. *)
LEMMA MinOf ==
    ASSUME NEW S \in SUBSET Int, S # {}, NEW n \in Int, \A x \in S : x >= n
    PROVE  Min(S) \in S /\ \A x \in S : Min(S) <= x
<1> DEFINE R == OpToRel(<, Nat)
           T == { x - n : x \in S }
<1>1. IsWellFoundedOn(R, Nat)
  BY NatLessThanWellFounded
<1>2. \A x, y \in Nat : x < y => <<x, y>> \in R
  BY DEF OpToRel
<1>3. T \subseteq Nat /\ T # {}
  <2>1. \A x \in S : x - n \in Nat
    OBVIOUS
  <2> QED BY <2>1
<1>4. PICK t \in T : \A y \in T : ~ (<<y, t>> \in R)
  <2> HIDE DEF R, T
  <2> QED BY <1>1, <1>3, WFMin
<1>5. PICK x \in S : t = x - n
  OBVIOUS
<1>6. \A y \in S : x <= y
  <2> HIDE DEF R
  <2> TAKE y \in S
  <2>1. y - n \in T /\ y - n \in Nat /\ t \in Nat
    BY <1>3
  <2>2. ~(y - n < t)
    BY <1>2, <1>4, <2>1
  <2> QED BY <1>5, <2>2
<1> QED BY <1>6 DEF Min

(* A set of integers with an upper bound has a greatest element. *)
LEMMA MaxOf ==
    ASSUME NEW S \in SUBSET Int, S # {}, NEW n \in Int, \A x \in S : x <= n
    PROVE  Max(S) \in S /\ \A x \in S : x <= Max(S)
<1> DEFINE T == { 0 - x : x \in S }
<1>1. T \in SUBSET Int /\ T # {} /\ 0 - n \in Int /\ \A x \in T : x >= 0 - n
  <2>1. \A x \in S : 0 - x \in Int /\ 0 - x >= 0 - n
    OBVIOUS
  <2>2. PICK x \in S : TRUE
    OBVIOUS
  <2>3. 0 - x \in T
    OBVIOUS
  <2>4. \A y \in T : y \in Int /\ y >= 0 - n
    BY <2>1
  <2> QED BY <2>3, <2>4
<1>2. Min(T) \in T /\ \A x \in T : Min(T) <= x
  <2> HIDE DEF T
  <2> QED BY <1>1, MinOf
<1>3. PICK x \in S : Min(T) = 0 - x
  BY <1>2
<1>4. \A y \in S : x >= y
  <2> TAKE y \in S
  <2>1. 0 - y \in T
    OBVIOUS
  <2>2. Min(T) <= 0 - y
    BY <1>2, <2>1
  <2>3. x \in Int /\ y \in Int
    OBVIOUS
  <2> QED BY <1>3, <2>2, <2>3
<1> QED BY <1>4 DEF Max

(* What is joined of nothing, and of one sequence more.                    *)
LEMMA FlattenEmpty == ASSUME NEW s, Len(s) = 0 PROVE Flatten(s) = <<>>
<1>1. Joins!Fold(<<>>, s) = <<>>
  BY Joins!FoldEmpty
<1> QED BY <1>1 DEF Flatten, Joining!Fold, Joins!Fold

LEMMA FlattenAppend ==
    ASSUME NEW n \in Nat, NEW s, Len(s) = n, NEW t, Len(t) = n + 1,
           \A i \in 1 .. n : t[i] = s[i]
    PROVE  Flatten(t) = Flatten(s) \o t[n + 1]
<1>1. Joins!Fold(<<>>, t) = Join(Joins!Fold(<<>>, s), t[n + 1])
  BY Joins!FoldAppend
<1> QED BY <1>1 DEF Flatten, Joining!Fold, Joins!Fold, Join

(* A selection goes through the sequence: there is an increasing function  *)
(* from its positions to those of the sequence that were asked for.        *)
Subsequence(t, s, n, S, h) ==
    /\ Len(t) \in Nat /\ DOMAIN t = 1 .. Len(t) /\ h \in [1 .. Len(t) -> S \cap (1 .. n)]
    /\ \A p \in 1 .. Len(t) : t[p] = s[h[p]]
    /\ \A p, q \in 1 .. Len(t) : p < q => h[p] < h[q]
    /\ \A i \in S \cap (1 .. n) : \E p \in 1 .. Len(t) : h[p] = i

(* Select returns the subsequence at the positions in S. *)
LEMMA SelectIs ==
    ASSUME NEW X, NEW s \in Seq(X), NEW S
    PROVE  Select(s, S) \in Seq(X) /\ \E h : Subsequence(Select(s, S), s, Len(s), S, h)
<1> DEFINE m == [i \in DOMAIN s |-> IF i \in S THEN <<s[i]>> ELSE <<>>]
           Q == [n \in 0 .. Len(s) |-> { t \in Seq(X) : \E h : Subsequence(t, s, n, S, h) }]
<1>1. /\ Len(m) = Len(s) /\ Len(s) \in Nat
      /\ \A i \in 1 .. Len(s) : s[i] \in X /\ m[i] = IF i \in S THEN <<s[i]>> ELSE <<>>
  OBVIOUS
<1>2. <<>> \in Q[0]
  <2>1. Subsequence(<<>>, s, 0, S, [p \in 1 .. 0 |-> 0])
    BY DEF Subsequence
  <2> QED BY <2>1
<1> HIDE DEF m
<1>3. ASSUME NEW n \in 1 .. Len(s), NEW t \in Q[n - 1] PROVE Join(t, m[n]) \in Q[n]
  <2>0. n - 1 \in 0 .. Len(s) /\ n \in 0 .. Len(s) /\ n \in Nat /\ n - 1 \in Nat /\ n - 1 < n
    BY <1>1
  <2>1. t \in Seq(X) /\ \E h : Subsequence(t, s, n - 1, S, h)
    BY <1>3, <2>0
  <2> SUFFICES Join(t, m[n]) \in Seq(X) /\ \E h : Subsequence(Join(t, m[n]), s, n, S, h)
    BY <2>0
  <2> HIDE DEF Q
  <2>2. PICK h : Subsequence(t, s, n - 1, S, h)
    BY <2>1
  <2>3. CASE n \notin S
    <3>1. Join(t, m[n]) = t
      <4>1. m[n] = <<>>
        BY <1>1, <2>3
      <4>2. t \o <<>> = t
        BY <2>1
      <4> QED BY <4>1, <4>2 DEF Join
    <3>2. S \cap (1 .. n) = S \cap (1 .. n - 1)
      BY <2>0, <2>3
    <3>3. Subsequence(t, s, n, S, h)
      BY <2>2, <3>2 DEF Subsequence
    <3> QED BY <2>1, <3>1, <3>3
  <2>4. CASE n \in S
    <3> DEFINE u == t \o <<s[n]>>
               k == [p \in 1 .. Len(t) + 1 |-> IF p = Len(t) + 1 THEN n ELSE h[p]]
    <3>1. Join(t, m[n]) = u
      BY <1>1, <2>4 DEF Join
    <3>2. /\ u \in Seq(X) /\ Len(t) \in Nat /\ Len(u) = Len(t) + 1 /\ DOMAIN u = 1 .. Len(u)
          /\ u[Len(t) + 1] = s[n] /\ \A p \in 1 .. Len(t) : u[p] = t[p]
      BY <1>1, <2>1
    <3>3. \A p \in 1 .. Len(t) : k[p] = h[p] /\ h[p] \in S /\ h[p] \in 1 .. n - 1
      BY <2>2, <3>2 DEF Subsequence
    <3>4. k[Len(t) + 1] = n /\ DOMAIN k = 1 .. Len(u)
      BY <3>2
    <3>5. \A p \in 1 .. Len(u) : p = Len(t) + 1 \/ p \in 1 .. Len(t)
      BY <3>2
    <3>6. k = [p \in 1 .. Len(u) |-> k[p]]
      BY <3>2
    <3> HIDE DEF u, k
    <3>7. k \in [1 .. Len(u) -> S \cap (1 .. n)]
      <4>1. \A p \in 1 .. Len(u) : k[p] \in S \cap (1 .. n)
        BY <2>0, <2>4, <3>3, <3>4, <3>5
      <4> QED BY <3>6, <4>1
    <3>8. \A p \in 1 .. Len(u) : u[p] = s[k[p]]
      BY <2>2, <3>2, <3>3, <3>4, <3>5 DEF Subsequence
    <3>9. ASSUME NEW p \in 1 .. Len(u), NEW q \in 1 .. Len(u), p < q PROVE k[p] < k[q]
      <4>1. p \in 1 .. Len(t)
        BY <3>2, <3>9
      <4>2. CASE q \in 1 .. Len(t)
        <5>1. h[p] < h[q]
          BY <2>2, <3>9, <4>1, <4>2 DEF Subsequence
        <5> QED BY <3>3, <4>1, <4>2, <5>1
      <4>3. CASE q = Len(t) + 1
        <5>1. k[p] \in 1 .. n - 1 /\ k[q] = n
          BY <3>3, <3>4, <4>1, <4>3
        <5> QED BY <2>0, <5>1
      <4> QED BY <3>5, <4>2, <4>3
    <3>10. ASSUME NEW i \in S \cap (1 .. n) PROVE \E p \in 1 .. Len(u) : k[p] = i
      <4>1. CASE i = n
        BY <3>2, <3>4, <4>1
      <4>2. CASE i # n
        <5>1. i \in S \cap (1 .. n - 1)
          BY <2>0, <4>2
        <5>2. PICK p \in 1 .. Len(t) : h[p] = i
          BY <2>2, <5>1 DEF Subsequence
        <5> QED BY <3>2, <3>3, <5>2
      <4> QED BY <4>1, <4>2
    <3>11. Subsequence(u, s, n, S, k)
      <4>1. Len(u) \in Nat
        BY <3>2
      <4> QED BY <3>2, <3>7, <3>8, <3>9, <3>10, <4>1, Zenon DEF Subsequence
    <3> QED BY <3>1, <3>2, <3>11
  <2> QED BY <2>3, <2>4
<1>4. Joins!Fold(<<>>, m) \in Q[Len(m)]
  <2> HIDE DEF Q
  <2> QED BY <1>1, <1>2, <1>3, Joins!FoldReaches
<1>5. Select(s, S) = Joins!Fold(<<>>, m)
  BY DEF Select, Flatten, Joining!Fold, Joins!Fold, m
<1>6. Len(s) \in 0 .. Len(s)
  BY <1>1
<1> QED BY <1>1, <1>4, <1>5, <1>6
====
