----------------------------- MODULE FoldProofs -----------------------------
(***************************************************************************)
(* What a loop over a sequence computes, by induction on its length.       *)
(***************************************************************************)
EXTENDS Fold, WellFoundedInduction, TLAPS

(* Induction over the natural numbers, for a set instead of a predicate.   *)
LEMMA NatInductionOnSets ==
  ASSUME NEW S, 0 \in S, \A n \in Nat : n \in S => n + 1 \in S
  PROVE  Nat \subseteq S
<1> DEFINE R == OpToRel(<, Nat)
           T == Nat \ S
<1>1. IsWellFoundedOn(R, Nat)
  BY NatLessThanWellFounded
<1>2. \A x, y \in Nat : x < y => <<x, y>> \in R
  BY DEF OpToRel
<1> HIDE DEF R
<1>3. SUFFICES ASSUME T # {} PROVE FALSE
  OBVIOUS
<1>4. PICK x \in T : \A y \in T : ~ (<<y, x>> \in R)
  BY <1>1, <1>3, WFMin
<1>5. x - 1 \in Nat /\ x - 1 < x
  OBVIOUS
<1>6. x - 1 \in S
  BY <1>2, <1>4, <1>5
<1>7. (x - 1) + 1 \in S
  BY <1>5, <1>6
<1> QED BY <1>4, <1>7

(* The function that Fold defines satisfies its equation.                  *)
LEMMA FoldDefined ==
  ASSUME NEW base, NEW s, Len(s) \in Nat
  PROVE  \E f : /\ f = [i \in 0 .. Len(s) |-> IF i = 0 THEN base ELSE Step(f[i - 1], s[i])]
                /\ Fold(base, s) = f[Len(s)]
<1> DEFINE Steps(f, n) == f = [i \in 0 .. n |-> IF i = 0 THEN base ELSE Step(f[i - 1], s[i])]
           S == { n \in Nat : \E f : Steps(f, n) }
<1>1. 0 \in S
  <2>1. Steps([i \in 0 .. 0 |-> base], 0)
    OBVIOUS
  <2> QED BY <2>1
<1>2. ASSUME NEW n \in Nat, n \in S PROVE n + 1 \in S
  <2>1. PICK f : Steps(f, n)
    BY <1>2
  <2> DEFINE g == [i \in 0 .. (n + 1) |-> IF i = n + 1 THEN Step(f[n], s[n + 1]) ELSE f[i]]
  <2>2. Steps(g, n + 1)
    <3>1. DOMAIN g = 0 .. (n + 1)
      OBVIOUS
    <3>2. g[0] = base
      <4>1. 0 \in 0 .. (n + 1) /\ 0 # n + 1 /\ 0 \in 0 .. n
        OBVIOUS
      <4>2. f[0] = base
        BY <2>1, <4>1
      <4> QED BY <4>1, <4>2
    <3>3. ASSUME NEW i \in 1 .. (n + 1) PROVE g[i] = Step(g[i - 1], s[i])
      <4>1. CASE i = n + 1
        <5>1. i - 1 = n /\ n \in 0 .. (n + 1) /\ n # n + 1 /\ n + 1 \in 0 .. (n + 1)
          BY <4>1
        <5>2. g[n] = f[n] /\ g[n + 1] = Step(f[n], s[n + 1])
          BY <5>1
        <5> QED BY <4>1, <5>1, <5>2
      <4>2. CASE i # n + 1
        <5>1. i \in 0 .. n /\ i # 0 /\ i - 1 \in 0 .. n
          BY <4>2
        <5>2. f[i] = Step(f[i - 1], s[i])
          BY <2>1, <5>1
        <5> QED BY <5>1, <5>2
      <4> QED BY <4>1, <4>2
    <3> HIDE DEF g
    <3>4. \A i \in 0 .. (n + 1) : g[i] = IF i = 0 THEN base ELSE Step(g[i - 1], s[i])
      BY <3>2, <3>3
    <3>5. g = [i \in 0 .. (n + 1) |-> g[i]]
      BY DEF g
    <3> QED BY <3>4, <3>5
  <2> HIDE DEF g, Steps
  <2> QED BY <2>2
<1>3. Len(s) \in S
  <2> HIDE DEF S
  <2> QED BY <1>1, <1>2, NatInductionOnSets
<1>4. \E f : Steps(f, Len(s))
  BY <1>3
<1> DEFINE F == CHOOSE f : Steps(f, Len(s))
<1>5. Steps(F, Len(s))
  <2> HIDE DEF Steps
  <2> QED BY <1>4
<1>6. Fold(base, s) = F[Len(s)]
  BY DEF Fold
<1> HIDE DEF F
<1> QED BY <1>5, <1>6

(* A loop that goes from Q[i - 1] to Q[i] with each element ends in the    *)
(* last of these sets.                                                     *)
LEMMA FoldReaches ==
    ASSUME NEW base, NEW s, Len(s) \in Nat, NEW Q, base \in Q[0],
           \A i \in 1 .. Len(s) : \A x \in Q[i - 1] : Step(x, s[i]) \in Q[i]
    PROVE  Fold(base, s) \in Q[Len(s)]
<1>1. PICK f : /\ f = [i \in 0 .. Len(s) |-> IF i = 0 THEN base ELSE Step(f[i - 1], s[i])]
               /\ Fold(base, s) = f[Len(s)]
  BY FoldDefined
<1> DEFINE S == { n \in Nat : n <= Len(s) => f[n] \in Q[n] }
<1>2. 0 \in S
  BY <1>1
<1>3. ASSUME NEW n \in Nat, n \in S PROVE n + 1 \in S
  <2>1. CASE n + 1 <= Len(s)
    <3>1. n + 1 \in 1 .. Len(s) /\ n <= Len(s) /\ (n + 1) - 1 = n
      BY <2>1
    <3>2. f[n + 1] = Step(f[n], s[n + 1])
      BY <1>1, <3>1
    <3> QED BY <1>3, <3>1, <3>2
  <2>2. CASE ~(n + 1 <= Len(s))
    BY <2>2
  <2> QED BY <2>1, <2>2
<1>4. Len(s) \in S
  <2> HIDE DEF S
  <2> QED BY <1>2, <1>3, NatInductionOnSets
<1> QED BY <1>1, <1>4

(* A loop over nothing returns what it starts with.                        *)
LEMMA FoldEmpty ==
    ASSUME NEW base, NEW s, Len(s) = 0
    PROVE  Fold(base, s) = base
<1>1. Len(s) \in Nat /\ 0 \in 0 .. Len(s)
  OBVIOUS
<1>2. PICK f : /\ f = [i \in 0 .. Len(s) |-> IF i = 0 THEN base ELSE Step(f[i - 1], s[i])]
               /\ Fold(base, s) = f[Len(s)]
  BY <1>1, FoldDefined
<1>3. f[0] = base
  BY <1>1, <1>2
<1> QED BY <1>2, <1>3

(* A loop over one element more takes one step more.                       *)
LEMMA FoldAppend ==
    ASSUME NEW base, NEW n \in Nat, NEW s, Len(s) = n, NEW t, Len(t) = n + 1,
           \A i \in 1 .. n : t[i] = s[i]
    PROVE  Fold(base, t) = Step(Fold(base, s), t[n + 1])
<1>2. Len(s) \in Nat /\ Len(t) \in Nat
  OBVIOUS
<1>1. PICK f : /\ f = [i \in 0 .. Len(s) |-> IF i = 0 THEN base ELSE Step(f[i - 1], s[i])]
               /\ Fold(base, s) = f[Len(s)]
  BY <1>2, FoldDefined
<1>3. PICK g : /\ g = [i \in 0 .. Len(t) |-> IF i = 0 THEN base ELSE Step(g[i - 1], t[i])]
               /\ Fold(base, t) = g[Len(t)]
  BY <1>2, FoldDefined
<1> DEFINE S == { i \in Nat : i <= n => f[i] = g[i] }
<1>4. 0 \in S
  <2>1. 0 \in 0 .. n /\ 0 \in 0 .. (n + 1)
    OBVIOUS
  <2>2. f[0] = base /\ g[0] = base
    BY <1>1, <1>3, <2>1
  <2> QED BY <2>2
<1>5. ASSUME NEW i \in Nat, i \in S PROVE i + 1 \in S
  <2>1. CASE i + 1 <= n
    <3>1. /\ i + 1 \in 0 .. n /\ i + 1 \in 0 .. (n + 1) /\ i + 1 \in 1 .. n
          /\ i + 1 # 0 /\ (i + 1) - 1 = i /\ i <= n
      BY <2>1
    <3>2. f[i + 1] = Step(f[i], s[i + 1])
      BY <1>1, <3>1
    <3>3. g[i + 1] = Step(g[i], t[i + 1])
      BY <1>3, <3>1
    <3>4. f[i] = g[i]
      BY <1>5, <3>1
    <3> QED BY <3>1, <3>2, <3>3, <3>4
  <2>2. CASE ~(i + 1 <= n)
    BY <2>2
  <2> QED BY <2>1, <2>2
<1>6. n \in S
  <2> HIDE DEF S
  <2> QED BY <1>4, <1>5, NatInductionOnSets
<1>7. g[n + 1] = Step(g[n], t[n + 1])
  <2>1. n + 1 \in 0 .. (n + 1) /\ n + 1 # 0 /\ (n + 1) - 1 = n
    OBVIOUS
  <2> QED BY <1>3, <2>1
<1> QED BY <1>1, <1>3, <1>6, <1>7
=============================================================================
