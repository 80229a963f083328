-------------------------- MODULE HeapQueueProofs ---------------------------
EXTENDS HeapQueue, FiniteSetTheorems, SequenceTheorems, TLAPS

Rises == INSTANCE FoldProofs WITH Step <- Rise
Sinks == INSTANCE FoldProofs WITH Step <- Sink
Settles == INSTANCE FoldProofs WITH Step <- Settle
Adds == INSTANCE FoldProofs WITH Step <- AddItem
Removes == INSTANCE FoldProofs WITH Step <- RemoveItem
----------------------------------------------------------------------------
(* The times along the array, and the order between them.                  *)

(* A position is not earlier than its parent. *)
Fine(k, p) == k[Parent(p)] <= k[p]

Ordered(k, n) == \A p \in 2 .. n : Fine(k, p)

(* All is in order but position at, which may be too early. *)
UpFine(k, n, at) ==
    /\ \A p \in 2 .. n : p # at => Fine(k, p)
    /\ \A p \in 2 .. n : Parent(p) = at /\ at > 1 => k[Parent(at)] <= k[p]

(* All from lo on is in order but position at, which may be too late. *)
DownFine(k, n, lo, at) ==
    /\ \A p \in 2 .. n : Parent(p) >= lo /\ Parent(p) # at => Fine(k, p)
    /\ \A p \in 2 .. n : Parent(p) = at /\ at > 1 /\ Parent(at) >= lo => k[Parent(at)] <= k[p]

(* Position at is not later than its children. *)
Settled(k, n, at) == \A p \in 2 .. n : Parent(p) = at => k[at] <= k[p]

Exchanged(k, i, j) == [k EXCEPT ![i] = k[j], ![j] = k[i]]

(* The parent is an earlier position. *)
LEMMA ParentIs == \A p \in Nat : p >= 2 => Parent(p) \in Nat /\ 1 <= Parent(p) /\ Parent(p) < p
BY DEF Parent

LEMMA ParentWithin ==
    ASSUME NEW n \in Int, NEW p \in 2 .. n
    PROVE  p \in 1 .. n /\ Parent(p) \in 1 .. n /\ Parent(p) < p
BY ParentIs

(* The children of i are at 2i and 2i + 1. *)
LEMMA ChildrenAre == \A p, i \in Nat : Parent(p) = i <=> (p = 2 * i \/ p = 2 * i + 1)
BY DEF Parent

LEMMA ExchangedIs ==
    ASSUME NEW L \in Nat, NEW k \in [1 .. L -> Int], NEW i \in 1 .. L, NEW j \in 1 .. L
    PROVE  /\ Exchanged(k, i, j) \in [1 .. L -> Int]
           /\ Exchanged(k, i, j)[i] = k[j]
           /\ Exchanged(k, i, j)[j] = k[i]
           /\ \A p \in 1 .. L : p # i /\ p # j => Exchanged(k, i, j)[p] = k[p]
BY DEF Exchanged

(* A round of up moves the position that may be too early to its parent.   *)
LEMMA UpMoves ==
    ASSUME NEW L \in Nat, NEW k \in [1 .. L -> Int], NEW n \in Nat, n <= L,
           NEW at \in 2 .. n, UpFine(k, n, at), k[at] < k[Parent(at)]
    PROVE  UpFine(Exchanged(k, Parent(at), at), n, Parent(at))
<1> DEFINE q == Parent(at)
           g == Exchanged(k, q, at)
<1>1. q \in 1 .. L /\ at \in 1 .. L /\ q < at
  BY ParentIs
<1>2. /\ g \in [1 .. L -> Int] /\ g[q] = k[at] /\ g[at] = k[q]
      /\ \A p \in 1 .. L : p # q /\ p # at => g[p] = k[p]
  <2>1. k \in [1 .. L -> Int] /\ q \in 1 .. L /\ at \in 1 .. L
    BY <1>1
  <2> HIDE DEF q
  <2> QED BY ONLY <2>1 DEF Exchanged
<1>3. \A p \in 2 .. n : p \in 1 .. L /\ Parent(p) \in 1 .. L /\ Parent(p) < p
  BY ParentIs
<1>k. \A p \in 1 .. L : k[p] \in Int
  OBVIOUS
<1> HIDE DEF g, q
<1>4. ASSUME NEW p \in 2 .. n, p # q PROVE g[Parent(p)] <= g[p]
  <2>1. CASE p = at
    BY <1>1, <1>2, <1>k, <2>1 DEF q
  <2>2. CASE p # at /\ Parent(p) = q
    <3>1. k[q] <= k[p]
      BY <2>2 DEF UpFine, Fine
    <3> QED BY <1>1, <1>2, <1>3, <1>4, <1>k, <2>2, <3>1 DEF q
  <2>3. CASE Parent(p) = at
    <3>1. k[q] <= k[p]
      BY <2>3 DEF UpFine, q
    <3> QED BY <1>1, <1>2, <1>3, <1>4, <2>3, <3>1
  <2>4. CASE p # at /\ Parent(p) # q /\ Parent(p) # at
    <3>1. k[Parent(p)] <= k[p]
      BY <2>4 DEF UpFine, Fine
    <3> QED BY <1>2, <1>3, <1>4, <2>4, <3>1
  <2> QED BY <2>1, <2>2, <2>3, <2>4
<1>5. ASSUME NEW p \in 2 .. n, Parent(p) = q, q > 1 PROVE g[Parent(q)] <= g[p]
  <2>1. q \in 2 .. n /\ Parent(q) \in 1 .. L /\ Parent(q) # q /\ Parent(q) # at /\ q # at
    BY <1>1, <1>3, <1>5
  <2>2. k[Parent(q)] <= k[q]
    BY <2>1 DEF UpFine, Fine
  <2>3. g[Parent(q)] = k[Parent(q)]
    BY <1>2, <2>1
  <2>4. CASE p = at
    BY <1>2, <2>2, <2>3, <2>4
  <2>5. CASE p # at
    <3>1. k[q] <= k[p]
      BY <1>5, <2>5 DEF UpFine, Fine
    <3>2. g[p] = k[p]
      BY <1>2, <1>3, <1>5, <2>5
    <3> QED BY <1>1, <1>3, <1>k, <2>1, <2>2, <2>3, <3>1, <3>2
  <2> QED BY <2>4, <2>5
<1> QED BY <1>4, <1>5 DEF UpFine, Fine, g, q

(* A round of down moves the position that may be too late to its child.   *)
LEMMA DownMoves ==
    ASSUME NEW L \in Nat, NEW k \in [1 .. L -> Int], NEW n \in Nat, n <= L,
           NEW at \in 1 .. n, NEW lo \in Nat, lo <= at, DownFine(k, n, lo, at),
           NEW c \in 2 .. n, Parent(c) = at, k[c] < k[at],
           \A p \in 2 .. n : Parent(p) = at => k[c] <= k[p]
    PROVE  DownFine(Exchanged(k, at, c), n, lo, c)
<1> DEFINE g == Exchanged(k, at, c)
<1>1. at \in 1 .. L /\ c \in 1 .. L /\ at < c /\ lo <= c /\ c > 1
  BY ParentIs
<1>2. /\ g \in [1 .. L -> Int] /\ g[at] = k[c] /\ g[c] = k[at]
      /\ \A p \in 1 .. L : p # at /\ p # c => g[p] = k[p]
  <2>1. k \in [1 .. L -> Int] /\ at \in 1 .. L /\ c \in 1 .. L
    BY <1>1
  <2> QED BY ONLY <2>1 DEF Exchanged
<1>3. \A p \in 2 .. n : p \in 1 .. L /\ Parent(p) \in 1 .. L /\ Parent(p) < p
  BY ParentIs
<1>k. \A p \in 1 .. L : k[p] \in Int
  OBVIOUS
<1> HIDE DEF g
<1>4. ASSUME NEW p \in 2 .. n, Parent(p) >= lo, Parent(p) # c PROVE g[Parent(p)] <= g[p]
  <2>1. CASE p = c
    BY <1>1, <1>2, <1>k, <2>1
  <2>2. CASE p # c /\ Parent(p) = at
    <3>1. p # at /\ k[c] <= k[p]
      BY <1>3, <2>2
    <3>2. g[p] = k[p]
      BY <1>2, <1>3, <2>2, <3>1
    <3> QED BY <1>2, <2>2, <3>1, <3>2
  <2>3. CASE p = at
    <3>1. k[Parent(at)] <= k[c]
      BY <1>4, <2>3 DEF DownFine
    <3>2. g[Parent(p)] = k[Parent(p)]
      BY <1>2, <1>3, <1>4, <2>3
    <3> QED BY <1>2, <2>3, <3>1, <3>2
  <2>4. CASE p # c /\ p # at /\ Parent(p) # at
    <3>1. k[Parent(p)] <= k[p]
      BY <1>4, <2>4 DEF DownFine, Fine
    <3> QED BY <1>2, <1>3, <1>4, <2>4, <3>1
  <2> QED BY <2>1, <2>2, <2>3, <2>4
<1>5. ASSUME NEW p \in 2 .. n, Parent(p) = c PROVE g[Parent(c)] <= g[p]
  <2>1. k[c] <= k[p]
    BY <1>1, <1>5 DEF DownFine, Fine
  <2>2. g[p] = k[p]
    BY <1>1, <1>2, <1>3, <1>5
  <2> QED BY <1>2, <2>1, <2>2
<1> QED BY <1>4, <1>5 DEF DownFine, Fine, g

(* In an ordered array no position is earlier than the root.               *)
LEMMA RootIsLeast ==
    ASSUME NEW L \in Nat, NEW k \in [1 .. L -> Int], Ordered(k, L)
    PROVE  \A p \in 1 .. L : k[1] <= k[p]
<1> DEFINE S == { m \in Nat : \A p \in 1 .. L : p <= m => k[1] <= k[p] }
<1>1. 0 \in S
  OBVIOUS
<1>2. ASSUME NEW m \in Nat, m \in S PROVE m + 1 \in S
  <2> SUFFICES ASSUME NEW p \in 1 .. L, p <= m + 1 PROVE k[1] <= k[p]
    OBVIOUS
  <2>1. CASE p = 1
    BY <2>1
  <2>2. CASE p # 1
    <3>1. p \in 2 .. L /\ Parent(p) \in 1 .. L /\ Parent(p) <= m
      BY <2>2, ParentIs
    <3>2. k[1] <= k[Parent(p)]
      BY <1>2, <3>1
    <3>3. k[Parent(p)] <= k[p]
      BY <3>1 DEF Ordered, Fine
    <3> QED BY <3>1, <3>2, <3>3
  <2> QED BY <2>1, <2>2
<1>3. L \in S
  <2> HIDE DEF S
  <2> QED BY <1>1, <1>2, Rises!NatInductionOnSets
<1> QED BY <1>3
----------------------------------------------------------------------------
(* The array and the indexes.                                              *)

Heaps(W) == [arr : Seq(DOMAIN W), index : [DOMAIN W -> Nat], when : {W}]

(* Each item's index is its place in the array, or 0. *)
Placed(h) ==
    /\ \A p \in 1 .. Len(h.arr) : h.index[h.arr[p]] = p
    /\ \A n \in DOMAIN h.index : h.index[n] # 0 =>
         h.index[n] \in 1 .. Len(h.arr) /\ h.arr[h.index[n]] = n

(* The names in the array. *)
In(h) == { n \in DOMAIN h.index : h.index[n] # 0 }

Keys(h) == [p \in 1 .. Len(h.arr) |-> h.when[h.arr[p]]]

(* g has the items of h, those behind position n at their places. *)
Rearranged(g, h, n) ==
    /\ Len(g.arr) = Len(h.arr) /\ Placed(g) /\ In(g) = In(h)
    /\ \A p \in 1 .. Len(h.arr) : p > n => g.arr[p] = h.arr[p]

LEMMA HeapFields ==
    ASSUME NEW W, NEW h \in Heaps(W)
    PROVE  /\ h.arr \in Seq(DOMAIN W) /\ h.index \in [DOMAIN W -> Nat] /\ h.when = W
           /\ Len(h.arr) \in Nat /\ h.arr \in [1 .. Len(h.arr) -> DOMAIN W]
           /\ DOMAIN h.index = DOMAIN W
BY DEF Heaps

LEMMA HeapOfFields ==
    \A a, x, w : HeapOf(a, x, w).arr = a /\ HeapOf(a, x, w).index = x /\ HeapOf(a, x, w).when = w
BY DEF HeapOf

LEMMA HeapFrom ==
    ASSUME NEW W, NEW a \in Seq(DOMAIN W), NEW x \in [DOMAIN W -> Nat]
    PROVE  HeapOf(a, x, W) \in Heaps(W)
BY DEF Heaps, HeapOf

LEMMA KeysAre ==
    ASSUME NEW W, W \in [DOMAIN W -> Int], NEW h \in Heaps(W)
    PROVE  /\ Keys(h) \in [1 .. Len(h.arr) -> Int]
           /\ \A p \in 1 .. Len(h.arr) : Keys(h)[p] = W[h.arr[p]]
BY HeapFields DEF Keys

LEMMA RangeIsIn ==
    ASSUME NEW W, NEW h \in Heaps(W), Placed(h)
    PROVE  Range(h.arr) = In(h)
<1>1. /\ h.arr \in [1 .. Len(h.arr) -> DOMAIN W] /\ Len(h.arr) \in Nat /\ DOMAIN h.index = DOMAIN W
      /\ DOMAIN h.arr = 1 .. Len(h.arr)
  BY HeapFields
<1>2. ASSUME NEW p \in 1 .. Len(h.arr) PROVE h.arr[p] \in In(h)
  BY <1>1 DEF Placed, In
<1>3. ASSUME NEW n \in In(h) PROVE \E p \in 1 .. Len(h.arr) : h.arr[p] = n
  BY <1>1 DEF Placed, In
<1> QED BY <1>1, <1>2, <1>3 DEF Range

(* No change is a rearrangement, and two make one. *)
LEMMA RearrangedNot ==
    ASSUME NEW h, Placed(h), NEW n PROVE Rearranged(h, h, n)
BY DEF Rearranged

LEMMA RearrangedTwice ==
    ASSUME NEW W, NEW f \in Heaps(W), NEW g, NEW h, NEW n, Rearranged(g, f, n), Rearranged(h, g, n)
    PROVE  Rearranged(h, f, n)
BY DEF Rearranged

LEMMA SeqFrom ==
    ASSUME NEW X, NEW n \in Nat, NEW f \in [1 .. n -> X]
    PROVE  f \in Seq(X) /\ Len(f) = n
OBVIOUS

LEMMA SwapIs ==
    ASSUME NEW W, NEW h \in Heaps(W), Placed(h),
           NEW i \in 1 .. Len(h.arr), NEW j \in 1 .. Len(h.arr)
    PROVE  LET g == Swap(h, i, j) IN
           /\ g \in Heaps(W)
           /\ \A n \in Nat : i <= n /\ j <= n => Rearranged(g, h, n)
           /\ Len(g.arr) = Len(h.arr) /\ Placed(g) /\ In(g) = In(h)
           /\ g.arr[i] = h.arr[j] /\ g.arr[j] = h.arr[i]
           /\ \A p \in 1 .. Len(h.arr) : p # i /\ p # j => g.arr[p] = h.arr[p]
<1> DEFINE L == Len(h.arr)
           D == DOMAIN W
           a == [h.arr EXCEPT ![i] = h.arr[j], ![j] = h.arr[i]]
           x == [h.index EXCEPT ![a[i]] = i, ![a[j]] = j]
           g == HeapOf(a, x, W)
<1>1. /\ h.when = W
      /\ h.index \in [D -> Nat] /\ L \in Nat /\ h.arr \in [1 .. L -> D]
      /\ DOMAIN h.index = D
  BY HeapFields
<1>2. Swap(h, i, j) = g
  BY <1>1 DEF Swap
<1>3. /\ a \in [1 .. L -> D] /\ a[i] = h.arr[j] /\ a[j] = h.arr[i]
      /\ \A p \in 1 .. L : p # i /\ p # j => a[p] = h.arr[p]
  BY <1>1
<1> HIDE DEF a
<1>4. a \in Seq(D) /\ Len(a) = L
  BY <1>1, <1>3, SeqFrom
<1>5. /\ x \in [D -> Nat] /\ DOMAIN x = D
      /\ x[a[j]] = j
      /\ x[a[i]] = i
      /\ \A n \in D : n # a[i] /\ n # a[j] => x[n] = h.index[n]
  <2>1. a[i] \in D /\ a[j] \in D /\ i \in Nat /\ j \in Nat
    BY <1>1, <1>3
  <2>2. a[i] = a[j] => i = j
    <3>1. h.index[h.arr[i]] = i /\ h.index[h.arr[j]] = j
      BY DEF Placed
    <3> QED BY <1>3, <3>1
  <2> QED BY <1>1, <2>1, <2>2
<1>6. g \in Heaps(W) /\ g.arr = a /\ g.index = x
  BY <1>4, <1>5, HeapFrom, HeapOfFields
<1> HIDE DEF x
<1>7. Placed(g)
  <2>1. ASSUME NEW p \in 1 .. L PROVE x[a[p]] = p
    <3>1. CASE p # i /\ p # j
      <4>1. a[p] = h.arr[p] /\ h.index[h.arr[p]] = p /\ h.index[h.arr[i]] = i /\ h.index[h.arr[j]] = j
        BY <1>3, <3>1 DEF Placed
      <4>2. a[p] # a[i] /\ a[p] # a[j] /\ a[p] \in D
        BY <1>1, <1>3, <3>1, <4>1
      <4> QED BY <1>5, <4>1, <4>2
    <3> QED BY <1>5, <3>1
  <2>2. ASSUME NEW n \in D, x[n] # 0 PROVE x[n] \in 1 .. L /\ a[x[n]] = n
    <3>1. CASE n # a[i] /\ n # a[j]
      <4>1. x[n] = h.index[n]
        BY <1>5, <3>1
      <4>2. h.index[n] \in 1 .. L /\ h.arr[h.index[n]] = n
        BY <1>1, <2>2, <4>1 DEF Placed
      <4>3. h.index[n] # i /\ h.index[n] # j
        BY <1>3, <3>1, <4>2
      <4> QED BY <1>3, <4>1, <4>2, <4>3
    <3> QED BY <1>5, <3>1
  <2> QED BY <1>4, <1>5, <1>6, <2>1, <2>2 DEF Placed
<1>8. In(g) = In(h)
  <2>1. h.index[a[i]] # 0 /\ h.index[a[j]] # 0
    BY <1>3 DEF Placed
  <2>2. ASSUME NEW n \in D PROVE x[n] # 0 <=> h.index[n] # 0
    BY <1>5, <2>1
  <2> QED BY <1>1, <1>5, <1>6, <2>2 DEF In
<1>9. \A n \in Nat : i <= n /\ j <= n => Rearranged(g, h, n)
  BY <1>1, <1>3, <1>4, <1>6, <1>7, <1>8 DEF Rearranged
<1> HIDE DEF g
<1> QED BY <1>2, <1>3, <1>4, <1>6, <1>7, <1>8, <1>9

(* Swap exchanges two times. *)
LEMMA SwapKeys ==
    ASSUME NEW W, W \in [DOMAIN W -> Int], NEW h \in Heaps(W), Placed(h),
           NEW i \in 1 .. Len(h.arr), NEW j \in 1 .. Len(h.arr)
    PROVE  Keys(Swap(h, i, j)) = Exchanged(Keys(h), i, j)
<1> DEFINE g == Swap(h, i, j)
           L == Len(h.arr)
<1>1. /\ g \in Heaps(W) /\ Len(g.arr) = L
      /\ g.arr[i] = h.arr[j] /\ g.arr[j] = h.arr[i]
      /\ \A p \in 1 .. L : p # i /\ p # j => g.arr[p] = h.arr[p]
  BY SwapIs
<1> HIDE DEF g
<1>2. Keys(h) \in [1 .. L -> Int] /\ \A p \in 1 .. L : Keys(h)[p] = W[h.arr[p]]
  BY KeysAre
<1>n. L \in Nat
  BY HeapFields
<1>3. Keys(g) \in [1 .. L -> Int] /\ \A p \in 1 .. L : Keys(g)[p] = W[g.arr[p]]
  BY <1>1, KeysAre
<1>4. /\ Exchanged(Keys(h), i, j) \in [1 .. L -> Int]
      /\ Exchanged(Keys(h), i, j)[i] = Keys(h)[j]
      /\ Exchanged(Keys(h), i, j)[j] = Keys(h)[i]
      /\ \A p \in 1 .. L : p # i /\ p # j => Exchanged(Keys(h), i, j)[p] = Keys(h)[p]
  <2> DEFINE k == Keys(h)
  <2> HIDE DEF k, L
  <2>1. k \in [1 .. L -> Int] /\ i \in 1 .. L /\ j \in 1 .. L
    BY <1>2 DEF k, L
  <2>2. /\ Exchanged(k, i, j) \in [1 .. L -> Int]
        /\ Exchanged(k, i, j)[i] = k[j]
        /\ Exchanged(k, i, j)[j] = k[i]
        /\ \A p \in 1 .. L : p # i /\ p # j => Exchanged(k, i, j)[p] = k[p]
    BY <1>n, <2>1, ExchangedIs
  <2> QED BY <2>2 DEF k
<1>5. \A p \in 1 .. L : Keys(g)[p] = Exchanged(Keys(h), i, j)[p]
  <2> TAKE p \in 1 .. L
  <2>1. i \in 1 .. L /\ j \in 1 .. L
    OBVIOUS
  <2> HIDE DEF L
  <2>2. CASE p = i
    <3>1. g.arr[i] = h.arr[j] /\ Exchanged(Keys(h), i, j)[i] = Keys(h)[j]
      BY <1>1, <1>4
    <3>2. Keys(g)[i] = W[g.arr[i]] /\ Keys(h)[j] = W[h.arr[j]]
      BY <1>2, <1>3, <2>1
    <3> QED BY <2>2, <3>1, <3>2
  <2>3. CASE p = j
    <3>1. g.arr[j] = h.arr[i] /\ Exchanged(Keys(h), i, j)[j] = Keys(h)[i]
      BY <1>1, <1>4
    <3>2. Keys(g)[j] = W[g.arr[j]] /\ Keys(h)[i] = W[h.arr[i]]
      BY <1>2, <1>3, <2>1
    <3> QED BY <2>3, <3>1, <3>2
  <2>4. CASE p # i /\ p # j
    <3>1. g.arr[p] = h.arr[p]
      BY <1>1, <2>4
    <3>2. Exchanged(Keys(h), i, j)[p] = Keys(h)[p]
      BY <1>4, <2>4
    <3> QED BY <1>2, <1>3, <3>1, <3>2
  <2> QED BY <2>2, <2>3, <2>4
<1> QED BY <1>3, <1>4, <1>5 DEF g

LEMMA LessIs ==
    ASSUME NEW W, W \in [DOMAIN W -> Int], NEW h \in Heaps(W),
           NEW i \in 1 .. Len(h.arr), NEW j \in 1 .. Len(h.arr)
    PROVE  Less(h, i, j) <=> Keys(h)[i] < Keys(h)[j]
BY KeysAre, HeapFields DEF Less
----------------------------------------------------------------------------
(* up and down                                                             *)

(* The loop of up on h after m rounds, started at position j: the position *)
(* has been halved m times or has stopped.                                 *)
UpState(s, h, W, n, j, m) ==
    /\ s.heap \in Heaps(W) /\ Rearranged(s.heap, h, n)
    /\ s.at \in 1 .. n /\ UpFine(Keys(s.heap), n, s.at)
    /\ s.at + m <= j \/ s.at <= 1 \/ Fine(Keys(s.heap), s.at)

LEMMA UpRound ==
    ASSUME NEW W, W \in [DOMAIN W -> Int], NEW h \in Heaps(W), NEW n \in Nat, n <= Len(h.arr),
           NEW j \in Nat, NEW m \in Nat, NEW s, UpState(s, h, W, n, j, m), NEW r
    PROVE  UpState(Rise(s, r), h, W, n, j, m + 1)
<1> DEFINE g == s.heap
           L == Len(h.arr)
           k == Keys(g)
           q == Parent(s.at)
<1>1. /\ g \in Heaps(W) /\ Rearranged(g, h, n) /\ Len(g.arr) = L /\ Placed(g) /\ L \in Nat
      /\ s.at \in 1 .. n /\ s.at \in 1 .. L /\ UpFine(k, n, s.at)
      /\ s.at + m <= j \/ s.at <= 1 \/ Fine(k, s.at)
  BY HeapFields DEF UpState, Rearranged
<1>2. k \in [1 .. L -> Int] /\ \A p \in 1 .. L : k[p] \in Int
  BY <1>1, KeysAre
<1> HIDE DEF g, L, k, q
<1>3. CASE s.at <= 1 \/ ~Less(g, s.at, q)
  <2>1. Rise(s, r) = s
    BY <1>3 DEF Rise, g, q
  <2>2. s.at <= 1 \/ Fine(k, s.at)
    <3>1. CASE s.at > 1
      <4>1. q \in 1 .. L
        BY <1>1, <3>1, ParentIs DEF q
      <4>2. ~(k[s.at] < k[q])
        BY <1>1, <1>3, <3>1, <4>1, LessIs DEF k
      <4> QED BY <1>1, <1>2, <4>1, <4>2 DEF Fine, q
    <3> QED BY <1>1, <3>1
  <2> QED BY <1>1, <2>1, <2>2 DEF UpState, g, k
<1>4. CASE s.at > 1 /\ Less(g, s.at, q)
  <2> DEFINE f == Swap(g, q, s.at)
  <2>1. q \in 1 .. L /\ q \in 1 .. n /\ q < s.at /\ s.at \in 2 .. n
    BY <1>1, <1>4, ParentIs DEF q
  <2>2. k[s.at] < k[q]
    BY <1>1, <1>4, <2>1, LessIs DEF k
  <2>3. f \in Heaps(W) /\ Rearranged(f, g, n)
    BY <1>1, <2>1, SwapIs
  <2>4. Keys(f) = Exchanged(k, q, s.at)
    BY <1>1, <2>1, SwapKeys DEF k
  <2>5. Rearranged(f, h, n)
    BY <1>1, <2>3, RearrangedTwice
  <2> HIDE DEF f
  <2>6. UpFine(Keys(f), n, q)
    <3>1. n <= L
      BY DEF L
    <3> QED BY <1>1, <1>2, <2>1, <2>2, <2>4, <3>1, UpMoves DEF q
  <2>7. q + (m + 1) <= j
    <3>1. ~Fine(k, s.at)
      BY <1>1, <1>2, <2>1, <2>2 DEF Fine, q
    <3> QED BY <1>1, <1>4, <2>1, <3>1
  <2>8. Rise(s, r) = [heap |-> f, at |-> q]
    BY <1>1, <1>4 DEF Rise, f, g, q
  <2> QED BY <2>1, <2>3, <2>5, <2>6, <2>7, <2>8 DEF UpState
<1> QED BY <1>1, <1>3, <1>4

(* up orders the first n positions when only position j is too early. *)
LEMMA UpOrders ==
    ASSUME NEW W, W \in [DOMAIN W -> Int], NEW h \in Heaps(W), Placed(h),
           NEW n \in Nat, n <= Len(h.arr), NEW j \in 1 .. n, UpFine(Keys(h), n, j)
    PROVE  /\ up(h, j) \in Heaps(W) /\ Rearranged(up(h, j), h, n)
           /\ Ordered(Keys(up(h, j)), n)
<1> DEFINE T == [heap : Heaps(W), at : 1 .. n]
           Q == [m \in 0 .. j |-> { s \in T : UpState(s, h, W, n, j, m) }]
           rounds == [round \in 1 .. j |-> j]
           base == [heap |-> h, at |-> j]
           s == Rises!Fold(base, rounds)
<1>1. base \in Q[0]
  BY RearrangedNot DEF UpState
<1>2. ASSUME NEW m \in 1 .. j, NEW t \in Q[m - 1] PROVE Rise(t, rounds[m]) \in Q[m]
  <2>1. m - 1 \in Nat /\ (m - 1) + 1 = m /\ m - 1 \in 0 .. j /\ m \in 0 .. j
    OBVIOUS
  <2>2. t \in T /\ UpState(t, h, W, n, j, m - 1)
    BY <1>2, <2>1
  <2> HIDE DEF rounds
  <2>3. UpState(Rise(t, rounds[m]), h, W, n, j, m)
    BY <2>1, <2>2, UpRound
  <2>4. Rise(t, rounds[m]) \in T
    <3>1. \/ Rise(t, rounds[m]) = t
          \/ Rise(t, rounds[m]) = [heap |-> Swap(t.heap, Parent(t.at), t.at), at |-> Parent(t.at)]
      BY DEF Rise
    <3> QED BY <2>2, <2>3, <3>1 DEF UpState
  <2> QED BY <2>1, <2>3, <2>4
<1>3. Len(rounds) = j
  OBVIOUS
<1>4. s \in Q[j]
  <2> HIDE DEF Q, base, rounds
  <2> QED BY <1>1, <1>2, <1>3, Rises!FoldReaches
<1>5. UpState(s, h, W, n, j, j)
  <2> HIDE DEF s, T
  <2> QED BY <1>4
<1>6. up(h, j) = s.heap
  BY DEF up, Rising!Fold, Rises!Fold
<1> HIDE DEF s
<1>7. Ordered(Keys(s.heap), n)
  <2>1. s.at <= 1 \/ Fine(Keys(s.heap), s.at)
    BY <1>5 DEF UpState
  <2> QED BY <1>5, <2>1 DEF UpState, UpFine, Ordered
<1> QED BY <1>5, <1>6, <1>7 DEF UpState

(* The child that down looks at is the earlier one. *)
LEMMA ChildIs ==
    ASSUME NEW W, W \in [DOMAIN W -> Int], NEW h \in Heaps(W), NEW n \in Nat, n <= Len(h.arr),
           NEW i \in Nat, i >= 1, 2 * i <= n
    PROVE  LET c == Child(h, i, n) IN
           /\ c \in 2 .. n /\ c \in 1 .. Len(h.arr) /\ Parent(c) = i /\ c > i
           /\ \A p \in 2 .. n : Parent(p) = i => Keys(h)[c] <= Keys(h)[p]
<1> DEFINE L == Len(h.arr)
           k == Keys(h)
           c == Child(h, i, n)
           a == 2 * i
           b == 2 * i + 1
<1>1. L \in Nat /\ \A p \in 1 .. L : k[p] \in Int
  <2>1. L \in Nat
    BY HeapFields
  <2>2. k \in [1 .. L -> Int]
    BY KeysAre
  <2> HIDE DEF L, k
  <2> QED BY <2>1, <2>2
<1>2. n <= L
  OBVIOUS
<1> HIDE DEF L, k
<1>3. a \in 2 .. n /\ a \in 1 .. L /\ a > i /\ (b <= n => b \in 2 .. n /\ b \in 1 .. L /\ b > i)
  BY <1>1, <1>2
<1>4. a \in Nat /\ b \in Nat
  OBVIOUS
<1>5. Parent(a) = i /\ Parent(b) = i
  BY <1>4, ChildrenAre
<1>6. ASSUME NEW p \in 2 .. n, Parent(p) = i PROVE p = a \/ (p = b /\ b <= n)
  <2>1. p \in Nat /\ p <= n
    OBVIOUS
  <2> QED BY <1>6, <2>1, ChildrenAre
<1> HIDE DEF a, b
<1>7. CASE b <= n /\ Less(h, b, a)
  <2>1. c = b
    BY <1>7 DEF Child, a, b
  <2>2. k[b] < k[a]
    BY <1>3, <1>7, LessIs DEF k, L
  <2>3. k[b] <= k[a] /\ k[b] <= k[b]
    BY <1>1, <1>3, <1>7, <2>2
  <2>4. \A p \in 2 .. n : Parent(p) = i => k[c] <= k[p]
    BY <1>6, <2>1, <2>3
  <2> QED BY <1>3, <1>5, <1>7, <2>1, <2>4 DEF L, k
<1>8. CASE ~(b <= n /\ Less(h, b, a))
  <2>1. c = a
    BY <1>8 DEF Child, a, b
  <2>2. b <= n => ~(k[b] < k[a])
    BY <1>3, <1>8, LessIs DEF k, L
  <2>3. k[a] <= k[a] /\ (b <= n => k[a] <= k[b])
    BY <1>1, <1>3, <2>2
  <2>4. \A p \in 2 .. n : Parent(p) = i => k[c] <= k[p]
    BY <1>6, <2>1, <2>3
  <2> QED BY <1>3, <1>5, <2>1, <2>4 DEF L, k
<1> QED BY <1>7, <1>8

(* The loop of down after m rounds, started at position i. *)
DownState(s, h, W, n, lo, i, m) ==
    /\ s.heap \in Heaps(W) /\ Rearranged(s.heap, h, n)
    /\ s.at \in 1 .. Len(h.arr) /\ s.at >= i /\ (s.at = i => s.heap = h)
    /\ DownFine(Keys(s.heap), n, lo, s.at)
    /\ s.at >= i + m \/ Settled(Keys(s.heap), n, s.at)

LEMMA DownRound ==
    ASSUME NEW W, W \in [DOMAIN W -> Int], NEW h \in Heaps(W), NEW n \in Nat, n <= Len(h.arr),
           NEW lo \in Nat, NEW i \in Nat, lo <= i, NEW m \in Nat,
           NEW s, DownState(s, h, W, n, lo, i, m)
    PROVE  DownState(Sink(s, n), h, W, n, lo, i, m + 1)
<1> DEFINE g == s.heap
           L == Len(h.arr)
           k == Keys(g)
           c == Child(g, s.at, n)
<1>0. n <= L
  OBVIOUS
<1>1. /\ g \in Heaps(W) /\ Rearranged(g, h, n) /\ Len(g.arr) = L /\ Placed(g) /\ L \in Nat
      /\ s.at \in 1 .. L /\ s.at \in Nat /\ s.at >= i /\ DownFine(k, n, lo, s.at)
      /\ s.at >= i + m \/ Settled(k, n, s.at)
  BY HeapFields DEF DownState, Rearranged
<1>2. k \in [1 .. L -> Int] /\ \A p \in 1 .. L : k[p] \in Int
  BY <1>1, KeysAre
<1> HIDE DEF g, L, k, c
<1>3. CASE 2 * s.at > n
  <2>1. Sink(s, n) = s
    BY <1>3 DEF Sink
  <2>2. ASSUME NEW p \in 2 .. n, Parent(p) = s.at PROVE FALSE
    <3>1. p = 2 * s.at \/ p = 2 * s.at + 1
      BY <1>1, <2>2, ChildrenAre
    <3> QED BY <1>1, <1>3, <3>1
  <2>3. Settled(k, n, s.at)
    BY <2>2 DEF Settled
  <2> QED BY <2>1, <2>3 DEF DownState, g, k
<1>4. CASE 2 * s.at <= n
  <2>1. /\ c \in 2 .. n /\ c \in 1 .. L /\ Parent(c) = s.at /\ c > s.at
        /\ \A p \in 2 .. n : Parent(p) = s.at => k[c] <= k[p]
    <3>1. n <= Len(g.arr) /\ s.at \in Nat /\ s.at >= 1
      BY <1>1, <1>0
    <3> QED BY <1>1, <1>4, <3>1, ChildIs DEF c, k
  <2>2. Less(g, c, s.at) <=> k[c] < k[s.at]
    BY <1>1, <2>1, LessIs DEF k
  <2>3. CASE ~Less(g, c, s.at)
    <3>1. Sink(s, n) = s
      BY <2>3 DEF Sink, c, g
    <3>2. k[s.at] \in Int /\ k[c] \in Int /\ k[s.at] <= k[c] /\ \A p \in 2 .. n : k[p] \in Int
      <4>1. \A p \in 2 .. n : p \in 1 .. L
        BY <1>1, <1>0
      <4> QED BY <1>1, <1>2, <2>1, <2>2, <2>3, <4>1
    <3>3. Settled(k, n, s.at)
      BY <2>1, <3>2 DEF Settled
    <3> QED BY <3>1, <3>3 DEF DownState, g, k
  <2>4. CASE Less(g, c, s.at)
    <3> DEFINE f == Swap(g, s.at, c)
    <3>1. c > s.at /\ s.at \in 1 .. n
      BY <1>1, <1>4, <2>1
    <3>2. f \in Heaps(W) /\ Rearranged(f, g, n)
      BY <1>1, <2>1, <3>1, SwapIs
    <3>3. Keys(f) = Exchanged(k, s.at, c)
      BY <1>1, <2>1, SwapKeys DEF k
    <3>4. Rearranged(f, h, n)
      BY <1>1, <3>2, RearrangedTwice
    <3> HIDE DEF f
    <3>5. DownFine(Keys(f), n, lo, c)
      <4>1. lo <= s.at
        BY <1>1
      <4> QED BY <1>1, <1>0, <1>2, <2>1, <2>2, <2>4, <3>1, <3>3, <4>1, DownMoves
    <3>6. ~Settled(k, n, s.at)
      BY <1>1, <1>2, <2>1, <2>2, <2>4 DEF Settled
    <3>7. c >= i + (m + 1) /\ c >= i /\ c # i
      BY <1>1, <2>1, <3>1, <3>6
    <3>8. Sink(s, n) = [heap |-> f, at |-> c]
      BY <1>1, <1>4, <2>4 DEF Sink, f, g, c
    <3> QED BY <2>1, <3>2, <3>4, <3>5, <3>7, <3>8 DEF DownState, L
  <2> QED BY <2>3, <2>4
<1> QED BY <1>1, <1>3, <1>4

(* down orders all from lo on when only position i is too late, and leaves *)
(* the heap alone when it ends where it began.                             *)
LEMMA DownOrders ==
    ASSUME NEW W, W \in [DOMAIN W -> Int], NEW h \in Heaps(W), Placed(h),
           NEW n \in Nat, n <= Len(h.arr), NEW i \in 1 .. Len(h.arr), NEW lo \in Nat, lo <= i,
           DownFine(Keys(h), n, lo, i)
    PROVE  LET d == down(h, i, n) IN
           /\ d.heap \in Heaps(W) /\ Rearranged(d.heap, h, n)
           /\ d.at \in Nat /\ d.at >= i /\ (d.at = i => d.heap = h)
           /\ \A p \in 2 .. n : Parent(p) >= lo => Fine(Keys(d.heap), p)
<1> DEFINE T == [heap : Heaps(W), at : Nat]
           Q == [m \in 0 .. n |-> { s \in T : DownState(s, h, W, n, lo, i, m) }]
           rounds == [round \in 1 .. n |-> n]
           base == [heap |-> h, at |-> i]
           s == Sinks!Fold(base, rounds)
<1>1. base \in Q[0]
  BY RearrangedNot DEF DownState
<1>2. ASSUME NEW m \in 1 .. n, NEW t \in Q[m - 1] PROVE Sink(t, rounds[m]) \in Q[m]
  <2>1. m - 1 \in Nat /\ (m - 1) + 1 = m /\ m - 1 \in 0 .. n /\ m \in 0 .. n
    OBVIOUS
  <2>2. t \in T /\ DownState(t, h, W, n, lo, i, m - 1)
    BY <1>2, <2>1
  <2>r. rounds[m] = n
    OBVIOUS
  <2> HIDE DEF rounds
  <2>3. DownState(Sink(t, n), h, W, n, lo, i, m)
    BY <2>1, <2>2, DownRound
  <2>4. Sink(t, n) \in T
    <3>1. \/ Sink(t, n) = t
          \/ Sink(t, n) = [heap |-> Swap(t.heap, t.at, Child(t.heap, t.at, n)), at |-> Child(t.heap, t.at, n)]
      BY DEF Sink
    <3>2. \A x \in 1 .. Len(h.arr) : x \in Nat
      OBVIOUS
    <3> QED BY <2>2, <2>3, <3>1, <3>2 DEF DownState
  <2> QED BY <2>1, <2>3, <2>4, <2>r
<1>3. Len(rounds) = n
  OBVIOUS
<1>4. s \in Q[n]
  <2> HIDE DEF Q, base, rounds
  <2> QED BY <1>1, <1>2, <1>3, Sinks!FoldReaches
<1>5. DownState(s, h, W, n, lo, i, n)
  <2> HIDE DEF s, T
  <2> QED BY <1>4
<1>6. down(h, i, n) = s
  BY DEF down, Sinking!Fold, Sinks!Fold
<1> HIDE DEF s
<1>7. Settled(Keys(s.heap), n, s.at)
  <2>1. CASE s.at >= i + n
    <3>1. s.at \in Nat /\ s.at > n
      BY <1>5, <2>1 DEF DownState
    <3> QED BY <3>1, ParentIs DEF Settled
  <2> QED BY <1>5, <2>1 DEF DownState
<1>8. \A p \in 2 .. n : Parent(p) >= lo => Fine(Keys(s.heap), p)
  BY <1>5, <1>7 DEF DownState, DownFine, Settled, Fine
<1> QED BY <1>5, <1>6, <1>8 DEF DownState

(* down leaves a heap alone whose position i is in its place.              *)
LEMMA DownStays ==
    ASSUME NEW W, W \in [DOMAIN W -> Int], NEW h \in Heaps(W),
           NEW n \in Nat, n <= Len(h.arr), NEW i \in 1 .. Len(h.arr), Settled(Keys(h), n, i)
    PROVE  down(h, i, n).at = i
<1> DEFINE rounds == [round \in 1 .. n |-> n]
           base == [heap |-> h, at |-> i]
           Q == [m \in 0 .. n |-> {base}]
           c == Child(h, i, n)
<1>1. Sink(base, n) = base
  <2>1. CASE 2 * i > n
    BY <2>1 DEF Sink
  <2>2. CASE 2 * i <= n
    <3>1. c \in 2 .. n /\ c \in 1 .. Len(h.arr) /\ Parent(c) = i
      <4>1. i \in Nat /\ i >= 1
        OBVIOUS
      <4> QED BY <2>2, <4>1, ChildIs
    <3>2. ~Less(h, c, i)
      <4>1. Keys(h)[i] <= Keys(h)[c]
        BY <3>1 DEF Settled
      <4>2. Keys(h)[i] \in Int /\ Keys(h)[c] \in Int
        BY <3>1, KeysAre
      <4>3. Less(h, c, i) <=> Keys(h)[c] < Keys(h)[i]
        BY <3>1, LessIs
      <4> QED BY <4>1, <4>2, <4>3
    <3> QED BY <3>2 DEF Sink
  <2> QED BY <2>1, <2>2
<1>2. Sinks!Fold(base, rounds) \in Q[n]
  <2>1. base \in Q[0] /\ Len(rounds) = n /\ Len(rounds) \in Nat
    OBVIOUS
  <2>2. ASSUME NEW m \in 1 .. n, NEW t \in Q[m - 1] PROVE Sink(t, rounds[m]) \in Q[m]
    <3>1. t = base /\ rounds[m] = n
      OBVIOUS
    <3> HIDE DEF base, rounds
    <3> QED BY <1>1, <3>1
  <2> HIDE DEF Q, base, rounds
  <2> QED BY <2>1, <2>2, Sinks!FoldReaches
<1>3. Sinks!Fold(base, rounds) = base
  BY <1>2
<1> QED BY <1>3 DEF down, Sinking!Fold, Sinks!Fold

(* All is in order but position i, which may be too early or too late.     *)
SiftFine(k, n, i) ==
    /\ \A p \in 2 .. n : p # i /\ Parent(p) # i => Fine(k, p)
    /\ \A p \in 2 .. n : Parent(p) = i /\ i > 1 => k[Parent(i)] <= k[p]

(* Sift orders the first n positions when only position i is misplaced: an *)
(* item that is too early stays in down and rises in up.                   *)
LEMMA SiftOrders ==
    ASSUME NEW W, W \in [DOMAIN W -> Int], NEW h \in Heaps(W), Placed(h),
           NEW n \in Nat, n <= Len(h.arr), NEW i \in 1 .. n, SiftFine(Keys(h), n, i)
    PROVE  /\ Sift(h, i, n) \in Heaps(W) /\ Rearranged(Sift(h, i, n), h, n)
           /\ Ordered(Keys(Sift(h, i, n)), n)
<1> DEFINE k == Keys(h)
           d == down(h, i, n)
<1>1. i \in 1 .. Len(h.arr) /\ Len(h.arr) \in Nat
  BY HeapFields
<1>2. k \in [1 .. Len(h.arr) -> Int]
  BY KeysAre
<1>3. \A p \in 2 .. n : /\ p \in 1 .. Len(h.arr) /\ Parent(p) \in 1 .. Len(h.arr)
                       /\ Parent(p) >= 1 /\ Parent(p) < p
  BY <1>1, ParentIs
<1>4. CASE i = 1 \/ Fine(k, i)
  <2>1. DownFine(k, n, 1, i)
    <3>1. ASSUME NEW p \in 2 .. n, Parent(p) # i PROVE Fine(k, p)
      BY <1>4, <3>1 DEF SiftFine
    <3> QED BY <3>1 DEF DownFine, SiftFine
  <2>2. /\ d.heap \in Heaps(W) /\ Rearranged(d.heap, h, n)
        /\ d.at \in Nat /\ d.at >= i /\ (d.at = i => d.heap = h)
        /\ \A p \in 2 .. n : Parent(p) >= 1 => Fine(Keys(d.heap), p)
    BY <1>1, <2>1, DownOrders
  <2> HIDE DEF d
  <2>3. Ordered(Keys(d.heap), n)
    BY <1>3, <2>2 DEF Ordered
  <2>4. CASE d.at > i
    BY <2>2, <2>3, <2>4 DEF Sift, d
  <2>5. CASE ~(d.at > i)
    <3>1. d.heap = h
      BY <2>2, <2>5
    <3>2. UpFine(k, n, i)
      BY <2>3, <3>1 DEF UpFine, Ordered, SiftFine
    <3>3. Sift(h, i, n) = up(h, i)
      BY <2>5 DEF Sift, d
    <3> QED BY <3>2, <3>3, UpOrders
  <2> QED BY <2>4, <2>5
<1>5. CASE ~(i = 1 \/ Fine(k, i))
  <2>1. i \in 2 .. n /\ i > 1 /\ k[i] < k[Parent(i)]
    BY <1>1, <1>2, <1>3, <1>5 DEF Fine
  <2>2. Settled(k, n, i)
    <3>1. ASSUME NEW p \in 2 .. n, Parent(p) = i PROVE k[i] <= k[p]
      <4>1. k[Parent(i)] <= k[p]
        BY <2>1, <3>1 DEF SiftFine
      <4>2. k[Parent(i)] \in Int /\ k[p] \in Int /\ k[i] \in Int
        BY <1>1, <1>2, <1>3, <2>1
      <4> QED BY <2>1, <4>1, <4>2
    <3> QED BY <3>1 DEF Settled
  <2>3. d.at = i
    BY <1>1, <2>2, DownStays
  <2>4. UpFine(k, n, i)
    BY <2>2 DEF UpFine, SiftFine, Settled, Fine
  <2>5. Sift(h, i, n) = up(h, i)
    BY <1>1, <2>3 DEF Sift
  <2> QED BY <2>4, <2>5, UpOrders
<1> QED BY <1>4, <1>5
----------------------------------------------------------------------------
(* The operations of container/heap                                        *)

Good(h, W) == h \in Heaps(W) /\ Placed(h) /\ Ordered(Keys(h), Len(h.arr))

(* Push adds a name that is not in the array behind the others. *)
LEMMA HeapPushIs ==
    ASSUME NEW W, W \in [DOMAIN W -> Int], NEW h, Good(h, W), NEW n \in DOMAIN W, h.index[n] = 0
    PROVE  Good(HeapPush(h, n), W) /\ In(HeapPush(h, n)) = In(h) \cup {n}
<1> DEFINE L == Len(h.arr)
           D == DOMAIN W
           a == Append(h.arr, n)
           x == [h.index EXCEPT ![n] = L + 1]
           g == HeapOf(a, x, W)
<1>1. /\ h.when = W /\ h.arr \in Seq(D) /\ h.index \in [D -> Nat] /\ L \in Nat
      /\ h.arr \in [1 .. L -> D] /\ DOMAIN h.index = D /\ h \in Heaps(W)
  BY HeapFields DEF Good
<1>2. Push(h, n) = g
  BY <1>1 DEF Push
<1>3. /\ a \in Seq(D) /\ Len(a) = L + 1 /\ a[L + 1] = n
      /\ \A p \in 1 .. L : a[p] = h.arr[p] /\ a[p] \in D
  <2>1. a \in Seq(D) /\ Len(a) = L + 1
    BY <1>1
  <2>2. a[L + 1] = n
    BY <1>1
  <2>3. ASSUME NEW p \in 1 .. L PROVE a[p] = h.arr[p] /\ a[p] \in D
    <3>1. a[p] = h.arr[p]
      BY <1>1
    <3>2. h.arr[p] \in D
      BY <1>1
    <3> QED BY <3>1, <3>2
  <2> QED BY <2>1, <2>2, <2>3
<1>4. x \in [D -> Nat] /\ x[n] = L + 1 /\ \A m \in D : m # n => x[m] = h.index[m]
  BY <1>1
<1>5. \A p \in 1 .. L + 1 : p = L + 1 \/ p \in 1 .. L
  <2>1. L \in Nat
    BY <1>1
  <2> HIDE DEF L
  <2> QED BY <2>1
<1> HIDE DEF a, x
<1>6. g \in Heaps(W) /\ g.arr = a /\ g.index = x /\ g.when = W
  BY <1>3, <1>4, HeapFrom, HeapOfFields
<1> HIDE DEF g
<1>7. Placed(g)
  <2>1. ASSUME NEW p \in 1 .. L + 1 PROVE x[a[p]] = p
    <3>1. CASE p = L + 1
      BY <1>3, <1>4, <3>1
    <3>2. CASE p \in 1 .. L
      <4>1. h.index[h.arr[p]] = p
        BY <3>2 DEF Good, Placed
      <4>2. p # 0 /\ a[p] = h.arr[p] /\ a[p] \in D
        BY <1>3, <3>2
      <4>3. a[p] # n
        BY <4>1, <4>2
      <4> QED BY <1>4, <4>1, <4>2, <4>3
    <3> QED BY <1>5, <3>1, <3>2
  <2>2. ASSUME NEW m \in D, x[m] # 0 PROVE x[m] \in 1 .. L + 1 /\ a[x[m]] = m
    <3>1. CASE m = n
      BY <1>1, <1>3, <1>4, <3>1
    <3>2. CASE m # n
      <4>1. h.index[m] \in 1 .. L /\ h.arr[h.index[m]] = m /\ x[m] = h.index[m]
        BY <1>1, <1>4, <2>2, <3>2 DEF Good, Placed
      <4>2. a[x[m]] = h.arr[x[m]]
        BY <1>3, <4>1
      <4>3. x[m] \in 1 .. L + 1
        <5> HIDE DEF L
        <5> QED BY <1>1, <4>1
      <4> QED BY <4>1, <4>2, <4>3
    <3> QED BY <3>1, <3>2
  <2>3. DOMAIN x = D
    BY <1>4
  <2> QED BY <1>3, <1>6, <2>1, <2>2, <2>3 DEF Placed
<1>8. In(g) = In(h) \cup {n}
  <2>1. DOMAIN x = D /\ L + 1 # 0
    BY <1>1, <1>4
  <2> QED BY <1>1, <1>4, <1>6, <2>1 DEF In
<1>9. UpFine(Keys(g), L + 1, L + 1)
  <2>1. ASSUME NEW p \in 1 .. L PROVE Keys(g)[p] = Keys(h)[p]
    <3>1. p \in 1 .. Len(g.arr)
      BY <1>1, <1>3, <1>6
    <3>2. Keys(g)[p] = W[g.arr[p]]
      BY <1>6, <3>1, KeysAre
    <3>3. Keys(h)[p] = W[h.arr[p]]
      BY <1>1, KeysAre
    <3> QED BY <1>3, <1>6, <3>2, <3>3
  <2>2. ASSUME NEW p \in 2 .. L + 1, p # L + 1 PROVE Fine(Keys(g), p)
    <3> HIDE DEF L
    <3>1. p \in 2 .. L /\ L \in Int
      BY <1>1, <2>2
    <3>2. p \in 1 .. L /\ Parent(p) \in 1 .. L
      BY <3>1, ParentWithin
    <3>3. Fine(Keys(h), p)
      BY <3>1 DEF Good, Ordered, L
    <3> QED BY <2>1, <3>2, <3>3 DEF Fine
  <2>3. ASSUME NEW p \in 2 .. L + 1 PROVE Parent(p) # L + 1
    <3>1. p \in Nat /\ p >= 2 /\ p <= L + 1
      BY <1>1
    <3>2. Parent(p) \in Nat /\ Parent(p) < p
      BY <3>1, ParentIs
    <3> QED BY <1>1, <3>1, <3>2
  <2> QED BY <2>2, <2>3 DEF UpFine
<1>10. /\ up(g, L + 1) \in Heaps(W) /\ Rearranged(up(g, L + 1), g, L + 1)
       /\ Ordered(Keys(up(g, L + 1)), L + 1)
  <2>1. L + 1 \in Nat /\ L + 1 \in 1 .. L + 1 /\ L + 1 <= Len(g.arr)
    BY <1>1, <1>3, <1>6
  <2> HIDE DEF L
  <2> QED BY <1>6, <1>7, <1>9, <2>1, UpOrders
<1>11. HeapPush(h, n) = up(g, L + 1)
  BY <1>2, <1>3, <1>6 DEF HeapPush
<1> QED BY <1>3, <1>6, <1>8, <1>10, <1>11 DEF Good, Rearranged

LEMMA FrontIs ==
    ASSUME NEW X, NEW s \in Seq(X), Len(s) > 0
    PROVE  /\ Front(s) \in Seq(X) /\ Len(Front(s)) = Len(s) - 1
           /\ \A p \in 1 .. Len(s) - 1 : Front(s)[p] = s[p] /\ Front(s)[p] \in X
<1> DEFINE L == Len(s)
<1>1. L \in Nat /\ s \in [1 .. L -> X] /\ L > 0
  OBVIOUS
<1> HIDE DEF L
<1>2. 1 \in Int /\ L - 1 \in Int /\ \A i \in 1 .. L - 1 : s[i] \in X
  BY <1>1
<1>3. /\ SubSeq(s, 1, L - 1) \in Seq(X)
      /\ Len(SubSeq(s, 1, L - 1)) = IF 1 <= L - 1 THEN (L - 1) - 1 + 1 ELSE 0
      /\ \A i \in 1 .. (L - 1) - 1 + 1 : SubSeq(s, 1, L - 1)[i] = s[1 + i - 1]
  BY <1>2, SubSeqProperties
<1>4. (L - 1) - 1 + 1 = L - 1 /\ \A i \in 1 .. L - 1 : 1 + i - 1 = i
  BY <1>1
<1>5. Len(SubSeq(s, 1, L - 1)) = L - 1
  BY <1>1, <1>3
<1>6. \A i \in 1 .. L - 1 : SubSeq(s, 1, L - 1)[i] = s[i]
  BY <1>3, <1>4
<1> QED BY <1>2, <1>3, <1>5, <1>6 DEF Front, L

(* Pop drops the last position and marks its item as gone.                 *)
LEMMA PopIs ==
    ASSUME NEW W, W \in [DOMAIN W -> Int], NEW h \in Heaps(W), Placed(h), Len(h.arr) > 0,
           Ordered(Keys(h), Len(h.arr) - 1)
    PROVE  Good(Pop(h), W) /\ In(Pop(h)) = In(h) \ {h.arr[Len(h.arr)]}
<1> DEFINE L == Len(h.arr)
           D == DOMAIN W
           n == h.arr[L]
           a == Front(h.arr)
           x == [h.index EXCEPT ![n] = 0]
           g == HeapOf(a, x, W)
<1>1. /\ h.when = W /\ h.arr \in Seq(D) /\ h.index \in [D -> Nat] /\ L \in Nat
      /\ h.arr \in [1 .. L -> D] /\ DOMAIN h.index = D
  BY HeapFields
<1>2. Pop(h) = g
  BY <1>1 DEF Pop, Last
<1>3. a \in Seq(D) /\ Len(a) = L - 1 /\ \A p \in 1 .. L - 1 : a[p] = h.arr[p] /\ a[p] \in D
  BY <1>1, FrontIs
<1>4. n \in D /\ L \in 1 .. L /\ h.index[n] = L /\ L - 1 \in Nat
  <2>1. L \in 1 .. L /\ L - 1 \in Nat
    BY <1>1
  <2>2. h.arr[L] \in D
    BY <1>1, <2>1
  <2>3. h.index[h.arr[L]] = L
    BY <2>1 DEF Placed
  <2> QED BY <2>1, <2>2, <2>3
<1>5. x \in [D -> Nat] /\ x[n] = 0 /\ \A m \in D : m # n => x[m] = h.index[m]
  BY <1>1, <1>4
<1> HIDE DEF a, x, n
<1>6. g \in Heaps(W) /\ g.arr = a /\ g.index = x /\ g.when = W
  BY <1>3, <1>5, HeapFrom, HeapOfFields
<1> HIDE DEF g
<1>7. Placed(g)
  <2>1. ASSUME NEW p \in 1 .. L - 1 PROVE x[a[p]] = p
    <3>1. p \in 1 .. L /\ p # L
      BY <1>1
    <3>2. h.index[h.arr[p]] = p
      BY <3>1 DEF Placed
    <3>3. a[p] # n
      BY <1>3, <1>4, <3>1, <3>2
    <3> QED BY <1>3, <1>5, <3>2, <3>3
  <2>2. ASSUME NEW m \in D, x[m] # 0 PROVE x[m] \in 1 .. L - 1 /\ a[x[m]] = m
    <3>1. m # n /\ x[m] = h.index[m]
      BY <1>5, <2>2
    <3>2. h.index[m] \in 1 .. L /\ h.arr[h.index[m]] = m
      BY <1>1, <2>2, <3>1 DEF Placed
    <3>3. h.index[m] # L
      BY <3>1, <3>2 DEF n
    <3>4. h.index[m] \in 1 .. L - 1
      BY <1>1, <3>2, <3>3
    <3> QED BY <1>3, <3>1, <3>2, <3>4
  <2>3. DOMAIN x = D
    BY <1>5
  <2> QED BY <1>3, <1>6, <2>1, <2>2, <2>3 DEF Placed
<1>8. In(g) = In(h) \ {n}
  <2>1. DOMAIN x = D
    BY <1>5
  <2> QED BY <1>1, <1>5, <1>6, <2>1 DEF In
<1>9. Ordered(Keys(g), L - 1)
  <2>1. ASSUME NEW p \in 1 .. L - 1 PROVE Keys(g)[p] = Keys(h)[p]
    <3>0. Len(g.arr) = L - 1
      BY <1>3, <1>6
    <3>1. p \in 1 .. Len(g.arr) /\ p \in 1 .. L
      <4> HIDE DEF L
      <4> QED BY <1>1, <2>1, <3>0
    <3>2. Keys(g)[p] = W[g.arr[p]]
      BY <1>6, <3>1, KeysAre
    <3>3. Keys(h)[p] = W[h.arr[p]]
      BY <3>1, KeysAre
    <3> QED BY <1>3, <1>6, <3>2, <3>3
  <2>2. ASSUME NEW p \in 2 .. L - 1 PROVE Fine(Keys(g), p)
    <3>1. L - 1 \in Int
      BY <1>1
    <3>2. p \in 1 .. L - 1 /\ Parent(p) \in 1 .. L - 1
      BY <3>1, ParentWithin
    <3>3. Fine(Keys(h), p)
      BY DEF Ordered
    <3> QED BY <2>1, <3>2, <3>3 DEF Fine
  <2> QED BY <2>2 DEF Ordered
<1> QED BY <1>2, <1>3, <1>6, <1>7, <1>8, <1>9 DEF Good, n

(* Rearranging the first positions keeps those behind them. *)
LEMMA HeapPopIs ==
    ASSUME NEW W, W \in [DOMAIN W -> Int], NEW h, Good(h, W), Len(h.arr) > 0
    PROVE  Good(HeapPop(h), W) /\ In(HeapPop(h)) = In(h) \ {h.arr[1]}
<1> DEFINE L == Len(h.arr)
           g == Swap(h, 1, L)
           d == down(g, 1, L - 1)
           k == Keys(h)
<1>1. L \in Nat /\ 1 \in 1 .. L /\ L \in 1 .. L /\ L - 1 \in Nat /\ L - 1 <= L /\ h \in Heaps(W) /\ Placed(h)
  BY HeapFields DEF Good
<1>2. /\ g \in Heaps(W) /\ Len(g.arr) = L /\ Placed(g) /\ In(g) = In(h) /\ g.arr[L] = h.arr[1]
      /\ Keys(g) = Exchanged(k, 1, L)
  BY <1>1, SwapIs, SwapKeys
<1>3. k \in [1 .. L -> Int] /\ Ordered(k, L)
  BY <1>1, KeysAre DEF Good
<1> HIDE DEF L, g, k
<1>4. \A p \in 1 .. L : p # 1 /\ p # L => Keys(g)[p] = k[p]
  <2>1. \A p \in 1 .. L : p # 1 /\ p # L => Exchanged(k, 1, L)[p] = k[p]
    BY <1>1, <1>3, ExchangedIs
  <2> QED BY <1>2, <2>1
<1>5. DownFine(Keys(g), L - 1, 1, 1)
  <2>1. ASSUME NEW p \in 2 .. L - 1, Parent(p) # 1 PROVE Fine(Keys(g), p)
    <3>1. p \in 2 .. L /\ p \in 1 .. L /\ Parent(p) \in 1 .. L /\ p # 1 /\ p # L /\ Parent(p) # L
      BY <1>1, ParentIs
    <3> QED BY <1>3, <1>4, <2>1, <3>1 DEF Ordered, Fine
  <2> QED BY <2>1 DEF DownFine
<1>6. /\ d.heap \in Heaps(W) /\ Rearranged(d.heap, g, L - 1)
      /\ \A p \in 2 .. L - 1 : Parent(p) >= 1 => Fine(Keys(d.heap), p)
  BY <1>1, <1>2, <1>5, DownOrders
<1> HIDE DEF d
<1>7. /\ Len(d.heap.arr) = L /\ Placed(d.heap) /\ In(d.heap) = In(h) /\ d.heap.arr[L] = h.arr[1]
  BY <1>1, <1>2, <1>6 DEF Rearranged
<1>8. Ordered(Keys(d.heap), L - 1)
  <2>1. \A p \in 2 .. L - 1 : Parent(p) >= 1
    BY <1>1, ParentIs
  <2> QED BY <1>6, <2>1 DEF Ordered
<1>9. HeapPop(h) = Pop(d.heap)
  BY DEF HeapPop, d, g, L
<1>10. Len(d.heap.arr) > 0
  BY <1>1, <1>7
<1> QED BY <1>1, <1>6, <1>7, <1>8, <1>9, <1>10, PopIs

LEMMA HeapRemoveIs ==
    ASSUME NEW W, W \in [DOMAIN W -> Int], NEW h, Good(h, W), NEW i \in 1 .. Len(h.arr)
    PROVE  Good(HeapRemove(h, i), W) /\ In(HeapRemove(h, i)) = In(h) \ {h.arr[i]}
<1> DEFINE L == Len(h.arr)
           g == Swap(h, i, L)
           f == Sift(g, i, L - 1)
           k == Keys(h)
<1>1. /\ L \in Nat /\ i \in 1 .. L /\ L \in 1 .. L /\ L > 0 /\ L - 1 \in Nat /\ L - 1 <= L
      /\ h \in Heaps(W) /\ Placed(h)
  BY HeapFields DEF Good
<1>2. /\ g \in Heaps(W) /\ Len(g.arr) = L /\ Placed(g) /\ In(g) = In(h) /\ g.arr[L] = h.arr[i]
      /\ Keys(g) = Exchanged(k, i, L)
  BY <1>1, SwapIs, SwapKeys
<1>3. k \in [1 .. L -> Int] /\ Ordered(k, L)
  BY <1>1, KeysAre DEF Good
<1>4. HeapRemove(h, i) = Pop(IF L = i THEN h ELSE f)
  BY DEF HeapRemove
<1>5. CASE L = i
  <2>1. Ordered(k, L - 1)
    <3>1. \A p \in 2 .. L - 1 : p \in 2 .. L
      BY <1>1
    <3> QED BY <1>3, <3>1 DEF Ordered
  <2> QED BY <1>1, <1>4, <1>5, <2>1, PopIs
<1>6. CASE L # i
  <2> HIDE DEF L, g, k
  <2>0. i \in 1 .. L - 1
    BY <1>1, <1>6
  <2>1. \A p \in 1 .. L : p # i /\ p # L => Keys(g)[p] = k[p]
    <3>1. \A p \in 1 .. L : p # i /\ p # L => Exchanged(k, i, L)[p] = k[p]
      BY <1>1, <1>3, ExchangedIs
    <3> QED BY <1>2, <3>1
  <2>2. \A p \in 2 .. L - 1 : /\ p \in 2 .. L /\ p \in 1 .. L /\ Parent(p) \in 1 .. L
                              /\ p # L /\ Parent(p) # L /\ Parent(p) < p
    BY <1>1, ParentIs
  <2>3. ASSUME NEW p \in 2 .. L - 1, p # i, Parent(p) # i PROVE Fine(Keys(g), p)
    BY <1>3, <2>1, <2>2, <2>3 DEF Ordered, Fine
  <2>4. ASSUME NEW p \in 2 .. L - 1, Parent(p) = i, i > 1 PROVE Keys(g)[Parent(i)] <= Keys(g)[p]
    <3>1. i \in 2 .. L - 1 /\ p # i
      BY <2>0, <2>2, <2>4
    <3>2. k[Parent(i)] <= k[i]
      BY <1>3, <2>2, <3>1 DEF Ordered, Fine
    <3>3. k[i] <= k[p]
      BY <1>3, <2>2, <2>4 DEF Ordered, Fine
    <3>4. Keys(g)[Parent(i)] = k[Parent(i)] /\ Keys(g)[p] = k[p]
      BY <2>1, <2>2, <3>1
    <3>5. k[Parent(i)] \in Int /\ k[i] \in Int /\ k[p] \in Int
      BY <1>1, <1>3, <2>2, <3>1
    <3> QED BY <3>2, <3>3, <3>4, <3>5
  <2>5. SiftFine(Keys(g), L - 1, i)
    BY <2>3, <2>4 DEF SiftFine
  <2>6. f \in Heaps(W) /\ Rearranged(f, g, L - 1) /\ Ordered(Keys(f), L - 1)
    BY <1>1, <1>2, <2>0, <2>5, SiftOrders
  <2> HIDE DEF f
  <2>7. Len(f.arr) = L /\ Placed(f) /\ In(f) = In(h) /\ f.arr[L] = h.arr[i]
    BY <1>1, <1>2, <2>6 DEF Rearranged
  <2>8. HeapRemove(h, i) = Pop(f)
    BY <1>4, <1>6
  <2> QED BY <1>1, <2>6, <2>7, <2>8, PopIs
<1> QED BY <1>5, <1>6

(* Changing the time of the item at position i and sifting it.             *)
LEMMA FixIs ==
    ASSUME NEW W, W \in [DOMAIN W -> Int], NEW h, Good(h, W), NEW i \in 1 .. Len(h.arr),
           NEW V, V \in [DOMAIN V -> Int], DOMAIN V = DOMAIN W,
           \A n \in DOMAIN W : n # h.arr[i] => V[n] = W[n]
    PROVE  LET f == Sift(HeapOf(h.arr, h.index, V), i, Len(h.arr))
           IN Good(f, V) /\ In(f) = In(h)
<1> DEFINE L == Len(h.arr)
           g == HeapOf(h.arr, h.index, V)
           f == Sift(g, i, L)
           k == Keys(h)
<1>1. /\ h \in Heaps(W) /\ Placed(h) /\ L \in Nat /\ h.arr \in Seq(DOMAIN W)
      /\ h.index \in [DOMAIN W -> Nat] /\ h.arr \in [1 .. L -> DOMAIN W]
  BY HeapFields DEF Good
<1>2. V \in [DOMAIN V -> Int] /\ DOMAIN V = DOMAIN W /\ \A n \in DOMAIN W : n # h.arr[i] => V[n] = W[n]
  OBVIOUS
<1>3. g \in Heaps(V) /\ g.arr = h.arr /\ g.index = h.index
  BY <1>1, <1>2, HeapFrom, HeapOfFields
<1> HIDE DEF g
<1>4. Placed(g) /\ In(g) = In(h)
  BY <1>1, <1>3 DEF Placed, In
<1>5. k \in [1 .. L -> Int] /\ Ordered(k, L)
  BY <1>1, KeysAre DEF Good
<1>6. \A p \in 1 .. L : p # i => Keys(g)[p] = k[p]
  <2>1. \A p \in 1 .. L : k[p] = W[h.arr[p]]
    BY <1>1, KeysAre
  <2>2. ASSUME NEW p \in 1 .. L PROVE Keys(g)[p] = V[h.arr[p]]
    <3>1. p \in 1 .. Len(g.arr)
      BY <1>3
    <3>2. Keys(g)[p] = V[g.arr[p]]
      BY <1>2, <1>3, <3>1, KeysAre
    <3> QED BY <1>3, <3>2
  <2>3. \A p \in 1 .. L : p # i => h.arr[p] # h.arr[i]
    BY <1>1 DEF Placed
  <2>4. ASSUME NEW p \in 1 .. L, p # i PROVE V[h.arr[p]] = W[h.arr[p]]
    <3>1. h.arr[p] # h.arr[i] /\ h.arr[p] \in DOMAIN W
      BY <1>1, <2>3, <2>4
    <3> QED BY <1>2, <3>1
  <2> HIDE DEF k, L
  <2> QED BY <2>1, <2>2, <2>4
<1>7. i \in 1 .. L
  OBVIOUS
<1> HIDE DEF L, k
<1>8. \A p \in 2 .. L : p \in 1 .. L /\ Parent(p) \in 1 .. L /\ Parent(p) < p
  <2>1. L \in Nat
    BY <1>1
  <2> QED BY ONLY <2>1, ParentIs
<1>9. ASSUME NEW p \in 2 .. L, p # i, Parent(p) # i PROVE Fine(Keys(g), p)
  BY <1>5, <1>6, <1>8, <1>9 DEF Ordered, Fine
<1>10. ASSUME NEW p \in 2 .. L, Parent(p) = i, i > 1 PROVE Keys(g)[Parent(i)] <= Keys(g)[p]
  <2>1. i \in 2 .. L /\ p # i
    BY <1>7, <1>8, <1>10
  <2>2. k[Parent(i)] <= k[i] /\ k[i] <= k[p]
    BY <1>5, <1>10, <2>1 DEF Ordered, Fine
  <2>3. Keys(g)[Parent(i)] = k[Parent(i)] /\ Keys(g)[p] = k[p]
    BY <1>6, <1>8, <2>1
  <2>4. k[Parent(i)] \in Int /\ k[i] \in Int /\ k[p] \in Int
    BY <1>5, <1>7, <1>8, <2>1
  <2> QED BY <2>2, <2>3, <2>4
<1>11. SiftFine(Keys(g), L, i)
  BY <1>9, <1>10 DEF SiftFine
<1>12. f \in Heaps(V) /\ Rearranged(f, g, L) /\ Ordered(Keys(f), L)
  <2>1. L <= Len(g.arr)
    BY <1>1, <1>3 DEF L
  <2> QED BY <1>1, <1>2, <1>3, <1>4, <1>7, <1>11, <2>1, SiftOrders
<1> HIDE DEF f
<1>13. Good(f, V) /\ In(f) = In(h)
  BY <1>3, <1>4, <1>12 DEF Good, Rearranged, L
<1> QED BY <1>13 DEF f, L, g

(* Init of container/heap orders any array, from the last parent down.     *)
LEMMA HeapInitIs ==
    ASSUME NEW W, W \in [DOMAIN W -> Int], NEW h \in Heaps(W), Placed(h)
    PROVE  Good(HeapInit(h), W) /\ In(HeapInit(h)) = In(h)
<1> DEFINE L == Len(h.arr)
           half == L \div 2
           s == [k \in 1 .. half |-> half + 1 - k]
           P(g, m) == /\ Rearranged(g, h, L)
                      /\ \A p \in 2 .. L : Parent(p) >= half + 1 - m => Fine(Keys(g), p)
           Q == [m \in 0 .. half |-> { g \in Heaps(W) : P(g, m) }]
<1>1. L \in Nat /\ half \in Nat /\ half <= L /\ \A p \in 2 .. L : Parent(p) <= half
  <2>1. L \in Nat
    BY HeapFields
  <2> HIDE DEF L
  <2> QED BY <2>1 DEF Parent
<1>2. h \in Q[0]
  <2>1. P(h, 0)
    <3>1. \A p \in 2 .. L : ~(Parent(p) >= half + 1 - 0)
      <4>1. \A p \in 2 .. L : Parent(p) \in Nat
        BY <1>1, ParentIs
      <4> HIDE DEF half, L
      <4> QED BY <1>1, <4>1
    <3> QED BY <3>1, RearrangedNot
  <2> HIDE DEF P
  <2> QED BY <1>1, <2>1
<1>3. ASSUME NEW m \in 1 .. half, NEW g \in Q[m - 1] PROVE Settle(g, s[m]) \in Q[m]
  <2> DEFINE i == half + 1 - m
             d == down(g, i, L)
  <2>0. m - 1 \in 0 .. half /\ m \in 0 .. half /\ m \in Nat
    <3> HIDE DEF half
    <3> QED BY <1>1
  <2>1. g \in Heaps(W) /\ P(g, m - 1)
    <3> HIDE DEF P, half
    <3> QED BY <1>3, <2>0
  <2>2. s[m] = i
    OBVIOUS
  <2> HIDE DEF s, Q, half, L
  <2>3. Len(g.arr) = L /\ Placed(g) /\ i \in 1 .. L /\ i \in Nat /\ i = half + 1 - (m - 1) - 1
    <3>1. Len(g.arr) = L /\ Placed(g)
      BY <2>1 DEF Rearranged, L
    <3> QED BY <1>1, <2>0, <3>1
  <2> HIDE DEF i
  <2>4. DownFine(Keys(g), L, i, i)
    <3>1. ASSUME NEW p \in 2 .. L, Parent(p) >= i, Parent(p) # i PROVE Fine(Keys(g), p)
      <4>1. Parent(p) \in Nat
        BY <1>1, ParentIs
      <4>2. half \in Nat /\ m \in Nat /\ i = half + 1 - (m - 1) - 1
        BY <1>1, <2>0, <2>3
      <4>3. Parent(p) >= half + 1 - (m - 1)
        BY <2>3, <3>1, <4>1, <4>2
      <4> QED BY <2>1, <4>3
    <3>2. i > 1 => ~(Parent(i) >= i)
      BY <2>3, ParentIs
    <3> QED BY <3>1, <3>2 DEF DownFine
  <2>5. /\ d.heap \in Heaps(W) /\ Rearranged(d.heap, g, L)
        /\ \A p \in 2 .. L : Parent(p) >= i => Fine(Keys(d.heap), p)
    <3>1. L \in Nat /\ L <= Len(g.arr) /\ i \in 1 .. Len(g.arr) /\ i \in Nat /\ i <= i
      BY <1>1, <2>3
    <3> QED BY <2>1, <2>3, <2>4, <3>1, DownOrders
  <2> HIDE DEF d
  <2>6. Rearranged(d.heap, h, L)
    BY <2>1, <2>5, RearrangedTwice
  <2>7. P(d.heap, m)
    BY <2>5, <2>6 DEF i
  <2>8. Settle(g, s[m]) = d.heap
    BY <2>2, <2>3 DEF Settle, d
  <2> HIDE DEF P
  <2> QED BY <2>0, <2>5, <2>7, <2>8 DEF Q
<1>4. Len(s) = half
  <2> HIDE DEF half
  <2> QED BY <1>1
<1> DEFINE r == Settles!Fold(h, s)
<1>5. r \in Q[half]
  <2> HIDE DEF Q, s, half
  <2> QED BY <1>1, <1>2, <1>3, <1>4, Settles!FoldReaches
<1>6. r \in Heaps(W) /\ P(r, half)
  <2>1. half \in 0 .. half
    <3> HIDE DEF half
    <3> QED BY <1>1
  <2> HIDE DEF P, r, half
  <2> QED BY <1>5, <2>1
<1>7. HeapInit(h) = r
  BY DEF HeapInit, Settling!Fold, Settles!Fold
<1> HIDE DEF r, half
<1>8. Ordered(Keys(r), L)
  <2>1. \A p \in 2 .. L : Parent(p) >= half + 1 - half
    BY <1>1, ParentIs
  <2> QED BY <1>6, <2>1 DEF Ordered
<1> QED BY <1>6, <1>7, <1>8 DEF Good, Rearranged
----------------------------------------------------------------------------
(* The steps of Init                                                       *)

(* The items that are not in the array can change, come and go.            *)
LEMMA OthersChange ==
    ASSUME NEW W, W \in [DOMAIN W -> Int], NEW h, Good(h, W),
           NEW V, V \in [DOMAIN V -> Int], NEW x \in [DOMAIN V -> Nat],
           \A m \in In(h) : m \in DOMAIN V /\ V[m] = W[m] /\ x[m] = h.index[m],
           \A m \in DOMAIN V \ In(h) : x[m] = 0
    PROVE  Good(HeapOf(h.arr, x, V), V) /\ In(HeapOf(h.arr, x, V)) = In(h)
<1> DEFINE L == Len(h.arr)
           g == HeapOf(h.arr, x, V)
<1>1. /\ h \in Heaps(W) /\ h.arr \in [1 .. L -> DOMAIN W] /\ L \in Nat
      /\ DOMAIN h.index = DOMAIN W /\ h.index \in [DOMAIN W -> Nat]
  BY HeapFields DEF Good
<1>2. \A p \in 1 .. L : h.arr[p] \in In(h) /\ h.index[h.arr[p]] = p
  <2>1. \A p \in 1 .. L : h.index[h.arr[p]] = p
    BY DEF Good, Placed
  <2> QED BY <1>1, <2>1 DEF In
<1>3. h.arr \in Seq(DOMAIN V)
  <2>1. h.arr \in [1 .. L -> DOMAIN V]
    BY <1>1, <1>2
  <2> HIDE DEF L
  <2> QED BY <1>1, <2>1, SeqFrom
<1>4. g \in Heaps(V) /\ g.arr = h.arr /\ g.index = x
  BY <1>3, HeapFrom, HeapOfFields
<1> HIDE DEF g
<1>5. In(g) = In(h)
  <2>1. \A m \in In(h) : h.index[m] # 0
    BY DEF In
  <2> QED BY <1>4, <2>1 DEF In
<1>6. Placed(g)
  <2>1. ASSUME NEW p \in 1 .. L PROVE x[h.arr[p]] = p
    BY <1>2, <2>1
  <2>2. ASSUME NEW m \in DOMAIN V, x[m] # 0 PROVE x[m] \in 1 .. L /\ h.arr[x[m]] = m
    <3>1. m \in In(h)
      BY <2>2
    <3>2. h.index[m] \in 1 .. L /\ h.arr[h.index[m]] = m
      BY <3>1 DEF Good, Placed, In
    <3> QED BY <3>1, <3>2
  <2>3. DOMAIN x = DOMAIN V
    OBVIOUS
  <2> QED BY <1>4, <2>1, <2>2, <2>3 DEF Placed
<1>7. Ordered(Keys(g), L)
  <2>1. ASSUME NEW p \in 1 .. L PROVE Keys(g)[p] = Keys(h)[p]
    <3>1. Keys(g)[p] = V[h.arr[p]]
      BY <1>4, KeysAre
    <3>2. Keys(h)[p] = W[h.arr[p]]
      BY <1>1, KeysAre
    <3> QED BY <1>2, <3>1, <3>2
  <2>2. ASSUME NEW p \in 2 .. L PROVE Fine(Keys(g), p)
    <3>1. p \in 1 .. L /\ Parent(p) \in 1 .. L
      BY <1>1, ParentIs
    <3> QED BY <2>1, <3>1 DEF Good, Ordered, Fine
  <2> QED BY <2>2 DEF Ordered
<1> QED BY <1>4, <1>5, <1>6, <1>7 DEF Good, g

LEMMA InIsKnown == ASSUME NEW W, NEW h, Good(h, W) PROVE In(h) \subseteq DOMAIN W
BY HeapFields DEF Good, In

LEMMA AddItemIs ==
    ASSUME NEW W, W \in [DOMAIN W -> Int], NEW h, Good(h, W), NEW n, n \notin DOMAIN W,
           NEW t \in Int, NEW new, new.name = n, new.when = t, NEW V, V = Set(W, n, t)
    PROVE  V \in [DOMAIN V -> Int] /\ Good(AddItem(h, new), V) /\ In(AddItem(h, new)) = In(h) \cup {n}
<1> DEFINE x == Set(h.index, n, 0)
           g == HeapOf(h.arr, x, V)
<1>1. h.when = W /\ h.index \in [DOMAIN W -> Nat] /\ DOMAIN h.index = DOMAIN W /\ In(h) \subseteq DOMAIN W
  BY HeapFields, InIsKnown DEF Good
<1>2. V \in [DOMAIN V -> Int] /\ n \in DOMAIN V
  BY DEF Set
<1>s. /\ V = [m \in DOMAIN W \cup {n} |-> IF m = n THEN t ELSE W[m]]
      /\ x = [m \in DOMAIN W \cup {n} |-> IF m = n THEN 0 ELSE h.index[m]]
  BY <1>1 DEF Set
<1>3. x \in [DOMAIN V -> Nat]
  BY <1>1 DEF Set
<1>4. /\ \A m \in In(h) : m \in DOMAIN V /\ V[m] = W[m] /\ x[m] = h.index[m]
      /\ \A m \in DOMAIN V \ In(h) : x[m] = 0
  <2>1. \A m \in DOMAIN W \ In(h) : h.index[m] = 0
    BY <1>1 DEF In
  <2>2. n \notin DOMAIN W
    OBVIOUS
  <2> HIDE DEF x
  <2> QED BY <1>1, <1>s, <2>1, <2>2
<1>5. x[n] = 0
  <2> HIDE DEF x
  <2> QED BY <1>s
<1>6. AddItem(h, new) = HeapPush(g, n)
  BY <1>1 DEF AddItem
<1> HIDE DEF x
<1>7. Good(g, V) /\ In(g) = In(h)
  BY <1>2, <1>3, <1>4, OthersChange
<1>8. g.index = x
  BY HeapOfFields
<1> HIDE DEF g
<1>9. Good(HeapPush(g, n), V) /\ In(HeapPush(g, n)) = In(g) \cup {n}
  BY <1>2, <1>5, <1>7, <1>8, HeapPushIs
<1> QED BY <1>2, <1>6, <1>7, <1>9

LEMMA RemoveItemIs ==
    ASSUME NEW W, W \in [DOMAIN W -> Int], NEW h, Good(h, W), NEW n \in In(h)
    PROVE  LET V == Delete(W, n) IN
           V \in [DOMAIN V -> Int] /\ Good(RemoveItem(h, n), V) /\ In(RemoveItem(h, n)) = In(h) \ {n}
<1> DEFINE V == Delete(W, n)
           r == HeapRemove(h, h.index[n])
           x == Delete(r.index, n)
<1>1. h.index[n] \in 1 .. Len(h.arr) /\ h.arr[h.index[n]] = n
  BY DEF Good, Placed, In
<1>2. Good(r, W) /\ In(r) = In(h) \ {n}
  BY <1>1, HeapRemoveIs
<1> HIDE DEF r
<1>3. r.when = W /\ r.index \in [DOMAIN W -> Nat] /\ DOMAIN r.index = DOMAIN W /\ In(r) \subseteq DOMAIN W
  BY <1>2, HeapFields, InIsKnown DEF Good
<1>4. V \in [DOMAIN V -> Int]
  BY DEF Delete
<1>s. /\ V = [m \in DOMAIN W \ {n} |-> W[m]]
      /\ x = [m \in DOMAIN W \ {n} |-> r.index[m]]
  BY <1>3 DEF Delete
<1>5. x \in [DOMAIN V -> Nat]
  BY <1>3 DEF Delete
<1>6. /\ \A m \in In(r) : m \in DOMAIN V /\ V[m] = W[m] /\ x[m] = r.index[m]
      /\ \A m \in DOMAIN V \ In(r) : x[m] = 0
  <2>1. \A m \in DOMAIN W \ In(r) : r.index[m] = 0
    BY <1>3 DEF In
  <2>2. n \notin In(r)
    BY <1>2
  <2> HIDE DEF V, x
  <2> QED BY <1>3, <1>s, <2>1, <2>2
<1>7. RemoveItem(h, n) = HeapOf(r.arr, x, V)
  BY <1>3 DEF RemoveItem, r
<1> HIDE DEF V, x
<1>8. Good(HeapOf(r.arr, x, V), V) /\ In(HeapOf(r.arr, x, V)) = In(r)
  BY <1>2, <1>4, <1>5, <1>6, OthersChange
<1> QED BY <1>2, <1>4, <1>7, <1>8 DEF V

Queues == [arr : Seq(Names), index : UNION { [S -> Nat] : S \in SUBSET Names },
           when : UNION { [S -> Int] : S \in SUBSET Names }]

LEMMA GoodIsQueue ==
    ASSUME NEW W, W \in [DOMAIN W -> Int], DOMAIN W \subseteq Names, NEW h, Good(h, W)
    PROVE  h \in Queues
<1>1. /\ h \in Heaps(W) /\ h.index \in [DOMAIN W -> Nat] /\ h.when = W
      /\ Len(h.arr) \in Nat /\ h.arr \in [1 .. Len(h.arr) -> DOMAIN W]
  BY HeapFields DEF Good
<1>2. h.arr \in Seq(Names)
  <2> DEFINE L == Len(h.arr)
  <2>1. h.arr \in [1 .. L -> Names] /\ L \in Nat
    BY <1>1
  <2> HIDE DEF L
  <2> QED BY <2>1, SeqFrom
<1>3. h.index \in UNION { [S -> Nat] : S \in SUBSET Names }
  BY <1>1
<1>4. h.when \in UNION { [S -> Int] : S \in SUBSET Names }
  BY <1>1
<1> QED BY <1>1, <1>2, <1>3, <1>4 DEF Heaps, Queues

(* The first m elements of a sequence. *)
Firsts(s, m) == { s[j] : j \in 1 .. m }

LEMMA FirstsGrow ==
    ASSUME NEW s, NEW m \in Nat, m > 0
    PROVE  Firsts(s, m) = Firsts(s, m - 1) \cup {s[m]}
<1>1. \A j \in 1 .. m : j = m \/ j \in 1 .. m - 1
  OBVIOUS
<1>2. m \in 1 .. m /\ \A j \in 1 .. m - 1 : j \in 1 .. m
  OBVIOUS
<1> QED BY <1>1, <1>2 DEF Firsts

(* The items of h and those of S, each with its old time or else with t.   *)
Grown(g, h, W, S, t) ==
    /\ g.when \in [DOMAIN W \cup S -> Int] /\ Good(g, g.when)
    /\ \A n \in DOMAIN W \cup S : g.when[n] = IF n \in DOMAIN W THEN W[n] ELSE t
    /\ In(g) = In(h) \cup (S \ DOMAIN W)

(* Init adds each name it does not know once, and touches no other. *)
LEMMA AddingIs ==
    ASSUME NEW W, W \in [DOMAIN W -> Int], DOMAIN W \subseteq Names, NEW h, Good(h, W),
           NEW names \in Seq(Names), NEW t \in Int
    PROVE  Grown(Adding!Fold(h, [i \in DOMAIN names |-> [name |-> names[i], when |-> t]]),
                 h, W, Range(names), t)
<1> DEFINE L == Len(names)
           s == [i \in DOMAIN names |-> [name |-> names[i], when |-> t]]
           Q == [m \in 0 .. L |-> { g \in Queues : Grown(g, h, W, Firsts(names, m), t) }]
           r == Adds!Fold(h, s)
<1>1. L \in Nat /\ DOMAIN names = 1 .. L /\ \A i \in 1 .. L : names[i] \in Names
  OBVIOUS
<1>2. Len(s) = L /\ \A i \in 1 .. L : s[i].name = names[i] /\ s[i].when = t
  BY <1>1
<1>3. h \in Q[0]
  <2>1. h \in Queues /\ h.when = W
    BY GoodIsQueue, HeapFields DEF Good
  <2>2. Firsts(names, 0) = {}
    BY DEF Firsts
  <2>3. Grown(h, h, W, {}, t)
    BY <2>1 DEF Grown
  <2>4. Grown(h, h, W, Firsts(names, 0), t)
    BY <2>2, <2>3
  <2>5. 0 \in 0 .. L
    BY <1>1
  <2> HIDE DEF L, s
  <2> QED BY <2>1, <2>4, <2>5, Zenon
<1> HIDE DEF s
<1>4. ASSUME NEW m \in 1 .. L, NEW g \in Q[m - 1] PROVE AddItem(g, s[m]) \in Q[m]
  <2> DEFINE S == Firsts(names, m - 1)
             n == names[m]
             V == g.when
             f == AddItem(g, s[m])
  <2>1. m \in 0 .. L /\ m - 1 \in 0 .. L /\ m \in Nat /\ m > 0 /\ n \in Names
    BY <1>1
  <2>2. g \in Queues /\ Grown(g, h, W, S, t)
    <3> HIDE DEF L
    <3> QED BY <1>4, <2>1
  <2> HIDE DEF Q, L
  <2>3. Firsts(names, m) = S \cup {n}
    BY <2>1, FirstsGrow
  <2>4. S \subseteq Names
    <3>1. \A j \in 1 .. m - 1 : j \in 1 .. L
      BY <1>1, <2>1
    <3> QED BY <1>1, <3>1 DEF Firsts
  <2>5. s[m].name = n /\ s[m].when = t
    BY <1>2
  <2> HIDE DEF S, n
  <2>6. /\ V \in [DOMAIN V -> Int] /\ DOMAIN V = DOMAIN W \cup S /\ Good(g, V)
        /\ \A x \in DOMAIN V : V[x] = IF x \in DOMAIN W THEN W[x] ELSE t
        /\ In(g) = In(h) \cup (S \ DOMAIN W)
    BY <2>2 DEF Grown
  <2>w. g.when = V
    OBVIOUS
  <2> HIDE DEF V
  <2>7. CASE n \in DOMAIN V
    <3>1. f = g
      BY <2>5, <2>7, <2>w DEF AddItem
    <3>2. DOMAIN W \cup (S \cup {n}) = DOMAIN W \cup S
      BY <2>6, <2>7
    <3>3. (S \cup {n}) \ DOMAIN W = S \ DOMAIN W
      BY <2>6, <2>7
    <3>4. Grown(g, h, W, S \cup {n}, t)
      BY <2>2, <3>2, <3>3 DEF Grown
    <3> HIDE DEF f
    <3> QED BY <2>1, <2>2, <2>3, <3>1, <3>4 DEF Q, f
  <2>8. CASE n \notin DOMAIN V
    <3> DEFINE U == Set(V, n, t)
    <3>1. U \in [DOMAIN U -> Int] /\ Good(f, U) /\ In(f) = In(g) \cup {n}
      <4> DEFINE new == s[m]
      <4>1. U = Set(V, n, t) /\ new.name = n /\ new.when = t
        BY <2>5
      <4> HIDE DEF U, new
      <4>2. U \in [DOMAIN U -> Int] /\ Good(AddItem(g, new), U) /\ In(AddItem(g, new)) = In(g) \cup {n}
        <5>1. V \in [DOMAIN V -> Int]
          BY <2>6
        <5>2. Good(g, V)
          BY <2>6
        <5>3. n \notin DOMAIN V
          BY <2>8
        <5>4. t \in Int
          OBVIOUS
        <5>5. new.name = n /\ new.when = t /\ U = Set(V, n, t)
          BY <4>1
        <5> QED BY ONLY <5>1, <5>2, <5>3, <5>4, <5>5, AddItemIs
      <4> QED BY <4>2 DEF new
    <3>2. U = [x \in DOMAIN V \cup {n} |-> IF x = n THEN t ELSE V[x]]
      BY DEF Set
    <3> HIDE DEF f, U
    <3>3. f.when = U
      BY <3>1, HeapFields DEF Good
    <3>4. DOMAIN U = DOMAIN W \cup (S \cup {n})
      BY <2>6, <3>2
    <3>5. f \in Queues
      <4>1. DOMAIN U \subseteq Names
        BY <2>1, <2>4, <3>4
      <4> QED BY <3>1, <4>1, GoodIsQueue
    <3>6. Grown(f, h, W, S \cup {n}, t)
      <4>1. \A x \in DOMAIN U : U[x] = IF x \in DOMAIN W THEN W[x] ELSE t
        BY <2>6, <2>8, <3>2, <3>4
      <4>2. In(f) = In(h) \cup ((S \cup {n}) \ DOMAIN W)
        BY <2>6, <2>8, <3>1
      <4> QED BY <3>1, <3>3, <3>4, <4>1, <4>2 DEF Grown
    <3> QED BY <2>1, <2>3, <3>5, <3>6 DEF Q, f
  <2> QED BY <2>7, <2>8
<1>5. r \in Q[L]
  <2> HIDE DEF Q, L
  <2> QED BY <1>1, <1>2, <1>3, <1>4, Adds!FoldReaches
<1>6. Grown(r, h, W, Firsts(names, L), t)
  <2>1. L \in 0 .. L
    BY <1>1
  <2> HIDE DEF r, L
  <2> QED BY <1>5, <2>1
<1>7. Firsts(names, L) = Range(names)
  BY <1>1 DEF Firsts, Range
<1>8. r = Adding!Fold(h, s)
  BY DEF Adding!Fold, Adds!Fold
<1> HIDE DEF r
<1> QED BY <1>6, <1>7, <1>8 DEF s

(* An order of the elements of a finite set. *)
LEMMA OrderIs ==
    ASSUME NEW S, IsFiniteSet(S), NEW s \in SetToSeqs(S)
    PROVE  /\ Len(s) \in Nat /\ s \in [1 .. Len(s) -> S] /\ Range(s) = S
           /\ \A i, j \in 1 .. Len(s) : i # j => s[i] # s[j]
<1> DEFINE c == Cardinality(S)
<1>1. c \in Nat /\ s \in [1 .. c -> S] /\ \A i, j \in 1 .. c : i # j => s[i] # s[j]
  BY FS_CardinalityType DEF SetToSeqs
<1>2. Cardinality(1 .. c) = c
  BY <1>1, FS_Interval
<1>3. s \in Injection(1 .. c, S)
  BY <1>1 DEF Injection, IsInjective
<1>4. s \in Surjection(1 .. c, S)
  BY <1>2, <1>3, FS_Injection
<1>5. Len(s) = c
  <2> HIDE DEF c
  <2> QED BY <1>1
<1> QED BY <1>1, <1>4, <1>5 DEF Surjection, Range

(* The items of h without those of S. *)
Shrunk(g, h, W, S) ==
    /\ g.when \in [DOMAIN W \ S -> Int] /\ Good(g, g.when)
    /\ \A n \in DOMAIN W \ S : g.when[n] = W[n]
    /\ In(g) = In(h) \ S

(* Init removes the items that are gone, in any order. *)
LEMMA RemovingIs ==
    ASSUME NEW W, W \in [DOMAIN W -> Int], DOMAIN W \subseteq Names, NEW h, Good(h, W),
           NEW gone \in SUBSET In(h), IsFiniteSet(gone), NEW s \in SetToSeqs(gone)
    PROVE  Shrunk(Removing!Fold(h, s), h, W, gone)
<1> DEFINE L == Len(s)
           Q == [m \in 0 .. L |-> { g \in Queues : Shrunk(g, h, W, Firsts(s, m)) }]
           r == Removes!Fold(h, s)
<1>1. /\ L \in Nat /\ s \in [1 .. L -> gone] /\ Range(s) = gone
      /\ \A i, j \in 1 .. L : i # j => s[i] # s[j]
  BY OrderIs
<1>2. h \in Q[0]
  <2>1. h \in Queues /\ h.when = W
    BY GoodIsQueue, HeapFields DEF Good
  <2>2. Firsts(s, 0) = {}
    BY DEF Firsts
  <2>3. Shrunk(h, h, W, {})
    BY <2>1 DEF Shrunk
  <2>4. Shrunk(h, h, W, Firsts(s, 0))
    BY <2>2, <2>3
  <2>5. 0 \in 0 .. L
    BY <1>1
  <2> HIDE DEF L
  <2> QED BY <2>1, <2>4, <2>5, Zenon
<1>3. ASSUME NEW m \in 1 .. L, NEW g \in Q[m - 1] PROVE RemoveItem(g, s[m]) \in Q[m]
  <2> DEFINE S == Firsts(s, m - 1)
             n == s[m]
             V == g.when
             f == RemoveItem(g, n)
  <2>1. m \in 0 .. L /\ m - 1 \in 0 .. L /\ m \in Nat /\ m > 0 /\ n \in gone
    BY <1>1
  <2>2. g \in Queues /\ Shrunk(g, h, W, S)
    <3> HIDE DEF L
    <3> QED BY <1>3, <2>1
  <2> HIDE DEF Q, L
  <2>3. Firsts(s, m) = S \cup {n}
    BY <2>1, FirstsGrow
  <2>4. n \notin S
    <3>1. \A j \in 1 .. m - 1 : j \in 1 .. L /\ j # m
      BY <1>1, <2>1
    <3> QED BY <1>1, <3>1 DEF Firsts
  <2> HIDE DEF S, n
  <2>6. /\ V \in [DOMAIN V -> Int] /\ DOMAIN V = DOMAIN W \ S /\ Good(g, V)
        /\ \A x \in DOMAIN V : V[x] = W[x]
        /\ In(g) = In(h) \ S
    BY <2>2 DEF Shrunk
  <2>7. n \in In(g)
    BY <2>1, <2>4, <2>6
  <2> HIDE DEF V
  <2> DEFINE U == Delete(V, n)
  <2>8. U \in [DOMAIN U -> Int] /\ Good(f, U) /\ In(f) = In(g) \ {n}
    BY <2>6, <2>7, RemoveItemIs
  <2>9. U = [x \in DOMAIN V \ {n} |-> V[x]]
    BY DEF Delete
  <2> HIDE DEF f, U
  <2>10. f.when = U
    BY <2>8, HeapFields DEF Good
  <2>11. DOMAIN U = DOMAIN W \ (S \cup {n})
    BY <2>6, <2>9
  <2>12. f \in Queues
    <3>1. DOMAIN U \subseteq Names
      BY <2>11
    <3> QED BY <2>8, <3>1, GoodIsQueue
  <2>13. Shrunk(f, h, W, S \cup {n})
    <3>1. \A x \in DOMAIN U : U[x] = W[x]
      BY <2>6, <2>9, <2>11
    <3>2. In(f) = In(h) \ (S \cup {n})
      BY <2>6, <2>8
    <3> QED BY <2>8, <2>10, <2>11, <3>1, <3>2 DEF Shrunk
  <2> QED BY <2>1, <2>3, <2>12, <2>13 DEF Q, f, n
<1>4. r \in Q[L]
  <2> HIDE DEF Q, L
  <2>1. Len(s) \in Nat /\ L = Len(s)
    BY <1>1 DEF L
  <2> QED BY <1>2, <1>3, <2>1, Removes!FoldReaches
<1>5. Shrunk(r, h, W, Firsts(s, L))
  <2>1. L \in 0 .. L
    BY <1>1
  <2> HIDE DEF r, L
  <2> QED BY <1>4, <2>1
<1>6. Firsts(s, L) = gone
  BY <1>1 DEF Firsts, Range
<1>7. r = Removing!Fold(h, s)
  BY DEF Removing!Fold, Removes!Fold
<1> HIDE DEF r
<1> QED BY <1>5, <1>6, <1>7
----------------------------------------------------------------------------
(* The steps of the queue                                                  *)

(* The array is a heap over the items that were not popped: this is        *)
(* WellFormed with the types, and with which names the array holds.        *)
HeapInv ==
    /\ items \in [DOMAIN items -> Int] /\ DOMAIN items \subseteq Names
    /\ Good(Heap, items)
    /\ freq \in Nat /\ now \in Int

LEMMA HeapIs ==
    /\ Heap.arr = arr /\ Heap.index = index /\ Heap.when = items
    /\ HeapInv => Range(arr) = In(Heap) /\ In(Heap) \subseteq DOMAIN items
<1>1. Heap.arr = arr /\ Heap.index = index /\ Heap.when = items
  BY HeapOfFields DEF Heap
<1>2. ASSUME HeapInv PROVE Range(arr) = In(Heap) /\ In(Heap) \subseteq DOMAIN items
  <2>1. Range(Heap.arr) = In(Heap)
    BY <1>2, RangeIsIn DEF HeapInv, Good
  <2>2. In(Heap) \subseteq DOMAIN items
    BY <1>2, InIsKnown DEF HeapInv
  <2> QED BY <1>1, <2>1, <2>2
<1> QED BY <1>1, <1>2

(* A step that ends with a good heap. *)
LEMMA StepTo ==
    ASSUME NEW h, NEW V, V \in [DOMAIN V -> Int], DOMAIN V \subseteq Names, Good(h, V), SetHeap(h),
           freq' \in Nat, now' \in Int
    PROVE  HeapInv' /\ items' = V /\ Range(arr') = In(h)
<1>1. h.when = V
  BY HeapFields DEF Good
<1>2. h = HeapOf(h.arr, h.index, V)
  BY <1>1 DEF Good, Heaps, HeapOf
<1>3. arr' = h.arr /\ index' = h.index /\ items' = V
  BY <1>1 DEF SetHeap
<1>4. Heap' = h
  BY <1>2, <1>3 DEF Heap, HeapOf
<1>5. Good(Heap', items')
  BY <1>3, <1>4
<1>6. HeapInv'
  <2>1. (Good(Heap, items))'
    BY <1>5 DEF Good, Heaps, Placed, Ordered, Keys, Fine
  <2> QED BY <1>3, <2>1 DEF HeapInv
<1>7. Range(h.arr) = In(h)
  BY RangeIsIn DEF Good
<1> QED BY <1>3, <1>6, <1>7

LEMMA InitStep ==
    ASSUME HeapInv, NEW names \in Seq(Names), Init(names)
    PROVE  HeapInv' /\ Promise!Replace(Range(names))
<1> DEFINE list == [i \in DOMAIN names |-> [name |-> names[i], when |-> now + freq]]
           g == Adding!Fold(Heap, list)
           gone == DOMAIN items \ Range(names)
           t == now + freq
           R == Range(names)
<1>1. PICK order \in SetToSeqs(gone) : SetHeap(Removing!Fold(g, order))
  BY DEF Init
<1> DEFINE h == Removing!Fold(g, order)
<1>2. \A n \in gone : index[n] # 0
  BY DEF Init
<1>3. items \in [DOMAIN items -> Int] /\ DOMAIN items \subseteq Names /\ Good(Heap, items) /\ t \in Int
  BY DEF HeapInv
<1>r. R \subseteq Names
  BY DEF Range
<1>4. Grown(g, Heap, items, R, t)
  <2> HIDE DEF list
  <2>1. Grown(Adding!Fold(Heap, [i \in DOMAIN names |-> [name |-> names[i], when |-> t]]), Heap, items, R, t)
    BY <1>3, AddingIs
  <2> QED BY <2>1 DEF list
<1> HIDE DEF g, list
<1>5. gone \subseteq In(Heap)
  <2>1. DOMAIN index = DOMAIN items
    BY <1>3, HeapFields, HeapIs DEF Good
  <2> QED BY <1>2, <2>1, HeapIs DEF In
<1>6. gone \subseteq In(g)
  BY <1>4, <1>5 DEF Grown
<1>7. IsFiniteSet(gone)
  <2>1. gone \in SUBSET Names
    BY <1>3
  <2> HIDE DEF gone
  <2> QED BY <2>1, HeapAssumption, FS_Subset
<1>8. /\ g.when \in [DOMAIN g.when -> Int] /\ DOMAIN g.when \subseteq Names
      /\ Good(g, g.when) /\ DOMAIN g.when = DOMAIN items \cup R
  BY <1>3, <1>4, <1>r DEF Grown
<1>9. Shrunk(h, g, g.when, gone)
  <2> HIDE DEF gone
  <2> QED BY <1>6, <1>7, <1>8, RemovingIs
<1> HIDE DEF h
<1>10. /\ h.when \in [DOMAIN h.when -> Int] /\ DOMAIN h.when = R /\ Good(h, h.when)
       /\ \A n \in R : h.when[n] = IF n \in DOMAIN items THEN items[n] ELSE t
       /\ In(h) = (In(Heap) \cup (R \ DOMAIN items)) \ gone
  <2>1. (DOMAIN items \cup R) \ gone = R
    OBVIOUS
  <2> HIDE DEF R, gone, t
  <2> QED BY <1>4, <1>8, <1>9, <2>1 DEF Grown, Shrunk
<1>11. freq' = freq /\ now' = now /\ held' = held
  BY DEF Init
<1> DEFINE V == h.when
<1>12. HeapInv' /\ items' = V /\ Range(arr') = In(h)
  <2>1. SetHeap(h)
    BY <1>1 DEF h
  <2>2. V \in [DOMAIN V -> Int] /\ DOMAIN V \subseteq Names /\ Good(h, V)
    BY <1>10, <1>r
  <2>3. freq' \in Nat /\ now' \in Int
    BY <1>11 DEF HeapInv
  <2> HIDE DEF V
  <2> QED BY <2>1, <2>2, <2>3, StepTo
<1>13. Range(arr) = In(Heap) /\ In(Heap) \subseteq DOMAIN items
  BY HeapIs
<1>14. Range(arr') = (Range(arr) \cap R) \cup (R \ DOMAIN items)
  <2>1. \A A, D : A \subseteq D => (A \cup (R \ D)) \ (D \ R) = (A \cap R) \cup (R \ D)
    OBVIOUS
  <2>2. Range(arr') = (In(Heap) \cup (R \ DOMAIN items)) \ (DOMAIN items \ R)
    BY <1>10, <1>12
  <2> HIDE DEF R
  <2> QED BY <1>13, <2>1, <2>2
<1>15. DOMAIN items' = R /\ \A n \in R : items'[n] = IF n \in DOMAIN items THEN items[n] ELSE now + freq
  BY <1>10, <1>12
<1> QED BY <1>11, <1>12, <1>14, <1>15 DEF Promise!Replace

LEMMA FixStep ==
    ASSUME HeapInv, NEW n, NEW w \in Int, w <= now, NEW later, Fix(n, w, later)
    PROVE  HeapInv' /\ Promise!Move
<1> DEFINE V == [items EXCEPT ![n] = w]
           g == HeapOf(arr, index, V)
<1>1. /\ items \in [DOMAIN items -> Int] /\ DOMAIN items \subseteq Names /\ Good(Heap, items)
      /\ n \in DOMAIN items /\ freq \in Nat /\ now \in Int
      /\ freq' = freq /\ now' = now /\ held' = held
  BY DEF HeapInv, Fix
<1>2. /\ V \in [DOMAIN V -> Int] /\ DOMAIN V = DOMAIN items /\ V[n] = w
      /\ \A m \in DOMAIN items : m # n => V[m] = items[m]
  BY <1>1
<1>3. /\ Heap.arr = arr /\ Heap.index = index
      /\ DOMAIN index = DOMAIN items /\ index \in [DOMAIN items -> Nat]
      /\ Range(arr) = In(Heap)
  BY <1>1, HeapIs, HeapFields DEF Good
<1>4. SetHeap(IF index[n] = 0 THEN g ELSE Sift(g, index[n], Len(arr)))
  BY DEF Fix
<1> DEFINE h == IF index[n] = 0 THEN g ELSE Sift(g, index[n], Len(arr))
<1>5. Good(h, V) /\ In(h) = In(Heap)
  <2>1. CASE index[n] = 0
    <3>1. n \notin In(Heap) /\ \A m \in DOMAIN items \ In(Heap) : index[m] = 0
      BY <1>3, <2>1 DEF In
    <3>2. \A m \in In(Heap) : m \in DOMAIN V /\ V[m] = items[m]
      BY <1>1, <1>2, <3>1, InIsKnown
    <3> HIDE DEF V
    <3>3. Good(HeapOf(Heap.arr, index, V), V) /\ In(HeapOf(Heap.arr, index, V)) = In(Heap)
      BY <1>1, <1>2, <1>3, <3>1, <3>2, OthersChange
    <3> QED BY <1>3, <2>1, <3>3
  <2>2. CASE index[n] # 0
    <3> DEFINE i == index[n]
    <3>1. i \in 1 .. Len(Heap.arr) /\ Heap.arr[i] = n
      BY <1>1, <1>3, <2>2 DEF Good, Placed
    <3> HIDE DEF i, V, h
    <3>2. LET f == Sift(HeapOf(Heap.arr, Heap.index, V), i, Len(Heap.arr))
          IN Good(f, V) /\ In(f) = In(Heap)
      BY <1>1, <1>2, <3>1, FixIs
    <3>3. h = Sift(HeapOf(Heap.arr, Heap.index, V), i, Len(Heap.arr))
      BY <1>3, <2>2 DEF h, i
    <3> QED BY <3>2, <3>3
  <2> QED BY <2>1, <2>2
<1> HIDE DEF V, h
<1>6. HeapInv' /\ items' = V /\ Range(arr') = In(h)
  <2>1. SetHeap(h) /\ DOMAIN V \subseteq Names /\ freq' \in Nat /\ now' \in Int
    BY <1>1, <1>2, <1>4 DEF h, V
  <2> QED BY <1>2, <1>5, <2>1, StepTo
<1>7. \A m \in DOMAIN items : items'[m] <= items[m] \/ items'[m] <= now + freq
  BY <1>1, <1>2, <1>6
<1> QED BY <1>1, <1>2, <1>3, <1>5, <1>6, <1>7 DEF Promise!Move

LEMMA FixAllStep ==
    ASSUME HeapInv, NEW whens, \A n \in DOMAIN whens : whens[n] \in Int /\ whens[n] <= now,
           NEW later, FixAll(whens, later)
    PROVE  HeapInv' /\ Promise!Move
<1> DEFINE set == { n \in DOMAIN whens \cap DOMAIN items : Changed(n, whens[n], later) }
           V == [n \in DOMAIN items |-> IF n \in set THEN whens[n] ELSE items[n]]
           g == HeapOf(arr, index, V)
           h == HeapInit(g)
<1>1. /\ items \in [DOMAIN items -> Int] /\ DOMAIN items \subseteq Names /\ Good(Heap, items)
      /\ freq \in Nat /\ now \in Int
      /\ freq' = freq /\ now' = now /\ held' = held
  BY DEF HeapInv, FixAll
<1>2. /\ V \in [DOMAIN V -> Int] /\ DOMAIN V = DOMAIN items
      /\ \A m \in DOMAIN items : V[m] = items[m] \/ V[m] <= now
  BY <1>1
<1>3. SetHeap(h)
  BY DEF FixAll
<1> HIDE DEF V
<1>4. /\ arr \in Seq(DOMAIN items) /\ index \in [DOMAIN items -> Nat] /\ Placed(Heap)
      /\ Heap.arr = arr /\ Heap.index = index /\ Range(arr) = In(Heap)
  BY <1>1, HeapIs, HeapFields DEF Good
<1>5. g \in Heaps(V) /\ g.arr = arr /\ g.index = index
  BY <1>2, <1>4, HeapFrom, HeapOfFields
<1> HIDE DEF g
<1>6. Placed(g) /\ In(g) = In(Heap)
  BY <1>4, <1>5 DEF Placed, In
<1>7. Good(h, V) /\ In(h) = In(Heap)
  BY <1>2, <1>5, <1>6, HeapInitIs
<1> HIDE DEF h
<1>8. HeapInv' /\ items' = V /\ Range(arr') = In(h)
  BY <1>1, <1>2, <1>3, <1>7, StepTo
<1>9. \A m \in DOMAIN items : items'[m] <= items[m] \/ items'[m] <= now + freq
  BY <1>1, <1>2, <1>8
<1> QED BY <1>1, <1>2, <1>4, <1>7, <1>8, <1>9 DEF Promise!Move

(* next takes the root, which has the least time. *)
LEMMA NextStep ==
    ASSUME HeapInv, next
    PROVE  HeapInv' /\ \E n \in Names : Promise!Take(n)
<1> DEFINE n == arr[1]
           L == Len(arr)
           k == Keys(Heap)
           V == [items EXCEPT ![n] = now + freq]
           h == IF freq = 0 THEN HeapPop(Heap) ELSE Sift(HeapOf(arr, index, V), 1, L)
<1>1. /\ items \in [DOMAIN items -> Int] /\ DOMAIN items \subseteq Names /\ Good(Heap, items)
      /\ freq \in Nat /\ now \in Int
      /\ freq' = freq /\ now' = now /\ held = NoName /\ held' = n /\ SetHeap(h) /\ arr # <<>>
  BY DEF HeapInv, next, Return
<1>2. /\ Heap.arr = arr /\ Heap.index = index /\ Range(arr) = In(Heap) /\ arr \in Seq(DOMAIN items)
      /\ L \in Nat /\ arr \in [1 .. L -> DOMAIN items]
  BY <1>1, HeapIs, HeapFields DEF Good
<1>3. L > 0 /\ 1 \in 1 .. L
  BY <1>1, <1>2
<1>4. n \in DOMAIN items /\ n \in Range(arr)
  BY <1>2, <1>3 DEF Range
<1>5. \A m \in Range(arr) : items[n] <= items[m]
  <2>1. k \in [1 .. L -> Int] /\ \A p \in 1 .. L : k[p] = items[arr[p]]
    BY <1>1, <1>2, KeysAre DEF Good
  <2>2. Ordered(k, L)
    BY <1>1, <1>2 DEF Good
  <2> HIDE DEF k, L
  <2>3. \A p \in 1 .. L : k[1] <= k[p]
    BY <1>2, <2>1, <2>2, RootIsLeast
  <2>4. \A m \in Range(arr) : \E p \in 1 .. L : m = arr[p]
    BY <1>2 DEF Range
  <2> QED BY <1>3, <2>1, <2>3, <2>4
<1>6. CASE freq = 0
  <2>1. h = HeapPop(Heap)
    BY <1>6
  <2>2. Good(h, items) /\ In(h) = In(Heap) \ {n}
    <3>1. Len(Heap.arr) > 0
      BY <1>2, <1>3
    <3> HIDE DEF h
    <3> QED BY <1>1, <1>2, <2>1, <3>1, HeapPopIs
  <2> HIDE DEF h, n
  <2>3. HeapInv' /\ items' = items /\ Range(arr') = In(h)
    BY <1>1, <2>2, StepTo
  <2>4. Promise!Take(n)
    BY <1>1, <1>2, <1>4, <1>5, <1>6, <2>2, <2>3 DEF Promise!Take
  <2> QED BY <1>1, <1>4, <2>3, <2>4
<1>7. CASE freq # 0
  <2>1. h = Sift(HeapOf(arr, index, V), 1, L)
    BY <1>7
  <2>2. /\ V \in [DOMAIN V -> Int] /\ DOMAIN V = DOMAIN items
        /\ \A m \in DOMAIN items : m # Heap.arr[1] => V[m] = items[m]
    BY <1>1, <1>2
  <2> HIDE DEF h, V
  <2>3. LET f == Sift(HeapOf(Heap.arr, Heap.index, V), 1, Len(Heap.arr))
        IN Good(f, V) /\ In(f) = In(Heap)
    <3>1. 1 \in 1 .. Len(Heap.arr)
      BY <1>2, <1>3
    <3> QED BY <1>1, <2>2, <3>1, FixIs
  <2>4. h = Sift(HeapOf(Heap.arr, Heap.index, V), 1, Len(Heap.arr))
    BY <1>2, <2>1
  <2>5. HeapInv' /\ items' = V /\ Range(arr') = In(Heap)
    <3>1. Good(h, V) /\ In(h) = In(Heap) /\ V \in [DOMAIN V -> Int] /\ DOMAIN V \subseteq Names
      BY <1>1, <2>2, <2>3, <2>4
    <3> QED BY <1>1, <3>1, StepTo
  <2> HIDE DEF n
  <2>6. Promise!Take(n)
    BY <1>1, <1>2, <1>4, <1>5, <1>7, <2>5 DEF Promise!Take, V
  <2> QED BY <1>1, <1>4, <2>5, <2>6
<1> QED BY <1>6, <1>7

LEMMA SetToSeqIs ==
    ASSUME NEW S, IsFiniteSet(S)
    PROVE  SetToSeq(S) \in SetToSeqs(S)
<1> DEFINE c == Cardinality(S)
<1>1. ExistsBijection(1 .. c, S)
  BY FS_CountingElements, FS_CardinalityType
<1>2. \E f \in [1 .. c -> S] : IsInjective(f)
  BY <1>1 DEF ExistsBijection, Bijection, Injection
<1>3. SetToSeq(S) \in [1 .. c -> S] /\ IsInjective(SetToSeq(S))
  BY <1>2 DEF SetToSeq
<1> QED BY <1>3 DEF SetToSeqs, IsInjective

(* Reconfigure calls Init with each name once. *)
LEMMA ReconfigureStep ==
    ASSUME HeapInv, Reconfigure
    PROVE  HeapInv' /\ \E S \in SUBSET Names : Promise!Replace(S)
<1>1. PICK S \in SUBSET Names : \E new \in SetToSeqs(S \ DOMAIN items) :
        Init(new \o SetToSeq(S \cap DOMAIN items))
  BY DEF Reconfigure
<1>2. PICK new \in SetToSeqs(S \ DOMAIN items) : Init(new \o SetToSeq(S \cap DOMAIN items))
  BY <1>1
<1> DEFINE known == SetToSeq(S \cap DOMAIN items)
           names == new \o known
<1>3. IsFiniteSet(S \ DOMAIN items) /\ IsFiniteSet(S \cap DOMAIN items)
  <2>1. S \ DOMAIN items \in SUBSET Names /\ S \cap DOMAIN items \in SUBSET Names
    OBVIOUS
  <2> QED BY <2>1, HeapAssumption, FS_Subset
<1>4. new \in Seq(Names)
  <2>1. Len(new) \in Nat /\ new \in [1 .. Len(new) -> S \ DOMAIN items]
    BY <1>3, OrderIs
  <2> DEFINE L == Len(new)
  <2>2. new \in [1 .. L -> Names] /\ L \in Nat
    BY <2>1
  <2> HIDE DEF L
  <2> QED BY <2>2, SeqFrom
<1>5. known \in Seq(Names)
  <2>1. known \in SetToSeqs(S \cap DOMAIN items)
    BY <1>3, SetToSeqIs
  <2> HIDE DEF known
  <2>2. Len(known) \in Nat /\ known \in [1 .. Len(known) -> S \cap DOMAIN items]
    BY <1>3, <2>1, OrderIs
  <2> DEFINE L == Len(known)
  <2>3. known \in [1 .. L -> Names] /\ L \in Nat
    BY <2>2
  <2> HIDE DEF L
  <2> QED BY <2>3, SeqFrom
<1>6. names \in Seq(Names)
  <2> HIDE DEF known
  <2> QED BY <1>4, <1>5
<1>7. Init(names)
  BY <1>2
<1> HIDE DEF names
<1>8. HeapInv' /\ Promise!Replace(Range(names))
  BY <1>6, <1>7, InitStep
<1>9. Range(names) \in SUBSET Names
  BY <1>6 DEF Range
<1> QED BY <1>8, <1>9

PromiseVars == <<items, Range(arr), held, now, freq>>

LEMMA HeapStep ==
    ASSUME HeapInv, [Next]_vars
    PROVE  HeapInv' /\ [Promise!ScheduleNext]_PromiseVars
<1>0. ASSUME UNCHANGED <<arr, index, items, freq>>, now' \in Int PROVE HeapInv'
  <2>1. Heap' = Heap
    BY <1>0 DEF Heap, HeapOf
  <2>2. Good(Heap', items')
    BY <1>0, <2>1 DEF HeapInv
  <2>3. (Good(Heap, items))'
    BY <2>2 DEF Good, Heaps, Placed, Ordered, Keys, Fine
  <2> QED BY <1>0, <2>3 DEF HeapInv
<1>1. CASE Reconfigure
  BY <1>1, ReconfigureStep DEF Promise!ScheduleNext
<1>2. ASSUME NEW n \in Names, NEW w \in 0 .. now, NEW later \in BOOLEAN, Fix(n, w, later)
      PROVE  HeapInv' /\ Promise!Move
  BY <1>2, FixStep DEF HeapInv
<1>3. ASSUME NEW S \in SUBSET Names, NEW w \in 0 .. now, FixAll([n \in S |-> w], FALSE)
      PROVE  HeapInv' /\ Promise!Move
  <2> DEFINE whens == [n \in S |-> w]
  <2>1. \A n \in DOMAIN whens : whens[n] \in Int /\ whens[n] <= now
    BY DEF HeapInv
  <2>2. FixAll(whens, FALSE)
    BY <1>3
  <2> HIDE DEF whens
  <2> QED BY <2>1, <2>2, FixAllStep
<1>4. CASE next
  BY <1>4, NextStep DEF Promise!ScheduleNext
<1>5. CASE Receive
  <2>1. Promise!Release
    BY <1>5 DEF Receive, Promise!Release
  <2>2. HeapInv'
    <3>1. UNCHANGED <<arr, index, items, freq>> /\ now' \in Int
      BY <1>5 DEF Receive, HeapInv
    <3> QED BY <1>0, <3>1
  <2> QED BY <2>1, <2>2 DEF Promise!ScheduleNext
<1>6. CASE Tick
  <2>1. Promise!Wait /\ UNCHANGED <<arr, index, items, freq>> /\ now' \in Int
    BY <1>6 DEF Tick, Promise!Wait, HeapInv
  <2> QED BY <1>0, <2>1 DEF Promise!ScheduleNext
<1>7. CASE UNCHANGED vars
  <2>1. UNCHANGED <<arr, index, items, freq, held>> /\ now' = now
    BY <1>7 DEF vars
  <2>2. HeapInv'
    BY <1>0, <2>1 DEF HeapInv
  <2> QED BY <2>1, <2>2 DEF PromiseVars
<1> QED BY <1>1, <1>2, <1>3, <1>4, <1>5, <1>6, <1>7 DEF Next, Promise!ScheduleNext

LEMMA HeapStart ==
    ASSUME HeapQueueInit
    PROVE  HeapInv /\ Promise!ScheduleInit
<1> DEFINE all == SetToSeq(Names)
<1>1. PICK k \in 0 .. Len(all) : arr = SubSeq(all, 1, k)
  BY DEF HeapQueueInit
<1>2. /\ Len(all) \in Nat /\ all \in [1 .. Len(all) -> Names]
      /\ \A i, j \in 1 .. Len(all) : i # j => all[i] # all[j]
  <2>1. all \in SetToSeqs(Names)
    BY HeapAssumption, SetToSeqIs
  <2> HIDE DEF all
  <2> QED BY <2>1, HeapAssumption, OrderIs
<1> HIDE DEF all
<1>3. /\ arr \in Seq(Names) /\ Len(arr) = k /\ k \in Nat
      /\ \A i \in 1 .. k : arr[i] = all[i]
  <2>1. 1 \in Int /\ k \in Int /\ k \in Nat /\ \A i \in 1 .. k : all[i] \in Names
    BY <1>2
  <2>2. /\ SubSeq(all, 1, k) \in Seq(Names)
        /\ Len(SubSeq(all, 1, k)) = IF 1 <= k THEN k - 1 + 1 ELSE 0
        /\ \A i \in 1 .. k - 1 + 1 : SubSeq(all, 1, k)[i] = all[1 + i - 1]
    BY <2>1, SubSeqProperties
  <2>3. k - 1 + 1 = k /\ \A i \in 1 .. k : 1 + i - 1 = i
    BY <2>1
  <2>4. Len(SubSeq(all, 1, k)) = k
    BY <2>1, <2>2, <2>3
  <2>5. \A i \in 1 .. k : SubSeq(all, 1, k)[i] = all[i]
    BY <2>2, <2>3
  <2> QED BY <1>1, <2>1, <2>2, <2>4, <2>5
<1>4. \A i, j \in 1 .. k : i # j => arr[i] # arr[j]
  <2>1. \A i \in 1 .. k : i \in 1 .. Len(all)
    BY <1>2
  <2> QED BY <1>2, <1>3, <2>1
<1> DEFINE D == Range(arr)
<1>5. D \subseteq Names /\ \A n \in D : \E i \in 1 .. k : arr[i] = n
  BY <1>3 DEF Range
<1>6. \A i \in 1 .. k : arr[i] \in D
  BY <1>3 DEF Range
<1>7. /\ index = [n \in D |-> CHOOSE i \in 1 .. Len(arr) : arr[i] = n]
      /\ items \in [D -> 1 .. MaxTime] /\ IsHeap /\ held = NoName /\ freq \in Freqs /\ now = MaxTime - freq
  BY DEF HeapQueueInit
<1> HIDE DEF D
<1>8. \A n \in D : index[n] \in 1 .. k /\ arr[index[n]] = n
  BY <1>3, <1>5, <1>7
<1>9. \A i \in 1 .. k : index[arr[i]] = i
  BY <1>4, <1>6, <1>8
<1>10. items \in [DOMAIN items -> Int] /\ DOMAIN items = D /\ DOMAIN index = D /\ index \in [D -> Nat]
  <2>1. MaxTime \in Nat
    BY HeapAssumption
  <2>2. DOMAIN items = D /\ \A n \in D : items[n] \in Int
    BY <1>7, <2>1
  <2>3. index \in [D -> Nat]
    BY <1>7, <1>8
  <2> QED BY <1>7, <2>2, <2>3
<1>11. Heap \in Heaps(items)
  <2>1. arr \in [1 .. k -> D] /\ k \in Nat
    BY <1>3, <1>6
  <2>2. arr \in Seq(DOMAIN items)
    BY <1>10, <2>1, SeqFrom
  <2> QED BY <1>10, <2>2, HeapFrom DEF Heap
<1>12. Heap.arr = arr /\ Heap.index = index
  BY HeapIs
<1>13. Placed(Heap)
  <2>1. \A n \in DOMAIN index : index[n] \in 1 .. Len(arr) /\ arr[index[n]] = n
    BY <1>3, <1>8, <1>10
  <2> QED BY <1>3, <1>9, <1>12, <2>1 DEF Placed
<1>14. Ordered(Keys(Heap), Len(arr))
  <2>1. \A p \in 1 .. Len(arr) : Keys(Heap)[p] = items[arr[p]]
    BY <1>10, <1>11, <1>12, KeysAre
  <2>2. \A p \in 2 .. Len(arr) : p \in 1 .. Len(arr) /\ Parent(p) \in 1 .. Len(arr)
    BY <1>3, ParentIs
  <2> QED BY <1>7, <2>1, <2>2 DEF IsHeap, Ordered, Fine
<1>15. freq \in Nat /\ now \in Int
  BY <1>7, HeapAssumption
<1>16. HeapInv
  BY <1>5, <1>10, <1>11, <1>12, <1>13, <1>14, <1>15 DEF HeapInv, Good
<1> QED BY <1>5, <1>7, <1>10, <1>16 DEF Promise!ScheduleInit, D

LEMMA HeapAlways == Spec => []HeapInv
<1>1. HeapQueueInit => HeapInv
  BY HeapStart
<1>2. HeapInv /\ [Next]_vars => HeapInv'
  BY HeapStep
<1> QED BY <1>1, <1>2, PTL DEF Spec

(* The array stays a heap and every index right, for any set of names and  *)
(* any number of operations.                                               *)
THEOREM HeapKept == Spec => []WellFormed
<1>1. ASSUME HeapInv PROVE WellFormed
  <2>1. Good(Heap, items) /\ items \in [DOMAIN items -> Int]
    BY <1>1 DEF HeapInv
  <2>2. Heap \in Heaps(items) /\ Placed(Heap) /\ Ordered(Keys(Heap), Len(Heap.arr))
    BY <2>1 DEF Good
  <2>3. Heap.arr = arr /\ Heap.index = index
    BY HeapIs
  <2>4. Len(arr) \in Nat /\ \A p \in 1 .. Len(arr) : Keys(Heap)[p] = items[arr[p]]
    <3>1. Len(Heap.arr) \in Nat
      BY <2>2, HeapFields
    <3>2. \A p \in 1 .. Len(Heap.arr) : Keys(Heap)[p] = items[Heap.arr[p]]
      BY <2>1, <2>2, KeysAre
    <3> QED BY <2>3, <3>1, <3>2
  <2>5. \A p \in 2 .. Len(arr) : p \in 1 .. Len(arr) /\ Parent(p) \in 1 .. Len(arr)
    BY <2>4, ParentIs
  <2>6. IsHeap
    BY <2>2, <2>3, <2>4, <2>5 DEF IsHeap, Ordered, Fine
  <2> QED BY <2>2, <2>3, <2>6 DEF WellFormed, Placed
<1> QED BY <1>1, HeapAlways, PTL

(* The array implements the schedule: the loops of container/heap change   *)
(* nothing that a caller of the queue can see, but which name comes next.  *)
THEOREM HeapImplementsSchedule == Spec => KeepsSchedule
<1>1. HeapQueueInit => Promise!ScheduleInit
  BY HeapStart
<1>2. HeapInv /\ [Next]_vars => [Promise!ScheduleNext]_PromiseVars
  BY HeapStep
<1> QED BY <1>1, <1>2, HeapAlways, PTL
        DEF Spec, KeepsSchedule, Promise!ScheduleSpec, PromiseVars
=============================================================================
