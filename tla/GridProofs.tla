----------------------------- MODULE GridProofs -----------------------------
(***************************************************************************)
(* What is proved of grids, for any number of columns, configuration of    *)
(* alerts and halvings: of their encoding over many cycles of the updater  *)
(* (GridHistory) and of the tabulator that copies them (Tabulator).        *)
(*                                                                         *)
(* HistoryInv: the stored grid is the encoding (Encodes) of the columns    *)
(* that were read, as the halvings left them, and their builds fall.  A    *)
(* row encodes cells if its runs spell their results, the first of them as *)
(* long as it can be, and each of its lists has one entry for each of the  *)
(* cells it is about, in their order.  RoundTrip alone is not inductive:   *)
(* that a row decodes to its cells does not say how the next cycle, which  *)
(* decodes and encodes all of it, will code them.                          *)
(* AlertExact follows from HistoryInv by an invariant of the loop of       *)
(* alertRow (Looped), which relates its counters to the last results.      *)
(* FlipsExact follows from it by an invariant of the loop of               *)
(* calculateFlipFlakiness (Walked) over the statuses of a row, and from    *)
(* the increasing function that takes these to the columns (Climbs).       *)
(*                                                                         *)
(* OrderInv: the grid has consecutive builds up to the newest, every copy  *)
(* of it in a reader or with a writer is such a grid of an earlier         *)
(* moment, and the state of the tab has its columns in order and single.   *)
(* That mergeGrids keeps this rests on its binary search (SeamIs), which   *)
(* is correct only on an ordered state.                                    *)
(***************************************************************************)
EXTENDS GridHistory, Tabulator, SelectionProofs, FiniteSetTheorems

Measures == INSTANCE FoldProofs WITH Step <- AddValue
Appends == INSTANCE FoldProofs WITH Step <- AppendColumn
Alertings == INSTANCE FoldProofs WITH Step <- AlertStep
Flippings == INSTANCE FoldProofs WITH Step <- FlipStep

(* A sequence, whatever its elements are.                                  *)
IsSeq(s) == \E X : s \in Seq(X)

LEMMA SeqIs ==
    ASSUME NEW s, IsSeq(s)
    PROVE  Len(s) \in Nat /\ DOMAIN s = 1 .. Len(s)
<1> QED BY DEF IsSeq

(* What \o does with one more element.                                     *)
LEMMA Longer ==
    ASSUME NEW s, IsSeq(s), NEW v, NEW t, t = Append(s, v) \/ t = s \o <<v>>
    PROVE  /\ IsSeq(t) /\ Len(t) = Len(s) + 1 /\ t[Len(s) + 1] = v
           /\ \A i \in 1 .. Len(s) : t[i] = s[i]
<1>1. PICK X : s \in Seq(X)
  BY DEF IsSeq
<1> DEFINE Y == X \cup {v}
<1>2. s \in Seq(Y)
  <2>1. \A i \in 1 .. Len(s) : s[i] \in Y
    BY <1>1
  <2>2. s = [i \in 1 .. Len(s) |-> s[i]] /\ Len(s) \in Nat
    BY <1>1
  <2> HIDE DEF Y
  <2> QED BY <2>1, <2>2
<1>3. v \in Y
  OBVIOUS
<1> HIDE DEF Y
<1>4. t \in Seq(Y)
  BY <1>2, <1>3
<1>5. /\ Len(t) = Len(s) + 1 /\ t[Len(s) + 1] = v
      /\ \A i \in 1 .. Len(s) : t[i] = s[i]
  BY <1>2, <1>3
<1> QED BY <1>4, <1>5 DEF IsSeq

IsJoin(w, s, t) ==
    /\ Len(w) = Len(s) + Len(t)
    /\ \A i \in 1 .. Len(s) : w[i] = s[i]
    /\ \A i \in 1 .. Len(t) : w[Len(s) + i] = t[i]

LEMMA Joined ==
    ASSUME NEW X, NEW s \in Seq(X), NEW t \in Seq(X), NEW w, w = s \o t
    PROVE  w \in Seq(X) /\ IsJoin(w, s, t)
<1> QED BY DEF IsJoin

-----------------------------------------------------------------------------
(* Run-length codes.  AllOf is what their runs are of.                     *)
Run == [res : Statuses, n : Nat \ {0}]
AllOf(results) == { results[i].res : i \in DOMAIN results }

LEMMA IterEmpty == Iter(<<>>) = <<>>
<1>1. Len([k \in DOMAIN <<>> |-> Repeated(<<>>[k])]) = 0
  OBVIOUS
<1> QED BY <1>1, FlattenEmpty DEF Iter

(* The last run comes after what the others are repeated to.               *)
LEMMA IterLast ==
    ASSUME NEW n \in Nat, NEW r \in Seq(Run), Len(r) = n, NEW t \in Seq(Run), Len(t) = n + 1,
           \A i \in 1 .. n : t[i] = r[i]
    PROVE  Iter(t) = Iter(r) \o Repeated(t[n + 1])
<1> DEFINE a == [k \in DOMAIN r |-> Repeated(r[k])]
           b == [k \in DOMAIN t |-> Repeated(t[k])]
<1>1. DOMAIN r = 1 .. n /\ DOMAIN t = 1 .. n + 1 /\ n + 1 \in 1 .. n + 1
  OBVIOUS
<1>2. Len(a) = n /\ Len(b) = n + 1
  BY <1>1
<1>3. \A i \in 1 .. n : b[i] = a[i]
  <2>1. \A i \in 1 .. n : i \in DOMAIN r /\ i \in DOMAIN t
    BY <1>1
  <2> QED BY <2>1
<1>4. b[n + 1] = Repeated(t[n + 1])
  BY <1>1
<1>5. Iter(r) = Flatten(a) /\ Iter(t) = Flatten(b)
  BY DEF Iter
<1> HIDE DEF a, b
<1> QED BY <1>2, <1>3, <1>4, <1>5, FlattenAppend

LEMMA RepeatedIs ==
    ASSUME NEW r \in Run
    PROVE  Repeated(r) \in Seq(Statuses) /\ Len(Repeated(r)) = r.n /\ r.n \in Nat \ {0}
           /\ \A i \in 1 .. r.n : Repeated(r)[i] = r.res
<1>1. r.n \in Nat \ {0} /\ r.res \in Statuses
  BY DEF Run
<1> QED BY <1>1 DEF Repeated

(* What is repeated are statuses.                                          *)
LEMMA IterSeq == ASSUME NEW r \in Seq(Run) PROVE Iter(r) \in Seq(Statuses)
<1> DEFINE P(k) == SubSeq(r, 1, k)
           S == { k \in Nat : k <= Len(r) => Iter(P(k)) \in Seq(Statuses) }
<1>1. 0 \in S
  <2>1. P(0) = <<>>
    OBVIOUS
  <2>2. <<>> \in Seq(Statuses)
    OBVIOUS
  <2> QED BY <2>1, <2>2, IterEmpty
<1>2. ASSUME NEW k \in Nat, k \in S PROVE k + 1 \in S
  <2> SUFFICES ASSUME k + 1 <= Len(r) PROVE Iter(P(k + 1)) \in Seq(Statuses)
    OBVIOUS
  <2>1. /\ P(k) \in Seq(Run) /\ P(k + 1) \in Seq(Run) /\ Len(P(k)) = k /\ Len(P(k + 1)) = k + 1
        /\ \A i \in 1 .. k : P(k + 1)[i] = P(k)[i]
    <3>1. k + 1 \in 1 .. Len(r) /\ Len(r) \in Nat
      OBVIOUS
    <3> QED BY <3>1
  <2>2. P(k + 1)[k + 1] \in Run
    BY <2>1
  <2>3. Iter(P(k)) \in Seq(Statuses)
    BY <1>2, <2>1
  <2> HIDE DEF P
  <2>4. Iter(P(k + 1)) = Iter(P(k)) \o Repeated(P(k + 1)[k + 1])
    BY <2>1, IterLast
  <2>5. Repeated(P(k + 1)[k + 1]) \in Seq(Statuses)
    BY <2>2, RepeatedIs
  <2>6. Iter(P(k)) \o Repeated(P(k + 1)[k + 1]) \in Seq(Statuses)
    BY <2>3, <2>5, Joined
  <2> QED BY <2>4, <2>6
<1>3. Len(r) \in Nat /\ P(Len(r)) = r
  OBVIOUS
<1>4. Len(r) \in S
  <2> HIDE DEF S
  <2> QED BY <1>1, <1>2, <1>3, Joins!NatInductionOnSets
<1>5. Len(r) <= Len(r)
  BY <1>3
<1> HIDE DEF P
<1> QED BY <1>3, <1>4, <1>5

(* A sequence that has c times x after another one.                        *)
Lengthens(long, short, c, x) ==
    /\ Len(long) = Len(short) + c
    /\ \A i \in 1 .. Len(short) : long[i] = short[i]
    /\ \A i \in 1 .. c : long[Len(short) + i] = x

(* appendResult adds count columns of the result.                          *)
LEMMA AppendResultIs ==
    ASSUME NEW r \in Seq(Run), NEW res \in Statuses, NEW c \in Nat \ {0},
           NEW t, t = appendResult(r, res, c)
    PROVE  /\ t \in Seq(Run) /\ AllOf(t) = AllOf(r) \cup {res}
           /\ Lengthens(Iter(t), Iter(r), c, res)
<1>1. PICK n \in Nat : n = Len(r) /\ DOMAIN r = 1 .. n
  OBVIOUS
<1>2. t = appendResult(r, res, c)
  OBVIOUS
<1>3. Iter(r) \in Seq(Statuses)
  BY IterSeq
<1>4. CASE n = 0 \/ r[n].res # res
  <2> DEFINE x == [res |-> res, n |-> c]
  <2>1. t = Append(r, x)
    BY <1>1, <1>2, <1>4 DEF appendResult
  <2>2. x \in Run /\ x.res = res /\ x.n = c
    BY DEF Run
  <2> HIDE DEF x
  <2>3. /\ t \in Seq(Run) /\ Len(t) = n + 1 /\ t[n + 1] = x
        /\ \A i \in 1 .. n : t[i] = r[i]
    BY <1>1, <2>1, <2>2
  <2>4. Iter(t) = Iter(r) \o Repeated(x)
    BY <1>1, <2>3, IterLast
  <2>5. /\ Repeated(x) \in Seq(Statuses) /\ Len(Repeated(x)) = c
        /\ \A i \in 1 .. c : Repeated(x)[i] = res
    BY <2>2, RepeatedIs
  <2>6. AllOf(t) = AllOf(r) \cup {res}
    <3>1. DOMAIN t = 1 .. n + 1 /\ \A i \in 1 .. n + 1 : i = n + 1 \/ i \in 1 .. n
      BY <2>3
    <3>2. \A i \in 1 .. n : t[i].res = r[i].res
      BY <2>3
    <3>3. t[n + 1].res = res /\ n + 1 \in 1 .. n + 1
      BY <2>2, <2>3
    <3>4. 1 .. n \subseteq 1 .. n + 1
      OBVIOUS
    <3> QED BY <1>1, <3>1, <3>2, <3>3, <3>4 DEF AllOf
  <2>7. /\ Len(Iter(r) \o Repeated(x)) = Len(Iter(r)) + c
        /\ \A i \in 1 .. Len(Iter(r)) : (Iter(r) \o Repeated(x))[i] = Iter(r)[i]
        /\ \A i \in 1 .. c : (Iter(r) \o Repeated(x))[Len(Iter(r)) + i] = Repeated(x)[i]
    <3>1. PICK u, v, w : u = Iter(r) /\ v = Repeated(x) /\ w = u \o v
      OBVIOUS
    <3>2. u \in Seq(Statuses) /\ v \in Seq(Statuses) /\ Len(v) = c
      BY <1>3, <2>5, <3>1
    <3>3. IsJoin(w, u, v)
      BY <3>1, <3>2, Joined
    <3> QED BY <3>1, <3>2, <3>3 DEF IsJoin
  <2> QED BY <1>2, <2>3, <2>4, <2>5, <2>6, <2>7 DEF Lengthens
<1>5. CASE n # 0 /\ r[n].res = res
  <2>1. n - 1 \in Nat /\ n \in 1 .. n /\ r[n] \in Run /\ (n - 1) + 1 = n
    BY <1>1, <1>5
  <2> DEFINE f == SubSeq(r, 1, n - 1)
             x == [r[n] EXCEPT !.n = @ + c]
  <2>2. t = [r EXCEPT ![n] = x]
    BY <1>1, <1>2, <1>5 DEF appendResult
  <2>3. x \in Run /\ x.res = res /\ x.n = r[n].n + c
    <3>1. r[n].res \in Statuses /\ r[n].n \in Nat \ {0} /\ DOMAIN r[n] = {"res", "n"}
      BY <2>1 DEF Run
    <3>2. x = [res |-> r[n].res, n |-> r[n].n + c]
      BY <2>1 DEF Run
    <3>3. r[n].n + c \in Nat \ {0}
      BY <3>1
    <3> HIDE DEF x
    <3> QED BY <1>5, <3>1, <3>2, <3>3 DEF Run
  <2>4. /\ f \in Seq(Run) /\ Len(f) = n - 1
        /\ \A i \in 1 .. n - 1 : f[i] = r[i]
    BY <1>1, <2>1
  <2> HIDE DEF x, f
  <2>5. /\ t \in Seq(Run) /\ Len(t) = n /\ DOMAIN t = 1 .. n /\ t[n] = x
        /\ \A i \in 1 .. n - 1 : t[i] = r[i]
    BY <1>1, <2>1, <2>2, <2>3
  <2>6. Iter(r) = Iter(f) \o Repeated(r[n])
    BY <1>1, <2>1, <2>4, IterLast
  <2>7. Iter(t) = Iter(f) \o Repeated(x)
    <3>1. \A i \in 1 .. n - 1 : t[i] = f[i]
      BY <2>4, <2>5
    <3> QED BY SMTT(20), <2>1, <2>4, <2>5, <3>1, IterLast
  <2>8. Iter(f) \in Seq(Statuses)
    BY <2>4, IterSeq
  <2>9. /\ Repeated(x) \in Seq(Statuses) /\ Len(Repeated(x)) = x.n
        /\ \A i \in 1 .. x.n : Repeated(x)[i] = x.res
    BY <2>3, RepeatedIs
  <2>10. /\ Repeated(r[n]) \in Seq(Statuses) /\ Len(Repeated(r[n])) = r[n].n /\ r[n].n \in Nat
         /\ \A i \in 1 .. r[n].n : Repeated(r[n])[i] = r[n].res
    BY <2>1, RepeatedIs
  <2>11. PICK l, a \in Nat : l = Len(Iter(f)) /\ a = r[n].n /\ l \in Nat
    BY <2>8, <2>10
  <2>12. /\ Len(Iter(r)) = l + a
         /\ \A i \in 1 .. l : Iter(r)[i] = Iter(f)[i]
         /\ \A i \in 1 .. a : Iter(r)[l + i] = res
    <3>1. PICK u, v, w : u = Iter(f) /\ v = Repeated(r[n]) /\ w = u \o v
      OBVIOUS
    <3>2. u \in Seq(Statuses) /\ v \in Seq(Statuses) /\ Len(v) = a /\ Len(u) = l
      BY <1>5, <2>8, <2>10, <2>11, <3>1
    <3>3. IsJoin(w, u, v)
      BY <3>1, <3>2, Joined
    <3>4. \A i \in 1 .. a : v[i] = res
      BY <1>5, <2>8, <2>10, <2>11, <3>1
    <3>5. w = Iter(r)
      BY <2>6, <3>1
    <3> QED BY <2>11, <3>1, <3>2, <3>3, <3>4, <3>5 DEF IsJoin
  <2>13. /\ Len(Iter(t)) = l + (a + c)
         /\ \A i \in 1 .. l : Iter(t)[i] = Iter(f)[i]
         /\ \A i \in 1 .. a + c : Iter(t)[l + i] = res
    <3>1. PICK u, v, w : u = Iter(f) /\ v = Repeated(x) /\ w = u \o v
      OBVIOUS
    <3>2. u \in Seq(Statuses) /\ v \in Seq(Statuses) /\ Len(v) = a + c /\ Len(u) = l
      BY <2>3, <2>8, <2>9, <2>11, <3>1
    <3>3. IsJoin(w, u, v)
      BY <3>1, <3>2, Joined
    <3>4. \A i \in 1 .. a + c : v[i] = res
      BY <2>3, <2>8, <2>9, <2>11, <3>1
    <3>5. w = Iter(t)
      BY <2>7, <3>1
    <3>6. /\ Len(w) = l + (a + c)
          /\ \A i \in 1 .. l : w[i] = u[i]
          /\ \A i \in 1 .. a + c : w[l + i] = v[i]
      BY <3>2, <3>3 DEF IsJoin
    <3>7. \A i \in 1 .. a + c : w[l + i] = res
      BY <3>4, <3>6
    <3> QED BY <3>1, <3>5, <3>6, <3>7
  <2>14. Len(Iter(t)) = Len(Iter(r)) + c
    BY <2>11, <2>12, <2>13
  <2>15. ASSUME NEW i \in 1 .. l + a PROVE Iter(t)[i] = Iter(r)[i]
    <3>1. CASE i \in 1 .. l
      BY <2>12, <2>13, <3>1
    <3>2. CASE i \notin 1 .. l
      <4>1. PICK j \in 1 .. a : i = l + j
        <5>1. i - l \in 1 .. a /\ i = l + (i - l)
          BY <2>11, <3>2
        <5> QED BY <5>1
      <4>2. j \in 1 .. a + c
        BY <2>11
      <4> QED BY <2>12, <2>13, <4>1, <4>2
    <3> QED BY <3>1, <3>2
  <2>16. ASSUME NEW i \in 1 .. c PROVE Iter(t)[(l + a) + i] = res
    <3>1. a + i \in 1 .. a + c /\ (l + a) + i = l + (a + i)
      BY <2>11
    <3> QED BY <2>13, <3>1
  <2>17. AllOf(t) = AllOf(r) \cup {res}
    <3>1. \A i \in 1 .. n : t[i].res = r[i].res
      <4>1. \A i \in 1 .. n : i = n \/ i \in 1 .. n - 1
        BY <2>1
      <4> QED BY <1>5, <2>3, <2>5, <4>1
    <3>2. res \in AllOf(r)
      BY <1>1, <1>5, <2>1 DEF AllOf
    <3>3. AllOf(t) = AllOf(r)
      BY <1>1, <2>5, <3>1 DEF AllOf
    <3> QED BY <3>2, <3>3
  <2>18. \A i \in 1 .. Len(Iter(r)) : Iter(t)[i] = Iter(r)[i]
    BY <2>12, <2>15
  <2>19. \A i \in 1 .. c : Iter(t)[Len(Iter(r)) + i] = res
    BY <2>12, <2>16
  <2> QED BY <1>2, <2>5, <2>14, <2>17, <2>18, <2>19 DEF Lengthens
<1> QED BY <1>4, <1>5

LEMMA NonEmpty ==
    ASSUME NEW X, NEW s \in Seq(X), s # <<>>
    PROVE  Len(s) \in Nat /\ Len(s) # 0 /\ (Len(s) = 1 \/ Len(s) > 1)
<1> QED OBVIOUS

(* The first run of a row's results is as long as it can be.               *)
FirstRun(r) ==
    r # <<>> =>
      /\ r[1].n \in Nat \ {0} /\ r[1].n <= Len(Iter(r))
      /\ \A j \in 1 .. r[1].n : Iter(r)[j] = r[1].res
      /\ Len(r) = 1 => r[1].n = Len(Iter(r))
      /\ Len(r) > 1 => r[1].n < Len(Iter(r)) /\ Iter(r)[r[1].n + 1] # r[1].res

(* Of n runs to l results the first are m times s.                         *)
Starts(out, l, n, m, s) ==
    /\ m \in Nat \ {0} /\ m <= l
    /\ \A j \in 1 .. m : out[j] = s
    /\ n = 1 => m = l
    /\ n > 1 => m < l /\ out[m + 1] # s

LEMMA FirstRunKept ==
    ASSUME NEW r \in Seq(Run), NEW res \in Statuses, NEW c \in Nat \ {0},
           NEW t, t = appendResult(r, res, c), FirstRun(r)
    PROVE  FirstRun(t)
<1>1. PICK n \in Nat : n = Len(r) /\ DOMAIN r = 1 .. n
  OBVIOUS
<1>2. t = appendResult(r, res, c)
  OBVIOUS
<1>3. PICK o, p : o = Iter(r) /\ p = Iter(t)
  OBVIOUS
<1>4. Lengthens(p, o, c, res)
  BY <1>3, AppendResultIs
<1>5. o \in Seq(Statuses)
  BY <1>3, IterSeq
<1>6. PICK l \in Nat : l = Len(o)
  BY <1>5
<1>7. /\ Len(p) = l + c /\ \A i \in 1 .. l : p[i] = o[i]
      /\ \A i \in 1 .. c : p[l + i] = res
  BY <1>4, <1>6 DEF Lengthens
<1> DEFINE x == [res |-> res, n |-> c]
<1>8. CASE n = 0
  <2>1. t = Append(r, x)
    BY <1>1, <1>2, <1>8 DEF appendResult
  <2>2. Len(t) = 1 /\ t[1] = x
    BY <1>1, <1>8, <2>1
  <2>3. r = <<>>
    BY <1>1, <1>8
  <2>4. l = 0
    BY <1>3, <1>6, <2>3, IterEmpty
  <2>5. t[1].n = c /\ t[1].res = res
    BY <2>2
  <2>6. \A j \in 1 .. c : p[j] = res
    BY <1>7, <2>4
  <2> QED BY <1>3, <1>7, <2>2, <2>4, <2>5, <2>6 DEF FirstRun
<1>9. ASSUME n # 0
      PROVE  Starts(p, l, n, r[1].n, r[1].res)
  <2>1. r # <<>> /\ r[1] \in Run
    BY <1>1, <1>9
  <2>2. PICK m, s : m \in Nat \ {0} /\ m = r[1].n /\ s = r[1].res
    BY <2>1 DEF Run
  <2>3. Starts(o, l, n, m, s)
    BY <1>1, <1>3, <1>6, <2>1, <2>2 DEF FirstRun, Starts
  <2>4. \A j \in 1 .. m : j \in 1 .. l
    BY <2>3 DEF Starts
  <2>5. n > 1 => m + 1 \in 1 .. l
    BY <2>3 DEF Starts
  <2>6. Starts(p, l, n, m, s)
    BY <1>7, <2>3, <2>4, <2>5 DEF Starts
  <2> QED BY <2>2, <2>6
<1>10. CASE n # 0 /\ r[n].res # res
  <2>1. PICK m, s : m \in Nat \ {0} /\ m = r[1].n /\ s = r[1].res /\ Starts(p, l, n, m, s)
    BY <1>9, <1>10 DEF Starts
  <2>2. t = Append(r, x)
    BY <1>1, <1>2, <1>10 DEF appendResult
  <2> HIDE DEF x
  <2>3. Len(t) = n + 1 /\ t[1] = r[1] /\ t # <<>>
    BY <1>1, <1>10, <2>2
  <2>4. p[m + 1] # s /\ m < l + c /\ m <= l + c
    <3>1. CASE n = 1
      <4>1. p[l + 1] = res
        BY <1>7
      <4> QED BY <1>10, <2>1, <3>1, <4>1 DEF Starts
    <3>2. CASE n > 1
      BY <2>1, <3>2 DEF Starts
    <3> QED BY <1>10, <3>1, <3>2
  <2>5. Len(t) > 1 /\ Len(t) # 1
    BY <1>10, <2>3
  <2> QED BY <1>3, <1>7, <2>1, <2>3, <2>4, <2>5 DEF FirstRun, Starts
<1>11. CASE n # 0 /\ r[n].res = res
  <2>1. PICK m, s : m \in Nat \ {0} /\ m = r[1].n /\ s = r[1].res /\ Starts(p, l, n, m, s)
    BY <1>9, <1>11 DEF Starts
  <2>2. t = [r EXCEPT ![n].n = @ + c]
    BY <1>1, <1>2, <1>11 DEF appendResult
  <2>3. Len(t) = n /\ t # <<>>
    BY <1>1, <1>11, <2>2
  <2>4. CASE n > 1
    <3>1. t[1] = r[1]
      BY <1>1, <2>2, <2>4
    <3>2. m <= l + c /\ m < l + c
      BY <2>1 DEF Starts
    <3> QED BY <1>3, <1>7, <2>1, <2>3, <2>4, <3>1, <3>2 DEF FirstRun, Starts
  <2>5. CASE n = 1
    <3>1. r[1] \in Run /\ 1 \in DOMAIN r
      BY <1>1, <2>5
    <3>2. t[1] = [r[1] EXCEPT !.n = @ + c]
      BY <2>2, <2>5, <3>1
    <3>3. t[1].n = m + c /\ t[1].res = s
      BY <2>1, <3>1, <3>2 DEF Run
    <3>4. \A j \in 1 .. m + c : p[j] = s
      <4> TAKE j \in 1 .. m + c
      <4>1. CASE j \in 1 .. m
        BY <2>1, <4>1 DEF Starts
      <4>2. CASE j \notin 1 .. m
        <5>1. j - l \in 1 .. c /\ l + (j - l) = j
          BY <2>1, <2>5, <4>2 DEF Starts
        <5>2. s = res
          BY <1>11, <2>1, <2>5
        <5> QED BY <1>7, <5>1, <5>2
      <4> QED BY <4>1, <4>2
    <3> QED BY <1>3, <1>7, <2>1, <2>3, <2>5, <3>3, <3>4 DEF FirstRun, Starts
  <2> QED BY <1>11, <2>4, <2>5
<1> QED BY <1>8, <1>10, <1>11

(* Rows of the same results start with the same run.                       *)
LEMMA SameFirstRun ==
    ASSUME NEW r \in Seq(Run), NEW t \in Seq(Run), FirstRun(r), FirstRun(t), Iter(r) = Iter(t)
    PROVE  /\ r = <<>> <=> t = <<>>
           /\ r # <<>> => r[1].res = t[1].res /\ r[1].n = t[1].n
<1>1. ASSUME NEW u \in Seq(Run), u # <<>>, FirstRun(u), Iter(u) = Iter(r)
      PROVE  /\ Len(Iter(r)) \in Nat \ {0} /\ Iter(r)[1] = u[1].res /\ u[1].n \in Nat \ {0}
             /\ u[1].n <= Len(Iter(r)) /\ \A j \in 1 .. u[1].n : Iter(r)[j] = u[1].res
             /\ u[1].n < Len(Iter(r)) => Iter(r)[u[1].n + 1] # u[1].res
  <2>1. Iter(r) \in Seq(Statuses)
    BY IterSeq
  <2>2. Len(u) = 1 \/ Len(u) > 1
    BY <1>1, NonEmpty
  <2>3. Len(Iter(r)) \in Nat
    BY <2>1
  <2>4. 1 \in 1 .. u[1].n
    BY <1>1 DEF FirstRun
  <2> QED BY <1>1, <2>2, <2>3, <2>4 DEF FirstRun
<1>2. Len(Iter(<<>>)) = 0
  BY IterEmpty
<1>3. CASE r = <<>>
  BY <1>1, <1>2, <1>3
<1>4. CASE t = <<>>
  BY <1>1, <1>2, <1>4
<1>5. CASE r # <<>> /\ t # <<>>
  <2>1. PICK o : o = Iter(r)
    OBVIOUS
  <2>2. PICK a \in Nat \ {0}, b \in Nat \ {0}, l \in Nat : a = r[1].n /\ b = t[1].n /\ l = Len(o)
    BY <1>1, <1>5, <2>1
  <2>3. /\ r[1].res = o[1] /\ t[1].res = o[1] /\ a <= l /\ b <= l
        /\ \A j \in 1 .. a : o[j] = o[1]
        /\ \A j \in 1 .. b : o[j] = o[1]
        /\ a < l => o[a + 1] # o[1]
        /\ b < l => o[b + 1] # o[1]
    BY <1>1, <1>5, <2>1, <2>2
  <2>4. a = b
    <3>1. CASE a < b
      <4>1. a + 1 \in 1 .. b /\ a < l
        BY <2>3, <3>1
      <4> QED BY <2>3, <4>1
    <3>2. CASE b < a
      <4>1. b + 1 \in 1 .. a /\ b < l
        BY <2>3, <3>2
      <4> QED BY <2>3, <4>1
    <3> QED BY <3>1, <3>2
  <2> QED BY <1>5, <2>2, <2>3, <2>4
<1> QED BY <1>3, <1>4, <1>5

-----------------------------------------------------------------------------
(* A list that has the values of the members of F, in their order: that of *)
(* the filled cells of a row, or of the columns that a metric measures.    *)
Lists(list, F, Val) ==
    /\ IsSeq(list) /\ IsFiniteSet(F) /\ F \subseteq Nat /\ Len(list) = Cardinality(F)
    /\ \A i \in F : Cardinality(F \cap (0 .. i)) \in DOMAIN list
                   /\ list[Cardinality(F \cap (0 .. i))] = Val[i]

LEMMA ListsNothing ==
    ASSUME NEW Val PROVE Lists(<<>>, {}, Val)
<1>1. <<>> \in Seq({})
  OBVIOUS
<1>2. IsSeq(<<>>)
  BY <1>1 DEF IsSeq
<1> QED BY <1>2, FS_EmptySet DEF Lists

(* A list of more is longer.                                               *)
LEMMA ListsMore ==
    ASSUME NEW list, NEW F, NEW Val, Lists(list, F, Val), NEW k \in Nat, \A i \in F : i < k,
           NEW t, t = list \o <<Val[k]>> \/ t = Append(list, Val[k])
    PROVE  Lists(t, F \cup {k}, Val)
<1> DEFINE G == F \cup {k}
<1>1. IsSeq(list) /\ IsFiniteSet(F) /\ F \subseteq Nat /\ Len(list) = Cardinality(F)
  BY DEF Lists
<1>2. k \notin F
  <2>1. ~(k < k)
    OBVIOUS
  <2> QED BY <2>1
<1>3. Cardinality(F) \in Nat /\ Cardinality(G) = Cardinality(F) + 1 /\ IsFiniteSet(G)
  BY <1>1, <1>2, FS_AddElement, FS_CardinalityType
<1>4. /\ IsSeq(t) /\ Len(t) = Len(list) + 1 /\ t[Len(list) + 1] = Val[k]
      /\ \A i \in 1 .. Len(list) : t[i] = list[i]
  BY <1>1, Longer
<1>5. DOMAIN list = 1 .. Len(list) /\ DOMAIN t = 1 .. Len(list) + 1
  BY <1>1, <1>4, SeqIs
<1>6. ASSUME NEW i \in G
      PROVE  /\ Cardinality(G \cap (0 .. i)) \in DOMAIN t
             /\ t[Cardinality(G \cap (0 .. i))] = Val[i]
  <2>1. CASE i = k
    <3>1. \A j \in G : j \in 0 .. k
      BY <1>1
    <3>2. G \cap (0 .. i) = G
      BY <2>1, <3>1
    <3>3. Cardinality(G) = Len(list) + 1 /\ Len(list) \in Nat
      BY <1>1, <1>3
    <3>4. PICK c \in Nat : c = Cardinality(G) /\ c = Len(list) + 1
      BY <3>3
    <3>5. c \in DOMAIN t /\ t[c] = Val[k]
      BY <1>4, <1>5, <3>3, <3>4
    <3> HIDE DEF G
    <3> QED BY <2>1, <3>2, <3>4, <3>5
  <2>2. CASE i # k
    <3>1. i \in F /\ i < k /\ i \in Nat
      BY <1>1, <2>2
    <3>2. G \cap (0 .. i) = F \cap (0 .. i)
      BY <3>1
    <3>3. /\ Cardinality(F \cap (0 .. i)) \in DOMAIN list
          /\ list[Cardinality(F \cap (0 .. i))] = Val[i]
      BY <3>1 DEF Lists
    <3>4. Cardinality(F \cap (0 .. i)) \in 1 .. Len(list)
      BY <1>5, <3>3
    <3>5. Len(list) \in Nat
      BY <1>1, <1>3
    <3>6. PICK c \in 1 .. Len(list) : c = Cardinality(F \cap (0 .. i))
      BY <3>4
    <3>7. c \in 1 .. Len(list) + 1 /\ t[c] = list[c]
      BY <1>4, <3>5
    <3> HIDE DEF G
    <3> QED BY <1>5, <3>2, <3>3, <3>6, <3>7
  <2> QED BY <2>1, <2>2
<1>7. G \subseteq Nat
  BY <1>1
<1> HIDE DEF G
<1>8. Lists(t, G, Val)
  BY <1>1, <1>3, <1>4, <1>6, <1>7 DEF Lists
<1> QED BY <1>8 DEF G

(* Only the values of the members matter.                                  *)
LEMMA ListsSame ==
    ASSUME NEW list, NEW F, NEW Val, NEW Wal, Lists(list, F, Val), \A i \in F : Val[i] = Wal[i]
    PROVE  Lists(list, F, Wal)
<1> QED BY DEF Lists

-----------------------------------------------------------------------------
(* A metric that has the values of the columns of F, counted from 0.       *)
Block == [start : Nat, len : Nat \ {0}]
BlockOf(b) == b.start .. (b.start + b.len - 1)
MeasuredBy(metric) == UNION { BlockOf(metric.indices[g]) : g \in DOMAIN metric.indices }

MetricIs(metric, F, Val) ==
    /\ metric.indices \in Seq(Block) /\ MeasuredBy(metric) = F
    /\ Lists(metric.values, F, Val)

LEMMA NoMetricIs == ASSUME NEW Val PROVE MetricIs(NoMetric, {}, Val)
<1>1. Lists(<<>>, {}, Val)
  BY ListsNothing
<1>2. NoMetric.indices = <<>> /\ NoMetric.values = <<>>
  BY DEF NoMetric
<1>3. <<>> \in Seq(Block) /\ DOMAIN <<>> = {}
  OBVIOUS
<1> QED BY <1>1, <1>2, <1>3 DEF MetricIs, MeasuredBy

(* appendMetric adds the value of the column k.                            *)
LEMMA AppendMetricIs ==
    ASSUME NEW metric, NEW F, NEW Val, MetricIs(metric, F, Val), NEW k \in Nat, \A i \in F : i < k
    PROVE  MetricIs(appendMetric(metric, k, Val[k]), F \cup {k}, Val)
<1> DEFINE new == appendMetric(metric, k, Val[k])
           ind == metric.indices
<1>1. ind \in Seq(Block) /\ MeasuredBy(metric) = F /\ Lists(metric.values, F, Val)
  BY DEF MetricIs
<1>2. PICK l \in Nat : l = Len(ind) /\ DOMAIN ind = 1 .. l
  BY <1>1
<1>3. new.values = Append(metric.values, Val[k])
  BY DEF appendMetric
<1>4. Lists(new.values, F \cup {k}, Val)
  BY <1>1, <1>3, ListsMore
<1>5. \A g \in 1 .. l : BlockOf(ind[g]) \subseteq F
  BY <1>1, <1>2 DEF MeasuredBy
<1>6. \A i \in F : \E g \in 1 .. l : i \in BlockOf(ind[g])
  BY <1>1, <1>2 DEF MeasuredBy
<1>7. CASE l = 0 \/ ind[l].start + ind[l].len # k
  <2> DEFINE x == [start |-> k, len |-> 1]
  <2>1. new.indices = Append(ind, x)
    BY <1>2, <1>7 DEF appendMetric
  <2>2. x \in Block /\ BlockOf(x) = {k}
    BY DEF Block, BlockOf
  <2> HIDE DEF x
  <2>3. /\ new.indices \in Seq(Block) /\ DOMAIN new.indices = 1 .. l + 1 /\ new.indices[l + 1] = x
        /\ \A g \in 1 .. l : new.indices[g] = ind[g]
    BY <1>1, <1>2, <2>1, <2>2
  <2> HIDE DEF new, ind
  <2>4. MeasuredBy(new) = F \cup {k}
    <3>1. \A g \in 1 .. l + 1 : g = l + 1 \/ g \in 1 .. l
      OBVIOUS
    <3>2. \A g \in 1 .. l : g \in 1 .. l + 1
      OBVIOUS
    <3>3. l + 1 \in 1 .. l + 1
      OBVIOUS
    <3>4. \A i \in MeasuredBy(new) : i \in F \cup {k}
      BY <1>5, <2>2, <2>3, <3>1 DEF MeasuredBy
    <3>5. \A i \in F \cup {k} : i \in MeasuredBy(new)
      <4> TAKE i \in F \cup {k}
      <4>1. \E g \in 1 .. l + 1 : i \in BlockOf(new.indices[g])
        <5>1. CASE i \in F
          BY <1>6, <2>3, <3>2, <5>1
        <5>2. CASE i = k
          BY <2>2, <2>3, <3>3, <5>2
        <5> QED BY <5>1, <5>2
      <4> QED BY <2>3, <4>1 DEF MeasuredBy
    <3> QED BY <3>4, <3>5
  <2> QED BY <1>4, <2>3, <2>4 DEF MetricIs, new
<1>8. CASE ~(l = 0 \/ ind[l].start + ind[l].len # k)
  <2>1. l \in 1 .. l /\ l # 0 /\ ind[l] \in Block /\ ind[l].start + ind[l].len = k
    BY <1>1, <1>2, <1>8
  <2> DEFINE x == [ind[l] EXCEPT !.len = @ + 1]
  <2>2. new.indices = [ind EXCEPT ![l] = x]
    BY <1>2, <1>8 DEF appendMetric
  <2>3. x \in Block /\ x.start = ind[l].start /\ x.len = ind[l].len + 1
    BY <2>1 DEF Block
  <2>4. BlockOf(x) = BlockOf(ind[l]) \cup {k}
    <3>1. ind[l].start \in Nat /\ ind[l].len \in Nat \ {0}
      BY <2>1 DEF Block
    <3> HIDE DEF x
    <3> QED BY <2>1, <2>3, <3>1 DEF BlockOf
  <2> HIDE DEF x
  <2>5. /\ new.indices \in Seq(Block) /\ DOMAIN new.indices = 1 .. l /\ new.indices[l] = x
        /\ \A g \in 1 .. l : g # l => new.indices[g] = ind[g]
    BY <1>1, <1>2, <2>1, <2>2, <2>3
  <2> HIDE DEF new, ind
  <2>6. MeasuredBy(new) = F \cup {k}
    <3>1. \A i \in MeasuredBy(new) : i \in F \cup {k}
      <4> TAKE i \in MeasuredBy(new)
      <4>1. PICK g \in 1 .. l : i \in BlockOf(new.indices[g])
        BY <2>5 DEF MeasuredBy
      <4>2. CASE g = l
        BY <1>5, <2>1, <2>4, <2>5, <4>1, <4>2
      <4>3. CASE g # l
        BY <1>5, <2>5, <4>1, <4>3
      <4> QED BY <4>2, <4>3
    <3>2. \A i \in F \cup {k} : i \in MeasuredBy(new)
      <4> TAKE i \in F \cup {k}
      <4>1. \E g \in 1 .. l : i \in BlockOf(new.indices[g])
        <5>1. CASE i \in F
          <6>1. PICK g \in 1 .. l : i \in BlockOf(ind[g])
            BY <1>6, <5>1
          <6>2. CASE g = l
            BY <2>1, <2>4, <2>5, <6>1, <6>2
          <6>3. CASE g # l
            BY <2>5, <6>1, <6>3
          <6> QED BY <6>2, <6>3
        <5>2. CASE i = k
          BY <2>1, <2>4, <2>5, <5>2
        <5> QED BY <5>1, <5>2
      <4> QED BY <2>5, <4>1 DEF MeasuredBy
    <3> QED BY <3>1, <3>2
  <2> QED BY <1>4, <2>5, <2>6 DEF MetricIs, new
<1> QED BY <1>7, <1>8

(* inflateMetric finds the value of every column that was measured.        *)
LEMMA InflateMetricIs ==
    ASSUME NEW metric, NEW F, NEW Val, MetricIs(metric, F, Val), NEW i
    PROVE  inflateMetric(metric, i) = IF i \in F THEN {Val[i]} ELSE {}
<1>1. MeasuredBy(metric) = F /\ Lists(metric.values, F, Val)
  BY DEF MetricIs
<1>2. inflateMetric(metric, i) = IF i \in MeasuredBy(metric)
                                 THEN {metric.values[Cardinality(MeasuredBy(metric) \cap (0 .. i))]}
                                 ELSE {}
  BY DEF inflateMetric, MeasuredBy, BlockOf
<1>3. i \in F => metric.values[Cardinality(F \cap (0 .. i))] = Val[i]
  BY <1>1 DEF Lists
<1> QED BY <1>1, <1>2, <1>3

-----------------------------------------------------------------------------
(* A row that encodes the first k of the cells V, which are counted from 1.*)
IsFcn(f) == f = [x \in DOMAIN f |-> f[x]]
IsCell(c) == /\ DOMAIN c = {"res", "id", "cellId", "msg", "metrics", "issues"}
             /\ c.res \in Statuses /\ IsFcn(c.metrics)

Filled(V, k) == { j \in 1 .. k : V[j].res # "NO_RESULT" }
MeasuredIn(V, k, m) == { j \in 0 .. (k - 1) : m \in DOMAIN V[j + 1].metrics }
Texts(V) == [j \in DOMAIN V |-> truncate(V[j].msg)]
CellIds(V) == [j \in DOMAIN V |-> V[j].cellId]
Values(V, m) == [j \in { i - 1 : i \in DOMAIN V } |-> V[j + 1].metrics[m]]

RowFields == {"id", "results", "metrics", "cellIds", "messages", "issues", "alert"}

Encodes(name, row, V, k) ==
    /\ DOMAIN row = RowFields /\ row.results \in Seq(Run)
    /\ Len(Iter(row.results)) = k /\ \A j \in 1 .. k : Iter(row.results)[j] = V[j].res
    /\ AllOf(row.results) = { V[j].res : j \in 1 .. k } /\ FirstRun(row.results)
    /\ Lists(row.messages, Filled(V, k), Texts(V))
    /\ IF hasCellID(name) THEN Lists(row.cellIds, Filled(V, k), CellIds(V)) ELSE row.cellIds = <<>>
    /\ \A j \in 1 .. k : DOMAIN V[j].metrics \subseteq DOMAIN row.metrics
    /\ \A m \in DOMAIN row.metrics : MetricIs(row.metrics[m], MeasuredIn(V, k, m), Values(V, m))

AreCells(V, n) == /\ n \in Nat /\ DOMAIN V = 1 .. n
                  /\ \A j \in 1 .. n : IsCell(V[j])

LEMMA EmptyCellIs == IsCell(emptyCell) /\ emptyCell.res = "NO_RESULT" /\ DOMAIN emptyCell.metrics = {}
<1>1. "NO_RESULT" \in Statuses
  <2>1. 1 \in DOMAIN Severity /\ Severity[1] = "NO_RESULT"
    BY DEF Severity
  <2> QED BY <2>1, Zenon DEF Statuses
<1>2. DOMAIN <<>> = {} /\ IsFcn(<<>>)
  BY DEF IsFcn
<1>3. emptyCell.metrics = <<>> /\ emptyCell.res = "NO_RESULT"
  BY DEF emptyCell
<1>4. DOMAIN emptyCell = {"res", "id", "cellId", "msg", "metrics", "issues"}
  BY DEF emptyCell
<1> QED BY <1>1, <1>2, <1>3, <1>4 DEF IsCell

LEMMA FilledMore ==
    ASSUME NEW V, NEW k \in Nat
    PROVE  /\ Filled(V, k + 1) = IF V[k + 1].res = "NO_RESULT" THEN Filled(V, k) ELSE Filled(V, k) \cup {k + 1}
           /\ \A i \in Filled(V, k) : i < k + 1
<1>1. \A j \in 1 .. k + 1 : j = k + 1 \/ j \in 1 .. k
  OBVIOUS
<1>2. \A j \in 1 .. k : j \in 1 .. k + 1 /\ j < k + 1 /\ j # k + 1
  OBVIOUS
<1>3. k + 1 \in 1 .. k + 1
  OBVIOUS
<1>4. Filled(V, k + 1) \subseteq Filled(V, k) \cup {k + 1}
  BY <1>1 DEF Filled
<1>5. Filled(V, k) \subseteq Filled(V, k + 1)
  BY <1>2 DEF Filled
<1>6. k + 1 \in Filled(V, k + 1) <=> V[k + 1].res # "NO_RESULT"
  BY <1>3 DEF Filled
<1>7. k + 1 \notin Filled(V, k)
  BY <1>2 DEF Filled
<1>8. \A i \in Filled(V, k) : i < k + 1
  BY <1>2 DEF Filled
<1>9. CASE V[k + 1].res = "NO_RESULT"
  BY <1>4, <1>5, <1>6, <1>8, <1>9
<1>10. CASE V[k + 1].res # "NO_RESULT"
  BY <1>4, <1>5, <1>6, <1>8, <1>10
<1> QED BY <1>9, <1>10

LEMMA MeasuredMore ==
    ASSUME NEW V, NEW k \in Nat, NEW m
    PROVE  /\ MeasuredIn(V, k + 1, m) = IF m \in DOMAIN V[k + 1].metrics THEN MeasuredIn(V, k, m) \cup {k}
                                        ELSE MeasuredIn(V, k, m)
           /\ \A i \in MeasuredIn(V, k, m) : i < k
<1>1. (k + 1) - 1 = k /\ k \in 0 .. k
  OBVIOUS
<1>2. \A j \in 0 .. k : j = k \/ j \in 0 .. (k - 1)
  OBVIOUS
<1>3. \A j \in 0 .. (k - 1) : j \in 0 .. k /\ j < k /\ j # k
  OBVIOUS
<1>4. MeasuredIn(V, k + 1, m) \subseteq MeasuredIn(V, k, m) \cup {k}
  BY <1>1, <1>2 DEF MeasuredIn
<1>5. MeasuredIn(V, k, m) \subseteq MeasuredIn(V, k + 1, m)
  BY <1>1, <1>3 DEF MeasuredIn
<1>6. k \in MeasuredIn(V, k + 1, m) <=> m \in DOMAIN V[k + 1].metrics
  BY <1>1 DEF MeasuredIn
<1>7. \A i \in MeasuredIn(V, k, m) : i < k
  BY <1>3 DEF MeasuredIn
<1>8. k \notin MeasuredIn(V, k, m)
  BY <1>3 DEF MeasuredIn
<1> QED BY <1>4, <1>5, <1>6, <1>7, <1>8

(* A loop over one value takes one step.                                   *)
LEMMA MeasureOne ==
    ASSUME NEW old, NEW start \in Nat, NEW value
    PROVE  Measuring!Fold(old, [i \in 1 .. 1 |-> [idx |-> start + i - 1, value |-> value]])
             = appendMetric(old, start, value)
<1> DEFINE t == [i \in 1 .. 1 |-> [idx |-> start + i - 1, value |-> value]]
<1>1. PICK n \in Nat : n = 0
  OBVIOUS
<1>7. PICK z : z = <<>>
  OBVIOUS
<1>2. Len(t) = n + 1 /\ Len(z) = n /\ \A i \in 1 .. n : t[i] = z[i]
  BY <1>1, <1>7
<1>3. t[n + 1].idx = start /\ t[n + 1].value = value
  <2>1. n + 1 \in 1 .. 1 /\ start + (n + 1) - 1 = start
    BY <1>1
  <2> QED BY <2>1
<1> HIDE DEF t
<1>4. Measures!Fold(old, t) = AddValue(Measures!Fold(old, z), t[n + 1])
  BY <1>2, Measures!FoldAppend
<1>6. Measures!Fold(old, z) = old
  BY <1>1, <1>2, Measures!FoldEmpty
<1>5. Measuring!Fold(old, t) = AddValue(old, t[n + 1])
  BY <1>4, <1>6 DEF Measuring!Fold, Measures!Fold
<1> QED BY <1>3, <1>5 DEF t, AddValue

(* appendCell encodes one cell more.                                       *)
LEMMA AppendCellIs ==
    ASSUME NEW name, NEW row, NEW V, NEW n, AreCells(V, n), NEW k \in Nat, k + 1 <= n,
           Encodes(name, row, V, k)
    PROVE  Encodes(name, appendCell(name, row, V[k + 1], k, 1), V, k + 1)
<1>1. PICK c, new : c = V[k + 1] /\ new = appendCell(name, row, c, k, 1)
  OBVIOUS
<1>2. IsCell(c) /\ k + 1 \in DOMAIN V /\ c.res \in Statuses
  BY <1>1 DEF AreCells, IsCell
<1>3. /\ DOMAIN new = RowFields /\ new.results = appendResult(row.results, c.res, 1)
      /\ DOMAIN new.metrics = DOMAIN row.metrics \cup DOMAIN c.metrics
  BY <1>1 DEF appendCell, RowFields
<1>4. /\ row.results \in Seq(Run)
      /\ Len(Iter(row.results)) = k /\ \A j \in 1 .. k : Iter(row.results)[j] = V[j].res
      /\ AllOf(row.results) = { V[j].res : j \in 1 .. k } /\ FirstRun(row.results)
  BY DEF Encodes
<1>5. /\ new.results \in Seq(Run) /\ AllOf(new.results) = AllOf(row.results) \cup {c.res}
      /\ Len(Iter(new.results)) = k + 1
      /\ \A i \in 1 .. k : Iter(new.results)[i] = Iter(row.results)[i]
      /\ Iter(new.results)[k + 1] = c.res /\ FirstRun(new.results)
  <2>1. PICK one \in Nat \ {0} : one = 1 /\ 1 \in 1 .. one
    OBVIOUS
  <2>2. PICK r, res, t : r = row.results /\ res = c.res /\ t = new.results
    OBVIOUS
  <2>3. r \in Seq(Run) /\ res \in Statuses /\ t = appendResult(r, res, one) /\ Len(Iter(r)) = k
    BY <1>2, <1>3, <1>4, <2>1, <2>2
  <2>4. /\ t \in Seq(Run) /\ AllOf(t) = AllOf(r) \cup {res}
        /\ Lengthens(Iter(t), Iter(r), one, res)
    BY <2>1, <2>3, AppendResultIs
  <2>5. FirstRun(t)
    BY <1>4, <2>1, <2>2, <2>3, FirstRunKept
  <2> QED BY <2>1, <2>2, <2>3, <2>4, <2>5 DEF Lengthens
<1>6. \A j \in 1 .. k + 1 : j = k + 1 \/ j \in 1 .. k
  OBVIOUS
<1>7. (\A j \in 1 .. k : j \in 1 .. k + 1) /\ k + 1 \in 1 .. k + 1
  OBVIOUS
<1>8. \A j \in 1 .. k + 1 : Iter(new.results)[j] = V[j].res
  BY <1>1, <1>4, <1>5, <1>6
<1>9. AllOf(new.results) = { V[j].res : j \in 1 .. k + 1 }
  <2>1. \A x : x \in AllOf(new.results) <=> (x = c.res \/ \E j \in 1 .. k : x = V[j].res)
    BY <1>4, <1>5
  <2>2. \A x : (x = c.res \/ \E j \in 1 .. k : x = V[j].res) <=> \E j \in 1 .. k + 1 : x = V[j].res
    BY <1>1, <1>6, <1>7
  <2> QED BY <2>1, <2>2
<1>10. ASSUME NEW list, NEW Val, NEW old, NEW value, DOMAIN Val = DOMAIN V, Val[k + 1] = value,
              Lists(old, Filled(V, k), Val),
              list = IF c.res = "NO_RESULT" THEN old ELSE old \o [i \in 1 .. 1 |-> value]
       PROVE  Lists(list, Filled(V, k + 1), Val)
  <2>1. [i \in 1 .. 1 |-> value] = <<value>>
    OBVIOUS
  <2>2. CASE c.res = "NO_RESULT"
    BY <1>1, <1>10, <2>2, FilledMore
  <2>3. CASE c.res # "NO_RESULT"
    <3>1. Filled(V, k + 1) = Filled(V, k) \cup {k + 1} /\ \A i \in Filled(V, k) : i < k + 1
      BY <1>1, <2>3, FilledMore
    <3>2. list = old \o <<Val[k + 1]>>
      BY <1>10, <2>1, <2>3
    <3>3. PICK j \in Nat : j = k + 1
      OBVIOUS
    <3>4. PICK G : G = Filled(V, k)
      OBVIOUS
    <3>5. Lists(old, G, Val) /\ (\A i \in G : i < j) /\ list = old \o <<Val[j]>>
      BY <1>10, <3>1, <3>2, <3>3, <3>4
    <3>6. Lists(list, G \cup {j}, Val)
      BY <3>5, ListsMore
    <3> QED BY <3>1, <3>3, <3>4, <3>6
  <2> QED BY <2>2, <2>3
<1>11. Lists(new.messages, Filled(V, k + 1), Texts(V))
  <2>1. new.messages = IF c.res = "NO_RESULT" THEN row.messages
                       ELSE row.messages \o [i \in 1 .. 1 |-> truncate(c.msg)]
    BY <1>1 DEF appendCell
  <2>2. DOMAIN Texts(V) = DOMAIN V /\ Texts(V)[k + 1] = truncate(c.msg)
    BY <1>1, <1>2 DEF Texts
  <2>3. Lists(row.messages, Filled(V, k), Texts(V))
    BY DEF Encodes
  <2> QED BY <1>10, <2>1, <2>2, <2>3
<1>12. IF hasCellID(name) THEN Lists(new.cellIds, Filled(V, k + 1), CellIds(V)) ELSE new.cellIds = <<>>
  <2>1. CASE hasCellID(name)
    <3>1. new.cellIds = IF c.res = "NO_RESULT" THEN row.cellIds
                        ELSE row.cellIds \o [i \in 1 .. 1 |-> c.cellId]
      BY <1>1, <2>1 DEF appendCell
    <3>2. DOMAIN CellIds(V) = DOMAIN V /\ CellIds(V)[k + 1] = c.cellId
      BY <1>1, <1>2 DEF CellIds
    <3>3. Lists(row.cellIds, Filled(V, k), CellIds(V))
      BY <2>1 DEF Encodes
    <3> QED BY <1>10, <2>1, <3>1, <3>2, <3>3
  <2>2. CASE ~hasCellID(name)
    BY <1>1, <2>2 DEF appendCell, Encodes
  <2> QED BY <2>1, <2>2
<1>13. \A j \in 1 .. k + 1 : DOMAIN V[j].metrics \subseteq DOMAIN new.metrics
  <2>1. \A j \in 1 .. k : DOMAIN V[j].metrics \subseteq DOMAIN row.metrics
    BY DEF Encodes
  <2> QED BY <1>1, <1>3, <1>6, <2>1
<1>14. ASSUME NEW m \in DOMAIN new.metrics
       PROVE  MetricIs(new.metrics[m], MeasuredIn(V, k + 1, m), Values(V, m))
  <2> DEFINE old == IF m \in DOMAIN row.metrics THEN row.metrics[m] ELSE NoMetric
             F == MeasuredIn(V, k, m)
             Val == Values(V, m)
  <2>1. MetricIs(old, F, Val)
    <3>1. CASE m \in DOMAIN row.metrics
      BY <3>1 DEF Encodes
    <3>2. CASE m \notin DOMAIN row.metrics
      <4>1. \A j \in 0 .. (k - 1) : j + 1 \in 1 .. k
        OBVIOUS
      <4>2. F = {}
        BY <3>2, <4>1 DEF Encodes, MeasuredIn
      <4> QED BY <3>2, <4>2, NoMetricIs
    <3> QED BY <3>1, <3>2
  <2>2. new.metrics[m] = IF m \notin DOMAIN c.metrics THEN old
                         ELSE Measuring!Fold(old, [i \in 1 .. 1 |-> [idx |-> k + i - 1, value |-> c.metrics[m]]])
    BY <1>1, <1>3 DEF appendCell
  <2>3. Val[k] = c.metrics[m]
    <3>1. k \in { i - 1 : i \in DOMAIN V }
      <4>1. k = (k + 1) - 1
        OBVIOUS
      <4> QED BY <1>2, <4>1
    <3> QED BY <1>1, <3>1 DEF Values
  <2> HIDE DEF old, Val
  <2>4. CASE m \notin DOMAIN c.metrics
    BY <1>1, <2>1, <2>2, <2>4, MeasuredMore DEF Val
  <2>5. CASE m \in DOMAIN c.metrics
    <3>1. new.metrics[m] = appendMetric(old, k, Val[k])
      BY <2>2, <2>3, <2>5, MeasureOne
    <3>2. MeasuredIn(V, k + 1, m) = F \cup {k} /\ \A i \in F : i < k
      BY <1>1, <2>5, MeasuredMore
    <3> QED BY <2>1, <3>1, <3>2, AppendMetricIs DEF Val
  <2> QED BY <2>4, <2>5
<1> HIDE DEF RowFields
<1> QED BY <1>1, <1>3, <1>5, <1>8, <1>9, <1>11, <1>12, <1>13, <1>14 DEF Encodes

(* A new row is padded with empty cells.                                   *)
LEMMA NewRowIs ==
    ASSUME NEW name, NEW cell, NEW V, NEW n, AreCells(V, n), NEW k \in Nat, k <= n,
           \A j \in 1 .. k : V[j] = emptyCell
    PROVE  Encodes(name, newRow(name, cell, k), V, k)
<1> DEFINE row == [id |-> IF cell.id = "" THEN name ELSE cell.id, results |-> <<>>,
                   metrics |-> <<>>, cellIds |-> <<>>, messages |-> <<>>,
                   issues |-> {}, alert |-> NoAlert]
<1>1. PICK new : new = newRow(name, cell, k)
  OBVIOUS
<1>2. emptyCell.res = "NO_RESULT" /\ DOMAIN emptyCell.metrics = {} /\ emptyCell.res \in Statuses
  BY EmptyCellIs DEF IsCell
<1>3. /\ DOMAIN row = RowFields /\ row.results = <<>> /\ row.metrics = <<>>
      /\ row.cellIds = <<>> /\ row.messages = <<>>
  BY DEF RowFields
<1>4. new = IF k > 0 THEN appendCell(name, row, emptyCell, 0, k) ELSE row
  BY <1>1 DEF newRow
<1> HIDE DEF row
<1>5. <<>> \in Seq(Run) /\ AllOf(<<>>) = {} /\ DOMAIN <<>> = {} /\ Len(<<>>) = 0
  BY DEF AllOf
<1>6. /\ DOMAIN new = RowFields /\ DOMAIN new.metrics = {}
      /\ new.cellIds = <<>> /\ new.messages = <<>>
      /\ new.results = IF k > 0 THEN appendResult(<<>>, "NO_RESULT", k) ELSE <<>>
  <2>1. CASE k > 0
    <3>1. new = appendCell(name, row, emptyCell, 0, k)
      BY <1>4, <2>1
    <3> QED BY <1>2, <1>3, <1>5, <2>1, <3>1 DEF appendCell, RowFields
  <2>2. CASE ~(k > 0)
    BY <1>3, <1>4, <1>5, <2>2
  <2> QED BY <2>1, <2>2
<1>7. /\ new.results \in Seq(Run) /\ AllOf(new.results) = { V[j].res : j \in 1 .. k }
      /\ Len(Iter(new.results)) = k /\ \A j \in 1 .. k : Iter(new.results)[j] = V[j].res
      /\ FirstRun(new.results)
  <2>1. CASE k > 0
    <3>1. PICK e : e = <<>>
      OBVIOUS
    <3>2. e \in Seq(Run) /\ k \in Nat \ {0} /\ "NO_RESULT" \in Statuses /\ Len(Iter(e)) = 0
      BY <1>2, <1>5, <2>1, <3>1, IterEmpty
    <3>3. PICK t : t = appendResult(e, "NO_RESULT", k)
      OBVIOUS
    <3>4. /\ t \in Seq(Run) /\ AllOf(t) = AllOf(e) \cup {"NO_RESULT"}
          /\ Lengthens(Iter(t), Iter(e), k, "NO_RESULT")
      BY <3>2, <3>3, AppendResultIs
    <3>5. Len(Iter(t)) = k /\ \A i \in 1 .. k : Iter(t)[i] = "NO_RESULT"
      BY <3>2, <3>4 DEF Lengthens
    <3>6. { V[j].res : j \in 1 .. k } = {"NO_RESULT"}
      <4>1. 1 \in 1 .. k
        BY <2>1
      <4> QED BY <1>2, <4>1
    <3>7. FirstRun(t)
      <4>1. FirstRun(e)
        BY <3>1 DEF FirstRun
      <4> QED BY <3>2, <3>3, <4>1, FirstRunKept
    <3> QED BY <1>2, <1>5, <1>6, <2>1, <3>1, <3>3, <3>4, <3>5, <3>6, <3>7
  <2>2. CASE ~(k > 0)
    <3>1. k = 0 /\ 1 .. k = {}
      BY <2>2
    <3>2. FirstRun(<<>>)
      BY DEF FirstRun
    <3> QED BY <1>5, <1>6, <3>1, <3>2, IterEmpty
  <2> QED BY <2>1, <2>2
<1>8. Filled(V, k) = {}
  BY <1>2 DEF Filled
<1>9. Lists(<<>>, {}, Texts(V)) /\ Lists(<<>>, {}, CellIds(V))
  BY ListsNothing
<1>10. \A j \in 1 .. k : DOMAIN V[j].metrics \subseteq DOMAIN new.metrics
  BY <1>2, <1>6
<1> HIDE DEF RowFields
<1> QED BY <1>1, <1>6, <1>7, <1>8, <1>9, <1>10 DEF Encodes

(* What is decoded of a cell.                                              *)
ShownCell(name, row, c) ==
    [res |-> c.res, id |-> row.id,
     cellId |-> IF c.res # "NO_RESULT" /\ hasCellID(name) THEN c.cellId ELSE "",
     msg |-> IF c.res # "NO_RESULT" THEN truncate(c.msg) ELSE NoMessage,
     metrics |-> c.metrics, issues |-> {}]

(* The p-th entries of a row's lists belong to the cell c.                 *)
ListedFor(name, row, c, p) ==
    /\ row.messages[p] = truncate(c.msg) /\ p \in DOMAIN row.messages
    /\ hasCellID(name) => row.cellIds[p] = c.cellId /\ p \in DOMAIN row.cellIds

(* The filled cells up to one are counted alike in the row and in V.       *)
LEMMA FilledIndex ==
    ASSUME NEW name, NEW row, NEW V, NEW n, AreCells(V, n), NEW k \in Nat, k <= n,
           Encodes(name, row, V, k), NEW i \in 1 .. k, NEW out, out = Iter(row.results),
           NEW p, p = FilledIdx(out, i)
    PROVE  out[i] = V[i].res /\ (V[i].res # "NO_RESULT" => ListedFor(name, row, V[i], p))
<1>1. \A j \in 1 .. k : out[j] = V[j].res
  BY DEF Encodes
<1>2. \A j \in 1 .. i : j \in 1 .. k /\ j \in 0 .. i
  OBVIOUS
<1>3. \A j \in 1 .. k : j \in 0 .. i => j \in 1 .. i
  OBVIOUS
<1>4. { j \in 1 .. i : out[j] # "NO_RESULT" } = Filled(V, k) \cap (0 .. i)
  BY <1>1, <1>2, <1>3 DEF Filled
<1>5. ASSUME V[i].res # "NO_RESULT"
      PROVE ListedFor(name, row, V[i], p)
  <2>1. p = Cardinality(Filled(V, k) \cap (0 .. i))
    BY <1>4 DEF FilledIdx
  <2>2. i \in Filled(V, k)
    BY <1>5 DEF Filled
  <2>3. i \in DOMAIN V
    BY DEF AreCells
  <2>4. p \in DOMAIN row.messages /\ row.messages[p] = Texts(V)[i]
    BY <2>1, <2>2 DEF Encodes, Lists
  <2>5. hasCellID(name) => p \in DOMAIN row.cellIds /\ row.cellIds[p] = CellIds(V)[i]
    BY <2>1, <2>2 DEF Encodes, Lists
  <2>6. Texts(V)[i] = truncate(V[i].msg) /\ CellIds(V)[i] = V[i].cellId
    BY <2>3 DEF Texts, CellIds
  <2> QED BY <2>4, <2>5, <2>6 DEF ListedFor, hasCellID
<1> QED BY <1>1, <1>5

LEMMA InflateRowIs ==
    ASSUME NEW name, NEW row, NEW V, NEW n, AreCells(V, n), NEW k \in Nat, k <= n,
           Encodes(name, row, V, k), NEW i \in 1 .. k
    PROVE  inflateRow(name, row, i) = ShownCell(name, row, V[i])
<1> DEFINE out == Iter(row.results)
           p == Cardinality({ j \in 1 .. i : out[j] # "NO_RESULT" })
           measured == { m \in DOMAIN row.metrics : inflateMetric(row.metrics[m], i - 1) # {} }
           metrics == [m \in measured |-> CHOOSE v \in inflateMetric(row.metrics[m], i - 1) : TRUE]
<1>1. /\ out[i] = V[i].res
      /\ V[i].res # "NO_RESULT" =>
           /\ row.messages[p] = truncate(V[i].msg)
           /\ hasCellID(name) => row.cellIds[p] = V[i].cellId
  <2>1. PICK o, q : o = Iter(row.results) /\ q = FilledIdx(o, i)
    OBVIOUS
  <2>2. o[i] = V[i].res /\ (V[i].res # "NO_RESULT" => ListedFor(name, row, V[i], q))
    BY <2>1, FilledIndex
  <2>3. o = out /\ q = p
    BY <2>1 DEF FilledIdx
  <2> HIDE DEF out, p
  <2> QED BY <2>2, <2>3 DEF ListedFor, hasCellID
<1>2. metrics = V[i].metrics
  <2>1. i \in 1 .. n /\ i - 1 \in 0 .. (k - 1) /\ (i - 1) + 1 = i /\ i \in DOMAIN V
    BY DEF AreCells
  <2>2. ASSUME NEW m \in DOMAIN row.metrics
        PROVE  inflateMetric(row.metrics[m], i - 1)
                 = IF m \in DOMAIN V[i].metrics THEN {V[i].metrics[m]} ELSE {}
    <3>1. PICK F, Val, h : F = MeasuredIn(V, k, m) /\ Val = Values(V, m) /\ h = i - 1
      OBVIOUS
    <3>2. MetricIs(row.metrics[m], F, Val)
      BY <3>1 DEF Encodes
    <3>3. inflateMetric(row.metrics[m], h) = IF h \in F THEN {Val[h]} ELSE {}
      BY <3>2, InflateMetricIs
    <3>4. h \in F <=> m \in DOMAIN V[i].metrics
      BY <2>1, <3>1 DEF MeasuredIn
    <3>5. Val[h] = V[i].metrics[m]
      BY <2>1, <3>1 DEF Values
    <3> QED BY <3>1, <3>3, <3>4, <3>5
  <2>3. DOMAIN V[i].metrics \subseteq DOMAIN row.metrics
    BY DEF Encodes
  <2>4. measured = DOMAIN V[i].metrics
    BY <2>2, <2>3
  <2>5. \A m \in measured : (CHOOSE v \in inflateMetric(row.metrics[m], i - 1) : TRUE) = V[i].metrics[m]
    <3> TAKE m \in measured
    <3>1. inflateMetric(row.metrics[m], i - 1) = {V[i].metrics[m]}
      BY <2>2, <2>3, <2>4
    <3> QED BY <3>1
  <2>6. IsFcn(V[i].metrics)
    BY <2>1 DEF AreCells, IsCell
  <2> HIDE DEF measured
  <2>7. metrics = [m \in measured |-> V[i].metrics[m]]
    BY <2>5
  <2> HIDE DEF metrics
  <2> QED BY <2>4, <2>6, <2>7 DEF IsFcn
<1>3. inflateRow(name, row, i)
        = [res |-> out[i], id |-> row.id,
           cellId |-> IF out[i] # "NO_RESULT" /\ hasCellID(name) THEN row.cellIds[p] ELSE "",
           msg |-> IF out[i] # "NO_RESULT" THEN row.messages[p] ELSE NoMessage,
           metrics |-> metrics, issues |-> {}]
  BY Zenon DEF inflateRow, inflateResults
<1> HIDE DEF out, p, measured, metrics
<1>4. (IF out[i] # "NO_RESULT" /\ hasCellID(name) THEN row.cellIds[p] ELSE "")
        = (IF V[i].res # "NO_RESULT" /\ hasCellID(name) THEN V[i].cellId ELSE "")
  BY <1>1 DEF hasCellID
<1>5. (IF out[i] # "NO_RESULT" THEN row.messages[p] ELSE NoMessage)
        = (IF V[i].res # "NO_RESULT" THEN truncate(V[i].msg) ELSE NoMessage)
  BY <1>1 DEF hasCellID
<1> QED BY <1>1, <1>2, <1>3, <1>4, <1>5, Zenon DEF ShownCell

(* Cells that cannot be told apart in the row of a grid.                   *)
SameCell(name, c, d) ==
    /\ c.res = d.res /\ c.metrics = d.metrics
    /\ c.res # "NO_RESULT" =>
         /\ truncate(c.msg) = truncate(d.msg)
         /\ hasCellID(name) => c.cellId = d.cellId

LEMMA EncodesSame ==
    ASSUME NEW name, NEW row, NEW V, NEW W, NEW n, AreCells(V, n), AreCells(W, n), NEW k \in Nat, k <= n,
           \A j \in 1 .. k : SameCell(name, V[j], W[j]), Encodes(name, row, V, k)
    PROVE  Encodes(name, row, W, k)
<1>1. \A j \in 1 .. k : V[j].res = W[j].res /\ V[j].metrics = W[j].metrics
  BY DEF SameCell
<1>2. \A j \in 1 .. k : j \in DOMAIN V /\ j \in DOMAIN W
  BY DEF AreCells
<1>3. Filled(V, k) = Filled(W, k)
  BY <1>1 DEF Filled
<1>4. \A i \in Filled(V, k) : Texts(V)[i] = Texts(W)[i]
  <2> TAKE i \in Filled(V, k)
  <2>1. i \in 1 .. k /\ V[i].res # "NO_RESULT"
    BY DEF Filled
  <2>2. Texts(V)[i] = truncate(V[i].msg) /\ Texts(W)[i] = truncate(W[i].msg)
    BY <1>2, <2>1 DEF Texts
  <2> QED BY <2>1, <2>2 DEF SameCell, hasCellID
<1>5. ASSUME hasCellID(name) PROVE \A i \in Filled(V, k) : CellIds(V)[i] = CellIds(W)[i]
  <2> TAKE i \in Filled(V, k)
  <2>1. i \in 1 .. k /\ V[i].res # "NO_RESULT"
    BY DEF Filled
  <2>2. CellIds(V)[i] = V[i].cellId /\ CellIds(W)[i] = W[i].cellId
    BY <1>2, <2>1 DEF CellIds
  <2> QED BY <1>5, <2>1, <2>2 DEF SameCell, hasCellID
<1>6. Lists(row.messages, Filled(W, k), Texts(W))
  BY <1>3, <1>4, ListsSame DEF Encodes
<1>7. IF hasCellID(name) THEN Lists(row.cellIds, Filled(W, k), CellIds(W)) ELSE row.cellIds = <<>>
  BY <1>3, <1>5, ListsSame DEF Encodes
<1>8. ASSUME NEW m \in DOMAIN row.metrics
      PROVE  MetricIs(row.metrics[m], MeasuredIn(W, k, m), Values(W, m))
  <2>1. MetricIs(row.metrics[m], MeasuredIn(V, k, m), Values(V, m))
    BY DEF Encodes
  <2>2. \A j \in 0 .. (k - 1) : j + 1 \in 1 .. k /\ (j + 1) - 1 = j
    OBVIOUS
  <2>3. MeasuredIn(V, k, m) = MeasuredIn(W, k, m)
    BY <1>1, <2>2 DEF MeasuredIn
  <2>4. \A i \in MeasuredIn(V, k, m) : Values(V, m)[i] = Values(W, m)[i]
    <3> TAKE i \in MeasuredIn(V, k, m)
    <3>1. i \in 0 .. (k - 1)
      BY DEF MeasuredIn
    <3>2. i + 1 \in DOMAIN V /\ i + 1 \in DOMAIN W /\ (i + 1) - 1 = i /\ V[i + 1].metrics = W[i + 1].metrics
      BY <1>1, <1>2, <2>2, <3>1
    <3> QED BY <3>2 DEF Values
  <2> QED BY <2>1, <2>3, <2>4, ListsSame DEF MetricIs
<1>9. { V[j].res : j \in 1 .. k } = { W[j].res : j \in 1 .. k }
  BY <1>1
<1> QED BY <1>1, <1>6, <1>7, <1>8, <1>9 DEF Encodes

-----------------------------------------------------------------------------
(* Columns, their cells by name, and what a row has in them.               *)
CellOf(cols, i, n) == IF n \in DOMAIN cols[i].cells THEN cols[i].cells[n] ELSE emptyCell
RowOf(cols, n) == [i \in DOMAIN cols |-> CellOf(cols, i, n)]

IsColumn(c) == DOMAIN c = {"col", "cells"} /\ \A n \in DOMAIN c.cells : IsCell(c.cells[n])
AreColumns(cols) ==
    /\ Len(cols) \in Nat /\ cols = [i \in 1 .. Len(cols) |-> cols[i]]
    /\ \A i \in 1 .. Len(cols) : IsColumn(cols[i])

LEMMA RowOfIs ==
    ASSUME NEW cols, AreColumns(cols), NEW n
    PROVE  AreCells(RowOf(cols, n), Len(cols))
<1>1. DOMAIN cols = 1 .. Len(cols)
  BY DEF AreColumns
<1>2. \A i \in 1 .. Len(cols) : IsCell(CellOf(cols, i, n))
  BY EmptyCellIs DEF AreColumns, IsColumn, CellOf
<1> QED BY <1>1, <1>2 DEF AreCells, RowOf, AreColumns

(* A grid of the first k columns.                                          *)
Encoded(whole, cols, k) ==
    /\ DOMAIN whole = {"columns", "rows"} /\ whole.columns = [i \in 1 .. k |-> cols[i].col]
    /\ DOMAIN whole.rows = UNION { DOMAIN cols[i].cells : i \in 1 .. k }
    /\ \A n \in DOMAIN whole.rows : Encodes(n, whole.rows[n], RowOf(cols, n), k)

LEMMA AppendColumnIs ==
    ASSUME NEW cols, AreColumns(cols), NEW k \in Nat, k + 1 <= Len(cols), NEW whole, Encoded(whole, cols, k)
    PROVE  Encoded(AppendColumn(whole, cols[k + 1]), cols, k + 1)
<1>1. PICK new, c : new = AppendColumn(whole, cols[k + 1]) /\ c = cols[k + 1]
  OBVIOUS
<1> DEFINE names == DOMAIN whole.rows \cup DOMAIN c.cells
           Old(n) == IF n \in DOMAIN whole.rows THEN whole.rows[n] ELSE newRow(n, c.cells[n], k)
           Cell(n) == IF n \in DOMAIN c.cells THEN c.cells[n] ELSE emptyCell
<1>2. Len(whole.columns) = k /\ whole.columns = [i \in 1 .. k |-> cols[i].col]
  BY DEF Encoded
<1>3. new = [columns |-> Append(whole.columns, c.col),
             rows |-> [n \in names |-> appendCell(n, Old(n), Cell(n), k, 1)]]
  BY <1>1, <1>2 DEF AppendColumn
<1>4. DOMAIN cols = 1 .. Len(cols) /\ k + 1 \in 1 .. Len(cols) /\ Len(cols) \in Nat /\ k <= Len(cols)
  BY DEF AreColumns
<1>5. \A i \in 1 .. k + 1 : i = k + 1 \/ i \in 1 .. k
  OBVIOUS
<1>6. new.columns = [i \in 1 .. k + 1 |-> cols[i].col]
  <2>1. PICK s, t, z : s = whole.columns /\ t = Append(s, z) /\ z = c.col
    OBVIOUS
  <2>2. PICK X : X = { cols[i].col : i \in 1 .. k + 1 }
    OBVIOUS
  <2>3. \A i \in 1 .. k : cols[i].col \in X
    BY <2>2
  <2>4. s \in Seq(X) /\ z \in X /\ Len(s) = k
    BY <1>1, <1>2, <2>1, <2>2, <2>3
  <2>5. t = [i \in 1 .. k + 1 |-> t[i]] /\ t[k + 1] = z /\ \A i \in 1 .. k : t[i] = s[i]
    BY <2>1, <2>4
  <2>6. \A i \in 1 .. k + 1 : t[i] = cols[i].col
    BY <1>1, <1>2, <1>5, <2>1, <2>5
  <2> QED BY <1>3, <2>1, <2>5, <2>6
<1>7. DOMAIN new.rows = UNION { DOMAIN cols[i].cells : i \in 1 .. k + 1 }
  <2>1. DOMAIN new.rows = names
    BY <1>3
  <2>2. DOMAIN whole.rows = UNION { DOMAIN cols[i].cells : i \in 1 .. k }
    BY DEF Encoded
  <2>3. \A i \in 1 .. k : i \in 1 .. k + 1
    OBVIOUS
  <2>4. k + 1 \in 1 .. k + 1
    OBVIOUS
  <2> QED BY <1>1, <1>5, <2>1, <2>2, <2>3, <2>4
<1>8. ASSUME NEW n \in DOMAIN new.rows
      PROVE  Encodes(n, new.rows[n], RowOf(cols, n), k + 1)
  <2>1. PICK V : V = RowOf(cols, n)
    OBVIOUS
  <2>2. AreCells(V, Len(cols)) /\ V[k + 1] = Cell(n)
    BY <1>1, <1>4, <2>1, RowOfIs DEF RowOf, CellOf
  <2>3. Encodes(n, Old(n), V, k)
    <3>1. CASE n \in DOMAIN whole.rows
      BY <2>1, <3>1 DEF Encoded
    <3>2. CASE n \notin DOMAIN whole.rows
      <4>1. DOMAIN whole.rows = UNION { DOMAIN cols[i].cells : i \in 1 .. k }
        BY DEF Encoded
      <4>2. \A i \in 1 .. k : n \notin DOMAIN cols[i].cells
        BY <3>2, <4>1
      <4>3. \A i \in 1 .. k : V[i] = emptyCell
        BY <1>4, <2>1, <4>2 DEF RowOf, CellOf
      <4> QED BY <1>4, <2>2, <3>2, <4>3, NewRowIs
    <3> QED BY <3>1, <3>2
  <2>4. new.rows[n] = appendCell(n, Old(n), V[k + 1], k, 1)
    BY <1>3, <2>2
  <2> HIDE DEF Old, Cell
  <2> QED BY <1>4, <2>1, <2>2, <2>3, <2>4, AppendCellIs
<1>9. DOMAIN new = {"columns", "rows"}
  BY <1>3
<1> QED BY <1>1, <1>6, <1>7, <1>8, <1>9 DEF Encoded

LEMMA AppendedIs ==
    ASSUME NEW cols, AreColumns(cols)
    PROVE  Encoded(Appending!Fold([columns |-> <<>>, rows |-> <<>>], cols), cols, Len(cols))
<1> DEFINE base == [columns |-> <<>>, rows |-> <<>>]
<1>1. Len(cols) \in Nat
  BY DEF AreColumns
<1>2. PICK f : /\ f = [i \in 0 .. Len(cols) |-> IF i = 0 THEN base ELSE AppendColumn(f[i - 1], cols[i])]
               /\ Appends!Fold(base, cols) = f[Len(cols)]
  BY <1>1, Appends!FoldDefined
<1> DEFINE S == { k \in Nat : k <= Len(cols) => Encoded(f[k], cols, k) }
<1>3. 0 \in S
  <2>1. f[0] = base
    BY <1>1, <1>2
  <2>2. 1 .. 0 = {} /\ DOMAIN <<>> = {} /\ <<>> = [i \in 1 .. 0 |-> cols[i].col]
    OBVIOUS
  <2>3. Encoded(base, cols, 0)
    BY <2>2 DEF Encoded
  <2> HIDE DEF base
  <2> QED BY <2>1, <2>3
<1> HIDE DEF base
<1>4. ASSUME NEW k \in Nat, k \in S PROVE k + 1 \in S
  <2> SUFFICES ASSUME k + 1 <= Len(cols) PROVE Encoded(f[k + 1], cols, k + 1)
    OBVIOUS
  <2>1. k + 1 \in 0 .. Len(cols) /\ k + 1 # 0 /\ (k + 1) - 1 = k /\ k <= Len(cols)
    BY <1>1
  <2>2. f[k + 1] = AppendColumn(f[k], cols[k + 1])
    BY <1>2, <2>1
  <2>3. Encoded(f[k], cols, k)
    BY <1>4, <2>1
  <2> QED BY <2>2, <2>3, AppendColumnIs
<1>5. Len(cols) \in S
  <2> HIDE DEF S
  <2> QED BY <1>1, <1>3, <1>4, Joins!NatInductionOnSets
<1>6. Encoded(f[Len(cols)], cols, Len(cols))
  BY <1>1, <1>5
<1>7. Appending!Fold(base, cols) = Appends!Fold(base, cols)
  BY DEF Appending!Fold, Appends!Fold
<1> QED BY <1>2, <1>6, <1>7 DEF base

(* The names of the rows that have a result.                               *)
Names(cols) == { n \in UNION { DOMAIN cols[i].cells : i \in 1 .. Len(cols) } :
                   \E i \in 1 .. Len(cols) : CellOf(cols, i, n).res # "NO_RESULT" }

(* A finished grid: rows without a result are dropped, the others have     *)
(* their alert.                                                            *)
Passes(alerting) == IF alerting.failuresToAlert > 0 /\ alerting.passesToDisableAlert = 0 THEN 1
                    ELSE alerting.passesToDisableAlert
AlertOf(whole, n, alerting) ==
    alertRow(whole.columns, whole.rows[n], alerting.failuresToAlert,
              Passes(alerting), alerting.useCommitAsBuildID)

IsGrid(whole, cols, alerting) ==
    /\ DOMAIN whole = {"columns", "rows"}
    /\ whole.columns = [i \in 1 .. Len(cols) |-> cols[i].col]
    /\ DOMAIN whole.rows = Names(cols)
    /\ \A n \in DOMAIN whole.rows : /\ Encodes(n, whole.rows[n], RowOf(cols, n), Len(cols))
                                   /\ whole.rows[n].alert = AlertOf(whole, n, alerting)

Finished(row, issues, alert) == [row EXCEPT !.issues = @ \cup issues, !.alert = alert]

(* The issues and the alert of a row say nothing of its cells.             *)
LEMMA EncodesWithout ==
    ASSUME NEW name, NEW row, NEW V, NEW k, Encodes(name, row, V, k), NEW issues, NEW alert,
           NEW new, new = Finished(row, issues, alert)
    PROVE  /\ Encodes(name, new, V, k) /\ new.alert = alert
           /\ new.results = row.results /\ new.cellIds = row.cellIds /\ new.messages = row.messages
<1>1. DOMAIN row = RowFields
  BY DEF Encodes
<1>2. /\ DOMAIN new = RowFields /\ new.alert = alert
      /\ new.results = row.results /\ new.cellIds = row.cellIds /\ new.messages = row.messages
      /\ new.metrics = row.metrics
  BY <1>1 DEF RowFields, Finished
<1> QED BY <1>2 DEF Encodes

LEMMA AlertSame ==
    ASSUME NEW columns, NEW row, NEW new, NEW fails, NEW passes, NEW commit,
           new.results = row.results, new.cellIds = row.cellIds, new.messages = row.messages
    PROVE  alertRow(columns, new, fails, passes, commit) = alertRow(columns, row, fails, passes, commit)
<1> QED BY DEF alertRow, alertInfo

LEMMA ConstructIs ==
    ASSUME NEW cols, AreColumns(cols), NEW issues, NEW alerting
    PROVE  IsGrid(ConstructGrid(cols, issues, alerting, 0), cols, alerting)
<1> DEFINE g == Appending!Fold([columns |-> <<>>, rows |-> <<>>], cols)
           empty == { n \in DOMAIN g.rows : \A i \in DOMAIN g.rows[n].results :
                                              g.rows[n].results[i].res = "NO_RESULT" }
           whole == dropEmptyRows(g)
           Issue(n) == IF n \in DOMAIN issues THEN issues[n] ELSE {}
           Alert(n) == alertRow(whole.columns, whole.rows[n], alerting.failuresToAlert, Passes(alerting),
                                alerting.useCommitAsBuildID)
           new == ConstructGrid(cols, issues, alerting, 0)
<1>1. Encoded(g, cols, Len(cols))
  BY AppendedIs
<1>2. Len(cols) \in Nat /\ DOMAIN cols = 1 .. Len(cols)
  BY DEF AreColumns
<1>3. [i \in DOMAIN cols |-> cols[i]] = cols
  BY <1>2 DEF AreColumns
<1>4. /\ DOMAIN whole = {"columns", "rows"} /\ whole.columns = g.columns
      /\ DOMAIN whole.rows = DOMAIN g.rows \ empty
      /\ \A n \in DOMAIN whole.rows : whole.rows[n] = g.rows[n]
  <2>1. DOMAIN g = {"columns", "rows"}
    BY <1>1 DEF Encoded
  <2> HIDE DEF g
  <2> QED BY <2>1 DEF dropEmptyRows, Without, Restrict
<1> HIDE DEF g, empty, whole
<1>5. DOMAIN g.rows \ empty = Names(cols)
  <2>1. DOMAIN g.rows = UNION { DOMAIN cols[i].cells : i \in 1 .. Len(cols) }
    BY <1>1 DEF Encoded
  <2>2. ASSUME NEW n \in DOMAIN g.rows
        PROVE  n \in empty <=> ~(\E i \in 1 .. Len(cols) : CellOf(cols, i, n).res # "NO_RESULT")
    <3>1. Encodes(n, g.rows[n], RowOf(cols, n), Len(cols))
      BY <1>1 DEF Encoded
    <3>2. AllOf(g.rows[n].results) = { RowOf(cols, n)[j].res : j \in 1 .. Len(cols) }
      BY <3>1 DEF Encodes
    <3>3. \A j \in 1 .. Len(cols) : RowOf(cols, n)[j] = CellOf(cols, j, n)
      BY <1>2 DEF RowOf
    <3>4. n \in empty <=> \A x \in AllOf(g.rows[n].results) : x = "NO_RESULT"
      BY DEF empty, AllOf
    <3> QED BY <3>2, <3>3, <3>4
  <2> QED BY <2>1, <2>2 DEF Names
<1>6. new = [columns |-> whole.columns,
             rows |-> [n \in DOMAIN whole.rows |-> Finished(whole.rows[n], Issue(n), Alert(n))]]
  <2>1. [i \in DOMAIN cols |-> IF 0 = 0 THEN cols[i]
                               ELSE [cols[i] EXCEPT !.col.stats = columnStats(cols[i].cells, 0)]] = cols
    BY <1>3
  <2> DEFINE h == [i \in DOMAIN cols |-> IF 0 = 0 THEN cols[i]
                          ELSE [cols[i] EXCEPT !.col.stats = columnStats(cols[i].cells, 0)]]
             G == dropEmptyRows(Appending!Fold([columns |-> <<>>, rows |-> <<>>], h))
             A(n) == alertRow(G.columns, G.rows[n], alerting.failuresToAlert, Passes(alerting),
                              alerting.useCommitAsBuildID)
  <2>2. new = [columns |-> G.columns,
               rows |-> [n \in DOMAIN G.rows |->
                           [G.rows[n] EXCEPT !.issues = @ \cup Issue(n), !.alert = A(n)]]]
    BY Zenon DEF ConstructGrid, Passes
  <2>3. G = whole
    BY <2>1 DEF g, whole
  <2> HIDE DEF G
  <2> QED BY <2>2, <2>3 DEF Finished
<1> HIDE DEF Alert, Issue, new
<1>7. /\ DOMAIN new = {"columns", "rows"} /\ new.columns = whole.columns
      /\ DOMAIN new.rows = DOMAIN whole.rows
      /\ \A n \in DOMAIN new.rows : new.rows[n] = Finished(whole.rows[n], Issue(n), Alert(n))
  <2>1. DOMAIN whole = {"columns", "rows"}
    BY <1>4
  <2> QED BY <1>6, <2>1
<1>8. ASSUME NEW n \in DOMAIN new.rows
      PROVE  /\ Encodes(n, new.rows[n], RowOf(cols, n), Len(cols))
             /\ new.rows[n].alert = AlertOf(new, n, alerting)
  <2>1. PICK old, t, V, k : /\ old = whole.rows[n] /\ t = new.rows[n] /\ V = RowOf(cols, n) /\ k = Len(cols)
    OBVIOUS
  <2>2. Encodes(n, old, V, k)
    BY <1>1, <1>4, <1>7, <2>1 DEF Encoded
  <2>3. PICK is, al : is = Issue(n) /\ al = Alert(n)
    OBVIOUS
  <2>4. t = Finished(old, is, al)
    BY <1>7, <2>1, <2>3
  <2>5. /\ Encodes(n, t, V, k) /\ t.alert = al
        /\ t.results = old.results /\ t.cellIds = old.cellIds /\ t.messages = old.messages
    BY <2>2, <2>4, EncodesWithout
  <2>6. AlertOf(new, n, alerting) = Alert(n)
    BY <1>7, <2>1, <2>5, AlertSame DEF AlertOf, Alert
  <2> QED BY <2>1, <2>3, <2>5, <2>6
<1> QED BY <1>1, <1>4, <1>5, <1>7, <1>8 DEF IsGrid, Encoded, new

-----------------------------------------------------------------------------
(* Sequences of columns.                                                   *)
LEMMA IndexedSeq ==
    ASSUME NEW s, Len(s) \in Nat, s = [i \in 1 .. Len(s) |-> s[i]]
    PROVE  IsSeq(s)
<1>1. PICK n \in Nat : n = Len(s)
  OBVIOUS
<1> DEFINE Y == { s[i] : i \in 1 .. n }
<1>2. \A i \in 1 .. n : s[i] \in Y
  OBVIOUS
<1>3. s = [i \in 1 .. n |-> s[i]]
  BY <1>1
<1> HIDE DEF Y
<1>4. s \in Seq(Y)
  BY <1>2, <1>3
<1> QED BY <1>4 DEF IsSeq

LEMMA SeqForm ==
    ASSUME NEW s, IsSeq(s)
    PROVE  Len(s) \in Nat /\ s = [i \in 1 .. Len(s) |-> s[i]]
<1> QED BY DEF IsSeq

LEMMA FirstOf ==
    ASSUME NEW s, IsSeq(s), NEW l \in 0 .. Len(s), NEW t, t = SubSeq(s, 1, l)
    PROVE  IsSeq(t) /\ Len(t) = l /\ \A i \in 1 .. l : t[i] = s[i]
<1> QED BY DEF IsSeq

(* The columns of Write: the new one before the last ones.                 *)
Joint(t, x, s, kept) ==
    /\ IsSeq(t) /\ Len(t) = kept + 1 /\ t[1] = x
    /\ \A i \in 1 .. kept : t[i + 1] = s[Len(s) - kept + i]

LEMMA JointIs ==
    ASSUME NEW s, IsSeq(s), NEW kept \in 0 .. Len(s), NEW x,
           NEW t, t = <<x>> \o SubSeq(s, Len(s) - kept + 1, Len(s))
    PROVE  Joint(t, x, s, kept)
<1>1. PICK X : s \in Seq(X)
  BY DEF IsSeq
<1>2. PICK n \in Nat, k \in Nat : n = Len(s) /\ k = kept /\ k <= n
  BY <1>1
<1> DEFINE Y == X \cup {x}
<1>3. s \in Seq(Y)
  <2>1. \A i \in 1 .. n : s[i] \in Y
    BY <1>1, <1>2
  <2>2. s = [i \in 1 .. n |-> s[i]]
    BY <1>1, <1>2
  <2> HIDE DEF Y
  <2> QED BY <2>1, <2>2
<1>4. x \in Y
  OBVIOUS
<1> HIDE DEF Y
<1>5. PICK u, v : u = <<x>> /\ v = SubSeq(s, n - k + 1, n)
  OBVIOUS
<1>6. u \in Seq(Y) /\ Len(u) = 1 /\ u[1] = x
  BY <1>4, <1>5
<1>7. v \in Seq(Y) /\ Len(v) = k /\ \A i \in 1 .. k : v[i] = s[n - k + i]
  BY <1>2, <1>3, <1>5
<1>8. t = u \o v
  BY <1>2, <1>5
<1>9. t \in Seq(Y) /\ IsJoin(t, u, v)
  BY <1>6, <1>7, <1>8, Joined
<1>10. Len(t) = k + 1 /\ t[1] = x /\ \A i \in 1 .. k : t[i + 1] = v[i]
  <2>1. /\ Len(t) = 1 + k /\ (\A i \in 1 .. 1 : t[i] = u[i])
        /\ \A i \in 1 .. k : t[1 + i] = v[i]
    BY <1>6, <1>7, <1>9 DEF IsJoin
  <2>2. 1 + k = k + 1 /\ (\A i \in 1 .. k : 1 + i = i + 1) /\ 1 \in 1 .. 1
    OBVIOUS
  <2> QED BY <1>6, <2>1, <2>2
<1> QED BY <1>2, <1>7, <1>9, <1>10 DEF Joint, IsSeq

(* Columns that cannot be told apart in a grid.                            *)
Same(cols, truths) ==
    /\ Len(cols) = Len(truths)
    /\ \A i \in 1 .. Len(truths) :
         /\ cols[i].col = truths[i].col
         /\ \A n : SameCell(n, CellOf(cols, i, n), CellOf(truths, i, n))

(* A column as it was read or as the truncation of the grid left it.       *)
Readable(c) == /\ IsCell(c) /\ "text" \in DOMAIN c.msg
               /\ c.res = "NO_RESULT" => c.metrics = <<>>
Recorded(c) ==
    /\ DOMAIN c = {"col", "cells"} /\ DOMAIN c.cells \subseteq AllRows
    /\ c.col.started = c.col.build /\ c.col.build # 0
    /\ \A n \in DOMAIN c.cells : Readable(c.cells[n])
Falling(cols, most) ==
    /\ \A i \in 1 .. Len(cols) : /\ cols[i].col.build \in Nat /\ cols[i].col.build <= most
                                 /\ cols[i].col.extra = <<cols[i].col.build>>
    /\ \A i, j \in 1 .. Len(cols) : i < j => cols[j].col.build < cols[i].col.build
IsTruth(cols, most) ==
    /\ IsSeq(cols) /\ (\A i \in 1 .. Len(cols) : Recorded(cols[i]))
    /\ Falling(cols, most)

LEMMA TruthColumns ==
    ASSUME NEW cols, NEW most, IsTruth(cols, most)
    PROVE  AreColumns(cols) /\ Len(cols) \in Nat
<1> QED BY SeqForm DEF IsTruth, Recorded, Readable, AreColumns, IsColumn

(* A decoded grid cannot be told from the columns that it has.             *)
LEMMA InflateIs ==
    ASSUME NEW cols, NEW most, IsTruth(cols, most), NEW alerting, NEW whole, IsGrid(whole, cols, alerting)
    PROVE  AreColumns(Inflate(whole)) /\ Same(Inflate(whole), cols)
<1>1. PICK k, new : k = Len(cols) /\ new = Inflate(whole)
                  /\ AreColumns(cols) /\ DOMAIN cols = 1 .. k /\ k \in Nat
  BY TruthColumns DEF AreColumns
<1>2. DOMAIN whole.columns = 1 .. k /\ \A i \in 1 .. k : whole.columns[i] = cols[i].col
  BY <1>1 DEF IsGrid
<1>3. \A n \in DOMAIN whole.rows : Len(inflateResults(whole.rows[n].results)) = k
  BY <1>1 DEF IsGrid, Encodes, inflateResults
<1>4. ASSUME NEW i \in 1 .. k
      PROVE  /\ new[i].col = cols[i].col /\ DOMAIN new[i].cells = DOMAIN whole.rows
             /\ \A n \in DOMAIN whole.rows : new[i].cells[n] = ShownCell(n, whole.rows[n], CellOf(cols, i, n))
  <2>1. new[i] = [col |-> whole.columns[i],
                  cells |-> [n \in { n \in DOMAIN whole.rows : i <= Len(inflateResults(whole.rows[n].results)) } |->
                               inflateRow(n, whole.rows[n], i)]]
    BY <1>1, <1>2 DEF Inflate, InflateColumn
  <2>2. { n \in DOMAIN whole.rows : i <= Len(inflateResults(whole.rows[n].results)) } = DOMAIN whole.rows
    BY <1>3
  <2>3. ASSUME NEW n \in DOMAIN whole.rows
        PROVE  inflateRow(n, whole.rows[n], i) = ShownCell(n, whole.rows[n], CellOf(cols, i, n))
    <3>1. PICK V, row : V = RowOf(cols, n) /\ row = whole.rows[n]
      OBVIOUS
    <3>2. AreCells(V, k) /\ Encodes(n, row, V, k) /\ V[i] = CellOf(cols, i, n)
      BY <1>1, <3>1, RowOfIs DEF IsGrid, RowOf
    <3>3. k \in Nat /\ k <= k
      BY <1>1
    <3>4. inflateRow(n, row, i) = ShownCell(n, row, V[i])
      BY <3>2, <3>3, InflateRowIs
    <3> QED BY <3>1, <3>2, <3>4
  <2> QED BY <1>2, <2>1, <2>2, <2>3
<1>5. \A i \in 1 .. k : \A n : IsCell(CellOf(cols, i, n))
  BY <1>1, EmptyCellIs DEF AreColumns, IsColumn, CellOf
<1>6. DOMAIN new = 1 .. k /\ new = [i \in 1 .. k |-> new[i]] /\ Len(new) = k
  <2>1. new = [i \in 1 .. k |-> InflateColumn(whole, i)]
    BY <1>1, <1>2 DEF Inflate
  <2> QED BY <1>1, <2>1
<1>7. ASSUME NEW i \in 1 .. k PROVE IsColumn(new[i])
  <2>6. DOMAIN new[i] = {"col", "cells"}
    BY <1>1, <1>2, <1>6 DEF Inflate, InflateColumn
  <2> SUFFICES ASSUME NEW n \in DOMAIN new[i].cells PROVE IsCell(new[i].cells[n])
    BY <2>6 DEF IsColumn
  <2>1. PICK c : c = CellOf(cols, i, n) /\ IsCell(c)
    BY <1>5
  <2>2. new[i].cells[n] = ShownCell(n, whole.rows[n], c)
    BY <1>4, <2>1
  <2>3. c.res \in Statuses /\ IsFcn(c.metrics)
    BY <2>1 DEF IsCell
  <2>4. PICK d : d = ShownCell(n, whole.rows[n], c)
    OBVIOUS
  <2>5. /\ DOMAIN d = {"res", "id", "cellId", "msg", "metrics", "issues"}
        /\ d.res = c.res /\ d.metrics = c.metrics
    BY <2>4 DEF ShownCell
  <2> QED BY <2>2, <2>3, <2>4, <2>5 DEF IsCell
<1>8. ASSUME NEW i \in 1 .. k, NEW n
      PROVE  SameCell(n, CellOf(new, i, n), CellOf(cols, i, n))
  <2>1. PICK c : c = CellOf(cols, i, n)
    OBVIOUS
  <2>2. CASE n \in DOMAIN whole.rows
    <3>1. CellOf(new, i, n) = ShownCell(n, whole.rows[n], c)
      BY <1>4, <2>1, <2>2 DEF CellOf
    <3>2. truncate(truncate(c.msg)) = truncate(c.msg)
      BY DEF truncate
    <3>3. PICK d : d = ShownCell(n, whole.rows[n], c)
      OBVIOUS
    <3>4. /\ d.res = c.res /\ d.metrics = c.metrics
          /\ c.res # "NO_RESULT" => d.msg = truncate(c.msg)
          /\ c.res # "NO_RESULT" /\ hasCellID(n) => d.cellId = c.cellId
      BY <3>3 DEF ShownCell
    <3>5. SameCell(n, d, c)
      BY <3>2, <3>4 DEF SameCell, hasCellID
    <3> QED BY <2>1, <3>1, <3>3, <3>5
  <2>3. CASE n \notin DOMAIN whole.rows
    <3>1. CellOf(new, i, n) = emptyCell
      BY <1>4, <2>3 DEF CellOf
    <3>2. c.res = "NO_RESULT"
      <4>1. n \notin Names(cols)
        BY <2>3 DEF IsGrid
      <4>2. n \in DOMAIN cols[i].cells => c.res = "NO_RESULT"
        BY <1>1, <2>1, <4>1 DEF Names
      <4>3. n \notin DOMAIN cols[i].cells => c = emptyCell
        BY <2>1 DEF CellOf
      <4> QED BY <4>2, <4>3, EmptyCellIs
    <3>3. c.metrics = <<>> /\ emptyCell.metrics = <<>> /\ emptyCell.res = "NO_RESULT"
      <4>1. emptyCell.metrics = <<>>
        BY DEF emptyCell
      <4> QED BY <1>1, <2>1, <3>2, <4>1, EmptyCellIs DEF IsTruth, Recorded, Readable, CellOf
    <3> QED BY <2>1, <3>1, <3>2, <3>3 DEF SameCell
  <2> QED BY <2>2, <2>3
<1> QED BY <1>1, <1>4, <1>6, <1>7, <1>8 DEF AreColumns, Same

LEMMA NamesAre ==
    ASSUME NEW cols, NEW n
    PROVE  n \in Names(cols) <=> \E i \in 1 .. Len(cols) : CellOf(cols, i, n).res # "NO_RESULT"
<1> DEFINE all == UNION { DOMAIN cols[i].cells : i \in 1 .. Len(cols) }
<1>1. \A i \in 1 .. Len(cols) : CellOf(cols, i, n).res # "NO_RESULT" => n \in DOMAIN cols[i].cells
  BY EmptyCellIs DEF CellOf
<1>2. \A i \in 1 .. Len(cols) : n \in DOMAIN cols[i].cells => n \in all
  OBVIOUS
<1>3. n \in Names(cols) <=> n \in all /\ \E i \in 1 .. Len(cols) : CellOf(cols, i, n).res # "NO_RESULT"
  BY Zenon DEF Names
<1> HIDE DEF all
<1> QED BY <1>1, <1>2, <1>3

(* A grid of columns is one of those that they cannot be told from.        *)
LEMMA GridSame ==
    ASSUME NEW cols, AreColumns(cols), NEW truths, AreColumns(truths), Same(cols, truths),
           NEW alerting, NEW whole, IsGrid(whole, cols, alerting)
    PROVE  IsGrid(whole, truths, alerting)
<1>1. PICK k : k \in Nat /\ k = Len(cols) /\ k = Len(truths) /\ DOMAIN cols = 1 .. k /\ DOMAIN truths = 1 .. k
  BY DEF AreColumns, Same
<1>2. \A i \in 1 .. k : \A n : SameCell(n, CellOf(cols, i, n), CellOf(truths, i, n))
  BY <1>1 DEF Same
<1>3. Names(cols) = Names(truths)
  <2>1. \A i \in 1 .. k : \A n : CellOf(cols, i, n).res = CellOf(truths, i, n).res
    BY <1>2 DEF SameCell
  <2>3. \A n : n \in Names(cols) <=> \E i \in 1 .. k : CellOf(cols, i, n).res # "NO_RESULT"
    BY <1>1, NamesAre
  <2>4. \A n : n \in Names(truths) <=> \E i \in 1 .. k : CellOf(truths, i, n).res # "NO_RESULT"
    BY <1>1, NamesAre
  <2>5. \A n : n \in Names(cols) <=> n \in Names(truths)
    BY <2>1, <2>3, <2>4
  <2> QED BY <2>5
<1>4. ASSUME NEW n \in DOMAIN whole.rows
      PROVE  Encodes(n, whole.rows[n], RowOf(truths, n), k)
  <2>1. PICK V, W : V = RowOf(cols, n) /\ W = RowOf(truths, n)
    OBVIOUS
  <2>2. AreCells(V, k) /\ AreCells(W, k)
    BY <1>1, <2>1, RowOfIs
  <2>3. \A j \in 1 .. k : SameCell(n, V[j], W[j])
    BY <1>1, <1>2, <2>1 DEF RowOf
  <2>4. Encodes(n, whole.rows[n], V, k)
    BY <1>1, <2>1 DEF IsGrid
  <2>5. k \in Nat /\ k <= k
    BY <1>1
  <2> QED BY <2>1, <2>2, <2>3, <2>4, <2>5, EncodesSame
<1>5. whole.columns = [i \in 1 .. k |-> truths[i].col]
  BY <1>1 DEF IsGrid, Same
<1> QED BY <1>1, <1>3, <1>4, <1>5 DEF IsGrid

(* A row of the last column after its truncation.                          *)
Cut(c) == IF c.res = "NO_RESULT" THEN c ELSE [c EXCEPT !.res = "UNKNOWN", !.msg = Exceeds]

LEMMA StatusNames == "UNKNOWN" \in Statuses /\ "NO_RESULT" \in Statuses
<1>1. 8 \in DOMAIN Severity /\ Severity[8] = "UNKNOWN" /\ 1 \in DOMAIN Severity /\ Severity[1] = "NO_RESULT"
  BY DEF Severity
<1> QED BY <1>1, Zenon DEF Statuses

LEMMA CutIs ==
    ASSUME NEW c, IsCell(c)
    PROVE  /\ IsCell(Cut(c)) /\ (Cut(c).res = "NO_RESULT" <=> c.res = "NO_RESULT")
           /\ Cut(c).metrics = c.metrics
<1>1. CASE c.res = "NO_RESULT"
  BY <1>1 DEF Cut
<1>2. CASE c.res # "NO_RESULT"
  <2>1. PICK d : d = Cut(c)
    OBVIOUS
  <2>2. DOMAIN d = DOMAIN c /\ d.res = "UNKNOWN" /\ d.metrics = c.metrics
    BY <1>2, <2>1 DEF Cut, IsCell
  <2> QED BY <1>2, <2>1, <2>2, StatusNames DEF IsCell
<1> QED BY <1>1, <1>2

LEMMA CutSame ==
    ASSUME NEW n, NEW c, NEW d, IsCell(c), IsCell(d), SameCell(n, c, d)
    PROVE  SameCell(n, Cut(c), Cut(d))
<1>1. c.res = d.res /\ c.metrics = d.metrics
  BY DEF SameCell
<1>2. CASE c.res = "NO_RESULT"
  BY <1>1, <1>2 DEF Cut
<1>3. CASE c.res # "NO_RESULT"
  <2>1. PICK x, y : x = Cut(c) /\ y = Cut(d)
    OBVIOUS
  <2>2. /\ x.res = "UNKNOWN" /\ x.metrics = c.metrics /\ x.msg = Exceeds /\ x.cellId = c.cellId
        /\ y.res = "UNKNOWN" /\ y.metrics = d.metrics /\ y.msg = Exceeds /\ y.cellId = d.cellId
    BY <1>1, <1>3, <2>1 DEF Cut, IsCell
  <2> QED BY <1>1, <1>3, <2>1, <2>2 DEF SameCell, hasCellID
<1> QED BY <1>2, <1>3

(* What truncateLastColumn makes of columns.                               *)
CutLast(new, cols) ==
    /\ IsSeq(new) /\ Len(new) = Len(cols)
    /\ \A i \in 1 .. Len(cols) :
         /\ new[i].col = cols[i].col /\ DOMAIN new[i] = DOMAIN cols[i]
         /\ DOMAIN new[i].cells \subseteq DOMAIN cols[i].cells
         /\ i < Len(cols) => new[i] = cols[i]
         /\ \A n : i = Len(cols) =>
              CellOf(new, i, n) = IF n = TruncatedRow THEN emptyCell ELSE Cut(CellOf(cols, i, n))

LEMMA CutLastIs ==
    ASSUME NEW cols, IsSeq(cols), Len(cols) # 0,
           \A i \in 1 .. Len(cols) : {"col", "cells"} = DOMAIN cols[i],
           NEW new, new = truncateLastColumn(cols)
    PROVE  CutLast(new, cols)
<1>1. PICK k : k \in Nat /\ k = Len(cols) /\ k \in 1 .. k
             /\ DOMAIN cols = 1 .. k /\ cols = [i \in 1 .. k |-> cols[i]]
  BY SeqForm
<1> DEFINE cells == [n \in DOMAIN cols[k].cells \ {TruncatedRow} |-> Cut(cols[k].cells[n])]
           last == [cols[k] EXCEPT !.cells = cells]
<1>2. cols # <<>>
  BY <1>1
<1>3. new = [cols EXCEPT ![k] = last]
  BY <1>1, <1>2 DEF truncateLastColumn, Cut
<1>4. last.col = cols[k].col /\ last.cells = cells /\ DOMAIN last = DOMAIN cols[k]
  BY <1>1
<1> HIDE DEF last
<1>5. /\ DOMAIN new = 1 .. k /\ new[k] = last /\ new = [i \in 1 .. k |-> new[i]]
      /\ \A i \in 1 .. k : i # k => new[i] = cols[i]
  BY <1>1, <1>3
<1>6. Len(new) = k
  BY <1>1, <1>5
<1>7. IsSeq(new)
  BY <1>1, <1>5, <1>6, IndexedSeq
<1>8. ASSUME NEW n PROVE CellOf(new, k, n) = IF n = TruncatedRow THEN emptyCell ELSE Cut(CellOf(cols, k, n))
  <2>1. Cut(emptyCell) = emptyCell
    BY EmptyCellIs DEF Cut
  <2> QED BY <1>4, <1>5, <2>1 DEF CellOf
<1>9. ASSUME NEW i \in 1 .. k
      PROVE  /\ new[i].col = cols[i].col /\ DOMAIN new[i] = DOMAIN cols[i]
             /\ DOMAIN new[i].cells \subseteq DOMAIN cols[i].cells
             /\ i < k => new[i] = cols[i]
  <2>1. CASE i = k
    BY <1>4, <1>5, <2>1
  <2>2. CASE i # k
    BY <1>5, <2>2
  <2> QED BY <2>1, <2>2
<1> QED BY <1>1, <1>6, <1>7, <1>8, <1>9 DEF CutLast

LEMMA CutLastSame ==
    ASSUME NEW cols, AreColumns(cols), NEW truths, AreColumns(truths), Same(cols, truths),
           NEW a, CutLast(a, cols), NEW b, CutLast(b, truths)
    PROVE  AreColumns(a) /\ Same(a, b)
<1>1. PICK k : k \in Nat /\ k = Len(cols) /\ k = Len(truths) /\ k = Len(a) /\ k = Len(b)
  BY DEF AreColumns, Same, CutLast
<1>2. \A i \in 1 .. k : \A n : IsCell(CellOf(cols, i, n)) /\ IsCell(CellOf(truths, i, n))
  BY <1>1, EmptyCellIs DEF AreColumns, IsColumn, CellOf
<1>3. \A i \in 1 .. k : \A n : SameCell(n, CellOf(cols, i, n), CellOf(truths, i, n))
  BY <1>1 DEF Same
<1>4. ASSUME NEW i \in 1 .. k, NEW n
      PROVE  IsCell(CellOf(a, i, n)) /\ SameCell(n, CellOf(a, i, n), CellOf(b, i, n))
  <2>1. CASE i < k
    <3>1. CellOf(a, i, n) = CellOf(cols, i, n) /\ CellOf(b, i, n) = CellOf(truths, i, n)
      BY <1>1, <2>1 DEF CutLast, CellOf
    <3> QED BY <1>2, <1>3, <3>1
  <2>2. CASE i = k /\ n = TruncatedRow
    <3>1. CellOf(a, i, n) = emptyCell /\ CellOf(b, i, n) = emptyCell
      BY <1>1, <2>2 DEF CutLast
    <3> QED BY <3>1, EmptyCellIs DEF SameCell
  <2>3. CASE i = k /\ n # TruncatedRow
    <3>1. CellOf(a, i, n) = Cut(CellOf(cols, i, n)) /\ CellOf(b, i, n) = Cut(CellOf(truths, i, n))
      BY <1>1, <2>3 DEF CutLast
    <3> QED BY <1>2, <1>3, <3>1, CutIs, CutSame
  <2> QED BY <1>1, <2>1, <2>2, <2>3
<1>5. \A i \in 1 .. k : IsColumn(a[i])
  <2>1. \A i \in 1 .. k : DOMAIN a[i] = {"col", "cells"}
    BY <1>1 DEF CutLast, AreColumns, IsColumn
  <2> QED BY <1>4, <2>1 DEF IsColumn, CellOf
<1>6. a = [i \in 1 .. k |-> a[i]]
  BY <1>1, SeqForm DEF CutLast
<1>7. \A i \in 1 .. k : a[i].col = b[i].col
  BY <1>1 DEF CutLast, Same
<1> QED BY <1>1, <1>4, <1>5, <1>6, <1>7 DEF AreColumns, Same

LEMMA EmptyReadable == Readable(emptyCell)
<1>1. emptyCell.metrics = <<>> /\ "text" \in DOMAIN emptyCell.msg
  BY DEF emptyCell, NoMessage
<1> QED BY <1>1, EmptyCellIs DEF Readable

LEMMA CutReadable ==
    ASSUME NEW c, Readable(c) PROVE Readable(Cut(c))
<1>1. IsCell(c) /\ "text" \in DOMAIN c.msg
  BY DEF Readable
<1>2. CASE c.res = "NO_RESULT"
  BY <1>2 DEF Cut
<1>3. CASE c.res # "NO_RESULT"
  <2>1. PICK d : d = Cut(c) /\ d = [c EXCEPT !.res = "UNKNOWN", !.msg = Exceeds]
    BY <1>3 DEF Cut
  <2>2. "text" \in DOMAIN d.msg
    BY <1>1, <2>1 DEF Exceeds, IsCell
  <2>3. IsCell(d) /\ d.res # "NO_RESULT"
    BY <1>1, <1>3, <2>1, CutIs
  <2> QED BY <2>1, <2>2, <2>3 DEF Readable
<1> QED BY <1>2, <1>3

LEMMA CutLastTruth ==
    ASSUME NEW truths, NEW most, IsTruth(truths, most), NEW b, CutLast(b, truths)
    PROVE  IsTruth(b, most)
<1>1. PICK k : k \in Nat /\ k = Len(truths) /\ k = Len(b)
  BY TruthColumns DEF CutLast
<1>2. ASSUME NEW i \in 1 .. k PROVE Recorded(b[i])
  <2>1. CASE i < k
    BY <1>1, <2>1 DEF CutLast, IsTruth
  <2>2. CASE i = k
    <3>1. Recorded(truths[i])
      BY <1>1 DEF IsTruth
    <3>2. /\ DOMAIN b[i] = {"col", "cells"} /\ DOMAIN b[i].cells \subseteq AllRows
          /\ b[i].col.started = b[i].col.build /\ b[i].col.build # 0
      BY <1>1, <3>1 DEF CutLast, Recorded
    <3>3. ASSUME NEW n \in DOMAIN b[i].cells PROVE Readable(b[i].cells[n])
      <4>1. PICK c : c = CellOf(truths, i, n)
        OBVIOUS
      <4>2. n \in DOMAIN truths[i].cells
        BY <1>1, <3>3 DEF CutLast
      <4>3. Readable(c)
        BY <3>1, <4>1, <4>2 DEF Recorded, CellOf
      <4>4. b[i].cells[n] = CellOf(b, i, n)
        BY DEF CellOf
      <4>5. b[i].cells[n] = emptyCell \/ b[i].cells[n] = Cut(c)
        BY <1>1, <2>2, <4>1, <4>4 DEF CutLast
      <4> QED BY <4>3, <4>5, CutReadable, EmptyReadable
    <3> QED BY <3>2, <3>3 DEF Recorded
  <2> QED BY <1>1, <2>1, <2>2
<1>3. Falling(b, most)
  <2>1. \A i \in 1 .. k : b[i].col = truths[i].col
    BY <1>1 DEF CutLast
  <2> QED BY <1>1, <2>1 DEF IsTruth, Falling
<1> QED BY <1>1, <1>2, <1>3 DEF IsTruth, CutLast

-----------------------------------------------------------------------------
(* A cycle of the updater: its columns.                                    *)
LEMMA TruncateGridIs ==
    ASSUME NEW cols, IsSeq(cols), Len(cols) # 0, NEW ceiling, NEW t, t = truncateGrid(cols, ceiling)
    PROVE  \E l \in 1 .. Len(cols) : t = SubSeq(cols, 1, l) /\ Len(t) = l
<1>1. PICK k : k \in Nat /\ k = Len(cols) /\ k \in 1 .. k /\ DOMAIN cols = 1 .. k
  BY SeqForm
<1> DEFINE Cells(i) == SumFunction([j \in 1 .. i |-> Cardinality(DOMAIN cols[j].cells)])
           over == { i \in DOMAIN cols : i > 2 /\ Cells(i) > ceiling }
<1>2. t = IF over = {} THEN cols ELSE SubSeq(cols, 1, Min(over) - 1)
  BY Zenon DEF truncateGrid
<1>3. over \in SUBSET Int /\ \A i \in over : i > 2 /\ i \in 1 .. k /\ i >= 0
  BY <1>1
<1> HIDE DEF over
<1>4. CASE over = {}
  <2>1. t = SubSeq(cols, 1, k)
    <3>1. \A X : cols \in Seq(X) => cols = SubSeq(cols, 1, Len(cols))
      OBVIOUS
    <3> QED BY <1>1, <1>2, <1>4, <3>1 DEF IsSeq
  <2> QED BY <1>1, <1>2, <1>4, <2>1
<1>5. CASE over # {}
  <2>1. Min(over) \in over
    BY <1>3, <1>5, MinOf
  <2>5. PICK m : m = Min(over) /\ m \in over
    BY <2>1
  <2>6. m > 2 /\ m \in 1 .. k
    BY <1>3, <2>5
  <2>2. PICK l : l = m - 1 /\ l \in 1 .. k /\ l = Min(over) - 1
    BY <1>1, <2>5, <2>6
  <2>3. t = SubSeq(cols, 1, l)
    BY <1>2, <1>5, <2>2
  <2>4. Len(t) = l
    BY <1>1, <2>2, <2>3, FirstOf
  <2> QED BY <1>1, <2>2, <2>3, <2>4
<1> QED BY <1>4, <1>5

(* The first of columns that are alike are alike.                          *)
LEMMA FirstSame ==
    ASSUME NEW cols, AreColumns(cols), NEW truths, AreColumns(truths), Same(cols, truths),
           NEW l \in 0 .. Len(cols), NEW a, a = SubSeq(cols, 1, l), NEW b, b = SubSeq(truths, 1, l)
    PROVE  AreColumns(a) /\ AreColumns(b) /\ Same(a, b)
<1>1. PICK k : k \in Nat /\ k = Len(cols) /\ k = Len(truths)
  BY DEF AreColumns, Same
<1>2. IsSeq(cols) /\ IsSeq(truths)
  BY IndexedSeq DEF AreColumns
<1>3. IsSeq(a) /\ Len(a) = l /\ \A i \in 1 .. l : a[i] = cols[i]
  BY <1>2, FirstOf
<1>4. IsSeq(b) /\ Len(b) = l /\ \A i \in 1 .. l : b[i] = truths[i]
  <2>1. l \in 0 .. Len(truths)
    BY <1>1
  <2> QED BY <1>2, <2>1, FirstOf
<1>5. \A i \in 1 .. l : i \in 1 .. k
  BY <1>1
<1>6. AreColumns(a) /\ AreColumns(b)
  BY <1>1, <1>3, <1>4, <1>5, SeqForm DEF AreColumns
<1>7. \A i \in 1 .. l : a[i].col = b[i].col /\ \A n : SameCell(n, CellOf(a, i, n), CellOf(b, i, n))
  BY <1>1, <1>3, <1>4, <1>5 DEF Same, CellOf
<1> QED BY <1>3, <1>4, <1>6, <1>7 DEF Same

LEMMA FirstTruth ==
    ASSUME NEW truths, NEW most, IsTruth(truths, most), NEW l \in 0 .. Len(truths),
           NEW b, b = SubSeq(truths, 1, l)
    PROVE  IsTruth(b, most)
<1>1. PICK k : k \in Nat /\ k = Len(truths)
  BY TruthColumns
<1>2. IsSeq(b) /\ Len(b) = l /\ \A i \in 1 .. l : b[i] = truths[i]
  BY FirstOf DEF IsTruth
<1>3. \A i \in 1 .. l : i \in 1 .. k
  BY <1>1
<1> QED BY <1>1, <1>2, <1>3 DEF IsTruth, Falling

(* The new column and the last of columns that are alike are alike.        *)
LEMMA JointSame ==
    ASSUME NEW cols, AreColumns(cols), NEW truths, AreColumns(truths), Same(cols, truths),
           NEW x, IsColumn(x), NEW kept \in 0 .. Len(cols),
           NEW a, Joint(a, x, cols, kept), NEW b, Joint(b, x, truths, kept)
    PROVE  AreColumns(a) /\ AreColumns(b) /\ Same(a, b)
<1>1. PICK k : k \in Nat /\ k = Len(cols) /\ k = Len(truths)
  BY DEF AreColumns, Same
<1>2. /\ IsSeq(a) /\ Len(a) = kept + 1 /\ a[1] = x
      /\ \A i \in 1 .. kept : a[i + 1] = cols[k - kept + i]
  BY <1>1 DEF Joint
<1>3. /\ IsSeq(b) /\ Len(b) = kept + 1 /\ b[1] = x
      /\ \A i \in 1 .. kept : b[i + 1] = truths[k - kept + i]
  BY <1>1 DEF Joint
<1>4. ASSUME NEW i \in 1 .. kept + 1
      PROVE  /\ IsColumn(a[i]) /\ IsColumn(b[i]) /\ a[i].col = b[i].col
             /\ \A n : SameCell(n, CellOf(a, i, n), CellOf(b, i, n))
  <2>1. CASE i = 1
    <3>1. a[i] = x /\ b[i] = x
      BY <1>2, <1>3, <2>1
    <3> QED BY <3>1 DEF CellOf, SameCell
  <2>2. CASE i # 1
    <3>1. PICK j : j = i - 1 /\ j \in 1 .. kept /\ i = j + 1
      BY <1>1, <2>2
    <3>2. PICK l : l = k - kept + j /\ l \in 1 .. k
      BY <1>1, <3>1
    <3>3. a[i] = cols[l] /\ b[i] = truths[l]
      BY <1>2, <1>3, <3>1, <3>2
    <3>4. IsColumn(cols[l]) /\ IsColumn(truths[l])
      BY <1>1, <3>2 DEF AreColumns
    <3>5. cols[l].col = truths[l].col /\ \A n : SameCell(n, CellOf(cols, l, n), CellOf(truths, l, n))
      BY <1>1, <3>2 DEF Same
    <3> QED BY <3>3, <3>4, <3>5 DEF CellOf
  <2> QED BY <2>1, <2>2
<1>5. AreColumns(a) /\ AreColumns(b)
  BY <1>2, <1>3, <1>4, SeqForm DEF AreColumns
<1> QED BY <1>2, <1>3, <1>4, <1>5 DEF Same

LEMMA JointTruth ==
    ASSUME NEW truths, NEW most \in Nat, IsTruth(truths, most),
           NEW x, Recorded(x), x.col.build \in Nat, x.col.extra = <<x.col.build>>,
           NEW top \in Nat, most <= top, x.col.build <= top,
           NEW kept \in 0 .. Len(truths),
           \A i \in 1 .. kept : truths[Len(truths) - kept + i].col.build < x.col.build,
           NEW b, Joint(b, x, truths, kept)
    PROVE  IsTruth(b, top)
<1>1. PICK k : k \in Nat /\ k = Len(truths)
  BY TruthColumns
<1>2. /\ IsSeq(b) /\ Len(b) = kept + 1 /\ b[1] = x
      /\ \A i \in 1 .. kept : b[i + 1] = truths[k - kept + i]
  BY <1>1 DEF Joint
<1>3. ASSUME NEW i \in 1 .. kept + 1, i # 1
      PROVE  /\ i - 1 \in 1 .. kept /\ k - kept + (i - 1) \in 1 .. k
             /\ b[i] = truths[k - kept + (i - 1)]
  <2>1. PICK j : j = i - 1 /\ j \in 1 .. kept /\ i = j + 1 /\ k - kept + j \in 1 .. k
    BY <1>1, <1>3
  <2> QED BY <1>2, <2>1
<1>4. ASSUME NEW i \in 1 .. kept + 1
      PROVE  /\ Recorded(b[i]) /\ b[i].col.build \in Nat /\ b[i].col.build <= top
             /\ b[i].col.extra = <<b[i].col.build>>
  <2>1. CASE i = 1
    BY <1>2, <2>1
  <2>2. CASE i # 1
    <3>1. PICK l : l \in 1 .. k /\ b[i] = truths[l]
      BY <1>3, <2>2
    <3>2. /\ Recorded(truths[l]) /\ truths[l].col.build \in Nat /\ truths[l].col.build <= most
          /\ truths[l].col.extra = <<truths[l].col.build>>
      BY <1>1, <3>1 DEF IsTruth, Falling
    <3> QED BY <3>1, <3>2
  <2> QED BY <2>1, <2>2
<1>5. ASSUME NEW i \in 1 .. kept + 1, NEW j \in 1 .. kept + 1, i < j
      PROVE  b[j].col.build < b[i].col.build
  <2>1. PICK p : p = j - 1 /\ p \in 1 .. kept /\ k - kept + p \in 1 .. k /\ b[j] = truths[k - kept + p]
    <3>1. j # 1
      BY <1>1, <1>5
    <3> QED BY <1>3, <3>1
  <2>2. CASE i = 1
    BY <1>1, <1>2, <2>1, <2>2
  <2>3. CASE i # 1
    <3>1. PICK q : q = i - 1 /\ q \in 1 .. kept /\ k - kept + q \in 1 .. k /\ b[i] = truths[k - kept + q]
      BY <1>3, <2>3
    <3>2. PICK l, m : l = k - kept + q /\ m = k - kept + p /\ l \in 1 .. k /\ m \in 1 .. k /\ l < m
      BY SMTT(20), <1>1, <1>5, <2>1, <3>1
    <3>3. truths[m].col.build < truths[l].col.build
      BY <1>1, <3>2 DEF IsTruth, Falling
    <3> QED BY <2>1, <3>1, <3>2, <3>3
  <2> QED BY <2>2, <2>3
<1> QED BY <1>2, <1>4, <1>5 DEF IsTruth, Falling

(* What is left if a single column is too large.                           *)
GoneCell == [emptyCell EXCEPT !.res = "UNKNOWN", !.id = TruncatedRow,
                              !.msg = [text |-> "too large", long |-> FALSE]]
Gone == [n \in {TruncatedRow} |-> GoneCell]

LEMMA DeletedIs ==
    ASSUME NEW c, DOMAIN c = {"col", "cells"}, c.col.started = c.col.build, c.col.build # 0,
           NEW t, t = deletedColumn(c)
    PROVE  IsSeq(t) /\ Len(t) = 1 /\ t[1].col = c.col /\ t[1].cells = Gone /\ Recorded(t[1])
<1> DEFINE e == [c EXCEPT !.cells = Gone]
<1>1. t = <<e>>
  BY Zenon DEF deletedColumn, Gone, GoneCell
<1>2. IsCell(GoneCell) /\ GoneCell.res = "UNKNOWN"
  BY EmptyCellIs, StatusNames DEF IsCell, GoneCell
<1>3. DOMAIN Gone = {TruncatedRow} /\ Gone[TruncatedRow] = GoneCell
  BY DEF Gone
<1>4. e.col = c.col /\ DOMAIN e = {"col", "cells"} /\ e.cells = Gone
  OBVIOUS
<1> HIDE DEF e
<1>5. Recorded(e)
  <2>1. "text" \in DOMAIN GoneCell.msg
    BY DEF GoneCell, emptyCell
  <2>2. Readable(GoneCell)
    BY <1>2, <2>1 DEF Readable
  <2> QED BY <1>3, <1>4, <2>2 DEF Recorded, AllRows
<1>6. t \in Seq({e}) /\ Len(t) = 1 /\ t[1] = e
  BY <1>1
<1> QED BY <1>4, <1>5, <1>6 DEF IsSeq

(* Columns that are alike shrink alike.                                    *)
LEMMA ShrinkSame ==
    ASSUME NEW cols, AreColumns(cols), NEW truths, NEW most, IsTruth(truths, most), Same(cols, truths),
           Len(cols) # 0, NEW turns \in Nat,
           NEW a, a = shrinkGridInline(cols, turns), NEW b, b = shrinkGridInline(truths, turns)
    PROVE  AreColumns(a) /\ Same(a, b) /\ IsTruth(b, most)
<1>1. PICK k : /\ k \in Nat /\ k = Len(cols) /\ k = Len(truths) /\ AreColumns(truths)
               /\ DOMAIN cols = 1 .. k /\ DOMAIN truths = 1 .. k
  BY TruthColumns DEF AreColumns, Same
<1>2. PICK i : i = k \div 2^turns
  OBVIOUS
<1>3. /\ a = CASE turns = 0 -> cols
               [] turns > 0 /\ i \in DOMAIN cols -> truncateLastColumn(SubSeq(cols, 1, i))
               [] OTHER -> deletedColumn(cols[1])
      /\ b = CASE turns = 0 -> truths
               [] turns > 0 /\ i \in DOMAIN truths -> truncateLastColumn(SubSeq(truths, 1, i))
               [] OTHER -> deletedColumn(truths[1])
  BY <1>1, <1>2 DEF shrinkGridInline
<1>4. CASE turns = 0
  BY <1>3, <1>4
<1>5. CASE turns # 0 /\ i \in 1 .. k
  <2>1. PICK p, q : p = SubSeq(cols, 1, i) /\ q = SubSeq(truths, 1, i)
    OBVIOUS
  <2>2. a = truncateLastColumn(p) /\ b = truncateLastColumn(q)
    BY <1>1, <1>3, <1>5, <2>1
  <2>3. i \in 0 .. Len(cols) /\ i \in 0 .. Len(truths) /\ i \in 1 .. Len(cols) /\ i # 0
    BY <1>1, <1>5
  <2>4. AreColumns(p) /\ AreColumns(q) /\ Same(p, q)
    BY <1>1, <2>1, <2>3, FirstSame
  <2>5. IsTruth(q, most)
    BY <2>1, <2>3, FirstTruth
  <2>6. Len(p) = i /\ Len(q) = i /\ IsSeq(p) /\ IsSeq(q)
    BY ZenonT(30), <1>1, <2>1, <2>3, <2>4, FirstOf, IndexedSeq DEF AreColumns
  <2>7. CutLast(a, p) /\ CutLast(b, q)
    BY <2>2, <2>3, <2>4, <2>6, CutLastIs DEF AreColumns, IsColumn
  <2>8. AreColumns(a) /\ Same(a, b)
    BY <2>4, <2>7, CutLastSame
  <2>9. IsTruth(b, most)
    BY <2>5, <2>7, CutLastTruth
  <2> QED BY <2>8, <2>9
<1>6. CASE turns # 0 /\ i \notin 1 .. k
  <2>1. PICK c, d : c = cols[1] /\ d = truths[1]
    OBVIOUS
  <2>2. a = deletedColumn(c) /\ b = deletedColumn(d)
    BY <1>1, <1>3, <1>6, <2>1
  <2>3. 1 \in 1 .. k
    BY <1>1
  <2>4. /\ DOMAIN c = {"col", "cells"} /\ DOMAIN d = {"col", "cells"} /\ c.col = d.col
        /\ d.col.started = d.col.build /\ d.col.build # 0
    BY <1>1, <2>1, <2>3 DEF AreColumns, IsColumn, Same, IsTruth, Recorded
  <2>5. IsSeq(a) /\ Len(a) = 1 /\ a[1].col = c.col /\ a[1].cells = Gone /\ Recorded(a[1])
    BY <2>2, <2>4, DeletedIs
  <2>6. IsSeq(b) /\ Len(b) = 1 /\ b[1].col = d.col /\ b[1].cells = Gone /\ Recorded(b[1])
    BY <2>2, <2>4, DeletedIs
  <2>7. \A j \in 1 .. 1 : j = 1
    OBVIOUS
  <2>8. AreColumns(a)
    BY <2>5, <2>7, SeqForm DEF AreColumns, Recorded, Readable, IsColumn
  <2>9. Same(a, b)
    BY <2>4, <2>5, <2>6, <2>7 DEF Same, CellOf, SameCell
  <2>10. d.col.build \in Nat /\ d.col.build <= most /\ d.col.extra = <<d.col.build>>
    BY <1>1, <2>1, <2>3 DEF IsTruth, Falling
  <2>11. IsTruth(b, most)
    BY <2>6, <2>7, <2>10 DEF IsTruth, Falling
  <2> QED BY <2>8, <2>9, <2>11
<1> QED BY <1>1, <1>4, <1>5, <1>6

-----------------------------------------------------------------------------
HistoryInv == /\ reads \in Nat /\ IsTruth(truth, reads)
              /\ IsGrid(stored, truth, Alerting)

LEMMA WriteIs ==
    ASSUME HistoryInv, NEW new, Recorded(new), NEW top \in Nat, reads <= top,
           new.col.build \in Nat, new.col.build <= top, new.col.extra = <<new.col.build>>,
           NEW kept \in 0 .. Len(truth), NEW turns \in Nat,
           \A i \in 1 .. kept : truth[Len(truth) - kept + i].col.build < new.col.build,
           Write(new, kept, turns)
    PROVE  IsTruth(truth', top) /\ IsGrid(stored', truth', Alerting)
<1> DEFINE old == Inflate(stored)
           From(cols) == <<new>> \o SubSeq(cols, Len(cols) - kept + 1, Len(cols))
           cut == truncateGrid(From(old), CellCeiling)
           left == SubSeq(From(truth), 1, Len(cut))
           issues == IF turns > 0 /\ Len(cut) \div 2^turns = 0 THEN <<>> ELSE Issues(stored)
<1>1. IsTruth(truth, reads) /\ IsGrid(stored, truth, Alerting) /\ reads \in Nat
  BY DEF HistoryInv
<1>2. AreColumns(old) /\ Same(old, truth) /\ AreColumns(truth)
  BY <1>1, InflateIs, TruthColumns
<1>3. /\ truth' = shrinkGridInline(left, turns)
      /\ stored' = ConstructGrid(shrinkGridInline(cut, turns), issues, Alerting, 0)
  BY Zenon DEF Write
<1> HIDE DEF old, issues
<1>4. PICK a, b : a = From(old) /\ b = From(truth)
  OBVIOUS
<1>5. cut = truncateGrid(a, CellCeiling) /\ left = SubSeq(b, 1, Len(cut))
  BY <1>4
<1>6. Joint(a, new, old, kept) /\ Joint(b, new, truth, kept)
  <2>1. IsSeq(old) /\ IsSeq(truth) /\ kept \in 0 .. Len(old)
    BY <1>2, IndexedSeq DEF AreColumns, Same
  <2> QED BY <1>4, <2>1, JointIs
<1> HIDE DEF From, cut, left
<1>7. AreColumns(a) /\ AreColumns(b) /\ Same(a, b)
  <2>1. IsColumn(new) /\ kept \in 0 .. Len(old)
    BY <1>2 DEF Recorded, Readable, IsColumn, Same
  <2> QED BY <1>2, <1>6, <2>1, JointSame
<1>8. IsTruth(b, top)
  BY <1>1, <1>6, JointTruth
<1>9. PICK l \in 1 .. Len(a) : cut = SubSeq(a, 1, l) /\ Len(cut) = l
  <2>1. IsSeq(a) /\ Len(a) # 0
    BY <1>6 DEF Joint
  <2>2. PICK t : t = cut
    OBVIOUS
  <2>3. t = truncateGrid(a, CellCeiling)
    BY <1>5, <2>2
  <2>4. PICK l \in 1 .. Len(a) : t = SubSeq(a, 1, l) /\ Len(t) = l
    BY <2>1, <2>3, TruncateGridIs
  <2> QED BY <2>2, <2>4
<1>10. l \in 0 .. Len(a) /\ l \in 0 .. Len(b) /\ left = SubSeq(b, 1, l) /\ Len(cut) # 0
  BY <1>5, <1>7, <1>9 DEF AreColumns, Same
<1>11. AreColumns(cut) /\ AreColumns(left) /\ Same(cut, left)
  BY <1>7, <1>9, <1>10, FirstSame
<1>12. IsTruth(left, top)
  BY <1>8, <1>10, FirstTruth
<1>13. PICK c, d : c = shrinkGridInline(cut, turns) /\ d = shrinkGridInline(left, turns)
  OBVIOUS
<1>14. AreColumns(c) /\ Same(c, d) /\ IsTruth(d, top)
  BY <1>10, <1>11, <1>12, <1>13, ShrinkSame
<1>15. AreColumns(d)
  BY <1>14, TruthColumns
<1>16. IsGrid(stored', c, Alerting)
  BY <1>3, <1>13, <1>14, ConstructIs
<1>17. IsGrid(stored', d, Alerting)
  BY <1>14, <1>15, <1>16, GridSame
<1> QED BY <1>3, <1>13, <1>14, <1>17

(* What is read of a build.                                                *)
LEMMA ReadIs ==
    ASSUME NEW a \in FirstResults, NEW b \in SecondResults, NEW k \in Nat \ {0}, NEW new, new = ReadColumn(a, b, k)
    PROVE  Recorded(new) /\ new.col.build = k /\ new.col.extra = <<k>>
<1> DEFINE cells == [n \in {"a", "b", "b@m"} |-> IF n = "a" THEN a ELSE b]
           filled == { n \in DOMAIN cells : cells[n] # Absent }
           all == [n \in filled |-> NewCell(cells[n], k)]
<1>1. /\ DOMAIN new = {"col", "cells"} /\ new.col.build = k /\ new.col.extra = <<k>> /\ new.cells = all
      /\ new.col.started = k
  BY DEF ReadColumn
<1>2. filled \subseteq {"a", "b", "b@m"} /\ filled \subseteq AllRows
  BY DEF AllRows
<1>3. \A n \in filled : cells[n] \in [res : Statuses, text : STRING]
  BY <1>2, HistoryAssumption
<1>4. ASSUME NEW r \in [res : Statuses, text : STRING]
      PROVE  Readable(NewCell(r, k))
  <2>1. PICK c : c = NewCell(r, k)
    OBVIOUS
  <2>2. /\ DOMAIN c = {"res", "id", "cellId", "msg", "metrics", "issues"} /\ c.res = r.res
        /\ c.metrics = IF r.res \in {"PASS", "FAIL"} THEN [m \in {"duration"} |-> k] ELSE <<>>
        /\ DOMAIN c.msg = {"text", "long"}
    BY <2>1 DEF NewCell
  <2>3. IsFcn(c.metrics)
    <3>1. IsFcn(<<>>) /\ IsFcn([m \in {"duration"} |-> k])
      BY DEF IsFcn
    <3> QED BY <2>2, <3>1
  <2> QED BY <2>1, <2>2, <2>3 DEF Readable, IsCell
<1> HIDE DEF cells, filled
<1>5. DOMAIN new.cells = filled /\ \A n \in filled : new.cells[n] = NewCell(cells[n], k)
  BY <1>1
<1> HIDE DEF all
<1>6. ASSUME NEW n \in filled
      PROVE  Readable(new.cells[n])
  <2>1. PICK r \in [res : Statuses, text : STRING] : r = cells[n]
    BY <1>3
  <2> QED BY <1>4, <1>5, <2>1
<1> QED BY <1>1, <1>2, <1>5, <1>6 DEF Recorded

LEMMA HistoryInitial == HistoryInit => HistoryInv
<1> SUFFICES ASSUME HistoryInit PROVE HistoryInv
  OBVIOUS
<1>1. PICK e : e = <<>>
  OBVIOUS
<1>2. truth = e /\ stored = [columns |-> e, rows |-> e] /\ reads = 0
  BY <1>1 DEF HistoryInit
<1>3. Len(e) = 0 /\ e \in Seq({}) /\ 1 .. 0 = {} /\ DOMAIN e = {} /\ e = [i \in 1 .. 0 |-> e[i].col]
  BY <1>1
<1>4. IsTruth(e, 0)
  BY <1>3 DEF IsTruth, Falling, IsSeq
<1>5. Names(e) = {}
  BY <1>3 DEF Names
<1>6. IsGrid(stored, e, Alerting)
  BY <1>2, <1>3, <1>5 DEF IsGrid
<1> QED BY <1>2, <1>4, <1>6 DEF HistoryInv

LEMMA HistoryStep == HistoryInv /\ [HistoryNext]_historyVars => HistoryInv'
<1> SUFFICES ASSUME HistoryInv, [HistoryNext]_historyVars PROVE HistoryInv'
  OBVIOUS
<1>1. PICK l : l = Len(truth) /\ l \in Nat
  BY TruthColumns DEF HistoryInv
<1>2. reads \in Nat /\ IsTruth(truth, reads) /\ Falling(truth, reads)
  BY DEF HistoryInv, IsTruth
<1>3. CASE Build
  <2>1. PICK a \in FirstResults, b \in SecondResults, turns \in 0 .. MaxHalvings :
           Write(ReadColumn(a, b, reads + 1), Len(truth), turns)
    BY <1>3 DEF Build
  <2>2. PICK new, top : new = ReadColumn(a, b, reads + 1) /\ top = reads + 1
    OBVIOUS
  <2>3. Recorded(new) /\ new.col.build = top /\ new.col.extra = <<top>>
        /\ top \in Nat /\ reads <= top /\ top <= top
    <3>1. top \in Nat \ {0}
      BY <1>2, <2>2
    <3> QED BY <1>2, <2>2, <3>1, ReadIs
  <2>4. turns \in Nat /\ l \in 0 .. Len(truth) /\ Write(new, l, turns)
    BY <1>1, <2>1, <2>2, HistoryAssumption
  <2>5. \A i \in 1 .. l : truth[Len(truth) - l + i].col.build < new.col.build
    <3> TAKE i \in 1 .. l
    <3>1. Len(truth) - l + i = i /\ i \in 1 .. Len(truth)
      BY <1>1
    <3>2. truth[i].col.build \in Nat /\ truth[i].col.build <= reads
      BY <1>2, <3>1 DEF Falling
    <3> QED BY <1>2, <2>2, <2>3, <3>1, <3>2
  <2>6. IsTruth(truth', top) /\ IsGrid(stored', truth', Alerting)
    BY <2>3, <2>4, <2>5, WriteIs
  <2>7. reads' = top
    BY <1>3, <2>2 DEF Build
  <2> QED BY <2>3, <2>6, <2>7 DEF HistoryInv
<1>4. CASE Reread
  <2>1. PICK a \in FirstResults, b \in SecondResults : Write(ReadColumn(a, b, reads), Len(truth) - 1, 0)
    BY <1>4 DEF Reread
  <2>2. PICK new, k : new = ReadColumn(a, b, reads) /\ k = l - 1
    OBVIOUS
  <2>3. truth # <<>> /\ l # 0
    <3>1. truth # <<>>
      BY <1>4 DEF Reread
    <3>2. \A X : truth \in Seq(X) => Len(truth) # 0
      BY <3>1
    <3> QED BY <1>1, <1>2, <3>1, <3>2 DEF IsTruth, IsSeq
  <2>4. Recorded(new) /\ new.col.build = reads /\ new.col.extra = <<reads>> /\ reads <= reads
    <3>1. 1 \in 1 .. Len(truth)
      BY <1>1, <2>3
    <3>2. truth[1].col.build \in Nat /\ truth[1].col.build <= reads /\ truth[1].col.build # 0
      BY <1>2, <3>1 DEF Falling, IsTruth, Recorded
    <3>3. reads \in Nat \ {0}
      BY <1>2, <3>2
    <3> QED BY <2>2, <3>3, ReadIs
  <2>5. 0 \in Nat /\ k \in 0 .. Len(truth) /\ Write(new, k, 0)
    BY <1>1, <2>1, <2>2, <2>3
  <2>6. \A i \in 1 .. k : truth[Len(truth) - k + i].col.build < new.col.build
    <3> TAKE i \in 1 .. k
    <3>1. PICK j : j = i + 1 /\ Len(truth) - k + i = j /\ j \in 1 .. Len(truth) /\ 1 < j /\ 1 \in 1 .. Len(truth)
      BY <1>1, <2>2, <2>3
    <3>2. truth[j].col.build < truth[1].col.build
      BY <1>2, <3>1 DEF Falling
    <3>3. truth[1].col.build <= reads /\ truth[1].col.build \in Nat /\ truth[j].col.build \in Nat
      BY <1>2, <3>1 DEF Falling
    <3> QED BY <1>2, <2>4, <3>1, <3>2, <3>3
  <2>7. IsTruth(truth', reads) /\ IsGrid(stored', truth', Alerting)
    BY <1>2, <2>4, <2>5, <2>6, WriteIs
  <2>8. reads' = reads
    BY <1>4 DEF Reread
  <2> QED BY <1>2, <2>7, <2>8 DEF HistoryInv
<1>5. CASE UNCHANGED historyVars
  BY <1>5 DEF historyVars, HistoryInv
<1> QED BY <1>3, <1>4, <1>5 DEF HistoryNext

(* The stored grid is one of the columns that were read, as the halvings   *)
(* left them, and their builds fall.                                       *)
LEMMA HistoryAlways == HistorySpec => []HistoryInv
<1> QED BY HistoryInitial, HistoryStep, PTL DEF HistorySpec

-----------------------------------------------------------------------------
(* What is decoded of a grid of the columns cols.                          *)
LEMMA NamesListed ==
    ASSUME HistoryInv
    PROVE  DOMAIN stored.rows = { n \in AllRows : \E i \in DOMAIN truth : TruthCell(i, n).res # "NO_RESULT" }
<1>1. PICK k : k \in Nat /\ k = Len(truth) /\ DOMAIN truth = 1 .. k
  BY TruthColumns DEF HistoryInv, AreColumns
<1>2. \A i \in 1 .. k : \A n : TruthCell(i, n) = CellOf(truth, i, n)
  BY DEF TruthCell, CellOf
<1>3. \A i \in 1 .. k : \A n : CellOf(truth, i, n).res # "NO_RESULT" => n \in AllRows
  BY <1>1, EmptyCellIs DEF HistoryInv, IsTruth, Recorded, Readable, CellOf
<1>4. \A n : n \in DOMAIN stored.rows <=> \E i \in 1 .. k : CellOf(truth, i, n).res # "NO_RESULT"
  BY <1>1, NamesAre DEF HistoryInv, IsGrid
<1> QED BY <1>1, <1>2, <1>3, <1>4

(* The decoding of the API is that of the updater.                         *)
LEMMA DecodedAlike == ASSUME NEW results PROVE decodeRLE(results) = Iter(results)
<1>1. \A k \in DOMAIN results : [i \in 1 .. results[k].n |-> results[k].res] = Repeated(results[k])
  BY DEF Repeated
<1> QED BY <1>1 DEF decodeRLE, Iter

Agrees(n, i, read, shown, cell) ==
    /\ shown.res = read.res /\ shown.metrics = read.metrics
    /\ cell.res = shown.res /\ cell.cellId = shown.cellId /\ cell.msg = shown.msg
    /\ read.res # "NO_RESULT" =>
         /\ shown.msg = [read.msg EXCEPT !.long = FALSE]
         /\ shown.cellId = IF n \in MethodRows THEN "" ELSE read.cellId

(* The entry of ListRows.                                                  *)
Listed(row, out, i) ==
    [res |-> out[i],
     cellId |-> IF out[i] = "NO_RESULT" \/ row.cellIds = <<>> THEN "" ELSE row.cellIds[FilledIdx(out, i)],
     msg |-> IF out[i] = "NO_RESULT" \/ row.messages = <<>> THEN NoMessage
             ELSE row.messages[FilledIdx(out, i)]]

LEMMA RowAgrees ==
    ASSUME NEW name, NEW row, NEW V, NEW n \in Nat, AreCells(V, n), Encodes(name, row, V, n), NEW i \in 1 .. n,
           NEW out, out = Iter(row.results),
           NEW cell, cell = Listed(row, out, i)
    PROVE  Agrees(name, i, V[i], inflateRow(name, row, i), cell)
<1>1. n <= n
  OBVIOUS
<1>2. inflateRow(name, row, i) = ShownCell(name, row, V[i])
  BY <1>1, InflateRowIs
<1>3. PICK p : p = FilledIdx(out, i)
  OBVIOUS
<1>4. out[i] = V[i].res /\ (V[i].res # "NO_RESULT" => ListedFor(name, row, V[i], p))
  BY <1>1, <1>3, FilledIndex
<1>6. ~hasCellID(name) => row.cellIds = <<>>
  BY DEF Encodes
<1>7. hasCellID(name) <=> name \notin MethodRows
  BY DEF hasCellID
<1>8. PICK d, c : d = ShownCell(name, row, V[i]) /\ c = V[i]
  OBVIOUS
<1>9. /\ d.res = c.res /\ d.metrics = c.metrics
      /\ c.res # "NO_RESULT" => d.msg = truncate(c.msg)
      /\ c.res = "NO_RESULT" => d.msg = NoMessage /\ d.cellId = ""
      /\ c.res # "NO_RESULT" /\ name \notin MethodRows => d.cellId = c.cellId
      /\ name \in MethodRows => d.cellId = ""
  BY <1>7, <1>8 DEF ShownCell, hasCellID
<1>12. /\ cell.res = out[i]
       /\ cell.cellId = IF out[i] = "NO_RESULT" \/ row.cellIds = <<>> THEN "" ELSE row.cellIds[p]
       /\ cell.msg = IF out[i] = "NO_RESULT" \/ row.messages = <<>> THEN NoMessage ELSE row.messages[p]
  BY <1>3 DEF Listed
<1>10. CASE c.res = "NO_RESULT"
  BY <1>2, <1>4, <1>8, <1>9, <1>10, <1>12 DEF Agrees
<1>11. CASE c.res # "NO_RESULT"
  <2>1. /\ row.messages[p] = truncate(c.msg) /\ row.messages # <<>>
        /\ name \notin MethodRows => row.cellIds[p] = c.cellId /\ row.cellIds # <<>>
    <3>1. ListedFor(name, row, c, p)
      BY <1>4, <1>8, <1>11
    <3>2. p \in DOMAIN row.messages => row.messages # <<>>
      OBVIOUS
    <3>3. p \in DOMAIN row.cellIds => row.cellIds # <<>>
      OBVIOUS
    <3> QED BY <1>7, <3>1, <3>2, <3>3 DEF ListedFor, hasCellID
  <2>2. cell.res = c.res /\ cell.msg = truncate(c.msg)
    BY <1>4, <1>8, <1>11, <1>12, <2>1
  <2>3. cell.cellId = d.cellId
    <3>1. CASE name \in MethodRows
      BY <1>6, <1>7, <1>9, <1>12, <3>1 DEF hasCellID
    <3>2. CASE name \notin MethodRows
      BY <1>4, <1>8, <1>9, <1>11, <1>12, <2>1, <3>2
    <3> QED BY <3>1, <3>2
  <2> QED BY <1>2, <1>8, <1>9, <1>11, <2>2, <2>3 DEF Agrees, truncate
<1> QED BY <1>8, <1>10, <1>11

LEMMA CellsAgree ==
    ASSUME HistoryInv, NEW i \in DOMAIN truth, NEW n \in DOMAIN stored.rows
    PROVE  Agrees(n, i, TruthCell(i, n), inflateRow(n, stored.rows[n], i), ListRows(stored)[n].cells[i])
<1>1. PICK k : k \in Nat /\ k = Len(truth) /\ DOMAIN truth = 1 .. k
  BY TruthColumns DEF HistoryInv, AreColumns
<1>2. PICK V, row, out : V = RowOf(truth, n) /\ row = stored.rows[n] /\ out = Iter(row.results)
  OBVIOUS
<1>3. AreCells(V, k) /\ Encodes(n, row, V, k) /\ V[i] = TruthCell(i, n) /\ i \in 1 .. k
  BY <1>1, <1>2, RowOfIs, TruthColumns DEF HistoryInv, IsGrid, RowOf, TruthCell, CellOf
<1>4. Len(out) = k /\ IsSeq(out)
  BY <1>2, <1>3, IterSeq DEF Encodes, IsSeq
<1>5. i \in DOMAIN out
  BY <1>3, <1>4, SeqIs
<1>6. PICK cell : cell = Listed(row, out, i)
  OBVIOUS
<1>7. ListRows(stored)[n].cells[i] = cell
  <2>1. decodeRLE(row.results) = out
    BY <1>2, DecodedAlike
  <2> QED BY <1>2, <1>5, <1>6, <2>1 DEF ListRows, Listed
<1>8. Agrees(n, i, V[i], inflateRow(n, row, i), cell)
  BY <1>1, <1>2, <1>3, <1>6, RowAgrees
<1> QED BY <1>2, <1>3, <1>7, <1>8

-----------------------------------------------------------------------------
(* What the state comparer counts.                                         *)
StaleRow(row, recent) == /\ recent # 0 /\ row.results # <<>>
                         /\ row.results[1].res = "NO_RESULT" /\ row.results[1].n >= recent
Seen(whole, recent) == { n \in DOMAIN whole.rows \ MethodRows : ~StaleRow(whole.rows[n], recent) }
Header(whole, i) == <<whole.columns[i].build, whole.columns[i].extra>>
Counted(S, key) == [k \in { key[x] : x \in S } |-> Cardinality({ x \in S : key[x] = k })]
Headers(whole) == [i \in DOMAIN whole.columns |-> Header(whole, i)]

LEMMA CountsAre ==
    ASSUME NEW whole, NEW recent, NEW m, m = rowsAndColumns(whole, recent)
    PROVE  /\ m.rows = Counted(Seen(whole, recent), BaseName)
           /\ m.columns = Counted(DOMAIN whole.columns, Headers(whole))
<1>1. m = [rows |-> [k \in { BaseName[x] : x \in Seen(whole, recent) } |->
                       Cardinality({ x \in Seen(whole, recent) : BaseName[x] = k })],
           columns |-> [k \in { Header(whole, x) : x \in DOMAIN whole.columns } |->
                          Cardinality({ x \in DOMAIN whole.columns : Header(whole, x) = k })]]
  BY Zenon DEF rowsAndColumns, Seen, StaleRow, Header
<1>2. \A i \in DOMAIN whole.columns : Headers(whole)[i] = Header(whole, i)
  BY DEF Headers
<1>3. { Header(whole, x) : x \in DOMAIN whole.columns } = { Headers(whole)[x] : x \in DOMAIN whole.columns }
  BY <1>2
<1>4. \A k : { x \in DOMAIN whole.columns : Header(whole, x) = k }
               = { x \in DOMAIN whole.columns : Headers(whole)[x] = k }
  BY <1>2
<1>5. m.rows = Counted(Seen(whole, recent), BaseName)
  BY <1>1 DEF Counted
<1>6. m.columns = Counted(DOMAIN whole.columns, Headers(whole))
  <2>1. PICK D, h : D = DOMAIN whole.columns /\ h = Headers(whole)
    OBVIOUS
  <2>2. PICK K : K = { Header(whole, x) : x \in DOMAIN whole.columns }
    OBVIOUS
  <2>3. \A k : Cardinality({ x \in DOMAIN whole.columns : Header(whole, x) = k })
                 = Cardinality({ x \in D : h[x] = k })
    BY <1>4, <2>1
  <2>4. m.columns = [k \in K |-> Cardinality({ x \in DOMAIN whole.columns : Header(whole, x) = k })]
    BY <1>1, <2>2
  <2>5. m.columns = [k \in K |-> Cardinality({ x \in D : h[x] = k })]
    BY <2>3, <2>4
  <2>6. K = { h[x] : x \in D }
    BY <1>3, <2>1, <2>2
  <2>7. m.columns = Counted(D, h)
    BY <2>5, <2>6 DEF Counted
  <2> QED BY <2>1, <2>7
<1> QED BY <1>5, <1>6

LEMMA CountedIs ==
    ASSUME NEW S, IsFiniteSet(S), NEW key, NEW m, m = Counted(S, key)
    PROVE  /\ IsFiniteSet(DOMAIN m) /\ DOMAIN m = { key[x] : x \in S }
           /\ \A k \in DOMAIN m : m[k] \in Nat \ {0} /\ m[k] <= Cardinality(S)
<1>1. DOMAIN m = { key[x] : x \in S }
  BY DEF Counted
<1>2. IsFiniteSet(DOMAIN m)
  <2> DEFINE f == [x \in S |-> key[x]]
  <2>1. f \in Surjection(S, DOMAIN m)
    BY <1>1 DEF Surjection
  <2> QED BY <2>1, FS_Surjection
<1>3. ASSUME NEW k \in DOMAIN m
      PROVE  m[k] \in Nat \ {0} /\ m[k] <= Cardinality(S)
  <2> DEFINE T == { x \in S : key[x] = k }
  <2>1. T \in SUBSET S /\ T # {}
    BY <1>1
  <2>2. IsFiniteSet(T) /\ Cardinality(T) <= Cardinality(S) /\ Cardinality(T) \in Nat /\ Cardinality(T) # 0
    BY <2>1, FS_Subset, FS_CardinalityType, FS_EmptySet
  <2>3. m[k] = Cardinality(T)
    BY <1>1 DEF Counted
  <2> QED BY <2>2, <2>3
<1> QED BY <1>1, <1>2, <1>3

(* With no tolerance, maps exceed it if they differ at all.                *)
LEMMA ExceedingIs ==
    ASSUME NEW f, NEW s, IsFiniteSet(DOMAIN f), IsFiniteSet(DOMAIN s)
    PROVE  Exceeding(f, s, 0) <=> (Differing(f, s) # {} \/ Differing(s, f) # {})
<1>1. Differing(f, s) \in SUBSET DOMAIN f /\ Differing(s, f) \in SUBSET DOMAIN s
  BY DEF Differing
<1>2. IsFiniteSet(Differing(f, s)) /\ IsFiniteSet(Differing(s, f))
  BY <1>1, FS_Subset
<1>3. PICK a, b, c, d : /\ a = Cardinality(Differing(f, s)) /\ b = Cardinality(Differing(s, f))
                        /\ c = Cardinality(DOMAIN f) /\ d = Cardinality(DOMAIN s)
  OBVIOUS
<1>4. a \in Nat /\ b \in Nat /\ c \in Nat /\ d \in Nat
  BY <1>2, <1>3, FS_CardinalityType
<1>5. (a = 0 <=> Differing(f, s) = {}) /\ (b = 0 <=> Differing(s, f) = {})
  BY <1>2, <1>3, FS_EmptySet
<1>6. Max({a, b}) \in {a, b} /\ Max({a, b}) >= a /\ Max({a, b}) >= b
  <2>1. {a, b} \in SUBSET Int /\ {a, b} # {} /\ a + b \in Int /\ \A x \in {a, b} : x <= a + b
    BY <1>4
  <2>2. Max({a, b}) \in {a, b} /\ \A x \in {a, b} : x <= Max({a, b})
    BY <2>1, MaxOf
  <2> QED BY <1>4, <2>2
<1>7. Max({c, d}) \in {c, d}
  <2>1. {c, d} \in SUBSET Int /\ {c, d} # {} /\ c + d \in Int /\ \A x \in {c, d} : x <= c + d
    BY <1>4
  <2> QED BY <2>1, MaxOf
<1>8. PICK p, q : p = Max({a, b}) /\ q = Max({c, d}) /\ p \in Nat /\ q \in Nat
  BY <1>4, <1>6, <1>7
<1>9. Exceeding(f, s, 0) <=> 100 * p > 0 * q
  BY <1>3, <1>8 DEF Exceeding, numDiff
<1>10. 0 * q = 0
  BY <1>8
<1>11. Exceeding(f, s, 0) <=> p # 0
  BY <1>8, <1>9, <1>10
<1>12. p = 0 <=> a = 0 /\ b = 0
  BY <1>4, <1>6, <1>8
<1> QED BY <1>5, <1>11, <1>12

LEMMA KeysCompared ==
    ASSUME NEW f, NEW s, IsFiniteSet(DOMAIN f), IsFiniteSet(DOMAIN s)
    PROVE  compareKeys(f, s, 0) <=> DOMAIN f # DOMAIN s
<1> DEFINE F == [k \in DOMAIN f |-> TRUE]
           S == [k \in DOMAIN s |-> TRUE]
<1>1. compareKeys(f, s, 0) <=> Exceeding(F, S, 0)
  BY DEF compareKeys
<1>2. Differing(F, S) = DOMAIN f \ DOMAIN s /\ Differing(S, F) = DOMAIN s \ DOMAIN f
  BY DEF Differing
<1>3. DOMAIN F = DOMAIN f /\ DOMAIN S = DOMAIN s
  OBVIOUS
<1> HIDE DEF F, S
<1>4. Exceeding(F, S, 0) <=> (Differing(F, S) # {} \/ Differing(S, F) # {})
  BY <1>3, ExceedingIs
<1> QED BY <1>1, <1>2, <1>4

LEMMA NothingReported ==
    ASSUME NEW f, IsFiniteSet(DOMAIN f)
    PROVE  reportDiff(f, f, 0) = "none"
<1>1. Differing(f, f) = {}
  BY DEF Differing
<1>2. ~Exceeding(f, f, 0)
  BY <1>1, ExceedingIs
<1> QED BY <1>2, Zenon DEF reportDiff

LEMMA OtherReported ==
    ASSUME NEW f, NEW s, IsFiniteSet(DOMAIN f), IsFiniteSet(DOMAIN s), DOMAIN f # DOMAIN s
    PROVE  reportDiff(f, s, 0) = "other"
<1>1. Differing(f, s) # {} \/ Differing(s, f) # {}
  BY DEF Differing
<1>2. Exceeding(f, s, 0)
  BY <1>1, ExceedingIs
<1>3. compareKeys(f, s, 0)
  BY KeysCompared
<1> QED BY <1>2, <1>3 DEF reportDiff

LEMMA Pairs ==
    ASSUME NEW D, NEW T, IsFiniteSet(D), IsFiniteSet(T), NEW U,
           \A u \in U : \E d \in D, t \in T : u = <<d, t>>
    PROVE  IsFiniteSet(U)
<1>1. U \subseteq D \X T
  OBVIOUS
<1>2. IsFiniteSet(D \X T)
  BY FS_Product
<1> QED BY <1>1, <1>2, FS_Subset

LEMMA MoreReported ==
    ASSUME NEW f, NEW s, IsFiniteSet(DOMAIN f), DOMAIN s = DOMAIN f, NEW N \in Nat,
           \A k \in DOMAIN f : f[k] \in Nat /\ s[k] \in Nat /\ f[k] <= s[k] /\ s[k] <= N,
           NEW d \in DOMAIN f, f[d] # s[d]
    PROVE  reportDiff(f, s, 0) = "secondHasDuplicates"
<1>1. d \in Differing(f, s)
  BY DEF Differing
<1>2. Exceeding(f, s, 0)
  BY <1>1, ExceedingIs
<1>3. ~compareKeys(f, s, 0)
  BY KeysCompared
<1> DEFINE F == UNION { {k} \X (1 .. f[k]) : k \in DOMAIN f }
           S == UNION { {k} \X (1 .. s[k]) : k \in DOMAIN s }
<1>4. F \in SUBSET S
  <2>1. \A k \in DOMAIN f : 1 .. f[k] \subseteq 1 .. s[k]
    OBVIOUS
  <2>2. \A k \in DOMAIN f : {k} \X (1 .. f[k]) \subseteq {k} \X (1 .. s[k])
    BY <2>1
  <2> QED BY <2>2
<1>5. IsFiniteSet(S)
  <2>1. \A k \in DOMAIN f : 1 .. s[k] \subseteq 1 .. N
    OBVIOUS
  <2>2. PICK T : T = 1 .. N /\ IsFiniteSet(T)
    BY FS_Interval
  <2>3. ASSUME NEW u \in S
        PROVE  \E d1 \in DOMAIN f, t \in T : u = <<d1, t>>
    <3>1. PICK k \in DOMAIN f : u \in {k} \X (1 .. s[k])
      OBVIOUS
    <3>2. PICK t \in 1 .. s[k] : u = <<k, t>>
      BY <3>1
    <3>3. t \in T
      BY <2>1, <2>2, <3>2
    <3> QED BY <3>2, <3>3
  <2> HIDE DEF S
  <2> QED BY SMTT(20), <2>2, <2>3, Pairs
<1>6. Cardinality(F) <= Cardinality(S) /\ Cardinality(F) \in Nat /\ Cardinality(S) \in Nat
  BY <1>4, <1>5, FS_Subset, FS_CardinalityType
<1>7. Total(f) = Cardinality(F) /\ Total(s) = Cardinality(S)
  BY DEF Total
<1> HIDE DEF F, S
<1>8. ~(Total(f) > Total(s))
  BY <1>6, <1>7
<1> QED BY <1>2, <1>3, <1>8 DEF reportDiff

-----------------------------------------------------------------------------
(* The comparison of the encoded grid.                                     *)
LEMMA SeenSame ==
    ASSUME NEW cols, AreColumns(cols), NEW alerting, NEW whole, IsGrid(whole, cols, alerting),
           NEW again, IsGrid(again, cols, alerting), NEW recent
    PROVE  /\ Seen(again, recent) = Seen(whole, recent)
           /\ again.columns = whole.columns
<1>1. again.columns = whole.columns /\ DOMAIN again.rows = DOMAIN whole.rows
  BY DEF IsGrid
<1>2. ASSUME NEW n \in DOMAIN whole.rows
      PROVE  StaleRow(again.rows[n], recent) <=> StaleRow(whole.rows[n], recent)
  <2>1. PICK r, t, k, V : /\ r = whole.rows[n].results /\ t = again.rows[n].results
                          /\ k = Len(cols) /\ V = RowOf(cols, n)
    OBVIOUS
  <2>2. Encodes(n, whole.rows[n], V, k) /\ Encodes(n, again.rows[n], V, k)
    BY <1>1, <2>1 DEF IsGrid
  <2>3. /\ r \in Seq(Run) /\ Len(Iter(r)) = k /\ FirstRun(r)
        /\ \A j \in 1 .. k : Iter(r)[j] = V[j].res
    BY <2>1, <2>2 DEF Encodes
  <2>4. /\ t \in Seq(Run) /\ Len(Iter(t)) = k /\ FirstRun(t)
        /\ \A j \in 1 .. k : Iter(t)[j] = V[j].res
    BY <2>1, <2>2 DEF Encodes
  <2>5. PICK a, b : a = Iter(r) /\ b = Iter(t) /\ a \in Seq(Statuses) /\ b \in Seq(Statuses)
    BY <2>3, <2>4, IterSeq
  <2>6. Len(a) = Len(b) /\ \A j \in 1 .. Len(a) : a[j] = b[j]
    BY <2>3, <2>4, <2>5
  <2>7. a = b
    BY <2>5, <2>6
  <2>8. (r = <<>> <=> t = <<>>) /\ (r # <<>> => r[1].res = t[1].res /\ r[1].n = t[1].n)
    BY <2>3, <2>4, <2>5, <2>7, SameFirstRun
  <2> QED BY <2>1, <2>8 DEF StaleRow
<1> QED BY <1>1, <1>2 DEF Seen

(* The comparison of two grids by what it counts in them.                  *)
LEMMA ComparedBy ==
    ASSUME NEW first, NEW second, NEW recent,
           NEW f, f = rowsAndColumns(first, recent), NEW s, s = rowsAndColumns(second, recent),
           NEW ignored, ignored = \/ f.rows = <<>> /\ s.rows = <<>>
                                  \/ f.columns = <<>> /\ Cardinality(DOMAIN s.columns) <= 1
    PROVE  compare(first, second, 0, recent) =
             IF ignored THEN [rows |-> "none", columns |-> "none"]
             ELSE [rows |-> reportDiff(f.rows, s.rows, 0), columns |-> reportDiff(f.columns, s.columns, 0)]
BY DEF compare

(* A grid that has a result seen, and the counts of its rows and columns.  *)
Regular(whole) == /\ IsFiniteSet(DOMAIN whole.rows) /\ IsFiniteSet(DOMAIN whole.columns)

LEMMA CountsFinite ==
    ASSUME NEW whole, Regular(whole), NEW recent, NEW m, m = rowsAndColumns(whole, recent)
    PROVE  /\ IsFiniteSet(DOMAIN m.rows) /\ IsFiniteSet(DOMAIN m.columns)
           /\ DOMAIN m.rows = { BaseName[n] : n \in Seen(whole, recent) }
           /\ DOMAIN m.columns = { Headers(whole)[i] : i \in DOMAIN whole.columns }
<1>1. m.rows = Counted(Seen(whole, recent), BaseName) /\ m.columns = Counted(DOMAIN whole.columns, Headers(whole))
  BY CountsAre
<1>2. IsFiniteSet(Seen(whole, recent))
  <2>1. Seen(whole, recent) \subseteq DOMAIN whole.rows
    BY DEF Seen
  <2> QED BY <2>1, FS_Subset DEF Regular
<1> QED BY ZenonT(30), <1>1, <1>2, CountedIs DEF Regular

(* A grid is not told from one that counts the same.                       *)
LEMMA NothingCompared ==
    ASSUME NEW whole, Regular(whole), NEW recent, NEW again, Seen(again, recent) = Seen(whole, recent),
           again.columns = whole.columns
    PROVE  compare(whole, again, 0, recent) = [rows |-> "none", columns |-> "none"]
<1>1. PICK f, s : f = rowsAndColumns(whole, recent) /\ s = rowsAndColumns(again, recent)
  OBVIOUS
<1>2. Headers(again) = Headers(whole)
  BY DEF Headers, Header
<1>3. f.rows = s.rows /\ f.columns = s.columns
  BY <1>1, <1>2, CountsAre
<1>4. reportDiff(f.rows, s.rows, 0) = "none" /\ reportDiff(f.columns, s.columns, 0) = "none"
  BY <1>1, <1>3, CountsFinite, NothingReported
<1>5. PICK ignored : ignored = \/ f.rows = <<>> /\ s.rows = <<>>
                               \/ f.columns = <<>> /\ Cardinality(DOMAIN s.columns) <= 1
  OBVIOUS
<1>6. compare(whole, again, 0, recent) =
        IF ignored THEN [rows |-> "none", columns |-> "none"]
        ELSE [rows |-> reportDiff(f.rows, s.rows, 0), columns |-> reportDiff(f.columns, s.columns, 0)]
  BY ZenonT(30), <1>1, <1>5, ComparedBy
<1> QED BY <1>4, <1>6

(* The first result seen keeps the comparison from being ignored.          *)
LEMMA NotIgnored ==
    ASSUME NEW first, NEW second, NEW recent, Regular(first), Seen(first, recent) # {},
           DOMAIN first.columns # {},
           NEW f, f = rowsAndColumns(first, recent), NEW s, s = rowsAndColumns(second, recent)
    PROVE  compare(first, second, 0, recent) =
             [rows |-> reportDiff(f.rows, s.rows, 0), columns |-> reportDiff(f.columns, s.columns, 0)]
<1>1. DOMAIN f.rows # {} /\ DOMAIN f.columns # {}
  BY SMTT(20), CountsFinite
<1>2. f.rows # <<>> /\ f.columns # <<>>
  <2>1. \A z : DOMAIN z # {} => z # <<>>
    OBVIOUS
  <2> QED BY <1>1, <2>1
<1>3. PICK ignored : ignored = \/ f.rows = <<>> /\ s.rows = <<>>
                               \/ f.columns = <<>> /\ Cardinality(DOMAIN s.columns) <= 1
  OBVIOUS
<1>4. ~ignored
  BY <1>2, <1>3
<1> QED BY ZenonT(30), <1>3, <1>4, ComparedBy

(* A grid without its newest column has lost a header.                     *)
LEMMA LostReported ==
    ASSUME NEW cols, NEW most, IsTruth(cols, most), NEW alerting, NEW whole, IsGrid(whole, cols, alerting),
           Regular(whole), NEW recent, Seen(whole, recent) # {},
           NEW lost, lost.rows = whole.rows, lost.columns = Tail(whole.columns)
    PROVE  compare(whole, lost, 0, recent) = [rows |-> "none", columns |-> "other"]
<1>1. PICK k : k \in Nat /\ k = Len(cols) /\ whole.columns = [i \in 1 .. k |-> cols[i].col]
  BY TruthColumns DEF IsGrid
<1>2. k # 0
  BY <1>1 DEF Seen, IsGrid, Names
<1>3. PICK cs, ts : cs = whole.columns /\ ts = lost.columns /\ DOMAIN cs = 1 .. k /\ Len(cs) = k
  <2>1. PICK cs : cs = [i \in 1 .. k |-> cols[i].col]
    OBVIOUS
  <2>2. DOMAIN cs = 1 .. k /\ Len(cs) = k
    BY <1>1, <2>1
  <2> QED BY <1>1, <2>1, <2>2
<1>4. Len(ts) = k - 1 /\ DOMAIN ts = 1 .. (k - 1) /\ \A i \in 1 .. (k - 1) : ts[i] = cs[i + 1]
  BY <1>1, <1>2, <1>3
<1>5. Regular(lost)
  BY <1>3, <1>4, <1>1, FS_Interval DEF Regular
<1>6. Seen(lost, recent) = Seen(whole, recent)
  BY DEF Seen
<1>7. PICK f, s : f = rowsAndColumns(whole, recent) /\ s = rowsAndColumns(lost, recent)
  OBVIOUS
<1>8. f.rows = s.rows
  BY <1>6, <1>7, CountsAre
<1>9. reportDiff(f.rows, s.rows, 0) = "none"
  BY <1>7, <1>8, CountsFinite, NothingReported
<1>10. Headers(whole)[1] \in DOMAIN f.columns
  <2>1. 1 \in DOMAIN whole.columns
    BY <1>1, <1>2
  <2> QED BY <1>7, <2>1, CountsFinite
<1>11. Headers(whole)[1] \notin DOMAIN s.columns
  <2>1. ASSUME NEW i \in DOMAIN lost.columns
        PROVE  Headers(lost)[i] # Headers(whole)[1]
    <3>1. i \in 1 .. (k - 1) /\ i + 1 \in 1 .. k /\ 1 \in 1 .. k /\ 1 < i + 1
      BY <1>1, <1>2, <1>3, <1>4
    <3>2. lost.columns[i].build = cols[i + 1].col.build /\ whole.columns[1].build = cols[1].col.build
      BY <1>1, <1>3, <1>4, <3>1
    <3>3. /\ cols[i + 1].col.build < cols[1].col.build
          /\ cols[i + 1].col.build \in Nat /\ cols[1].col.build \in Nat
      BY <1>1, <3>1 DEF IsTruth, Falling
    <3>4. lost.columns[i].build # whole.columns[1].build
      BY <3>2, <3>3
    <3>5. Headers(lost)[i] = Header(lost, i) /\ Headers(whole)[1] = Header(whole, 1)
      BY <1>1, <3>1 DEF Headers
    <3> QED BY <3>4, <3>5 DEF Header
  <2>2. DOMAIN s.columns = { Headers(lost)[i] : i \in DOMAIN lost.columns }
    BY <1>5, <1>7, CountsFinite
  <2>3. PICK h, x, D : h = Headers(lost) /\ x = Headers(whole)[1] /\ D = DOMAIN lost.columns
    OBVIOUS
  <2>4. \A i \in D : h[i] # x
    BY <2>1, <2>3
  <2>5. DOMAIN s.columns = { h[i] : i \in D }
    BY <2>2, <2>3
  <2> QED BY <2>3, <2>4, <2>5
<1>12. reportDiff(f.columns, s.columns, 0) = "other"
  BY <1>5, <1>7, <1>10, <1>11, CountsFinite, OtherReported
<1>13. DOMAIN whole.columns # {}
  BY <1>1, <1>2
<1> QED BY <1>7, <1>9, <1>12, <1>13, NotIgnored

(* One more member of a key is one more in its count.                      *)
LEMMA CountedTwice ==
    ASSUME NEW S, IsFiniteSet(S), NEW key, NEW a \in S, NEW d, d \notin S, key[d] = key[a],
           NEW f, f = Counted(S, key), NEW s, s = Counted(S \cup {d}, key)
    PROVE  reportDiff(f, s, 0) = "secondHasDuplicates"
<1>1. PICK T : T = S \cup {d} /\ IsFiniteSet(T)
  BY FS_AddElement
<1>2. IsFiniteSet(DOMAIN f) /\ DOMAIN f = { key[x] : x \in S } /\ DOMAIN s = { key[x] : x \in T }
  <2>1. s = Counted(T, key)
    BY <1>1
  <2> QED BY <1>1, <2>1, CountedIs
<1>3. DOMAIN s = DOMAIN f
  BY <1>1, <1>2
<1>4. PICK N : N = Cardinality(T) /\ N \in Nat
  BY <1>1, FS_CardinalityType
<1>5. /\ \A k \in DOMAIN f : f[k] \in Nat
      /\ \A k \in DOMAIN s : s[k] \in Nat /\ s[k] <= N
  BY <1>1, <1>4, CountedIs
<1>6. \A k \in DOMAIN f : f[k] = Cardinality({ x \in S : key[x] = k })
  BY <1>2 DEF Counted
<1>7. \A k \in DOMAIN s : s[k] = Cardinality({ x \in T : key[x] = k })
  BY <1>1, <1>2 DEF Counted
<1>8. ASSUME NEW k \in DOMAIN f
      PROVE  f[k] <= s[k] /\ (k = key[a] => f[k] # s[k])
  <2>1. PICK F, G : F = { x \in S : key[x] = k } /\ G = { x \in T : key[x] = k }
    OBVIOUS
  <2>2. F \subseteq G /\ G \subseteq T /\ F \subseteq S
    BY <1>1, <2>1
  <2>3. IsFiniteSet(G) /\ IsFiniteSet(F) /\ Cardinality(F) <= Cardinality(G)
    BY <1>1, <2>2, FS_Subset
  <2>4. ASSUME k = key[a] PROVE Cardinality(F) # Cardinality(G)
    <3>1. d \in G /\ d \notin F
      BY <1>1, <2>1, <2>4
    <3> QED BY <2>2, <2>3, <3>1, FS_Subset
  <2> QED BY <1>3, <1>6, <1>7, <2>1, <2>3, <2>4
<1>9. key[a] \in DOMAIN f
  BY <1>2
<1> QED BY <1>2, <1>3, <1>4, <1>5, <1>8, <1>9, MoreReported

LEMMA TwiceReported ==
    ASSUME NEW whole, Regular(whole), DOMAIN whole.rows \subseteq AllRows, DOMAIN whole.columns # {},
           NEW recent, "a" \in Seen(whole, recent),
           NEW twice, twice.columns = whole.columns,
           twice.rows = [n \in DOMAIN whole.rows \cup {Duplicate} |->
                           IF n = Duplicate THEN whole.rows["a"] ELSE whole.rows[n]]
    PROVE  compare(whole, twice, 0, recent) = [rows |-> "secondHasDuplicates", columns |-> "none"]
<1>1. PICK f, s : f = rowsAndColumns(whole, recent) /\ s = rowsAndColumns(twice, recent)
  OBVIOUS
<1>2. PICK d : /\ d = Duplicate /\ d \notin AllRows /\ d \notin MethodRows
               /\ BaseName[d] = BaseName["a"]
  BY HistoryAssumption DEF Duplicate, AllRows, TruncatedRow
<1>3. PICK S : S = Seen(whole, recent) /\ IsFiniteSet(S) /\ d \notin S /\ "a" \in S
  BY <1>2, FS_Subset DEF Seen, Regular
<1>4. Seen(twice, recent) = S \cup {d}
  <2>1. DOMAIN twice.rows = DOMAIN whole.rows \cup {d}
    BY <1>2
  <2>2. \A n \in DOMAIN whole.rows : twice.rows[n] = whole.rows[n]
    BY <1>2
  <2>3. twice.rows[d] = whole.rows["a"]
    BY <1>2
  <2>4. ~StaleRow(twice.rows[d], recent)
    BY <2>3 DEF Seen
  <2> QED BY <1>2, <1>3, <2>1, <2>2, <2>4 DEF Seen
<1>5. f.rows = Counted(S, BaseName) /\ s.rows = Counted(S \cup {d}, BaseName)
  <2>1. f.rows = Counted(Seen(whole, recent), BaseName) /\ s.rows = Counted(Seen(twice, recent), BaseName)
    BY <1>1, CountsAre
  <2> QED BY <1>3, <1>4, <2>1
<1>6. reportDiff(f.rows, s.rows, 0) = "secondHasDuplicates"
  BY <1>2, <1>3, <1>5, CountedTwice
<1>7. Headers(twice) = Headers(whole)
  BY DEF Headers, Header
<1>8. f.columns = s.columns
  BY <1>1, <1>7, CountsAre
<1>9. reportDiff(f.columns, s.columns, 0) = "none"
  BY <1>1, <1>8, CountsFinite, NothingReported
<1> QED BY <1>1, <1>6, <1>9, NotIgnored

LEMMA StoredRegular ==
    ASSUME HistoryInv
    PROVE  /\ Regular(stored) /\ DOMAIN stored.rows \subseteq AllRows
           /\ DOMAIN stored.columns = DOMAIN truth
           /\ \A i \in DOMAIN truth : stored.columns[i] = truth[i].col
<1>1. PICK k : k \in Nat /\ k = Len(truth) /\ DOMAIN truth = 1 .. k
  BY TruthColumns DEF HistoryInv, AreColumns
<1>2. stored.columns = [i \in 1 .. k |-> truth[i].col]
  BY <1>1 DEF HistoryInv, IsGrid
<1>3. DOMAIN stored.rows \subseteq AllRows
  BY NamesListed
<1>4. IsFiniteSet(AllRows)
  <2>1. IsFiniteSet({"a"}) /\ IsFiniteSet({"b"}) /\ IsFiniteSet({"b@m"}) /\ IsFiniteSet({TruncatedRow})
    BY FS_Singleton
  <2>2. IsFiniteSet(({"a"} \cup {"b"}) \cup ({"b@m"} \cup {TruncatedRow}))
    BY <2>1, FS_Union
  <2>3. AllRows = ({"a"} \cup {"b"}) \cup ({"b@m"} \cup {TruncatedRow})
    BY DEF AllRows
  <2> QED BY <2>2, <2>3
<1>5. IsFiniteSet(DOMAIN stored.rows)
  BY <1>3, <1>4, FS_Subset
<1>6. DOMAIN stored.columns = 1 .. k /\ IsFiniteSet(1 .. k)
  BY <1>1, <1>2, FS_Interval
<1> QED BY <1>1, <1>2, <1>3, <1>5, <1>6 DEF Regular

(* Encoding what was decoded makes a grid of the same columns.             *)
LEMMA EncodedAgain ==
    ASSUME HistoryInv, NEW again, again = ConstructGrid(Inflate(stored), Issues(stored), Alerting, 0)
    PROVE  IsGrid(again, truth, Alerting)
<1>1. PICK cols, issues : cols = Inflate(stored) /\ issues = Issues(stored)
  OBVIOUS
<1>2. AreColumns(cols) /\ Same(cols, truth) /\ AreColumns(truth)
  BY <1>1, InflateIs, TruthColumns DEF HistoryInv
<1>3. IsGrid(again, cols, Alerting)
  BY <1>1, <1>2, ConstructIs
<1> QED BY <1>2, <1>3, GridSame

(* The keys that the comparer counts for rows.                             *)
LEMMA SeenKeys ==
    ASSUME HistoryInv, NEW recent, NEW keys, keys = DOMAIN rowsAndColumns(stored, recent).rows
    PROVE  /\ keys # {} => Seen(stored, recent) # {} /\ DOMAIN stored.columns # {}
           /\ "a" \in keys => "a" \in Seen(stored, recent)
<1>1. Regular(stored) /\ DOMAIN stored.rows \subseteq AllRows /\ DOMAIN stored.columns = DOMAIN truth
  BY StoredRegular
<1>2. keys = { BaseName[n] : n \in Seen(stored, recent) }
  BY <1>1, CountsFinite
<1>3. ASSUME NEW n \in Seen(stored, recent) PROVE DOMAIN truth # {}
  BY NamesListed DEF Seen
<1>4. ASSUME NEW n \in Seen(stored, recent), BaseName[n] = "a" PROVE n = "a"
  BY <1>1, <1>4, HistoryAssumption DEF Seen
<1> QED BY <1>1, <1>2, <1>3, <1>4

LEMMA RoundTripHolds == HistoryInv => RoundTrip
<1> SUFFICES ASSUME HistoryInv PROVE RoundTrip
  OBVIOUS
<1> DEFINE listed == ListRows(stored)
           headers == ListHeaders(stored)
           recent == Tab.numColumnsRecent
           seen == DOMAIN rowsAndColumns(stored, recent).rows
           again == ConstructGrid(Inflate(stored), Issues(stored), Alerting, 0)
           lost == [stored EXCEPT !.columns = Tail(@)]
           twice == [stored EXCEPT !.rows = [n \in DOMAIN @ \cup {Duplicate} |->
                                               IF n = Duplicate THEN @["a"] ELSE @[n]]]
<1>1. /\ Regular(stored) /\ DOMAIN stored.rows \subseteq AllRows
      /\ DOMAIN stored.columns = DOMAIN truth
      /\ \A i \in DOMAIN truth : stored.columns[i] = truth[i].col
  BY StoredRegular
<1>2. \A i \in DOMAIN truth : headers[i].build = truth[i].col.build
  BY <1>1 DEF ListHeaders
<1>3. IsGrid(stored, truth, Alerting) /\ AreColumns(truth) /\ IsTruth(truth, reads)
  BY TruthColumns DEF HistoryInv
<1>4. compare(stored, again, 0, recent) = [rows |-> "none", columns |-> "none"]
  <2>1. PICK g, r : g = again /\ r = recent
    OBVIOUS
  <2>2. IsGrid(g, truth, Alerting)
    BY <2>1, EncodedAgain
  <2>3. Seen(g, r) = Seen(stored, r) /\ g.columns = stored.columns
    BY <1>3, <2>2, SeenSame
  <2>4. compare(stored, g, 0, r) = [rows |-> "none", columns |-> "none"]
    BY <1>1, <2>3, NothingCompared
  <2> QED BY <2>1, <2>4
<1>5. DOMAIN stored = {"columns", "rows"}
  BY <1>3 DEF IsGrid
<1>6. ASSUME seen # {}
      PROVE  compare(stored, lost, 0, recent) = [rows |-> "none", columns |-> "other"]
  <2>1. PICK g, r : g = lost /\ r = recent
    OBVIOUS
  <2>2. g.rows = stored.rows /\ g.columns = Tail(stored.columns)
    BY <1>5, <2>1
  <2>3. Seen(stored, r) # {}
    BY <1>6, <2>1, SeenKeys
  <2>4. compare(stored, g, 0, r) = [rows |-> "none", columns |-> "other"]
    BY <1>1, <1>3, <2>2, <2>3, LostReported
  <2> QED BY <2>1, <2>4
<1>7. ASSUME "a" \in seen
      PROVE  compare(stored, twice, 0, recent) = [rows |-> "secondHasDuplicates", columns |-> "none"]
  <2>1. PICK g, r : g = twice /\ r = recent
    OBVIOUS
  <2>2. /\ g.columns = stored.columns
        /\ g.rows = [n \in DOMAIN stored.rows \cup {Duplicate} |->
                       IF n = Duplicate THEN stored.rows["a"] ELSE stored.rows[n]]
    BY <1>5, <2>1
  <2>3. "a" \in Seen(stored, r) /\ DOMAIN stored.columns # {}
    BY <1>7, <2>1, SeenKeys
  <2>4. compare(stored, g, 0, r) = [rows |-> "secondHasDuplicates", columns |-> "none"]
    BY <1>1, <2>2, <2>3, TwiceReported
  <2> QED BY <2>1, <2>4
<1>8. \A i \in DOMAIN truth, n \in DOMAIN stored.rows :
        Agrees(n, i, TruthCell(i, n), inflateRow(n, stored.rows[n], i), listed[n].cells[i])
  BY CellsAgree
<1>9. DOMAIN stored.rows = { n \in AllRows : \E i \in DOMAIN truth : TruthCell(i, n).res # "NO_RESULT" }
  BY NamesListed
<1> QED BY <1>2, <1>4, <1>6, <1>7, <1>8, <1>9, Zenon DEF RoundTrip, Agrees

(* However many cycles decode and encode a grid, each row decodes to the   *)
(* cells that were read for it, for the updater, the API and the comparer  *)
(* of states alike.                                                        *)
THEOREM GridRoundTrip == HistorySpec => []RoundTrip
<1>1. HistorySpec => []HistoryInv
  BY HistoryAlways
<1> QED BY <1>1, RoundTripHolds, PTL

-----------------------------------------------------------------------------
(* Results in a row: R are those of a row, coalesced.                      *)
Concluded(R, i) == { j \in 1 .. i : R[j] \in {"PASS", "FAIL", "FLAKY"} }
LastOnes(R, i, res) == { j \in Concluded(R, i) : \A l \in Concluded(R, i) : l >= j => R[l] = res }
StreakOf(R, i, c, res) ==
    /\ i \in Concluded(R, i)
    /\ \E S \in SUBSET Concluded(R, i) :
         /\ Cardinality(S) = c /\ i \in S
         /\ \A j \in S : R[j] = res
         /\ \A j \in Concluded(R, i) : j >= Min(S) => j \in S

LEMMA LastFinite ==
    ASSUME NEW R, NEW i \in Nat, NEW res, NEW T, T = LastOnes(R, i, res)
    PROVE  /\ IsFiniteSet(T) /\ Cardinality(T) \in Nat /\ T \in SUBSET (1 .. i)
           /\ \A j \in T : R[j] = res
<1>1. T \in SUBSET (1 .. i) /\ \A j \in T : R[j] = res
  BY DEF LastOnes, Concluded
<1>2. IsFiniteSet(1 .. i)
  BY FS_Interval
<1> QED BY <1>1, <1>2, FS_Subset, FS_CardinalityType

(* One column more.                                                        *)
LEMMA LastMore ==
    ASSUME NEW R, NEW i \in Nat, NEW res \in {"PASS", "FAIL"}
    PROVE  /\ R[i + 1] = res => LastOnes(R, i + 1, res) = LastOnes(R, i, res) \cup {i + 1}
           /\ R[i + 1] # res /\ R[i + 1] \in {"PASS", "FAIL", "FLAKY"} => LastOnes(R, i + 1, res) = {}
           /\ R[i + 1] \notin {"PASS", "FAIL", "FLAKY"} => LastOnes(R, i + 1, res) = LastOnes(R, i, res)
           /\ i + 1 \notin LastOnes(R, i, res)
<1>1. PICK C, D : C = Concluded(R, i) /\ D = Concluded(R, i + 1)
  OBVIOUS
<1>2. C \in SUBSET (1 .. i) /\ i + 1 \notin C
  BY <1>1 DEF Concluded
<1>3. \A j \in C : j < i + 1 /\ ~(j >= i + 1) /\ i + 1 >= j
  BY <1>2
<1>4. D = IF R[i + 1] \in {"PASS", "FAIL", "FLAKY"} THEN C \cup {i + 1} ELSE C
  <2>1. \A j : j \in 1 .. (i + 1) <=> j \in 1 .. i \/ j = i + 1
    OBVIOUS
  <2> QED BY <1>1, <2>1 DEF Concluded
<1>5. /\ LastOnes(R, i, res) = { j \in C : \A l \in C : l >= j => R[l] = res }
      /\ LastOnes(R, i + 1, res) = { j \in D : \A l \in D : l >= j => R[l] = res }
  BY <1>1 DEF LastOnes
<1>6. i + 1 >= i + 1
  OBVIOUS
<1>7. ASSUME R[i + 1] = res
      PROVE  LastOnes(R, i + 1, res) = LastOnes(R, i, res) \cup {i + 1}
  <2>1. D = C \cup {i + 1}
    BY <1>4, <1>7
  <2>2. PICK k : k = i + 1 /\ R[k] = res /\ D = C \cup {k} /\ k \notin C /\ \A j \in C : ~(j >= k)
    BY <1>2, <1>3, <1>7, <2>1
  <2>3. \A j \in C : (\A l \in D : l >= j => R[l] = res) <=> (\A l \in C : l >= j => R[l] = res)
    BY <2>2
  <2>4. \A l \in D : l >= k => R[l] = res
    BY <2>2
  <2> QED BY <1>5, <2>2, <2>3, <2>4
<1>8. ASSUME R[i + 1] # res, R[i + 1] \in {"PASS", "FAIL", "FLAKY"}
      PROVE  LastOnes(R, i + 1, res) = {}
  <2>1. PICK k : k = i + 1 /\ R[k] # res /\ k \in D /\ \A j \in D : k >= j
    BY <1>3, <1>4, <1>6, <1>8
  <2> QED BY <1>5, <2>1
<1> QED BY <1>2, <1>4, <1>5, <1>7, <1>8

(* A streak consists of the last ones.                                     *)
LEMMA StreakBound ==
    ASSUME NEW R, NEW i \in Nat, NEW c, NEW res, StreakOf(R, i, c, res)
    PROVE  R[i] = res /\ c <= Cardinality(LastOnes(R, i, res)) /\ c \in Nat /\ c # 0 /\ i # 0
<1>1. PICK S \in SUBSET Concluded(R, i) :
        /\ Cardinality(S) = c /\ i \in S
        /\ \A j \in S : R[j] = res
        /\ \A j \in Concluded(R, i) : j >= Min(S) => j \in S
  BY DEF StreakOf
<1>2. S \in SUBSET Int /\ S # {} /\ 0 \in Int /\ (\A x \in S : x >= 0) /\ i # 0
  BY <1>1 DEF Concluded
<1>3. PICK m : m = Min(S) /\ m \in S /\ \A x \in S : m <= x
  BY <1>2, MinOf
<1>4. ASSUME NEW j \in S PROVE j \in LastOnes(R, i, res)
  <2>1. j \in Concluded(R, i) /\ j \in Int /\ m \in Int /\ m <= j
    BY <1>2, <1>3
  <2>2. ASSUME NEW l \in Concluded(R, i), l >= j PROVE R[l] = res
    <3>1. l \in Int
      BY DEF Concluded
    <3>2. l >= m
      BY <2>1, <2>2, <3>1
    <3> QED BY <1>1, <1>3, <3>2
  <2> QED BY <2>1, <2>2 DEF LastOnes
<1>5. PICK T : T = LastOnes(R, i, res) /\ IsFiniteSet(T) /\ S \subseteq T
  BY <1>4, LastFinite
<1>6. IsFiniteSet(S) /\ Cardinality(S) <= Cardinality(T) /\ Cardinality(S) \in Nat /\ Cardinality(S) # 0
  BY <1>2, <1>5, FS_Subset, FS_CardinalityType, FS_EmptySet
<1> QED BY <1>1, <1>2, <1>5, <1>6

LEMMA StreakMade ==
    ASSUME NEW R, NEW i \in Nat \ {0}, NEW res \in {"PASS", "FAIL"}, R[i] = res,
           NEW c, c = Cardinality(LastOnes(R, i, res))
    PROVE  StreakOf(R, i, c, res)
<1>1. PICK C, T : C = Concluded(R, i) /\ T = LastOnes(R, i, res)
  OBVIOUS
<1>2. i \in C /\ T \subseteq C /\ C \subseteq 1 .. i
  BY <1>1 DEF Concluded, LastOnes
<1>3. i \in T
  <2>1. \A l \in C : l >= i => l = i
    BY <1>2
  <2> QED BY <1>1, <1>2, <2>1 DEF LastOnes
<1>4. T \in SUBSET Int /\ T # {} /\ 0 \in Int /\ \A x \in T : x >= 0
  BY <1>2, <1>3
<1>5. PICK m : m = Min(T) /\ m \in T
  BY <1>4, MinOf
<1>6. ASSUME NEW j \in C, j >= m PROVE j \in T
  <2>1. ASSUME NEW l \in C, l >= j PROVE R[l] = res
    <3>1. l \in Int /\ j \in Int /\ m \in Int
      BY <1>2, <1>5
    <3>2. l >= m
      BY <1>6, <2>1, <3>1
    <3> QED BY <1>1, <1>5, <3>2 DEF LastOnes
  <2> QED BY <1>1, <2>1 DEF LastOnes
<1>7. \A j \in T : R[j] = res
  BY <1>1, LastFinite
<1> QED BY <1>1, <1>2, <1>3, <1>5, <1>6, <1>7 DEF StreakOf

-----------------------------------------------------------------------------
(* The loop of alertRow over the cells V of a row, whose coalesced results *)
(* are R: what it knows of the failures among the first i.                 *)
Fails(R, i) == { j \in 1 .. i : R[j] = "FAIL" }
Marks(s, V, R, i) ==
    /\ s.total \in Nat /\ (s.total = 0 <=> Fails(R, i) = {})
    /\ Fails(R, i) # {} =>
         /\ s.latestFail \in Fails(R, i) /\ \A j \in Fails(R, i) : s.latestFail <= j
         /\ s.latestFailAt = Cardinality(Filled(V, s.latestFail - 1))
         /\ s.firstFail \in Fails(R, i) /\ \A j \in Fails(R, i) : j <= s.firstFail
         /\ s.failAt = Cardinality(Filled(V, s.firstFail - 1))

(* The first streak of failures that opens an outage, and the loop after i *)
(* cells that did not end it.                                              *)
Opened(R, F, o) == /\ StreakOf(R, o, F, "FAIL")
                   /\ \A j \in 1 .. (o - 1) : ~StreakOf(R, j, F, "FAIL")
OpenTo(R, F, i) == \E o \in 1 .. i : Opened(R, F, o) /\ \A j \in (o + 1) .. i : R[j] # "FLAKY"
Never(R, i, c, res) == \A j \in 1 .. i : ~StreakOf(R, j, c, res)

AlertFields == {"open", "total", "passes", "at", "firstFail", "latestFail", "latestPass",
                "failAt", "latestFailAt", "extra", "end"}
Going(s, V, R, i, F, P) ==
    /\ DOMAIN s = AlertFields /\ s.end = "no"
    /\ s.at = Cardinality(Filled(V, i)) /\ Marks(s, V, R, i)
    /\ s.passes = Cardinality(LastOnes(R, i, "PASS")) /\ s.passes < P /\ Never(R, i, P, "PASS")
    /\ s.open \in Nat
    /\ s.open < F => s.open = Cardinality(LastOnes(R, i, "FAIL")) /\ Never(R, i, F, "FAIL")
    /\ s.open >= F => OpenTo(R, F, i)

(* The loop that passes or a flaky cell have ended.                        *)
Closed(s, R, e, F, P) == s.end = "nil" /\ StreakOf(R, e, P, "PASS") /\ Never(R, e, F, "FAIL")
Broken(s, V, R, e, F, P) ==
    /\ s.end = "break" /\ s.open \in Nat /\ s.open >= F
    /\ Marks(s, V, R, e - 1) /\ Never(R, e - 1, P, "PASS") /\ OpenTo(R, F, e - 1)
    /\ StreakOf(R, e, P, "PASS") \/ R[e] = "FLAKY"

(* R is what alertRow makes of the results of V.                           *)
Reduced(R, V, n) == \A j \in 1 .. n : R[j] = Coalesce(V[j].res, TRUE)

LEMMA SeverityIs ==
    /\ statusSeverity["NO_RESULT"] = 1 /\ statusSeverity["RUNNING"] = 6 /\ statusSeverity["FLAKY"] = 11
    /\ statusSeverity["BUILD_PASSED"] = 2 /\ statusSeverity["PASS_WITH_ERRORS"] = 5
    /\ statusSeverity["TOOL_FAIL"] = 12 /\ statusSeverity["FAIL"] = 16
<1>1. DOMAIN Severity = 1 .. 16
  BY DEF Severity
<1>2. \A i \in 1 .. 16 : /\ Severity[i] = "NO_RESULT" <=> i = 1
                         /\ Severity[i] = "RUNNING" <=> i = 6
                         /\ Severity[i] = "FLAKY" <=> i = 11
                         /\ Severity[i] = "BUILD_PASSED" <=> i = 2
                         /\ Severity[i] = "PASS_WITH_ERRORS" <=> i = 5
                         /\ Severity[i] = "TOOL_FAIL" <=> i = 12
                         /\ Severity[i] = "FAIL" <=> i = 16
  BY DEF Severity
<1>3. ASSUME NEW r, NEW k \in 1 .. 16, \A i \in 1 .. 16 : Severity[i] = r <=> i = k
      PROVE  statusSeverity[r] = k
  <2>1. r \in Statuses
    BY <1>1, <1>3 DEF Statuses
  <2>2. statusSeverity[r] = CHOOSE i \in DOMAIN Severity : Severity[i] = r
    BY <2>1 DEF statusSeverity
  <2> QED BY <1>1, <1>3, <2>2
<1> QED BY <1>2, <1>3

LEMMA CoalesceIs ==
    ASSUME NEW r, NEW c, c = Coalesce(r, TRUE)
    PROVE  /\ c \in {"NO_RESULT", "FLAKY", "FAIL", "PASS", "UNKNOWN"}
           /\ c = "NO_RESULT" <=> r = "NO_RESULT" \/ r = "RUNNING"
           /\ c = "FLAKY" <=> r = "FLAKY"
<1>1. CASE r \in {"NO_RESULT", "RUNNING", "FLAKY"}
  <2>1. ~Failing(r) /\ ~Passing(r)
    BY <1>1, SeverityIs DEF Failing, Passing, GTE, LTE
  <2> QED BY <1>1, <2>1 DEF Coalesce
<1>2. CASE r \notin {"NO_RESULT", "RUNNING", "FLAKY"}
  BY <1>2 DEF Coalesce
<1> QED BY <1>1, <1>2

LEMMA FilledCount ==
    ASSUME NEW V, NEW i \in Nat, NEW x, x = Cardinality(Filled(V, i))
    PROVE  /\ x \in Nat
           /\ Cardinality(Filled(V, i + 1)) = IF V[i + 1].res = "NO_RESULT" THEN x ELSE x + 1
<1>1. IsFiniteSet(Filled(V, i)) /\ i + 1 \notin Filled(V, i)
  <2>1. Filled(V, i) \in SUBSET (1 .. i) /\ IsFiniteSet(1 .. i)
    BY FS_Interval DEF Filled
  <2>2. i + 1 \notin 1 .. i
    OBVIOUS
  <2> QED BY <2>1, <2>2, FS_Subset
<1>2. PICK S, T : S = Filled(V, i) /\ T = S \cup {i + 1}
  OBVIOUS
<1>3. Cardinality(T) = Cardinality(S) + 1
  BY <1>1, <1>2, FS_AddElement
<1> QED BY <1>1, <1>2, <1>3, FilledMore, FS_CardinalityType

(* x are counted of the first i, y of one more.                            *)
CountsTo(R, i, res, x, y) ==
    /\ x \in Nat
    /\ R[i + 1] = res => y = x + 1
    /\ R[i + 1] # res /\ R[i + 1] \in {"PASS", "FAIL", "FLAKY"} => y = 0
    /\ R[i + 1] \notin {"PASS", "FAIL", "FLAKY"} => y = x

LEMMA LastCount ==
    ASSUME NEW R, NEW i \in Nat, NEW res \in {"PASS", "FAIL"}, NEW x, x = Cardinality(LastOnes(R, i, res)),
           NEW y, y = Cardinality(LastOnes(R, i + 1, res))
    PROVE  CountsTo(R, i, res, x, y)
<1> USE DEF CountsTo
<1>1. PICK S : S = LastOnes(R, i, res) /\ IsFiniteSet(S) /\ x = Cardinality(S) /\ x \in Nat /\ i + 1 \notin S
  BY LastFinite, LastMore
<1>2. Cardinality(S \cup {i + 1}) = x + 1
  BY <1>1, FS_AddElement
<1>3. Cardinality({}) = 0
  BY FS_EmptySet
<1>4. PICK T : T = LastOnes(R, i + 1, res) /\ y = Cardinality(T)
  OBVIOUS
<1>5. /\ R[i + 1] = res => T = S \cup {i + 1}
      /\ R[i + 1] # res /\ R[i + 1] \in {"PASS", "FAIL", "FLAKY"} => T = {}
      /\ R[i + 1] \notin {"PASS", "FAIL", "FLAKY"} => T = S
  BY <1>1, <1>4, LastMore
<1> QED BY <1>1, <1>2, <1>3, <1>4, <1>5

LEMMA NeverMore ==
    ASSUME NEW R, NEW i \in Nat, NEW c, NEW res, Never(R, i, c, res), ~StreakOf(R, i + 1, c, res)
    PROVE  Never(R, i + 1, c, res)
<1>1. \A j \in 1 .. (i + 1) : j \in 1 .. i \/ j = i + 1
  OBVIOUS
<1> QED BY <1>1 DEF Never

LEMMA OpenMore ==
    ASSUME NEW R, NEW i \in Nat, NEW F, OpenTo(R, F, i), R[i + 1] # "FLAKY"
    PROVE  OpenTo(R, F, i + 1)
<1>1. PICK o \in 1 .. i : Opened(R, F, o) /\ \A j \in (o + 1) .. i : R[j] # "FLAKY"
  BY DEF OpenTo
<1>2. o \in 1 .. (i + 1) /\ \A j \in (o + 1) .. (i + 1) : j \in (o + 1) .. i \/ j = i + 1
  OBVIOUS
<1> QED BY <1>1, <1>2 DEF OpenTo

MarksAs(t, s) == /\ t.total = s.total /\ t.latestFail = s.latestFail /\ t.latestFailAt = s.latestFailAt
                 /\ t.firstFail = s.firstFail /\ t.failAt = s.failAt

LEMMA MarksKept ==
    ASSUME NEW V, NEW R, NEW i \in Nat, NEW s, Marks(s, V, R, i), NEW t, MarksAs(t, s)
    PROVE  Marks(t, V, R, i) /\ (R[i + 1] # "FAIL" => Marks(t, V, R, i + 1))
<1>1. R[i + 1] # "FAIL" => Fails(R, i + 1) = Fails(R, i)
  <2>1. \A j : j \in 1 .. (i + 1) <=> j \in 1 .. i \/ j = i + 1
    OBVIOUS
  <2> QED BY <2>1 DEF Fails
<1>2. Marks(t, V, R, i)
  BY DEF Marks, MarksAs
<1> QED BY <1>1, <1>2 DEF Marks

LEMMA MarksFail ==
    ASSUME NEW V, NEW R, NEW i \in Nat, R[i + 1] = "FAIL", NEW s, Marks(s, V, R, i),
           s.at = Cardinality(Filled(V, i)),
           NEW t, t.total = s.total + 1,
           t.latestFail = IF s.total = 0 THEN i + 1 ELSE s.latestFail,
           t.latestFailAt = IF s.total = 0 THEN s.at ELSE s.latestFailAt,
           t.firstFail = i + 1, t.failAt = s.at
    PROVE  Marks(t, V, R, i + 1)
<1>1. PICK f, k : f = Fails(R, i) /\ k = i + 1 /\ Fails(R, k) = f \cup {k} /\ f \subseteq 1 .. i
  <2>1. \A j : j \in 1 .. (i + 1) <=> j \in 1 .. i \/ j = i + 1
    OBVIOUS
  <2>2. Fails(R, i + 1) = Fails(R, i) \cup {i + 1}
    BY <2>1 DEF Fails
  <2>3. Fails(R, i) \subseteq 1 .. i
    BY DEF Fails
  <2> QED BY <2>2, <2>3
<1>2. k \in Nat /\ k - 1 = i /\ k <= k /\ \A j \in f : j <= k
  BY <1>1
<1>3. s.total \in Nat /\ (s.total = 0 <=> f = {})
  BY <1>1 DEF Marks
<1>4. t.total \in Nat /\ t.total # 0 /\ Fails(R, k) # {}
  BY <1>1, <1>3
<1>5. t.firstFail \in Fails(R, k) /\ \A j \in Fails(R, k) : j <= t.firstFail
  BY <1>1, <1>2
<1>6. t.failAt = Cardinality(Filled(V, t.firstFail - 1))
  BY <1>1, <1>2
<1>7. CASE s.total = 0
  BY <1>1, <1>2, <1>3, <1>4, <1>5, <1>6, <1>7 DEF Marks
<1>8. CASE s.total # 0
  <2>1. /\ s.latestFail \in f /\ \A j \in f : s.latestFail <= j
        /\ s.latestFailAt = Cardinality(Filled(V, s.latestFail - 1))
    BY <1>1, <1>3, <1>8 DEF Marks
  <2>2. t.latestFail = s.latestFail /\ t.latestFailAt = s.latestFailAt
    BY <1>8
  <2>3. t.latestFail \in Fails(R, k) /\ \A j \in Fails(R, k) : t.latestFail <= j
    BY <1>1, <1>2, <2>1, <2>2
  <2> QED BY <1>1, <1>4, <1>5, <1>6, <2>1, <2>2, <2>3 DEF Marks
<1> QED BY <1>7, <1>8


(* What a turn of the loop makes of its state.                             *)
Turned(t, s, cell, res) ==
    /\ res \in {"NO_RESULT", "UNKNOWN"} =>
         /\ DOMAIN t = AlertFields /\ MarksAs(t, s)
         /\ t.end = "no" /\ t.open = s.open /\ t.passes = s.passes
         /\ t.at = IF cell.raw = "NO_RESULT" THEN s.at ELSE s.at + 1
    /\ res = "FAIL" =>
         /\ DOMAIN t = AlertFields /\ t.end = "no" /\ t.open = s.open + 1 /\ t.passes = 0
         /\ t.total = s.total + 1 /\ t.firstFail = cell.i /\ t.failAt = s.at
         /\ t.latestFail = IF s.total = 0 THEN cell.i ELSE s.latestFail
         /\ t.latestFailAt = IF s.total = 0 THEN s.at ELSE s.latestFailAt
         /\ t.at = s.at + 1
    /\ res = "FLAKY" =>
         /\ DOMAIN t = AlertFields /\ MarksAs(t, s) /\ t.passes = 0
         /\ IF s.open >= cell.open THEN t.open = s.open /\ t.end = "break"
            ELSE t.open = 0 /\ t.end = "no" /\ t.at = s.at + 1
    /\ res = "PASS" =>
         /\ DOMAIN t = AlertFields /\ MarksAs(t, s) /\ t.passes = s.passes + 1
         /\ IF s.passes + 1 >= cell.close
              THEN IF s.open >= cell.open THEN t.open = s.open /\ t.end = "break" ELSE t.end = "nil"
            ELSE /\ t.end = "no" /\ t.at = s.at + 1
                 /\ t.open = IF s.open >= cell.open THEN s.open ELSE 0

LEMMA TurnIs ==
    ASSUME NEW s, DOMAIN s = AlertFields, s.end = "no", NEW cell, NEW res, res = Coalesce(cell.raw, TRUE),
           NEW t, t = AlertStep(s, cell)
    PROVE  Turned(t, s, cell, res)
<1> USE DEF Turned
<1>1. PICK u : u = CASE res = "PASS" -> PassCell(s, cell.i, cell.open, cell.close)
                     [] res = "FAIL" -> FailCell(s, cell.i)
                     [] res = "FLAKY" -> FlakyCell(s, cell.open)
                     [] OTHER -> s
  OBVIOUS
<1>2. t = IF res = "NO_RESULT" THEN SkipCell(s, cell.raw)
          ELSE IF u.end # "no" THEN u
          ELSE [u EXCEPT !.at = @ + 1, !.extra = cell.extra]
  BY <1>1, Zenon DEF AlertStep
<1>3. CASE res = "NO_RESULT"
  <2>1. cell.raw = "NO_RESULT" \/ cell.raw = "RUNNING"
    BY <1>3, CoalesceIs
  <2> QED BY <1>2, <1>3, <2>1 DEF SkipCell, AlertFields, MarksAs
<1>4. CASE res = "UNKNOWN"
  <2>1. cell.raw # "NO_RESULT" /\ u = s
    BY <1>1, <1>4, CoalesceIs
  <2> QED BY <1>2, <1>4, <2>1 DEF AlertFields, MarksAs
<1>5. CASE res = "FAIL"
  <2>1. u = FailCell(s, cell.i)
    BY <1>1, <1>5
  <2>2. /\ DOMAIN u = AlertFields /\ u.end = "no" /\ u.open = s.open + 1 /\ u.passes = 0
        /\ u.total = s.total + 1 /\ u.firstFail = cell.i /\ u.failAt = s.at
        /\ u.latestFail = IF s.total = 0 THEN cell.i ELSE s.latestFail
        /\ u.latestFailAt = IF s.total = 0 THEN s.at ELSE s.latestFailAt
        /\ u.at = s.at
    BY <2>1 DEF FailCell, AlertFields
  <2>3. t = [u EXCEPT !.at = @ + 1, !.extra = cell.extra]
    BY <1>2, <1>5, <2>2
  <2>4. /\ DOMAIN t = AlertFields /\ t.end = u.end /\ t.open = u.open /\ t.passes = u.passes
        /\ t.total = u.total /\ t.firstFail = u.firstFail /\ t.failAt = u.failAt
        /\ t.latestFail = u.latestFail /\ t.latestFailAt = u.latestFailAt /\ t.at = u.at + 1
    BY <2>2, <2>3 DEF AlertFields
  <2> HIDE <1>2
  <2> QED BY <1>5, <2>2, <2>4
<1>6. CASE res = "FLAKY"
  <2>1. u = FlakyCell(s, cell.open)
    BY <1>1, <1>6
  <2>2. /\ DOMAIN u = AlertFields /\ MarksAs(u, s) /\ u.passes = 0 /\ u.at = s.at
        /\ IF s.open >= cell.open THEN u.open = s.open /\ u.end = "break" ELSE u.open = 0 /\ u.end = "no"
    BY <2>1 DEF FlakyCell, AlertFields, MarksAs
  <2> QED BY ZenonT(30), <1>2, <1>6, <2>2 DEF AlertFields, MarksAs
<1>7. CASE res = "PASS"
  <2>1. u = PassCell(s, cell.i, cell.open, cell.close)
    BY <1>1, <1>7
  <2>2. PICK p, v : p = s.passes + 1 /\ v = [s EXCEPT !.passes = p]
    OBVIOUS
  <2>3. DOMAIN v = AlertFields /\ MarksAs(v, s) /\ v.passes = p /\ v.at = s.at /\ v.open = s.open /\ v.end = "no"
    BY <2>2 DEF AlertFields, MarksAs
  <2>4. u = IF s.open >= cell.open
              THEN [v EXCEPT !.latestPass = IF @ = 0 THEN cell.i ELSE @,
                             !.end = IF p >= cell.close THEN "break" ELSE "no"]
            ELSE IF p >= cell.close THEN [v EXCEPT !.end = "nil"]
            ELSE [v EXCEPT !.open = 0]
    BY <2>1, <2>2, Zenon DEF PassCell
  <2>5. /\ DOMAIN u = AlertFields /\ MarksAs(u, s) /\ u.passes = p /\ u.at = s.at
        /\ IF p >= cell.close
             THEN IF s.open >= cell.open THEN u.open = s.open /\ u.end = "break" ELSE u.end = "nil"
           ELSE u.end = "no" /\ u.open = IF s.open >= cell.open THEN s.open ELSE 0
    BY <2>3, <2>4 DEF AlertFields, MarksAs
  <2> QED BY ZenonT(30), <1>2, <1>7, <2>2, <2>5 DEF AlertFields, MarksAs
<1>8. res \in {"NO_RESULT", "FLAKY", "FAIL", "PASS", "UNKNOWN"}
  BY CoalesceIs
<1> QED BY <1>3, <1>4, <1>5, <1>6, <1>7, <1>8

(* A turn for the next cell, whose result is r when it is coalesced.       *)
LEMMA GoesOn ==
    ASSUME NEW V, NEW R, NEW i \in Nat, NEW F \in Nat \ {0}, NEW P \in Nat,
           NEW s, Going(s, V, R, i, F, P),
           NEW cell, cell.i = i + 1, cell.raw = V[i + 1].res, R[i + 1] = Coalesce(cell.raw, TRUE),
           cell.open = F, cell.close = P,
           NEW t, t = AlertStep(s, cell)
    PROVE  Going(t, V, R, i + 1, F, P) \/ Closed(t, R, i + 1, F, P) \/ Broken(t, V, R, i + 1, F, P)
<1>1. PICK k, r : /\ k = i + 1 /\ r = R[k] /\ k \in Nat /\ k \in Nat \ {0} /\ k - 1 = i
                  /\ cell.i = k /\ cell.raw = V[k].res /\ r = Coalesce(cell.raw, TRUE)
  <2>1. PICK k : k = i + 1 /\ k \in Nat \ {0} /\ k - 1 = i
    OBVIOUS
  <2>2. PICK r : r = R[k]
    OBVIOUS
  <2> QED BY <2>1, <2>2
<1>2. r \in {"NO_RESULT", "FLAKY", "FAIL", "PASS", "UNKNOWN"} /\ (cell.raw = "NO_RESULT" => r = "NO_RESULT")
  BY <1>1, CoalesceIs
<1>3. /\ DOMAIN s = AlertFields /\ s.end = "no"
      /\ s.at = Cardinality(Filled(V, i)) /\ Marks(s, V, R, i)
      /\ s.passes = Cardinality(LastOnes(R, i, "PASS")) /\ s.passes < P /\ Never(R, i, P, "PASS")
      /\ s.open \in Nat
      /\ s.open < F => s.open = Cardinality(LastOnes(R, i, "FAIL")) /\ Never(R, i, F, "FAIL")
      /\ s.open >= F => OpenTo(R, F, i)
  BY DEF Going
<1>4. PICK a, p, f : /\ a = Cardinality(Filled(V, k)) /\ p = Cardinality(LastOnes(R, k, "PASS"))
                     /\ f = Cardinality(LastOnes(R, k, "FAIL"))
                     /\ p = Cardinality(LastOnes(R, i + 1, "PASS"))
                     /\ f = Cardinality(LastOnes(R, i + 1, "FAIL"))
  BY <1>1
<1>5. a = (IF cell.raw = "NO_RESULT" THEN s.at ELSE s.at + 1) /\ s.at \in Nat
  BY <1>1, <1>3, <1>4, FilledCount
<1>a. Turned(t, s, cell, r)
  BY <1>1, <1>3, TurnIs
<1>6. /\ s.passes \in Nat
      /\ r = "PASS" => p = s.passes + 1
      /\ r \in {"FAIL", "FLAKY"} => p = 0
      /\ r \in {"NO_RESULT", "UNKNOWN"} => p = s.passes
  <2>1. PICK x : x = s.passes /\ x = Cardinality(LastOnes(R, i, "PASS"))
    BY <1>3
  <2>2. CountsTo(R, i, "PASS", x, p)
    BY <1>4, <2>1, LastCount
  <2> QED BY <1>1, <2>1, <2>2 DEF CountsTo
<1>7. s.open < F => /\ r = "FAIL" => f = s.open + 1
                    /\ r \in {"PASS", "FLAKY"} => f = 0
                    /\ r \in {"NO_RESULT", "UNKNOWN"} => f = s.open
  <2> SUFFICES ASSUME s.open < F
               PROVE  /\ r = "FAIL" => f = s.open + 1
                      /\ r \in {"PASS", "FLAKY"} => f = 0
                      /\ r \in {"NO_RESULT", "UNKNOWN"} => f = s.open
    OBVIOUS
  <2>1. PICK x : x = s.open /\ x = Cardinality(LastOnes(R, i, "FAIL"))
    BY <1>3
  <2>2. CountsTo(R, i, "FAIL", x, f)
    BY <1>4, <2>1, LastCount
  <2> QED BY <1>1, <2>1, <2>2 DEF CountsTo
<1>8. r # "PASS" \/ p < P => Never(R, k, P, "PASS")
  <2>1. p \in Nat
    BY <1>2, <1>6
  <2>2. StreakOf(R, k, P, "PASS") => r = "PASS" /\ P <= p
    <3>1. StreakOf(R, k, P, "PASS") => R[k] = "PASS" /\ P <= Cardinality(LastOnes(R, k, "PASS"))
      BY <1>1, StreakBound
    <3> QED BY <1>1, <1>4, <3>1
  <2>3. r # "PASS" \/ p < P => ~StreakOf(R, k, P, "PASS")
    BY <2>1, <2>2
  <2> QED BY <1>1, <1>3, <2>3, NeverMore
<1>9. s.open < F /\ (r # "FAIL" \/ f < F) => Never(R, k, F, "FAIL")
  <2> SUFFICES ASSUME s.open < F, r # "FAIL" \/ f < F PROVE Never(R, k, F, "FAIL")
    OBVIOUS
  <2>1. f \in Nat
    BY <1>2, <1>3, <1>7
  <2>2. ~StreakOf(R, k, F, "FAIL")
    <3>1. StreakOf(R, k, F, "FAIL") => R[k] = "FAIL" /\ F <= Cardinality(LastOnes(R, k, "FAIL"))
      BY <1>1, StreakBound
    <3>2. StreakOf(R, k, F, "FAIL") => r = "FAIL" /\ F <= f
      BY <1>1, <1>4, <3>1
    <3> QED BY <2>1, <3>2
  <2> QED BY <1>1, <1>3, <2>2, NeverMore
<1>10. r # "FLAKY" /\ OpenTo(R, F, i) => OpenTo(R, F, k)
  BY <1>1, OpenMore
<1>11. r = "PASS" => StreakOf(R, k, p, "PASS")
  BY <1>1, <1>4, StreakMade
<1>12. r = "FAIL" => StreakOf(R, k, f, "FAIL")
  BY <1>1, <1>4, StreakMade
<1>13. MarksAs(t, s) => Marks(t, V, R, i) /\ (r # "FAIL" => Marks(t, V, R, k))
  BY <1>1, <1>3, MarksKept
<1>14. CASE r \in {"NO_RESULT", "UNKNOWN"}
  <2>1. /\ DOMAIN t = AlertFields /\ MarksAs(t, s)
        /\ t.end = "no" /\ t.open = s.open /\ t.passes = s.passes
        /\ t.at = IF cell.raw = "NO_RESULT" THEN s.at ELSE s.at + 1
    BY <1>1, <1>a, <1>14 DEF Turned
  <2>2. Going(t, V, R, k, F, P)
    BY <1>3, <1>4, <1>5, <1>6, <1>7, <1>8, <1>9, <1>10, <1>13, <1>14, <2>1 DEF Going
  <2> QED BY <1>1, <2>2
<1>15. CASE r = "FAIL"
  <2>1. /\ DOMAIN t = AlertFields /\ t.end = "no" /\ t.open = s.open + 1 /\ t.passes = 0
        /\ t.total = s.total + 1 /\ t.firstFail = k /\ t.failAt = s.at
        /\ t.latestFail = IF s.total = 0 THEN k ELSE s.latestFail
        /\ t.latestFailAt = IF s.total = 0 THEN s.at ELSE s.latestFailAt
        /\ t.at = s.at + 1
    BY <1>1, <1>a, <1>15 DEF Turned
  <2>2. Marks(t, V, R, k)
    BY ZenonT(30), <1>1, <1>3, <1>15, <2>1, MarksFail
  <2>3. t.open \in Nat /\ (t.open < F => t.open = f /\ Never(R, k, F, "FAIL"))
    BY <1>3, <1>7, <1>9, <1>15, <2>1
  <2>4. ASSUME t.open >= F PROVE OpenTo(R, F, k)
    <3>1. CASE s.open >= F
      BY <1>3, <1>10, <1>15, <3>1
    <3>2. CASE s.open < F
      <4>1. f = F
        BY <1>3, <1>7, <1>15, <2>1, <2>4, <3>2
      <4>2. Opened(R, F, k)
        BY <1>1, <1>3, <1>12, <1>15, <3>2, <4>1 DEF Opened, Never
      <4>3. k \in 1 .. k /\ (k + 1) .. k = {}
        BY <1>1
      <4> QED BY <4>2, <4>3 DEF OpenTo
    <3> QED BY <1>3, <3>1, <3>2
  <2>5. t.at = a /\ t.passes = p /\ t.passes < P
    BY <1>2, <1>3, <1>5, <1>6, <1>15, <2>1
  <2>6. Going(t, V, R, k, F, P)
    BY <1>4, <1>8, <1>15, <2>1, <2>2, <2>3, <2>4, <2>5 DEF Going
  <2> QED BY <1>1, <2>6
<1>16. CASE r = "FLAKY"
  <2>1. /\ DOMAIN t = AlertFields /\ MarksAs(t, s) /\ t.passes = 0
        /\ IF s.open >= F THEN t.open = s.open /\ t.end = "break"
           ELSE t.open = 0 /\ t.end = "no" /\ t.at = s.at + 1
    BY <1>1, <1>a, <1>16 DEF Turned
  <2>2. CASE s.open >= F
    <3>1. Broken(t, V, R, k, F, P)
      BY <1>1, <1>3, <1>13, <1>16, <2>1, <2>2 DEF Broken
    <3> QED BY <1>1, <3>1
  <2>3. CASE s.open < F
    <3>1. t.open = 0 /\ t.end = "no" /\ t.at = a /\ t.passes = p /\ t.passes < P
      BY <1>2, <1>3, <1>5, <1>6, <1>16, <2>1, <2>3
    <3>2. t.open = f /\ t.open < F
      BY <1>7, <1>16, <2>3, <3>1
    <3>3. Going(t, V, R, k, F, P)
      BY <1>4, <1>8, <1>9, <1>13, <1>16, <2>1, <2>3, <3>1, <3>2 DEF Going
    <3> QED BY <1>1, <3>3
  <2> QED BY <1>3, <2>2, <2>3
<1>17. CASE r = "PASS"
  <2>1. /\ DOMAIN t = AlertFields /\ MarksAs(t, s) /\ t.passes = s.passes + 1
        /\ IF s.passes + 1 >= P
             THEN IF s.open >= F THEN t.open = s.open /\ t.end = "break" ELSE t.end = "nil"
           ELSE /\ t.end = "no" /\ t.at = s.at + 1
                /\ t.open = IF s.open >= F THEN s.open ELSE 0
    BY <1>1, <1>a, <1>17 DEF Turned
  <2>2. t.passes = p /\ p = s.passes + 1 /\ (p >= P => p = P)
    BY <1>3, <1>6, <1>17, <2>1
  <2>3. CASE p >= P /\ s.open >= F
    <3>1. Broken(t, V, R, k, F, P)
      BY <1>1, <1>3, <1>11, <1>13, <1>17, <2>1, <2>2, <2>3 DEF Broken
    <3> QED BY <1>1, <3>1
  <2>4. CASE p >= P /\ s.open < F
    <3>1. t.end = "nil"
      BY <1>3, <2>1, <2>2, <2>4
    <3>2. Closed(t, R, k, F, P)
      BY <1>9, <1>11, <1>17, <2>2, <2>4, <3>1 DEF Closed
    <3> QED BY <1>1, <3>2
  <2>5. CASE ~(p >= P)
    <3>1. t.end = "no" /\ t.at = a /\ t.open = (IF s.open >= F THEN s.open ELSE 0) /\ p < P
      BY <1>2, <1>3, <1>5, <1>6, <1>17, <2>1, <2>2, <2>5
    <3>2. CASE s.open >= F
      <4>1. t.open = s.open /\ t.open \in Nat /\ t.open >= F /\ ~(t.open < F) /\ OpenTo(R, F, k)
        BY <1>3, <1>10, <1>17, <3>1, <3>2
      <4>2. Marks(t, V, R, k) /\ Never(R, k, P, "PASS")
        BY <1>8, <1>13, <1>17, <2>1, <3>1
      <4>3. Going(t, V, R, k, F, P)
        BY <1>4, <2>1, <2>2, <3>1, <4>1, <4>2 DEF Going
      <4> QED BY <1>1, <4>3
    <3>3. CASE s.open < F
      <4>1. t.open = 0 /\ t.open = f /\ t.open < F /\ ~(t.open >= F) /\ t.open \in Nat
        BY <1>3, <1>7, <1>17, <3>1, <3>3
      <4>2. Marks(t, V, R, k) /\ Never(R, k, P, "PASS") /\ Never(R, k, F, "FAIL")
        BY <1>8, <1>9, <1>13, <1>17, <2>1, <3>1, <3>3
      <4>3. Going(t, V, R, k, F, P)
        BY <1>4, <2>1, <2>2, <3>1, <4>1, <4>2 DEF Going
      <4> QED BY <1>1, <4>3
    <3> QED BY <1>3, <3>2, <3>3
  <2> QED BY <1>3, <2>3, <2>4, <2>5
<1> QED BY <1>2, <1>14, <1>15, <1>16, <1>17

Looped(s, V, R, i, F, P) ==
    Going(s, V, R, i, F, P) \/ \E e \in 1 .. i : Closed(s, R, e, F, P) \/ Broken(s, V, R, e, F, P)

(* What alertRow's loop is given of the i-th cell.                         *)
CellAsked(cell, V, R, i, F, P) ==
    /\ cell.i = i /\ cell.raw = V[i].res /\ R[i] = Coalesce(cell.raw, TRUE)
    /\ cell.open = F /\ cell.close = P

LEMMA LoopStarts ==
    ASSUME NEW V, NEW R, NEW F \in Nat \ {0}, NEW P \in Nat \ {0}
    PROVE  Going(AlertStart, V, R, 0, F, P)
<1>1. PICK e : e = {} /\ Cardinality(e) = 0
  BY FS_EmptySet
<1>2. Filled(V, 0) = e /\ Fails(R, 0) = e /\ LastOnes(R, 0, "PASS") = e /\ LastOnes(R, 0, "FAIL") = e
  BY <1>1 DEF Filled, Fails, LastOnes, Concluded
<1>3. Marks(AlertStart, V, R, 0)
  BY <1>1, <1>2 DEF Marks, AlertStart
<1>4. Never(R, 0, P, "PASS") /\ Never(R, 0, F, "FAIL")
  BY DEF Never
<1>5. /\ DOMAIN AlertStart = AlertFields /\ AlertStart.end = "no" /\ AlertStart.at = 0
      /\ AlertStart.passes = 0 /\ AlertStart.open = 0
  BY DEF AlertStart, AlertFields
<1> QED BY <1>1, <1>2, <1>3, <1>4, <1>5 DEF Going

LEMMA LoopTurns ==
    ASSUME NEW V, NEW R, NEW i \in Nat, NEW F \in Nat \ {0}, NEW P \in Nat,
           NEW s, Looped(s, V, R, i, F, P), NEW cell, CellAsked(cell, V, R, i + 1, F, P)
    PROVE  Looped(AlertStep(s, cell), V, R, i + 1, F, P)
<1>1. PICK k, t : k = i + 1 /\ t = AlertStep(s, cell)
  OBVIOUS
<1>2. k \in 1 .. k /\ 1 .. i \subseteq 1 .. k
  BY <1>1
<1>3. CASE Going(s, V, R, i, F, P)
  <2>1. Going(t, V, R, i + 1, F, P) \/ Closed(t, R, i + 1, F, P) \/ Broken(t, V, R, i + 1, F, P)
    BY <1>1, <1>3, GoesOn DEF CellAsked
  <2> QED BY <1>1, <1>2, <2>1 DEF Looped
<1>4. CASE ~Going(s, V, R, i, F, P)
  <2>1. PICK e \in 1 .. i : Closed(s, R, e, F, P) \/ Broken(s, V, R, e, F, P)
    BY <1>4 DEF Looped
  <2>2. s.end # "no"
    BY <2>1 DEF Closed, Broken
  <2>3. t = s
    BY <1>1, <2>2 DEF AlertStep
  <2> QED BY <1>1, <1>2, <2>1, <2>3 DEF Looped
<1> QED BY <1>3, <1>4

LEMMA LoopIs ==
    ASSUME NEW V, NEW R, NEW F \in Nat \ {0}, NEW P \in Nat \ {0},
           NEW cells, NEW n \in Nat, Len(cells) = n, \A i \in 1 .. n : CellAsked(cells[i], V, R, i, F, P)
    PROVE  Looped(Alerts!Fold(AlertStart, cells), V, R, n, F, P)
<1>1. PICK f : /\ f = [i \in 0 .. Len(cells) |-> IF i = 0 THEN AlertStart ELSE AlertStep(f[i - 1], cells[i])]
               /\ Alertings!Fold(AlertStart, cells) = f[Len(cells)]
  BY Alertings!FoldDefined
<1> DEFINE S == { k \in Nat : k <= n => Looped(f[k], V, R, k, F, P) }
<1>2. 0 \in S
  <2>1. f[0] = AlertStart
    BY <1>1
  <2>2. Looped(AlertStart, V, R, 0, F, P)
    BY LoopStarts DEF Looped
  <2> QED BY <2>1, <2>2
<1>3. ASSUME NEW k \in Nat, k \in S PROVE k + 1 \in S
  <2> SUFFICES ASSUME k + 1 <= n PROVE Looped(f[k + 1], V, R, k + 1, F, P)
    OBVIOUS
  <2>1. k + 1 \in 0 .. Len(cells) /\ k + 1 # 0 /\ (k + 1) - 1 = k /\ k <= n /\ k + 1 \in 1 .. n
    OBVIOUS
  <2>2. f[k + 1] = AlertStep(f[k], cells[k + 1])
    BY <1>1, <2>1
  <2>3. Looped(f[k], V, R, k, F, P) /\ CellAsked(cells[k + 1], V, R, k + 1, F, P)
    BY <1>3, <2>1
  <2> QED BY <2>2, <2>3, LoopTurns
<1>4. n \in S
  <2> HIDE DEF S
  <2> QED BY <1>2, <1>3, Joins!NatInductionOnSets
<1>5. Looped(f[n], V, R, n, F, P)
  BY <1>4
<1>6. Alerts!Fold(AlertStart, cells) = Alertings!Fold(AlertStart, cells)
  BY DEF Alerts!Fold, Alertings!Fold
<1> QED BY <1>1, <1>5, <1>6

(* The alert of a row that encodes the cells V of the columns.             *)
LEMMA AlertRowIs ==
    ASSUME NEW V, NEW R, NEW n \in Nat, Reduced(R, V, n),
           NEW F \in Nat \ {0}, NEW P \in Nat \ {0}, NEW commit,
           NEW name, NEW row, Encodes(name, row, V, n),
           NEW columns, Len(columns) = n, DOMAIN columns = 1 .. n,
           NEW alert, alert = alertRow(columns, row, F, P, commit)
    PROVE  \E s : /\ Looped(s, V, R, n, F, P)
                  /\ alert = IF s.end = "nil" \/ s.open < F THEN NoAlert
                             ELSE alertInfo(columns, row, s, commit)
<1>1. PICK out : out = Iter(row.results) /\ Len(out) = n /\ \A i \in 1 .. n : out[i] = V[i].res
  BY DEF Encodes
<1>2. PICK cells : cells = [i \in DOMAIN columns |->
                              [i |-> i, raw |-> Call(out, i), extra |-> columns[i].extra,
                               open |-> F, close |-> P]]
  OBVIOUS
<1>3. PICK s : s = Alerts!Fold(AlertStart, cells)
  OBVIOUS
<1>4. alert = IF F = 0 \/ s.end = "nil" \/ s.open < F THEN NoAlert ELSE alertInfo(columns, row, s, commit)
  BY <1>1, <1>2, <1>3, Zenon DEF alertRow
<1>5. Len(cells) = n
  BY <1>2
<1>6. ASSUME NEW i \in 1 .. n PROVE CellAsked(cells[i], V, R, i, F, P)
  <2>1. Call(out, i) = V[i].res
    BY <1>1 DEF Call
  <2> QED BY <1>2, <2>1 DEF CellAsked, Reduced
<1>7. Looped(s, V, R, n, F, P)
  BY <1>3, <1>5, <1>6, LoopIs
<1> QED BY <1>4, <1>7

LEMMA MinIs ==
    ASSUME NEW S \in SUBSET Nat, NEW m \in S, \A x \in S : m <= x
    PROVE  Min(S) = m
<1>1. S \in SUBSET Int /\ S # {} /\ m \in Int /\ \A x \in S : x >= m
  OBVIOUS
<1>2. PICK a : a = Min(S) /\ a \in S /\ \A x \in S : a <= x
  BY <1>1, MinOf
<1> QED BY <1>2

LEMMA MaxIs ==
    ASSUME NEW S \in SUBSET Nat, NEW m \in S, \A x \in S : x <= m
    PROVE  Max(S) = m
<1>1. S \in SUBSET Int /\ S # {} /\ m \in Int
  OBVIOUS
<1>2. PICK a : a = Max(S) /\ a \in S /\ \A x \in S : x <= a
  BY <1>1, MaxOf
<1> QED BY <1>2

(* What the alert of a row should be, by its n coalesced results.          *)
Opens(R, n, F) == { i \in 1 .. n : StreakOf(R, i, F, "FAIL") }
Closes(R, n, P) == { i \in 1 .. n : StreakOf(R, i, P, "PASS") }
EndsOf(R, n, F, P) == { i \in 1 .. n : i > Min(Opens(R, n, F)) /\ (i \in Closes(R, n, P) \/ R[i] = "FLAKY") }
Should(R, n, F, P) == /\ Opens(R, n, F) # {}
                      /\ Closes(R, n, P) = {} \/ Min(Opens(R, n, F)) < Min(Closes(R, n, P))
NewestFail(R, n) == Min(Fails(R, n))
Ongoing(R, n, ends) == { i \in 1 .. n : R[i] = "FAIL" /\ (ends = {} \/ i < Min(ends)) }

(* What the loop knows of the outage: where it was last marked.            *)
Marked(V, R, n, at, k) == /\ k \in 1 .. n /\ R[k] = "FAIL"
                             /\ at = Cardinality(Filled(V, k - 1))
Reported(s, V, R, n, F, P) ==
    /\ Should(R, n, F, P) /\ s.total \in Nat /\ s.total # 0
    /\ s.latestFail = NewestFail(R, n) /\ Marked(V, R, n, s.latestFailAt, s.latestFail)
    /\ s.firstFail = Max(Ongoing(R, n, EndsOf(R, n, F, P))) /\ Marked(V, R, n, s.failAt, s.firstFail)

LEMMA OpenOutcome ==
    ASSUME NEW V, NEW R, NEW n \in Nat, NEW F, NEW P, NEW s, NEW z \in 0 .. n,
           Marks(s, V, R, z), Never(R, z, P, "PASS"), OpenTo(R, F, z),
           z # n => z + 1 \in 1 .. n /\ (StreakOf(R, z + 1, P, "PASS") \/ R[z + 1] = "FLAKY")
    PROVE  Reported(s, V, R, n, F, P)
<1>1. PICK o \in 1 .. z : Opened(R, F, o) /\ \A j \in (o + 1) .. z : R[j] # "FLAKY"
  BY DEF OpenTo
<1>2. PICK opens, closes, ends : /\ opens = Opens(R, n, F) /\ closes = Closes(R, n, P)
                                 /\ ends = EndsOf(R, n, F, P)
  OBVIOUS
<1>3. opens \in SUBSET Nat /\ closes \in SUBSET (1 .. n) /\ o \in Nat /\ z \in Nat
  BY <1>2 DEF Opens, Closes
<1>4. Min(opens) = o /\ opens # {}
  <2>1. o \in opens
    BY <1>1, <1>2 DEF Opens, Opened
  <2>2. \A x \in opens : o <= x
    BY <1>1, <1>2 DEF Opens, Opened
  <2> QED BY <1>3, <2>1, <2>2, MinIs
<1>5. \A x \in closes : x > z
  BY <1>2 DEF Closes, Never
<1>6. Should(R, n, F, P)
  <2>1. ASSUME closes # {} PROVE o < Min(closes)
    <3>1. closes \in SUBSET Int /\ 0 \in Int /\ \A x \in closes : x >= 0
      BY <1>3
    <3>2. PICK m : m = Min(closes) /\ m \in closes
      BY <2>1, <3>1, MinOf
    <3>3. m \in Nat /\ m > z /\ o <= z
      BY <1>3, <1>5, <3>2
    <3> QED BY <1>3, <3>2, <3>3
  <2> QED BY <1>2, <1>4, <2>1 DEF Should
<1>7. ends = { i \in 1 .. n : i > o /\ (i \in closes \/ R[i] = "FLAKY") }
  BY <1>2, <1>4 DEF EndsOf
<1>8. \A x \in ends : x > z /\ x \in Nat
  <2> TAKE x \in ends
  <2>1. x \in 1 .. n /\ x > o /\ (x \in closes \/ R[x] = "FLAKY")
    BY <1>7
  <2>2. x > z \/ x \in (o + 1) .. z
    BY <1>3, <2>1
  <2> QED BY <1>1, <1>5, <2>1, <2>2
<1>9. z # n => Min(ends) = z + 1 /\ ends # {}
  <2> SUFFICES ASSUME z # n PROVE Min(ends) = z + 1 /\ ends # {}
    OBVIOUS
  <2>1. PICK k : k = z + 1 /\ k \in 1 .. n /\ (StreakOf(R, k, P, "PASS") \/ R[k] = "FLAKY") /\ k > o
    BY <1>3
  <2>2. k \in ends
    BY <1>2, <1>7, <2>1 DEF Closes
  <2>3. ends \in SUBSET Nat /\ \A x \in ends : k <= x
    BY <1>3, <1>8, <2>1
  <2> QED BY <2>1, <2>2, <2>3, MinIs
<1>10. z = n => ends = {}
  BY <1>7, <1>8
<1>11. Ongoing(R, n, ends) = Fails(R, z)
  BY <1>3, <1>9, <1>10 DEF Ongoing, Fails
<1>12. o \in Fails(R, z)
  BY <1>1, <1>3, StreakBound DEF Fails, Opened
<1>13. PICK f, g : f = Fails(R, z) /\ g = Fails(R, n) /\ f \in SUBSET Nat /\ g \in SUBSET Nat
  <2>1. Fails(R, z) \in SUBSET Nat
    BY <1>3 DEF Fails
  <2>2. Fails(R, n) \in SUBSET Nat
    BY DEF Fails
  <2> QED BY <2>1, <2>2
<1>14. /\ s.total \in Nat /\ s.total # 0
       /\ s.latestFail \in f /\ \A j \in f : s.latestFail <= j
       /\ s.latestFailAt = Cardinality(Filled(V, s.latestFail - 1))
       /\ s.firstFail \in f /\ \A j \in f : j <= s.firstFail
       /\ s.failAt = Cardinality(Filled(V, s.firstFail - 1))
  BY <1>12, <1>13 DEF Marks
<1>15. \A j \in g : j \in f \/ j > z
  BY <1>3, <1>13 DEF Fails
<1>16. \A j \in f : j \in g /\ j <= z /\ j \in 1 .. n /\ R[j] = "FAIL"
  BY <1>3, <1>13 DEF Fails
<1>17. \A j \in g : s.latestFail <= j
  BY <1>3, <1>13, <1>14, <1>15, <1>16
<1>18. s.latestFail = Min(g)
  BY <1>13, <1>14, <1>16, <1>17, MinIs
<1>19. s.firstFail = Max(f)
  BY <1>13, <1>14, MaxIs
<1>20. Marked(V, R, n, s.latestFailAt, s.latestFail) /\ Marked(V, R, n, s.failAt, s.firstFail)
  BY <1>14, <1>16 DEF Marked
<1> QED BY <1>2, <1>6, <1>11, <1>13, <1>14, <1>18, <1>19, <1>20 DEF Reported, NewestFail

LEMMA Outcome ==
    ASSUME NEW V, NEW R, NEW n \in Nat, NEW F \in Nat, NEW P, NEW s, Looped(s, V, R, n, F, P)
    PROVE  IF s.end = "nil" \/ s.open < F THEN ~Should(R, n, F, P) ELSE Reported(s, V, R, n, F, P)
<1>1. CASE Going(s, V, R, n, F, P)
  <2>1. CASE s.open < F
    <3>1. Opens(R, n, F) = {}
      BY <1>1, <2>1 DEF Going, Never, Opens
    <3> QED BY <2>1, <3>1 DEF Should
  <2>2. CASE s.open >= F
    <3>1. s.end # "nil" /\ ~(s.open < F)
      BY <1>1, <2>2 DEF Going
    <3>2. n \in 0 .. n /\ Marks(s, V, R, n) /\ Never(R, n, P, "PASS") /\ OpenTo(R, F, n)
      BY <1>1, <2>2 DEF Going
    <3>3. Reported(s, V, R, n, F, P)
      BY <3>2, OpenOutcome
    <3> QED BY <3>1, <3>3
  <2>3. s.open \in Nat
    BY <1>1 DEF Going
  <2> QED BY <2>1, <2>2, <2>3
<1>2. ASSUME NEW e \in 1 .. n, Closed(s, R, e, F, P)
      PROVE  s.end = "nil" /\ ~Should(R, n, F, P)
  <2>1. PICK opens, closes : opens = Opens(R, n, F) /\ closes = Closes(R, n, P)
    OBVIOUS
  <2>2. e \in closes /\ opens \in SUBSET Nat /\ closes \in SUBSET Nat
    BY <1>2, <2>1 DEF Opens, Closes, Closed
  <2>3. \A x \in opens : x > e
    BY <1>2, <2>1 DEF Opens, Closed, Never
  <2>4. Min(closes) <= e /\ Min(closes) \in Nat
    <3>1. closes \in SUBSET Int /\ closes # {} /\ 0 \in Int /\ \A x \in closes : x >= 0
      BY <2>2
    <3>2. PICK m : m = Min(closes) /\ m \in closes /\ \A x \in closes : m <= x
      BY <3>1, MinOf
    <3> QED BY <2>2, <3>2
  <2>5. opens # {} => Min(opens) > e /\ Min(opens) \in Nat
    <3> SUFFICES ASSUME opens # {} PROVE Min(opens) > e /\ Min(opens) \in Nat
      OBVIOUS
    <3>1. opens \in SUBSET Int /\ 0 \in Int /\ \A x \in opens : x >= 0
      BY <2>2
    <3>2. Min(opens) \in opens
      BY <3>1, MinOf
    <3> QED BY <2>2, <2>3, <3>2
  <2>6. ~(opens # {} /\ (closes = {} \/ Min(opens) < Min(closes)))
    BY <2>2, <2>4, <2>5
  <2> QED BY <1>2, <2>1, <2>6 DEF Should, Closed
<1>3. ASSUME NEW e \in 1 .. n, Broken(s, V, R, e, F, P)
      PROVE  ~(s.end = "nil" \/ s.open < F) /\ Reported(s, V, R, n, F, P)
  <2>1. PICK z : z = e - 1 /\ z \in 0 .. n /\ e = z + 1
    OBVIOUS
  <2>2. /\ s.end = "break" /\ s.open \in Nat /\ s.open >= F
        /\ Marks(s, V, R, z) /\ Never(R, z, P, "PASS") /\ OpenTo(R, F, z)
        /\ StreakOf(R, z + 1, P, "PASS") \/ R[z + 1] = "FLAKY"
    BY <1>3, <2>1 DEF Broken
  <2>3. z + 1 \in 1 .. n
    BY <2>1
  <2>4. Reported(s, V, R, n, F, P)
    BY <2>1, <2>2, <2>3, OpenOutcome
  <2> QED BY <2>2, <2>4
<1> QED BY <1>1, <1>2, <1>3 DEF Looped

(* The entry of a row's lists for the k-th cell, which failed.             *)
Indexed(name, row, V, k, at) ==
    /\ row.messages[at + 1] = [V[k].msg EXCEPT !.long = FALSE]
    /\ hasCellID(name) => row.cellIds # <<>> /\ row.cellIds[at + 1] = V[k].cellId

LEMMA MarkedIs ==
    ASSUME NEW name, NEW row, NEW V, NEW n \in Nat, AreCells(V, n), Encodes(name, row, V, n),
           NEW R, Reduced(R, V, n),
           NEW at, NEW k, Marked(V, R, n, at, k)
    PROVE  Indexed(name, row, V, k, at)
<1>1. k \in 1 .. n /\ R[k] = "FAIL" /\ at = Cardinality(Filled(V, k - 1))
  BY DEF Marked
<1>2. PICK j : j = k - 1 /\ j \in Nat /\ k = j + 1
  BY <1>1
<1>3. V[k].res # "NO_RESULT"
  BY <1>1, CoalesceIs DEF Reduced
<1>4. at \in Nat /\ Cardinality(Filled(V, k)) = at + 1
  BY <1>1, <1>2, <1>3, FilledCount
<1>5. Filled(V, n) \cap (0 .. k) = Filled(V, k) /\ k \in Filled(V, n)
  BY <1>1, <1>3 DEF Filled
<1>6. k \in DOMAIN V
  BY <1>1 DEF AreCells
<1>7. row.messages[at + 1] = truncate(V[k].msg)
  <2>1. PICK S, T, list : /\ S = Filled(V, n) /\ T = Texts(V) /\ list = row.messages
                          /\ Lists(list, S, T)
    BY DEF Encodes
  <2>2. list[Cardinality(S \cap (0 .. k))] = T[k]
    BY <1>5, <2>1 DEF Lists
  <2> QED BY <1>4, <1>5, <1>6, <2>1, <2>2 DEF Texts
<1>8. ASSUME hasCellID(name)
      PROVE  row.cellIds # <<>> /\ row.cellIds[at + 1] = V[k].cellId
  <2>1. PICK S, T, list : /\ S = Filled(V, n) /\ T = CellIds(V) /\ list = row.cellIds
                          /\ Lists(list, S, T)
    BY <1>8 DEF Encodes
  <2>2. list[Cardinality(S \cap (0 .. k))] = T[k] /\ Cardinality(S \cap (0 .. k)) \in DOMAIN list
    BY <1>5, <2>1 DEF Lists
  <2>3. \A z : DOMAIN z # {} => z # <<>>
    OBVIOUS
  <2>4. list # <<>>
    BY <2>2, <2>3
  <2> QED BY <1>4, <1>5, <1>6, <2>1, <2>2, <2>4 DEF CellIds
<1> QED BY <1>7, <1>8 DEF truncate, Indexed

(* Streaks of the columns that were read are those of the row's results.   *)
LEMMA StreakSame ==
    ASSUME NEW n, NEW R, NEW k \in Nat, \A j \in 1 .. k : R[j] = Coalesce(TruthCell(j, n).res, TRUE),
           NEW i \in 1 .. k, NEW c, NEW res
    PROVE  Streak(n, i, c, res) <=> StreakOf(R, i, c, res)
<1> DEFINE Res(j) == Coalesce(TruthCell(j, n).res, TRUE)
           concluded == { j \in 1 .. i : Res(j) \in {"PASS", "FAIL", "FLAKY"} }
<1>1. \A j \in 1 .. i : j \in 1 .. k /\ R[j] = Res(j)
  <2>1. \A j \in 1 .. i : j \in 1 .. k
    OBVIOUS
  <2> QED BY <2>1
<1>2. concluded = Concluded(R, i)
  BY <1>1 DEF Concluded
<1>3. Streak(n, i, c, res) <=>
        /\ i \in concluded
        /\ \E S \in SUBSET concluded :
             /\ Cardinality(S) = c /\ i \in S
             /\ \A j \in S : Res(j) = res
             /\ \A j \in concluded : j >= Min(S) => j \in S
  BY Zenon DEF Streak
<1>4. ASSUME NEW S \in SUBSET concluded
      PROVE  (\A j \in S : Res(j) = res) <=> (\A j \in S : R[j] = res)
  BY <1>1
<1> HIDE DEF Res, concluded
<1>5. StreakOf(R, i, c, res) <=>
        /\ i \in concluded
        /\ \E S \in SUBSET concluded :
             /\ Cardinality(S) = c /\ i \in S
             /\ \A j \in S : R[j] = res
             /\ \A j \in concluded : j >= Min(S) => j \in S
  BY <1>2, Zenon DEF StreakOf
<1> QED BY <1>3, <1>4, <1>5

(* An alert says of an outage what it should.                              *)
Tells(alert, name, V, numbers, newest, oldest) ==
    /\ alert.message = [V[newest].msg EXCEPT !.long = FALSE]
    /\ alert.latestFailBuildId = numbers[newest] /\ alert.failBuildId = numbers[oldest]
    /\ name \notin MethodRows => /\ alert.latestFailTestId = V[newest].cellId
                                 /\ alert.failTestId = V[oldest].cellId

InfoIs(alert, columns, row, s, commit) ==
    /\ alert.failCount = s.total /\ NoAlert.failCount = 0
    /\ alert.latestFailBuildId = buildID(columns, s.latestFail, commit)
    /\ alert.failBuildId = buildID(columns, s.firstFail, commit)
    /\ alert.message = row.messages[s.latestFailAt + 1]
    /\ row.cellIds # <<>> => /\ alert.latestFailTestId = row.cellIds[s.latestFailAt + 1]
                             /\ alert.failTestId = row.cellIds[s.failAt + 1]

LEMMA AlertInfoIs ==
    ASSUME NEW columns, NEW row, NEW s, NEW commit, NEW alert, alert = alertInfo(columns, row, s, commit)
    PROVE  InfoIs(alert, columns, row, s, commit)
<1>1. PICK a, b : /\ a = IF row.cellIds = <<>> THEN "" ELSE row.cellIds[s.failAt + 1]
                  /\ b = IF row.cellIds = <<>> THEN "" ELSE row.cellIds[s.latestFailAt + 1]
  OBVIOUS
<1>2. alert = [failCount |-> s.total,
               failBuildId |-> buildID(columns, s.firstFail, commit),
               latestFailBuildId |-> buildID(columns, s.latestFail, commit),
               passBuildId |-> buildID(columns, s.latestPass, commit),
               failTime |-> stamp(columns, s.firstFail), passTime |-> stamp(columns, s.latestPass),
               failTestId |-> a, latestFailTestId |-> b,
               message |-> row.messages[s.latestFailAt + 1],
               customColumnHeaders |-> s.extra]
  BY <1>1, Zenon DEF alertInfo
<1>3. NoAlert.failCount = 0
  BY DEF NoAlert
<1>4. /\ alert.failCount = s.total
      /\ alert.latestFailBuildId = buildID(columns, s.latestFail, commit)
      /\ alert.failBuildId = buildID(columns, s.firstFail, commit)
      /\ alert.message = row.messages[s.latestFailAt + 1]
      /\ alert.failTestId = a /\ alert.latestFailTestId = b
  <2>1. PICK total, first, latest, pass, failed, passed, msg, extra :
           /\ total = s.total /\ first = buildID(columns, s.firstFail, commit)
           /\ latest = buildID(columns, s.latestFail, commit) /\ pass = buildID(columns, s.latestPass, commit)
           /\ failed = stamp(columns, s.firstFail) /\ passed = stamp(columns, s.latestPass)
           /\ msg = row.messages[s.latestFailAt + 1] /\ extra = s.extra
    OBVIOUS
  <2>2. alert = [failCount |-> total, failBuildId |-> first, latestFailBuildId |-> latest,
                 passBuildId |-> pass, failTime |-> failed, passTime |-> passed,
                 failTestId |-> a, latestFailTestId |-> b, message |-> msg, customColumnHeaders |-> extra]
    BY <1>2, <2>1, Zenon
  <2>3. /\ alert.failCount = total /\ alert.latestFailBuildId = latest /\ alert.failBuildId = first
        /\ alert.message = msg /\ alert.failTestId = a /\ alert.latestFailTestId = b
    BY <2>2
  <2> QED BY <2>1, <2>3
<1> QED BY <1>1, <1>3, <1>4 DEF InfoIs

AlertsWell(alert, name, V, R, numbers, n, F, P) ==
    LET newest == NewestFail(R, n)
        oldest == Max(Ongoing(R, n, EndsOf(R, n, F, P)))
    IN /\ alert # NoAlert <=> Should(R, n, F, P)
       /\ alert # NoAlert => /\ newest \in 1 .. n /\ oldest \in 1 .. n
                             /\ Tells(alert, name, V, numbers, newest, oldest)

(* A commit names a build as its number does.                              *)
Headed(columns, numbers, n) ==
    \A i \in 1 .. n : columns[i].build = numbers[i] /\ columns[i].extra = <<numbers[i]>>

LEMMA AlertTells ==
    ASSUME NEW name, NEW row, NEW V, NEW n \in Nat, AreCells(V, n), Encodes(name, row, V, n),
           NEW R, Reduced(R, V, n),
           NEW columns, Len(columns) = n, DOMAIN columns = 1 .. n,
           NEW numbers, Headed(columns, numbers, n),
           NEW F \in Nat \ {0}, NEW P \in Nat \ {0}, NEW commit,
           NEW alert, alert = alertRow(columns, row, F, P, commit)
    PROVE  AlertsWell(alert, name, V, R, numbers, n, F, P)
<1>1. PICK s : /\ Looped(s, V, R, n, F, P)
               /\ alert = IF s.end = "nil" \/ s.open < F THEN NoAlert
                          ELSE alertInfo(columns, row, s, commit)
  BY AlertRowIs
<1>2. IF s.end = "nil" \/ s.open < F THEN ~Should(R, n, F, P) ELSE Reported(s, V, R, n, F, P)
  BY <1>1, Outcome
<1>3. CASE s.end = "nil" \/ s.open < F
  BY <1>1, <1>2, <1>3 DEF AlertsWell
<1>4. CASE ~(s.end = "nil" \/ s.open < F)
  <2>1. Reported(s, V, R, n, F, P) /\ alert = alertInfo(columns, row, s, commit)
    BY <1>1, <1>2, <1>4
  <2>2. PICK x, y : x = s.latestFail /\ y = s.firstFail
    OBVIOUS
  <2>3. /\ Should(R, n, F, P) /\ s.total \in Nat /\ s.total # 0
        /\ x = NewestFail(R, n) /\ Marked(V, R, n, s.latestFailAt, x)
        /\ y = Max(Ongoing(R, n, EndsOf(R, n, F, P))) /\ Marked(V, R, n, s.failAt, y)
    BY <2>1, <2>2 DEF Reported
  <2>4. x \in 1 .. n /\ y \in 1 .. n
    BY <2>3 DEF Marked
  <2>5. /\ alert.failCount = s.total /\ NoAlert.failCount = 0
        /\ alert.latestFailBuildId = buildID(columns, x, commit)
        /\ alert.failBuildId = buildID(columns, y, commit)
        /\ alert.message = row.messages[s.latestFailAt + 1]
        /\ row.cellIds # <<>> => /\ alert.latestFailTestId = row.cellIds[s.latestFailAt + 1]
                                 /\ alert.failTestId = row.cellIds[s.failAt + 1]
    BY <2>1, <2>2, AlertInfoIs DEF InfoIs
  <2>6. alert # NoAlert
    BY <2>3, <2>5
  <2>7. ASSUME NEW i \in 1 .. n PROVE buildID(columns, i, commit) = numbers[i]
    BY DEF buildID, Headed
  <2>8. alert.latestFailBuildId = numbers[x] /\ alert.failBuildId = numbers[y]
    BY <2>4, <2>5, <2>7
  <2>9. alert.message = [V[x].msg EXCEPT !.long = FALSE]
    BY <2>3, <2>5, MarkedIs DEF Indexed
  <2>10. ASSUME name \notin MethodRows
         PROVE  alert.latestFailTestId = V[x].cellId /\ alert.failTestId = V[y].cellId
    <3>1. hasCellID(name)
      BY <2>10 DEF hasCellID
    <3>2. Indexed(name, row, V, x, s.latestFailAt) /\ Indexed(name, row, V, y, s.failAt)
      BY <2>3, MarkedIs
    <3> QED BY <2>5, <3>1, <3>2 DEF Indexed
  <2>11. Tells(alert, name, V, numbers, x, y)
    BY <2>8, <2>9, <2>10 DEF Tells
  <2> QED BY <2>3, <2>4, <2>6, <2>11 DEF AlertsWell
<1> QED BY <1>3, <1>4

(* AlertExact for a row of the stored grid, by the results of its cells.   *)
RowFails(n, i) == Coalesce(TruthCell(i, n).res, TRUE) = "FAIL"
RowOpens(n) == { i \in DOMAIN truth : Streak(n, i, Alerting.failuresToAlert, "FAIL") }
RowCloses(n) == { i \in DOMAIN truth : Streak(n, i, Max({1, Alerting.passesToDisableAlert}), "PASS") }
RowNewest(n) == Min({ i \in DOMAIN truth : RowFails(n, i) })
RowEnds(n) == { i \in DOMAIN truth : i > Min(RowOpens(n))
                  /\ (i \in RowCloses(n) \/ TruthCell(i, n).res = "FLAKY") }
RowOldest(n) == Max({ i \in DOMAIN truth : RowFails(n, i) /\ (RowEnds(n) = {} \/ i < Min(RowEnds(n))) })

RowExact(n) ==
    LET alert == stored.rows[n].alert
    IN /\ (alert # NoAlert) <=> (RowOpens(n) # {} /\ (RowCloses(n) = {} \/ Min(RowOpens(n)) < Min(RowCloses(n))))
       /\ alert # NoAlert =>
            /\ alert.message = [TruthCell(RowNewest(n), n).msg EXCEPT !.long = FALSE]
            /\ alert.latestFailBuildId = truth[RowNewest(n)].col.build
            /\ alert.failBuildId = truth[RowOldest(n)].col.build
            /\ n \notin MethodRows => /\ alert.latestFailTestId = TruthCell(RowNewest(n), n).cellId
                                      /\ alert.failTestId = TruthCell(RowOldest(n), n).cellId

LEMMA PassesAre ==
    ASSUME Alerting.failuresToAlert # 0
    PROVE  Passes(Alerting) = Max({1, Alerting.passesToDisableAlert}) /\ Passes(Alerting) \in Nat \ {0}
<1>1. PICK F, p : /\ F = Alerting.failuresToAlert /\ p = Alerting.passesToDisableAlert
                  /\ F \in Nat /\ p \in Nat /\ F > 0
  BY HistoryAssumption
<1>2. Passes(Alerting) = IF p = 0 THEN 1 ELSE p
  BY <1>1 DEF Passes
<1>3. PICK S : S = {1, p} /\ S \in SUBSET Nat
  <2>1. {1, p} \in SUBSET Nat
    BY <1>1
  <2> QED BY <2>1
<1>4. Max(S) = IF p = 0 THEN 1 ELSE p
  <2>1. CASE p = 0
    BY <1>3, <2>1, MaxIs
  <2>2. CASE p # 0
    <3>1. p \in S /\ \A x \in S : x <= p
      BY <1>1, <1>3, <2>2
    <3> QED BY <1>3, <2>2, <3>1, MaxIs
  <2> QED BY <2>1, <2>2
<1> QED BY <1>1, <1>2, <1>3, <1>4

LEMMA RowIsExact ==
    ASSUME HistoryInv, NEW n \in DOMAIN stored.rows
    PROVE  RowExact(n)
<1>1. PICK k : k \in Nat /\ k = Len(truth) /\ DOMAIN truth = 1 .. k
  BY TruthColumns DEF HistoryInv, AreColumns
<1>2. PICK V, row, R, F, P : /\ V = RowOf(truth, n) /\ row = stored.rows[n]
                             /\ R = [i \in 1 .. k |-> Coalesce(V[i].res, TRUE)]
                             /\ F = Alerting.failuresToAlert /\ P = Passes(Alerting)
  OBVIOUS
<1>3. AreCells(V, k) /\ Encodes(n, row, V, k) /\ \A i \in 1 .. k : V[i] = TruthCell(i, n)
  BY <1>1, <1>2, RowOfIs, TruthColumns DEF HistoryInv, IsGrid, RowOf, TruthCell, CellOf
<1>4. Reduced(R, V, k) /\ \A i \in 1 .. k : R[i] = Coalesce(TruthCell(i, n).res, TRUE)
  BY <1>2, <1>3 DEF Reduced
<1>5. PICK alert, columns, commit : /\ alert = row.alert /\ columns = stored.columns
                                    /\ commit = Alerting.useCommitAsBuildID
  OBVIOUS
<1>6. alert = alertRow(columns, row, F, P, commit)
  BY <1>2, <1>5 DEF HistoryInv, IsGrid, AlertOf
<1>7. ASSUME NEW i \in 1 .. k, NEW c, NEW res
      PROVE  Streak(n, i, c, res) <=> StreakOf(R, i, c, res)
  BY <1>1, <1>4, StreakSame
<1>8. CASE F = 0
  <2>1. alert = NoAlert
    BY <1>6, <1>8 DEF alertRow
  <2>2. \A i \in 1 .. k : ~StreakOf(R, i, F, "FAIL")
    <3> TAKE i \in 1 .. k
    <3>1. i \in Nat
      OBVIOUS
    <3>2. StreakOf(R, i, F, "FAIL") => F # 0
      BY <3>1, StreakBound
    <3> QED BY <1>8, <3>2
  <2>3. RowOpens(n) = {}
    BY <1>1, <1>2, <1>7, <2>2 DEF RowOpens
  <2> QED BY <1>2, <1>5, <2>1, <2>3 DEF RowExact
<1>9. CASE F # 0
  <2>1. F \in Nat \ {0} /\ P \in Nat \ {0} /\ P = Max({1, Alerting.passesToDisableAlert})
    BY <1>2, <1>9, PassesAre, HistoryAssumption
  <2>2. PICK numbers : numbers = [i \in 1 .. k |-> truth[i].col.build]
    OBVIOUS
  <2>3. /\ Len(columns) = k /\ DOMAIN columns = 1 .. k
        /\ Headed(columns, numbers, k)
    <3>1. PICK cs : cs = [i \in 1 .. k |-> truth[i].col] /\ cs = columns
      BY <1>1, <1>5 DEF HistoryInv, IsGrid
    <3>2. Len(cs) = k /\ DOMAIN cs = 1 .. k /\ \A i \in 1 .. k : cs[i] = truth[i].col
      BY <1>1, <3>1
    <3>3. \A i \in 1 .. k : truth[i].col.extra = <<truth[i].col.build>>
      BY <1>1 DEF HistoryInv, IsTruth, Falling
    <3> QED BY <2>2, <3>1, <3>2, <3>3 DEF Headed
  <2>4. PICK new, ends, old : /\ new = NewestFail(R, k) /\ ends = EndsOf(R, k, F, P)
                              /\ old = Max(Ongoing(R, k, ends))
    OBVIOUS
  <2>5. /\ alert # NoAlert <=> Should(R, k, F, P)
        /\ alert # NoAlert => new \in 1 .. k /\ old \in 1 .. k /\ Tells(alert, n, V, numbers, new, old)
    <3>1. AlertsWell(alert, n, V, R, numbers, k, F, P)
      BY <1>1, <1>3, <1>4, <1>6, <2>1, <2>3, AlertTells
    <3> QED BY <2>4, <3>1 DEF AlertsWell
  <2>6. RowOpens(n) = Opens(R, k, F)
    BY <1>1, <1>2, <1>7 DEF RowOpens, Opens
  <2>7. RowCloses(n) = Closes(R, k, P)
    BY <1>1, <1>7, <2>1 DEF RowCloses, Closes
  <2>8. \A i \in 1 .. k : RowFails(n, i) <=> R[i] = "FAIL"
    BY <1>4 DEF RowFails
  <2>9. RowNewest(n) = new
    <3>1. { i \in DOMAIN truth : RowFails(n, i) } = Fails(R, k)
      BY <1>1, <2>8 DEF Fails
    <3> QED BY <2>4, <3>1 DEF RowNewest, NewestFail
  <2>10. RowEnds(n) = ends
    <3>1. \A i \in 1 .. k : R[i] = "FLAKY" <=> TruthCell(i, n).res = "FLAKY"
      BY <1>4, CoalesceIs
    <3> QED BY <1>1, <2>4, <2>6, <2>7, <3>1 DEF RowEnds, EndsOf
  <2>11. RowOldest(n) = old
    <3>1. { i \in DOMAIN truth : RowFails(n, i) /\ (RowEnds(n) = {} \/ i < Min(RowEnds(n))) } = Ongoing(R, k, ends)
      BY <1>1, <2>8, <2>10 DEF Ongoing
    <3> QED BY <2>4, <3>1 DEF RowOldest
  <2>12. alert # NoAlert <=> RowOpens(n) # {} /\ (RowCloses(n) = {} \/ Min(RowOpens(n)) < Min(RowCloses(n)))
    BY <2>5, <2>6, <2>7 DEF Should
  <2>13. ASSUME alert # NoAlert
         PROVE  /\ alert.message = [TruthCell(new, n).msg EXCEPT !.long = FALSE]
                /\ alert.latestFailBuildId = truth[new].col.build
                /\ alert.failBuildId = truth[old].col.build
                /\ n \notin MethodRows => /\ alert.latestFailTestId = TruthCell(new, n).cellId
                                          /\ alert.failTestId = TruthCell(old, n).cellId
    BY <1>3, <2>2, <2>5, <2>13 DEF Tells
  <2> QED BY <1>2, <1>5, <2>9, <2>11, <2>12, <2>13 DEF RowExact
<1> QED BY <1>8, <1>9

LEMMA AlertExactHolds == HistoryInv => AlertExact
<1> SUFFICES ASSUME HistoryInv PROVE AlertExact
  OBVIOUS
<1>1. \A n \in DOMAIN stored.rows : RowExact(n)
  BY RowIsExact
<1> QED BY <1>1, Zenon DEF AlertExact, RowExact, RowFails, RowOpens, RowCloses, RowNewest, RowEnds, RowOldest

(* A row of the stored grid alerts exactly if its last streaks of results  *)
(* say so, for every number of failures and passes that is configured, and *)
(* the alert is of the newest failure and of the first of the outage.      *)
THEOREM GridAlertExact == HistorySpec => []AlertExact
<1>1. HistorySpec => []HistoryInv
  BY HistoryAlways
<1> QED BY <1>1, AlertExactHolds, PTL

-----------------------------------------------------------------------------
(* What calculateFlipFlakiness makes of the statuses st at the positions   *)
(* 1 .. m: which are in a run of failures that is ignored, which are       *)
(* considered, and which of these are flips.                               *)
InIgnored(st, m, p) ==
    \E a, b \in 1 .. m : a <= p /\ p <= b /\ b - a >= 2 /\ \A q \in a .. b : st[q] = "Fail"
Considered(st, m) == { p \in 1 .. m : ~InIgnored(st, m, p) }
Before(S, i) == { p \in S : p < i }
FailedLast(st, S, i) == \E q \in S : q < i /\ st[q] = "Fail" /\ \A r \in S : r < i => r <= q
FlipsAt(st, S) == { p \in S : st[p] = "Flaky" \/ (st[p] = "Fail" /\ ~FailedLast(st, S, p)) }

(* Where the loop is before a turn.                                        *)
Walked(s, st, m) ==
    LET S == Considered(st, m)
    IN /\ DOMAIN s = {"i", "lastPassing", "flips", "considered"}
       /\ s.i \in 1 .. (m + 1) /\ (1 < s.i /\ s.i <= m => s.i - 1 \in S)
       /\ s.lastPassing <=> ~FailedLast(st, S, s.i)
       /\ s.flips = Cardinality(Before(FlipsAt(st, S), s.i))
       /\ s.considered = Cardinality(Before(S, s.i))

Categories == {"Fail", "Pass", "Flaky"}

(* The failures from i on.                                                 *)
LEMMA FailuresFrom ==
    ASSUME NEW m \in Nat, NEW st, Len(st) = m, NEW i \in 1 .. m, NEW c, c = consecutiveFailures(st, i)
    PROVE  /\ c \in Nat /\ i + c <= m + 1 /\ \A j \in i .. (i + c - 1) : st[j] = "Fail"
           /\ i + c <= m => st[i + c] # "Fail"
<1> DEFINE T == {0} \cup { k \in 1 .. (m - i + 1) : \A j \in i .. (i + k - 1) : st[j] = "Fail" }
<1>1. c = Max(T)
  BY DEF consecutiveFailures
<1>2. /\ T \in SUBSET Int /\ T # {} /\ m - i + 1 \in Int /\ \A x \in T : x <= m - i + 1
      /\ \A x \in T : x = 0 \/ (x \in 1 .. (m - i + 1) /\ \A j \in i .. (i + x - 1) : st[j] = "Fail")
  OBVIOUS
<1>3. ASSUME NEW k \in 1 .. (m - i + 1), \A j \in i .. (i + k - 1) : st[j] = "Fail" PROVE k \in T
  BY <1>3
<1> HIDE DEF T
<1>4. c \in T /\ \A x \in T : x <= c
  BY <1>1, <1>2, MaxOf
<1>5. c \in Nat /\ c <= m - i + 1
  BY <1>2, <1>4
<1>6. \A j \in i .. (i + c - 1) : st[j] = "Fail"
  BY <1>2, <1>4
<1>7. ASSUME i + c <= m, st[i + c] = "Fail" PROVE FALSE
  <2>1. c + 1 \in 1 .. (m - i + 1) /\ i + (c + 1) - 1 = i + c
    BY <1>5, <1>7
  <2>2. \A j \in i .. (i + (c + 1) - 1) : st[j] = "Fail"
    <3>1. ASSUME NEW j \in i .. (i + c) PROVE j = i + c \/ j \in i .. (i + c - 1)
      BY <1>5
    <3> QED BY <1>6, <1>7, <2>1, <3>1
  <2>3. c + 1 <= c
    BY <1>3, <1>4, <2>1, <2>2
  <2> QED BY <1>5, <2>3
<1> QED BY <1>5, <1>6, <1>7

(* Nothing considered lies between i and k.                                *)
LEMMA PassedOver ==
    ASSUME NEW st, NEW S, NEW m \in Nat, S \subseteq 1 .. m, NEW i \in Nat, NEW k \in Nat, i <= k,
           \A p \in S : ~(i <= p /\ p < k)
    PROVE  /\ Before(S, k) = Before(S, i) /\ Before(FlipsAt(st, S), k) = Before(FlipsAt(st, S), i)
           /\ FailedLast(st, S, k) <=> FailedLast(st, S, i)
<1>1. \A p \in S : p < k <=> p < i
  OBVIOUS
<1>2. FlipsAt(st, S) \subseteq S
  BY DEF FlipsAt
<1> QED BY <1>1, <1>2 DEF Before, FailedLast

(* The next position, k, is considered.                                    *)
Counts(st, S, k) ==
    /\ Cardinality(Before(S, k + 1)) = Cardinality(Before(S, k)) + 1
    /\ FailedLast(st, S, k + 1) <=> st[k] = "Fail"
    /\ Cardinality(Before(FlipsAt(st, S), k + 1))
         = Cardinality(Before(FlipsAt(st, S), k)) + (IF k \in FlipsAt(st, S) THEN 1 ELSE 0)

LEMMA OneMore ==
    ASSUME NEW st, NEW S, NEW m \in Nat, S \subseteq 1 .. m, NEW k \in S
    PROVE  Counts(st, S, k)
<1>0. k \in 1 .. m /\ \A p \in S : p \in Nat
  OBVIOUS
<1>1. ASSUME NEW X, X \subseteq S
      PROVE  /\ Cardinality(Before(X, k + 1)) = Cardinality(Before(X, k)) + (IF k \in X THEN 1 ELSE 0)
             /\ Cardinality(Before(X, k)) \in Nat
  <2>1. IsFiniteSet(Before(X, k))
    <3>1. Before(X, k) \in SUBSET (1 .. m)
      BY <1>1 DEF Before
    <3>2. IsFiniteSet(1 .. m)
      BY FS_Interval
    <3> QED BY <3>1, <3>2, FS_Subset
  <2>2. Before(X, k + 1) = IF k \in X THEN Before(X, k) \cup {k} ELSE Before(X, k)
    <3>1. \A p \in X : p < k + 1 <=> p < k \/ p = k
      BY <1>0, <1>1
    <3> QED BY <3>1 DEF Before
  <2>3. k \notin Before(X, k)
    BY <1>0 DEF Before
  <2>4. Cardinality(Before(X, k) \cup {k}) = Cardinality(Before(X, k)) + 1
    BY <2>1, <2>3, FS_AddElement
  <2>5. Cardinality(Before(X, k)) \in Nat
    BY <2>1, FS_CardinalityType
  <2> QED BY <2>2, <2>4, <2>5
<1>2. FlipsAt(st, S) \subseteq S /\ S \subseteq S
  BY DEF FlipsAt
<1>3. FailedLast(st, S, k + 1) <=> st[k] = "Fail"
  <2>1. ASSUME FailedLast(st, S, k + 1) PROVE st[k] = "Fail"
    <3>1. PICK q \in S : q < k + 1 /\ st[q] = "Fail" /\ \A r \in S : r < k + 1 => r <= q
      BY <2>1 DEF FailedLast
    <3>2. q = k
      BY <1>0, <3>1
    <3> QED BY <3>1, <3>2
  <2>2. ASSUME st[k] = "Fail" PROVE FailedLast(st, S, k + 1)
    <3>1. k < k + 1 /\ \A r \in S : r < k + 1 => r <= k
      BY <1>0
    <3> QED BY <2>2, <3>1 DEF FailedLast
  <2> QED BY <2>1, <2>2
<1> QED BY <1>1, <1>2, <1>3 DEF Counts

(* A failure after one that is considered, or after none, is ignored only  *)
(* if three or more follow each other from it on.                          *)
LEMMA IgnoredFrom ==
    ASSUME NEW m \in Nat, NEW st, Len(st) = m, NEW i \in 1 .. m,
           1 < i => i - 1 \in Considered(st, m), NEW c, c = consecutiveFailures(st, i)
    PROVE  /\ c >= 3 => \A p \in i .. (i + c - 1) : p \notin Considered(st, m)
           /\ c < 3 => i \in Considered(st, m)
           /\ i + c <= m => i + c \in Considered(st, m)
<1>1. /\ c \in Nat /\ i + c <= m + 1 /\ \A j \in i .. (i + c - 1) : st[j] = "Fail"
      /\ i + c <= m => st[i + c] # "Fail"
  BY FailuresFrom, SMTT(30)
<1>2. ASSUME c >= 3, NEW p \in i .. (i + c - 1) PROVE InIgnored(st, m, p)
  <2>1. PICK e : e = i + c - 1
    OBVIOUS
  <2>2. i \in 1 .. m /\ e \in 1 .. m /\ i <= p /\ p <= e /\ e - i >= 2
    BY <1>1, <1>2, <2>1
  <2> QED BY <1>1, <2>1, <2>2 DEF InIgnored
<1>3. ASSUME c < 3, InIgnored(st, m, i) PROVE FALSE
  <2>1. PICK a \in 1 .. m, b \in 1 .. m : a <= i /\ i <= b /\ b - a >= 2 /\ \A q \in a .. b : st[q] = "Fail"
    BY <1>3 DEF InIgnored
  <2>2. CASE a < i
    <3>1. i - 1 \in 1 .. m /\ a <= i - 1 /\ i - 1 <= b /\ 1 < i
      BY <2>1, <2>2
    <3>2. InIgnored(st, m, i - 1)
      BY <2>1, <3>1 DEF InIgnored
    <3> QED BY <3>1, <3>2 DEF Considered
  <2>3. CASE a = i
    <3>1. i + c <= m /\ i + c \in a .. b
      BY <1>1, <1>3, <2>1, <2>3
    <3> QED BY <1>1, <2>1, <3>1
  <2> QED BY <2>1, <2>2, <2>3
<1>4. ASSUME i + c <= m PROVE i + c \in Considered(st, m)
  <2>1. i + c \in 1 .. m
    BY <1>1, <1>4
  <2>2. ~InIgnored(st, m, i + c)
    BY <1>1, <1>4, <2>1 DEF InIgnored
  <2> QED BY <2>1, <2>2 DEF Considered
<1> QED BY <1>2, <1>3, <1>4 DEF Considered

LEMMA WalkStep ==
    ASSUME NEW m \in Nat, NEW st, Len(st) = m, \A p \in 1 .. m : st[p] \in Categories,
           NEW s, Walked(s, st, m), NEW t, t = FlipStep(s, st)
    PROVE  Walked(t, st, m) /\ (t.i > s.i \/ t.i = m + 1)
<1>1. PICK S, i, c, k, flip :
         /\ S = Considered(st, m) /\ i = s.i /\ c = consecutiveFailures(st, i)
         /\ k = (IF c >= 3 THEN i + c ELSE i)
         /\ flip = (st[k] = "Flaky" \/ (st[k] = "Fail" /\ s.lastPassing))
  OBVIOUS
<1>2. /\ i \in 1 .. (m + 1) /\ (1 < i /\ i <= m => i - 1 \in S) /\ S \subseteq 1 .. m
      /\ s.lastPassing <=> ~FailedLast(st, S, i)
      /\ s.flips = Cardinality(Before(FlipsAt(st, S), i)) /\ s.considered = Cardinality(Before(S, i))
      /\ DOMAIN s = {"i", "lastPassing", "flips", "considered"}
  BY <1>1 DEF Walked, Considered
<1>3. t = CASE i > m -> s
            [] i <= m /\ k > m -> [s EXCEPT !.i = k]
            [] OTHER -> [i |-> k + 1, lastPassing |-> st[k] # "Fail",
                         flips |-> s.flips + (IF flip THEN 1 ELSE 0), considered |-> s.considered + 1]
  BY <1>1, Zenon DEF FlipStep, IgnoreFailuresInARow
<1>4. CASE i > m
  <2>1. t = s /\ i = m + 1
    BY <1>2, <1>3, <1>4
  <2> QED BY <1>1, <2>1
<1>5. CASE i <= m
  <2>1. i \in 1 .. m /\ (1 < i => i - 1 \in S)
    BY <1>2, <1>5
  <2>2. c \in Nat /\ i + c <= m + 1
    BY <1>1, <2>1, FailuresFrom
  <2>3. /\ c >= 3 => \A p \in i .. (i + c - 1) : p \notin S
        /\ c < 3 => i \in S
        /\ i + c <= m => i + c \in S
    BY <1>1, <2>1, IgnoredFrom
  <2>4. k \in Nat /\ i <= k /\ k <= m + 1 /\ (k <= m => k \in S) /\ \A p \in S : ~(i <= p /\ p < k)
    <3>1. CASE c >= 3
      BY <1>1, <1>2, <2>1, <2>2, <2>3, <3>1
    <3>2. CASE ~(c >= 3)
      BY <1>1, <1>2, <2>1, <2>2, <2>3, <3>2
    <3> QED BY <3>1, <3>2
  <2>5. /\ Before(S, k) = Before(S, i) /\ Before(FlipsAt(st, S), k) = Before(FlipsAt(st, S), i)
        /\ FailedLast(st, S, k) <=> FailedLast(st, S, i)
    <3>1. i \in Nat
      BY <2>1
    <3> QED BY <1>2, <2>4, <3>1, PassedOver
  <2>6. CASE k > m
    <3>1. t = [s EXCEPT !.i = k]
      BY <1>3, <1>5, <2>1, <2>6
    <3>2. /\ DOMAIN t = DOMAIN s /\ t.i = k /\ t.lastPassing = s.lastPassing
          /\ t.flips = s.flips /\ t.considered = s.considered
      BY <1>2, <3>1
    <3>3. k = m + 1
      BY <2>4, <2>6
    <3>4. /\ t.i \in 1 .. (m + 1) /\ ~(t.i <= m)
      BY <3>2, <3>3
    <3>5. t.lastPassing <=> ~FailedLast(st, S, t.i)
      BY <1>2, <2>5, <3>2
    <3> QED BY <1>1, <1>2, <2>5, <3>2, <3>3, <3>4, <3>5 DEF Walked
  <2>7. CASE ~(k > m)
    <3>1. t = [i |-> k + 1, lastPassing |-> st[k] # "Fail",
               flips |-> s.flips + (IF flip THEN 1 ELSE 0), considered |-> s.considered + 1]
      BY <1>3, <1>5, <2>1, <2>4, <2>7
    <3>2. /\ DOMAIN t = {"i", "lastPassing", "flips", "considered"} /\ t.i = k + 1
          /\ t.lastPassing <=> st[k] # "Fail"
          /\ t.flips = s.flips + (IF flip THEN 1 ELSE 0) /\ t.considered = s.considered + 1
      <4>1. PICK ni, nl, nf, nc : /\ ni = k + 1 /\ nl = (st[k] # "Fail")
                                  /\ nf = s.flips + (IF flip THEN 1 ELSE 0) /\ nc = s.considered + 1
        OBVIOUS
      <4>2. t = [i |-> ni, lastPassing |-> nl, flips |-> nf, considered |-> nc]
        BY <3>1, <4>1, Zenon
      <4>3. /\ DOMAIN t = {"i", "lastPassing", "flips", "considered"} /\ t.i = ni
            /\ t.lastPassing = nl /\ t.flips = nf /\ t.considered = nc
        BY <4>2
      <4>4. t.lastPassing <=> st[k] # "Fail"
        BY <4>1, <4>3, Zenon
      <4> QED BY <4>1, <4>3, <4>4
    <3>3. k \in S /\ k \in 1 .. m
      BY <1>2, <2>4, <2>7
    <3>4. /\ Cardinality(Before(S, k + 1)) = Cardinality(Before(S, k)) + 1
          /\ FailedLast(st, S, k + 1) <=> st[k] = "Fail"
          /\ Cardinality(Before(FlipsAt(st, S), k + 1))
               = Cardinality(Before(FlipsAt(st, S), k)) + (IF k \in FlipsAt(st, S) THEN 1 ELSE 0)
      <4>1. Counts(st, S, k)
        BY <1>2, <3>3, OneMore
      <4> QED BY <4>1, Zenon DEF Counts
    <3>5. flip <=> k \in FlipsAt(st, S)
      BY <1>1, <1>2, <2>5, <3>3 DEF FlipsAt
    <3>6. t.flips = Cardinality(Before(FlipsAt(st, S), k + 1))
      BY <1>2, <2>5, <3>2, <3>4, <3>5
    <3>7. t.considered = Cardinality(Before(S, k + 1))
      BY <1>2, <2>5, <3>2, <3>4
    <3>8. t.i \in 1 .. (m + 1) /\ t.i - 1 = k /\ t.i > i
      BY <2>1, <2>4, <3>2, <3>3
    <3>9. t.lastPassing <=> ~FailedLast(st, S, t.i)
      BY <3>2, <3>4
    <3> QED BY <1>1, <3>2, <3>3, <3>6, <3>7, <3>8, <3>9 DEF Walked
  <2> QED BY <2>6, <2>7
<1> QED BY <1>2, <1>4, <1>5

(* calculateFlipFlakiness considers what is in no run of three failures.   *)
LEMMA FlipFlakinessIs ==
    ASSUME NEW m \in Nat, NEW st, Len(st) = m, DOMAIN st = 1 .. m, \A p \in 1 .. m : st[p] \in Categories,
           NEW S, S = Considered(st, m)
    PROVE  calculateFlipFlakiness(st) = [flips |-> Cardinality(FlipsAt(st, S)), considered |-> Cardinality(S)]
<1>1. PICK base, turns : /\ base = [i |-> 1, lastPassing |-> TRUE, flips |-> 0, considered |-> 0]
                         /\ turns = [turn \in 1 .. m |-> st]
  OBVIOUS
<1>2. Len(turns) = m /\ \A k \in 1 .. m : turns[k] = st
  BY <1>1
<1>3. PICK f : /\ f = [k \in 0 .. Len(turns) |-> IF k = 0 THEN base ELSE FlipStep(f[k - 1], turns[k])]
               /\ Flippings!Fold(base, turns) = f[Len(turns)]
  BY <1>2, Flippings!FoldDefined
<1> DEFINE K == { k \in Nat : k <= m => Walked(f[k], st, m) /\ (f[k].i > k \/ f[k].i = m + 1) }
<1>4. 0 \in K
  <2>1. f[0] = base
    BY <1>2, <1>3
  <2>2. /\ DOMAIN base = {"i", "lastPassing", "flips", "considered"} /\ base.i = 1
        /\ base.lastPassing /\ base.flips = 0 /\ base.considered = 0
    BY <1>1
  <2>3. S \subseteq 1 .. m /\ FlipsAt(st, S) \subseteq S
    BY DEF Considered, FlipsAt
  <2>4. Before(S, 1) = {} /\ Before(FlipsAt(st, S), 1) = {} /\ ~FailedLast(st, S, 1)
    BY <2>3 DEF Before, FailedLast
  <2>5. 1 \in 1 .. (m + 1) /\ ~(1 < 1) /\ 1 > 0
    OBVIOUS
  <2>6. Cardinality({}) = 0
    BY FS_EmptySet
  <2>7. Walked(base, st, m)
    BY <2>2, <2>4, <2>5, <2>6 DEF Walked
  <2> QED BY <2>1, <2>2, <2>5, <2>7
<1>5. ASSUME NEW k \in Nat, k \in K PROVE k + 1 \in K
  <2> SUFFICES ASSUME k + 1 <= m
               PROVE  Walked(f[k + 1], st, m) /\ (f[k + 1].i > k + 1 \/ f[k + 1].i = m + 1)
    OBVIOUS
  <2>1. k + 1 \in 0 .. Len(turns) /\ k + 1 # 0 /\ (k + 1) - 1 = k /\ k <= m /\ k + 1 \in 1 .. m
    BY <1>2
  <2>2. f[k + 1] = FlipStep(f[k], st)
    BY <1>2, <1>3, <2>1
  <2>3. Walked(f[k], st, m) /\ (f[k].i > k \/ f[k].i = m + 1)
    BY <1>5, <2>1
  <2>4. PICK s, t : s = f[k] /\ t = f[k + 1]
    OBVIOUS
  <2>5. Walked(t, st, m) /\ (t.i > s.i \/ t.i = m + 1)
    BY <2>2, <2>3, <2>4, WalkStep
  <2>6. s.i \in Nat /\ t.i \in Nat /\ t.i <= m + 1
    BY <2>3, <2>4, <2>5 DEF Walked
  <2> QED BY <2>3, <2>4, <2>5, <2>6
<1>6. m \in K
  <2> HIDE DEF K
  <2> QED BY <1>4, <1>5, Joins!NatInductionOnSets
<1>7. PICK s : s = f[m]
  OBVIOUS
<1>8. Walked(s, st, m) /\ s.i = m + 1
  <2>1. Walked(s, st, m) /\ (s.i > m \/ s.i = m + 1)
    BY <1>6, <1>7
  <2> QED BY <2>1 DEF Walked
<1>9. Before(S, m + 1) = S /\ Before(FlipsAt(st, S), m + 1) = FlipsAt(st, S)
  <2>1. S \subseteq 1 .. m /\ FlipsAt(st, S) \subseteq S
    BY DEF Considered, FlipsAt
  <2>2. \A p \in S : p < m + 1
    BY <2>1
  <2> QED BY <2>1, <2>2 DEF Before
<1>10. s.flips = Cardinality(FlipsAt(st, S)) /\ s.considered = Cardinality(S)
  BY <1>8, <1>9 DEF Walked
<1>11. calculateFlipFlakiness(st) = [flips |-> s.flips, considered |-> s.considered]
  <2>1. Flips!Fold(base, turns) = s
    BY <1>2, <1>3, <1>7 DEF Flips!Fold, Flippings!Fold
  <2> QED BY <1>1, <2>1, Zenon DEF calculateFlipFlakiness
<1> QED BY <1>10, <1>11

(* The same of the columns L of a row that are listed, by the results R of *)
(* the columns: position p of the statuses st is that of the column h[p].  *)
Climbs(h, m, L) ==
    /\ L \subseteq Nat /\ \A p \in 1 .. m : h[p] \in L
    /\ \A p, q \in 1 .. m : p < q => h[p] < h[q]
    /\ \A i \in L : \E p \in 1 .. m : h[p] = i
Mirrors(st, h, m, R) ==
    \A p \in 1 .. m : /\ st[p] = "Fail" <=> R[h[p]] = "FAIL"
                      /\ st[p] = "Flaky" <=> R[h[p]] = "FLAKY"
Image(h, S) == { h[p] : p \in S }

LEMMA ClimbsOver ==
    ASSUME NEW m \in Nat, NEW h, NEW L, Climbs(h, m, L), NEW p \in 1 .. m, NEW q \in 1 .. m
    PROVE  /\ h[p] \in Nat /\ h[q] \in Nat /\ h[p] \in L
           /\ h[p] < h[q] <=> p < q
           /\ h[p] <= h[q] <=> p <= q
           /\ h[p] = h[q] <=> p = q
<1>1. h[p] \in Nat /\ h[q] \in Nat /\ h[p] \in L /\ (p < q => h[p] < h[q]) /\ (q < p => h[q] < h[p])
  BY DEF Climbs
<1> QED BY <1>1

LEMMA ImageCount ==
    ASSUME NEW m \in Nat, NEW h, NEW L, Climbs(h, m, L), NEW S, S \subseteq 1 .. m
    PROVE  Cardinality(Image(h, S)) = Cardinality(S)
<1>1. IsFiniteSet(S)
  <2>1. IsFiniteSet(1 .. m)
    BY FS_Interval
  <2> QED BY <2>1, FS_Subset
<1>2. PICK f : f = [p \in S |-> h[p]]
  OBVIOUS
<1>3. f \in [S -> Image(h, S)] /\ \A i \in Image(h, S) : \E p \in S : f[p] = i
  BY <1>2 DEF Image
<1>4. \A p, q \in S : f[p] = f[q] => p = q
  <2> SUFFICES ASSUME NEW p \in S, NEW q \in S, f[p] = f[q] PROVE p = q
    OBVIOUS
  <2>1. p \in 1 .. m /\ q \in 1 .. m /\ h[p] = h[q]
    BY <1>2
  <2> QED BY <2>1, ClimbsOver
<1>5. f \in Bijection(S, Image(h, S))
  <2>1. f \in Injection(S, Image(h, S))
    BY <1>3, <1>4 DEF Injection, IsInjective
  <2>2. f \in Surjection(S, Image(h, S))
    BY <1>3 DEF Surjection
  <2> QED BY <2>1, <2>2 DEF Bijection
<1>6. ExistsBijection(S, Image(h, S))
  BY <1>5 DEF ExistsBijection
<1> QED BY <1>1, <1>6, FS_Bijection

LEMMA SpanIs ==
    ASSUME NEW m \in Nat, NEW h, NEW L, Climbs(h, m, L), NEW a \in 1 .. m, NEW b \in 1 .. m, a <= b
    PROVE  /\ Span(L, h[a], h[b]) = Image(h, a .. b) /\ Span(L, h[b], h[a]) = Image(h, a .. b)
           /\ Cardinality(Image(h, a .. b)) = b - a + 1
<1>1. h[a] \in Nat /\ h[b] \in Nat /\ h[a] <= h[b]
  BY ClimbsOver
<1>2. PICK T : T = {h[a], h[b]}
  OBVIOUS
<1>3. T \in SUBSET Nat /\ h[a] \in T /\ h[b] \in T /\ \A x \in T : h[a] <= x /\ x <= h[b]
  BY <1>1, <1>2
<1>4. Min(T) = h[a] /\ Max(T) = h[b]
  BY <1>3, MinIs, MaxIs
<1>5. {h[b], h[a]} = T
  BY <1>2
<1>6. { l \in L : l \in h[a] .. h[b] } = Image(h, a .. b)
  <2>1. ASSUME NEW l \in L, l \in h[a] .. h[b] PROVE l \in Image(h, a .. b)
    <3>1. PICK p \in 1 .. m : h[p] = l
      BY DEF Climbs
    <3>2. h[a] <= h[p] /\ h[p] <= h[b]
      BY <1>1, <2>1, <3>1
    <3>3. p \in a .. b
      BY <3>2, ClimbsOver
    <3> QED BY <3>1, <3>3 DEF Image
  <2>2. ASSUME NEW p \in a .. b PROVE h[p] \in L /\ h[p] \in h[a] .. h[b]
    <3>1. p \in 1 .. m /\ a <= p /\ p <= b
      OBVIOUS
    <3>2. h[p] \in L /\ h[p] \in Nat /\ h[a] <= h[p] /\ h[p] <= h[b]
      BY <3>1, ClimbsOver
    <3> QED BY <1>1, <3>2
  <2> QED BY <2>1, <2>2 DEF Image
<1>7. Cardinality(a .. b) = b - a + 1
  BY FS_Interval
<1>8. Cardinality(Image(h, a .. b)) = Cardinality(a .. b)
  <2>1. a .. b \subseteq 1 .. m
    OBVIOUS
  <2> QED BY <2>1, ImageCount
<1> QED BY <1>2, <1>4, <1>5, <1>6, <1>7, <1>8 DEF Span

LEMMA RunIs ==
    ASSUME NEW m \in Nat, NEW h, NEW L, Climbs(h, m, L), NEW st, NEW R, Mirrors(st, h, m, R), NEW p \in 1 .. m
    PROVE  InRun(L, R, h[p]) <=> InIgnored(st, m, p)
<1>1. ASSUME InIgnored(st, m, p) PROVE InRun(L, R, h[p])
  <2>1. PICK a \in 1 .. m, b \in 1 .. m : a <= p /\ p <= b /\ b - a >= 2 /\ \A q \in a .. b : st[q] = "Fail"
    BY <1>1 DEF InIgnored
  <2>2. PICK S : S = Span(L, h[a], h[b])
    OBVIOUS
  <2>3. S = Image(h, a .. b) /\ Cardinality(S) = b - a + 1
    BY <2>1, <2>2, SpanIs
  <2>4. h[p] \in S
    BY <2>1, <2>3 DEF Image
  <2>5. \A l \in S : R[l] = "FAIL"
    <3> TAKE l \in S
    <3>1. PICK q \in a .. b : l = h[q]
      BY <2>3 DEF Image
    <3>2. q \in 1 .. m /\ st[q] = "Fail"
      BY <2>1
    <3> QED BY <3>1, <3>2 DEF Mirrors
  <2>6. h[a] \in L /\ h[b] \in L
    BY ClimbsOver
  <2>7. Cardinality(S) >= IgnoreFailuresInARow
    BY <2>1, <2>3 DEF IgnoreFailuresInARow
  <2> QED BY <2>2, <2>4, <2>5, <2>6, <2>7 DEF InRun
<1>2. ASSUME InRun(L, R, h[p]) PROVE InIgnored(st, m, p)
  <2>0. PICK i1 \in L, i2 \in L : /\ h[p] \in Span(L, i1, i2)
                                  /\ Cardinality(Span(L, i1, i2)) >= IgnoreFailuresInARow
                                  /\ \A l \in Span(L, i1, i2) : R[l] = "FAIL"
    BY <1>2 DEF InRun
  <2>1. PICK S : S = Span(L, i1, i2)
    OBVIOUS
  <2>2. PICK c \in 1 .. m, d \in 1 .. m : h[c] = i1 /\ h[d] = i2
    BY DEF Climbs
  <2>3. PICK a \in 1 .. m, b \in 1 .. m : a <= b /\ S = Image(h, a .. b) /\ Cardinality(S) = b - a + 1
    <3>1. CASE c <= d
      BY <2>1, <2>2, <3>1, SpanIs
    <3>2. CASE d <= c
      BY <2>1, <2>2, <3>2, SpanIs
    <3> QED BY <3>1, <3>2
  <2>4. PICK q \in a .. b : h[q] = h[p]
    BY <2>0, <2>1, <2>3 DEF Image
  <2>5. p \in a .. b
    <3>1. q \in 1 .. m
      OBVIOUS
    <3> QED BY <2>4, <3>1, ClimbsOver
  <2>6. b - a >= 2
    BY <2>0, <2>1, <2>3 DEF IgnoreFailuresInARow
  <2>7. \A r \in a .. b : st[r] = "Fail"
    <3> TAKE r \in a .. b
    <3>1. r \in 1 .. m /\ h[r] \in S
      BY <2>3 DEF Image
    <3> QED BY <2>0, <2>1, <3>1 DEF Mirrors
  <2> QED BY <2>5, <2>6, <2>7 DEF InIgnored
<1> QED BY <1>1, <1>2

LEMMA KeptIs ==
    ASSUME NEW m \in Nat, NEW h, NEW L, Climbs(h, m, L), NEW st, NEW R, Mirrors(st, h, m, R)
    PROVE  KeptOf(L, R) = Image(h, Considered(st, m))
<1>1. ASSUME NEW i \in KeptOf(L, R) PROVE i \in Image(h, Considered(st, m))
  <2>1. PICK p \in 1 .. m : h[p] = i
    BY DEF Climbs, KeptOf
  <2>2. ~InIgnored(st, m, p)
    BY <2>1, RunIs DEF KeptOf
  <2> QED BY <2>1, <2>2 DEF Image, Considered
<1>2. ASSUME NEW p \in Considered(st, m) PROVE h[p] \in KeptOf(L, R)
  <2>1. p \in 1 .. m /\ ~InIgnored(st, m, p)
    BY DEF Considered
  <2>2. ~InRun(L, R, h[p])
    BY <2>1, RunIs
  <2> QED BY <2>1, <2>2, ClimbsOver DEF KeptOf
<1> QED BY <1>1, <1>2 DEF Image

(* The column before one that is kept.                                     *)
LEMMA FirstToFail ==
    ASSUME NEW m \in Nat, NEW h, NEW L, Climbs(h, m, L), NEW st, NEW R, Mirrors(st, h, m, R),
           NEW S, S \subseteq 1 .. m, NEW K, K = Image(h, S), NEW p \in S
    PROVE  (h[p] = Min(K) \/ R[PrevOf(K, h[p])] # "FAIL") <=> ~FailedLast(st, S, p)
<1>1. K \in SUBSET Nat /\ h[p] \in K /\ p \in 1 .. m
  BY DEF Image, Climbs
<1>2. \A r \in S : r \in 1 .. m /\ h[r] \in Nat /\ (h[r] < h[p] <=> r < p) /\ (h[p] <= h[r] <=> p <= r)
  BY <1>1, ClimbsOver
<1> DEFINE T == { j \in K : j < h[p] }
<1>3. CASE \A q \in S : p <= q
  <2>1. \A x \in K : h[p] <= x
    BY <1>2, <1>3 DEF Image
  <2>2. h[p] = Min(K)
    BY <1>1, <2>1, MinIs
  <2>3. ~FailedLast(st, S, p)
    <3>1. \A q \in S : ~(q < p)
      BY <1>1, <1>2, <1>3
    <3> QED BY <3>1 DEF FailedLast
  <2> QED BY <2>2, <2>3
<1>4. CASE \E q \in S : ~(p <= q)
  <2>1. PICK q \in S : q < p /\ h[q] < h[p] /\ h[q] \in K
    BY <1>1, <1>2, <1>4 DEF Image
  <2>2. T \in SUBSET Int /\ T # {} /\ h[p] \in Int /\ \A x \in T : x <= h[p]
    BY <1>1, <2>1
  <2>3. PICK j : j = Max(T) /\ j \in T /\ \A x \in T : x <= j
    <3> HIDE DEF T
    <3> QED BY <2>2, MaxOf
  <2>4. PICK r \in S : h[r] = j
    BY <2>3 DEF Image
  <2>5. r < p /\ \A s \in S : s < p => s <= r
    <3>1. r < p
      BY <1>2, <2>3, <2>4
    <3>2. ASSUME NEW s \in S, s < p PROVE s <= r
      <4>1. h[s] \in T
        BY <1>2, <3>2 DEF Image
      <4>2. h[s] <= h[r]
        BY <2>3, <2>4, <4>1
      <4> QED BY <1>2, <4>2, ClimbsOver
    <3> QED BY <3>1, <3>2
  <2>6. FailedLast(st, S, p) <=> st[r] = "Fail"
    <3>1. ASSUME FailedLast(st, S, p) PROVE st[r] = "Fail"
      <4>1. PICK s \in S : s < p /\ st[s] = "Fail" /\ \A u \in S : u < p => u <= s
        BY <3>1 DEF FailedLast
      <4>2. s = r
        BY <1>2, <2>5, <4>1
      <4> QED BY <4>1, <4>2
    <3>2. ASSUME st[r] = "Fail" PROVE FailedLast(st, S, p)
      BY <2>5, <3>2 DEF FailedLast
    <3> QED BY <3>1, <3>2
  <2>7. st[r] = "Fail" <=> R[h[r]] = "FAIL"
    BY <1>2 DEF Mirrors
  <2>8. h[p] # Min(K)
    <3>1. K # {} /\ K \in SUBSET Int /\ 0 \in Int /\ \A x \in K : x >= 0
      BY <1>1
    <3>2. \A x \in K : Min(K) <= x
      BY <3>1, MinOf
    <3> QED BY <1>1, <2>1, <3>2
  <2>9. PrevOf(K, h[p]) = h[r]
    BY <2>3, <2>4 DEF PrevOf
  <2> QED BY <2>6, <2>7, <2>8, <2>9
<1> QED BY <1>3, <1>4

LEMMA FlipsAre ==
    ASSUME NEW m \in Nat, NEW h, NEW L, Climbs(h, m, L), NEW st, NEW R, Mirrors(st, h, m, R),
           NEW S, S = Considered(st, m), NEW K, K = KeptOf(L, R)
    PROVE  /\ Cardinality(FlipsOf(K, R)) = Cardinality(FlipsAt(st, S))
           /\ Cardinality(K) = Cardinality(S)
<1>1. S \subseteq 1 .. m /\ K = Image(h, S) /\ FlipsAt(st, S) \subseteq 1 .. m
  BY KeptIs DEF Considered, FlipsAt
<1>2. ASSUME NEW p \in S PROVE h[p] \in FlipsOf(K, R) <=> p \in FlipsAt(st, S)
  <2>1. h[p] \in K /\ p \in 1 .. m
    BY <1>1 DEF Image
  <2>2. (h[p] = Min(K) \/ R[PrevOf(K, h[p])] # "FAIL") <=> ~FailedLast(st, S, p)
    BY <1>1, FirstToFail
  <2>3. (st[p] = "Fail" <=> R[h[p]] = "FAIL") /\ (st[p] = "Flaky" <=> R[h[p]] = "FLAKY")
    BY <2>1 DEF Mirrors
  <2> QED BY <2>1, <2>2, <2>3 DEF FlipsOf, FlipsAt
<1>3. FlipsOf(K, R) = Image(h, FlipsAt(st, S))
  <2>1. FlipsOf(K, R) \subseteq Image(h, S) /\ FlipsAt(st, S) \subseteq S
    BY <1>1 DEF FlipsOf, FlipsAt
  <2> QED BY <1>2, <2>1 DEF Image
<1> QED BY <1>1, <1>3, ImageCount

-----------------------------------------------------------------------------
(* What parseRow lists.                                                    *)
Counting(g, row, fail) == { i \in fail : ~isInfraFailure(MessageOf(row, i)) /\ ~failingColumn(g.rows, i) }
Categorised(k, fails, pass) ==
    [i \in 1 .. k |-> IF i \in fails THEN "Fail" ELSE IF i \in pass THEN "Pass" ELSE "Flaky"]

LEMMA FilledAlike ==
    ASSUME NEW r PROVE Coalesce(r, FALSE) = "NO_RESULT" <=> r = "NO_RESULT"
<1>1. CASE r = "NO_RESULT"
  <2>1. ~Failing(r) /\ ~Passing(r)
    BY <1>1, SeverityIs DEF Failing, Passing, GTE, LTE
  <2> QED BY <1>1, <2>1 DEF Coalesce
<1>2. CASE r # "NO_RESULT"
  BY <1>2 DEF Coalesce
<1> QED BY <1>1, <1>2

(* What parseRow finds in a row of the stored grid, by its results R.      *)
Parsed(n, k, R) ==
    /\ \A res : ColumnsOf(stored, stored.rows[n], 1, reads, res) = { i \in 1 .. k : R[i] = res }
    /\ \A i \in 1 .. k : failingColumn(stored.rows, i) <=> DeadColumn(i)
    /\ \A i \in 1 .. k : R[i] = "FAIL" =>
         isInfraFailure(MessageOf(stored.rows[n], i)) <=> TruthCell(i, n).msg.text \in InfraMessages

LEMMA ParsedIs ==
    ASSUME HistoryInv, NEW n \in DOMAIN stored.rows, NEW k \in Nat, k = Len(truth), DOMAIN truth = 1 .. k,
           NEW R, R = ColumnResults(n)
    PROVE  Parsed(n, k, R)
<1>1. ASSUME NEW m \in DOMAIN stored.rows
      PROVE  /\ AreCells(RowOf(truth, m), k) /\ Encodes(m, stored.rows[m], RowOf(truth, m), k)
             /\ \A i \in 1 .. k : RowOf(truth, m)[i] = TruthCell(i, m)
  BY RowOfIs, TruthColumns DEF HistoryInv, IsGrid, RowOf, TruthCell, CellOf
<1>2. ASSUME NEW m \in DOMAIN stored.rows
      PROVE  /\ Len(Iter(stored.rows[m].results)) = k
             /\ \A i \in 1 .. k : At(stored.rows[m].results, i) = TruthCell(i, m).res
  <2>1. PICK out : out = Iter(stored.rows[m].results) /\ Len(out) = k
    BY <1>1 DEF Encodes
  <2>2. \A i \in 1 .. k : out[i] = TruthCell(i, m).res
    BY <1>1, <2>1 DEF Encodes
  <2> QED BY <2>1, <2>2 DEF At, Call
<1>3. PICK row, columns, V, out : /\ row = stored.rows[n] /\ columns = stored.columns
                                  /\ V = RowOf(truth, n) /\ out = Iter(row.results)
  OBVIOUS
<1>4. /\ AreCells(V, k) /\ Encodes(n, row, V, k) /\ Len(out) = k
      /\ \A i \in 1 .. k : V[i] = TruthCell(i, n) /\ At(row.results, i) = V[i].res
  BY <1>1, <1>2, <1>3
<1>5. Len(columns) = k /\ \A i \in 1 .. k : columns[i].started \in 1 .. reads
  <2>1. PICK cs : cs = [i \in 1 .. k |-> truth[i].col] /\ cs = columns
    BY <1>3 DEF HistoryInv, IsGrid
  <2>2. Len(cs) = k /\ \A i \in 1 .. k : cs[i] = truth[i].col
    BY <2>1
  <2>3. ASSUME NEW i \in 1 .. k PROVE truth[i].col.started \in 1 .. reads
    BY DEF HistoryInv, IsTruth, Recorded, Falling
  <2> QED BY <2>1, <2>2, <2>3
<1>6. Min({Len(Iter(row.results)), Len(columns)}) = k
  <2>1. {k} \in SUBSET Nat /\ k \in {k} /\ \A x \in {k} : k <= x
    OBVIOUS
  <2>2. Min({k}) = k
    BY <2>1, MinIs, Zenon
  <2>3. {Len(Iter(row.results)), Len(columns)} = {k}
    BY <1>3, <1>4, <1>5
  <2> QED BY <2>2, <2>3
<1>7. ASSUME NEW res
      PROVE  ColumnsOf(stored, row, 1, reads, res) = { i \in 1 .. k : R[i] = res }
  <2>1. ASSUME NEW i \in 1 .. k
        PROVE  /\ isWithinTimeFrame(stored.columns[i], 1, reads)
               /\ Coalesce(At(row.results, i), FALSE) = R[i]
    BY <1>3, <1>4, <1>5 DEF isWithinTimeFrame, ColumnResults
  <2> QED BY <1>3, <1>6, <2>1 DEF ColumnsOf
<1>8. ASSUME NEW i \in 1 .. k PROVE failingColumn(stored.rows, i) <=> DeadColumn(i)
  <2>1. \A m \in DOMAIN stored.rows : At(stored.rows[m].results, i) = TruthCell(i, m).res
    BY <1>2
  <2> QED BY <2>1 DEF failingColumn, DeadColumn
<1>9. ASSUME NEW i \in 1 .. k, R[i] = "FAIL"
      PROVE  isInfraFailure(MessageOf(row, i)) <=> TruthCell(i, n).msg.text \in InfraMessages
  <2>1. PICK c : c = TruthCell(i, n) /\ c = V[i]
    BY <1>4
  <2>2. c.res # "NO_RESULT"
    BY <1>9, <2>1, FilledAlike DEF ColumnResults
  <2>3. PICK p : p = FilledIdx(out, i)
    OBVIOUS
  <2>4. ListedFor(n, row, c, p)
    <3>1. k <= k /\ AreCells(V, k) /\ Encodes(n, row, V, k)
      BY <1>4
    <3>2. V[i].res # "NO_RESULT" => ListedFor(n, row, V[i], p)
      BY <1>3, <2>3, <3>1, FilledIndex
    <3> QED BY <2>1, <2>2, <3>2
  <2>5. { j \in 1 .. i : Coalesce(At(row.results, j), FALSE) # "NO_RESULT" } = { j \in 1 .. i : out[j] # "NO_RESULT" }
    <3>1. \A j \in 1 .. i : j \in 1 .. k /\ j <= Len(out)
      BY <1>4
    <3>2. \A j \in 1 .. i : At(row.results, j) = out[j]
      BY <1>3, <3>1 DEF At, Call
    <3> QED BY <3>2, FilledAlike
  <2>6. MessageOf(row, i) = truncate(c.msg)
    BY <2>3, <2>4, <2>5 DEF MessageOf, FilledIdx, ListedFor
  <2>7. Readable(c)
    <3>1. Recorded(truth[i])
      BY DEF HistoryInv, IsTruth
    <3> QED BY <2>1, <3>1, EmptyReadable DEF Recorded, TruthCell
  <2>8. truncate(c.msg).text = c.msg.text
    BY <2>7 DEF truncate, Readable
  <2> QED BY <2>1, <2>6, <2>8 DEF isInfraFailure
<1> QED BY <1>3, <1>7, <1>8, <1>9 DEF Parsed

(* FlipsExact for a row of the stored grid.                                *)
RowFlips(n) ==
    LET R == ColumnResults(n)
        kept == KeptOf(ListedColumns(n), R)
    IN CalculateHealthiness(stored, 1, reads)[n].flakiness
         = [flips |-> Cardinality(FlipsOf(kept, R)), considered |-> Cardinality(kept)]

LEMMA RowFlipsAre ==
    ASSUME HistoryInv, NEW n \in DOMAIN CalculateHealthiness(stored, 1, reads)
    PROVE  RowFlips(n)
<1>1. PICK info : info = [m \in DOMAIN stored.rows \ MethodRows |-> parseRow(stored, stored.rows[m], 1, reads)]
  OBVIOUS
<1>2. CalculateHealthiness(stored, 1, reads) = GetFlakiness(info)
  BY <1>1, Zenon DEF CalculateHealthiness
<1>3. /\ n \in DOMAIN stored.rows
      /\ GetFlakiness(info)[n].flakiness = calculateFlipFlakiness(info[n].statuses)
  <2>1. PICK base : base = GetBaseFlakiness(info)
    OBVIOUS
  <2>2. /\ DOMAIN base \subseteq DOMAIN info
        /\ \A m \in DOMAIN base : base[m] = calculateNaiveFlakiness(info[m])
    BY <2>1 DEF GetBaseFlakiness
  <2>3. GetFlakiness(info) = [m \in DOMAIN base |->
          [base[m] EXCEPT !.flakiness = calculateFlipFlakiness(info[m].statuses)]]
    BY <2>1, Zenon DEF GetFlakiness
  <2>4. n \in DOMAIN base
    BY <1>2, <2>3
  <2>5. "flakiness" \in DOMAIN base[n]
    BY <2>2, <2>4 DEF calculateNaiveFlakiness
  <2>6. GetFlakiness(info)[n] = [base[n] EXCEPT !.flakiness = calculateFlipFlakiness(info[n].statuses)]
    BY <2>3, <2>4
  <2>7. GetFlakiness(info)[n].flakiness = calculateFlipFlakiness(info[n].statuses)
    BY <2>5, <2>6
  <2> QED BY <1>1, <2>2, <2>4, <2>7
<1>4. PICK k : k \in Nat /\ k = Len(truth) /\ DOMAIN truth = 1 .. k
  BY TruthColumns DEF HistoryInv, AreColumns
<1>5. PICK row, L, R, K : /\ row = stored.rows[n] /\ L = ListedColumns(n)
                          /\ R = ColumnResults(n) /\ K = KeptOf(L, R)
  OBVIOUS
<1>6. PICK pass, fail, flaky, fails :
         /\ pass = ColumnsOf(stored, row, 1, reads, "PASS") /\ fail = ColumnsOf(stored, row, 1, reads, "FAIL")
         /\ flaky = ColumnsOf(stored, row, 1, reads, "FLAKY")
         /\ fails = Counting(stored, row, fail)
  OBVIOUS
<1>7. PICK s, st : /\ s = Categorised(k, fails, pass)
                   /\ st = Select(s, fails \cup pass \cup flaky)
  OBVIOUS
<1>8. info[n].statuses = st
  <2>1. n \in DOMAIN info /\ info[n] = parseRow(stored, row, 1, reads)
    <3>1. n \in DOMAIN info
      BY <1>2 DEF GetFlakiness, GetBaseFlakiness
    <3> QED BY <1>1, <1>5, <3>1
  <2>2. Len(stored.columns) = k
    <3>1. PICK cs : cs = [i \in 1 .. k |-> truth[i].col] /\ cs = stored.columns
      BY <1>4 DEF HistoryInv, IsGrid
    <3> QED BY <1>4, <3>1
  <2>3. parseRow(stored, row, 1, reads).statuses
          = Select(Categorised(Len(stored.columns), fails, pass), fails \cup pass \cup flaky)
    <3>1. { i \in fail \ { i \in fail : isInfraFailure(MessageOf(row, i)) } : ~failingColumn(stored.rows, i) } = fails
      BY <1>6 DEF Counting
    <3> QED BY <1>6, <3>1, Zenon DEF parseRow, Categorised
  <2> QED BY <1>7, <2>1, <2>2, <2>3
<1>9. /\ pass = { i \in 1 .. k : R[i] = "PASS" } /\ fail = { i \in 1 .. k : R[i] = "FAIL" }
      /\ flaky = { i \in 1 .. k : R[i] = "FLAKY" }
      /\ \A i \in 1 .. k : failingColumn(stored.rows, i) <=> DeadColumn(i)
      /\ \A i \in 1 .. k : R[i] = "FAIL" =>
           isInfraFailure(MessageOf(row, i)) <=> TruthCell(i, n).msg.text \in InfraMessages
  <2>1. Parsed(n, k, R)
    BY <1>3, <1>4, <1>5, ParsedIs
  <2> QED BY <1>5, <1>6, <2>1 DEF Parsed
<1>10. /\ fails \cup pass \cup flaky = L /\ L \subseteq 1 .. k
       /\ \A i \in L : /\ s[i] = "Fail" <=> R[i] = "FAIL"
                       /\ s[i] = "Flaky" <=> R[i] = "FLAKY"
  <2>1. fails = { i \in 1 .. k : R[i] = "FAIL" /\ ~DeadColumn(i)
                                   /\ TruthCell(i, n).msg.text \notin InfraMessages }
    BY <1>6, <1>9 DEF Counting
  <2>2. fails \cup pass \cup flaky = L
    <3>1. \A i \in DOMAIN truth : R[i] = ColumnResults(n)[i]
      BY <1>5
    <3> QED BY <1>4, <1>5, <1>9, <2>1, <3>1 DEF ListedColumns
  <2>3. ASSUME NEW i \in L
        PROVE  i \in 1 .. k /\ (s[i] = "Fail" <=> R[i] = "FAIL") /\ (s[i] = "Flaky" <=> R[i] = "FLAKY")
    <3>1. i \in 1 .. k /\ (i \in fails \/ i \in pass \/ i \in flaky)
      BY <1>5, <1>9, <2>1, <2>2
    <3>2. s[i] = IF i \in fails THEN "Fail" ELSE IF i \in pass THEN "Pass" ELSE "Flaky"
      BY <1>7, <3>1 DEF Categorised
    <3> QED BY <1>9, <2>1, <3>1, <3>2
  <2> QED BY <2>2, <2>3
<1>11. s \in Seq(Categories) /\ Len(s) = k
  BY <1>4, <1>7 DEF Categories, Categorised
<1>12. PICK h : Subsequence(st, s, k, L, h)
  <2>1. st = Select(s, L)
    BY <1>7, <1>10
  <2>2. \E h : Subsequence(Select(s, L), s, Len(s), L, h)
    BY <1>11, SelectIs
  <2> QED BY <1>11, <2>1, <2>2
<1>13. PICK m : m = Len(st) /\ m \in Nat /\ DOMAIN st = 1 .. m
  BY <1>12 DEF Subsequence
<1>14. \A p \in 1 .. m : h[p] \in L /\ h[p] \in 1 .. k /\ st[p] = s[h[p]]
  BY <1>12, <1>13 DEF Subsequence
<1>15. Climbs(h, m, L)
  BY <1>10, <1>12, <1>13, <1>14 DEF Subsequence, Climbs
<1>16. Mirrors(st, h, m, R)
  BY <1>10, <1>14 DEF Mirrors
<1>17. \A p \in 1 .. m : st[p] \in Categories
  BY <1>11, <1>14
<1>18. PICK S : S = Considered(st, m)
  OBVIOUS
<1>19. calculateFlipFlakiness(st) = [flips |-> Cardinality(FlipsAt(st, S)), considered |-> Cardinality(S)]
  BY <1>13, <1>17, <1>18, FlipFlakinessIs
<1>20. Cardinality(FlipsOf(K, R)) = Cardinality(FlipsAt(st, S)) /\ Cardinality(K) = Cardinality(S)
  BY <1>5, <1>13, <1>15, <1>16, <1>18, FlipsAre
<1> QED BY <1>2, <1>3, <1>5, <1>8, <1>19, <1>20 DEF RowFlips

LEMMA FlipsExactHolds == HistoryInv => FlipsExact
<1> SUFFICES ASSUME HistoryInv PROVE FlipsExact
  OBVIOUS
<1>1. \A n \in DOMAIN CalculateHealthiness(stored, 1, reads) : RowFlips(n)
  BY RowFlipsAre
<1> QED BY <1>1, Zenon DEF FlipsExact, RowFlips

(* The flips of every row of the stored grid, by which its tab's health is *)
(* told, are those of the results that were read for it, whatever the      *)
(* columns, the infrastructure failures and the runs of failures are.      *)
THEOREM GridFlipsExact == HistorySpec => []FlipsExact
<1>1. HistorySpec => []HistoryInv
  BY HistoryAlways
<1> QED BY <1>1, FlipsExactHolds, PTL

-----------------------------------------------------------------------------
(* The tabulator.                                                          *)
Places == /\ DOMAIN reader = Readers /\ DOMAIN writer = Writers
          /\ \A w \in Writers : DOMAIN writer[w] = {"at", "task", "existing"}

Stopped == Places /\ NoSendAfterClose

(* A task is sent only by a running reader, and the channel closes after   *)
(* the readers ended.                                                      *)
LEMMA StoppedStep == Stopped /\ [TabNext]_allVars => Stopped'
<1> SUFFICES ASSUME Stopped, [TabNext]_allVars PROVE Stopped'
  OBVIOUS
<1> USE DEF Stopped, Places, NoSendAfterClose
<1>1. ASSUME UpdateGrid \/ fixSnapshot \/ UNCHANGED allVars PROVE Stopped'
  BY <1>1 DEF UpdateGrid, fixSnapshot, allVars, vars, loop
<1>2. ASSUME NEW r \in Readers, Read(r) PROVE Stopped'
  BY <1>2 DEF Read
<1>3. ASSUME NEW r \in Readers, SendTask(r) PROVE Stopped'
  BY <1>3 DEF SendTask, Idle
<1>4. ASSUME NEW w \in Writers, DownloadExisting(w) \/ Upload(w) \/ WriteFails(w) PROVE Stopped'
  BY <1>4 DEF DownloadExisting, Upload, WriteFails, WriterGoes
<1>5. ASSUME Cancel \/ CloseTasks \/ Return PROVE Stopped'
  BY <1>5 DEF Cancel, CloseTasks, Return, StopsAt, AllIdle
<1> QED BY <1>1, <1>2, <1>3, <1>4, <1>5, Zenon DEF TabNext, Steps

(* No reader sends after the channel of tasks is closed, and no task is    *)
(* left when Update returns, for any number of readers and writers.        *)
THEOREM TasksAreDone == TabSpec => []NoSendAfterClose
<1>1. TabInit => Stopped
  BY DEF TabInit, Stopped, Places, NoSendAfterClose, Idle
<1>2. Stopped => NoSendAfterClose
  BY DEF Stopped
<1> QED BY <1>1, <1>2, StoppedStep, PTL DEF TabSpec

-----------------------------------------------------------------------------
(* Columns are numbered as the builds: newest first, without a gap in a    *)
(* grid that the updater wrote, maybe with gaps in a tab.                  *)
IsNumbered(c) == DOMAIN c = {"col", "cells"} /\ \E k \in Nat : c.col = [started |-> k]

Ordered(g) ==
    /\ \E X : g \in Seq(X) /\ \A c \in X : IsNumbered(c)
    /\ \A i, j \in DOMAIN g : i < j => g[i].col.started > g[j].col.started

Consecutive(g, top) ==
    /\ \E X : g \in Seq(X) /\ \A c \in X : IsNumbered(c)
    /\ \A i \in DOMAIN g : g[i].col.started = top + 1 - i

Snapshot(g) == \E top \in Nat : Consecutive(g, top)

OrderInv ==
    /\ Places /\ builds \in Nat /\ Consecutive(grid, builds) /\ Ordered(tab)
    /\ \A r \in Readers : Snapshot(reader[r].grid)
    /\ \A w \in Writers : Snapshot(writer[w].task.grid) /\ Ordered(writer[w].existing)

Searches == INSTANCE FoldProofs WITH Step <- Halve

(* The parts of Ordered that the provers need apart. *)
LEMMA OrderedIs ==
    ASSUME NEW g, Ordered(g)
    PROVE  /\ Len(g) \in Nat /\ DOMAIN g = 1 .. Len(g)
           /\ \A i \in DOMAIN g : IsNumbered(g[i]) /\ g[i].col.started \in Nat
<1>1. PICK X : g \in Seq(X) /\ \A c \in X : IsNumbered(c)
  BY DEF Ordered
<1>2. Len(g) \in Nat /\ DOMAIN g = 1 .. Len(g) /\ \A i \in DOMAIN g : IsNumbered(g[i])
  BY <1>1
<1>3. ASSUME NEW i \in DOMAIN g PROVE g[i].col.started \in Nat
  <2>1. PICK k \in Nat : g[i].col = [started |-> k]
    BY <1>2 DEF IsNumbered
  <2> QED BY <2>1
<1> QED BY <1>2, <1>3

(* The binary search of mergeGrids finds the first column that starts at   *)
(* the seam or before.                                                     *)
SeamAt(g, seam, m) ==
    /\ m \in 0 .. Len(g)
    /\ \A i \in DOMAIN g : i <= m => g[i].col.started > seam
    /\ \A i \in DOMAIN g : m < i => g[i].col.started <= seam

(* A turn of the search leaves the column between the two ends. *)
Between(g, seam, min, late) ==
    /\ min \in 0 .. Len(g) /\ late \in 0 .. Len(g) /\ min + late <= Len(g)
    /\ \A i \in DOMAIN g : i <= min => g[i].col.started > seam
    /\ \A i \in DOMAIN g : Len(g) - late < i => g[i].col.started <= seam

(* A turn of the search keeps the seam between its bounds and brings them  *)
(* closer.                                                                 *)
LEMMA HalveIs ==
    ASSUME NEW g, Ordered(g), NEW seam \in Nat, NEW min, NEW late, Between(g, seam, min, late)
    PROVE  \E a, b : /\ Halve([min |-> min, late |-> late], [existing |-> g, seam |-> seam])
                          = [min |-> a, late |-> b]
                     /\ Between(g, seam, a, b)
                     /\ min + late = Len(g) \/ min + late < a + b
<1>1. /\ Len(g) \in Nat /\ DOMAIN g = 1 .. Len(g)
      /\ \A i \in DOMAIN g : g[i].col.started \in Nat
  BY OrderedIs
<1>2. PICK n, max, check : n = Len(g) /\ max = n - late /\ check = (min + max) \div 2
  OBVIOUS
<1>3. n \in Nat /\ min \in 0 .. n /\ late \in 0 .. n /\ min + late <= n
  BY <1>1, <1>2 DEF Between
<1>4. max \in 0 .. n /\ min <= max /\ late = n - max
  BY <1>2, <1>3
<1>5. PICK f, x : f = [min |-> min, late |-> late] /\ x = [existing |-> g, seam |-> seam]
  OBVIOUS
<1>6. Halve(f, x) = IF min = max THEN f
                    ELSE IF g[check + 1].col.started <= seam THEN [min |-> min, late |-> n - check]
                    ELSE [min |-> check + 1, late |-> late]
  <2>1. f.min = min /\ f.late = late /\ x.existing = g /\ x.seam = seam
    BY <1>5
  <2>2. \A e : [f EXCEPT !.late = e] = [min |-> min, late |-> e]
    BY <1>5
  <2>3. \A e : [f EXCEPT !.min = e] = [min |-> e, late |-> late]
    BY <1>5
  <2> QED BY <1>2, <2>1, <2>2, <2>3 DEF Halve
<1>7. CASE min = max
  <2>1. Halve(f, x) = [min |-> min, late |-> late]
    BY <1>5, <1>6, <1>7
  <2>2. min + late = Len(g)
    BY <1>2, <1>3, <1>4, <1>7
  <2> QED BY <1>5, <2>1, <2>2
<1>8. CASE min # max
  <2>1. check \in Nat /\ min <= check /\ check < max
    <3>1. min \in Nat /\ max \in Nat /\ min < max
      BY <1>3, <1>4, <1>8
    <3> HIDE <1>3, <1>4
    <3> QED BY <1>2, <3>1
  <2>2. check + 1 \in DOMAIN g /\ check < n
    <3>1. n \in Nat /\ max \in Nat /\ max <= n
      BY <1>3, <1>4
    <3>2. check + 1 \in 1 .. n /\ check < n
      BY <2>1, <3>1
    <3>3. DOMAIN g = 1 .. n
      BY Zenon, <1>1, <1>2
    <3> QED BY <3>2, <3>3
  <2>3. CASE g[check + 1].col.started <= seam
    <3>1. Halve(f, x) = [min |-> min, late |-> n - check]
      BY <1>6, <1>8, <2>3
    <3>2. /\ n - check \in 0 .. n /\ min + (n - check) <= n /\ n - (n - check) = check
          /\ min + late < min + (n - check)
      BY <1>3, <1>4, <2>1, <2>2
    <3>3. ASSUME NEW i \in DOMAIN g, check < i PROVE g[i].col.started <= seam
      <4>1. i \in Nat /\ (i = check + 1 \/ check + 1 < i)
        BY <1>1, <2>1, <3>3
      <4>2. CASE check + 1 < i
        <5>1. g[check + 1].col.started > g[i].col.started
          BY <2>2, <4>2 DEF Ordered
        <5>2. g[check + 1].col.started \in Nat /\ g[i].col.started \in Nat
          BY <1>1, <2>2
        <5> QED BY <2>3, <5>1, <5>2
      <4> QED BY <2>3, <4>1, <4>2
    <3>4. Between(g, seam, min, n - check)
      BY <1>2, <1>3, <3>2, <3>3 DEF Between
    <3> QED BY <1>5, <3>1, <3>2, <3>4
  <2>4. CASE ~(g[check + 1].col.started <= seam)
    <3>1. Halve(f, x) = [min |-> check + 1, late |-> late]
      BY <1>6, <1>8, <2>4
    <3>2. check + 1 \in 0 .. n /\ (check + 1) + late <= n /\ min + late < (check + 1) + late
      BY <1>3, <1>4, <2>1, <2>2
    <3>3. ASSUME NEW i \in DOMAIN g, i <= check + 1 PROVE g[i].col.started > seam
      <4>1. i \in Nat /\ (i = check + 1 \/ i < check + 1)
        BY <1>1, <2>1, <3>3
      <4>2. g[check + 1].col.started \in Nat /\ g[i].col.started \in Nat
        BY <1>1, <2>2
      <4>3. CASE i < check + 1
        <5>1. g[i].col.started > g[check + 1].col.started
          BY <2>2, <4>3 DEF Ordered
        <5> QED BY <2>4, <4>2, <5>1
      <4>4. CASE i = check + 1
        BY <2>4, <4>2, <4>4
      <4> QED BY <4>1, <4>3, <4>4
    <3>4. Between(g, seam, check + 1, late)
      BY <1>2, <1>3, <3>2, <3>3 DEF Between
    <3> QED BY <1>5, <3>1, <3>2, <3>4
  <2> QED BY <2>3, <2>4
<1> QED BY <1>7, <1>8

(* The binary search of mergeGrids finds the columns newer than the seam. *)
LEMMA SeamIs ==
    ASSUME NEW g, Ordered(g), NEW seam \in Nat PROVE SeamAt(g, seam, Seam(g, seam))
<1>1. /\ Len(g) \in Nat /\ DOMAIN g = 1 .. Len(g)
      /\ \A i \in DOMAIN g : g[i].col.started \in Nat
  BY OrderedIs
<1>2. PICK n, x, s : n = Len(g) /\ x = [existing |-> g, seam |-> seam] /\ s = [i \in DOMAIN g |-> x]
  OBVIOUS
<1>3. n \in Nat /\ Len(s) = n /\ \A i \in 1 .. n : s[i] = x
  BY <1>1, <1>2
<1> DEFINE Found(k, f) == \E a, b : f = [min |-> a, late |-> b] /\ Between(g, seam, a, b) /\ k <= a + b
           Q == [k \in 0 .. n |-> { f \in [min : 0 .. n, late : 0 .. n] : Found(k, f) }]
<1>4. [min |-> 0, late |-> 0] \in Q[0]
  <2>1. Between(g, seam, 0, 0)
    BY <1>1 DEF Between
  <2>2. 0 \in 0 .. n /\ 0 <= 0 + 0
    BY <1>3
  <2>3. Found(0, [min |-> 0, late |-> 0])
    BY <2>1, <2>2
  <2> QED BY <2>2, <2>3
<1>5. ASSUME NEW k \in 1 .. n, NEW f \in Q[k - 1] PROVE Halve(f, x) \in Q[k]
  <2>1. k - 1 \in 0 .. n /\ k \in 0 .. n /\ k \in Nat
    BY <1>3
  <2>2. PICK a, b : f = [min |-> a, late |-> b] /\ Between(g, seam, a, b) /\ k - 1 <= a + b
    BY <2>1
  <2>3. PICK c, d : /\ Halve(f, x) = [min |-> c, late |-> d] /\ Between(g, seam, c, d)
                    /\ a + b = Len(g) \/ a + b < c + d
    BY <1>2, <2>2, HalveIs, ZenonT(40)
  <2>4. /\ a \in 0 .. n /\ b \in 0 .. n /\ c \in 0 .. n /\ d \in 0 .. n
        /\ a + b <= n /\ c + d <= n
    BY <1>2, <2>2, <2>3 DEF Between
  <2>5. CASE a + b < c + d
    <3>1. k <= c + d
      BY <2>1, <2>2, <2>4, <2>5
    <3>2. Found(k, Halve(f, x))
      BY <2>3, <3>1
    <3> QED BY <2>1, <2>3, <2>4, <3>2
  <2>6. CASE a + b = Len(g)
    <3>1. Halve(f, x) = f
      BY <1>2, <1>3, <2>2, <2>4, <2>6 DEF Halve
    <3>2. k <= a + b
      BY <1>2, <2>1, <2>6
    <3>3. Found(k, f)
      BY <2>2, <3>2
    <3> QED BY <2>1, <2>2, <2>4, <3>1, <3>3
  <2> QED BY <2>3, <2>5, <2>6
<1>6. Searches!Fold([min |-> 0, late |-> 0], s) \in Q[n]
  <2> HIDE DEF Q
  <2> QED BY <1>3, <1>4, <1>5, Searches!FoldReaches
<1>7. Seam(g, seam) = Searches!Fold([min |-> 0, late |-> 0], s).min
  BY <1>2 DEF Seam, Searching!Fold, Searches!Fold
<1>8. PICK f : f = Searches!Fold([min |-> 0, late |-> 0], s)
  OBVIOUS
<1>9. PICK a, b : f = [min |-> a, late |-> b] /\ Between(g, seam, a, b) /\ n <= a + b
  <2>1. n \in 0 .. n
    BY <1>3
  <2> QED BY <1>6, <1>8, <2>1
<1>10. a \in 0 .. n /\ n - b = a
  BY <1>2, <1>3, <1>9 DEF Between
<1>11. SeamAt(g, seam, a)
  BY <1>2, <1>9, <1>10 DEF SeamAt, Between
<1> QED BY <1>7, <1>8, <1>9, <1>11

(* A grid with consecutive builds is ordered. *)
LEMMA ConsecutiveIs ==
    ASSUME NEW g, NEW top \in Nat, Consecutive(g, top) PROVE Ordered(g)
<1>1. PICK X : g \in Seq(X) /\ \A c \in X : IsNumbered(c)
  BY DEF Consecutive
<1>2. Len(g) \in Nat /\ DOMAIN g = 1 .. Len(g)
  BY <1>1
<1>3. \A i, j \in DOMAIN g : i < j => g[i].col.started > g[j].col.started
  <2> SUFFICES ASSUME NEW i \in DOMAIN g, NEW j \in DOMAIN g, i < j
               PROVE  g[i].col.started > g[j].col.started
    OBVIOUS
  <2>1. g[i].col.started = top + 1 - i /\ g[j].col.started = top + 1 - j
    BY DEF Consecutive
  <2>2. i \in Nat /\ j \in Nat
    BY <1>2
  <2>3. top + 1 - i > top + 1 - j
    BY <2>2
  <2> QED BY <2>1, <2>3
<1> QED BY <1>1, <1>3 DEF Ordered

(* Filtering keeps the columns and their times. *)
Filtered(g, base) == [i \in DOMAIN g |-> [g[i] EXCEPT !.cells = filterGrid(@, base)]]

(* Filtering rows leaves the columns in place. *)
LEMMA FilteredIs ==
    ASSUME NEW g, Ordered(g), NEW base
    PROVE  /\ Ordered(Filtered(g, base)) /\ DOMAIN Filtered(g, base) = DOMAIN g
           /\ \A i \in DOMAIN g : /\ Filtered(g, base)[i].col = g[i].col
                                  /\ Filtered(g, base)[i].cells = filterGrid(g[i].cells, base)
<1>1. PICK f : f = Filtered(g, base)
  OBVIOUS
<1>2. /\ Len(g) \in Nat /\ DOMAIN g = 1 .. Len(g)
      /\ \A i \in DOMAIN g : IsNumbered(g[i])
  BY OrderedIs
<1>3. \A i \in DOMAIN g : f[i] = [g[i] EXCEPT !.cells = filterGrid(@, base)]
  BY <1>1 DEF Filtered
<1>4. ASSUME NEW i \in DOMAIN g
      PROVE  /\ f[i].col = g[i].col /\ f[i].cells = filterGrid(g[i].cells, base)
             /\ IsNumbered(f[i])
  <2>1. DOMAIN g[i] = {"col", "cells"} /\ \E k \in Nat : g[i].col = [started |-> k]
    BY <1>2 DEF IsNumbered
  <2>2. /\ f[i].col = g[i].col /\ f[i].cells = filterGrid(g[i].cells, base)
        /\ DOMAIN f[i] = {"col", "cells"}
    BY <1>3, <2>1
  <2> QED BY <2>1, <2>2 DEF IsNumbered
<1>5. DOMAIN f = DOMAIN g
  BY <1>1 DEF Filtered
<1>6. f \in Seq({ f[i] : i \in DOMAIN g })
  BY <1>1, <1>2, <1>5 DEF Filtered
<1>7. \A c \in { f[i] : i \in DOMAIN g } : IsNumbered(c)
  BY <1>4
<1>8. \A i, j \in DOMAIN f : i < j => f[i].col.started > f[j].col.started
  BY <1>4, <1>5 DEF Ordered
<1>9. Ordered(f)
  BY <1>6, <1>7, <1>8 DEF Ordered
<1> QED BY <1>1, <1>4, <1>5, <1>9

(* Dropping empty columns keeps those that have a result, or the first.    *)
Dropped(r, g) ==
    /\ \A p \in DOMAIN r : \E i \in DOMAIN g : r[p] = g[i]
    /\ \A i \in DOMAIN g : HasResult(g[i]) => \E p \in DOMAIN r : r[p] = g[i]

(* dropEmptyColumns keeps order, and exactly the columns that have a       *)
(* result.                                                                 *)
LEMMA DropIs ==
    ASSUME NEW g, Ordered(g)
    PROVE  Ordered(dropEmptyColumns(g)) /\ Dropped(dropEmptyColumns(g), g)
<1>1. PICK S, t, r : /\ S = { i \in DOMAIN g : HasResult(g[i]) } /\ t = Select(g, S)
                     /\ r = dropEmptyColumns(g)
  OBVIOUS
<1>2. PICK X : g \in Seq(X) /\ \A c \in X : IsNumbered(c)
  BY DEF Ordered
<1>3. t \in Seq(X) /\ \E h : Subsequence(t, g, Len(g), S, h)
  BY <1>1, <1>2, SelectIs
<1>4. PICK h : Subsequence(t, g, Len(g), S, h)
  BY <1>3
<1>5. Len(g) \in Nat /\ DOMAIN g = 1 .. Len(g) /\ Len(t) \in Nat /\ DOMAIN t = 1 .. Len(t)
  BY <1>2, <1>3
<1>6. /\ \A p \in DOMAIN t : h[p] \in DOMAIN g /\ t[p] = g[h[p]]
      /\ \A p, q \in DOMAIN t : p < q => h[p] < h[q]
      /\ \A i \in DOMAIN g : HasResult(g[i]) => \E p \in DOMAIN t : h[p] = i
  BY <1>1, <1>4, <1>5 DEF Subsequence
<1>7. CASE t = <<>> /\ g # <<>>
  <2>1. r = SubSeq(g, 1, 1) /\ Len(g) >= 1
    <3>1. Len(g) # 0
      BY <1>2, <1>7
    <3>2. r = SubSeq(g, 1, 1)
      BY <1>1, <1>7, Zenon DEF dropEmptyColumns
    <3> QED BY <1>5, <3>1, <3>2
  <2>2. r \in Seq(X) /\ DOMAIN r = {1} /\ 1 \in DOMAIN g /\ r[1] = g[1]
    BY <1>2, <1>5, <2>1
  <2>3. \A i \in DOMAIN g : ~HasResult(g[i])
    BY <1>6, <1>7
  <2>4. Ordered(r)
    BY <1>2, <2>2 DEF Ordered
  <2>5. Dropped(r, g)
    BY <2>2, <2>3 DEF Dropped
  <2> QED BY <1>1, <2>4, <2>5
<1>8. CASE ~(t = <<>> /\ g # <<>>)
  <2>1. r = t
    BY <1>1, <1>8 DEF dropEmptyColumns
  <2>2. \A p, q \in DOMAIN t : p < q => t[p].col.started > t[q].col.started
    BY <1>6 DEF Ordered
  <2>3. Ordered(r)
    BY <1>2, <1>3, <2>1, <2>2 DEF Ordered
  <2>4. \A i \in DOMAIN g : HasResult(g[i]) => \E p \in DOMAIN t : t[p] = g[i]
    BY <1>6
  <2>5. \A p \in DOMAIN t : \E i \in DOMAIN g : t[p] = g[i]
    BY <1>6
  <2>6. Dropped(r, g)
    BY <2>1, <2>4, <2>5 DEF Dropped
  <2> QED BY <1>1, <2>3, <2>6
<1> QED BY <1>7, <1>8

(* Merging keeps the new columns but for the last, and the existing ones   *)
(* that start no later than that.                                          *)
LEMMA MergeIs ==
    ASSUME NEW e, Ordered(e), NEW a, Ordered(a)
    PROVE  /\ Ordered(mergeGrids(e, a))
           /\ \A i \in DOMAIN e :
                \/ \E p \in DOMAIN mergeGrids(e, a) : mergeGrids(e, a)[p] = e[i]
                \/ Len(a) \in DOMAIN a /\ e[i].col.started > a[Len(a)].col.started
           /\ \A i \in DOMAIN a : i < Len(a) =>
                \E p \in DOMAIN mergeGrids(e, a) : mergeGrids(e, a)[p] = a[i]
<1>1. PICK m : m = mergeGrids(e, a)
  OBVIOUS
<1>2. /\ Len(e) \in Nat /\ DOMAIN e = 1 .. Len(e) /\ Len(a) \in Nat /\ DOMAIN a = 1 .. Len(a)
      /\ \A i \in DOMAIN a : a[i].col.started \in Nat
      /\ \A i \in DOMAIN e : e[i].col.started \in Nat
  BY OrderedIs
<1>3. PICK X : e \in Seq(X) /\ \A c \in X : IsNumbered(c)
  BY DEF Ordered
<1>4. PICK Y : a \in Seq(Y) /\ \A c \in Y : IsNumbered(c)
  BY DEF Ordered
<1>5. CASE a = <<>>
  <2>1. m = e
    BY <1>1, <1>5 DEF mergeGrids
  <2>2. DOMAIN a = {}
    BY <1>5
  <2> QED BY <1>1, <2>1, <2>2
<1>6. CASE a # <<>>
  <2>1. PICK n, k, seam, max :
          n = Len(e) /\ k = Len(a) /\ seam = a[k].col.started /\ max = Seam(e, seam)
    OBVIOUS
  <2>2. k \in Nat /\ k >= 1 /\ k \in DOMAIN a /\ n \in Nat /\ seam \in Nat
    <3>1. Len(a) # 0
      BY <1>4, <1>6
    <3> QED BY <1>2, <2>1, <3>1
  <2>3. /\ max \in 0 .. n
        /\ \A i \in DOMAIN e : i <= max => e[i].col.started > seam
        /\ \A i \in DOMAIN e : max < i => e[i].col.started <= seam
    <3>1. SeamAt(e, seam, max)
      BY <2>1, <2>2, SeamIs
    <3> QED BY <2>1, <3>1 DEF SeamAt
  <2>4. m = IF max = n THEN a ELSE SubSeq(a, 1, k - 1) \o SubSeq(e, max + 1, n)
    BY <1>1, <1>6, <2>1 DEF mergeGrids, Last, Front
  <2>5. CASE max = n
    <3>1. \A i \in DOMAIN e : e[i].col.started > seam
      BY <1>2, <2>1, <2>3, <2>5
    <3> QED BY <1>1, <2>1, <2>2, <2>4, <2>5, <3>1
  <2>6. CASE max # n
    <3>1. PICK b, c : b = SubSeq(a, 1, k - 1) /\ c = SubSeq(e, max + 1, n)
      OBVIOUS
    <3>2. /\ b \in Seq(Y) /\ Len(b) = k - 1 /\ \A i \in 1 .. (k - 1) : b[i] = a[i] /\ i \in DOMAIN a
      BY <1>2, <1>4, <2>1, <2>2, <3>1
    <3>3. /\ c \in Seq(X) /\ Len(c) = n - max
          /\ \A i \in 1 .. (n - max) : c[i] = e[max + i] /\ max + i \in DOMAIN e
      BY <1>2, <1>3, <2>1, <2>2, <2>3, <2>6, <3>1, SMTT(30)
    <3>4. b \in Seq(X \cup Y) /\ c \in Seq(X \cup Y) /\ \A z \in X \cup Y : IsNumbered(z)
      BY <1>3, <1>4, <3>2, <3>3
    <3>5. m = b \o c
      BY <2>4, <2>6, <3>1
    <3>6. /\ m \in Seq(X \cup Y) /\ DOMAIN m = 1 .. ((k - 1) + (n - max))
          /\ \A i \in 1 .. (k - 1) : i \in DOMAIN m /\ m[i] = a[i]
          /\ \A i \in 1 .. (n - max) : (k - 1) + i \in DOMAIN m /\ m[(k - 1) + i] = e[max + i]
      <4>1. k - 1 \in Nat /\ n - max \in Nat
        BY <2>2, <2>3
      <4>2. /\ m \in Seq(X \cup Y) /\ DOMAIN m = 1 .. ((k - 1) + (n - max))
            /\ \A i \in 1 .. (k - 1) : m[i] = b[i]
            /\ \A i \in 1 .. (n - max) : m[(k - 1) + i] = c[i]
        BY <3>2, <3>3, <3>4, <3>5, <4>1
      <4> QED BY <3>2, <3>3, <4>1, <4>2
    <3>7. ASSUME NEW i \in DOMAIN m
          PROVE  \/ i \in 1 .. (k - 1) /\ i \in DOMAIN a /\ i < k /\ m[i] = a[i]
                 \/ \E j \in DOMAIN e : i = (k - 1) + (j - max) /\ max < j /\ m[i] = e[j]
      <4>1. CASE i \in 1 .. (k - 1)
        BY <1>2, <2>1, <2>2, <3>6, <4>1
      <4>2. CASE i \notin 1 .. (k - 1)
        <5>1. PICK j : j = max + (i - (k - 1))
          OBVIOUS
        <5>2. i - (k - 1) \in 1 .. (n - max) /\ (k - 1) + (i - (k - 1)) = i
          BY <2>2, <2>3, <3>6, <4>2
        <5>3. j \in DOMAIN e /\ max < j /\ i = (k - 1) + (j - max)
          BY <1>2, <2>1, <2>2, <2>3, <5>1, <5>2, SMTT(30)
        <5>4. m[i] = e[j]
          BY <3>6, <5>1, <5>2
        <5> QED BY <5>3, <5>4
      <4> QED BY <4>1, <4>2
    <3>8. \A i \in DOMAIN a : i < k => a[i].col.started > seam
      BY <2>1, <2>2 DEF Ordered
    <3>9. ASSUME NEW i \in DOMAIN m, NEW j \in DOMAIN m, i < j
          PROVE  m[i].col.started > m[j].col.started
      <4>1. CASE i \in 1 .. (k - 1) /\ i \in DOMAIN a /\ i < k /\ m[i] = a[i]
        <5>1. CASE j \in 1 .. (k - 1) /\ j \in DOMAIN a /\ m[j] = a[j]
          BY <3>9, <4>1, <5>1 DEF Ordered
        <5>2. CASE \E y \in DOMAIN e : max < y /\ m[j] = e[y]
          <6>1. PICK y \in DOMAIN e : max < y /\ m[j] = e[y]
            BY <5>2
          <6>2. a[i].col.started > seam /\ e[y].col.started <= seam
            BY <2>3, <3>8, <4>1, <6>1
          <6>3. a[i].col.started \in Nat /\ e[y].col.started \in Nat
            BY <1>2, <4>1
          <6> QED BY <2>2, <4>1, <6>1, <6>2, <6>3
        <5> QED BY <3>7, <5>1, <5>2
      <4>2. CASE \E x \in DOMAIN e : i = (k - 1) + (x - max) /\ max < x /\ m[i] = e[x]
        <5>1. PICK x \in DOMAIN e : i = (k - 1) + (x - max) /\ max < x /\ m[i] = e[x]
          BY <4>2
        <5>2. x \in Nat /\ max \in Nat /\ i \in Nat /\ j \in Nat /\ i > k - 1 /\ ~(j \in 1 .. (k - 1))
          BY <1>2, <2>2, <2>3, <3>6, <3>9, <5>1
        <5>3. PICK y \in DOMAIN e : j = (k - 1) + (y - max) /\ max < y /\ m[j] = e[y]
          BY <3>7, <5>2
        <5>4. x < y
          BY <1>2, <2>2, <3>9, <5>1, <5>2, <5>3
        <5> QED BY <5>1, <5>3, <5>4 DEF Ordered
      <4> QED BY <3>7, <4>1, <4>2
    <3>10. Ordered(m)
      BY <3>4, <3>6, <3>9 DEF Ordered
    <3>11. ASSUME NEW i \in DOMAIN e, ~(e[i].col.started > seam)
           PROVE  \E p \in DOMAIN m : m[p] = e[i]
      <4>1. max < i
        BY <1>2, <2>3, <3>11
      <4>2. i - max \in 1 .. (n - max) /\ max + (i - max) = i
        BY <1>2, <2>1, <2>2, <2>3, <4>1
      <4> QED BY <3>6, <4>2
    <3>12. ASSUME NEW i \in DOMAIN a, i < k PROVE \E p \in DOMAIN m : m[p] = a[i]
      <4>1. i \in 1 .. (k - 1)
        BY <1>2, <2>2, <3>12
      <4> QED BY <3>6, <4>1
    <3> QED BY <1>1, <2>1, <2>2, <3>10, <3>11, <3>12
  <2> QED BY <2>5, <2>6
<1> QED BY <1>5, <1>6

-----------------------------------------------------------------------------
(* The column that the updater adds. *)
LEMMA NewColumnIs ==
    ASSUME NEW res, NEW k \in Nat PROVE IsNumbered(NewColumn(res, k)) /\ NewColumn(res, k).col.started = k
<1>1. PICK z : NewColumn(res, k) = [col |-> [started |-> k], cells |-> z]
  BY Zenon DEF NewColumn
<1>2. PICK c : c = [col |-> [started |-> k], cells |-> z]
  OBVIOUS
<1>3. DOMAIN c = {"col", "cells"} /\ c.col = [started |-> k]
  BY <1>2
<1>4. IsNumbered(c) /\ c.col.started = k
  BY <1>3 DEF IsNumbered
<1> QED BY <1>1, <1>2, <1>4

(* A new build continues the grid. *)
LEMMA Added ==
    ASSUME NEW g, NEW top \in Nat, Consecutive(g, top), NEW c, IsNumbered(c), c.col.started = top + 1
    PROVE  Consecutive(<<c>> \o g, top + 1) /\ Len(<<c>> \o g) >= 1
<1>1. PICK X : g \in Seq(X) /\ \A z \in X : IsNumbered(z)
  BY DEF Consecutive
<1>2. PICK Y, r : Y = X \cup {c} /\ r = <<c>> \o g
  OBVIOUS
<1>3. g \in Seq(Y) /\ <<c>> \in Seq(Y) /\ \A z \in Y : IsNumbered(z)
  BY <1>1, <1>2
<1>4. Len(g) \in Nat /\ DOMAIN g = 1 .. Len(g)
  BY <1>1
<1>5. /\ r \in Seq(Y) /\ Len(r) = 1 + Len(g) /\ DOMAIN r = 1 .. 1 + Len(g) /\ r[1] = c
      /\ \A i \in 1 .. Len(g) : r[1 + i] = g[i]
  BY <1>2, <1>3, <1>4
<1>6. ASSUME NEW i \in DOMAIN r PROVE r[i].col.started = (top + 1) + 1 - i
  <2>1. CASE i = 1
    BY <1>5, <2>1
  <2>2. CASE i # 1
    <3>1. i - 1 \in DOMAIN g /\ 1 + (i - 1) = i /\ i \in Nat
      BY <1>4, <1>5, <2>2
    <3>2. r[i] = g[i - 1] /\ g[i - 1].col.started = top + 1 - (i - 1)
      BY <1>4, <1>5, <3>1 DEF Consecutive
    <3> QED BY <3>1, <3>2
  <2> QED BY <2>1, <2>2
<1>7. Consecutive(r, top + 1)
  BY <1>3, <1>5, <1>6 DEF Consecutive
<1> QED BY <1>2, <1>4, <1>5, <1>7

(* A change to the cells of a column leaves the grid consecutive. *)
LEMMA Changed ==
    ASSUME NEW g, NEW top \in Nat, Consecutive(g, top), NEW k, NEW r,
           k \in DOMAIN g, DOMAIN r = DOMAIN g, r = [i \in DOMAIN g |-> r[i]],
           \A i \in DOMAIN g : i # k => r[i] = g[i],
           IsNumbered(r[k]), r[k].col.started = g[k].col.started
    PROVE  Consecutive(r, top)
<1>1. PICK X : g \in Seq(X) /\ \A z \in X : IsNumbered(z)
  BY DEF Consecutive
<1>2. PICK Y : Y = X \cup {r[k]}
  OBVIOUS
<1>3. \A z \in Y : IsNumbered(z)
  BY <1>1, <1>2
<1>4. Len(g) \in Nat /\ DOMAIN g = 1 .. Len(g) /\ \A i \in DOMAIN g : g[i] \in X
  BY <1>1
<1>5. \A i \in DOMAIN g : r[i] \in Y
  BY <1>2, <1>4
<1>6. r \in Seq(Y)
  BY <1>4, <1>5
<1>7. \A i \in DOMAIN r : r[i].col.started = top + 1 - i
  BY DEF Consecutive
<1> QED BY <1>3, <1>6, <1>7 DEF Consecutive

(* Halving a grid leaves its newest builds, still consecutive. *)
LEMMA ShrinkConsecutive ==
    ASSUME NEW g, NEW top \in Nat, Consecutive(g, top), Len(g) >= 1, NEW turns
    PROVE  Consecutive(shrinkGridInline(g, turns), top)
<1>1. PICK X : g \in Seq(X) /\ \A z \in X : IsNumbered(z)
  BY DEF Consecutive
<1>2. Len(g) \in Nat /\ DOMAIN g = 1 .. Len(g) /\ \A i \in DOMAIN g : g[i] \in X
  BY <1>1
<1>3. ASSUME NEW i \in DOMAIN g
      PROVE  Consecutive(SubSeq(g, 1, i), top) /\ Len(SubSeq(g, 1, i)) = i
  <2>1. PICK r : r = SubSeq(g, 1, i)
    OBVIOUS
  <2>2. /\ r \in Seq(X) /\ Len(r) = i /\ DOMAIN r = 1 .. i
        /\ \A j \in 1 .. i : r[j] = g[j] /\ j \in DOMAIN g
    BY <1>1, <1>2, <2>1
  <2>3. Consecutive(r, top)
    BY <1>1, <2>2 DEF Consecutive
  <2> QED BY <2>1, <2>2, <2>3
<1>4. ASSUME NEW c, IsNumbered(c), NEW z
      PROVE  IsNumbered([c EXCEPT !.cells = z]) /\ [c EXCEPT !.cells = z].col = c.col
  <2>1. DOMAIN c = {"col", "cells"} /\ \E k \in Nat : c.col = [started |-> k]
    BY <1>4 DEF IsNumbered
  <2>2. PICK d : d = [c EXCEPT !.cells = z]
    OBVIOUS
  <2>3. DOMAIN d = {"col", "cells"} /\ d.col = c.col
    BY <2>1, <2>2
  <2> QED BY <2>1, <2>2, <2>3 DEF IsNumbered
<1>5. ASSUME NEW i \in DOMAIN g PROVE Consecutive(truncateLastColumn(SubSeq(g, 1, i)), top)
  <2>1. PICK s : s = SubSeq(g, 1, i)
    OBVIOUS
  <2>2. Consecutive(s, top) /\ Len(s) = i
    BY <1>3, <2>1
  <2>3. PICK Y : s \in Seq(Y) /\ \A z \in Y : IsNumbered(z)
    BY <2>2 DEF Consecutive
  <2>4. DOMAIN s = 1 .. i /\ i \in DOMAIN s /\ s # <<>> /\ IsNumbered(s[i])
    BY <1>2, <2>2, <2>3
  <2>5. PICK z : truncateLastColumn(s) = [s EXCEPT ![Len(s)].cells = z]
    BY <2>4, Zenon DEF truncateLastColumn
  <2>6. PICK r : r = [s EXCEPT ![i].cells = z]
    OBVIOUS
  <2>7. /\ DOMAIN r = DOMAIN s /\ r = [j \in DOMAIN s |-> r[j]]
        /\ \A j \in DOMAIN s : j # i => r[j] = s[j]
        /\ r[i] = [s[i] EXCEPT !.cells = z]
    BY <2>4, <2>6
  <2>8. IsNumbered(r[i]) /\ r[i].col.started = s[i].col.started
    <3>1. PICK c, d : c = s[i] /\ d = [c EXCEPT !.cells = z]
      OBVIOUS
    <3>2. IsNumbered(d) /\ d.col = c.col
      BY <1>4, <2>4, <3>1
    <3> QED BY <2>7, <3>1, <3>2
  <2>9. Consecutive(r, top)
    BY <2>2, <2>4, <2>7, <2>8, Changed
  <2> QED BY <2>1, <2>2, <2>5, <2>6, <2>9
<1>6. Consecutive(deletedColumn(g[1]), top)
  <2>1. PICK z : deletedColumn(g[1]) = <<[g[1] EXCEPT !.cells = z]>>
    BY Zenon DEF deletedColumn
  <2>2. 1 \in DOMAIN g /\ IsNumbered(g[1])
    BY <1>1, <1>2
  <2>3. PICK c : c = [g[1] EXCEPT !.cells = z]
    OBVIOUS
  <2>4. IsNumbered(c) /\ c.col.started = top + 1 - 1
    BY <1>4, <2>2, <2>3 DEF Consecutive
  <2>5. <<c>> \in Seq({c}) /\ \A y \in {c} : IsNumbered(y)
    BY <2>4
  <2>6. \A i \in DOMAIN <<c>> : <<c>>[i].col.started = top + 1 - i
    BY <2>4
  <2>7. Consecutive(<<c>>, top)
    BY <2>5, <2>6 DEF Consecutive
  <2> QED BY <2>1, <2>3, <2>7
<1>7. PICK i : i = Len(g) \div 2^turns
  OBVIOUS
<1>8. shrinkGridInline(g, turns) = CASE turns = 0 -> g
         [] turns > 0 /\ i \in DOMAIN g -> truncateLastColumn(SubSeq(g, 1, i))
         [] OTHER -> deletedColumn(g[1])
  BY <1>7, Zenon DEF shrinkGridInline
<1>9. \/ shrinkGridInline(g, turns) = g
      \/ i \in DOMAIN g /\ shrinkGridInline(g, turns) = truncateLastColumn(SubSeq(g, 1, i))
      \/ shrinkGridInline(g, turns) = deletedColumn(g[1])
  BY <1>8, Zenon
<1> QED BY <1>5, <1>6, <1>9

(* A write by the updater keeps OrderInv. *)
LEMMA UpdateOrder == ASSUME OrderInv, UpdateGrid PROVE OrderInv'
<1>1. builds \in Nat /\ Consecutive(grid, builds) /\ UNCHANGED <<reader, writer, tab>>
  BY DEF OrderInv, UpdateGrid, loop
<1>2. PICK res \in Results :
        \/ /\ builds' = builds + 1
           /\ \E turns \in 0 .. MaxTurns :
                 grid' = shrinkGridInline(<<NewColumn(res, builds + 1)>> \o grid, turns)
        \/ /\ grid # NoGrid
           /\ grid' = [grid EXCEPT ![1] = NewColumn(res, builds)]
           /\ UNCHANGED builds
  BY Zenon DEF UpdateGrid
<1>3. builds' \in Nat /\ Consecutive(grid', builds')
  <2>1. CASE /\ builds' = builds + 1
             /\ \E turns \in 0 .. MaxTurns :
                   grid' = shrinkGridInline(<<NewColumn(res, builds + 1)>> \o grid, turns)
    <3>1. PICK turns : grid' = shrinkGridInline(<<NewColumn(res, builds + 1)>> \o grid, turns)
      BY <2>1
    <3>2. PICK g, c : c = NewColumn(res, builds + 1) /\ g = <<c>> \o grid
      OBVIOUS
    <3>3. builds + 1 \in Nat /\ IsNumbered(c) /\ c.col.started = builds + 1
      BY <1>1, <3>2, NewColumnIs
    <3>4. Consecutive(g, builds + 1) /\ Len(g) >= 1
      BY <1>1, <3>2, <3>3, Added
    <3>5. Consecutive(shrinkGridInline(g, turns), builds + 1)
      BY <3>3, <3>4, ShrinkConsecutive
    <3> QED BY <2>1, <3>1, <3>2, <3>3, <3>5
  <2>2. CASE /\ grid # NoGrid /\ grid' = [grid EXCEPT ![1] = NewColumn(res, builds)]
             /\ UNCHANGED builds
    <3>1. PICK c, g, r : c = NewColumn(res, builds) /\ g = grid /\ r = grid'
      OBVIOUS
    <3>2. IsNumbered(c) /\ c.col.started = builds
      BY <1>1, <3>1, NewColumnIs
    <3>3. PICK X : g \in Seq(X)
      BY <1>1, <3>1 DEF Consecutive
    <3>4. DOMAIN g = 1 .. Len(g) /\ 1 \in DOMAIN g
      <4>1. Len(g) # 0
        BY <2>2, <3>1, <3>3 DEF NoGrid
      <4> QED BY <3>3, <4>1
    <3>5. r = [g EXCEPT ![1] = c]
      BY <2>2, <3>1
    <3>6. /\ DOMAIN r = DOMAIN g /\ r = [i \in DOMAIN g |-> r[i]] /\ r[1] = c
          /\ \A i \in DOMAIN g : i # 1 => r[i] = g[i]
      BY <3>4, <3>5
    <3>7. r[1].col.started = g[1].col.started /\ IsNumbered(r[1])
      <4>1. g[1].col.started = builds + 1 - 1
        BY <1>1, <3>1, <3>4 DEF Consecutive
      <4> QED BY <1>1, <3>2, <3>6, <4>1
    <3>8. Consecutive(r, builds)
      BY <1>1, <3>1, <3>4, <3>6, <3>7, Changed
    <3> QED BY <1>1, <2>2, <3>1, <3>8
  <2> QED BY <1>2, <2>1, <2>2
<1> QED BY <1>1, <1>3 DEF OrderInv, Places

(* A grid that does not exist has no columns. *)
LEMMA EmptyOrdered == Ordered(NoGrid) /\ Consecutive(NoGrid, 0) /\ Snapshot(NoGrid)
<1>1. \E X : <<>> \in Seq(X) /\ \A c \in X : IsNumbered(c)
  <2>1. PICK X : X = {}
    OBVIOUS
  <2>2. <<>> \in Seq(X) /\ \A c \in X : IsNumbered(c)
    BY <2>1
  <2> QED BY <2>2
<1>2. DOMAIN <<>> = {}
  OBVIOUS
<1>3. Ordered(<<>>) /\ Consecutive(<<>>, 0)
  BY <1>1, <1>2, Zenon DEF Ordered, Consecutive
<1> QED BY <1>3 DEF NoGrid, Snapshot

(* What a writer makes of a grid and an existing state is ordered. *)
LEMMA TabColumnsOrdered ==
    ASSUME NEW g, Snapshot(g), NEW base, NEW e, Ordered(e) PROVE Ordered(tabColumns(g, base, e))
<1>1. Ordered(g)
  BY ConsecutiveIs DEF Snapshot
<1>2. PICK f, a : f = Filtered(g, base) /\ a = dropEmptyColumns(f)
  OBVIOUS
<1>3. Ordered(f)
  BY <1>1, <1>2, FilteredIs
<1>4. Ordered(a)
  BY <1>2, <1>3, DropIs
<1>5. Ordered(mergeGrids(e, a))
  BY <1>4, MergeIs
<1>6. tabColumns(g, base, e) = mergeGrids(e, a)
  BY <1>2 DEF tabColumns, Filtered
<1> QED BY <1>5, <1>6

(* Every step keeps OrderInv. *)
LEMMA OrderStep == OrderInv /\ [TabNext]_allVars => OrderInv'
<1> SUFFICES ASSUME OrderInv, [TabNext]_allVars PROVE OrderInv'
  OBVIOUS
<1>1. ASSUME UNCHANGED <<vars, reader, writer, tab>> PROVE OrderInv'
  BY <1>1 DEF vars, OrderInv, Places
<1>2. ASSUME fixSnapshot \/ Cancel \/ CloseTasks \/ Return \/ UNCHANGED allVars PROVE OrderInv'
  <2>1. UNCHANGED <<vars, reader, writer, tab>>
    BY <1>2 DEF fixSnapshot, Cancel, CloseTasks, Return, StopsAt, allVars, vars, loop
  <2> QED BY <1>1, <2>1
<1>3. ASSUME NEW r \in Readers, Read(r) PROVE OrderInv'
  <2>1. /\ reader' = [reader EXCEPT ![r] = [at |-> "sending", grid |-> grid]]
        /\ UNCHANGED <<grid, builds, writer, tab>>
    BY <1>3 DEF Read, vars
  <2>2. Snapshot(grid)
    BY DEF OrderInv, Snapshot
  <2>3. \A q \in Readers : Snapshot(reader'[q].grid)
    BY <2>1, <2>2 DEF OrderInv, Places
  <2> QED BY <2>1, <2>3 DEF OrderInv, Places
<1>4. ASSUME NEW r \in Readers, SendTask(r) PROVE OrderInv'
  <2>1. reader' = [reader EXCEPT ![r] = Idle] /\ UNCHANGED <<grid, builds, tab>>
    BY <1>4 DEF SendTask, vars
  <2>2. \A q \in Readers : Snapshot(reader'[q].grid)
    <3>1. Idle.grid = NoGrid
      BY DEF Idle
    <3> QED BY <2>1, <3>1, EmptyOrdered DEF OrderInv, Places
  <2>3. CASE UNCHANGED writer
    BY <2>1, <2>2, <2>3 DEF OrderInv, Places
  <2>4. ASSUME NEW w \in Writers, NEW at,
               writer' = [writer EXCEPT ![w] = [at |-> at, task |-> Task(reader[r].grid, cfg),
                                                existing |-> NoGrid]]
        PROVE  OrderInv'
    <3>1. PICK t : t = [at |-> at, task |-> Task(reader[r].grid, cfg), existing |-> NoGrid]
      OBVIOUS
    <3>2. DOMAIN t = {"at", "task", "existing"} /\ t.task.grid = reader[r].grid /\ t.existing = NoGrid
      BY <3>1 DEF Task
    <3>3. Snapshot(t.task.grid) /\ Ordered(t.existing)
      BY <3>2, EmptyOrdered DEF OrderInv
    <3>4. writer' = [writer EXCEPT ![w] = t]
      BY <2>4, <3>1
    <3>5. Places' /\ \A v \in Writers : Snapshot(writer'[v].task.grid) /\ Ordered(writer'[v].existing)
      BY <2>1, <3>2, <3>3, <3>4 DEF OrderInv, Places
    <3> QED BY <2>1, <2>2, <3>5 DEF OrderInv
  <2>5. \/ UNCHANGED writer
        \/ \E w \in Writers, at \in {"extending", "uploading"} :
             writer' = [writer EXCEPT ![w] = [at |-> at, task |-> Task(reader[r].grid, cfg),
                                                existing |-> NoGrid]]
    BY <1>4 DEF SendTask
  <2> QED BY <2>3, <2>4, <2>5
<1>5. ASSUME NEW w \in Writers, NEW at, NEW existing, WriterGoes(w, at, existing),
             Ordered(existing), Ordered(tab'), UNCHANGED <<grid, builds, reader>>
      PROVE  OrderInv'
  <2>1. /\ DOMAIN writer' = Writers /\ \A v \in Writers : v # w => writer'[v] = writer[v]
        /\ DOMAIN writer'[w] = {"at", "task", "existing"}
        /\ writer'[w].existing = existing
        /\ writer'[w].task = Task(NoGrid, 1) \/ writer'[w].task = writer[w].task
    BY <1>5 DEF WriterGoes, OrderInv, Places
  <2>2. Snapshot(writer'[w].task.grid)
    <3>1. Task(NoGrid, 1).grid = NoGrid
      BY DEF Task
    <3> QED BY <2>1, <3>1, EmptyOrdered DEF OrderInv
  <2>3. \A v \in Writers : Snapshot(writer'[v].task.grid) /\ Ordered(writer'[v].existing)
    BY <1>5, <2>1, <2>2 DEF OrderInv
  <2>4. Places'
    BY <1>5, <2>1 DEF OrderInv, Places
  <2> QED BY <1>5, <2>3, <2>4 DEF OrderInv
<1>6. ASSUME NEW w \in Writers, DownloadExisting(w) PROVE OrderInv'
  <2>1. WriterGoes(w, "uploading", tab) /\ UNCHANGED <<grid, builds, reader, tab>> /\ Ordered(tab)
    BY <1>6 DEF DownloadExisting, vars, OrderInv
  <2> QED BY <1>5, <2>1
<1>7. ASSUME NEW w \in Writers, WriteFails(w) PROVE OrderInv'
  <2>1. WriterGoes(w, "idle", NoGrid) /\ UNCHANGED <<grid, builds, reader, tab>> /\ Ordered(tab)
    BY <1>7 DEF WriteFails, vars, OrderInv
  <2> QED BY <1>5, <2>1, EmptyOrdered
<1>8. ASSUME NEW w \in Writers, Upload(w) PROVE OrderInv'
  <2>1. /\ WriterGoes(w, "idle", NoGrid) /\ UNCHANGED <<grid, builds, reader>>
        /\ tab' = tabColumns(writer[w].task.grid, Filters[writer[w].task.cfg], writer[w].existing)
    BY <1>8 DEF Upload, vars
  <2>2. Ordered(tab')
    BY <2>1, TabColumnsOrdered DEF OrderInv
  <2> QED BY <1>5, <2>1, <2>2, EmptyOrdered
<1> QED BY <1>2, <1>3, <1>4, <1>6, <1>7, <1>8, UpdateOrder, Zenon DEF TabNext, Steps

(* OrderInv holds throughout. *)
LEMMA OrderInvariant == TabSpec => []OrderInv
<1>1. TabInit => OrderInv
  <2> SUFFICES ASSUME TabInit PROVE OrderInv
    OBVIOUS
  <2>1. Places
    BY DEF TabInit, Places
  <2>2. \A r \in Readers : reader[r].grid = NoGrid
    BY DEF TabInit, Idle
  <2>3. \A w \in Writers : writer[w].task.grid = NoGrid /\ writer[w].existing = NoGrid
    BY DEF TabInit, Task
  <2>4. builds = 0 /\ grid = NoGrid /\ tab = NoGrid
    BY DEF TabInit
  <2> QED BY <2>1, <2>2, <2>3, <2>4, EmptyOrdered DEF OrderInv
<1> QED BY <1>1, OrderStep, PTL DEF TabSpec

(* Whatever grids the updater writes and shrinks, however many tasks are   *)
(* under way and in whichever order they upload: the columns of the tab's  *)
(* state are in order of time, each build at most once (the binary search  *)
(* and the seam of mergeGrids).                                            *)
THEOREM TabsOrdered == TabSpec => []TabOrdered
<1>1. OrderInv => TabOrdered
  BY DEF OrderInv, Ordered, TabOrdered
<1> QED BY <1>1, OrderInvariant, PTL

(* A build whose column is missing from what is merged was emptied by the  *)
(* filters: the columns of a grid have no gaps.                            *)
LEMMA Covered ==
    ASSUME NEW g, Snapshot(g), NEW base, NEW e, Ordered(e), NEW i \in DOMAIN e,
           g # NoGrid => e[i].col.started <= g[1].col.started,
           NEW a, a = dropEmptyColumns(Filtered(g, base)),
           Len(a) \in DOMAIN a, e[i].col.started > a[Len(a)].col.started
    PROVE  \/ \E j \in DOMAIN g \ Shown(g, base) : g[j].col = e[i].col
           \/ \E q \in DOMAIN a : q < Len(a) /\ a[q].col = e[i].col
<1>1. PICK top \in Nat : Consecutive(g, top)
  BY DEF Snapshot
<1>2. Ordered(g)
  BY <1>1, ConsecutiveIs
<1>3. PICK f : f = Filtered(g, base)
  OBVIOUS
<1>4. /\ Ordered(f) /\ DOMAIN f = DOMAIN g
      /\ \A j \in DOMAIN g : f[j].col = g[j].col /\ f[j].cells = filterGrid(g[j].cells, base)
  BY <1>2, <1>3, FilteredIs
<1>5. Ordered(a) /\ Dropped(a, f)
  BY <1>3, <1>4, DropIs
<1>6. /\ Len(g) \in Nat /\ DOMAIN g = 1 .. Len(g) /\ Len(a) \in Nat /\ DOMAIN a = 1 .. Len(a)
      /\ \A j \in DOMAIN g : IsNumbered(g[j]) /\ g[j].col.started = top + 1 - j
      /\ \A j \in DOMAIN a : a[j].col.started \in Nat
      /\ IsNumbered(e[i]) /\ e[i].col.started \in Nat
  BY <1>1, <1>2, <1>5, OrderedIs DEF Consecutive
<1>7. PICK k \in DOMAIN g : a[Len(a)] = f[k]
  BY <1>4, <1>5 DEF Dropped
<1>8. a[Len(a)].col.started = top + 1 - k
  BY <1>4, <1>6, <1>7
<1>9. PICK s : s = e[i].col.started
  OBVIOUS
<1>10. s \in Nat /\ s > top + 1 - k /\ s <= top /\ k \in Nat
  <2>1. 1 \in DOMAIN g /\ k \in Nat
    BY <1>6
  <2>2. g # NoGrid
    BY <2>1 DEF NoGrid
  <2>3. g[1].col.started = top + 1 - 1
    BY <1>6, <2>1
  <2> QED BY <1>6, <1>8, <1>9, <2>1, <2>2, <2>3
<1>11. PICK j : j = top + 1 - s
  OBVIOUS
<1>12. j \in DOMAIN g /\ top + 1 - j = s
  BY <1>6, <1>10, <1>11
<1>13. g[j].col = e[i].col
  <2>1. g[j].col.started = e[i].col.started /\ IsNumbered(g[j]) /\ IsNumbered(e[i])
    BY <1>6, <1>9, <1>12
  <2>2. PICK x : g[j].col = [started |-> x]
    BY <2>1 DEF IsNumbered
  <2>3. PICK y : e[i].col = [started |-> y]
    BY <2>1 DEF IsNumbered
  <2> QED BY <2>1, <2>2, <2>3
<1>14. CASE j \in Shown(g, base)
  <2>1. HasResult(f[j])
    BY <1>4, <1>12, <1>14 DEF Shown, TabCells, HasResult
  <2>2. PICK q \in DOMAIN a : a[q] = f[j]
    BY <1>4, <1>5, <1>12, <2>1 DEF Dropped
  <2>3. a[q].col = e[i].col
    BY <1>4, <1>12, <1>13, <2>2
  <2>4. q # Len(a)
    BY <1>6, <2>3
  <2>5. q < Len(a)
    BY <1>6, <2>4
  <2> QED BY <2>3, <2>5
<1> QED BY <1>12, <1>13, <1>14

(* An upload that extends the present state keeps the columns it should. *)
LEMMA UploadKeeps ==
    ASSUME OrderInv, NEW w \in Writers, Upload(w) PROVE WriteKeeps(w)
<1>1. PICK g, base, e, t, m : /\ g = writer[w].task.grid /\ t = writer[w].task /\ base = Filters[t.cfg]
                              /\ e = tab /\ m = tab'
  OBVIOUS
<1>2. PICK a : a = dropEmptyColumns(Filtered(g, base))
  OBVIOUS
<1>3. Snapshot(g) /\ Ordered(e) /\ Ordered(a)
  <2>1. Snapshot(g) /\ Ordered(e)
    BY <1>1 DEF OrderInv
  <2>2. Ordered(g)
    BY <2>1, ConsecutiveIs DEF Snapshot
  <2>3. Ordered(Filtered(g, base))
    BY <2>2, FilteredIs
  <2> QED BY <1>2, <2>1, <2>3, DropIs
<1>4. writer[w].existing = tab => m = mergeGrids(e, a)
  BY <1>1, <1>2 DEF Upload, tabColumns, Filtered
<1> DEFINE Newest(z) == IF z = NoGrid THEN 0 ELSE z[1].col.started
<1>5. ASSUME writer[w].existing = tab, Newest(g) >= Newest(e), NEW i \in DOMAIN e
      PROVE  \/ \E p \in DOMAIN m : m[p].col = e[i].col
             \/ \E j \in DOMAIN g \ Shown(g, base) : g[j].col = e[i].col
  <2>1. m = mergeGrids(e, a)
    BY <1>4, <1>5
  <2>2. CASE \E p \in DOMAIN m : m[p] = e[i]
    BY <2>2
  <2>3. CASE ~\E p \in DOMAIN m : m[p] = e[i]
    <3>1. Len(a) \in DOMAIN a /\ e[i].col.started > a[Len(a)].col.started
      BY <1>3, <2>1, <2>3, MergeIs
    <3>2. g # NoGrid => e[i].col.started <= g[1].col.started
      <4> SUFFICES ASSUME g # NoGrid PROVE e[i].col.started <= g[1].col.started
        OBVIOUS
      <4>1. /\ DOMAIN e = 1 .. Len(e) /\ Len(e) \in Nat
            /\ \A j \in DOMAIN e : e[j].col.started \in Nat
        BY <1>3, OrderedIs
      <4>2. 1 \in DOMAIN e /\ e # NoGrid /\ (i = 1 \/ 1 < i)
        BY <4>1 DEF NoGrid
      <4>3. e[i].col.started <= e[1].col.started
        BY <1>3, <4>1, <4>2 DEF Ordered
      <4>4. g[1].col.started >= e[1].col.started
        BY <1>5, <4>2
      <4>5. g[1].col.started \in Nat
        <5>1. Ordered(g)
          BY <1>3, ConsecutiveIs DEF Snapshot
        <5>2. /\ Len(g) \in Nat /\ DOMAIN g = 1 .. Len(g)
              /\ \A j \in DOMAIN g : g[j].col.started \in Nat
          BY <5>1, OrderedIs
        <5>3. PICK X : g \in Seq(X)
          BY <5>1 DEF Ordered
        <5>4. Len(g) # 0
          BY <5>3 DEF NoGrid
        <5> QED BY <5>2, <5>4
      <4> QED BY <4>1, <4>2, <4>3, <4>4, <4>5
    <3>3. \/ \E j \in DOMAIN g \ Shown(g, base) : g[j].col = e[i].col
          \/ \E q \in DOMAIN a : q < Len(a) /\ a[q].col = e[i].col
      BY <1>2, <1>3, <3>1, <3>2, Covered
    <3>4. ASSUME NEW q \in DOMAIN a, q < Len(a) PROVE \E p \in DOMAIN m : m[p] = a[q]
      BY <1>3, <2>1, <3>4, MergeIs
    <3> QED BY <3>3, <3>4
  <2> QED BY <2>2, <2>3
<1>6. \A i \in Shown(e, base) : i \in DOMAIN e
  BY DEF Shown
<1>7. ASSUME writer[w].existing = tab, Newest(g) >= Newest(e), NEW i \in Shown(e, base)
      PROVE  e[i].col \in { m[p].col : p \in DOMAIN m }
                          \cup { g[j].col : j \in DOMAIN g \ Shown(g, base) }
  <2>1. i \in DOMAIN e
    BY <1>6
  <2> QED BY <1>5, <1>7, <2>1, Zenon
<1> HIDE DEF Newest
<1>8. (writer[w].existing = tab /\ Newest(g) >= Newest(e)) =>
        \A i \in Shown(e, base) : e[i].col \in { m[p].col : p \in DOMAIN m }
                                      \cup { g[j].col : j \in DOMAIN g \ Shown(g, base) }
  BY <1>7, Zenon
<1>9. WriteKeeps(w) <=> ((writer[w].existing = e /\ Newest(g) >= Newest(e)) =>
        \A i \in Shown(e, base) : e[i].col \in { m[p].col : p \in DOMAIN m }
                                      \cup { g[j].col : j \in DOMAIN g \ Shown(g, base) })
  BY <1>1 DEF WriteKeeps, Newest
<1> QED BY <1>1, <1>8, <1>9

(* Only an upload changes the state of the tab. *)
LEMMA UploadIsThere ==
    ASSUME OrderInv, [TabNext]_allVars, NEW w \in Writers, Uploads(w) PROVE Upload(w)
<1>1. tab' # tab /\ writer[w].at = "uploading" /\ writer'[w].at = "idle"
  BY DEF Uploads
<1>2. ~ UNCHANGED tab
  BY <1>1
<1>3. PICK v \in Writers : Upload(v)
  BY <1>2 DEF TabNext, Steps, UpdateGrid, fixSnapshot, Cancel, CloseTasks, Return, StopsAt, Read,
              SendTask, DownloadExisting, WriteFails, allVars, loop
<1>4. v = w
  BY <1>1, <1>3 DEF Upload, WriterGoes, OrderInv, Places
<1> QED BY <1>3, <1>4

(* Extending a tab's state loses no column, for any grids, filters and     *)
(* order of the writers: a column of the state that is there is in the     *)
(* state that replaces it, if that was made from it and from a grid that   *)
(* is no older, unless the filters empty the column.                       *)
THEOREM TabsKept == TabSpec => TabKeeps
<1>1. OrderInv /\ [TabNext]_allVars =>
        [\A w \in Writers : Uploads(w) => WriteKeeps(w)]_allVars
  <2> SUFFICES ASSUME OrderInv, [TabNext]_allVars, NEW w \in Writers, Uploads(w)
               PROVE  WriteKeeps(w)
    OBVIOUS
  <2> QED BY UploadIsThere, UploadKeeps
<1> QED BY <1>1, OrderInvariant, PTL DEF TabSpec, TabKeeps

(* Filtering rows again changes nothing. *)
LEMMA FilterTwice ==
    ASSUME NEW rows, NEW base PROVE filterGrid(filterGrid(rows, base), base) = filterGrid(rows, base)
<1>1. PICK S : S = { n \in DOMAIN rows : /\ \A re \in base.include : n \in re
                                         /\ \A re \in base.exclude : n \notin re }
  OBVIOUS
<1>2. PICK r : r = [n \in S |-> rows[n]]
  OBVIOUS
<1>3. filterGrid(rows, base) = r
  BY <1>1, <1>2 DEF filterGrid, Restrict
<1>4. DOMAIN r = S /\ r = [n \in S |-> r[n]]
  BY <1>2
<1>5. { n \in DOMAIN r : /\ \A re \in base.include : n \in re
                         /\ \A re \in base.exclude : n \notin re } = S
  BY <1>1, <1>4
<1>6. filterGrid(r, base) = r
  BY <1>4, <1>5 DEF filterGrid, Restrict
<1> QED BY <1>3, <1>6

(* An upload of the present grid shows its results. *)
LEMMA UploadRefreshes ==
    ASSUME OrderInv, NEW w \in Writers, Upload(w), writer[w].task = Task(grid, cfg)
    PROVE  Current(tab')
<1>1. PICK g, base, e, m : g = grid /\ base = Filters[cfg] /\ e = writer[w].existing /\ m = tab'
  OBVIOUS
<1>2. PICK f, a : f = Filtered(g, base) /\ a = dropEmptyColumns(f)
  OBVIOUS
<1>3. Ordered(g) /\ Ordered(e)
  BY <1>1, ConsecutiveIs DEF OrderInv
<1>4. /\ Ordered(f) /\ DOMAIN f = DOMAIN g
      /\ \A j \in DOMAIN g : f[j].col = g[j].col /\ f[j].cells = filterGrid(g[j].cells, base)
  BY <1>2, <1>3, FilteredIs
<1>5. Ordered(a) /\ Dropped(a, f)
  BY <1>2, <1>4, DropIs
<1>6. m = mergeGrids(e, a)
  BY <1>1, <1>2 DEF Upload, Task, tabColumns, Filtered
<1>7. ASSUME NEW i \in Shown(g, base), NEW k \in Shown(g, base), k > i
      PROVE  \E j \in DOMAIN m : m[j].col = g[i].col /\ TabCells(m, j, base) = TabCells(g, i, base)
  <2>1. i \in DOMAIN g /\ k \in DOMAIN g /\ HasResult(f[i]) /\ HasResult(f[k])
    BY <1>4 DEF Shown, TabCells, HasResult
  <2>2. PICK q \in DOMAIN a : a[q] = f[i]
    BY <1>4, <1>5, <2>1 DEF Dropped
  <2>3. PICK r \in DOMAIN a : a[r] = f[k]
    BY <1>4, <1>5, <2>1 DEF Dropped
  <2>4. /\ Len(a) \in Nat /\ DOMAIN a = 1 .. Len(a) /\ DOMAIN g = 1 .. Len(g) /\ Len(g) \in Nat
        /\ \A j \in DOMAIN a : a[j].col.started \in Nat
    BY <1>3, <1>5, OrderedIs
  <2>5. i < k
    BY <1>7, <2>1, <2>4
  <2>6. a[q].col.started > a[r].col.started
    BY <1>4, <2>1, <2>2, <2>3, <2>5 DEF Ordered
  <2>7. ~(r < q) /\ r # q
    <3>1. a[q].col.started \in Nat /\ a[r].col.started \in Nat
      BY <2>4
    <3>2. r < q => a[r].col.started > a[q].col.started
      BY <1>5 DEF Ordered
    <3> QED BY <2>6, <3>1, <3>2
  <2>8. q < Len(a)
    BY <2>4, <2>7
  <2>9. PICK j \in DOMAIN m : m[j] = a[q]
    BY <1>3, <1>5, <1>6, <2>8, MergeIs
  <2>10. m[j].col = g[i].col /\ m[j].cells = filterGrid(g[i].cells, base)
    BY <1>4, <2>1, <2>2, <2>9
  <2> QED BY <2>10, FilterTwice DEF TabCells
<1> QED BY <1>1, <1>7 DEF Current

(* A task of the grid and the configuration of the moment brings the tab   *)
(* up to date whatever state it extends, even one that another writer made *)
(* of a newer or an older grid meanwhile.                                  *)
THEOREM TabsRefreshed == TabSpec => Refreshes
<1>1. OrderInv /\ [TabNext]_allVars =>
        [\A w \in Writers : Uploads(w) /\ writer[w].task = Task(grid, cfg) => Current(tab')]_allVars
  <2> SUFFICES ASSUME OrderInv, [TabNext]_allVars, NEW w \in Writers, Uploads(w),
                      writer[w].task = Task(grid, cfg)
               PROVE  Current(tab')
    OBVIOUS
  <2> QED BY UploadIsThere, UploadRefreshes
<1> QED BY <1>1, OrderInvariant, PTL DEF TabSpec, Refreshes
=============================================================================
