------------------------- MODULE GroupUpdateProofs --------------------------
(***************************************************************************)
(* What is proved of GroupUpdate, for any number of updaters and builds    *)
(* and any faults.                                                         *)
(*                                                                         *)
(* WriteInv ties each updater's condition to the object: as long as there  *)
(* is no object nobody has written since anybody's download, so that a     *)
(* write on condition that it does not exist is as good as one on a        *)
(* generation (WritesAreConditional).                                      *)
(*                                                                         *)
(* GridInv says what the columns of the grid and of each updater are:      *)
(* typed, distinct, none of them recent and read under an older            *)
(* configuration, and the listed builds newer than the kept ones           *)
(* (GroupTypes, ConfigIsApplied, BuildsShowOnce).                          *)
(*                                                                         *)
(* HoleInv says that no build at or below a hint is missing, unless        *)
(* NoHoles excuses it, in the grid and in what a cycle has kept and read   *)
(* so far (NoBuildIsLost).                                                 *)
(***************************************************************************)
EXTENDS GroupUpdate, SelectionProofs, FiniteSetTheorems

Fields == {"phase", "cond", "fresh", "old", "new", "todo", "last", "fails", "stop", "cfg"}

Shape == /\ lost \in BOOLEAN
         /\ up = [u \in Updaters |-> up[u]]
         /\ \A u \in Updaters : DOMAIN up[u] = Fields
         /\ \A u \in Updaters : up[u].cond \in {"none", "match", "absent"}

Unwritten == \A u \in Updaters : ~exists /\ up[u].phase # "idle" => up[u].fresh

WriteInv == Shape /\ Unwritten

(* A fresh local state has all the fields. *)
LEMMA IdleShape == DOMAIN Idle = Fields /\ Idle.phase = "idle" /\ Idle.cond = "none"
BY DEF Idle, Fields

(* The steps that start a cycle leave every other updater alone.           *)
LEMMA BegunStep ==
    ASSUME WriteInv, NEW u \in Updaters, NEW phase, NEW old,
           NEW cond \in {"none", "match", "absent"},
           Begun(u, phase, cond, old), UNCHANGED <<exists, lost>>
    PROVE  WriteInv'
<1>1. DOMAIN up' = Updaters /\ \A v \in Updaters : v # u => up'[v] = up[v]
  BY DEF Begun, WriteInv, Shape
<1>2. DOMAIN up'[u] = Fields /\ up'[u].fresh /\ up'[u].cond = cond
  BY IdleShape DEF Begun, WriteInv, Shape, Fields
<1> QED BY <1>1, <1>2 DEF WriteInv, Shape, Unwritten, Begun

(* Receiving a column leaves the flags alone. *)
LEMMA ReceiveStep ==
    ASSUME WriteInv, NEW u \in Updaters, NEW col, NEW failed,
           receive(u, col, failed), UNCHANGED <<exists, lost>>
    PROVE  WriteInv'
<1>1. /\ DOMAIN up' = Updaters
      /\ \A v \in Updaters : v # u => up'[v] = up[v]
  BY DEF receive, WriteInv, Shape
<1>2. /\ DOMAIN up'[u] = Fields
      /\ up'[u].cond = up[u].cond /\ up'[u].phase = up[u].phase
      /\ up'[u].fresh = up[u].fresh
  BY DEF receive, WriteInv, Shape, Fields
<1>3. up' = [v \in Updaters |-> up'[v]]
  BY <1>1 DEF receive
<1> HIDE DEF receive
<1>4. Shape'
  BY <1>1, <1>2, <1>3 DEF WriteInv, Shape
<1>5. Unwritten'
  BY <1>1, <1>2 DEF WriteInv, Unwritten
<1> QED BY <1>4, <1>5 DEF WriteInv

(* The invariant holds after every step. *)
LEMMA WriteStep == WriteInv /\ [Next]_vars => WriteInv'
<1> SUFFICES ASSUME WriteInv, [Next]_vars PROVE WriteInv'
  OBVIOUS
<1>1. ASSUME NEW u \in Updaters, Download(u) PROVE WriteInv'
  BY <1>1, BegunStep DEF Download
<1>2. ASSUME NEW u \in Updaters, DownloadFails(u) PROVE WriteInv'
  BY <1>2, BegunStep DEF DownloadFails
<1>3. ASSUME NEW u \in Updaters, listBuilds(u) PROVE WriteInv'
  BY <1>3 DEF listBuilds, WriteInv, Shape, Unwritten, Fields
<1>4. ASSUME NEW u \in Updaters, readColumn(u) PROVE WriteInv'
  <2>1. PICK col, failed : receive(u, col, failed)
    BY <1>4, Zenon DEF readColumn
  <2> QED BY <1>4, <2>1, ReceiveStep DEF readColumn
<1>5. ASSUME NEW u \in Updaters, endRead(u) PROVE WriteInv'
  BY <1>5 DEF endRead, WriteInv, Shape, Unwritten, Fields
<1>6. ASSUME NEW u \in Updaters, Upload(u) PROVE WriteInv'
  <2>1. CASE PreconditionHolds(u)
    <3>1. /\ exists' /\ lost' \in BOOLEAN
          /\ up' = [v \in Updaters |-> IF v = u THEN Idle ELSE [up[v] EXCEPT !.fresh = FALSE]]
      BY <1>6, <2>1 DEF Upload, Overwritten
    <3>2. \A v \in Updaters : DOMAIN up'[v] = Fields /\ up'[v].cond \in {"none", "match", "absent"}
      BY <3>1, IdleShape DEF WriteInv, Shape, Fields
    <3> QED BY <3>1, <3>2 DEF WriteInv, Shape, Unwritten
  <2>2. CASE ~PreconditionHolds(u)
    BY <1>6, <2>2, IdleShape DEF Upload, WriteInv, Shape, Unwritten
  <2> QED BY <2>1, <2>2
<1>7. ASSUME NEW u \in Updaters, Abort(u) PROVE WriteInv'
  BY <1>7, IdleShape DEF Abort, WriteInv, Shape, Unwritten
<1>8. ASSUME NEW u \in Updaters, lockGroup(u) PROVE WriteInv'
  BY <1>8 DEF lockGroup, WriteInv, Shape, Unwritten, Fields
<1>9. ASSUME NEW b \in Builds, Job(b) PROVE WriteInv'
  BY <1>9 DEF Job, CreateBuild, StartBuild, FinishBuild, WriteInv, Shape, Unwritten
<1>10. ASSUME ChangeConfig \/ Tick \/ UNCHANGED vars PROVE WriteInv'
  BY <1>10 DEF ChangeConfig, Tick, vars, WriteInv, Shape, Unwritten
<1> QED
  BY <1>1, <1>2, <1>3, <1>4, <1>5, <1>6, <1>7, <1>8, <1>9, <1>10, Zenon DEF Next, Cycle

(* Only Upload writes lost, and under a condition only after a download    *)
(* that saw the current version.                                           *)
LEMMA LostStep ==
    ASSUME WriteInv, Next, lost' # lost
    PROVE  \E u \in Updaters : up[u].phase = "write" /\ up[u].cond = "none"
<1>1. PICK u \in Updaters : Upload(u)
  BY DEF Next, Cycle, Job, Download, DownloadFails, listBuilds, readColumn, endRead, Abort,
         lockGroup, CreateBuild, StartBuild, FinishBuild, ChangeConfig, Tick
<1>2. up[u].phase = "write" /\ PreconditionHolds(u) /\ ~up[u].fresh
  BY <1>1 DEF Upload, WriteInv, Shape
<1>3. up[u].cond = "none"
  BY <1>2 DEF PreconditionHolds, WriteInv, Shape, Unwritten
<1> QED BY <1>2, <1>3

(* Optimistic concurrency: whatever the updaters, the fixers that create   *)
(* the object and failed downloads do, InflateDropAppend overwrites what   *)
(* it has not read only on its unconditional path for oversized grids.     *)
THEOREM WritesAreConditional == Spec => OverwriteOnlyCompressing
<1>1. GroupInit => WriteInv
  BY IdleShape DEF GroupInit, WriteInv, Shape, Unwritten
<1>2. WriteInv /\ [Next]_vars => [lost' # lost => \E u \in Updaters :
                                     up[u].phase = "write" /\ up[u].cond = "none"]_vars
  BY LostStep
<1> QED BY <1>1, <1>2, WriteStep, PTL DEF Spec, OverwriteOnlyCompressing
-----------------------------------------------------------------------------
Sorts == INSTANCE FoldProofs WITH Step <- InsertStarted
Groups == INSTANCE FoldProofs WITH Step <- Group
Counts == INSTANCE FoldProofs WITH Step <- AddCells

Outcomes == {"nostart", "ancient", "error", "done", "timeout", "running", "unknown"}
Cell == [b : Nat, res : Outcomes, cfg : Nat]
ColumnType == [key : Nat, start : Int, hint : Nat, cells : SUBSET Cell]

(* Where InsertStarted puts a column. *)
LEMMA InsertIs ==
    ASSUME NEW X, \A x \in X : x.start \in Int, NEW cols \in Seq(X), NEW col \in X
    PROVE  /\ InsertStarted(cols, col) \in Seq(X)
           /\ Len(InsertStarted(cols, col)) = Len(cols) + 1
           /\ \E at \in 1 .. Len(cols) + 1 :
                /\ InsertStarted(cols, col)[at] = col
                /\ \A i \in 1 .. at - 1 : InsertStarted(cols, col)[i] = cols[i] /\ cols[i].start >= col.start
                /\ \A i \in at + 1 .. Len(cols) + 1 : InsertStarted(cols, col)[i] = cols[i - 1]
                /\ at <= Len(cols) => cols[at].start < col.start
<1> DEFINE later == { i \in DOMAIN cols : cols[i].start < col.start }
           at == Min({Len(cols) + 1} \cup later)
<1>1. Len(cols) \in Nat /\ DOMAIN cols = 1 .. Len(cols) /\ \A i \in 1 .. Len(cols) : cols[i] \in X /\ cols[i].start \in Int
  OBVIOUS
<1>2. at \in {Len(cols) + 1} \cup later /\ \A i \in {Len(cols) + 1} \cup later : at <= i
  <2> DEFINE S == {Len(cols) + 1} \cup later
  <2>1. S \in SUBSET Int /\ S # {} /\ 1 \in Int /\ \A i \in S : i >= 1
    BY <1>1
  <2> HIDE DEF S
  <2>2. Min(S) \in S /\ \A i \in S : Min(S) <= i
    BY <2>1, MinOf
  <2> QED BY <2>2 DEF S
<1> HIDE DEF at
<1>3. at \in 1 .. Len(cols) + 1
  BY <1>1, <1>2
<1>4. at <= Len(cols) => cols[at].start < col.start
  BY <1>1, <1>2
<1>5. \A i \in 1 .. at - 1 : i \in 1 .. Len(cols) /\ cols[i].start >= col.start
  BY <1>1, <1>2, <1>3
<1> DEFINE pre == SubSeq(cols, 1, at - 1)
           post == SubSeq(cols, at, Len(cols))
<1>6. /\ pre \in Seq(X) /\ Len(pre) = at - 1 /\ \A i \in 1 .. at - 1 : pre[i] = cols[i]
  BY <1>1, <1>3
<1>7. /\ post \in Seq(X) /\ Len(post) = (Len(cols) - at) + 1
      /\ \A i \in 1 .. (Len(cols) - at) + 1 : post[i] = cols[(at + i) - 1]
  BY <1>1, <1>3
<1> HIDE DEF pre, post
<1> DEFINE mid == pre \o <<col>>
<1>8. /\ mid \in Seq(X) /\ Len(mid) = at /\ mid[at] = col /\ \A i \in 1 .. at - 1 : mid[i] = cols[i]
  BY <1>3, <1>6
<1> HIDE DEF mid
<1>9. InsertStarted(cols, col) = mid \o post
  BY DEF InsertStarted, mid, pre, post, at
<1>10. /\ mid \o post \in Seq(X) /\ Len(mid \o post) = Len(cols) + 1
       /\ \A i \in 1 .. at : (mid \o post)[i] = mid[i]
       /\ \A i \in at + 1 .. Len(cols) + 1 : (mid \o post)[i] = post[i - at]
  BY <1>1, <1>3, <1>7, <1>8
<1>11. \A i \in at + 1 .. Len(cols) + 1 : post[i - at] = cols[i - 1]
  BY <1>1, <1>3, <1>7
<1> DEFINE r == InsertStarted(cols, col)
<1>12. /\ r[at] = col
       /\ \A i \in 1 .. at - 1 : r[i] = cols[i] /\ cols[i].start >= col.start
       /\ \A i \in at + 1 .. Len(cols) + 1 : r[i] = cols[i - 1]
  BY <1>3, <1>5, <1>8, <1>9, <1>10, <1>11
<1> HIDE DEF r
<1> QED BY <1>3, <1>4, <1>9, <1>10, <1>12 DEF r

(* What SortStarted returns after n columns: they are permuted, in order   *)
(* of their starts, and equal starts stay in order.                        *)
SortedFrom(t, s, n, h) ==
    /\ Len(t) = n /\ h \in [1 .. n -> 1 .. n]
    /\ \A p \in 1 .. n : t[p] = s[h[p]]
    /\ \A p, q \in 1 .. n : p # q => h[p] # h[q]
    /\ \A p, q \in 1 .. n : p < q => \/ t[p].start > t[q].start
                                     \/ t[p].start = t[q].start /\ h[p] < h[q]
    /\ \A i \in 1 .. n : \E p \in 1 .. n : h[p] = i

(* SortStarted returns its columns ordered by start, newest first. *)
LEMMA SortIs ==
    ASSUME NEW X, \A x \in X : x.start \in Int, NEW s \in Seq(X)
    PROVE  SortStarted(s) \in Seq(X) /\ \E h : SortedFrom(SortStarted(s), s, Len(s), h)
<1> DEFINE Q == [n \in 0 .. Len(s) |-> { t \in Seq(X) : \E h : SortedFrom(t, s, n, h) }]
<1>1. Len(s) \in Nat /\ \A i \in 1 .. Len(s) : s[i] \in X
  OBVIOUS
<1>2. <<>> \in Q[0]
  <2>1. SortedFrom(<<>>, s, 0, [p \in 1 .. 0 |-> 0])
    BY DEF SortedFrom
  <2> QED BY <2>1
<1>3. ASSUME NEW n \in 1 .. Len(s), NEW t \in Q[n - 1] PROVE InsertStarted(t, s[n]) \in Q[n]
  <2>0. n - 1 \in 0 .. Len(s) /\ n \in 0 .. Len(s) /\ n \in Nat /\ n - 1 \in Nat /\ n - 1 < n
    BY <1>1
  <2>1. t \in Seq(X) /\ \E h : SortedFrom(t, s, n - 1, h)
    BY <1>3, <2>0
  <2> DEFINE r == InsertStarted(t, s[n])
  <2> SUFFICES r \in Seq(X) /\ \E h : SortedFrom(r, s, n, h)
    BY <2>0
  <2> HIDE DEF Q
  <2>2. PICK h : SortedFrom(t, s, n - 1, h)
    BY <2>1
  <2>3. Len(t) = n - 1 /\ Len(t) + 1 = n
    BY <2>0, <2>2 DEF SortedFrom
  <2>4. /\ r \in Seq(X) /\ Len(r) = n
        /\ \E at \in 1 .. n :
             /\ r[at] = s[n]
             /\ \A i \in 1 .. at - 1 : r[i] = t[i] /\ t[i].start >= s[n].start
             /\ \A i \in at + 1 .. n : r[i] = t[i - 1]
             /\ at <= n - 1 => t[at].start < s[n].start
    <3>1. s[n] \in X
      BY <1>1
    <3>2. /\ r \in Seq(X) /\ Len(r) = Len(t) + 1
          /\ \E at \in 1 .. Len(t) + 1 :
               /\ r[at] = s[n]
               /\ \A i \in 1 .. at - 1 : r[i] = t[i] /\ t[i].start >= s[n].start
               /\ \A i \in at + 1 .. Len(t) + 1 : r[i] = t[i - 1]
               /\ at <= Len(t) => t[at].start < s[n].start
      BY <2>1, <3>1, InsertIs
    <3> HIDE DEF r
    <3> QED BY <2>3, <3>2
  <2> HIDE DEF r
  <2>5. PICK at \in 1 .. n :
             /\ r[at] = s[n]
             /\ \A i \in 1 .. at - 1 : r[i] = t[i] /\ t[i].start >= s[n].start
             /\ \A i \in at + 1 .. n : r[i] = t[i - 1]
             /\ at <= n - 1 => t[at].start < s[n].start
    BY <2>4
  <2> DEFINE k == [p \in 1 .. n |-> IF p < at THEN h[p] ELSE IF p = at THEN n ELSE h[p - 1]]
             was == [p \in 1 .. n |-> IF p < at THEN p ELSE p - 1]
  <2>6. /\ \A p \in 1 .. n : p # at => /\ was[p] \in 1 .. n - 1 /\ k[p] = h[was[p]] /\ r[p] = t[was[p]]
                                       /\ (p < at => was[p] = p) /\ (p > at => was[p] = p - 1)
        /\ k[at] = n /\ r[at] = s[n] /\ DOMAIN k = 1 .. n /\ k = [p \in 1 .. n |-> k[p]]
    BY <2>0, <2>5
  <2> HIDE DEF k, was
  <2>7. \A p \in 1 .. n - 1 : /\ h[p] \in 1 .. n - 1 /\ t[p] = s[h[p]]
                              /\ t[p].start \in Int /\ s[n].start \in Int
    <3>1. \A p \in 1 .. n - 1 : h[p] \in 1 .. n - 1 /\ t[p] = s[h[p]]
      BY <2>2 DEF SortedFrom
    <3>2. \A p \in 1 .. n - 1 : t[p] \in X
      BY <2>1, <2>3
    <3>3. s[n] \in X
      BY <1>1
    <3> QED BY <3>1, <3>2, <3>3
  <2>8. \A p \in 1 .. n : k[p] \in 1 .. n
    BY <2>0, <2>6, <2>7
  <2>9. \A p \in 1 .. n : r[p] = s[k[p]]
    BY <2>6, <2>7
  <2>10. ASSUME NEW p \in 1 .. n, NEW q \in 1 .. n, p # q PROVE k[p] # k[q]
    <3>1. CASE p = at \/ q = at
      BY <2>0, <2>6, <2>7, <2>10, <3>1
    <3>2. CASE p # at /\ q # at
      <4>1. was[p] # was[q]
        BY <2>0, <2>5, <2>6, <2>10, <3>2, SMTT(30)
      <4> QED BY <2>2, <2>6, <3>2, <4>1, SMTT(30) DEF SortedFrom
    <3> QED BY <3>1, <3>2
  <2>11. ASSUME NEW p \in 1 .. n, NEW q \in 1 .. n, p < q
         PROVE  r[p].start > r[q].start \/ (r[p].start = r[q].start /\ k[p] < k[q])
    <3>1. CASE p # at /\ q # at
      <4>1. was[p] \in 1 .. n - 1 /\ was[q] \in 1 .. n - 1
        BY <2>6, <3>1
      <4>2. was[p] < was[q]
        <5>1. CASE p < at
          BY <2>0, <2>6, <2>11, <3>1, <5>1, SMTT(30)
        <5>2. CASE p > at
          BY <2>0, <2>6, <2>11, <3>1, <5>2
        <5> QED BY <3>1, <5>1, <5>2
      <4>3. \/ t[was[p]].start > t[was[q]].start
            \/ t[was[p]].start = t[was[q]].start /\ h[was[p]] < h[was[q]]
        BY <2>2, <4>1, <4>2 DEF SortedFrom
      <4> QED BY <2>6, <3>1, <4>3
    <3>2. CASE q = at
      <4>1. p \in 1 .. at - 1 /\ p \in 1 .. n - 1 /\ p # at
        BY <2>11, <3>2
      <4>2. r[p].start >= s[n].start /\ r[p].start \in Int /\ s[n].start \in Int /\ k[p] < n
        BY <2>0, <2>5, <2>6, <2>7, <4>1, SMTT(30)
      <4> QED BY <2>6, <3>2, <4>2
    <3>3. CASE p = at
      <4>1. was[q] \in 1 .. n - 1 /\ at <= was[q] /\ at \in 1 .. n - 1 /\ r[q] = t[was[q]]
        BY <2>0, <2>6, <2>11, <3>3
      <4>2. t[was[q]].start <= t[at].start
        <5>1. CASE at = was[q]
          BY <2>7, <4>1, <5>1
        <5>2. CASE at < was[q]
          <6>1. t[at].start > t[was[q]].start \/ t[at].start = t[was[q]].start
            BY <2>2, <4>1, <5>2 DEF SortedFrom
          <6> QED BY <2>7, <4>1, <6>1
        <5> QED BY <4>1, <5>1, <5>2
      <4>3. t[at].start < s[n].start
        BY <2>5, <4>1
      <4> QED BY <2>6, <2>7, <3>3, <4>1, <4>2, <4>3
    <3> QED BY <3>1, <3>2, <3>3
  <2>12. ASSUME NEW i \in 1 .. n PROVE \E p \in 1 .. n : k[p] = i
    <3>1. CASE i = n
      BY <2>6, <3>1
    <3>2. CASE i # n
      <4>1. PICK p \in 1 .. n - 1 : h[p] = i
        BY <2>2, <3>2 DEF SortedFrom
      <4>2. CASE p < at
        <5>1. p \in 1 .. n /\ p # at /\ was[p] = p
          BY <2>6, <4>2
        <5> QED BY <2>6, <4>1, <5>1
      <4>3. CASE ~(p < at)
        <5>1. p + 1 \in 1 .. n /\ p + 1 # at /\ p + 1 > at /\ (p + 1) - 1 = p
          BY <2>0, <4>3
        <5>2. was[p + 1] = p
          BY <2>6, <5>1
        <5> QED BY <2>6, <4>1, <5>1, <5>2
      <4> QED BY <4>2, <4>3
    <3> QED BY <3>1, <3>2
  <2>13. k \in [1 .. n -> 1 .. n]
    BY <2>6, <2>8
  <2>14. SortedFrom(r, s, n, k)
    BY <2>4, <2>9, <2>10, <2>11, <2>12, <2>13, Zenon DEF SortedFrom
  <2> QED BY <2>4, <2>14
<1>4. Sorts!Fold(<<>>, s) \in Q[Len(s)]
  <2> HIDE DEF Q
  <2> QED BY <1>1, <1>2, <1>3, Sorts!FoldReaches
<1>5. SortStarted(s) = Sorts!Fold(<<>>, s)
  BY DEF SortStarted, Sorting!Fold, Sorts!Fold
<1>6. Len(s) \in 0 .. Len(s)
  BY <1>1
<1> QED BY <1>1, <1>4, <1>5, <1>6

(* No two cells, in whichever columns, are of the same build. *)
Distinct(cols) ==
    \A i, j \in DOMAIN cols : \A c \in cols[i].cells, d \in cols[j].cells :
        c.b = d.b => i = j /\ c = d

(* A selection of columns without duplicates has none. *)
LEMMA DistinctSelection ==
    ASSUME NEW s, NEW t, NEW h, Distinct(s),
           \A p \in DOMAIN t : h[p] \in DOMAIN s /\ t[p] = s[h[p]],
           \A p, q \in DOMAIN t : p # q => h[p] # h[q]
    PROVE  Distinct(t)
BY DEF Distinct

(* Grouping stays within any set of columns that is closed under Merge,    *)
(* and does not bring in cells.                                            *)
GroupedFrom(t, s, n) ==
    /\ \A p \in DOMAIN t : \A c \in t[p].cells : \E i \in 1 .. n : c \in s[i].cells
    /\ Distinct(s) => Distinct(t)

(* One more column is merged into the group with its key, or starts a      *)
(* group.                                                                  *)
LEMMA GroupStep ==
    ASSUME NEW X, \A x, y \in X : Merge(x, y) \in X, NEW s \in Seq(X), NEW n \in 1 .. Len(s),
           NEW t \in Seq(X), GroupedFrom(t, s, n - 1)
    PROVE  Group(t, s[n]) \in Seq(X) /\ GroupedFrom(Group(t, s[n]), s, n)
<1> DEFINE same == { i \in DOMAIN t : t[i].key = s[n].key }
           r == Group(t, s[n])
<1>1. /\ Len(s) \in Nat /\ DOMAIN s = 1 .. Len(s) /\ Len(t) \in Nat /\ DOMAIN t = 1 .. Len(t)
      /\ s[n] \in X /\ \A p \in DOMAIN t : t[p] \in X
  OBVIOUS
<1>2. \A p \in DOMAIN t : \A c \in t[p].cells : \E i \in 1 .. n - 1 : c \in s[i].cells
  BY DEF GroupedFrom
<1>3. \A p \in DOMAIN t : \A c \in t[p].cells : \E i \in 1 .. n : c \in s[i].cells
  BY <1>1, <1>2
<1>4. ASSUME Distinct(s), NEW p \in DOMAIN t, NEW c \in t[p].cells, NEW d \in s[n].cells
      PROVE  c.b # d.b
  <2>1. PICK i \in 1 .. n - 1 : c \in s[i].cells
    BY <1>2
  <2>2. i \in DOMAIN s /\ n \in DOMAIN s /\ i # n
    BY <1>1
  <2> QED BY <1>4, <2>1, <2>2 DEF Distinct
<1>5. CASE same = {}
  <2>1. r = Append(t, s[n])
    BY <1>5 DEF Group
  <2>2. /\ r \in Seq(X) /\ DOMAIN r = 1 .. Len(t) + 1 /\ r[Len(t) + 1] = s[n]
        /\ \A p \in DOMAIN t : r[p] = t[p]
    BY <1>1, <2>1
  <2>3. \A p \in DOMAIN r : p \in DOMAIN t \/ p = Len(t) + 1
    BY <1>1, <2>2
  <2> HIDE DEF r
  <2>4. \A p \in DOMAIN r : \A c \in r[p].cells : \E i \in 1 .. n : c \in s[i].cells
    BY <1>1, <1>3, <2>2, <2>3
  <2>5. ASSUME Distinct(s) PROVE Distinct(r)
    <3> SUFFICES ASSUME NEW i \in DOMAIN r, NEW j \in DOMAIN r,
                        NEW c \in r[i].cells, NEW d \in r[j].cells, c.b = d.b
                 PROVE  i = j /\ c = d
      BY DEF Distinct
    <3>1. CASE i \in DOMAIN t /\ j \in DOMAIN t
      BY <2>2, <2>5, <3>1 DEF GroupedFrom, Distinct
    <3>2. CASE i \in DOMAIN t /\ j = Len(t) + 1
      BY <1>4, <2>2, <2>5, <3>2
    <3>3. CASE i = Len(t) + 1 /\ j \in DOMAIN t
      BY <1>4, <2>2, <2>5, <3>3
    <3>4. CASE i = Len(t) + 1 /\ j = Len(t) + 1
      BY <1>1, <2>2, <2>5, <3>4 DEF Distinct
    <3> QED BY <2>3, <3>1, <3>2, <3>3, <3>4
  <2> QED BY <2>2, <2>4, <2>5 DEF GroupedFrom, r
<1>6. CASE same # {}
  <2>1. Max(same) \in same
    <3>1. same \in SUBSET Int /\ Len(t) \in Int /\ \A x \in same : x <= Len(t)
      BY <1>1
    <3> HIDE DEF same
    <3> QED BY <1>6, <3>1, MaxOf
  <2>2. PICK k \in DOMAIN t : k = Max(same)
    BY <2>1
  <2>3. r = [t EXCEPT ![k] = Merge(t[k], s[n])]
    BY <1>6, <2>2 DEF Group
  <2>4. Merge(t[k], s[n]) \in X
    BY <1>1
  <2>5. /\ r \in Seq(X) /\ DOMAIN r = DOMAIN t /\ r[k] = Merge(t[k], s[n])
        /\ \A p \in DOMAIN t : p # k => r[p] = t[p]
    BY <1>1, <2>3, <2>4
  <2> HIDE DEF r
  <2>6. r[k].cells = t[k].cells \cup s[n].cells
    BY <2>5 DEF Merge
  <2>7. \A p \in DOMAIN r : \A c \in r[p].cells : c \in t[p].cells \/ (p = k /\ c \in s[n].cells)
    BY <2>5, <2>6
  <2>8. \A p \in DOMAIN r : \A c \in r[p].cells : \E i \in 1 .. n : c \in s[i].cells
    <3> SUFFICES ASSUME NEW p \in DOMAIN r, NEW c \in r[p].cells
                 PROVE  \E i \in 1 .. n : c \in s[i].cells
      OBVIOUS
    <3>1. CASE c \in t[p].cells
      BY <1>3, <2>5, <3>1
    <3>2. CASE c \in s[n].cells
      <4>1. n \in 1 .. n
        BY <1>1
      <4> QED BY <3>2, <4>1
    <3> QED BY <2>7, <3>1, <3>2
  <2>9. ASSUME Distinct(s) PROVE Distinct(r)
    <3> SUFFICES ASSUME NEW i \in DOMAIN r, NEW j \in DOMAIN r,
                        NEW c \in r[i].cells, NEW d \in r[j].cells, c.b = d.b
                 PROVE  i = j /\ c = d
      BY DEF Distinct
    <3>1. CASE c \in t[i].cells /\ d \in t[j].cells
      BY <2>5, <2>9, <3>1 DEF GroupedFrom, Distinct
    <3>2. CASE c \in t[i].cells /\ d \in s[n].cells
      BY <1>4, <2>5, <2>9, <3>2
    <3>3. CASE c \in s[n].cells /\ d \in t[j].cells
      BY <1>4, <2>5, <2>9, <3>3
    <3>4. CASE i = k /\ j = k /\ c \in s[n].cells /\ d \in s[n].cells
      BY <1>1, <2>9, <3>4 DEF Distinct
    <3> QED BY <2>7, <3>1, <3>2, <3>3, <3>4
  <2> QED BY <2>5, <2>8, <2>9 DEF GroupedFrom, r
<1> QED BY <1>5, <1>6

(* groupColumns leaves one column for each key, made of the columns that   *)
(* have it.                                                                *)
LEMMA GroupIs ==
    ASSUME NEW X, \A x, y \in X : Merge(x, y) \in X, NEW s \in Seq(X)
    PROVE  groupColumns(s) \in Seq(X) /\ GroupedFrom(groupColumns(s), s, Len(s))
<1> DEFINE Q == [n \in 0 .. Len(s) |-> { t \in Seq(X) : GroupedFrom(t, s, n) }]
<1>1. Len(s) \in Nat
  OBVIOUS
<1>2. <<>> \in Q[0]
  BY DEF GroupedFrom, Distinct
<1>3. ASSUME NEW n \in 1 .. Len(s), NEW t \in Q[n - 1] PROVE Group(t, s[n]) \in Q[n]
  <2>1. n - 1 \in 0 .. Len(s) /\ n \in 0 .. Len(s)
    BY <1>1
  <2>2. t \in Seq(X) /\ GroupedFrom(t, s, n - 1)
    BY <2>1
  <2>3. Group(t, s[n]) \in Seq(X) /\ GroupedFrom(Group(t, s[n]), s, n)
    BY <2>2, GroupStep
  <2> QED BY <2>1, <2>3
<1>4. Groups!Fold(<<>>, s) \in Q[Len(s)]
  <2> HIDE DEF Q
  <2> QED BY <1>1, <1>2, <1>3, Groups!FoldReaches
<1>5. groupColumns(s) = Groups!Fold(<<>>, s)
  BY DEF groupColumns, Grouping!Fold, Groups!Fold
<1>6. Len(s) \in 0 .. Len(s)
  BY <1>1
<1> QED BY <1>1, <1>4, <1>5, <1>6

(* truncateRunning keeps the end of the columns, after every running one   *)
(* that is not below the floor.                                            *)
LEMMA TruncateRunningIs ==
    ASSUME NEW X, NEW s \in Seq(X), NEW floor
    PROVE  /\ truncateRunning(s, floor) \in Seq(X)
           /\ \E k \in 0 .. Len(s) :
                /\ Len(truncateRunning(s, floor)) = Len(s) - k
                /\ \A p \in 1 .. Len(s) - k : truncateRunning(s, floor)[p] = s[k + p]
                /\ \A i \in 1 .. Len(s) : s[i].start >= floor /\ IsRunning(s[i]) => i <= k
<1> DEFINE running == { i \in DOMAIN s : s[i].start >= floor /\ IsRunning(s[i]) }
           r == truncateRunning(s, floor)
<1>1. Len(s) \in Nat /\ DOMAIN s = 1 .. Len(s)
  OBVIOUS
<1>2. CASE running = {}
  <2>1. r = s
    BY <1>2 DEF truncateRunning
  <2>2. /\ 0 \in 0 .. Len(s) /\ Len(s) = Len(s) - 0 /\ \A p \in 1 .. Len(s) - 0 : r[p] = s[0 + p]
        /\ \A i \in 1 .. Len(s) : s[i].start >= floor /\ IsRunning(s[i]) => i <= 0
    BY <1>1, <1>2, <2>1
  <2> HIDE DEF r
  <2> QED BY <2>1, <2>2 DEF r
<1>3. CASE running # {}
  <2>1. Max(running) \in running /\ \A x \in running : x <= Max(running)
    <3>1. running \in SUBSET Int /\ Len(s) \in Int /\ \A x \in running : x <= Len(s)
      BY <1>1
    <3> HIDE DEF running
    <3> QED BY <1>3, <3>1, MaxOf
  <2>2. PICK k \in 1 .. Len(s) : k = Max(running)
    BY <1>1, <2>1
  <2>3. r = SubSeq(s, k + 1, Len(s))
    BY <1>3, <2>2 DEF truncateRunning
  <2>4. /\ r \in Seq(X) /\ Len(r) = Len(s) - k /\ \A p \in 1 .. Len(s) - k : r[p] = s[k + p]
    BY <1>1, <2>3
  <2>5. \A i \in 1 .. Len(s) : s[i].start >= floor /\ IsRunning(s[i]) => i <= k
    BY <1>1, <2>1, <2>2
  <2>6. k \in 0 .. Len(s)
    OBVIOUS
  <2> HIDE DEF r
  <2> QED BY <2>4, <2>5, <2>6 DEF r
<1> QED BY <1>2, <1>3

(* The columns of a grid of configuration c at time t. *)
Good(c, t) ==
    { col \in ColumnType :
        /\ col.start \in Nat /\ col.hint \in Builds
        /\ \A x \in col.cells : x.b \in Builds /\ x.b <= col.hint
        /\ When(col) >= t - Lookback => \A x \in col.cells : x.cfg = c }

(* Merging two good columns gives a good one. *)
LEMMA GoodMerge ==
    ASSUME NEW c, NEW t \in Int, NEW x \in Good(c, t), NEW y \in Good(c, t)
    PROVE  Merge(x, y) \in Good(c, t)
<1> DEFINE m == Merge(x, y)
<1>1. /\ x.start \in Nat /\ y.start \in Nat /\ x.hint \in Nat /\ y.hint \in Nat /\ Lookback \in Int
      /\ x.key \in Nat /\ x.cells \in SUBSET Cell /\ y.cells \in SUBSET Cell
  BY BoundsAssumption DEF Good, ColumnType, Builds
<1>2. /\ Min({x.start, y.start}) \in {x.start, y.start}
      /\ Min({x.start, y.start}) <= x.start /\ Min({x.start, y.start}) <= y.start
  BY <1>1 DEF Min
<1>3. /\ Max({x.hint, y.hint}) \in {x.hint, y.hint}
      /\ Max({x.hint, y.hint}) >= x.hint /\ Max({x.hint, y.hint}) >= y.hint
  BY <1>1 DEF Max
<1>4. /\ m \in ColumnType /\ m.start \in Nat /\ m.hint \in Builds /\ m.cells = x.cells \cup y.cells
      /\ m.start <= x.start /\ m.start <= y.start /\ m.hint >= x.hint /\ m.hint >= y.hint
  <2>1. /\ m.key = x.key /\ m.start = Min({x.start, y.start}) /\ m.hint = Max({x.hint, y.hint})
        /\ m.cells = x.cells \cup y.cells
    BY DEF Merge
  <2>2. m.start \in Nat /\ m.hint \in Nat /\ m.hint \in Builds
    BY <1>1, <1>2, <1>3, <2>1 DEF Good
  <2>3. m \in ColumnType
    BY <1>1, <2>1, <2>2 DEF ColumnType, Merge
  <2> HIDE DEF m
  <2> QED BY <1>2, <1>3, <2>1, <2>2, <2>3
<1> HIDE DEF m
<1>5. \A z \in m.cells : z.b \in Builds /\ z.b <= m.hint
  <2>1. \A z \in m.cells : z.b \in Builds /\ (z.b <= x.hint \/ z.b <= y.hint)
    BY <1>4 DEF Good
  <2>2. m.hint \in Nat /\ \A z \in m.cells : z.b \in Nat
    BY <1>4, <2>1 DEF Builds
  <2> QED BY <1>1, <1>4, <2>1, <2>2
<1>6. When(m) >= t - Lookback => \A z \in m.cells : z.cfg = c
  <2>1. When(m) >= t - Lookback => When(x) >= t - Lookback /\ When(y) >= t - Lookback
    BY <1>1, <1>4 DEF When, Milli
  <2> QED BY <1>4, <2>1 DEF Good
<1> QED BY <1>4, <1>5, <1>6 DEF Good, m

(* Sorting and truncating keeps some of the columns and no running one    *)
(* above the floor; what it drops comes before all that it keeps.          *)
TruncatedFrom(r, s, floor, f) ==
    /\ \A p \in DOMAIN r : f[p] \in DOMAIN s /\ r[p] = s[f[p]]
    /\ \A p, q \in DOMAIN r : p # q => f[p] # f[q]
    /\ \A j \in DOMAIN s :
         \/ \E p \in DOMAIN r : f[p] = j
         \/ \A p \in DOMAIN r : \/ r[p].start < s[j].start
                                \/ r[p].start = s[j].start /\ j < f[p]
    /\ \A p \in DOMAIN r : ~(r[p].start >= floor /\ IsRunning(r[p]))

(* What sorting and then cutting off at the oldest running column keeps. *)
LEMMA SortTruncateIs ==
    ASSUME NEW X, \A x \in X : x.start \in Int, NEW s \in Seq(X), NEW floor
    PROVE  /\ truncateRunning(SortStarted(s), floor) \in Seq(X)
           /\ \E f : TruncatedFrom(truncateRunning(SortStarted(s), floor), s, floor, f)
<1> DEFINE a == SortStarted(s)
           r == truncateRunning(a, floor)
<1>1. a \in Seq(X) /\ \E h : SortedFrom(a, s, Len(s), h)
  BY SortIs
<1>2. PICK h : SortedFrom(a, s, Len(s), h)
  BY <1>1
<1> HIDE DEF a
<1>3. /\ r \in Seq(X)
      /\ \E k \in 0 .. Len(a) :
           /\ Len(r) = Len(a) - k
           /\ \A p \in 1 .. Len(a) - k : r[p] = a[k + p]
           /\ \A i \in 1 .. Len(a) : a[i].start >= floor /\ IsRunning(a[i]) => i <= k
  BY <1>1, TruncateRunningIs, Zenon
<1> HIDE DEF r
<1>4. PICK k \in 0 .. Len(a) :
           /\ Len(r) = Len(a) - k
           /\ \A p \in 1 .. Len(a) - k : r[p] = a[k + p]
           /\ \A i \in 1 .. Len(a) : a[i].start >= floor /\ IsRunning(a[i]) => i <= k
  BY <1>3
<1>5. PICK n \in Nat : n = Len(s)
  OBVIOUS
<1>6. Len(a) = n /\ DOMAIN s = 1 .. n /\ DOMAIN r = 1 .. n - k /\ k \in 0 .. n
  BY <1>2, <1>3, <1>4, <1>5 DEF SortedFrom
<1> DEFINE f == [p \in 1 .. n - k |-> h[k + p]]
<1>7. \A p \in DOMAIN r : k + p \in 1 .. n /\ f[p] = h[k + p] /\ k < k + p
  BY <1>6
<1> HIDE DEF f
<1>8. /\ \A p \in 1 .. n : h[p] \in 1 .. n /\ a[p] = s[h[p]]
      /\ \A p, q \in 1 .. n : p # q => h[p] # h[q]
      /\ \A p, q \in 1 .. n : p < q => \/ a[p].start > a[q].start
                                       \/ a[p].start = a[q].start /\ h[p] < h[q]
      /\ \A i \in 1 .. n : \E p \in 1 .. n : h[p] = i
  BY <1>2, <1>5 DEF SortedFrom
<1>9. \A p \in DOMAIN r : f[p] \in DOMAIN s /\ r[p] = s[f[p]] /\ r[p] = a[k + p]
  <2>1. \A p \in DOMAIN r : r[p] = a[k + p]
    BY <1>4, <1>6
  <2> SUFFICES ASSUME NEW p \in DOMAIN r PROVE f[p] \in DOMAIN s /\ r[p] = s[f[p]]
    BY <2>1
  <2>2. PICK q \in 1 .. n : q = k + p /\ f[p] = h[q]
    BY <1>7
  <2>3. h[q] \in 1 .. n /\ a[q] = s[h[q]]
    BY <1>8
  <2> QED BY <1>6, <2>1, <2>2, <2>3
<1>10. ASSUME NEW p \in DOMAIN r, NEW q \in DOMAIN r, p # q PROVE f[p] # f[q]
  <2>1. k + p # k + q
    BY <1>6, <1>10
  <2>2. k + p \in 1 .. n /\ k + q \in 1 .. n
    BY <1>7
  <2>3. h[k + p] # h[k + q]
    BY <1>8, <2>1, <2>2
  <2> QED BY <1>7, <2>3
<1>11. ASSUME NEW j \in DOMAIN s
       PROVE  \/ \E p \in DOMAIN r : f[p] = j
              \/ \A p \in DOMAIN r : \/ r[p].start < s[j].start
                                     \/ r[p].start = s[j].start /\ j < f[p]
  <2>1. PICK q \in 1 .. n : h[q] = j
    BY <1>6, <1>8
  <2>2. CASE q > k
    <3>1. q - k \in DOMAIN r /\ k + (q - k) = q
      BY <1>6, <2>2
    <3> QED BY <1>7, <2>1, <3>1
  <2>3. CASE ~(q > k)
    <3> SUFFICES ASSUME NEW p \in DOMAIN r
                 PROVE  r[p].start < s[j].start \/ (r[p].start = s[j].start /\ j < f[p])
      OBVIOUS
    <3>1. q < k + p /\ k + p \in 1 .. n
      BY <1>6, <1>7, <2>3
    <3>2. a[q].start > a[k + p].start \/ (a[q].start = a[k + p].start /\ h[q] < h[k + p])
      BY <1>8, <3>1
    <3>3. a[q] = s[j] /\ a[k + p] = r[p] /\ f[p] = h[k + p]
      BY <1>7, <1>8, <1>9, <2>1
    <3>4. a[q].start \in Int /\ a[k + p].start \in Int
      BY <1>1, <1>6, <3>1
    <3> QED BY <2>1, <3>2, <3>3, <3>4
  <2> QED BY <2>2, <2>3
<1>12. ASSUME NEW p \in DOMAIN r PROVE ~(r[p].start >= floor /\ IsRunning(r[p]))
  <2>1. k + p \in 1 .. Len(a) /\ ~(k + p <= k) /\ r[p] = a[k + p]
    BY <1>6, <1>7, <1>9
  <2> QED BY <1>4, <2>1
<1>13. TruncatedFrom(r, s, floor, f)
  BY <1>9, <1>10, <1>11, <1>12 DEF TruncatedFrom
<1> QED BY <1>3, <1>13 DEF r, a

(* What a cycle keeps of a grid: some of its columns.  A column that it    *)
(* drops is too old, or starts no earlier than all that it keeps; it keeps *)
(* running columns, or any at all after a change of the configuration,     *)
(* only below the lookback.                                                *)
KeptFrom(r, g, c, t, e) ==
    /\ \A p \in DOMAIN r : e[p] \in DOMAIN g.cols /\ r[p] = g.cols[e[p]]
    /\ \A p, q \in DOMAIN r : p # q => e[p] # e[q]
    /\ \A i \in DOMAIN g.cols : \/ \E p \in DOMAIN r : e[p] = i
                                \/ When(g.cols[i]) < t - Window
                                \/ \A p \in DOMAIN r : r[p].start <= g.cols[i].start
    /\ \A p \in DOMAIN r : IsRunning(r[p]) \/ (g.cfg # 0 /\ g.cfg # c)
                              => r[p].start < (t - Lookback) * Milli

(* What a cycle keeps of the grid that it downloaded. *)
LEMMA OldColumnsAre ==
    ASSUME NEW X, \A x \in X : x.start \in Nat, NEW g, NEW c, NEW t \in Int, g.cols \in Seq(X)
    PROVE  OldColumns(g, c, t) \in Seq(X) /\ \E e : KeptFrom(OldColumns(g, c, t), g, c, t, e)
<1> DEFINE cols == Inflate(g.cols, t - Window, t - Reprocess)
           r == OldColumns(g, c, t)
           when == t - Lookback
           rep == reprocessColumn(when)
           fit == { i \in DOMAIN g.cols : When(g.cols[i]) <= t - Reprocess }
           S == { i \in fit : When(g.cols[i]) >= t - Window \/ \A j \in fit : i <= j }
<1>0. Window \in Int /\ Reprocess \in Int /\ Lookback \in Int /\ MaxTime \in Nat
  BY BoundsAssumption
<1>1. cols \in Seq(X) /\ \E h : Subsequence(cols, g.cols, Len(g.cols), S, h)
  <2>1. cols = Select(g.cols, S)
    BY DEF Inflate
  <2> HIDE DEF S, cols
  <2> QED BY <2>1, SelectIs
<1>2. PICK h : Subsequence(cols, g.cols, Len(g.cols), S, h)
  BY <1>1
<1> HIDE DEF cols
<1>3. /\ Len(cols) \in Nat /\ DOMAIN cols = 1 .. Len(cols)
      /\ Len(g.cols) \in Nat /\ DOMAIN g.cols = 1 .. Len(g.cols)
      /\ \A i \in DOMAIN g.cols : g.cols[i] \in X
  BY <1>1
<1>4. /\ \A p \in DOMAIN cols : h[p] \in DOMAIN g.cols /\ h[p] \in S /\ cols[p] = g.cols[h[p]]
      /\ \A p, q \in DOMAIN cols : p < q => h[p] < h[q]
      /\ \A i \in S : i \in DOMAIN g.cols => \E p \in DOMAIN cols : h[p] = i
  <2> HIDE DEF S
  <2> QED BY <1>2, <1>3 DEF Subsequence
<1>5. \A p, q \in DOMAIN cols : p # q => h[p] # h[q]
  BY <1>3, <1>4
<1>6. \A i \in DOMAIN g.cols : When(g.cols[i]) \in Int /\ g.cols[i].start \in Nat
  BY <1>3 DEF When, Milli
<1>7. \A i \in DOMAIN g.cols : \/ i \in S \/ When(g.cols[i]) < t - Window
                               \/ When(g.cols[i]) > t - Reprocess
  BY <1>0, <1>6
<1>8. \A i \in S : When(g.cols[i]) <= t - Reprocess /\ i \in DOMAIN g.cols
  OBVIOUS
<1> HIDE DEF S, fit
(* The columns after InflateGrid, all, have those of cols and maybe rep.   *)
<1>9. ASSUME NEW all, NEW floor, NEW f, TruncatedFrom(r, all, floor, f), r \in Seq(X),
             \A j \in DOMAIN cols : j \in DOMAIN all /\ all[j] = cols[j],
             \A p \in DOMAIN r : f[p] \in DOMAIN cols,
             \A p \in DOMAIN r : IsRunning(r[p]) \/ (g.cfg # 0 /\ g.cfg # c)
                                    => r[p].start < (t - Lookback) * Milli
      PROVE  \E e : KeptFrom(r, g, c, t, e)
  <2> DEFINE e == [p \in DOMAIN r |-> h[f[p]]]
  <2> HIDE DEF r
  <2>1. \A p \in DOMAIN r : e[p] = h[f[p]] /\ e[p] \in DOMAIN g.cols /\ e[p] \in S /\ r[p] = g.cols[e[p]]
    BY <1>4, <1>9 DEF TruncatedFrom
  <2> HIDE DEF e
  <2>2. \A p, q \in DOMAIN r : p # q => e[p] # e[q]
    BY <1>5, <1>9, <2>1 DEF TruncatedFrom
  <2>3. ASSUME NEW i \in DOMAIN g.cols
        PROVE  \/ \E p \in DOMAIN r : e[p] = i
               \/ When(g.cols[i]) < t - Window
               \/ \A p \in DOMAIN r : r[p].start <= g.cols[i].start
    <3>1. CASE i \in S
      <4>1. PICK j \in DOMAIN cols : h[j] = i
        BY <1>4, <3>1
      <4>2. CASE \E p \in DOMAIN r : f[p] = j
        BY <2>1, <4>1, <4>2
      <4>3. CASE \A p \in DOMAIN r : r[p].start < all[j].start \/ r[p].start = all[j].start
        <5>1. all[j] = g.cols[i] /\ g.cols[i].start \in Nat
          BY <1>4, <1>6, <1>9, <4>1
        <5>2. \A p \in DOMAIN r : r[p].start \in Nat
          BY <1>6, <2>1
        <5> QED BY <4>3, <5>1, <5>2
      <4> QED BY <1>9, <4>2, <4>3 DEF TruncatedFrom
    <3>2. CASE When(g.cols[i]) > t - Reprocess
      <4>1. \A p \in DOMAIN r : When(r[p]) <= t - Reprocess /\ r[p].start \in Nat
        BY <1>6, <1>8, <2>1
      <4> QED BY <1>0, <1>6, <3>2, <4>1 DEF When, Milli
    <3> QED BY <1>7, <3>1, <3>2
  <2>4. KeptFrom(r, g, c, t, e)
    BY <1>9, <2>1, <2>2, <2>3 DEF KeptFrom
  <2> QED BY <2>4
<1>10. CASE ~(g.cfg # 0 /\ g.cfg # c)
  <2> DEFINE floor == 0 - MaxTime * Milli
  <2>1. r = truncateRunning(SortStarted(cols), floor)
    BY <1>10 DEF OldColumns, cols
  <2>2. \A x \in X : x.start \in Int
    OBVIOUS
  <2> HIDE DEF r, floor
  <2>3. r \in Seq(X) /\ \E f : TruncatedFrom(r, cols, floor, f)
    BY <1>1, <2>1, <2>2, SortTruncateIs
  <2>4. PICK f : TruncatedFrom(r, cols, floor, f)
    BY <2>3
  <2>5. \A p \in DOMAIN r : ~IsRunning(r[p])
    <3>1. floor \in Int /\ floor <= 0
      BY <1>0 DEF floor, Milli
    <3>2. \A p \in DOMAIN r : r[p].start \in Nat
      BY <2>3
    <3> QED BY <2>4, <3>1, <3>2 DEF TruncatedFrom
  <2>6. \A p \in DOMAIN r : f[p] \in DOMAIN cols
    BY <2>4 DEF TruncatedFrom
  <2> QED BY <1>9, <1>10, <2>3, <2>4, <2>5, <2>6 DEF r
<1>11. CASE g.cfg # 0 /\ g.cfg # c
  <2> DEFINE Y == X \cup {rep}
             all == Append(cols, rep)
             floor == when * Milli
  <2>1. floor \in Int /\ rep.start = floor /\ IsRunning(rep)
    <3>1. when * 10 \in Int
      BY <1>0
    <3>2. rep.start = floor /\ rep.cells = {[b |-> 0, res |-> "running", cfg |-> 0]}
      BY DEF reprocessColumn
    <3> HIDE DEF rep
    <3> QED BY <3>1, <3>2 DEF IsRunning, RunningResults, Milli
  <2>2. r = truncateRunning(SortStarted(all), floor)
    BY <1>11 DEF OldColumns, cols
  <2> HIDE DEF rep, r
  <2>3. \A x \in Y : x.start \in Int
    BY <2>1
  <2>4. /\ all \in Seq(Y) /\ Len(all) = Len(cols) + 1 /\ all[Len(all)] = rep
        /\ \A i \in DOMAIN cols : i \in DOMAIN all /\ all[i] = cols[i]
        /\ DOMAIN all = 1 .. Len(all)
    BY <1>1, <1>3
  <2> HIDE DEF all, Y, floor
  <2>5. r \in Seq(Y) /\ \E f : TruncatedFrom(r, all, floor, f)
    BY <2>2, <2>3, <2>4, SortTruncateIs
  <2>6. PICK f : TruncatedFrom(r, all, floor, f)
    BY <2>5
  <2>7. Len(all) \in DOMAIN all /\ \A p \in DOMAIN r : f[p] \in DOMAIN all /\ r[p] = all[f[p]]
    BY <1>3, <2>4, <2>6 DEF TruncatedFrom
  <2>8. \A p \in DOMAIN r : f[p] # Len(all)
    <3>1. floor >= floor
      BY <2>1
    <3>2. \A p \in DOMAIN r : r[p] # rep
      BY <2>1, <2>6, <3>1 DEF TruncatedFrom
    <3> QED BY <2>4, <2>7, <3>2
  <2>9. \A p \in DOMAIN r : f[p] \in DOMAIN cols /\ r[p] = cols[f[p]] /\ r[p] \in X
    <3>1. \A p \in DOMAIN r : f[p] \in DOMAIN cols
      BY <1>3, <2>4, <2>7, <2>8
    <3>2. \A p \in DOMAIN r : r[p] = cols[f[p]]
      BY <2>4, <2>7, <3>1
    <3>3. \A j \in DOMAIN cols : cols[j] \in X
      BY <1>1
    <3> QED BY <3>1, <3>2, <3>3
  <2>10. \A p \in DOMAIN r : r[p].start < floor
    <3> SUFFICES ASSUME NEW p \in DOMAIN r PROVE r[p].start < floor
      OBVIOUS
    <3>1. r[p].start < all[Len(all)].start \/ Len(all) < f[p]
      BY <2>6, <2>7, <2>8 DEF TruncatedFrom
    <3>2. ~(Len(all) < f[p])
      BY <1>3, <2>4, <2>7
    <3> QED BY <2>1, <2>4, <3>1, <3>2
  <2>11. r \in Seq(X)
    BY <2>5, <2>9
  <2>12. \A p \in DOMAIN r : r[p].start < (t - Lookback) * Milli
    BY <2>10 DEF floor
  <2> QED BY <1>9, <2>4, <2>6, <2>9, <2>11, <2>12 DEF r
<1> QED BY <1>10, <1>11

(* What a cycle keeps of a good grid is good for its own configuration:    *)
(* if that is a new one, only columns below the lookback are kept.         *)
LEMMA OldColumnsGood ==
    ASSUME NEW g, NEW c, NEW t \in Int, g.cols \in Seq(Good(g.cfg, t)), Distinct(g.cols),
           g.cfg = 0 => g.cols = <<>>
    PROVE  OldColumns(g, c, t) \in Seq(Good(c, t)) /\ Distinct(OldColumns(g, c, t))
<1>1. PICK r, X : r = OldColumns(g, c, t) /\ X = Good(g.cfg, t)
  OBVIOUS
<1>2. \A x \in X : x.start \in Nat
  BY <1>1 DEF Good
<1>3. r \in Seq(X) /\ \E e : KeptFrom(r, g, c, t, e)
  BY <1>1, <1>2, OldColumnsAre
<1>4. PICK e : KeptFrom(r, g, c, t, e)
  BY <1>3
<1>5. Distinct(r)
  BY <1>4, DistinctSelection DEF KeptFrom
<1>6. ASSUME NEW p \in DOMAIN r PROVE r[p] \in Good(c, t)
  <2>1. r[p] \in X
    BY <1>3
  <2>2. CASE g.cfg = c
    BY <1>1, <2>1, <2>2
  <2>3. CASE g.cfg = 0
    <3>1. g.cols = <<>> /\ e[p] \in DOMAIN g.cols
      BY <1>4, <2>3 DEF KeptFrom
    <3> QED BY <3>1
  <2>4. CASE g.cfg # 0 /\ g.cfg # c
    <3>1. r[p].start \in Nat /\ r[p].start < (t - Lookback) * Milli /\ t - Lookback \in Int
      BY <1>2, <1>4, <2>1, <2>4, BoundsAssumption DEF KeptFrom
    <3>2. ~(When(r[p]) >= t - Lookback)
      BY <3>1 DEF When, Milli
    <3> QED BY <1>1, <2>1, <3>2 DEF Good
  <2> QED BY <2>2, <2>3, <2>4
<1>7. r \in Seq(Good(c, t))
  BY <1>3, <1>6
<1> QED BY <1>1, <1>5, <1>7

(* Dropping and marking the oldest columns keeps a grid good. *)
LEMMA PrefixGood ==
    ASSUME NEW X, NEW s \in Seq(X), Distinct(s), NEW n \in 0 .. Len(s)
    PROVE  /\ SubSeq(s, 1, n) \in Seq(X) /\ Distinct(SubSeq(s, 1, n)) /\ Len(SubSeq(s, 1, n)) = n
           /\ \A p \in 1 .. n : SubSeq(s, 1, n)[p] = s[p]
<1> DEFINE r == SubSeq(s, 1, n)
<1>1. r \in Seq(X) /\ Len(r) = n /\ DOMAIN r = 1 .. n /\ \A p \in 1 .. n : r[p] = s[p] /\ p \in DOMAIN s
  OBVIOUS
<1> HIDE DEF r
<1>2. Distinct(r)
  BY <1>1 DEF Distinct
<1> QED BY <1>1, <1>2 DEF r

(* Truncating columns to the ceiling keeps them good and distinct. *)
LEMMA TruncatedGood ==
    ASSUME NEW c, NEW t \in Int, NEW s \in Seq(Good(c, t)), Distinct(s), NEW n \in 1 .. Len(s)
    PROVE  Truncated(s, n) \in Seq(Good(c, t)) /\ Distinct(Truncated(s, n))
<1> DEFINE a == SubSeq(s, 1, n)
           r == Truncated(s, n)
           marked == { [x EXCEPT !.res = "unknown"] : x \in s[n].cells }
           last == [s[n] EXCEPT !.cells = marked]
<1>1. /\ a \in Seq(Good(c, t)) /\ Distinct(a) /\ Len(a) = n /\ \A p \in 1 .. n : a[p] = s[p]
  <2>1. n \in 0 .. Len(s)
    OBVIOUS
  <2> QED BY <2>1, PrefixGood
<1>2. s[n] \in Good(c, t) /\ s[n] \in ColumnType /\ s[n].cells \in SUBSET Cell
  BY DEF Good, ColumnType
<1>3. \A x \in Cell : /\ [x EXCEPT !.res = "unknown"] \in Cell
                      /\ [x EXCEPT !.res = "unknown"].b = x.b /\ [x EXCEPT !.res = "unknown"].cfg = x.cfg
  BY DEF Cell, Outcomes
<1>4. marked \in SUBSET Cell
  BY <1>2, <1>3
<1>5. \A y \in marked : \E x \in s[n].cells : y = [x EXCEPT !.res = "unknown"] /\ y.b = x.b /\ y.cfg = x.cfg
  BY <1>2, <1>3
<1>6. r = [a EXCEPT ![n] = last]
  <2>1. r = [a EXCEPT ![n] = [a[n] EXCEPT !.cells = { [x EXCEPT !.res = "unknown"] : x \in a[n].cells }]]
    BY DEF Truncated
  <2> HIDE DEF a, r
  <2>2. a[n] = s[n]
    BY <1>1
  <2> QED BY <2>1, <2>2
<1> HIDE DEF marked
<1>7. /\ last \in ColumnType /\ last.start = s[n].start /\ last.hint = s[n].hint /\ last.cells = marked
  BY <1>2, <1>4 DEF ColumnType
<1> HIDE DEF last, a
<1>8. last \in Good(c, t)
  BY <1>2, <1>5, <1>7 DEF Good, When
<1>9. /\ r \in Seq(Good(c, t)) /\ DOMAIN r = 1 .. n /\ DOMAIN a = 1 .. n /\ r[n] = last
      /\ \A p \in 1 .. n : p # n => r[p] = a[p]
  BY <1>1, <1>6, <1>8
<1> HIDE DEF r
<1>10. \A p \in DOMAIN r : \A y \in r[p].cells : \E x \in a[p].cells :
          y.b = x.b /\ y = IF p = n THEN [x EXCEPT !.res = "unknown"] ELSE x
  BY <1>1, <1>5, <1>7, <1>9
<1>11. Distinct(r)
  <2> SUFFICES ASSUME NEW i \in DOMAIN r, NEW j \in DOMAIN r,
                      NEW x \in r[i].cells, NEW y \in r[j].cells, x.b = y.b
               PROVE  i = j /\ x = y
    BY DEF Distinct
  <2>1. PICK u \in a[i].cells : x.b = u.b /\ x = IF i = n THEN [u EXCEPT !.res = "unknown"] ELSE u
    BY <1>10
  <2>2. PICK v \in a[j].cells : y.b = v.b /\ y = IF j = n THEN [v EXCEPT !.res = "unknown"] ELSE v
    BY <1>10
  <2>3. i = j /\ u = v
    <3>1. u.b = v.b /\ i \in DOMAIN a /\ j \in DOMAIN a
      BY <1>9, <2>1, <2>2
    <3> QED BY <1>1, <3>1 DEF Distinct
  <2> QED BY <2>1, <2>2, <2>3
<1> QED BY <1>9, <1>11 DEF r

(* So does halving a grid that is too large. *)
LEMMA ShrinkGood ==
    ASSUME NEW c, NEW t \in Int, NEW s \in Seq(Good(c, t)), Distinct(s),
           NEW cols \in shrinkGridInline(truncateGrid(s))
    PROVE  cols \in Seq(Good(c, t)) /\ Distinct(cols)
<1> DEFINE a == truncateGrid(s)
           over == { i \in 3 .. Len(s) : CellCount(SubSeq(s, 1, i)) > Ceiling }
<1>1. a \in Seq(Good(c, t)) /\ Distinct(a)
  <2>1. CASE over = {}
    BY <2>1 DEF truncateGrid
  <2>2. CASE over # {}
    <3>1. over \in SUBSET Int /\ 3 \in Int /\ \A x \in over : x >= 3 /\ x <= Len(s)
      OBVIOUS
    <3>2. a = SubSeq(s, 1, Min(over) - 1)
      BY <2>2 DEF truncateGrid
    <3> HIDE DEF over, a
    <3>3. Min(over) \in over
      BY <2>2, <3>1, MinOf
    <3>4. Min(over) - 1 \in 0 .. Len(s)
      <4>1. Min(over) \in Int /\ Min(over) >= 3 /\ Min(over) <= Len(s)
        BY <3>1, <3>3, Zenon
      <4>2. Len(s) \in Nat
        OBVIOUS
      <4> QED BY <4>1, <4>2
    <3> QED BY <3>2, <3>4, PrefixGood
  <2> QED BY <2>1, <2>2
<1> HIDE DEF a
<1>2. cols = a \/ \E n \in 1 .. Len(a) : cols = Truncated(a, n)
  <2>1. Len(a) \in Nat
    BY <1>1
  <2>2. cols \in shrinkGridInline(a)
    BY DEF a
  <2>3. CASE Len(a) = 1 /\ cols = Truncated(a, 1)
    BY <2>3
  <2>4. cols = a \/ (Len(a) = 1 /\ cols = Truncated(a, 1)) \/ \E n \in 1 .. Len(a) : cols = Truncated(a, n)
    BY <2>2, Zenon DEF shrinkGridInline
  <2> QED BY <2>3, <2>4
<1> QED BY <1>1, <1>2, TruncatedGood

(* hintStarted returns the largest hint. *)
LEMMA SinceIs ==
    ASSUME NEW s, Len(s) \in Nat, DOMAIN s = 1 .. Len(s), \A i \in DOMAIN s : s[i].hint \in 0 .. NumBuilds
    PROVE  /\ Since(s) \in 0 .. NumBuilds /\ \A i \in DOMAIN s : s[i].hint <= Since(s)
           /\ Since(s) = 0 \/ \E i \in DOMAIN s : s[i].hint = Since(s)
<1> DEFINE S == {0} \cup { s[i].hint : i \in DOMAIN s }
<1>1. NumBuilds \in Nat
  BY BuildsAssumption
<1>2. S \in SUBSET Int /\ S # {} /\ \A x \in S : x \in 0 .. NumBuilds /\ x <= NumBuilds
  BY <1>1
<1>3. /\ \A i \in DOMAIN s : s[i].hint \in S
      /\ \A x \in S : x = 0 \/ \E i \in DOMAIN s : s[i].hint = x
  OBVIOUS
<1>4. Since(s) = Max(S)
  BY DEF Since
<1> HIDE DEF S
<1>5. Max(S) \in S /\ \A x \in S : x <= Max(S)
  <2>1. NumBuilds \in Int
    BY <1>1
  <2> QED BY <1>2, <2>1, MaxOf
<1> QED BY <1>2, <1>3, <1>4, <1>5

(* An updater's local state v at time t: its columns are good, and what it *)
(* has read or still has to read is newer than what it keeps.              *)
Ahead(v) ==
    /\ \A i \in DOMAIN v.new : \A x \in v.new[i].cells :
         /\ \A j \in DOMAIN v.old : v.old[j].hint < x.b
         /\ \A b \in v.todo : x.b < b
    /\ \A b \in v.todo : \A j \in DOMAIN v.old : v.old[j].hint < b

UpdaterGood(v, t) ==
    /\ v.phase \in {"idle", "list", "read", "write"}
    /\ v.cfg \in Nat /\ (v.phase # "idle" => v.cfg # 0)
    /\ v.last \in Nat /\ v.fails \in Nat /\ v.todo \in SUBSET Builds
    /\ v.old \in Seq(Good(v.cfg, t)) /\ Distinct(v.old)
    /\ v.new \in Seq(Good(v.cfg, t)) /\ Distinct(v.new)
    /\ v.phase \in {"idle", "list"} => v.new = <<>>
    /\ v.phase # "read" => v.todo = {}
    /\ Ahead(v)

GridGood ==
    /\ grid.cols \in Seq(Good(grid.cfg, now)) /\ Distinct(grid.cols)
    /\ grid.cfg \in Nat /\ (grid.cfg = 0 => grid.cols = <<>>)

Basics ==
    /\ build \in [Builds -> {"absent", "pending", "running", "finished"}]
    /\ st \in [Builds -> Nat] /\ now \in Nat /\ cfg \in Nat /\ cfg # 0
    /\ exists \in BOOLEAN /\ fumbled \subseteq Builds

GridInv == Basics /\ GridGood /\ \A u \in Updaters : UpdaterGood(up[u], now)

(* A column that is good stays good when time passes. *)
LEMMA GoodLater ==
    ASSUME NEW c, NEW t \in Int, NEW s \in Seq(Good(c, t)) PROVE s \in Seq(Good(c, t + 1))
<1>1. ASSUME NEW x \in Good(c, t) PROVE x \in Good(c, t + 1)
  <2>1. Lookback \in Int /\ When(x) \in Int
    BY BoundsAssumption DEF Good, When, Milli
  <2>2. When(x) >= (t + 1) - Lookback => When(x) >= t - Lookback
    BY <2>1
  <2> QED BY <2>2 DEF Good
<1> QED BY <1>1

(* Columns with different builds may be put together. *)
LEMMA DistinctTogether ==
    ASSUME NEW X, NEW s \in Seq(X), NEW t \in Seq(X), Distinct(s), Distinct(t),
           \A i \in DOMAIN s, j \in DOMAIN t : \A x \in s[i].cells, y \in t[j].cells : x.b # y.b
    PROVE  s \o t \in Seq(X) /\ Distinct(s \o t)
<1> DEFINE r == s \o t
<1>1. /\ Len(s) \in Nat /\ Len(t) \in Nat /\ DOMAIN s = 1 .. Len(s) /\ DOMAIN t = 1 .. Len(t)
      /\ r \in Seq(X) /\ DOMAIN r = 1 .. (Len(s) + Len(t))
  OBVIOUS
<1>2. \A i \in DOMAIN s : r[i] = s[i]
  OBVIOUS
<1>3. \A i \in DOMAIN r : i \notin DOMAIN s => i - Len(s) \in DOMAIN t /\ r[i] = t[i - Len(s)]
  BY <1>1
<1> HIDE DEF r
<1>4. Distinct(r)
  <2> SUFFICES ASSUME NEW i \in DOMAIN r, NEW j \in DOMAIN r,
                      NEW x \in r[i].cells, NEW y \in r[j].cells, x.b = y.b
               PROVE  i = j /\ x = y
    BY DEF Distinct
  <2>1. CASE i \in DOMAIN s /\ j \in DOMAIN s
    BY <1>2, <2>1 DEF Distinct
  <2>2. CASE i \notin DOMAIN s /\ j \notin DOMAIN s
    <3>1. i - Len(s) = j - Len(s) /\ x = y
      BY <1>3, <2>2 DEF Distinct
    <3> QED BY <1>1, <3>1
  <2>3. CASE i \in DOMAIN s /\ j \notin DOMAIN s
    BY <1>2, <1>3, <2>3
  <2>4. CASE i \notin DOMAIN s /\ j \in DOMAIN s
    BY <1>2, <1>3, <2>4
  <2> QED BY <2>1, <2>2, <2>3, <2>4
<1> QED BY <1>1, <1>4 DEF r

(* What a cycle writes: its new columns before the old ones, grouped and   *)
(* sorted, are good.                                                       *)
LEMMA JoinedGood ==
    ASSUME NEW v, NEW t \in Int, UpdaterGood(v, t)
    PROVE  v.new \o v.old \in Seq(Good(v.cfg, t)) /\ Distinct(v.new \o v.old)
<1>1. PICK new, old, X : new = v.new /\ old = v.old /\ X = Good(v.cfg, t)
  OBVIOUS
<1>2. new \in Seq(X) /\ old \in Seq(X) /\ Distinct(new) /\ Distinct(old)
  BY <1>1 DEF UpdaterGood
<1>3. ASSUME NEW i \in DOMAIN new, NEW j \in DOMAIN old, NEW x \in new[i].cells, NEW y \in old[j].cells
      PROVE  x.b # y.b
  <2>1. old[j] \in X /\ new[i] \in X
    BY <1>2
  <2>2. y.b <= old[j].hint /\ old[j].hint < x.b
    BY <1>1, <2>1 DEF UpdaterGood, Ahead, Good
  <2>3. y.b \in Nat /\ old[j].hint \in Nat /\ x.b \in Nat
    BY <1>1, <2>1 DEF Good, Builds
  <2> QED BY <2>2, <2>3
<1>4. new \o old \in Seq(X) /\ Distinct(new \o old)
  BY <1>2, <1>3, DistinctTogether
<1> QED BY <1>1, <1>4

(* The columns that a cycle is about to write are good and distinct. *)
LEMMA ColumnsGood ==
    ASSUME NEW u, NEW t \in Int, UpdaterGood(up[u], t)
    PROVE  Columns(u) \in Seq(Good(up[u].cfg, t)) /\ Distinct(Columns(u))
<1> DEFINE X == Good(up[u].cfg, t)
           s == IF up[u].cond = "none" THEN up[u].old ELSE groupColumns(up[u].new \o up[u].old)
           r == SortStarted(s)
<1>1. s \in Seq(X) /\ Distinct(s)
  <2>1. CASE up[u].cond = "none"
    BY <2>1 DEF UpdaterGood
  <2>2. CASE up[u].cond # "none"
    <3> DEFINE j == up[u].new \o up[u].old
    <3>1. j \in Seq(X) /\ Distinct(j)
      BY JoinedGood
    <3> HIDE DEF j
    <3>2. \A x, y \in X : Merge(x, y) \in X
      BY GoodMerge
    <3> HIDE DEF X
    <3>3. groupColumns(j) \in Seq(X) /\ GroupedFrom(groupColumns(j), j, Len(j))
      BY <3>1, <3>2, GroupIs
    <3>4. s = groupColumns(j)
      BY <2>2 DEF j
    <3> QED BY <3>1, <3>3, <3>4 DEF GroupedFrom
  <2> QED BY <2>1, <2>2
<1> HIDE DEF s
<1>2. \A x \in X : x.start \in Int
  BY DEF Good
<1> HIDE DEF X
<1>3. r \in Seq(X) /\ \E h : SortedFrom(r, s, Len(s), h)
  BY <1>1, <1>2, SortIs
<1>4. PICK h : SortedFrom(r, s, Len(s), h)
  BY <1>3
<1> HIDE DEF r
<1>5. Len(s) \in Nat /\ DOMAIN s = 1 .. Len(s) /\ DOMAIN r = 1 .. Len(r) /\ Len(r) = Len(s)
  BY <1>1, <1>3, <1>4 DEF SortedFrom
<1>6. /\ \A p \in DOMAIN r : h[p] \in DOMAIN s /\ r[p] = s[h[p]]
      /\ \A p, q \in DOMAIN r : p # q => h[p] # h[q]
  BY <1>4, <1>5 DEF SortedFrom
<1>7. Distinct(r)
  BY <1>1, <1>6, DistinctSelection
<1>8. Columns(u) = r
  BY DEF Columns, r, s
<1> QED BY <1>3, <1>7, <1>8 DEF X

(* Between cycles an updater holds nothing. *)
LEMMA IdleGood == ASSUME NEW t PROVE UpdaterGood(Idle, t)
BY DEF UpdaterGood, Idle, Ahead, Distinct

(* Fields that the invariant does not mention may change. *)
LEMMA SameGood ==
    ASSUME NEW v, NEW w, NEW t, UpdaterGood(v, t),
           /\ w.phase = v.phase /\ w.cfg = v.cfg /\ w.last = v.last /\ w.fails = v.fails
           /\ w.todo = v.todo /\ w.old = v.old /\ w.new = v.new
    PROVE  UpdaterGood(w, t)
BY DEF UpdaterGood, Ahead

(* A cycle begins with good columns. *)
LEMMA GoodBegins ==
    ASSUME GridInv, NEW u, NEW phase \in {"list", "write"}, NEW cond,
           NEW old \in Seq(Good(cfg, now)), Distinct(old)
    PROVE  UpdaterGood([Idle EXCEPT !.phase = phase, !.cond = cond, !.fresh = TRUE,
                                    !.old = old, !.stop = now - Window, !.cfg = cfg], now)
<1> DEFINE w == [Idle EXCEPT !.phase = phase, !.cond = cond, !.fresh = TRUE,
                                    !.old = old, !.stop = now - Window, !.cfg = cfg]
<1>1. /\ w.phase = phase /\ w.cfg = cfg /\ w.last = 0 /\ w.fails = 0 /\ w.todo = {}
      /\ w.old = old /\ w.new = <<>>
  BY DEF Idle
<1>2. cfg \in Nat /\ cfg # 0
  BY DEF GridInv, Basics
<1> HIDE DEF w
<1>3. Ahead(w) /\ Distinct(w.new)
  BY <1>1 DEF Ahead, Distinct
<1>4. UpdaterGood(w, now)
  BY <1>1, <1>2, <1>3 DEF UpdaterGood
<1> QED BY <1>4 DEF w

(* A step of one updater that leaves the rest alone. *)
LEMMA OneUpdaterStep ==
    ASSUME GridInv, NEW u \in Updaters, UpdaterGood(up'[u], now),
           \A v \in Updaters : v # u => up'[v] = up[v], fumbled' \subseteq Builds,
           UNCHANGED <<build, st, exists, grid, cfg, now>>
    PROVE  GridInv'
<1>1. \A v \in Updaters : UpdaterGood(up'[v], now)
  BY DEF GridInv
<1>2. Basics' /\ GridGood'
  BY DEF GridInv, Basics, GridGood
<1> QED BY <1>1, <1>2 DEF GridInv

(* Beginning a cycle disturbs no other updater. *)
LEMMA BegunGood ==
    ASSUME WriteInv, GridInv, NEW u \in Updaters, NEW phase \in {"list", "write"}, NEW cond,
           NEW old \in Seq(Good(cfg, now)), Distinct(old), Begun(u, phase, cond, old),
           UNCHANGED <<build, st, exists, grid, cfg, now, fumbled>>
    PROVE  GridInv'
<1> DEFINE w == [Idle EXCEPT !.phase = phase, !.cond = cond, !.fresh = TRUE,
                                    !.old = old, !.stop = now - Window, !.cfg = cfg]
<1>1. up'[u] = w /\ \A v \in Updaters : v # u => up'[v] = up[v]
  BY DEF Begun, WriteInv, Shape
<1>2. UpdaterGood(w, now)
  BY GoodBegins
<1>3. fumbled' \subseteq Builds
  BY DEF GridInv, Basics
<1> HIDE DEF w
<1> QED BY <1>1, <1>2, <1>3, OneUpdaterStep

(* Download keeps GridInv, and so does a download that fails. *)
LEMMA DownloadGood ==
    ASSUME WriteInv, GridInv, NEW u \in Updaters, Download(u) \/ DownloadFails(u) PROVE GridInv'
<1> DEFINE old == OldColumns(grid, cfg, now)
<1>1. now \in Int
  BY DEF GridInv, Basics
<1>2. old \in Seq(Good(cfg, now)) /\ Distinct(old)
  BY <1>1, OldColumnsGood DEF GridInv, GridGood
<1>3. <<>> \in Seq(Good(cfg, now)) /\ Distinct(<<>>)
  BY DEF Distinct
<1> HIDE DEF old
<1>4. /\ UNCHANGED <<build, st, exists, grid, cfg, now, fumbled>>
      /\ \/ Begun(u, "list", "absent", <<>>)
         \/ Begun(u, "write", "none", old)
         \/ Begun(u, "list", "match", old)
  BY DEF Download, DownloadFails, old
<1> QED BY <1>2, <1>3, <1>4, BegunGood

(* Listing keeps GridInv: only builds after the kept ones are listed. *)
LEMMA ListGood ==
    ASSUME WriteInv, GridInv, NEW u \in Updaters, listBuilds(u) PROVE GridInv'
<1>1. /\ \A v \in Updaters : v # u => up'[v] = up[v]
      /\ UNCHANGED <<build, st, exists, grid, cfg, now, fumbled>> /\ up[u].phase = "list"
  BY DEF listBuilds, WriteInv, Shape
<1>2. PICK v, w : v = up[u] /\ w = up'[u]
  OBVIOUS
<1>3. /\ w.phase = "read" /\ w.todo = Listed(u)
      /\ w.cfg = v.cfg /\ w.last = v.last /\ w.fails = v.fails /\ w.old = v.old /\ w.new = v.new
  BY <1>2 DEF listBuilds, WriteInv, Shape, Fields
<1>4. UpdaterGood(v, now) /\ fumbled' \subseteq Builds /\ v.phase = "list"
  BY <1>1, <1>2 DEF GridInv, Basics
<1>5. v.new = <<>> /\ v.cfg # 0 /\ v.old \in Seq(Good(v.cfg, now))
  BY <1>4 DEF UpdaterGood
<1>6. w.todo \in SUBSET Builds /\ \A b \in w.todo : \A j \in DOMAIN v.old : v.old[j].hint < b
  <2>1. PICK old : old = v.old
    OBVIOUS
  <2>2. old \in Seq(Good(v.cfg, now))
    BY <1>5, <2>1
  <2>3. Len(old) \in Nat /\ DOMAIN old = 1 .. Len(old) /\ \A j \in DOMAIN old : old[j].hint \in Builds
    BY <2>2 DEF Good
  <2>4. NumBuilds \in Nat
    BY BuildsAssumption
  <2>5. \A j \in DOMAIN old : old[j].hint \in 0 .. NumBuilds
    BY <2>3, <2>4 DEF Builds
  <2>6. Since(old) \in 0 .. NumBuilds /\ \A j \in DOMAIN old : old[j].hint <= Since(old)
    BY <2>3, <2>5, SinceIs
  <2>7. \A b \in w.todo : b \in Builds /\ b > Since(old)
    BY <1>2, <1>3, <2>1 DEF Listed
  <2> QED BY <2>1, <2>4, <2>5, <2>6, <2>7 DEF Builds
<1>7. UpdaterGood(w, now)
  BY <1>3, <1>4, <1>5, <1>6 DEF UpdaterGood, Ahead
<1> QED BY <1>1, <1>2, <1>4, <1>7, OneUpdaterStep

(* The column of a build that is read is good. *)
LEMMA ColumnGood ==
    ASSUME GridInv, NEW u \in Updaters, NEW b \in Builds, NEW res \in Outcomes
    PROVE  /\ Column(b, res, u) \in Good(up[u].cfg, now)
           /\ Column(b, res, u).start \in Nat
           /\ \E x : Column(b, res, u).cells = {x} /\ x.b = b
<1>1. PICK c, last, fails : c = up[u].cfg /\ last = up[u].last /\ fails = up[u].fails
  OBVIOUS
<1>2. /\ c \in Nat /\ last + fails + 1 \in Nat /\ st[b] * Milli \in Nat
      /\ b \in Nat /\ Key[b] \in Nat /\ 0 \in Nat
  <2>1. c \in Nat /\ last \in Nat /\ fails \in Nat
    BY <1>1 DEF GridInv, UpdaterGood
  <2>2. st[b] \in Nat
    BY DEF GridInv, Basics
  <2>3. b \in Nat /\ Key[b] \in Nat
    BY BuildsAssumption DEF Builds
  <2> QED BY <2>1, <2>2, <2>3 DEF Milli
<1>3. PICK x : x = [b |-> b, res |-> res, cfg |-> c]
  OBVIOUS
<1>4. x \in Cell /\ x.b = b /\ x.cfg = c
  BY <1>2, <1>3 DEF Cell
<1>5. PICK key, start : /\ key \in Nat /\ start \in Nat
                        /\ Column(b, res, u) = [key |-> key, start |-> start, hint |-> b, cells |-> {x}]
  BY <1>1, <1>2, <1>3 DEF Column, failedColumn, convertResult, CellsOf
<1>6. PICK col : col = [key |-> key, start |-> start, hint |-> b, cells |-> {x}]
  OBVIOUS
<1>7. col \in ColumnType /\ col.start \in Nat /\ col.hint = b /\ col.cells = {x}
  BY <1>2, <1>4, <1>5, <1>6 DEF ColumnType
<1>8. col \in Good(c, now)
  BY <1>2, <1>4, <1>7 DEF Good
<1> QED BY <1>1, <1>4, <1>5, <1>6, <1>7, <1>8

(* The oldest build that is left is newer than every build that was read   *)
(* or is kept, and older than the others that are left.                    *)
LEMMA ReceiveGood ==
    ASSUME WriteInv, GridInv, NEW u \in Updaters, up[u].phase = "read", up[u].todo # {},
           NEW col \in Good(up[u].cfg, now), NEW failed, receive(u, col, failed),
           NEW x, col.cells = {x}, x.b = Min(up[u].todo)
    PROVE  UpdaterGood(up'[u], now) /\ \A v \in Updaters : v # u => up'[v] = up[v]
<1>1. \A v \in Updaters : v # u => up'[v] = up[v]
  BY DEF receive, WriteInv, Shape
<1>2. PICK v, w, b : v = up[u] /\ w = up'[u] /\ b = Min(v.todo)
  OBVIOUS
<1>3. /\ w.phase = v.phase /\ w.cfg = v.cfg /\ w.old = v.old
      /\ w.todo = v.todo \ {b} /\ w.new = Append(v.new, col)
      /\ w.fails = (IF failed THEN v.fails + 1 ELSE 0)
      /\ w.last = (IF failed THEN v.last ELSE col.start)
  BY <1>2 DEF receive, WriteInv, Shape, Fields
<1>4. UpdaterGood(v, now) /\ v.phase = "read" /\ v.todo # {} /\ x.b = b
  BY <1>2 DEF GridInv
<1>5. PICK new, old, todo, X :
        new = v.new /\ old = v.old /\ todo = v.todo /\ X = Good(v.cfg, now)
  OBVIOUS
<1>6. /\ v.cfg \in Nat /\ v.cfg # 0 /\ todo \in SUBSET Builds
      /\ new \in Seq(X) /\ Distinct(new) /\ old \in Seq(X) /\ Distinct(old) /\ col \in X
      /\ v.last \in Nat /\ v.fails \in Nat
  BY <1>2, <1>4, <1>5 DEF UpdaterGood
<1>7. b \in todo /\ \A y \in todo : b <= y
  <2>1. todo \in SUBSET Int /\ 1 \in Int /\ \A y \in todo : y >= 1
    BY <1>6 DEF Builds
  <2> QED BY <1>2, <1>4, <1>5, <2>1, MinOf
<1>8. /\ \A i \in DOMAIN new : \A z \in new[i].cells :
           /\ \A j \in DOMAIN old : old[j].hint < z.b
           /\ \A y \in todo : z.b < y
      /\ \A y \in todo : \A j \in DOMAIN old : old[j].hint < y
  BY <1>4, <1>5 DEF UpdaterGood, Ahead
<1>9. b \in Nat /\ \A y \in todo : y \in Nat
  BY <1>6, <1>7 DEF Builds
<1>10. \A i \in DOMAIN new : \A z \in new[i].cells : z.b \in Nat
  BY <1>5, <1>6 DEF Good, Builds
<1>11. PICK r : r = Append(new, col)
  OBVIOUS
<1>12. /\ r \in Seq(X) /\ DOMAIN new = 1 .. Len(new) /\ Len(new) \in Nat /\ DOMAIN r = 1 .. Len(new) + 1
       /\ r[Len(new) + 1] = col /\ \A i \in DOMAIN new : r[i] = new[i]
  BY <1>6, <1>11
<1>13. \A i \in DOMAIN r : i \in DOMAIN new \/ i = Len(new) + 1
  BY <1>12
<1>14. Distinct(r)
  <2> SUFFICES ASSUME NEW i \in DOMAIN r, NEW j \in DOMAIN r,
                      NEW y \in r[i].cells, NEW z \in r[j].cells, y.b = z.b
               PROVE  i = j /\ y = z
    BY DEF Distinct
  <2>1. \A k \in DOMAIN new : \A a \in new[k].cells : a.b < b /\ a.b # b
    BY <1>7, <1>8, <1>9, <1>10
  <2>2. CASE i \in DOMAIN new /\ j \in DOMAIN new
    BY <1>6, <1>12, <2>2 DEF Distinct
  <2>3. CASE i \in DOMAIN new /\ j = Len(new) + 1
    BY <1>4, <1>12, <2>1, <2>3
  <2>4. CASE i = Len(new) + 1 /\ j \in DOMAIN new
    BY <1>4, <1>12, <2>1, <2>4
  <2>5. CASE i = Len(new) + 1 /\ j = Len(new) + 1
    BY <1>12, <2>5
  <2> QED BY <1>13, <2>2, <2>3, <2>4, <2>5
<1>15. /\ \A i \in DOMAIN r : \A z \in r[i].cells :
            /\ \A j \in DOMAIN old : old[j].hint < z.b
            /\ \A y \in todo \ {b} : z.b < y
       /\ \A y \in todo \ {b} : \A j \in DOMAIN old : old[j].hint < y
  <2> SUFFICES ASSUME NEW i \in DOMAIN r, NEW z \in r[i].cells
               PROVE  /\ \A j \in DOMAIN old : old[j].hint < z.b
                      /\ \A y \in todo \ {b} : z.b < y
    BY <1>8
  <2>1. CASE i \in DOMAIN new
    BY <1>8, <1>12, <2>1
  <2>2. CASE i = Len(new) + 1
    <3>1. z.b = b
      BY <1>4, <1>12, <2>2
    <3>2. \A y \in todo \ {b} : b < y
      BY <1>7, <1>9
    <3> QED BY <1>7, <1>8, <3>1, <3>2
  <2> QED BY <1>13, <2>1, <2>2
<1>16. Ahead(w)
  BY <1>3, <1>5, <1>11, <1>15 DEF Ahead
<1>17. w.last \in Nat /\ w.fails \in Nat
  <2>1. col.start \in Nat
    BY <1>5, <1>6 DEF Good
  <2> QED BY <1>3, <1>6, <2>1
<1>18. UpdaterGood(w, now)
  BY <1>3, <1>4, <1>5, <1>6, <1>11, <1>12, <1>14, <1>16, <1>17 DEF UpdaterGood
<1> QED BY <1>1, <1>2, <1>18

(* Reading a build keeps GridInv: the new column is that of a listed       *)
(* build.                                                                  *)
LEMMA ReadGood ==
    ASSUME WriteInv, GridInv, NEW u \in Updaters, readColumn(u) PROVE GridInv'
<1>1. PICK b \in {Min(up[u].todo)} : \E res \in {readResult(b, up[u].stop)} \cup (Faults \cap {"error"}) :
           /\ receive(u, Column(b, res, u), res \in Failed)
           /\ fumbled' = IF res \in {"nostart", "error"} THEN fumbled \cup {b} ELSE fumbled
  BY Zenon DEF readColumn
<1>2. PICK res \in {readResult(b, up[u].stop)} \cup (Faults \cap {"error"}) :
           /\ receive(u, Column(b, res, u), res \in Failed)
           /\ fumbled' = IF res \in {"nostart", "error"} THEN fumbled \cup {b} ELSE fumbled
  BY <1>1
<1>3. /\ up[u].phase = "read" /\ up[u].todo # {}
      /\ UNCHANGED <<build, st, exists, grid, cfg, now>>
  BY DEF readColumn
<1>4. b \in Builds
  <2>1. up[u].todo \in SUBSET Builds
    BY DEF GridInv, UpdaterGood
  <2>2. up[u].todo \in SUBSET Int /\ 1 \in Int /\ \A y \in up[u].todo : y >= 1
    BY <2>1 DEF Builds
  <2>3. Min(up[u].todo) \in up[u].todo
    BY <1>3, <2>2, MinOf
  <2> QED BY <2>1, <2>3
<1>5. res \in Outcomes
  BY DEF readResult, overallCell, Outcomes
<1>6. /\ Column(b, res, u) \in Good(up[u].cfg, now)
      /\ \E x : Column(b, res, u).cells = {x} /\ x.b = Min(up[u].todo)
  BY <1>4, <1>5, ColumnGood
<1>7. PICK col, failed : col = Column(b, res, u) /\ receive(u, col, failed)
  BY <1>2
<1>8. UpdaterGood(up'[u], now) /\ \A v \in Updaters : v # u => up'[v] = up[v]
  BY <1>3, <1>6, <1>7, ReceiveGood
<1>9. fumbled' \subseteq Builds
  BY <1>2, <1>4 DEF GridInv, Basics
<1> QED BY <1>3, <1>8, <1>9, OneUpdaterStep

(* The end of reading keeps GridInv. *)
LEMMA EndReadGood ==
    ASSUME WriteInv, GridInv, NEW u \in Updaters, endRead(u) PROVE GridInv'
<1>1. /\ \A v \in Updaters : v # u => up'[v] = up[v] /\ up[u].phase = "read"
      /\ UNCHANGED <<build, st, exists, grid, cfg, now, fumbled>>
  BY DEF endRead, WriteInv, Shape
<1>2. PICK v, w : v = up[u] /\ w = up'[u]
  OBVIOUS
<1>3. /\ w.phase = "write" /\ w.todo = {} /\ v.phase = "read"
      /\ w.cfg = v.cfg /\ w.last = v.last /\ w.fails = v.fails /\ w.old = v.old /\ w.new = v.new
  BY <1>2 DEF endRead, WriteInv, Shape, Fields
<1>4. UpdaterGood(v, now) /\ fumbled' \subseteq Builds
  BY <1>1, <1>2 DEF GridInv, Basics
<1>5. UpdaterGood(w, now)
  BY <1>3, <1>4 DEF UpdaterGood, Ahead
<1> QED BY <1>1, <1>2, <1>4, <1>5, OneUpdaterStep

(* Losing the generation, or giving up, leaves good states. *)
LEMMA UploadGood ==
    ASSUME WriteInv, GridInv, NEW u \in Updaters, Upload(u) PROVE GridInv'
<1>1. /\ UNCHANGED <<build, st, cfg, now, fumbled>> /\ up[u].phase = "write"
      /\ now \in Int /\ UpdaterGood(up[u], now)
  BY DEF Upload, GridInv, Basics
<1>2. CASE PreconditionHolds(u)
  <2>1. PICK cols \in shrinkGridInline(truncateGrid(Columns(u))) :
          grid' = [cols |-> cols, cfg |-> up[u].cfg]
    BY <1>2, Zenon DEF Upload
  <2>2. exists' = TRUE /\ up' = Overwritten(u)
    BY <1>2 DEF Upload
  <2>3. Columns(u) \in Seq(Good(up[u].cfg, now)) /\ Distinct(Columns(u))
    BY <1>1, ColumnsGood
  <2>4. cols \in Seq(Good(up[u].cfg, now)) /\ Distinct(cols)
    BY <1>1, <2>3, ShrinkGood
  <2>5. up[u].cfg \in Nat /\ up[u].cfg # 0
    BY <1>1 DEF UpdaterGood
  <2>6. GridGood'
    BY <1>1, <2>1, <2>4, <2>5 DEF GridGood
  <2>7. ASSUME NEW v \in Updaters PROVE UpdaterGood(up'[v], now)
    <3>1. CASE v = u
      BY <2>2, <3>1, IdleGood DEF Overwritten
    <3>2. CASE v # u
      <4>1. up'[v] = [up[v] EXCEPT !.fresh = FALSE]
        BY <2>2, <3>2 DEF Overwritten
      <4>2. UpdaterGood(up[v], now)
        BY DEF GridInv
      <4>3. PICK a, z : a = up[v] /\ z = up'[v]
        OBVIOUS
      <4>4. /\ z.phase = a.phase /\ z.cfg = a.cfg /\ z.last = a.last /\ z.fails = a.fails
            /\ z.todo = a.todo /\ z.old = a.old /\ z.new = a.new
        BY <4>1, <4>3 DEF WriteInv, Shape, Fields
      <4> QED BY <4>2, <4>3, <4>4, SameGood
    <3> QED BY <3>1, <3>2
  <2>8. Basics'
    BY <1>1, <2>2 DEF GridInv, Basics
  <2> QED BY <1>1, <2>6, <2>7, <2>8 DEF GridInv
<1>3. CASE ~PreconditionHolds(u)
  <2>1. up' = [up EXCEPT ![u] = Idle] /\ UNCHANGED <<exists, grid>>
    BY <1>3 DEF Upload
  <2>2. UpdaterGood(up'[u], now) /\ \A v \in Updaters : v # u => up'[v] = up[v]
    BY <2>1, IdleGood DEF WriteInv, Shape
  <2>3. fumbled' \subseteq Builds
    BY <1>1 DEF GridInv, Basics
  <2> QED BY <1>1, <2>1, <2>2, <2>3, OneUpdaterStep
<1> QED BY <1>2, <1>3

(* The creation of an empty grid keeps GridInv. *)
LEMMA LockGood ==
    ASSUME WriteInv, GridInv, NEW u \in Updaters, lockGroup(u) PROVE GridInv'
<1>1. /\ UNCHANGED <<build, st, cfg, now, fumbled>> /\ exists' = TRUE
      /\ grid' = [cols |-> <<>>, cfg |-> 0]
  BY DEF lockGroup
<1>2. Basics' /\ GridGood'
  BY <1>1 DEF GridInv, Basics, GridGood, Distinct
<1>3. ASSUME NEW v \in Updaters PROVE UpdaterGood(up'[v], now)
  <2>1. up'[v] = [up[v] EXCEPT !.fresh = FALSE]
    BY DEF lockGroup
  <2>2. UpdaterGood(up[v], now)
    BY DEF GridInv
  <2>3. PICK a, z : a = up[v] /\ z = up'[v]
    OBVIOUS
  <2>4. /\ z.phase = a.phase /\ z.cfg = a.cfg /\ z.last = a.last /\ z.fails = a.fails
        /\ z.todo = a.todo /\ z.old = a.old /\ z.new = a.new
    BY <2>1, <2>3 DEF WriteInv, Shape, Fields
  <2> QED BY <2>2, <2>3, <2>4, SameGood
<1> QED BY <1>1, <1>2, <1>3 DEF GridInv

(* Time keeps GridInv: what is too recent for the old configuration only   *)
(* gets older.                                                             *)
LEMMA TickGood == ASSUME GridInv, Tick PROVE GridInv'
<1>1. now \in Int /\ now' = now + 1 /\ UNCHANGED <<build, st, exists, grid, up, cfg, fumbled>>
  BY DEF Tick, GridInv, Basics
<1>2. Basics'
  BY <1>1 DEF GridInv, Basics
<1>3. grid.cols \in Seq(Good(grid.cfg, now + 1))
  BY <1>1, GoodLater DEF GridInv, GridGood
<1>4. GridGood'
  BY <1>1, <1>3 DEF GridInv, GridGood
<1>5. ASSUME NEW u \in Updaters PROVE UpdaterGood(up[u], now + 1)
  <2>1. UpdaterGood(up[u], now)
    BY DEF GridInv
  <2>2. PICK old, new, c : old = up[u].old /\ new = up[u].new /\ c = up[u].cfg
    OBVIOUS
  <2>3. old \in Seq(Good(c, now)) /\ new \in Seq(Good(c, now))
    BY <2>1, <2>2 DEF UpdaterGood
  <2>4. old \in Seq(Good(c, now + 1)) /\ new \in Seq(Good(c, now + 1))
    BY <1>1, <2>3, GoodLater
  <2> QED BY <2>1, <2>2, <2>4 DEF UpdaterGood
<1> QED BY <1>1, <1>2, <1>4, <1>5 DEF GridInv

(* Every step keeps GridInv. *)
LEMMA GridStep == WriteInv /\ GridInv /\ [Next]_vars => GridInv'
<1> SUFFICES ASSUME WriteInv, GridInv, [Next]_vars PROVE GridInv'
  OBVIOUS
<1>1. ASSUME NEW u \in Updaters, Abort(u) PROVE GridInv'
  <2>1. /\ up' = [up EXCEPT ![u] = Idle]
        /\ UNCHANGED <<build, st, exists, grid, cfg, now, fumbled>>
    BY <1>1 DEF Abort
  <2>2. UpdaterGood(up'[u], now) /\ \A v \in Updaters : v # u => up'[v] = up[v]
    BY <2>1, IdleGood DEF WriteInv, Shape
  <2>3. fumbled' \subseteq Builds
    BY <2>1 DEF GridInv, Basics
  <2> QED BY <2>1, <2>2, <2>3, OneUpdaterStep
<1>2. ASSUME NEW u \in Updaters, Cycle(u) PROVE GridInv'
  BY <1>1, <1>2, DownloadGood, ListGood, ReadGood, EndReadGood, UploadGood, LockGood DEF Cycle
<1>3. ASSUME UNCHANGED <<grid, up, now>>, Basics' PROVE GridInv'
  BY <1>3 DEF GridInv, GridGood
<1>4. ASSUME NEW b \in Builds, Job(b) PROVE GridInv'
  <2>1. UNCHANGED <<grid, up, now>>
    BY <1>4 DEF Job, CreateBuild, StartBuild, FinishBuild
  <2>2. Basics'
    BY <1>4 DEF Job, CreateBuild, StartBuild, FinishBuild, GridInv, Basics
  <2> QED BY <1>3, <2>1, <2>2
<1>5. ASSUME ChangeConfig \/ UNCHANGED vars PROVE GridInv'
  <2>1. UNCHANGED <<grid, up, now>> /\ Basics'
    BY <1>5 DEF ChangeConfig, vars, GridInv, Basics
  <2> QED BY <1>3, <2>1
<1> QED BY <1>2, <1>4, <1>5, TickGood, Zenon DEF Next

(* GridInv holds throughout. *)
LEMMA GridInvariant == Spec => [](WriteInv /\ GridInv)
<1>1. GroupInit => WriteInv
  BY IdleShape DEF GroupInit, WriteInv, Shape, Unwritten
<1>2. GroupInit => GridInv
  <2> SUFFICES ASSUME GroupInit PROVE GridInv
    OBVIOUS
  <2>1. Window \in Nat
    BY BoundsAssumption
  <2>2. Basics
    BY <2>1 DEF GroupInit, Basics
  <2>3. GridGood
    BY DEF GroupInit, GridGood, Distinct
  <2>4. \A u \in Updaters : UpdaterGood(up[u], now)
    BY IdleGood DEF GroupInit
  <2> QED BY <2>2, <2>3, <2>4 DEF GridInv
<1> QED BY <1>1, <1>2, WriteStep, GridStep, PTL DEF Spec

(* The grid and the updaters always have the types of their fields: the    *)
(* column that OldColumns adds to find the columns to read again never     *)
(* stays among them.                                                       *)
THEOREM GroupTypes == Spec => []TypeOK
<1>1. WriteInv /\ GridInv => TypeOK
  <2> SUFFICES ASSUME WriteInv, GridInv PROVE TypeOK
    OBVIOUS
  <2>1. PICK cols, X : cols = grid.cols /\ X = Good(grid.cfg, now)
    OBVIOUS
  <2>2. \A i \in DOMAIN cols : cols[i] \in X
    BY <2>1 DEF GridInv, GridGood
  <2>3. \A i \in DOMAIN cols : /\ cols[i].start \in Nat /\ cols[i].hint \in Builds
                               /\ \A c \in cols[i].cells : c.b \in Builds
    BY <2>1, <2>2 DEF Good
  <2>4. \A u \in Updaters : up[u].phase \in {"idle", "list", "read", "write"}
    BY DEF GridInv, UpdaterGood
  <2> QED BY <2>1, <2>3, <2>4 DEF TypeOK, GridInv, Basics, WriteInv, Shape
<1> QED BY <1>1, GridInvariant, PTL

(* Whatever the updaters, the faults and the order of configuration        *)
(* changes and cycles: a grid that claims a configuration shows no result  *)
(* younger than the lookback that was read under another one (the          *)
(* reprocess column of InflateDropAppend).                                 *)
THEOREM ConfigIsApplied == Spec => []ConfigApplied
<1>1. GridInv => ConfigApplied
  <2> SUFFICES ASSUME GridInv PROVE ConfigApplied
    OBVIOUS
  <2>1. PICK cols, X : cols = grid.cols /\ X = Good(grid.cfg, now)
    OBVIOUS
  <2>2. \A i \in DOMAIN cols : cols[i] \in X
    BY <2>1 DEF GridInv, GridGood
  <2>3. \A i \in DOMAIN cols : When(cols[i]) >= now - Lookback =>
          \A c \in cols[i].cells : c.cfg = grid.cfg
    BY <2>1, <2>2 DEF Good
  <2> QED BY <2>1, <2>3 DEF ConfigApplied
<1> QED BY <1>1, GridInvariant, PTL

(* No build is counted twice, for any number of builds and updaters, any   *)
(* overrides of columns and any faults: what a cycle keeps has builds up   *)
(* to the newest hint, and what it reads starts after it (hintStarted).    *)
THEOREM BuildsShowOnce == Spec => []NoDuplicates
<1>1. GridInv => NoDuplicates
  BY DEF GridInv, GridGood, Distinct, NoDuplicates
<1> QED BY <1>1, GridInvariant, PTL
-----------------------------------------------------------------------------
(* Columns of one cell each are counted by their number. *)
LEMMA CountIs ==
    ASSUME NEW s, Len(s) \in Nat, \A i \in 1 .. Len(s) : \E x : s[i].cells = {x}
    PROVE  CellCount(s) = Len(s)
<1> DEFINE Q == [n \in 0 .. Len(s) |-> {n}]
<1>1. 0 \in Q[0]
  OBVIOUS
<1>2. ASSUME NEW n \in 1 .. Len(s), NEW t \in Q[n - 1] PROVE AddCells(t, s[n]) \in Q[n]
  <2>1. t = n - 1
    OBVIOUS
  <2>2. Cardinality(s[n].cells) = 1
    BY FS_Singleton
  <2> QED BY <2>1, <2>2 DEF AddCells
<1>3. Counts!Fold(0, s) \in Q[Len(s)]
  <2> HIDE DEF Q
  <2> QED BY <1>1, <1>2, Counts!FoldReaches
<1>4. CellCount(s) = Counts!Fold(0, s)
  BY DEF CellCount, Counting!Fold, Counts!Fold
<1> QED BY <1>3, <1>4

(* Columns with different keys are not merged. *)
LEMMA GroupSame ==
    ASSUME NEW X, NEW s \in Seq(X), \A i, j \in DOMAIN s : i # j => s[i].key # s[j].key
    PROVE  groupColumns(s) = s
<1> DEFINE Q == [n \in 0 .. Len(s) |-> {SubSeq(s, 1, n)}]
<1>1. Len(s) \in Nat /\ DOMAIN s = 1 .. Len(s)
  OBVIOUS
<1>2. <<>> \in Q[0]
  OBVIOUS
<1>3. ASSUME NEW n \in 1 .. Len(s), NEW t \in Q[n - 1] PROVE Group(t, s[n]) \in Q[n]
  <2>1. n - 1 \in 0 .. Len(s) /\ n \in 0 .. Len(s)
    BY <1>1
  <2>2. t = SubSeq(s, 1, n - 1)
    BY <2>1
  <2>3. /\ t \in Seq(X) /\ Len(t) = n - 1 /\ DOMAIN t = 1 .. n - 1
        /\ \A i \in 1 .. n - 1 : t[i] = s[i] /\ i \in DOMAIN s /\ i # n
    BY <1>1, <2>2
  <2>4. { i \in DOMAIN t : t[i].key = s[n].key } = {}
    BY <1>1, <2>3
  <2>5. Group(t, s[n]) = Append(t, s[n])
    BY <2>4 DEF Group
  <2>6. Append(t, s[n]) = SubSeq(s, 1, n)
    <3>1. PICK a, b : a = Append(t, s[n]) /\ b = SubSeq(s, 1, n)
      OBVIOUS
    <3>2. s[n] \in X
      BY <1>1
    <3>3. a \in Seq(X) /\ Len(a) = n /\ a[n] = s[n] /\ \A i \in 1 .. n - 1 : a[i] = s[i]
      BY <2>3, <3>1, <3>2
    <3>4. b \in Seq(X) /\ Len(b) = n /\ \A i \in 1 .. n : b[i] = s[i]
      BY <1>1, <3>1
    <3>5. \A i \in 1 .. n : a[i] = b[i]
      BY <3>3, <3>4
    <3>6. a = b
      BY <3>3, <3>4, <3>5
    <3> QED BY <3>1, <3>6
  <2> QED BY <2>1, <2>5, <2>6
<1>4. Groups!Fold(<<>>, s) \in Q[Len(s)]
  <2> HIDE DEF Q
  <2> QED BY <1>1, <1>2, <1>3, Groups!FoldReaches
<1>5. groupColumns(s) = Groups!Fold(<<>>, s)
  BY DEF groupColumns, Grouping!Fold, Groups!Fold
<1>6. SubSeq(s, 1, Len(s)) = s
  OBVIOUS
<1>7. Len(s) \in 0 .. Len(s)
  BY <1>1
<1> QED BY <1>4, <1>5, <1>6, <1>7

(* There are no more columns than builds. *)
LEMMA FewColumns ==
    ASSUME NEW s, Len(s) \in Nat, DOMAIN s = 1 .. Len(s),
           \A i \in DOMAIN s : s[i].hint \in Builds,
           \A i, j \in DOMAIN s : i # j => s[i].hint # s[j].hint
    PROVE  Len(s) <= NumBuilds
<1>1. NumBuilds \in Nat
  BY BuildsAssumption
<1>2. SUFFICES ASSUME Len(s) > NumBuilds PROVE FALSE
  BY <1>1
<1> DEFINE S == 1 .. Len(s)
           f == [i \in S |-> s[i].hint]
<1>3. IsFiniteSet(S) /\ Cardinality(S) = Len(s)
  <2>1. /\ IsFiniteSet(1 .. Len(s))
        /\ Cardinality(1 .. Len(s)) = IF 1 > Len(s) THEN 0 ELSE (Len(s) - 1) + 1
    BY FS_Interval
  <2> QED BY <1>1, <1>2, <2>1
<1>4. IsFiniteSet(Builds) /\ Cardinality(Builds) = NumBuilds
  <2>1. /\ IsFiniteSet(1 .. NumBuilds)
        /\ Cardinality(1 .. NumBuilds) = IF 1 > NumBuilds THEN 0 ELSE (NumBuilds - 1) + 1
    BY <1>1, FS_Interval
  <2> QED BY <1>1, <2>1 DEF Builds
<1>5. f \in [S -> Builds]
  OBVIOUS
<1>6. \E x, y \in S : x # y /\ f[x] = f[y]
  <2> HIDE DEF S, f
  <2> QED BY <1>2, <1>3, <1>4, <1>5, FS_PigeonHole
<1> QED BY <1>6

(* A grid below the ceiling is not truncated. *)
LEMMA SmallKept ==
    ASSUME NEW X, NEW s \in Seq(X), Len(s) <= NumBuilds, NumBuilds < Ceiling,
           \A i \in DOMAIN s : \E x : s[i].cells = {x}
    PROVE  shrinkGridInline(truncateGrid(s)) = {s}
<1>1. Len(s) \in Nat /\ DOMAIN s = 1 .. Len(s) /\ NumBuilds \in Nat /\ Ceiling \in Nat
  BY BuildsAssumption, BoundsAssumption
<1>2. ASSUME NEW i \in 3 .. Len(s) PROVE ~(CellCount(SubSeq(s, 1, i)) > Ceiling)
  <2>1. PICK t : t = SubSeq(s, 1, i)
    OBVIOUS
  <2>2. Len(t) = i /\ i \in Nat /\ \A j \in 1 .. i : t[j] = s[j] /\ j \in DOMAIN s
    BY <1>1, <2>1
  <2>3. CellCount(t) = Len(t)
    BY <2>2, CountIs
  <2> QED BY <1>1, <2>1, <2>2, <2>3
<1>3. truncateGrid(s) = s
  BY <1>2 DEF truncateGrid
<1>4. Len(s) < Ceiling
  BY <1>1
<1> QED BY <1>3, <1>4, Zenon DEF shrinkGridInline

(* What the columns are held against: the jobs, the clock and the builds   *)
(* with made-up starts.                                                    *)
World == [build |-> build, st |-> st, now |-> now, fumbled |-> fumbled]

IsWorld(W) ==
    /\ W.build \in [Builds -> {"absent", "pending", "running", "finished"}]
    /\ W.st \in [Builds -> Nat] /\ W.now \in Nat /\ W.fumbled \subseteq Builds

HasStarted(W, b) == W.build[b] \in {"running", "finished"}

Expired(W, b) == HasStarted(W, b) /\ W.st[b] < W.now - Window

OvertakenBy(W, b, c) == b < c /\ HasStarted(W, c) /\ W.st[c] <= W.st[b]

(* The exceptions of NoHoles that stay once they hold. *)
Excused(W, b) == \/ Expired(W, b)
                 \/ \E c \in Builds : OvertakenBy(W, b, c)
                 \/ \E c \in W.fumbled : c >= b

(* A column shows one cell, of the build that is its hint and key, and it  *)
(* starts when the build did unless it was fumbled or is too old.          *)
Shows(W, col, x) ==
    /\ x.b \in Builds /\ col.cells = {x} /\ col.hint = x.b /\ col.key = x.b
    /\ W.build[x.b] # "absent" /\ x.res \in Outcomes \ {"unknown"}
    /\ x.res \in {"nostart", "error"} => x.b \in W.fumbled
    /\ x.res = "ancient" => Expired(W, x.b)
    /\ x.res \in {"done", "timeout", "running"} =>
         HasStarted(W, x.b) /\ col.start = W.st[x.b] * Milli
Faithful(W, cols) == \A i \in DOMAIN cols : \E x : Shows(W, cols[i], x)

(* No build at or below a hint is missing, unless it is excused. *)
Complete(W, cols) == \A i \in DOMAIN cols : \A b \in Builds :
    b <= cols[i].hint => (\E j \in DOMAIN cols : cols[j].hint = b) \/ Excused(W, b)

(* A cycle reads the builds after those it keeps without leaving one out.  *)
Gapless(v) == \A b \in Builds \ v.todo :
    /\ \A j \in DOMAIN v.old : v.old[j].hint < b
    /\ (\E y \in v.todo : b < y) \/ (\E i \in DOMAIN v.new : b <= v.new[i].hint)
    => \E i \in DOMAIN v.new : v.new[i].hint = b

UpdaterComplete(W, v) ==
    /\ Faithful(W, v.old) /\ Faithful(W, v.new) /\ Complete(W, v.old) /\ Gapless(v)
    /\ \A b \in v.todo : W.build[b] # "absent"
    /\ v.phase # "idle" => v.stop \in Int /\ v.stop <= W.now - Window

InOrder(W) == /\ \A a, b \in Builds : a < b /\ W.build[b] # "absent" => W.build[a] # "absent"
              /\ \A b \in Builds : HasStarted(W, b) => W.st[b] <= W.now

HoleInv == /\ InOrder(World) /\ Faithful(World, grid.cols) /\ Complete(World, grid.cols)
           /\ \A u \in Updaters : UpdaterComplete(World, up[u])

(* Jobs only make progress, and so do the clock and the list of fumbles.   *)
Later(V, W) ==
    /\ \A b \in Builds : V.build[b] # "absent" => W.build[b] # "absent"
    /\ \A b \in Builds : HasStarted(V, b) => HasStarted(W, b) /\ W.st[b] = V.st[b]
    /\ \A b \in Builds : W.st[b] = V.st[b] \/ W.st[b] = V.now
    /\ V.now <= W.now /\ V.fumbled \subseteq W.fumbled

(* A build that is too old stays too old. *)
LEMMA ExpiredLater ==
    ASSUME NEW V, NEW W, IsWorld(V), IsWorld(W), Later(V, W), NEW b \in Builds, Expired(V, b)
    PROVE  Expired(W, b)
<1>1. V.now \in Nat /\ W.now \in Nat /\ V.now <= W.now /\ V.st[b] \in Nat /\ Window \in Nat
  BY BoundsAssumption DEF IsWorld, Later
<1>2. HasStarted(W, b) /\ W.st[b] = V.st[b] /\ V.st[b] < V.now - Window
  BY DEF Expired, Later
<1> QED BY <1>1, <1>2 DEF Expired

(* An exception of NoHoles stays one: no older build can start later on. *)
LEMMA ExcusedLater ==
    ASSUME NEW V, NEW W, IsWorld(V), IsWorld(W), Later(V, W), InOrder(V), NEW b \in Builds,
           Excused(V, b)
    PROVE  Excused(W, b)
<1>1. CASE Expired(V, b)
  BY <1>1, ExpiredLater DEF Excused
<1>2. ASSUME NEW c \in Builds, OvertakenBy(V, b, c) PROVE OvertakenBy(W, b, c)
  <2>1. /\ b < c /\ HasStarted(W, c) /\ W.st[c] = V.st[c] /\ V.st[c] <= V.st[b] /\ V.st[c] <= V.now
        /\ (W.st[b] = V.st[b] \/ W.st[b] = V.now)
    BY <1>2 DEF OvertakenBy, Later, InOrder
  <2> QED BY <2>1 DEF OvertakenBy
<1>3. CASE \E c \in V.fumbled : c >= b
  BY <1>3 DEF Excused, Later
<1> QED BY <1>1, <1>2, <1>3 DEF Excused

(* What a column says of its build stays true. *)
LEMMA ShowsLater ==
    ASSUME NEW V, NEW W, IsWorld(V), IsWorld(W), Later(V, W), NEW col, NEW x, Shows(V, col, x)
    PROVE  Shows(W, col, x)
<1>1. x.b \in Builds
  BY DEF Shows
<1>2. x.res = "ancient" => Expired(W, x.b)
  BY <1>1, ExpiredLater DEF Shows
<1> QED BY <1>1, <1>2 DEF Shows, Later

(* Jobs and clock take nothing from columns that are complete. *)
LEMMA ColumnsLater ==
    ASSUME NEW V, NEW W, IsWorld(V), IsWorld(W), Later(V, W), InOrder(V), NEW cols
    PROVE  /\ Faithful(V, cols) => Faithful(W, cols)
           /\ Complete(V, cols) => Complete(W, cols)
<1>1. ASSUME Faithful(V, cols) PROVE Faithful(W, cols)
  BY <1>1, ShowsLater DEF Faithful
<1>2. ASSUME Complete(V, cols) PROVE Complete(W, cols)
  BY <1>2, ExcusedLater DEF Complete
<1> QED BY <1>1, <1>2

(* The same for the columns of an updater. *)
LEMMA UpdaterLater ==
    ASSUME NEW V, NEW W, IsWorld(V), IsWorld(W), Later(V, W), InOrder(V), NEW v,
           v.todo \subseteq Builds, UpdaterComplete(V, v)
    PROVE  UpdaterComplete(W, v)
<1>1. Faithful(W, v.old) /\ Faithful(W, v.new) /\ Complete(W, v.old)
  BY ColumnsLater DEF UpdaterComplete
<1>2. \A b \in v.todo : W.build[b] # "absent"
  BY DEF UpdaterComplete, Later
<1>3. V.now \in Nat /\ W.now \in Nat /\ V.now <= W.now /\ Window \in Nat
  BY BoundsAssumption DEF IsWorld, Later
<1>4. v.phase # "idle" => v.stop \in Int /\ v.stop <= W.now - Window
  BY <1>3 DEF UpdaterComplete
<1> QED BY <1>1, <1>2, <1>4 DEF UpdaterComplete

(* Different columns have different builds. *)
Separate(s) ==
    /\ \A i \in DOMAIN s : s[i].hint \in Builds /\ \E x : s[i].cells = {x}
    /\ \A i, j \in DOMAIN s : i # j => s[i].key # s[j].key /\ s[i].hint # s[j].hint

(* Distinct columns that show one build each have different hints and      *)
(* keys.                                                                   *)
LEMMA FaithfulDistinct ==
    ASSUME NEW W, NEW s, Faithful(W, s), Distinct(s)
    PROVE  Separate(s)
<1>1. \A i \in DOMAIN s : s[i].hint \in Builds /\ \E x : s[i].cells = {x}
  BY DEF Faithful, Shows
<1>2. ASSUME NEW i \in DOMAIN s, NEW j \in DOMAIN s, i # j
      PROVE  s[i].key # s[j].key /\ s[i].hint # s[j].hint
  <2>1. PICK x : Shows(W, s[i], x)
    BY DEF Faithful
  <2>2. PICK y : Shows(W, s[j], y)
    BY DEF Faithful
  <2>3. x \in s[i].cells /\ y \in s[j].cells
    BY <2>1, <2>2 DEF Shows
  <2>4. x.b # y.b
    BY <1>2, <2>3 DEF Distinct
  <2> QED BY <2>1, <2>2, <2>4 DEF Shows
<1> QED BY <1>1, <1>2 DEF Separate

(* Reordering columns changes nothing. *)
Reordered(r, s, h) ==
    /\ \A p \in DOMAIN r : h[p] \in DOMAIN s /\ r[p] = s[h[p]]
    /\ \A i \in DOMAIN s : \E p \in DOMAIN r : h[p] = i

(* The order of the columns does not matter to completeness. *)
LEMMA CompleteReordered ==
    ASSUME NEW W, NEW s, NEW r, NEW h, Faithful(W, s), Complete(W, s), Reordered(r, s, h)
    PROVE  Faithful(W, r) /\ Complete(W, r)
<1> USE DEF Reordered
<1>1. Faithful(W, r)
  BY DEF Faithful
<1>2. Complete(W, r)
  <2> SUFFICES ASSUME NEW p \in DOMAIN r, NEW b \in Builds, b <= r[p].hint, ~Excused(W, b)
               PROVE  \E q \in DOMAIN r : r[q].hint = b
    BY DEF Complete
  <2>1. PICK j \in DOMAIN s : s[j].hint = b
    BY DEF Complete
  <2>2. PICK q \in DOMAIN r : h[q] = j
    OBVIOUS
  <2> QED BY <2>1, <2>2
<1> QED BY <1>1, <1>2

(* The columns read in a cycle and the kept ones are complete together. *)
LEMMA JoinedComplete ==
    ASSUME NEW W, NEW t \in Int, NEW v, UpdaterGood(v, t), UpdaterComplete(W, v)
    PROVE  Faithful(W, v.new \o v.old) /\ Complete(W, v.new \o v.old)
<1>1. PICK new, old, todo, X :
        new = v.new /\ old = v.old /\ todo = v.todo /\ X = Good(v.cfg, t)
  OBVIOUS
<1>2. /\ new \in Seq(X) /\ old \in Seq(X) /\ todo \subseteq Builds
      /\ Faithful(W, new) /\ Faithful(W, old) /\ Complete(W, old)
  BY <1>1 DEF UpdaterGood, UpdaterComplete
<1>3. PICK r : r = new \o old
  OBVIOUS
<1>4. /\ Len(new) \in Nat /\ Len(old) \in Nat /\ DOMAIN new = 1 .. Len(new) /\ DOMAIN old = 1 .. Len(old)
      /\ DOMAIN r = 1 .. Len(new) + Len(old)
  BY <1>2, <1>3
<1>5. \A i \in DOMAIN new : i \in DOMAIN r /\ r[i] = new[i]
  BY <1>2, <1>3, <1>4
<1>6. \A j \in DOMAIN old : Len(new) + j \in DOMAIN r /\ r[Len(new) + j] = old[j]
  BY <1>2, <1>3, <1>4
<1>7. ASSUME NEW p \in DOMAIN r
      PROVE  (p \in DOMAIN new /\ r[p] = new[p]) \/ \E j \in DOMAIN old : r[p] = old[j]
  <2>1. CASE p \in DOMAIN new
    BY <1>5, <2>1
  <2>2. CASE p \notin DOMAIN new
    <3>1. p - Len(new) \in DOMAIN old /\ Len(new) + (p - Len(new)) = p
      BY <1>4, <2>2
    <3> QED BY <1>6, <3>1
  <2> QED BY <2>1, <2>2
<1>8. Faithful(W, r)
  BY <1>2, <1>7 DEF Faithful
<1>9. Complete(W, r)
  <2> SUFFICES ASSUME NEW p \in DOMAIN r, NEW b \in Builds, b <= r[p].hint, ~Excused(W, b)
               PROVE  \E q \in DOMAIN r : r[q].hint = b
    BY DEF Complete
  <2>1. CASE \E j \in DOMAIN old : b <= old[j].hint
    <3>1. PICK j \in DOMAIN old : old[j].hint = b
      BY <1>2, <2>1 DEF Complete
    <3> QED BY <1>6, <3>1
  <2>2. CASE ~\E j \in DOMAIN old : b <= old[j].hint
    <3>1. p \in DOMAIN new /\ r[p] = new[p]
      BY <1>7, <2>2
    <3>2. \A j \in DOMAIN old : old[j].hint \in Nat /\ b \in Nat
      BY <1>2 DEF Faithful, Shows, Builds
    <3>3. \A j \in DOMAIN old : old[j].hint < b
      BY <2>2, <3>2
    <3>4. PICK x : Shows(W, new[p], x)
      BY <1>2, <3>1 DEF Faithful
    <3>5. x \in new[p].cells /\ new[p].hint = x.b /\ x.b \in Nat /\ b \in Nat
      BY <3>4 DEF Shows, Builds
    <3>6. b \notin todo
      <4>1. \A y \in todo : x.b < y
        BY <1>1, <3>1, <3>5 DEF UpdaterGood, Ahead
      <4> QED BY <3>1, <3>5, <4>1
    <3>7. PICK k \in DOMAIN new : new[k].hint = b
      BY <1>1, <3>1, <3>3, <3>6 DEF UpdaterComplete, Gapless
    <3> QED BY <1>5, <3>7
  <2> QED BY <2>1, <2>2
<1> QED BY <1>1, <1>3, <1>8, <1>9

(* What a cycle writes shows what it has read and kept. *)
LEMMA WrittenComplete ==
    ASSUME NumBuilds < Ceiling, NEW W, NEW t \in Int, NEW u,
           UpdaterGood(up[u], t), UpdaterComplete(W, up[u]),
           NEW cols \in shrinkGridInline(truncateGrid(Columns(u)))
    PROVE  Faithful(W, cols) /\ Complete(W, cols)
<1> DEFINE joined == up[u].new \o up[u].old
<1>1. PICK X, s, r : /\ X = Good(up[u].cfg, t)
                     /\ s = IF up[u].cond = "none" THEN up[u].old ELSE joined
                     /\ r = SortStarted(s)
  OBVIOUS
<1>2. /\ joined \in Seq(X) /\ Distinct(joined) /\ Faithful(W, joined) /\ Complete(W, joined)
  BY <1>1, JoinedGood, JoinedComplete
<1>3. /\ up[u].old \in Seq(X) /\ Distinct(up[u].old)
      /\ Faithful(W, up[u].old) /\ Complete(W, up[u].old)
  BY <1>1 DEF UpdaterGood, UpdaterComplete
<1>4. groupColumns(joined) = joined
  <2> HIDE DEF joined
  <2>1. \A i, j \in DOMAIN joined : i # j => joined[i].key # joined[j].key
    BY <1>2, FaithfulDistinct DEF Separate
  <2> QED BY <1>2, <2>1, GroupSame
<1>5. Columns(u) = r
  BY <1>1, <1>4 DEF Columns
<1>6. s \in Seq(X) /\ Distinct(s) /\ Faithful(W, s) /\ Complete(W, s)
  BY <1>1, <1>2, <1>3
<1> HIDE DEF joined
<1>7. \A x \in X : x.start \in Int
  BY <1>1 DEF Good
<1>8. r \in Seq(X) /\ \E h : SortedFrom(r, s, Len(s), h)
  BY <1>1, <1>6, <1>7, SortIs
<1>9. PICK h : SortedFrom(r, s, Len(s), h)
  BY <1>8
<1>10. Len(s) \in Nat /\ DOMAIN s = 1 .. Len(s) /\ DOMAIN r = 1 .. Len(s) /\ Len(r) = Len(s)
  BY <1>6, <1>8, <1>9 DEF SortedFrom
<1>11. /\ \A p \in DOMAIN r : h[p] \in DOMAIN s /\ r[p] = s[h[p]]
       /\ \A p, q \in DOMAIN r : p # q => h[p] # h[q]
       /\ \A i \in DOMAIN s : \E p \in DOMAIN r : h[p] = i
  BY <1>9, <1>10 DEF SortedFrom
<1>12. Faithful(W, r) /\ Complete(W, r)
  <2>1. Reordered(r, s, h)
    BY <1>11 DEF Reordered
  <2> QED BY <1>6, <2>1, CompleteReordered
<1>13. Distinct(r)
  BY <1>6, <1>11, DistinctSelection
<1>14. /\ \A i \in DOMAIN r : r[i].hint \in Builds /\ \E x : r[i].cells = {x}
       /\ \A i, j \in DOMAIN r : i # j => r[i].hint # r[j].hint
  <2>1. Separate(r)
    BY <1>12, <1>13, FaithfulDistinct
  <2> QED BY <2>1 DEF Separate
<1>15. Len(r) <= NumBuilds
  BY <1>10, <1>14, FewColumns
<1>16. cols = r
  <2>1. r \in Seq(X) /\ \A i \in DOMAIN r : \E x : r[i].cells = {x}
    BY <1>8, <1>14
  <2>2. shrinkGridInline(truncateGrid(r)) = {r}
    BY <1>15, <2>1, SmallKept
  <2> QED BY <1>5, <2>2
<1> QED BY <1>12, <1>16

(* A cycle that drops a build lists it again, or there is an excuse: a     *)
(* newer build stays only if it started no later.                          *)
StillComplete(W, r, cols) ==
    /\ Faithful(W, r) /\ Complete(W, r)
    /\ \A p \in DOMAIN r : \E i \in DOMAIN cols : cols[i] = r[p]
    /\ \A p \in DOMAIN r : \A x : Shows(W, r[p], x) /\ x.res = "running" => Expired(W, x.b)

(* What a cycle drops of a complete grid is excused or read again. *)
LEMMA OldComplete ==
    ASSUME Window <= Lookback, NEW W, IsWorld(W), NEW g, NEW c,
           g.cols \in Seq(Good(g.cfg, W.now)), Faithful(W, g.cols), Complete(W, g.cols)
    PROVE  StillComplete(W, OldColumns(g, c, W.now), g.cols)
<1>1. PICK r, X, cols : r = OldColumns(g, c, W.now) /\ X = Good(g.cfg, W.now) /\ cols = g.cols
  OBVIOUS
<1>2. \A x \in X : x.start \in Nat
  BY <1>1 DEF Good
<1>3. W.now \in Int /\ W.now \in Nat /\ Window \in Nat /\ Lookback \in Nat
  BY BoundsAssumption DEF IsWorld
<1>4. r \in Seq(X) /\ \E e : KeptFrom(r, g, c, W.now, e)
  BY <1>1, <1>2, <1>3, OldColumnsAre
<1>5. PICK e : KeptFrom(r, g, c, W.now, e)
  BY <1>4
<1>6. /\ \A p \in DOMAIN r : e[p] \in DOMAIN cols /\ r[p] = cols[e[p]]
      /\ \A i \in DOMAIN cols : \/ \E p \in DOMAIN r : e[p] = i
                                \/ When(cols[i]) < W.now - Window
                                \/ \A p \in DOMAIN r : r[p].start <= cols[i].start
      /\ \A p \in DOMAIN r : IsRunning(r[p]) => r[p].start < (W.now - Lookback) * Milli
  BY <1>1, <1>5 DEF KeptFrom
<1>7. Faithful(W, r)
  BY <1>1, <1>6 DEF Faithful
<1>8. \A b \in Builds : W.st[b] \in Nat /\ b \in Nat
  <2>1. \A b \in Builds : b \in Nat
    BY BuildsAssumption DEF Builds
  <2> QED BY <2>1 DEF IsWorld
<1>9. Complete(W, r)
  <2> SUFFICES ASSUME NEW p \in DOMAIN r, NEW b \in Builds, b <= r[p].hint, ~Excused(W, b),
                      ~\E q \in DOMAIN r : r[q].hint = b
               PROVE  FALSE
    BY DEF Complete
  <2>1. PICK j \in DOMAIN cols : cols[j].hint = b
    BY <1>1, <1>6 DEF Complete
  <2>2. ~\E q \in DOMAIN r : e[q] = j
    BY <1>6, <2>1
  <2>3. PICK x : Shows(W, cols[j], x)
    BY <1>1 DEF Faithful
  <2>4. PICK y : Shows(W, r[p], y)
    BY <1>7 DEF Faithful
  <2>5. x.b = b /\ y.b \in Builds /\ r[p].hint = y.b /\ b < y.b
    <3>1. x.b = b /\ y.b \in Builds /\ r[p].hint = y.b /\ y.b # b
      BY <2>1, <2>3, <2>4 DEF Shows
    <3> QED BY <1>8, <3>1
  <2>6. HasStarted(W, b) /\ cols[j].start = W.st[b] * Milli
    <3>1. ~(x.b \in W.fumbled) /\ ~Expired(W, b)
      BY <1>8, <2>5 DEF Excused
    <3> QED BY <2>3, <2>5, <3>1 DEF Shows, Outcomes
  <2>7. ~(W.st[b] < W.now - Window) /\ ~Expired(W, b)
    BY <2>6 DEF Excused, Expired
  <2>8. ~(y.b \in W.fumbled)
    BY <1>8, <2>5 DEF Excused
  <2>9. ~OvertakenBy(W, b, y.b)
    BY <2>5 DEF Excused
  <2>10. ~(HasStarted(W, y.b) /\ W.st[y.b] <= W.st[b])
    BY <2>5, <2>9 DEF OvertakenBy
  <2>11. ~Expired(W, y.b)
    BY <1>3, <1>8, <2>5, <2>7, <2>10 DEF Expired
  <2>12. HasStarted(W, y.b) /\ r[p].start = W.st[y.b] * Milli
    BY <2>4, <2>8, <2>11 DEF Shows, Outcomes
  <2>13. CASE When(cols[j]) < W.now - Window
    BY <1>3, <1>8, <2>6, <2>7, <2>13 DEF When, Milli
  <2>14. CASE r[p].start <= cols[j].start
    BY <1>8, <2>5, <2>6, <2>10, <2>12, <2>14 DEF Milli
  <2> QED BY <1>6, <2>2, <2>13, <2>14
<1>10. ASSUME NEW p \in DOMAIN r, NEW x, Shows(W, r[p], x), x.res = "running" PROVE Expired(W, x.b)
  <2>1. /\ IsRunning(r[p]) /\ HasStarted(W, x.b) /\ r[p].start = W.st[x.b] * Milli /\ x.b \in Builds
    BY <1>10 DEF Shows, IsRunning, RunningResults
  <2>2. W.st[x.b] * Milli < (W.now - Lookback) * Milli
    BY <1>6, <2>1
  <2> QED BY <1>3, <1>8, <2>1, <2>2 DEF Expired, Milli
<1>11. \A p \in DOMAIN r : \E i \in DOMAIN cols : cols[i] = r[p]
  BY <1>6
<1>12. StillComplete(W, r, cols)
  BY <1>7, <1>9, <1>10, <1>11 DEF StillComplete
<1> QED BY <1>1, <1>12

(* The state makes a world. *)
LEMMA WorldIs == ASSUME GridInv PROVE IsWorld(World)
BY DEF GridInv, Basics, IsWorld, World

(* Nothing happens between a world and itself. *)
LEMMA SameWorld == ASSUME NEW W, IsWorld(W) PROVE Later(W, W)
<1>1. W.now \in Nat
  BY DEF IsWorld
<1> QED BY <1>1 DEF Later

(* What was true of the grid and the updaters is true in a later world. *)
LEMMA HoleLater ==
    ASSUME GridInv, GridInv', HoleInv, Later(World, World')
    PROVE  /\ Faithful(World', grid.cols) /\ Complete(World', grid.cols)
           /\ \A u \in Updaters : UpdaterComplete(World', up[u])
<1>1. PICK V, W : V = World /\ W = World'
  OBVIOUS
<1>2. IsWorld(V)
  BY <1>1, WorldIs
<1>3. IsWorld(W)
  BY <1>1 DEF GridInv, Basics, IsWorld, World
<1>4. Later(V, W) /\ InOrder(V) /\ Faithful(V, grid.cols) /\ Complete(V, grid.cols)
  BY <1>1 DEF HoleInv
<1>5. Faithful(W, grid.cols) /\ Complete(W, grid.cols)
  BY <1>2, <1>3, <1>4, ColumnsLater
<1>6. ASSUME NEW u \in Updaters PROVE UpdaterComplete(W, up[u])
  <2>1. up[u].todo \subseteq Builds
    BY DEF GridInv, UpdaterGood
  <2>2. UpdaterComplete(V, up[u])
    BY <1>1 DEF HoleInv
  <2> QED BY <1>2, <1>3, <1>4, <2>1, <2>2, UpdaterLater
<1> QED BY <1>1, <1>5, <1>6

(* A step of the jobs or the clock. *)
LEMMA HoleWorldStep ==
    ASSUME GridInv, GridInv', HoleInv, Later(World, World'), InOrder(World'),
           UNCHANGED <<grid, up>>
    PROVE  HoleInv'
<1>1. PICK W : W = World'
  OBVIOUS
<1>2. /\ Faithful(W, grid.cols) /\ Complete(W, grid.cols) /\ InOrder(W)
      /\ \A u \in Updaters : UpdaterComplete(W, up[u])
  BY <1>1, HoleLater
<1>3. /\ Faithful(W, grid'.cols) /\ Complete(W, grid'.cols)
      /\ \A u \in Updaters : UpdaterComplete(W, up'[u])
  BY <1>2
<1> QED BY <1>1, <1>2, <1>3 DEF HoleInv

(* A step of one updater. *)
LEMMA HoleUpdaterStep ==
    ASSUME GridInv, GridInv', HoleInv, Later(World, World'), InOrder(World'),
           UNCHANGED grid, NEW u \in Updaters, UpdaterComplete(World', up'[u]),
           \A v \in Updaters : v # u => up'[v] = up[v]
    PROVE  HoleInv'
<1>1. PICK W : W = World'
  OBVIOUS
<1>2. /\ Faithful(W, grid.cols) /\ Complete(W, grid.cols) /\ InOrder(W)
      /\ \A v \in Updaters : UpdaterComplete(W, up[v])
  BY <1>1, HoleLater
<1>3. Faithful(W, grid'.cols) /\ Complete(W, grid'.cols)
  BY <1>2
<1>4. \A v \in Updaters : UpdaterComplete(W, up'[v])
  BY <1>1, <1>2
<1> QED BY <1>1, <1>2, <1>3, <1>4 DEF HoleInv

(* A step that leaves the world alone. *)
LEMMA WorldUnchanged ==
    ASSUME GridInv, HoleInv, UNCHANGED <<build, st, now, fumbled>>
    PROVE  World' = World /\ Later(World, World') /\ InOrder(World')
<1>1. World' = World
  BY DEF World
<1>2. PICK W : W = World
  OBVIOUS
<1>3. IsWorld(W) /\ InOrder(W)
  BY <1>2, WorldIs DEF HoleInv
<1>4. Later(W, W)
  BY <1>3, SameWorld
<1> QED BY <1>1, <1>2, <1>3, <1>4

(* A grid without columns has no gap. *)
LEMMA NothingComplete == ASSUME NEW W PROVE Faithful(W, <<>>) /\ Complete(W, <<>>)
BY DEF Faithful, Complete

(* Nor has an updater between cycles. *)
LEMMA IdleComplete == ASSUME NEW W PROVE UpdaterComplete(W, Idle)
<1>1. Idle.old = <<>> /\ Idle.new = <<>> /\ Idle.todo = {} /\ Idle.phase = "idle"
  BY DEF Idle
<1>2. Gapless(Idle)
  BY <1>1 DEF Gapless
<1> QED BY <1>1, <1>2, NothingComplete DEF UpdaterComplete

(* Completeness depends on a few fields of an updater only. *)
LEMMA SameComplete ==
    ASSUME NEW W, NEW v, NEW w, UpdaterComplete(W, v), w.phase = v.phase, w.stop = v.stop,
           w.old = v.old, w.new = v.new, w.todo = v.todo
    PROVE  UpdaterComplete(W, w)
BY DEF UpdaterComplete, Gapless

(* Beginning a cycle keeps HoleInv if the kept columns are complete. *)
LEMMA BegunHole ==
    ASSUME WriteInv, GridInv, GridInv', HoleInv, NEW u \in Updaters, NEW phase, NEW cond, NEW old,
           Begun(u, phase, cond, old), Faithful(World, old), Complete(World, old),
           UNCHANGED <<build, st, grid, now, fumbled>>
    PROVE  HoleInv'
<1>1. PICK W, w : W = World /\ w = up'[u]
  OBVIOUS
<1>2. World' = W /\ Later(World, World') /\ InOrder(World')
  BY <1>1, WorldUnchanged
<1>3. \A v \in Updaters : v # u => up'[v] = up[v]
  BY DEF Begun, WriteInv, Shape
<1>4. w.old = old /\ w.new = <<>> /\ w.todo = {} /\ w.stop = now - Window
  BY <1>1 DEF Begun, WriteInv, Shape, Idle
<1>5. W.now = now /\ now - Window \in Int /\ now - Window <= now - Window
  <2>1. now \in Nat /\ Window \in Nat
    BY BoundsAssumption DEF GridInv, Basics
  <2> QED BY <1>1, <2>1 DEF World
<1>6. Gapless(w)
  BY <1>4 DEF Gapless
<1>7. Faithful(W, w.old) /\ Complete(W, w.old) /\ Faithful(W, w.new)
  BY <1>1, <1>4, NothingComplete
<1>8. UpdaterComplete(W, w)
  BY <1>4, <1>5, <1>6, <1>7 DEF UpdaterComplete
<1> QED BY <1>1, <1>2, <1>3, <1>8, HoleUpdaterStep

(* Download keeps HoleInv. *)
LEMMA DownloadHole ==
    ASSUME WriteInv, GridInv, GridInv', HoleInv, Window <= Lookback, NEW u \in Updaters,
           Download(u) \/ DownloadFails(u)
    PROVE  HoleInv'
<1>1. PICK W, old : W = World /\ old = OldColumns(grid, cfg, now)
  OBVIOUS
<1>2. W.now = now /\ IsWorld(W)
  BY <1>1, WorldIs DEF World
<1>3. Faithful(W, grid.cols) /\ Complete(W, grid.cols) /\ grid.cols \in Seq(Good(grid.cfg, W.now))
  BY <1>1, <1>2 DEF HoleInv, GridInv, GridGood
<1>4. Faithful(W, OldColumns(grid, cfg, W.now)) /\ Complete(W, OldColumns(grid, cfg, W.now))
  BY <1>2, <1>3, OldComplete DEF StillComplete
<1>5. Faithful(World, old) /\ Complete(World, old) /\ Faithful(World, <<>>) /\ Complete(World, <<>>)
  BY <1>1, <1>2, <1>4, NothingComplete
<1>6. /\ UNCHANGED <<build, st, grid, now, fumbled>>
      /\ \/ Begun(u, "list", "absent", <<>>)
         \/ Begun(u, "write", "none", old)
         \/ Begun(u, "list", "match", old)
  BY <1>1 DEF Download, DownloadFails
<1> QED BY <1>5, <1>6, BegunHole

(* Listing starts after the newest build that is kept. *)
LEMMA ListHole ==
    ASSUME WriteInv, GridInv, GridInv', HoleInv, NEW u \in Updaters, listBuilds(u)
    PROVE  HoleInv'
<1>1. PICK W, v, w, old, todo :
        W = World /\ v = up[u] /\ w = up'[u] /\ old = v.old /\ todo = Listed(u)
  OBVIOUS
<1>2. /\ \A x \in Updaters : x # u => up'[x] = up[x]
      /\ UNCHANGED <<build, st, grid, now, fumbled>> /\ v.phase = "list"
  BY <1>1 DEF listBuilds, WriteInv, Shape
<1>3. World' = W /\ Later(World, World') /\ InOrder(World') /\ InOrder(W) /\ W.build = build
  BY <1>1, <1>2, WorldUnchanged DEF World
<1>4. w.phase = "read" /\ w.todo = todo /\ w.old = old /\ w.new = v.new /\ w.stop = v.stop
  BY <1>1 DEF listBuilds, WriteInv, Shape, Fields
<1>5. UpdaterGood(v, now) /\ UpdaterComplete(W, v)
  BY <1>1 DEF GridInv, HoleInv
<1>6. v.new = <<>> /\ old \in Seq(Good(v.cfg, now))
  BY <1>1, <1>2, <1>5 DEF UpdaterGood
<1>7. NumBuilds \in Nat /\ \A b \in Builds : b \in Nat /\ b # 0
  BY BuildsAssumption DEF Builds
<1>8. Len(old) \in Nat /\ DOMAIN old = 1 .. Len(old) /\ \A j \in DOMAIN old : old[j].hint \in 0 .. NumBuilds
  <2>1. Len(old) \in Nat /\ DOMAIN old = 1 .. Len(old) /\ \A j \in DOMAIN old : old[j].hint \in Builds
    BY <1>6 DEF Good
  <2> QED BY <1>7, <2>1 DEF Builds
<1>9. PICK since : since = Since(old)
  OBVIOUS
<1>10. since \in Nat /\ (since = 0 \/ \E j \in DOMAIN old : old[j].hint = since)
  BY <1>7, <1>8, <1>9, SinceIs
<1>11. todo = { b \in Builds : build[b] # "absent" /\ b > since }
  BY <1>1, <1>9 DEF Listed
<1>12. Gapless(w)
  <2> SUFFICES ASSUME NEW b \in Builds \ todo, \A j \in DOMAIN old : old[j].hint < b,
                      NEW y \in todo, b < y
               PROVE  FALSE
    BY <1>4, <1>6 DEF Gapless
  <2>1. b \in Builds /\ y \in Builds /\ build[y] # "absent"
    BY <1>11
  <2>2. build[b] # "absent"
    BY <1>3, <2>1 DEF InOrder
  <2>3. ~(b > since)
    BY <1>11, <2>1, <2>2
  <2> QED BY <1>7, <1>8, <1>10, <2>1, <2>3
<1>13. \A b \in w.todo : W.build[b] # "absent"
  BY <1>3, <1>4, <1>11
<1>14. UpdaterComplete(W, w)
  BY <1>1, <1>2, <1>4, <1>5, <1>12, <1>13 DEF UpdaterComplete
<1> QED BY <1>1, <1>2, <1>3, <1>14, HoleUpdaterStep

(* The end of reading keeps HoleInv. *)
LEMMA EndReadHole ==
    ASSUME WriteInv, GridInv, GridInv', HoleInv, NEW u \in Updaters, endRead(u)
    PROVE  HoleInv'
<1>1. PICK W, v, w : W = World /\ v = up[u] /\ w = up'[u]
  OBVIOUS
<1>2. /\ \A x \in Updaters : x # u => up'[x] = up[x]
      /\ UNCHANGED <<build, st, grid, now, fumbled>> /\ v.phase = "read"
  BY <1>1 DEF endRead, WriteInv, Shape
<1>3. World' = W /\ Later(World, World') /\ InOrder(World')
  BY <1>1, <1>2, WorldUnchanged
<1>4. w.todo = {} /\ w.old = v.old /\ w.new = v.new /\ w.stop = v.stop
  BY <1>1 DEF endRead, WriteInv, Shape, Fields
<1>5. UpdaterGood(v, now) /\ UpdaterComplete(W, v)
  BY <1>1 DEF GridInv, HoleInv
<1>6. \A b \in Builds : b \in Nat
  BY BuildsAssumption DEF Builds
<1>7. Gapless(w)
  <2> SUFFICES ASSUME NEW b \in Builds, \A j \in DOMAIN v.old : v.old[j].hint < b,
                      NEW i \in DOMAIN v.new, b <= v.new[i].hint
               PROVE  \E k \in DOMAIN v.new : v.new[k].hint = b
    BY <1>4 DEF Gapless
  <2>1. PICK x : Shows(W, v.new[i], x)
    BY <1>5 DEF UpdaterComplete, Faithful
  <2>2. x \in v.new[i].cells /\ v.new[i].hint = x.b /\ x.b \in Builds
    BY <2>1 DEF Shows
  <2>3. \A y \in v.todo : x.b < y /\ y \in Builds
    BY <1>5, <2>2 DEF UpdaterGood, Ahead
  <2>4. b \notin v.todo
    BY <1>6, <2>2, <2>3
  <2> QED BY <1>5, <2>4 DEF UpdaterComplete, Gapless
<1>8. UpdaterComplete(W, w)
  BY <1>2, <1>4, <1>5, <1>7 DEF UpdaterComplete
<1> QED BY <1>1, <1>2, <1>3, <1>8, HoleUpdaterStep

(* The column of a build shows it: what is read is what the build is, and  *)
(* without overrides each build has its own column.                        *)
LEMMA ColumnShows ==
    ASSUME ~Override, GridInv, HoleInv, NEW u \in Updaters, up[u].phase = "read",
           NEW b \in up[u].todo, NEW res,
           res = readResult(b, up[u].stop) \/ res = "error",
           NEW W, W = [build |-> build, st |-> st, now |-> now,
                       fumbled |-> IF res \in {"nostart", "error"} THEN fumbled \cup {b} ELSE fumbled]
    PROVE  \E x : Shows(W, Column(b, res, u), x) /\ x.b = b
<1>1. PICK col, c, stop : col = Column(b, res, u) /\ c = up[u].cfg /\ stop = up[u].stop
  OBVIOUS
<1>2. PICK x : x = [b |-> b, res |-> res, cfg |-> c]
  OBVIOUS
<1>3. /\ b \in Builds /\ build[b] # "absent" /\ stop \in Int /\ stop <= now - Window
  <2>1. UpdaterComplete(World, up[u]) /\ UpdaterGood(up[u], now)
    BY DEF HoleInv, GridInv
  <2> QED BY <1>1, <2>1 DEF UpdaterComplete, UpdaterGood, World
<1>4. /\ W.build = build /\ W.st = st /\ W.now = now
      /\ res \in {"nostart", "error"} => b \in W.fumbled
  OBVIOUS
<1>5. /\ build[b] \in {"absent", "pending", "running", "finished"} /\ st[b] \in Nat
      /\ now \in Nat /\ Window \in Nat
  BY <1>3, BoundsAssumption DEF GridInv, Basics
<1>6. x.b = b /\ x.res = res
  BY <1>2
<1>7. /\ col.hint = b /\ col.key = b /\ col.cells = {x}
      /\ res \in {"done", "timeout", "running"} => col.start = st[b] * Milli
  BY <1>1, <1>2 DEF Column, failedColumn, convertResult, CellsOf, Failed
<1>8. /\ res \in {"nostart", "error", "ancient", "done", "timeout", "running"}
      /\ res = "ancient" => build[b] # "pending" /\ st[b] < stop
      /\ res \in {"done", "timeout", "running"} => build[b] # "pending"
  BY <1>1 DEF readResult, overallCell
<1>9. res \in {"ancient", "done", "timeout", "running"} => HasStarted(W, b)
  BY <1>3, <1>4, <1>5, <1>8 DEF HasStarted
<1>10. res = "ancient" => Expired(W, b)
  BY <1>3, <1>4, <1>5, <1>8, <1>9 DEF Expired
<1>11. Shows(W, col, x)
  BY <1>3, <1>4, <1>6, <1>7, <1>8, <1>9, <1>10 DEF Shows, Outcomes
<1> QED BY <1>1, <1>6, <1>11

(* Receiving the column of a listed build leaves no gap. *)
LEMMA ReceiveGapless ==
    ASSUME NEW v, NEW w, NEW X, NEW col, v.new \in Seq(X), col \in X, v.todo \subseteq Builds,
           Gapless(v), NEW b \in v.todo, col.hint = b,
           w.old = v.old, w.new = Append(v.new, col), w.todo = v.todo \ {b}
    PROVE  Gapless(w)
<1>1. PICK new, old, todo, r : new = v.new /\ old = v.old /\ todo = v.todo /\ r = Append(new, col)
  OBVIOUS
<1>2. /\ DOMAIN new = 1 .. Len(new) /\ Len(new) \in Nat /\ DOMAIN r = 1 .. Len(new) + 1
      /\ r[Len(new) + 1] = col /\ \A i \in DOMAIN new : r[i] = new[i]
  BY <1>1
<1>3. /\ \A i \in DOMAIN r : i \in DOMAIN new \/ i = Len(new) + 1
      /\ Len(new) + 1 \in DOMAIN r /\ \A i \in DOMAIN new : i \in DOMAIN r
  BY <1>2
<1>4. \A a \in Builds : a \in Nat
  BY BuildsAssumption DEF Builds
<1> SUFFICES ASSUME NEW a \in Builds \ (todo \ {b}), \A j \in DOMAIN old : old[j].hint < a,
                    \/ \E y \in todo \ {b} : a < y
                    \/ \E i \in DOMAIN r : a <= r[i].hint
             PROVE  \E i \in DOMAIN r : r[i].hint = a
  BY <1>1 DEF Gapless
<1>5. CASE a = b
  BY <1>2, <1>3, <1>5
<1>6. CASE a # b
  <2>1. a \in Builds \ todo
    BY <1>6
  <2>2. (\E y \in todo : a < y) \/ \E i \in DOMAIN new : a <= new[i].hint
    <3>1. CASE \E i \in DOMAIN r : a <= r[i].hint
      <4>1. PICK i \in DOMAIN r : a <= r[i].hint
        BY <3>1
      <4>2. CASE i \in DOMAIN new
        BY <1>2, <4>1, <4>2
      <4>3. CASE i = Len(new) + 1
        <5>1. a <= b /\ b \in todo /\ a \in Nat /\ b \in Nat
          BY <1>1, <1>2, <1>4, <2>1, <4>1, <4>3
        <5> QED BY <1>6, <5>1
      <4> QED BY <1>3, <4>2, <4>3
    <3> QED BY <3>1
  <2>3. PICK i \in DOMAIN new : new[i].hint = a
    BY <1>1, <2>1, <2>2 DEF Gapless
  <2> QED BY <1>2, <1>3, <2>3
<1> QED BY <1>5, <1>6

(* Reading a build keeps HoleInv: the column shows what the build was. *)
LEMMA ReadHole ==
    ASSUME ~Override, WriteInv, GridInv, GridInv', HoleInv, NEW u \in Updaters, readColumn(u)
    PROVE  HoleInv'
<1>1. PICK b \in {Min(up[u].todo)} : \E res \in {readResult(b, up[u].stop)} \cup (Faults \cap {"error"}) :
           /\ receive(u, Column(b, res, u), res \in Failed)
           /\ fumbled' = IF res \in {"nostart", "error"} THEN fumbled \cup {b} ELSE fumbled
  BY Zenon DEF readColumn
<1>2. PICK res \in {readResult(b, up[u].stop)} \cup (Faults \cap {"error"}) :
           /\ receive(u, Column(b, res, u), res \in Failed)
           /\ fumbled' = IF res \in {"nostart", "error"} THEN fumbled \cup {b} ELSE fumbled
  BY <1>1
<1>3. /\ up[u].phase = "read" /\ up[u].todo # {} /\ UNCHANGED <<build, st, grid, now>>
  BY DEF readColumn
<1>4. b \in up[u].todo /\ up[u].todo \subseteq Builds
  <2>1. up[u].todo \in SUBSET Builds
    BY DEF GridInv, UpdaterGood
  <2>2. up[u].todo \in SUBSET Int /\ 1 \in Int /\ \A y \in up[u].todo : y >= 1
    BY <2>1 DEF Builds
  <2>3. Min(up[u].todo) \in up[u].todo
    BY <1>3, <2>2, MinOf
  <2> QED BY <2>1, <2>3
<1>5. PICK W, col, v, w, failed : /\ W = World' /\ col = Column(b, res, u) /\ v = up[u] /\ w = up'[u]
                                  /\ failed = (res \in Failed)
  OBVIOUS
<1>6. W = [build |-> build, st |-> st, now |-> now,
           fumbled |-> IF res \in {"nostart", "error"} THEN fumbled \cup {b} ELSE fumbled]
  BY <1>2, <1>3, <1>5 DEF World
<1>7. PICK x : Shows(W, col, x) /\ x.b = b
  <2>1. res = readResult(b, up[u].stop) \/ res = "error"
    OBVIOUS
  <2> QED BY <1>3, <1>4, <1>5, <1>6, <2>1, ColumnShows
<1>8. Later(World, W)
  <2>1. World.build = build /\ World.st = st /\ World.now = now /\ World.fumbled = fumbled /\ now \in Nat
    BY DEF World, GridInv, Basics
  <2>2. W.build = build /\ W.st = st /\ W.now = now /\ fumbled \subseteq W.fumbled
    BY <1>6
  <2> QED BY <2>1, <2>2 DEF Later, HasStarted
<1>9. InOrder(W)
  <2>1. InOrder(World) /\ World.build = build /\ World.st = st /\ World.now = now
    BY DEF HoleInv, World
  <2>2. W.build = build /\ W.st = st /\ W.now = now
    BY <1>6
  <2> QED BY <2>1, <2>2 DEF InOrder, HasStarted
<1>10. UpdaterComplete(W, v)
  BY <1>5, <1>8, HoleLater
<1>11. receive(u, col, failed)
  BY <1>2, <1>5
<1>12. /\ \A y \in Updaters : y # u => up'[y] = up[y]
       /\ w.phase = v.phase /\ w.old = v.old /\ w.stop = v.stop
       /\ w.todo = v.todo \ {b} /\ w.new = Append(v.new, col)
  BY <1>5, <1>11 DEF receive, WriteInv, Shape, Fields
<1>13. PICK X : X = Good(v.cfg, now) \cup {col}
  OBVIOUS
<1>14. v.new \in Seq(X) /\ col \in X
  <2>1. v.new \in Seq(Good(v.cfg, now))
    BY <1>5 DEF GridInv, UpdaterGood
  <2>2. Good(v.cfg, now) \subseteq X /\ col \in X
    BY <1>13
  <2> QED BY <2>1, <2>2
<1>15. Gapless(w)
  <2>1. Gapless(v) /\ b \in v.todo /\ v.todo \subseteq Builds /\ col.hint = b
    BY <1>4, <1>5, <1>7, <1>10 DEF UpdaterComplete, Shows
  <2> QED BY <1>12, <1>14, <2>1, ReceiveGapless
<1>16. Faithful(W, w.new)
  <2>1. PICK new, r : new = v.new /\ r = Append(new, col)
    OBVIOUS
  <2>2. \A i \in DOMAIN r : (i \in DOMAIN new /\ r[i] = new[i]) \/ r[i] = col
    <3>1. new \in Seq(X)
      BY <1>14, <2>1
    <3> QED BY <2>1, <3>1
  <2>3. Faithful(W, new)
    BY <1>10, <2>1 DEF UpdaterComplete
  <2>4. Faithful(W, r)
    BY <1>7, <2>2, <2>3 DEF Faithful
  <2> QED BY <1>12, <2>1, <2>4
<1>17. UpdaterComplete(W, w)
  BY <1>10, <1>12, <1>15, <1>16 DEF UpdaterComplete
<1> QED BY <1>3, <1>5, <1>8, <1>9, <1>12, <1>17, HoleUpdaterStep

(* A write keeps HoleInv: the columns written are the joined ones. *)
LEMMA UploadHole ==
    ASSUME NumBuilds < Ceiling, WriteInv, GridInv, GridInv', HoleInv, NEW u \in Updaters, Upload(u)
    PROVE  HoleInv'
<1>1. PICK W : W = World
  OBVIOUS
<1>2. UNCHANGED <<build, st, now, fumbled>> /\ now \in Int
  BY DEF Upload, GridInv, Basics
<1>3. World' = W /\ Later(World, World') /\ InOrder(World')
  BY <1>1, <1>2, WorldUnchanged
<1>4. \A v \in Updaters : UpdaterComplete(W, up[v]) /\ UpdaterGood(up[v], now)
  BY <1>1 DEF HoleInv, GridInv
<1>5. CASE PreconditionHolds(u)
  <2>1. PICK cols \in shrinkGridInline(truncateGrid(Columns(u))) :
          grid' = [cols |-> cols, cfg |-> up[u].cfg]
    BY <1>5, Zenon DEF Upload
  <2>2. up' = Overwritten(u)
    BY <1>5 DEF Upload
  <2>3. Faithful(W, cols) /\ Complete(W, cols)
    BY <1>2, <1>4, WrittenComplete
  <2>4. ASSUME NEW v \in Updaters PROVE UpdaterComplete(W, up'[v])
    <3>1. CASE v = u
      BY <2>2, <3>1, IdleComplete DEF Overwritten
    <3>2. CASE v # u
      <4>1. PICK a, z : a = up[v] /\ z = up'[v]
        OBVIOUS
      <4>2. /\ z.phase = a.phase /\ z.stop = a.stop
            /\ z.todo = a.todo /\ z.old = a.old /\ z.new = a.new
        BY <2>2, <3>2, <4>1 DEF Overwritten, WriteInv, Shape, Fields
      <4> QED BY <1>4, <4>1, <4>2, SameComplete
    <3> QED BY <3>1, <3>2
  <2>5. Faithful(W, grid'.cols) /\ Complete(W, grid'.cols)
    BY <2>1, <2>3
  <2> QED BY <1>3, <2>4, <2>5 DEF HoleInv
<1>6. CASE ~PreconditionHolds(u)
  <2>1. up' = [up EXCEPT ![u] = Idle] /\ UNCHANGED grid
    BY <1>6 DEF Upload
  <2>2. UpdaterComplete(World', up'[u]) /\ \A v \in Updaters : v # u => up'[v] = up[v]
    BY <2>1, IdleComplete DEF WriteInv, Shape
  <2> QED BY <1>3, <2>1, <2>2, HoleUpdaterStep
<1> QED BY <1>5, <1>6

(* The creation of an empty grid keeps HoleInv. *)
LEMMA LockHole ==
    ASSUME WriteInv, GridInv, GridInv', HoleInv, NEW u \in Updaters, lockGroup(u)
    PROVE  HoleInv'
<1>1. PICK W : W = World
  OBVIOUS
<1>2. UNCHANGED <<build, st, now, fumbled>> /\ grid'.cols = <<>>
  BY DEF lockGroup
<1>3. World' = W /\ InOrder(World')
  BY <1>1, <1>2, WorldUnchanged
<1>4. ASSUME NEW v \in Updaters PROVE UpdaterComplete(W, up'[v])
  <2>1. UpdaterComplete(W, up[v])
    BY <1>1 DEF HoleInv
  <2>2. PICK a, z : a = up[v] /\ z = up'[v]
    OBVIOUS
  <2>3. /\ z.phase = a.phase /\ z.stop = a.stop
        /\ z.todo = a.todo /\ z.old = a.old /\ z.new = a.new
    BY <2>2 DEF lockGroup, WriteInv, Shape, Fields
  <2> QED BY <2>1, <2>2, <2>3, SameComplete
<1>5. Faithful(W, grid'.cols) /\ Complete(W, grid'.cols)
  BY <1>2, NothingComplete
<1> QED BY <1>3, <1>4, <1>5 DEF HoleInv

(* Jobs appear in the order of their numbers and start when they do. *)
LEMMA JobHole ==
    ASSUME GridInv, GridInv', HoleInv, NEW b \in Builds, Job(b) PROVE HoleInv'
<1>1. PICK V, W : V = World /\ W = World'
  OBVIOUS
<1>2. /\ V.build = build /\ V.st = st /\ V.now = now /\ V.fumbled = fumbled
      /\ W.build = build' /\ W.st = st' /\ W.now = now' /\ W.fumbled = fumbled'
  BY <1>1 DEF World
<1>3. /\ UNCHANGED <<grid, up, now, fumbled>> /\ InOrder(V) /\ now \in Nat
      /\ build \in [Builds -> {"absent", "pending", "running", "finished"}] /\ st \in [Builds -> Nat]
  BY <1>1 DEF Job, CreateBuild, StartBuild, FinishBuild, HoleInv, GridInv, Basics
<1>4. /\ \A a \in Builds : a # b => build'[a] = build[a] /\ st'[a] = st[a]
      /\ build'[b] # "absent"
      /\ \/ build[b] # "absent"
         \/ \A a \in 1 .. (b - 1) : build[a] # "absent"
      /\ \/ st'[b] = st[b] /\ (build'[b] = "pending" \/ build[b] = "running")
         \/ st'[b] = now
      /\ build[b] = "finished" => FALSE
      /\ build[b] = "running" => build'[b] = "finished" /\ st'[b] = st[b]
  BY <1>3 DEF Job, CreateBuild, StartBuild, FinishBuild
<1>5. \A a \in Builds : a \in Nat /\ a >= 1
  BY BuildsAssumption DEF Builds
<1>6. Later(V, W)
  <2>1. \A a \in Builds : build[a] # "absent" => build'[a] # "absent"
    BY <1>4
  <2>2. \A a \in Builds : HasStarted(V, a) => HasStarted(W, a) /\ W.st[a] = V.st[a]
    BY <1>2, <1>4 DEF HasStarted
  <2>3. \A a \in Builds : W.st[a] = V.st[a] \/ W.st[a] = V.now
    BY <1>2, <1>4
  <2> QED BY <1>2, <1>3, <2>1, <2>2, <2>3 DEF Later
<1>7. InOrder(W)
  <2>1. ASSUME NEW a \in Builds, NEW c \in Builds, a < c, build'[c] # "absent"
        PROVE  build'[a] # "absent"
    <3>1. CASE build[c] # "absent"
      BY <1>2, <1>3, <1>4, <2>1, <3>1 DEF InOrder
    <3>2. CASE build[c] = "absent"
      <4>1. c = b /\ a # b
        BY <1>4, <1>5, <2>1, <3>2
      <4>2. a \in 1 .. (b - 1)
        BY <1>5, <2>1, <4>1
      <4> QED BY <1>4, <3>2, <4>1, <4>2
    <3> QED BY <3>1, <3>2
  <2>2. ASSUME NEW a \in Builds, HasStarted(W, a) PROVE W.st[a] <= W.now
    <3>1. CASE st'[a] = now
      BY <1>2, <1>3, <3>1
    <3>2. CASE st'[a] # now
      <4>1. HasStarted(V, a) /\ st'[a] = st[a]
        BY <1>2, <1>4, <2>2, <3>2 DEF HasStarted
      <4> QED BY <1>2, <1>3, <4>1 DEF InOrder
    <3> QED BY <3>1, <3>2
  <2> QED BY <1>2, <2>1, <2>2 DEF InOrder
<1> QED BY <1>1, <1>3, <1>6, <1>7, HoleWorldStep

(* Time keeps HoleInv. *)
LEMMA TickHole == ASSUME GridInv, GridInv', HoleInv, Tick PROVE HoleInv'
<1>1. PICK V, W : V = World /\ W = World'
  OBVIOUS
<1>2. /\ V.build = build /\ V.st = st /\ V.now = now /\ V.fumbled = fumbled
      /\ W.build = build /\ W.st = st /\ W.now = now + 1 /\ W.fumbled = fumbled
      /\ UNCHANGED <<grid, up>>
  BY <1>1 DEF World, Tick
<1>3. InOrder(V) /\ now \in Nat /\ st \in [Builds -> Nat]
  BY <1>1 DEF HoleInv, GridInv, Basics
<1>4. Later(V, W)
  BY <1>2, <1>3 DEF Later, HasStarted
<1>5. InOrder(W)
  BY <1>2, <1>3 DEF InOrder, HasStarted
<1> QED BY <1>1, <1>2, <1>4, <1>5, HoleWorldStep

(* Every step keeps HoleInv. *)
LEMMA HoleStep ==
    ASSUME ~Override, NumBuilds < Ceiling, Window <= Lookback
    PROVE  WriteInv /\ GridInv /\ GridInv' /\ HoleInv /\ [Next]_vars => HoleInv'
<1> SUFFICES ASSUME WriteInv, GridInv, GridInv', HoleInv, [Next]_vars PROVE HoleInv'
  OBVIOUS
<1>1. ASSUME NEW u \in Updaters, Abort(u) PROVE HoleInv'
  <2>1. up' = [up EXCEPT ![u] = Idle] /\ UNCHANGED <<build, st, grid, now, fumbled>>
    BY <1>1 DEF Abort
  <2>2. UpdaterComplete(World', up'[u]) /\ \A v \in Updaters : v # u => up'[v] = up[v]
    BY <2>1, IdleComplete DEF WriteInv, Shape
  <2>3. Later(World, World') /\ InOrder(World')
    BY <2>1, WorldUnchanged
  <2> QED BY <2>1, <2>2, <2>3, HoleUpdaterStep
<1>2. ASSUME NEW u \in Updaters, Cycle(u) PROVE HoleInv'
  BY <1>1, <1>2, DownloadHole, ListHole, ReadHole, EndReadHole, UploadHole, LockHole DEF Cycle
<1>3. ASSUME ChangeConfig \/ UNCHANGED vars PROVE HoleInv'
  <2>1. UNCHANGED <<build, st, grid, up, now, fumbled>>
    BY <1>3 DEF ChangeConfig, vars
  <2>2. Later(World, World') /\ InOrder(World')
    BY <2>1, WorldUnchanged
  <2> QED BY <2>1, <2>2, HoleWorldStep
<1> QED BY <1>2, <1>3, JobHole, TickHole, Zenon DEF Next

(* HoleInv is stronger than NoHoles. *)
LEMMA HolesExcused ==
    ASSUME GridInv, HoleInv, Window <= Lookback PROVE NoHoles
<1>1. PICK W, r : W = World /\ r = OldColumns(grid, cfg, now)
  OBVIOUS
<1>2. /\ IsWorld(W) /\ W.build = build /\ W.st = st /\ W.now = now /\ W.fumbled = fumbled
  BY <1>1, WorldIs DEF World
<1>3. Faithful(W, grid.cols) /\ Complete(W, grid.cols) /\ grid.cols \in Seq(Good(grid.cfg, W.now))
  BY <1>1, <1>2 DEF HoleInv, GridInv, GridGood
<1>4. /\ Faithful(W, r) /\ Complete(W, r)
      /\ \A p \in DOMAIN r : \E i \in DOMAIN grid.cols : grid.cols[i] = r[p]
      /\ \A p \in DOMAIN r : \A x : Shows(W, r[p], x) /\ x.res = "running" => Expired(W, x.b)
  <2>1. r = OldColumns(grid, cfg, W.now)
    BY <1>1, <1>2
  <2>2. StillComplete(W, r, grid.cols)
    BY <1>2, <1>3, <2>1, OldComplete
  <2> QED BY <2>2 DEF StillComplete
<1>5. Len(r) \in Nat /\ DOMAIN r = 1 .. Len(r)
  <2>1. PICK X : X = Good(grid.cfg, now)
    OBVIOUS
  <2>2. \A x \in X : x.start \in Nat
    BY <2>1 DEF Good
  <2>3. r \in Seq(X)
    <3>1. now \in Int /\ grid.cols \in Seq(X)
      BY <2>1 DEF GridInv, GridGood, Basics
    <3> QED BY <1>1, <2>2, <3>1, OldColumnsAre
  <2> QED BY <2>3
<1>6. NumBuilds \in Nat /\ \A b \in Builds : b \in Nat /\ b # 0 /\ b \in 1 .. NumBuilds
  BY BuildsAssumption DEF Builds
<1>7. \A p \in DOMAIN r : r[p].hint \in Builds /\ r[p].hint \in 0 .. NumBuilds
  <2>1. \A p \in DOMAIN r : r[p].hint \in Builds
    BY <1>4 DEF Faithful, Shows
  <2> QED BY <1>6, <2>1
<1>8. PICK since : since = Since(r)
  OBVIOUS
<1>9. since \in Nat /\ (since = 0 \/ \E p \in DOMAIN r : r[p].hint = since)
  BY <1>5, <1>6, <1>7, <1>8, SinceIs
<1> SUFFICES ASSUME NEW b \in Builds, ~TooOld(b), ~Settled(b), ~WillBeRead(b),
                    ~Overtaken(b), ~\E c \in fumbled : c >= b
             PROVE  FALSE
  BY DEF NoHoles
<1>10. ~Excused(W, b)
  <2>1. ~Expired(W, b)
    BY <1>2 DEF Expired, HasStarted, TooOld
  <2>2. ASSUME NEW c \in Builds, OvertakenBy(W, b, c) PROVE FALSE
    <3>1. c \in (b + 1) .. NumBuilds
      BY <1>6, <2>2 DEF OvertakenBy
    <3> QED BY <1>2, <2>2, <3>1 DEF OvertakenBy, HasStarted, Overtaken
  <2> QED BY <1>2, <2>1, <2>2 DEF Excused
<1>11. b <= since
  BY <1>1, <1>6, <1>8, <1>9 DEF WillBeRead
<1>12. PICK p \in DOMAIN r : b <= r[p].hint
  BY <1>6, <1>9, <1>11
<1>13. PICK q \in DOMAIN r : r[q].hint = b
  BY <1>4, <1>10, <1>12 DEF Complete
<1>14. PICK x : Shows(W, r[q], x)
  BY <1>4, <1>13 DEF Faithful
<1>15. x.b = b /\ x \in r[q].cells
  BY <1>13, <1>14 DEF Shows
<1>16. x \in Cells
  BY <1>4, <1>15 DEF Cells
<1>17. x.res \in RunningResults
  BY <1>15, <1>16 DEF Settled
<1>18. CASE x.res = "nostart"
  <2>1. b \in fumbled
    BY <1>2, <1>14, <1>15, <1>18 DEF Shows
  <2> QED BY <1>6, <2>1
<1>19. CASE x.res = "running"
  BY <1>4, <1>10, <1>14, <1>15, <1>19 DEF Excused
<1> QED BY <1>17, <1>18, <1>19 DEF RunningResults

(* No hole, for any number of builds and updaters, any faults and any      *)
(* order of their steps: a build whose result is not in the grid is listed *)
(* again by the next cycle, unless it is too old, a newer build started no *)
(* later, or it or a newer one was given a made-up start.  It takes that   *)
(* columns are not overridden, that the grid stays below the byte ceiling  *)
(* (truncation loses columns on purpose) and that a configuration change   *)
(* reads back at least the days that are shown.                            *)
THEOREM NoBuildIsLost ==
    ASSUME ~Override, NumBuilds < Ceiling, Window <= Lookback
    PROVE  Spec => []NoHoles
<1>1. GroupInit => HoleInv
  <2> SUFFICES ASSUME GroupInit PROVE HoleInv
    OBVIOUS
  <2>1. PICK W : W = World
    OBVIOUS
  <2>2. W.build = [b \in Builds |-> "absent"]
    BY <2>1 DEF World, GroupInit
  <2>3. InOrder(W)
    BY <2>2 DEF InOrder, HasStarted
  <2>4. grid.cols = <<>> /\ \A u \in Updaters : up[u] = Idle
    BY DEF GroupInit
  <2> QED BY <2>1, <2>3, <2>4, NothingComplete, IdleComplete DEF HoleInv
<1>2. WriteInv /\ GridInv /\ GridInv' /\ HoleInv /\ [Next]_vars => HoleInv'
  BY HoleStep
<1>3. GridInv /\ HoleInv => NoHoles
  BY HolesExcused
<1> QED BY <1>1, <1>2, <1>3, GridInvariant, PTL DEF Spec
=============================================================================
