----------------------------- MODULE HeapQueue ------------------------------
(***************************************************************************)
(* The array behind util/queue/queue.go: priorityQueue, whose items carry  *)
(* their own index so that Fix and Init can find them, driven by           *)
(* container/heap.  Each critical section of q.lock is one action; Send is *)
(* reduced to what next() does and to the hand-over of the name.           *)
(*                                                                         *)
(* Positions count from 1; index 0 stands for the code's -1, an item that  *)
(* has left the array.                                                     *)
(***************************************************************************)
EXTENDS Integers, Sequences, SequencesExt

CONSTANTS Names, NoName,
          Freqs,    \* the frequencies Send may be called with
          MaxTime,  \* bound: times and the clock
          MaxOps    \* bound: operations in a behaviour

ASSUME HeapAssumption == IsFiniteSet(Names) /\ Freqs \subseteq Nat /\ MaxTime \in Nat

VARIABLES arr,      \* q.queue, a sequence of names
          index,    \* item.index of every item in q.items
          items,    \* item.when of every item in q.items
          held,     \* the name next() returned
          freq,     \* the frequency of Send
          now, ops

vars == <<arr, index, items, held, freq, now, ops>>
----------------------------------------------------------------------------
(* The queue as a value; these are the methods of heap.Interface on it.    *)
HeapOf(a, x, w) == [arr |-> a, index |-> x, when |-> w]

Less(h, i, j) == h.when[h.arr[i]] < h.when[h.arr[j]]

(* A variant with a bug: the index of the second item is not updated. *)
SwapOneIndex(h, i, j) ==
    LET a == [h.arr EXCEPT ![i] = h.arr[j], ![j] = h.arr[i]]
    IN HeapOf(a, [h.index EXCEPT ![a[i]] = i], h.when)

Swap(h, i, j) ==
    LET a == [h.arr EXCEPT ![i] = h.arr[j], ![j] = h.arr[i]]
    IN HeapOf(a, [h.index EXCEPT ![a[i]] = i, ![a[j]] = j], h.when)

Push(h, n) == HeapOf(Append(h.arr, n), [h.index EXCEPT ![n] = Len(h.arr) + 1], h.when)

Pop(h) == HeapOf(Front(h.arr), [h.index EXCEPT ![Last(h.arr)] = 0], h.when)
----------------------------------------------------------------------------
(* container/heap: the loops as folds, of as many rounds as they can take. *)
Parent(i) == i \div 2

\* A round of up: the item at s.at changes places with a later parent.
Rise(s, round) ==
    IF s.at <= 1 \/ ~Less(s.heap, s.at, Parent(s.at)) THEN s
    ELSE [heap |-> Swap(s.heap, Parent(s.at), s.at), at |-> Parent(s.at)]
Rising == INSTANCE Fold WITH Step <- Rise

up(h, j) == Rising!Fold([heap |-> h, at |-> j], [round \in 1 .. j |-> j]).heap

\* A round of down: it changes places with its earlier child, if that is earlier.
Child(h, i, n) ==
    IF 2 * i + 1 <= n /\ Less(h, 2 * i + 1, 2 * i) THEN 2 * i + 1 ELSE 2 * i
Sink(s, n) ==
    LET j == Child(s.heap, s.at, n)
    IN IF 2 * s.at > n \/ ~Less(s.heap, j, s.at) THEN s
       ELSE [heap |-> Swap(s.heap, s.at, j), at |-> j]
Sinking == INSTANCE Fold WITH Step <- Sink

\* Position i sifted down within the first n positions, and where it ends.
down(h, i, n) == Sinking!Fold([heap |-> h, at |-> i], [round \in 1 .. n |-> n])

\* heap.Fix: down, or up when down moved nothing.
Sift(h, i, n) == LET d == down(h, i, n) IN IF d.at > i THEN d.heap ELSE up(h, i)

HeapPush(h, n) == LET p == Push(h, n) IN up(p, Len(p.arr))
HeapPop(h) == LET n == Len(h.arr) IN Pop(down(Swap(h, 1, n), 1, n - 1).heap)
HeapRemove(h, i) == LET n == Len(h.arr) IN
                    Pop(IF n = i THEN h ELSE Sift(Swap(h, i, n), i, n - 1))

Settle(h, i) == down(h, i, Len(h.arr)).heap
Settling == INSTANCE Fold WITH Step <- Settle
HeapInit(h) == LET half == Len(h.arr) \div 2
               IN Settling!Fold(h, [k \in 1 .. half |-> half + 1 - k])
----------------------------------------------------------------------------
Heap == HeapOf(arr, index, items)

SetHeap(h) == arr' = h.arr /\ index' = h.index /\ items' = h.when

(* Init: a name that is not known is pushed, with the given time.          *)
Set(f, n, v) == [m \in DOMAIN f \cup {n} |-> IF m = n THEN v ELSE f[m]]
AddItem(h, new) ==
    IF new.name \in DOMAIN h.when THEN h
    ELSE HeapPush(HeapOf(h.arr, Set(h.index, new.name, 0), Set(h.when, new.name, new.when)),
                  new.name)
Adding == INSTANCE Fold WITH Step <- AddItem

(* Init: an item that was not found is removed at its index and deleted.   *)
Delete(f, n) == [m \in DOMAIN f \ {n} |-> f[m]]
RemoveItem(h, n) ==
    LET r == HeapRemove(h, h.index[n])
    IN HeapOf(r.arr, Delete(r.index, n), Delete(r.when, n))
Removing == INSTANCE Fold WITH Step <- RemoveItem

Op == ops < MaxOps /\ ops' = ops + 1

(* Init: the names in their order, then the items no longer found in the   *)
(* order in which range visits the map, which is any order.                *)
Init(names) ==
    /\ Op
    /\ \A n \in DOMAIN items \ Range(names) : index[n] # 0
    /\ LET grown == Adding!Fold(Heap, [i \in DOMAIN names |-> [name |-> names[i], when |-> now + freq]])
       IN \E order \in SetToSeqs(DOMAIN items \ Range(names)) : SetHeap(Removing!Fold(grown, order))
    /\ UNCHANGED <<held, freq, now>>

Changed(n, when, later) == when < items[n] \/ (later /\ when # items[n])

Fix(n, when, later) ==
    /\ Op
    /\ n \in DOMAIN items /\ Changed(n, when, later)
    /\ LET h == HeapOf(arr, index, [items EXCEPT ![n] = when])
       IN SetHeap(IF index[n] = 0 THEN h ELSE Sift(h, index[n], Len(arr)))
    /\ UNCHANGED <<held, freq, now>>

FixAll(whens, later) ==
    /\ Op
    /\ LET set == { n \in DOMAIN whens \cap DOMAIN items : Changed(n, whens[n], later) }
           when == [n \in DOMAIN items |-> IF n \in set THEN whens[n] ELSE items[n]]
       IN SetHeap(HeapInit(HeapOf(arr, index, when)))
    /\ UNCHANGED <<held, freq, now>>

(* The root is popped, or moved out by the frequency, and n returned. *)
Return(n) ==
    /\ Op /\ held = NoName
    /\ held' = n
    /\ SetHeap(IF freq = 0 THEN HeapPop(Heap)
               ELSE Sift(HeapOf(arr, index, [items EXCEPT ![arr[1]] = now + freq]), 1, Len(arr)))
    /\ UNCHANGED <<freq, now>>

(* A variant with a bug: the last item is returned. *)
nextLast == arr # <<>> /\ Return(Last(arr))

next == arr # <<>> /\ Return(arr[1])

Receive == held # NoName /\ held' = NoName /\ UNCHANGED <<arr, index, items, freq, now, ops>>

Tick == now < MaxTime /\ now' = now + 1 /\ UNCHANGED <<arr, index, items, held, freq, ops>>
----------------------------------------------------------------------------
IsHeap == \A i \in 2 .. Len(arr) : items[arr[Parent(i)]] <= items[arr[i]]

(* Start from any heap-ordered array over the first names of an order.     *)
HeapQueueInit ==
    /\ \E all \in {SetToSeq(Names)} : \E k \in 0 .. Len(all) : arr = SubSeq(all, 1, k)
    /\ index = [n \in Range(arr) |-> CHOOSE i \in 1 .. Len(arr) : arr[i] = n]
    /\ items \in [Range(arr) -> 1 .. MaxTime]
    /\ IsHeap
    /\ held = NoName /\ freq \in Freqs /\ now = MaxTime - freq /\ ops = 0

(* Init skips the names it knows, so only the order of the new ones counts. *)
Reconfigure == \E S \in SUBSET Names : \E new \in SetToSeqs(S \ DOMAIN items) :
    Init(new \o SetToSeq(S \cap DOMAIN items))

Next == \/ Reconfigure
        \/ \E n \in Names, w \in 0 .. now, later \in BOOLEAN : Fix(n, w, later)
        \/ \E S \in SUBSET Names, w \in 0 .. now : FixAll([n \in S |-> w], FALSE)
        \/ next \/ Receive \/ Tick
        \/ ops = MaxOps /\ UNCHANGED vars

Spec == HeapQueueInit /\ [][Next]_vars
----------------------------------------------------------------------------
(* Every operation leaves the array heap-ordered with each name once, and  *)
(* each item's index naming its place in the array, or 0 once it has been  *)
(* popped: otherwise a later Fix or Init would move or remove another item.*)
WellFormed ==
    /\ IsHeap
    /\ \A i \in 1 .. Len(arr) : index[arr[i]] = i
    /\ \A n \in DOMAIN index : index[n] # 0 => arr[index[n]] = n

Promise == INSTANCE Schedule WITH heap <- Range(arr)

(* The array implements the schedule: taking the root takes a name with    *)
(* the least time, and no operation loses, duplicates or reschedules       *)
(* another name.                                                           *)
KeepsSchedule == Promise!ScheduleSpec
=============================================================================
