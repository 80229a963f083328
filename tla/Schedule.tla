------------------------------ MODULE Schedule ------------------------------
(***************************************************************************)
(* What util/queue promises its callers, without the array, the signal or  *)
(* the sleeping: a set of scheduled names, each with a time.  Taking a     *)
(* name takes one with the least time and moves it out by the frequency,   *)
(* or removes it when the frequency is zero; any other change of a time is *)
(* asked for by a caller.  Queue and HeapQueue implement it.               *)
(***************************************************************************)
EXTENDS Integers

CONSTANTS Names, NoName

VARIABLES items,    \* the configured names, each with its time
          heap,     \* the names that are scheduled
          held,     \* the name taken and not yet received, or NoName
          now,      \* the clock
          freq      \* the frequency, which never changes; 0 means one-shot

ScheduleInit == /\ DOMAIN items \subseteq Names /\ heap = DOMAIN items
                /\ held = NoName

(* The least name is taken. *)
Take(n) ==
    /\ held = NoName
    /\ n \in heap /\ \A m \in heap : items[n] <= items[m]
    /\ held' = n
    /\ IF freq = 0
         THEN heap' = heap \ {n} /\ UNCHANGED items
         ELSE items' = [items EXCEPT ![n] = now + freq] /\ UNCHANGED heap
    /\ UNCHANGED <<now, freq>>

(* It is received, or given up because the context is done. *)
Release == held # NoName /\ held' = NoName /\ UNCHANGED <<items, heap, now, freq>>

(* A new configuration keeps the times of the names it shares with the old *)
(* one; what it adds is scheduled, what it drops is not.                   *)
Replace(S) ==
    /\ heap' = (heap \cap S) \cup (S \ DOMAIN items)
    /\ DOMAIN items' = S
    /\ \A n \in S : items'[n] = IF n \in DOMAIN items THEN items[n] ELSE now + freq
    /\ UNCHANGED <<held, now, freq>>

(* A caller gives some names an earlier time, or a later one that is not   *)
(* further out than the frequency.                                         *)
Move == /\ DOMAIN items' = DOMAIN items
        /\ \A n \in DOMAIN items : items'[n] <= items[n] \/ items'[n] <= now + freq
        /\ UNCHANGED <<heap, held, now, freq>>

Wait == now' > now /\ UNCHANGED <<items, heap, held, freq>>

ScheduleNext == \/ \E n \in Names : Take(n)
                \/ \E S \in SUBSET Names : Replace(S)
                \/ Release \/ Move \/ Wait

ScheduleSpec == ScheduleInit /\ [][ScheduleNext]_<<items, heap, held, now, freq>>
=============================================================================
