------------------------------- MODULE Queue -------------------------------
(***************************************************************************)
(* util/queue/queue.go: the priority queue that decides which test group,  *)
(* dashboard or tab is processed next, and Send, the one goroutine that    *)
(* hands names to the receivers.                                           *)
(*                                                                         *)
(* The heap is kept as the set of names whose item is in q.queue; which    *)
(* name is at its root is any name with the least time (HeapQueue shows    *)
(* that the array with its index fields implements this).  Every critical  *)
(* section of q.lock is one step.  Send is a process with the program      *)
(* points                                                                  *)
(*    "loop"    at the top of its for loop, holding nothing;               *)
(*    "picked"  after q.lock.Unlock(), before the select of sleep;         *)
(*    "asleep"  in the select of sleep (timer or signal);                  *)
(*    "offer"   in the select that offers the name to the receivers;       *)
(*    "done"    returned.                                                  *)
(* Only in "asleep" does anybody receive from q.signal, so rouse, which    *)
(* does not block, wakes the sender there and is lost at "picked".         *)
(***************************************************************************)
EXTENDS Integers, FiniteSets

CONSTANTS
    Names,      \* names a configuration may hold
    NoName,     \* the nil that next() returns for an empty queue
    Freq,       \* the frequency given to Send; 0 means one-shot
    Nap,        \* the second that Send sleeps on an empty queue
    MaxTime,    \* bound: the clock stops here (see Tick)
    MaxCalls,   \* bound: calls of Init, Fix and FixAll by other goroutines
    Configs     \* sets of names that Init may be called with

ASSUME NamesAssumption == NoName \notin Names /\ Configs \subseteq SUBSET Names
ASSUME TimeAssumption == /\ Freq \in Nat /\ Nap \in Nat \ {0} /\ MaxTime \in Nat
                         /\ Freq # 0 => Nap <= Freq
ASSUME CallsAssumption == MaxCalls \in Nat

VARIABLES
    items,      \* q.items: the configured names, each with its item's when
    heap,       \* the names whose item is in q.queue
    pc,         \* where Send is
    who,        \* the name Send holds, or NoName
    until,      \* the time next() returned for it; the timer while asleep
    ctxDone,    \* the context of Send has been cancelled
    panicked,   \* a call has panicked; the process is gone
    now,        \* the clock
    calls,      \* calls made so far (bounded by MaxCalls)
    raced,      \* history: names whose time changed while Send was "picked"
    delivered   \* history: names received at least once

qvars == <<items, heap>>
sendVars == <<pc, who, until>>
histVars == <<raced, delivered>>
vars == <<items, heap, pc, who, until, ctxDone, panicked, now, calls, raced,
          delivered>>

(* The times that callers give: none asks for more than one period from now. *)
Times == 0 .. (now + Freq)
----------------------------------------------------------------------------
(* The queue as Send finds it: Init has been called once, at time 0. *)
QueueInit ==
    /\ \E S \in Configs : items = [n \in S |-> Freq] /\ heap = S
    /\ pc = "loop" /\ who = NoName /\ until = 0
    /\ ctxDone = FALSE /\ panicked = FALSE
    /\ now = 0 /\ calls = 0
    /\ raced = {} /\ delivered = {}

(* Variants with a bug: sleep is not followed by continue on an empty      *)
(* queue; a signal is never received.                                      *)
AwakeNoContinue == "offer"
RouseLost == UNCHANGED sendVars

(* Where Send goes on when its sleep ends. *)
Awake == IF who = NoName THEN "loop" ELSE "offer"

(* rouse: a send on the unbuffered signal with a default branch. *)
rouse == /\ pc' = IF pc = "asleep" THEN Awake ELSE pc
         /\ UNCHANGED <<who, until>>

(* History of the names S whose time a call has just set. *)
Touched(S) ==
    /\ raced' = IF pc = "picked" THEN raced \cup S ELSE raced
    /\ UNCHANGED delivered

Called == calls < MaxCalls /\ calls' = calls + 1
----------------------------------------------------------------------------
(* Init(names, now+freq): names already known keep their item, new ones    *)
(* are pushed, the others are removed at their heap index.  The index of   *)
(* an item that Send popped is -1, where heap.Remove panics.               *)
Reinit(S) ==
    /\ Called
    /\ IF DOMAIN items \ S \subseteq heap
         THEN /\ items' = [n \in S |-> IF n \in DOMAIN items THEN items[n]
                                                            ELSE now + Freq]
              /\ heap' = (heap \cap S) \cup (S \ DOMAIN items)
              /\ UNCHANGED panicked
              /\ raced' = IF pc = "picked" THEN raced \cup (S \ DOMAIN items) ELSE raced
              /\ UNCHANGED delivered
         ELSE panicked' = TRUE /\ UNCHANGED <<qvars, histVars>>
    /\ rouse
    /\ UNCHANGED <<ctxDone, now>>

(* The names of whens whose item FixAll or Fix changes. *)
Fixable(whens, later) ==
    { n \in DOMAIN whens \cap DOMAIN items :
        \/ whens[n] < items[n]
        \/ later /\ whens[n] # items[n] }

(* The common effect of FixAll and Fix: names that are not known are       *)
(* reported and do not keep the others from being fixed.  Fixing an item   *)
(* that is not in the heap (index -1) changes its when and nothing else.   *)
Adjust(whens, later) ==
    /\ Called
    /\ LET S == Fixable(whens, later) IN
         /\ items' = [n \in DOMAIN items |-> IF n \in S THEN whens[n] ELSE items[n]]
         /\ Touched(S)
    /\ rouse
    /\ UNCHANGED <<heap, ctxDone, panicked, now>>

FixAll(whens, later) == Adjust(whens, later)

Fix(n, when, later) == Adjust([m \in {n} |-> when], later)
----------------------------------------------------------------------------
(* What next() returns: the name and the time it had. *)
Held(n) == who' = n /\ until' = items[n]

(* Variants with a bug: the heap is not kept in order; next pops although  *)
(* there is a period; it counts the period from the old time; it only      *)
(* peeks although there is none.                                           *)
RootsUnordered == heap
PickAlwaysPops(n) == Held(n) /\ heap' = heap \ {n} /\ UNCHANGED items
PickFromWhen(n) ==
    Held(n) /\ items' = [items EXCEPT ![n] = items[n] + Freq] /\ UNCHANGED heap
PickOnlyPeeks(n) == Held(n) /\ UNCHANGED qvars

(* The names heap.Pop and peek may return. *)
Roots == { n \in heap : \A m \in heap : items[n] <= items[m] }

(* next() for frequency 0 pops the item, which stays in q.items; otherwise *)
(* it moves the item to now+frequency.                                     *)
Pick(n) ==
    /\ IF Freq = 0
         THEN heap' = heap \ {n} /\ UNCHANGED items
         ELSE items' = [items EXCEPT ![n] = now + Freq] /\ UNCHANGED heap
    /\ Held(n)

(* One turn of Send's loop up to the unlock. *)
SendNext ==
    /\ pc = "loop" /\ ~ctxDone
    /\ \/ \E n \in Roots : Pick(n) /\ pc' = "picked"
       \/ /\ heap = {}
          /\ pc' = IF Freq = 0 THEN "done" ELSE "picked"
          /\ who' = NoName
          /\ UNCHANGED <<qvars, until>>
    /\ raced' = {}
    /\ UNCHANGED <<ctxDone, panicked, now, calls, delivered>>

(* Entering the select of sleep, or skipping sleep for a name that is due. *)
SendSleep ==
    /\ pc = "picked"
    /\ \/ /\ who = NoName
          /\ until' = now + Nap /\ pc' = "asleep"
       \/ /\ who # NoName
          /\ pc' = IF until > now THEN "asleep" ELSE "offer"
          /\ UNCHANGED until
    /\ UNCHANGED <<qvars, who, ctxDone, panicked, now, calls, histVars>>

Wake(timer) ==
    /\ pc = "asleep" /\ timer
    /\ pc' = Awake
    /\ UNCHANGED <<qvars, who, until, ctxDone, panicked, now, calls, histVars>>

(* Variants with a bug: the timer is late; on an empty queue there is none.*)
SendTimerLate == Wake(now > until)
SendTimerOnlyNamed == Wake(who # NoName /\ now >= until)

(* The timer of sleep fires. *)
SendTimer == Wake(now >= until)

(* A receiver takes the name.  The context may be done as well: select     *)
(* then chooses either branch.                                             *)
SendDeliver ==
    /\ pc = "offer"
    /\ pc' = "loop" /\ who' = NoName
    /\ delivered' = delivered \cup {who}
    /\ UNCHANGED <<qvars, until, ctxDone, panicked, now, calls, raced>>

(* A variant with a bug: Send does not wait for a receiver. *)
SendGivesUp ==
    /\ pc = "offer" \/ (pc = "loop" /\ ctxDone)
    /\ pc' = "done" /\ who' = NoName
    /\ UNCHANGED <<qvars, until, ctxDone, panicked, now, calls, histVars>>

(* Send sees that its context is done: at the top of the loop or while     *)
(* offering, but not in sleep.                                             *)
SendCancelled ==
    /\ pc \in {"loop", "offer"} /\ ctxDone
    /\ pc' = "done" /\ who' = NoName
    /\ UNCHANGED <<qvars, until, ctxDone, panicked, now, calls, histVars>>

Send == SendNext \/ SendSleep \/ SendTimer \/ SendDeliver \/ SendCancelled
----------------------------------------------------------------------------
Cancel == /\ ~ctxDone
          /\ ctxDone' = TRUE
          /\ UNCHANGED <<qvars, sendVars, panicked, now, calls, histVars>>

(* Time passes.  The bound stops the clock at MaxTime, except for a        *)
(* sleeper that somebody waits for: its context is done, its name was      *)
(* fixed just before it fell asleep, or a name is due.                     *)
Awaited == ctxDone \/ who \in raced \/ \E n \in heap : items[n] <= now
Tick == /\ now < MaxTime \/ (pc = "asleep" /\ now < until /\ Awaited)
        /\ now' = now + 1
        /\ UNCHANGED <<qvars, sendVars, ctxDone, panicked, calls, histVars>>

(* Calls by other goroutines: a new configuration; the retry after a       *)
(* failed update, the only caller that may move a time out, and not past   *)
(* the frequency; a notification for one name; the fixers' FixAll.         *)
Reconfigure == \E S \in Configs : Reinit(S)
Retry == \E n \in Names, w \in Times : Fix(n, w, TRUE)
Notify == \E n \in Names, w \in Times : Fix(n, w, FALSE)
NotifyAll == \E S \in SUBSET Names : \E whens \in [S -> Times] : FixAll(whens, FALSE)
Call == Reconfigure \/ Retry \/ Notify \/ NotifyAll

(* Nothing left to do: Send has returned, the process is gone, or the      *)
(* bounds are used up.                                                     *)
Finished == /\ panicked \/ pc = "done" \/ (now >= MaxTime /\ calls = MaxCalls)
            /\ UNCHANGED vars

Next == \/ ~panicked /\ (Send \/ Call \/ Cancel \/ Tick)
        \/ Finished

Spec == QueueInit /\ [][Next]_vars

(* Fairness: the Go scheduler runs Send, timers fire and the receivers of  *)
(* the callers loop until the context is done.  Nobody has to call.        *)
Live == ~panicked /\ Send
Clock == ~panicked /\ Tick
FairSpec == Spec /\ WF_vars(Live) /\ WF_vars(Clock)
----------------------------------------------------------------------------
(* Type invariant: a sender that sleeps or offers was given a time by next *)
(* and its item is still known unless a reinit removed it.                 *)
TypeOK ==
    /\ DOMAIN items \subseteq Names /\ heap \subseteq DOMAIN items
    /\ items \in [DOMAIN items -> Int]
    /\ pc \in {"loop", "picked", "asleep", "offer", "done"}
    /\ who \in Names \cup {NoName}
    /\ until \in Int
    /\ now \in Nat /\ calls \in 0 .. MaxCalls
    /\ raced \subseteq Names /\ delivered \subseteq Names
    /\ pc \in {"loop", "done"} => who = NoName
    /\ pc = "offer" => who # NoName
    /\ ctxDone \in BOOLEAN /\ panicked \in BOOLEAN

(* No item is ever scheduled further out than one period: Send, Init and   *)
(* the retry of a failed update all use now + at most the frequency.       *)
WithinPeriod == \A n \in DOMAIN items : items[n] <= now + Freq

(* Send never sleeps past a scheduled name: while it waits in sleep, the   *)
(* timer is not later than the time of any name in the queue, except for   *)
(* the names that Init, Fix or FixAll changed between q.lock.Unlock() and  *)
(* the select, whose signal rouse dropped.                                 *)
OversleepOnlyIfRaced ==
    pc = "asleep" => \A n \in heap \ raced : until <= items[n]

(* With a period, no name is ever lost from the schedule: everything that  *)
(* is configured is in the heap, so Send comes back to it.                 *)
NothingDropped == Freq # 0 => heap = DOMAIN items

(* One-shot: each configured name is in exactly one of three places: still *)
(* queued, held by Send, or received.  Nothing is sent twice or forgotten. *)
OneShotOnce ==
    Freq = 0 =>
        /\ heap \cap delivered = {}
        /\ who \notin heap \cup delivered
        /\ pc # "done" => DOMAIN items \subseteq heap \cup delivered \cup {who}

(* One-shot: when Send returns without being cancelled, every configured   *)
(* name has been received ("Returns after all groups updated once").       *)
OneShotComplete ==
    [][Freq = 0 /\ pc # "done" /\ pc' = "done" /\ ~ctxDone
         => DOMAIN items \subseteq delivered]_vars

(* Exported methods are safe to call concurrently: no call panics. *)
NeverPanics == ~panicked

(* A due name is eventually offered, unless it is removed or moved out     *)
(* again or the context ends: no sequence of Fix calls, lost signals or    *)
(* early sends starves it.                                                 *)
Due(n) == n \in heap /\ items[n] <= now
Settled(n) == \/ who = n /\ pc = "offer"
              \/ n \notin DOMAIN items
              \/ who # n /\ items[n] > now
DueIsSent == \A n \in Names : Due(n) ~> (Settled(n) \/ ctxDone)

(* Cancelling the context ends Send, though sleep does not watch it. *)
CancelEnds == ctxDone ~> (pc = "done")

(* The queue implements the schedule it promises: while names are added,   *)
(* removed and fixed around a sleeping sender, each name it takes is one   *)
(* with the least time.                                                    *)
Promise == INSTANCE Schedule WITH held <- who, freq <- Freq
KeepsSchedule == Promise!ScheduleSpec
=============================================================================
