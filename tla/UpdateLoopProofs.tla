-------------------------- MODULE UpdateLoopProofs --------------------------
(***************************************************************************)
(* Proofs about Queue and UpdateLoop for every set of names, any number of *)
(* workers, every frequency and every bound.                               *)
(*                                                                         *)
(* The queue.  PeriodicInv strengthens OversleepOnlyIfRaced: the bound on  *)
(* the timer has to hold already at "picked", before the sender sleeps,    *)
(* and WithinPeriod is needed because Send itself moves the picked name    *)
(* out.  OneShotInv strengthens OneShotOnce: a name that was popped can    *)
(* never leave q.items (removing it panics), so it is never pushed again.  *)
(*                                                                         *)
(* Composition: every step of the loop is a step of Queue or leaves the    *)
(* queue alone, so that each theorem about Queue holds for the queue as    *)
(* the updater uses it.  Mutual exclusion: the active map is exactly the   *)
(* set of groups being updated, which the second look in Claim keeps free  *)
(* of duplicates.                                                          *)
(***************************************************************************)
EXTENDS UpdateLoop, TLAPS

(* While Send holds a name, or found the queue empty, every name that did  *)
(* not change since is no earlier than the one it holds.                   *)
PickedFirst ==
    pc \in {"picked", "asleep"} =>
        \A n \in heap \ raced : who # NoName /\ until <= items[n]

(* The part of TypeOK about everything but the two flags. *)
DataOK ==
    /\ DOMAIN items \subseteq Names /\ heap \subseteq DOMAIN items
    /\ items \in [DOMAIN items -> Int]
    /\ pc \in {"loop", "picked", "asleep", "offer", "done"}
    /\ who \in Names \cup {NoName}
    /\ until \in Int
    /\ now \in Nat /\ calls \in 0 .. MaxCalls
    /\ raced \subseteq Names /\ delivered \subseteq Names
    /\ pc \in {"loop", "done"} => who = NoName
    /\ pc = "offer" => who # NoName
FlagsOK == ctxDone \in BOOLEAN /\ panicked \in BOOLEAN

(* TypeOK is the conjunction of its two parts. *)
LEMMA TypeParts == TypeOK <=> DataOK /\ FlagsOK
  BY DEF TypeOK, DataOK, FlagsOK

(* The case split of the proofs below. *)
LEMMA StepCases ==
  ASSUME [Next]_vars
  PROVE  \/ Reconfigure \/ Retry \/ Notify \/ NotifyAll
         \/ SendNext \/ SendSleep \/ SendTimer \/ SendDeliver \/ SendCancelled
         \/ Cancel \/ Tick \/ UNCHANGED vars
  BY DEF Next, Finished, Send, Call

(* What a call of Fix or FixAll does, whichever caller made it. *)
FixEffect ==
    /\ DOMAIN items' = DOMAIN items /\ items' \in [DOMAIN items -> Int]
    /\ \A n \in DOMAIN items : items'[n] <= items[n] \/ items'[n] <= now + Freq
    /\ \A n \in DOMAIN items :
          pc = "picked" => items'[n] = items[n] \/ n \in raced'
    /\ raced \subseteq raced' /\ raced' \subseteq raced \cup DOMAIN items
    /\ pc' = (IF pc = "asleep" THEN Awake ELSE pc)
    /\ calls' \in 0 .. MaxCalls
    /\ UNCHANGED <<heap, who, until, now, delivered, panicked, ctxDone>>

(* The common body of Fix and FixAll has that effect. *)
LEMMA AdjustEffect ==
  ASSUME DataOK, NEW whens, \A n \in DOMAIN whens : whens[n] \in Int, NEW later \in BOOLEAN,
         later => \A n \in DOMAIN whens : whens[n] <= now + Freq,
         Adjust(whens, later)
  PROVE  FixEffect
<1> USE CallsAssumption, TimeAssumption
<1> DEFINE S == Fixable(whens, later)
<1>1. /\ DOMAIN items' = DOMAIN items
      /\ \A n \in DOMAIN items : items'[n] = IF n \in S THEN whens[n] ELSE items[n]
  BY DEF Adjust
<1>2. S \subseteq DOMAIN items /\ S \subseteq DOMAIN whens
  BY DEF Fixable
<1>3. items' \in [DOMAIN items -> Int]
  BY <1>2 DEF Adjust, DataOK
<1>4. \A n \in S : whens[n] < items[n] \/ whens[n] <= now + Freq
  BY DEF Fixable
<1>5. \A n \in DOMAIN items : items'[n] <= items[n] \/ items'[n] <= now + Freq
  BY <1>1, <1>2, <1>4 DEF DataOK
<1>6. Touched(S) /\ rouse /\ Called /\ UNCHANGED <<heap, ctxDone, panicked, now>>
  BY DEF Adjust
<1>7. raced' = IF pc = "picked" THEN raced \cup S ELSE raced
  BY <1>6 DEF Touched
<1>8. calls' \in 0 .. MaxCalls
  BY <1>6 DEF Called, DataOK
<1> HIDE DEF S
<1> QED BY <1>1, <1>2, <1>3, <1>5, <1>6, <1>7, <1>8 DEF FixEffect, Touched, rouse

(* So has every caller: all of them ask for times within one period.       *)
LEMMA FixCases == DataOK /\ (Retry \/ Notify \/ NotifyAll) => FixEffect
<1> USE TimeAssumption
<1>1. ASSUME DataOK, NEW n \in Names, NEW w \in Times, Fix(n, w, TRUE)
      PROVE  FixEffect
  <2> DEFINE whens == [m \in {n} |-> w]
  <2>1. \A m \in DOMAIN whens : whens[m] \in Int /\ whens[m] <= now + Freq
    BY <1>1 DEF Times, DataOK
  <2>2. Adjust(whens, TRUE)
    BY <1>1 DEF Fix
  <2> HIDE DEF whens
  <2> QED BY <1>1, <2>1, <2>2, AdjustEffect
<1>2. ASSUME DataOK, NEW n \in Names, NEW w \in Times, Fix(n, w, FALSE)
      PROVE  FixEffect
  <2> DEFINE whens == [m \in {n} |-> w]
  <2>1. \A m \in DOMAIN whens : whens[m] \in Int
    BY <1>2 DEF Times, DataOK
  <2>2. Adjust(whens, FALSE)
    BY <1>2 DEF Fix
  <2> HIDE DEF whens
  <2> QED BY <1>2, <2>1, <2>2, AdjustEffect
<1>3. ASSUME DataOK, NEW S \in SUBSET Names, NEW whens \in [S -> Times], FixAll(whens, FALSE)
      PROVE  FixEffect
  <2>1. \A m \in DOMAIN whens : whens[m] \in Int
    BY <1>3 DEF Times, DataOK
  <2> QED BY <1>3, <2>1, AdjustEffect DEF FixAll
<1> QED BY <1>1, <1>2, <1>3, Zenon DEF Retry, Notify, NotifyAll

(* Type correctness of Queue for one step. *)
LEMMA DataStep == DataOK /\ [Next]_vars => DataOK'
<1> SUFFICES ASSUME DataOK, [Next]_vars PROVE DataOK'
  OBVIOUS
<1> USE NamesAssumption, TimeAssumption, CallsAssumption
<1>1. ASSUME NEW S \in Configs, Reinit(S) PROVE DataOK'
  <2>1. S \subseteq Names
    OBVIOUS
  <2>2. CASE DOMAIN items \ S \subseteq heap
    <3>1. DOMAIN items' = S /\ items' \in [S -> Int] /\ heap' \subseteq S
      BY <1>1, <2>2 DEF DataOK, Reinit
    <3> QED BY <1>1, <2>1, <2>2, <3>1 DEF DataOK, Reinit, Called, rouse, Awake
  <2>3. CASE ~(DOMAIN items \ S \subseteq heap)
    BY <1>1, <2>3 DEF DataOK, Reinit, Called, rouse, Awake, qvars, histVars
  <2> QED BY <2>2, <2>3
<1>2. Retry \/ Notify \/ NotifyAll => DataOK'
  BY FixCases DEF FixEffect, DataOK, Awake
<1>3. SendNext => DataOK'
  BY DEF DataOK, SendNext, Roots, Pick, Held, qvars
<1>4. SendSleep => DataOK'
  BY DEF DataOK, SendSleep, qvars, histVars
<1>5. SendTimer => DataOK'
  BY DEF DataOK, SendTimer, Wake, Awake, qvars, histVars
<1>6. SendDeliver => DataOK'
  BY DEF DataOK, SendDeliver, qvars
<1>7. SendCancelled => DataOK'
  BY DEF DataOK, SendCancelled, qvars, histVars
<1>8. Cancel => DataOK'
  BY DEF DataOK, Cancel, qvars, sendVars, histVars
<1>9. Tick => DataOK'
  BY DEF DataOK, Tick, qvars, sendVars, histVars
<1>10. UNCHANGED vars => DataOK'
  BY DEF DataOK, vars
<1> QED
  BY <1>1, <1>2, <1>3, <1>4, <1>5, <1>6, <1>7, <1>8, <1>9, <1>10, StepCases DEF Reconfigure

(* The flags are set to TRUE or left alone. *)
LEMMA FlagsStep == FlagsOK /\ [Next]_vars => FlagsOK'
<1> SUFFICES ASSUME FlagsOK, [Next]_vars PROVE FlagsOK'
  OBVIOUS
<1>1. \/ UNCHANGED <<ctxDone, panicked>>
      \/ ctxDone' = TRUE /\ UNCHANGED panicked
      \/ panicked' = TRUE /\ UNCHANGED ctxDone
  BY Zenon DEF Next, Send, Call, Finished, Reconfigure, Retry,
     Notify, NotifyAll, Reinit, Fix, FixAll, Adjust, SendNext,
     SendSleep, SendTimer, Wake, SendDeliver, SendCancelled, Cancel, Tick, vars
<1> QED BY <1>1, Zenon DEF FlagsOK

(* Queue keeps its types: the program points, the held name and the items  *)
(* of q.items stay within their domains through every interleaving.        *)
THEOREM TypeCorrect == Spec => []TypeOK
<1>1. QueueInit => DataOK
  BY NamesAssumption, TimeAssumption, CallsAssumption DEF QueueInit, DataOK
<1>2. QueueInit => FlagsOK
  BY Zenon DEF QueueInit, FlagsOK
<1> QED BY <1>1, <1>2, DataStep, FlagsStep, TypeParts, PTL DEF Spec
----------------------------------------------------------------------------
PeriodicInv == DataOK /\ WithinPeriod /\ NothingDropped /\ PickedFirst

(* One step keeps the queue's periodic invariant. *)
LEMMA PeriodicStep == PeriodicInv /\ [Next]_vars => PeriodicInv'
<1> SUFFICES ASSUME DataOK, WithinPeriod, NothingDropped, PickedFirst, [Next]_vars
             PROVE  WithinPeriod' /\ NothingDropped' /\ PickedFirst'
  BY DataStep DEF PeriodicInv
<1> USE NamesAssumption, TimeAssumption
<1>1. ASSUME NEW S \in Configs, Reinit(S)
      PROVE  WithinPeriod' /\ NothingDropped' /\ PickedFirst'
  <2>1. CASE DOMAIN items \ S \subseteq heap
    <3>1. /\ DOMAIN items' = S
          /\ \A n \in S : items'[n] = IF n \in DOMAIN items THEN items[n] ELSE now + Freq
          /\ heap' = (heap \cap S) \cup (S \ DOMAIN items)
          /\ UNCHANGED now
      BY <1>1, <2>1 DEF Reinit
    <3>2. WithinPeriod'
      BY <3>1 DEF WithinPeriod, DataOK
    <3>3. NothingDropped'
      BY <3>1 DEF NothingDropped
    <3>4. PickedFirst'
      BY <1>1, <2>1, <3>1 DEF PickedFirst, Reinit, rouse, Awake, DataOK
    <3> QED BY <3>2, <3>3, <3>4
  <2>2. CASE ~(DOMAIN items \ S \subseteq heap)
    BY <1>1, <2>2 DEF Reinit, rouse, Awake, qvars, histVars, WithinPeriod, NothingDropped,
       PickedFirst
  <2> QED BY <2>1, <2>2
<1>2. ASSUME FixEffect PROVE WithinPeriod' /\ NothingDropped' /\ PickedFirst'
  <2>1. WithinPeriod'
    BY <1>2 DEF FixEffect, WithinPeriod, DataOK
  <2>2. NothingDropped'
    BY <1>2 DEF FixEffect, NothingDropped
  <2>3. PickedFirst'
    BY <1>2 DEF FixEffect, PickedFirst, DataOK, Awake
  <2> QED BY <2>1, <2>2, <2>3
<1>3. ASSUME SendNext PROVE WithinPeriod' /\ NothingDropped' /\ PickedFirst'
  <2>1. CASE heap = {} /\ UNCHANGED qvars
    BY <1>3, <2>1 DEF SendNext, WithinPeriod, NothingDropped, PickedFirst, qvars
  <2>2. ASSUME NEW n \in Roots, Pick(n), pc' = "picked"
        PROVE  WithinPeriod' /\ NothingDropped' /\ PickedFirst'
    <3>1. n \in heap /\ \A m \in heap : items[n] <= items[m]
      BY <2>2 DEF Roots
    <3>2. who' = n /\ until' = items[n] /\ UNCHANGED now /\ n # NoName
      BY <1>3, <2>2, <3>1 DEF Pick, Held, SendNext, DataOK
    <3>3. WithinPeriod'
      BY <2>2, <3>1, <3>2 DEF Pick, Held, WithinPeriod, DataOK
    <3>4. NothingDropped'
      BY <2>2, <3>1 DEF Pick, Held, NothingDropped, DataOK
    <3>5. \A m \in heap' : items[n] <= items'[m]
      BY <2>2, <3>1 DEF Pick, Held, DataOK, WithinPeriod
    <3> QED BY <3>2, <3>3, <3>4, <3>5 DEF PickedFirst
  <2> QED BY <1>3, <2>1, <2>2 DEF SendNext
<1>4. SendSleep => WithinPeriod' /\ NothingDropped' /\ PickedFirst'
  BY DEF SendSleep, WithinPeriod, NothingDropped, PickedFirst, qvars, histVars
<1>5. SendTimer \/ SendDeliver \/ SendCancelled \/ Cancel \/ UNCHANGED vars
        => WithinPeriod' /\ NothingDropped' /\ PickedFirst'
  BY DEF SendTimer, Wake, SendDeliver, SendCancelled, Cancel, vars, Awake, WithinPeriod,
     NothingDropped, PickedFirst, qvars, sendVars, histVars
<1>6. Tick => WithinPeriod' /\ NothingDropped' /\ PickedFirst'
  BY DEF Tick, WithinPeriod, NothingDropped, PickedFirst, qvars, sendVars, histVars, DataOK
<1> QED BY <1>1, <1>2, <1>3, <1>4, <1>5, <1>6, StepCases, FixCases DEF Reconfigure

(* The inductive invariant holds in every state. *)
LEMMA PeriodicInvariant == Spec => []PeriodicInv
<1>1. QueueInit => PeriodicInv
  BY NamesAssumption, TimeAssumption, CallsAssumption
  DEF QueueInit, PeriodicInv, DataOK, WithinPeriod, NothingDropped, PickedFirst
<1> QED BY <1>1, PeriodicStep, PTL DEF Spec

(* Send never sleeps past a name, except one whose rouse arrived between   *)
(* the unlock and the select of sleep.                                     *)
THEOREM SleepsNoLonger == Spec => []OversleepOnlyIfRaced
<1>1. PeriodicInv => OversleepOnlyIfRaced
  BY DEF PeriodicInv, PickedFirst, OversleepOnlyIfRaced
<1> QED BY <1>1, PeriodicInvariant, PTL

(* Every item is due within one period, whoever scheduled it.              *)
THEOREM ScheduleKept == Spec => []WithinPeriod
  BY PeriodicInvariant, PTL DEF PeriodicInv

(* With a period nothing that is configured ever leaves the heap, although *)
(* Send, Fix and Init change it around each other.                         *)
THEOREM NothingLost == Spec => []NothingDropped
  BY PeriodicInvariant, PTL DEF PeriodicInv

(* With a period no call of Init can hit a popped item, so none panics.    *)
THEOREM PeriodicNeverPanics == ASSUME Freq # 0 PROVE Spec => []NeverPanics
<1>1. QueueInit => NeverPanics
  BY Zenon DEF QueueInit, NeverPanics
<1>2. PeriodicInv /\ NeverPanics /\ [Next]_vars => NeverPanics'
  <2> SUFFICES ASSUME PeriodicInv, NeverPanics, [Next]_vars PROVE panicked' = panicked
    BY Zenon DEF NeverPanics
  <2>1. ASSUME NEW S \in Configs, Reinit(S) PROVE panicked' = panicked
    <3>1. DOMAIN items \ S \subseteq heap
      BY DEF PeriodicInv, NothingDropped
    <3> QED BY <2>1, <3>1 DEF Reinit
  <2>2. (Retry \/ Notify \/ NotifyAll) => panicked' = panicked
    BY FixCases DEF FixEffect, PeriodicInv
  <2> QED BY <2>1, <2>2, StepCases DEF Reconfigure, SendNext, SendSleep, SendTimer, Wake, SendDeliver,
             SendCancelled, Cancel, Tick, vars
<1> QED BY <1>1, <1>2, PeriodicInvariant, PTL DEF Spec
----------------------------------------------------------------------------
(* One-shot: popped names stay in q.items, so the three places of          *)
(* OneShotOnce stay disjoint through every reconfiguration.                *)
OneShotInv ==
    /\ heap \cap delivered = {}
    /\ who \notin heap \cup delivered
    /\ delivered \subseteq DOMAIN items
    /\ who \in DOMAIN items \cup {NoName}
    /\ pc # "done" => DOMAIN items \subseteq heap \cup delivered \cup {who}

(* One step keeps each name in one place. *)
LEMMA OneShotStep ==
  ASSUME Freq = 0
  PROVE  DataOK /\ OneShotInv /\ [Next]_vars => OneShotInv'
<1> SUFFICES ASSUME DataOK, OneShotInv, [Next]_vars PROVE OneShotInv'
  OBVIOUS
<1> USE NamesAssumption
<1>1. ASSUME NEW S \in Configs, Reinit(S) PROVE OneShotInv'
  <2>1. CASE DOMAIN items \ S \subseteq heap
    <3>1. /\ DOMAIN items' = S /\ heap' = (heap \cap S) \cup (S \ DOMAIN items)
          /\ UNCHANGED <<delivered, who>>
          /\ pc = "done" => pc' = "done"
      BY <1>1, <2>1 DEF Reinit, rouse
    <3>2. pc' # "done" => pc # "done"
      BY <3>1
    <3>3. delivered \subseteq S /\ who \in S \cup {NoName} /\ NoName \notin S
      BY <2>1, NamesAssumption DEF OneShotInv
    <3> QED BY <3>1, <3>2, <3>3 DEF OneShotInv
  <2>2. CASE ~(DOMAIN items \ S \subseteq heap)
    BY <1>1, <2>2 DEF Reinit, rouse, qvars, histVars, OneShotInv
  <2> QED BY <2>1, <2>2
<1>2. FixEffect => OneShotInv'
  BY DEF FixEffect, OneShotInv
<1>3. SendNext => OneShotInv'
  BY DEF SendNext, Roots, Pick, Held, qvars, OneShotInv, DataOK
<1>4. SendSleep => OneShotInv'
  BY DEF SendSleep, qvars, histVars, OneShotInv
<1>5. SendTimer => OneShotInv'
  BY DEF SendTimer, Wake, qvars, histVars, OneShotInv
<1>6. SendDeliver => OneShotInv'
  BY DEF SendDeliver, qvars, OneShotInv, DataOK
<1>7. SendCancelled => OneShotInv'
  BY DEF SendCancelled, qvars, histVars, OneShotInv, DataOK
<1>8. Cancel \/ Tick \/ UNCHANGED vars => OneShotInv'
  BY DEF Cancel, Tick, vars, qvars, sendVars, histVars, OneShotInv
<1> QED BY <1>1, <1>2, <1>3, <1>4, <1>5, <1>6, <1>7, <1>8, StepCases, FixCases DEF Reconfigure

(* In one-shot mode every configured name is queued, held or received, and *)
(* in one of these places only.                                            *)
THEOREM OneShotExactlyOnce == Spec => []OneShotOnce
<1>1. CASE Freq = 0
  <2>1. QueueInit => DataOK /\ OneShotInv
    BY NamesAssumption, TimeAssumption, CallsAssumption DEF QueueInit, DataOK, OneShotInv
  <2>2. DataOK /\ OneShotInv => OneShotOnce
    BY DEF OneShotInv, OneShotOnce
  <2> QED BY <1>1, <2>1, <2>2, OneShotStep, DataStep, PTL DEF Spec
<1>2. CASE Freq # 0
  <2>1. OneShotOnce
    BY <1>2 DEF OneShotOnce
  <2> QED BY <2>1, PTL
<1> QED BY <1>1, <1>2

(* One-shot: Send returns on its own only after everything was received.   *)
THEOREM OneShotSendsAll == Spec => OneShotComplete
<1>1. CASE Freq = 0
  <2>1. QueueInit => DataOK /\ OneShotInv
    BY NamesAssumption, TimeAssumption, CallsAssumption DEF QueueInit, DataOK, OneShotInv
  <2>2. ASSUME DataOK, OneShotInv, [Next]_vars, pc # "done", pc' = "done", ~ctxDone
        PROVE  DOMAIN items \subseteq delivered
    <3>1. SendNext
      <4>1. ~(Reconfigure \/ Retry \/ Notify \/ NotifyAll)
        BY <2>2, FixCases DEF FixEffect, Reconfigure, Reinit, rouse, Awake
      <4> QED BY <2>2, <4>1, StepCases DEF SendSleep, SendTimer, Wake, SendDeliver, SendCancelled,
                 Cancel, Tick, vars, Awake, sendVars
    <3>2. heap = {} /\ who = NoName
      BY <2>2, <3>1 DEF SendNext, Pick, Held, DataOK
    <3> QED BY <2>2, <3>2, NamesAssumption DEF OneShotInv, DataOK
  <2> QED BY <1>1, <2>1, <2>2, OneShotStep, DataStep, PTL DEF Spec, OneShotComplete
<1>2. CASE Freq # 0
  <2>1. [Freq = 0 /\ pc # "done" /\ pc' = "done" /\ ~ctxDone
           => DOMAIN items \subseteq delivered]_vars
    BY <1>2
  <2> QED BY <2>1, PTL DEF OneShotComplete
<1> QED BY <1>1, <1>2
----------------------------------------------------------------------------
(* Refinement: who plays the part of held; everything Send does between    *)
(* taking a name and its receipt is a stuttering step of the schedule.     *)
PromiseVars == <<items, heap, who, now, Freq>>

(* Every step of the queue is a step of the schedule or leaves it alone.   *)
LEMMA ScheduleStep == DataOK /\ [Next]_vars => [Promise!ScheduleNext]_PromiseVars
<1> SUFFICES ASSUME DataOK, [Next]_vars PROVE [Promise!ScheduleNext]_PromiseVars
  OBVIOUS
<1> USE NamesAssumption, TimeAssumption DEF PromiseVars
<1>1. ASSUME NEW S \in Configs, Reinit(S) PROVE [Promise!ScheduleNext]_PromiseVars
  <2>1. CASE DOMAIN items \ S \subseteq heap
    <3>1. S \in SUBSET Names
      OBVIOUS
    <3>2. Promise!Replace(S)
      BY <1>1, <2>1 DEF Reinit, rouse, Promise!Replace
    <3> QED BY <3>1, <3>2 DEF Promise!ScheduleNext
  <2>2. CASE ~(DOMAIN items \ S \subseteq heap)
    BY <1>1, <2>2 DEF Reinit, rouse, qvars
  <2> QED BY <2>1, <2>2
<1>2. Retry \/ Notify \/ NotifyAll => Promise!Move
  BY FixCases DEF FixEffect, Promise!Move
<1>3. SendNext => [Promise!ScheduleNext]_PromiseVars
  <2>1. ASSUME NEW n \in Roots, SendNext, Pick(n) PROVE Promise!Take(n) /\ n \in Names
    BY <2>1 DEF SendNext, Roots, Pick, Held, Promise!Take, DataOK
  <2> QED BY <2>1 DEF SendNext, qvars, DataOK, Promise!ScheduleNext
<1>4. SendSleep \/ SendTimer \/ Cancel => UNCHANGED PromiseVars
  BY DEF SendSleep, SendTimer, Wake, Cancel, qvars, sendVars
<1>5. SendDeliver => Promise!Release
  BY DEF SendDeliver, qvars, DataOK, Promise!Release
<1>6. SendCancelled => Promise!Release \/ UNCHANGED PromiseVars
  BY DEF SendCancelled, qvars, DataOK, Promise!Release
<1>7. Tick => Promise!Wait
  BY DEF Tick, qvars, sendVars, DataOK, Promise!Wait
<1> QED
  BY <1>1, <1>2, <1>3, <1>4, <1>5, <1>6, <1>7, StepCases
  DEF Promise!ScheduleNext, Reconfigure, vars

(* The queue implements the schedule: with callers, lost signals and early *)
(* sends interleaved, each name that Send takes has the least time, is     *)
(* moved out by exactly one period (or removed), and nothing else changes  *)
(* a time by more than its caller asked for.                               *)
THEOREM ImplementsSchedule == Spec => KeepsSchedule
<1>1. QueueInit => DataOK /\ Promise!ScheduleInit
  BY NamesAssumption, TimeAssumption, CallsAssumption
  DEF QueueInit, DataOK, Promise!ScheduleInit
<1> QED BY <1>1, DataStep, ScheduleStep, PTL
        DEF Spec, KeepsSchedule, Promise!ScheduleSpec, PromiseVars
-----------------------------------------------------------------------------
(* The loop around the queue                                               *)

Updating == {"update", "release", "fixed"}

RelayOK == relay.at \in {"lookup", "offer"} => relay.name \in Names

WorkersOK ==
    /\ worker = [w \in Workers |-> worker[w]]
    /\ \A w \in Workers :
         /\ worker[w] = At(worker[w].at, worker[w].name)
         /\ worker[w].at \in {"idle", "check", "claim", "update", "release", "fixed", "gone"}
         /\ worker[w].at \notin {"idle", "gone"} => worker[w].name \in Names

LoopInv == DataOK /\ RelayOK /\ WorkersOK

(* The fields of the state of a goroutine. *)
LEMMA AtFields == \A p, n : At(p, n).at = p /\ At(p, n).name = n
BY DEF At

(* Moving a goroutine on keeps its group. *)
LEMMA AtMoves == \A p, n, q : [At(p, n) EXCEPT !.at = q] = At(q, n)
BY DEF At

(* The retry delay is within the period. *)
LEMMA HalfOfPeriod ==
    ASSUME NEW f \in Nat
    PROVE  f \div 4 \in Nat /\ f \div 2 \in Nat /\ f \div 2 <= f
  OBVIOUS

(* The queue sees only calls that Queue allows its callers. *)
LEMMA LoopIsQueueStep ==
    ASSUME LoopInv, [LoopNext]_allVars
    PROVE  [Next]_vars
<1> USE TimeAssumption
<1>1. InnerSend \/ RelayReceive => Send
  BY DEF InnerSend, RelayReceive, Send
<1>2. ASSUME NEW w \in Workers, UpdateFails(w) PROVE Retry \/ UNCHANGED vars
  <2>1. CASE Freq = 0
    BY <1>2, <2>1 DEF UpdateFails
  <2>2. CASE Freq > 0
    <3>1. worker[w].name \in Names
      BY <1>2 DEF UpdateFails, Ends, LoopInv, WorkersOK
    <3>2. PICK t \in (now + Freq \div 4) .. (now + Freq \div 2) : Fix(worker[w].name, t, TRUE)
      <4>1. Freq # 0
        BY <2>2
      <4> QED BY <1>2, <4>1, Zenon DEF UpdateFails
    <3>3. Freq \div 4 \in Nat /\ Freq \div 2 \in Nat /\ Freq \div 2 <= Freq
      BY HalfOfPeriod
    <3>4. now \in Nat
      BY DEF LoopInv, DataOK
    <3>5. t \in Times
      BY <3>2, <3>3, <3>4 DEF Times
    <3> QED BY <3>1, <3>2, <3>5 DEF Retry
  <2> QED BY <2>1, <2>2
<1>3. ASSUME NEW w \in Workers, UpdateUnfinished(w) PROVE Notify
  <2>1. worker[w].name \in Names /\ now \in Times
    BY <1>3 DEF UpdateUnfinished, Ends, LoopInv, WorkersOK, DataOK, Times
  <2> QED BY <1>3, <2>1 DEF UpdateUnfinished, Notify
<1>4. ASSUME NEW w \in Workers, Work(w) PROVE Retry \/ Notify \/ UNCHANGED vars
  BY <1>2, <1>3, <1>4
  DEF Work, RelayGive, Check, Claim, UpdateSucceeds, Release, WorkerExits
<1>5. fixOnce => NotifyAll
  <2> SUFFICES ASSUME fixOnce PROVE NotifyAll
    OBVIOUS
  <2>1. PICK S \in SUBSET DOMAIN items : \E t \in [S -> 0 .. now] :
          FixAll([n \in DOMAIN items |-> IF n \in S THEN t[n] + Freq ELSE now], FALSE)
    BY DEF fixOnce
  <2>2. PICK t \in [S -> 0 .. now] :
          FixAll([n \in DOMAIN items |-> IF n \in S THEN t[n] + Freq ELSE now], FALSE)
    BY <2>1
  <2> DEFINE whens == [n \in DOMAIN items |-> IF n \in S THEN t[n] + Freq ELSE now]
  <2>3. whens \in [DOMAIN items -> Times]
    BY DEF Times, LoopInv, DataOK
  <2>4. DOMAIN items \in SUBSET Names
    BY DEF LoopInv, DataOK
  <2> HIDE DEF whens
  <2> QED BY <2>2, <2>3, <2>4 DEF NotifyAll, whens
<1>6. FixGCS => NotifyAll
  <2> SUFFICES ASSUME FixGCS PROVE NotifyAll
    OBVIOUS
  <2>1. PICK S \in SUBSET DOMAIN items, t \in now .. (now + Freq) :
          FixAll([n \in S |-> t], FALSE)
    BY DEF FixGCS
  <2> DEFINE whens == [n \in S |-> t]
  <2>2. whens \in [S -> Times]
    BY DEF Times, LoopInv, DataOK
  <2>3. S \in SUBSET Names
    BY DEF LoopInv, DataOK
  <2> HIDE DEF whens
  <2> QED BY <2>1, <2>2, <2>3 DEF NotifyAll, whens
<1>7. ConfigChange => Reconfigure
  BY DEF ConfigChange
<1>8. LoopCancel \/ LoopTick => Cancel \/ Tick
  BY DEF LoopCancel, LoopTick
<1>9. RelayLookup \/ RelayEnds \/ LoopDone \/ UNCHANGED allVars => UNCHANGED vars
  BY DEF RelayLookup, RelayEnds, LoopDone, allVars
<1> QED
  BY <1>1, <1>4, <1>5, <1>6, <1>7, <1>8, <1>9
  DEF LoopNext, Deliver, Next, Call

(* The names that travel through the relay and the workers are names.      *)
LEMMA LoopInvStep == LoopInv /\ [LoopNext]_allVars => LoopInv'
<1> SUFFICES ASSUME LoopInv, [LoopNext]_allVars PROVE LoopInv'
  OBVIOUS
<1>1. DataOK'
  BY LoopIsQueueStep, DataStep DEF LoopInv
<1>2. RelayOK'
  <2>1. RelayReceive => RelayOK'
    BY AtFields, NamesAssumption
    DEF RelayReceive, SendDeliver, RelayOK, LoopInv, DataOK
  <2>2. RelayLookup => RelayOK'
    BY AtFields DEF RelayLookup, RelayOK, LoopInv
  <2>3. RelayEnds \/ (\E w \in Workers : RelayGive(w)) => RelayOK'
    BY AtFields DEF RelayEnds, RelayGive, RelayOK
  <2>4. UNCHANGED relay => RelayOK'
    BY DEF RelayOK, LoopInv
  <2> QED
    BY <2>1, <2>2, <2>3, <2>4
    DEF LoopNext, Deliver, Work, InnerSend, Check, Claim, Drop, UpdateSucceeds, UpdateFails,
        UpdateUnfinished, Ends, Release, WorkerExits, ConfigChange, fixOnce, FixGCS,
        LoopCancel, LoopTick, LoopDone, allVars, loopVars
<1>3. WorkersOK'
  <2>1. ASSUME NEW w \in Workers, NEW p, NEW n,
               worker' = [worker EXCEPT ![w] = At(p, n)],
               p \in {"idle", "check", "claim", "update", "release", "fixed", "gone"},
               p \notin {"idle", "gone"} => n \in Names
        PROVE  WorkersOK'
    BY <2>1, AtFields DEF LoopInv, WorkersOK
  <2>2. ASSUME NEW w \in Workers, NEW p \in {"claim", "update", "release", "fixed"},
               worker' = [worker EXCEPT ![w].at = p],
               worker[w].at \notin {"idle", "gone"}
        PROVE  WorkersOK'
    <3>1. worker' = [worker EXCEPT ![w] = At(p, worker[w].name)]
      <4>1. worker' = [worker EXCEPT ![w] = [worker[w] EXCEPT !.at = p]]
        BY <2>2
      <4>2. [worker[w] EXCEPT !.at = p] = At(p, worker[w].name)
        <5>1. worker[w] = At(worker[w].at, worker[w].name)
          BY DEF LoopInv, WorkersOK
        <5> DEFINE q == worker[w].at
                   n == worker[w].name
        <5>2. worker[w] = At(q, n)
          BY <5>1
        <5> HIDE DEF q, n
        <5>3. [worker[w] EXCEPT !.at = p] = At(p, n)
          BY <5>2, AtMoves
        <5> QED BY <5>3 DEF n
      <4> QED BY <4>1, <4>2
    <3>2. worker[w].name \in Names
      BY <2>2 DEF LoopInv, WorkersOK
    <3> QED BY <2>1, <3>1, <3>2
  <2>3. UNCHANGED worker => WorkersOK'
    BY DEF LoopInv, WorkersOK
  <2>4. ASSUME NEW w \in Workers, Work(w) PROVE WorkersOK'
    <3>1. RelayGive(w) => WorkersOK'
      BY <2>1 DEF RelayGive, LoopInv, RelayOK
    <3>2. Check(w) => WorkersOK'
      BY <2>1, <2>2 DEF Check, Drop
    <3>3. Claim(w) => WorkersOK'
      BY <2>1, <2>2 DEF Claim, Drop
    <3>4. UpdateSucceeds(w) \/ UpdateFails(w) \/ UpdateUnfinished(w) => WorkersOK'
      BY <2>2 DEF UpdateSucceeds, UpdateFails, UpdateUnfinished, Ends
    <3>5. Release(w) \/ WorkerExits(w) => WorkersOK'
      BY <2>1 DEF Release, WorkerExits
    <3> QED BY <2>4, <3>1, <3>2, <3>3, <3>4, <3>5 DEF Work
  <2> QED
    BY <2>3, <2>4
    DEF LoopNext, Deliver, InnerSend, RelayReceive, RelayLookup, RelayEnds, ConfigChange,
        fixOnce, FixGCS, LoopCancel, LoopTick, LoopDone, allVars, loopVars
<1> QED BY <1>1, <1>2, <1>3 DEF LoopInv

(* The invariant holds initially. *)
LEMMA LoopInvInit == LoopInit => LoopInv
  BY NamesAssumption, TimeAssumption, CallsAssumption, AtFields
  DEF LoopInit, QueueInit, LoopInv, DataOK, RelayOK, WorkersOK

(* Composition: Update, its workers, its fixers and its configuration      *)
(* observer use the queue as Queue says callers do, so that every theorem  *)
(* above about the queue is a theorem of the updater's loop.               *)
THEOREM LoopUsesQueue == LoopSpec => UsesQueue
<1>1. LoopInit => QueueInit
  BY DEF LoopInit
<1> QED BY <1>1, LoopInvInit, LoopInvStep, LoopIsQueueStep, PTL
        DEF LoopSpec, UsesQueue, Spec
----------------------------------------------------------------------------
(* The claims of the workers, as functions of the state of one worker.     *)
Holds(w) == worker[w].at \in Updating

Exclusive ==
    /\ \A v, w \in Workers : v # w /\ Holds(v) /\ Holds(w) => worker[v].name # worker[w].name
    /\ \A n : n \in active <=> \E w \in Workers : Holds(w) /\ worker[w].name = n

(* MutualExclusion in a form that is easier to reason with. *)
LEMMA ExclusiveForm == Exclusive => MutualExclusion
  BY DEF Exclusive, MutualExclusion, Holds, Updating

(* One step keeps the active map and the claims in line. *)
LEMMA ExclusiveStep == LoopInv /\ Exclusive /\ [LoopNext]_allVars => Exclusive'
<1> SUFFICES ASSUME LoopInv, Exclusive, [LoopNext]_allVars PROVE Exclusive'
  OBVIOUS
<1> USE AtFields
<1>1. ASSUME NEW w \in Workers,
             \A v \in Workers \ {w} : worker'[v] = worker[v],
             Holds(w)' <=> Holds(w), Holds(w) => worker'[w].name = worker[w].name,
             UNCHANGED active
      PROVE  Exclusive'
  BY <1>1 DEF Exclusive, Holds
<1>2. ASSUME NEW w \in Workers, NEW p, worker' = [worker EXCEPT ![w].at = p]
      PROVE  /\ \A v \in Workers \ {w} : worker'[v] = worker[v]
             /\ worker'[w].at = p /\ worker'[w].name = worker[w].name
  BY <1>2 DEF LoopInv, WorkersOK, At
<1>3. ASSUME NEW w \in Workers, NEW p, NEW n, worker' = [worker EXCEPT ![w] = At(p, n)]
      PROVE  /\ \A v \in Workers \ {w} : worker'[v] = worker[v]
             /\ worker'[w].at = p /\ worker'[w].name = n
  BY <1>3 DEF LoopInv, WorkersOK
<1>4. ASSUME NEW w \in Workers, Work(w) PROVE Exclusive'
  <2>1. CASE RelayGive(w) \/ WorkerExits(w)
    BY <1>1, <1>3, <2>1 DEF RelayGive, WorkerExits, Holds, Updating
  <2>2. CASE Check(w)
    BY <1>1, <1>2, <1>3, <2>2 DEF Check, Drop, Holds, Updating
  <2>3. CASE Claim(w) /\ Busy(worker[w].name)
    BY <1>1, <1>3, <2>3 DEF Claim, Drop, Holds, Updating
  <2>4. CASE Claim(w) /\ ~Busy(worker[w].name)
    <3>1. /\ worker' = [worker EXCEPT ![w].at = "update"]
          /\ active' = active \cup {worker[w].name}
          /\ worker[w].name \notin active
          /\ worker[w].at = "claim"
      BY <2>4 DEF Claim, Busy
    <3>2. /\ \A v \in Workers \ {w} : worker'[v] = worker[v]
          /\ worker'[w].at = "update" /\ worker'[w].name = worker[w].name
      BY <1>2, <3>1
    <3>3. ~Holds(w) /\ Holds(w)' /\ \A v \in Workers \ {w} : Holds(v)' <=> Holds(v)
      BY <3>1, <3>2 DEF Holds, Updating
    <3> QED BY <3>1, <3>2, <3>3 DEF Exclusive
  <2>5. CASE UpdateSucceeds(w) \/ UpdateFails(w) \/ UpdateUnfinished(w)
    <3>1. PICK p \in Updating : Ends(w, p)
      BY <2>5 DEF UpdateSucceeds, UpdateFails, UpdateUnfinished, Updating
    <3> QED BY <1>1, <1>2, <3>1 DEF Ends, Holds, Updating
  <2>6. CASE Release(w)
    <3>1. /\ worker' = [worker EXCEPT ![w] = At("idle", NoName)]
          /\ active' = active \ {worker[w].name}
          /\ worker[w].at \in Updating
      BY <2>6 DEF Release, Updating
    <3>2. (\A v \in Workers \ {w} : worker'[v] = worker[v]) /\ worker'[w].at = "idle"
      BY <1>3, <3>1
    <3>3. Holds(w) /\ ~Holds(w)' /\ \A v \in Workers \ {w} : Holds(v)' <=> Holds(v)
      BY <3>1, <3>2 DEF Holds, Updating
    <3> QED BY <3>1, <3>2, <3>3 DEF Exclusive
  <2> QED BY <1>4, <2>1, <2>2, <2>3, <2>4, <2>5, <2>6 DEF Work
<1>5. CASE UNCHANGED <<worker, active>>
  BY <1>5 DEF Exclusive, Holds
<1> QED
  BY <1>4, <1>5
  DEF LoopNext, Deliver, InnerSend, RelayReceive, RelayLookup, RelayEnds, ConfigChange,
      fixOnce, FixGCS, LoopCancel, LoopTick, LoopDone, allVars, loopVars

(* No two workers ever update the same group, however often and however    *)
(* early the queue sends it.                                               *)
THEOREM UpdatesAreExclusive == LoopSpec => []MutualExclusion
<1>1. LoopInit => Exclusive
  BY AtFields DEF LoopInit, Exclusive, Holds, Updating
<1> QED BY <1>1, LoopInvInit, LoopInvStep, ExclusiveStep, ExclusiveForm, PTL DEF LoopSpec
----------------------------------------------------------------------------
(* One-shot: a group that the queue has sent is on its way, being updated  *)
(* or updated.  A worker that finds it active drops it, but then another   *)
(* worker is updating it or has just done so.                              *)
InRelay(n) == relay.at \in {"lookup", "offer"} /\ relay.name = n
AtWorker(n) == \E w \in Workers : worker[w].at \in {"check", "claim", "update"} /\ worker[w].name = n

SentArrives ==
    /\ relay.at \in {"lookup", "offer"} => relay.name \in delivered
    /\ \A w \in Workers : worker[w].at \in {"release", "fixed"} => worker[w].name \in updated
    /\ ~ctxDone => /\ relay.at = "done" => pc = "done"
                   /\ \A n \in delivered : n \in updated \/ InRelay(n) \/ AtWorker(n)

(* One step of a worker keeps its group on its way. *)
LEMMA WorkArrives ==
  ASSUME LoopInv, Exclusive, SentArrives, NEW w \in Workers, Work(w)
  PROVE  SentArrives'
<1> USE AtFields
<1>1. ASSUME NEW p, worker' = [worker EXCEPT ![w].at = p]
      PROVE  /\ \A v \in Workers \ {w} : worker'[v] = worker[v]
             /\ worker'[w].at = p /\ worker'[w].name = worker[w].name
  BY <1>1 DEF LoopInv, WorkersOK, At
<1>2. ASSUME NEW p, NEW n, worker' = [worker EXCEPT ![w] = At(p, n)]
      PROVE  /\ \A v \in Workers \ {w} : worker'[v] = worker[v]
             /\ worker'[w].at = p /\ worker'[w].name = n
  BY <1>2 DEF LoopInv, WorkersOK
<1>3. CASE RelayGive(w)
  <2>1. /\ UNCHANGED <<delivered, updated, ctxDone, pc>>
        /\ relay.at = "offer" /\ relay'.at = "recv"
        /\ worker[w].at = "idle" /\ worker'[w].at = "check" /\ worker'[w].name = relay.name
        /\ \A v \in Workers \ {w} : worker'[v] = worker[v]
    BY <1>2, <1>3 DEF RelayGive, vars
  <2>2. \A n : InRelay(n) \/ AtWorker(n) => AtWorker(n)'
    BY <2>1 DEF InRelay, AtWorker
  <2> QED BY <2>1, <2>2 DEF SentArrives
<1>4. ASSUME Busy(worker[w].name), Drop(w), worker[w].at \in {"check", "claim"},
             UNCHANGED <<vars, relay, updated>>
      PROVE  SentArrives'
  <2>1. PICK v \in Workers : Holds(v) /\ worker[v].name = worker[w].name
    BY <1>4 DEF Busy, Exclusive
  <2>2. v # w /\ (worker[v].at = "update" \/ worker[w].name \in updated)
    BY <1>4, <2>1 DEF Holds, Updating, SentArrives
  <2>3. /\ UNCHANGED <<delivered, updated, ctxDone, pc, relay>>
        /\ worker'[w].at = "idle"
        /\ \A u \in Workers \ {w} : worker'[u] = worker[u]
    BY <1>2, <1>4 DEF Drop, vars
  <2>4. \A n : AtWorker(n) => AtWorker(n)' \/ n \in updated
    BY <2>1, <2>2, <2>3 DEF AtWorker
  <2> QED BY <2>3, <2>4 DEF SentArrives, InRelay
<1>5. ASSUME NEW p \in {"claim", "update"}, worker' = [worker EXCEPT ![w].at = p],
             worker[w].at \in {"check", "claim"}, UNCHANGED <<vars, relay, updated>>
      PROVE  SentArrives'
  <2>1. /\ UNCHANGED <<delivered, updated, ctxDone, pc, relay>>
        /\ worker'[w].at = p /\ worker'[w].name = worker[w].name
        /\ \A v \in Workers \ {w} : worker'[v] = worker[v]
    BY <1>1, <1>5 DEF vars
  <2>2. \A n : AtWorker(n) => AtWorker(n)'
    BY <2>1 DEF AtWorker
  <2> QED BY <2>1, <2>2 DEF SentArrives, InRelay
<1>6. CASE Check(w) \/ Claim(w)
  BY <1>4, <1>5, <1>6 DEF Check, Claim
<1>7. ASSUME NEW p \in {"release", "fixed"}, Ends(w, p), UNCHANGED <<delivered, ctxDone>>,
             pc = "done" => pc' = "done"
      PROVE  SentArrives'
  <2>1. /\ UNCHANGED <<delivered, ctxDone, relay>>
        /\ updated' = updated \cup {worker[w].name}
        /\ worker'[w].at = p /\ worker'[w].name = worker[w].name
        /\ \A v \in Workers \ {w} : worker'[v] = worker[v]
    BY <1>1, <1>7 DEF Ends
  <2>2. \A n : AtWorker(n) => AtWorker(n)' \/ n \in updated'
    BY <2>1 DEF AtWorker
  <2> QED BY <1>7, <2>1, <2>2 DEF SentArrives, InRelay
<1>8. CASE UpdateSucceeds(w) \/ UpdateFails(w) \/ UpdateUnfinished(w)
  <2>1. /\ \E p \in {"release", "fixed"} : Ends(w, p)
        /\ UNCHANGED <<delivered, ctxDone>> /\ (pc = "done" => pc' = "done")
    BY <1>8, Zenon DEF UpdateSucceeds, UpdateFails, UpdateUnfinished, Fix, Adjust, Touched, rouse, vars
  <2> QED BY <1>7, <2>1
<1>9. CASE Release(w) \/ WorkerExits(w)
  <2>1. /\ UNCHANGED <<delivered, updated, ctxDone, pc, relay>>
        /\ worker[w].at \notin {"check", "claim", "update"}
        /\ worker'[w].at \in {"idle", "gone"}
        /\ \A v \in Workers \ {w} : worker'[v] = worker[v]
    BY <1>2, <1>9 DEF Release, WorkerExits, vars
  <2>2. \A n : AtWorker(n) => AtWorker(n)'
    BY <2>1 DEF AtWorker
  <2> QED BY <2>1, <2>2 DEF SentArrives, InRelay
<1> QED BY <1>3, <1>6, <1>8, <1>9 DEF Work

(* So does every other step, as long as no popped name leaves q.items.     *)
LEMMA ArrivesStep ==
  ASSUME LoopInv, Exclusive, OneShotInv, SentArrives, [LoopNext]_allVars
  PROVE  SentArrives'
<1> USE AtFields
<1>1. ASSUME UNCHANGED <<loopVars, delivered>>, ctxDone => ctxDone', pc = "done" => pc' = "done"
      PROVE  SentArrives'
  BY <1>1 DEF SentArrives, InRelay, AtWorker, loopVars
<1>2. CASE RelayReceive
  <2>1. /\ delivered' = delivered \cup {relay'.name} /\ relay'.at = "lookup"
        /\ relay.at = "recv"
        /\ UNCHANGED <<worker, updated, ctxDone>>
    BY <1>2 DEF RelayReceive, SendDeliver
  <2>2. \A n : (AtWorker(n) => AtWorker(n)') /\ ~InRelay(n) /\ (n = relay'.name => InRelay(n)')
    BY <2>1 DEF AtWorker, InRelay
  <2> QED BY <2>1, <2>2 DEF SentArrives
<1>3. CASE RelayLookup
  <2>1. relay.name \in DOMAIN items
    BY <1>3 DEF RelayLookup, SentArrives, OneShotInv
  <2>2. /\ relay.at = "lookup" /\ relay'.at = "offer" /\ relay'.name = relay.name
        /\ UNCHANGED <<delivered, worker, updated, ctxDone>>
    BY <1>3, <2>1 DEF RelayLookup, vars
  <2> QED BY <2>2 DEF SentArrives, AtWorker, InRelay
<1>4. CASE RelayEnds
  <2>1. /\ relay'.at = "done" /\ UNCHANGED <<delivered, worker, updated, ctxDone, pc>>
        /\ (relay.at = "recv" /\ pc = "done") \/ ctxDone
    BY <1>4 DEF RelayEnds, vars
  <2> QED BY <2>1 DEF SentArrives, AtWorker, InRelay
<1>5. CASE InnerSend
  BY <1>1, <1>5 DEF InnerSend, SendNext, SendSleep, SendTimer, Wake, SendCancelled, histVars
<1>6. CASE ConfigChange
  BY <1>1, <1>6 DEF ConfigChange, Reconfigure, Reinit, rouse, histVars
<1>7. CASE fixOnce \/ FixGCS
  BY <1>1, <1>7, Zenon DEF fixOnce, FixGCS, FixAll, Adjust, Touched, rouse
<1>8. CASE LoopCancel \/ LoopTick \/ LoopDone \/ UNCHANGED allVars
  BY <1>1, <1>8 DEF LoopCancel, LoopTick, LoopDone, Cancel, Tick, allVars, vars, sendVars, histVars
<1> QED
  BY <1>2, <1>3, <1>4, <1>5, <1>6, <1>7, <1>8, WorkArrives DEF LoopNext, Deliver

(* With one configuration nothing is added once Send has returned.         *)
SentAll == pc = "done" /\ ~ctxDone => DOMAIN items \subseteq delivered

(* One step keeps what was sent complete. *)
LEMMA SentAllStep ==
  ASSUME Freq = 0, NEW S, Configs = {S}, DataOK, OneShotInv, SentAll, DOMAIN items = S, [Next]_vars
  PROVE  SentAll' /\ DOMAIN items' = S
<1> USE NamesAssumption
<1>1. CASE Reconfigure
  BY <1>1 DEF Reconfigure, Reinit, rouse, Awake, SentAll, qvars, histVars, DataOK
<1>2. CASE Retry \/ Notify \/ NotifyAll
  BY <1>2, FixCases DEF FixEffect, SentAll, Awake
<1>3. CASE SendNext
  <2>1. ASSUME NEW n \in Roots, Pick(n), pc' = "picked" PROVE SentAll' /\ DOMAIN items' = S
    BY <2>1 DEF Pick, SentAll
  <2>2. CASE heap = {} /\ UNCHANGED qvars /\ who' = NoName
    BY <1>3, <2>2 DEF SendNext, SentAll, OneShotInv, DataOK, qvars
  <2> QED BY <1>3, <2>1, <2>2 DEF SendNext
<1>4. CASE SendSleep \/ SendTimer \/ SendDeliver \/ SendCancelled \/ Cancel \/ Tick \/ UNCHANGED vars
  BY <1>4 DEF SendSleep, SendTimer, Wake, SendDeliver, SendCancelled, Cancel, Tick, vars, Awake,
     SentAll, qvars, histVars, sendVars
<1> QED BY <1>1, <1>2, <1>3, <1>4, StepCases

(* A one-shot updater that observes one configuration returns, unless it   *)
(* is cancelled, only after the update of every configured group has       *)
(* ended, for any number of groups and workers.                            *)
THEOREM OneShotUpdates ==
  ASSUME NEW S, Configs = {S}
  PROVE  LoopSpec => []OneShotUpdatesAll
<1>1. CASE Freq # 0
  <2>1. OneShotUpdatesAll
    BY <1>1 DEF OneShotUpdatesAll
  <2> QED BY <2>1, PTL
<1>2. CASE Freq = 0
  <2> DEFINE Inv == /\ LoopInv /\ Exclusive /\ OneShotInv /\ SentArrives
                    /\ SentAll /\ DOMAIN items = S
  <2>1. LoopInit => Inv
    <3> SUFFICES ASSUME LoopInit PROVE Inv
      OBVIOUS
    <3>1. LoopInv /\ Exclusive
      BY LoopInvInit, AtFields DEF LoopInit, Exclusive, Holds, Updating
    <3>2. OneShotInv /\ SentAll /\ DOMAIN items = S
      BY NamesAssumption DEF LoopInit, QueueInit, OneShotInv, SentAll
    <3>3. SentArrives
      BY AtFields DEF LoopInit, QueueInit, SentArrives
    <3> QED BY <3>1, <3>2, <3>3
  <2>2. Inv /\ [LoopNext]_allVars => Inv'
    <3> SUFFICES ASSUME Inv, [LoopNext]_allVars PROVE Inv'
      OBVIOUS
    <3>1. [Next]_vars /\ DataOK
      BY LoopIsQueueStep DEF LoopInv
    <3>2. OneShotInv'
      BY <1>2, <3>1, OneShotStep
    <3>3. SentAll' /\ DOMAIN items' = S
      BY <1>2, <3>1, SentAllStep
    <3> QED BY <3>2, <3>3, LoopInvStep, ExclusiveStep, ArrivesStep
  <2>3. Inv => OneShotUpdatesAll
    BY WorkersAssumption DEF OneShotUpdatesAll, Returned, SentArrives, SentAll, InRelay, AtWorker
  <2> HIDE DEF Inv
  <2> QED BY <2>1, <2>2, <2>3, PTL DEF LoopSpec
<1> QED BY <1>1, <1>2

=============================================================================
