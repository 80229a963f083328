---------------------------- MODULE PersistQueue ----------------------------
(* FixPersistent (util/queue/persist.go): a fixer that loads the times of  *)
(* a queue from an object once and saves them on every tick thereafter.    *)
(* It is stopped and started again with every configuration, and lost with *)
(* the process.  A tick reads (the object or the queue) in one step and    *)
(* writes (the queue or the object) in a later one.                        *)
EXTENDS Integers, FiniteSets, TLC

CONSTANTS
    QNames,                 \* what may be in the queue
    QFreq,                  \* the period of the queue
    MaxClock, MaxCrashes    \* bounds

ASSUME PersistAssumption == QFreq \in Nat

VARIABLES
    when,                   \* q.items: the names and their times
    file,                   \* the object: times by name; <<>> if there is none
    shouldSave,
    tick,                   \* what the fixer does: [at, whens]
    clock, crashes,
    owed                    \* history: saved times that nothing has replaced since

persistVars == <<when, file, shouldSave, tick, clock, crashes, owed>>

Waiting == [at |-> "select", whens |-> <<>>]

PersistInit ==
    /\ \E S \in SUBSET QNames : when = [n \in S |-> QFreq]
    /\ file = <<>> /\ shouldSave = FALSE /\ tick = Waiting
    /\ clock = 0 /\ crashes = 0 /\ owed = <<>>

Without(f, S) == [n \in DOMAIN f \ S |-> f[n]]

(* What is being saved counts only for the names that are left alone.      *)
Forget(S) == /\ owed' = Without(owed, S)
             /\ tick' = IF tick.at = "save" THEN [tick EXCEPT !.fresh = @ \ S] ELSE tick

PassTime == /\ clock < MaxClock /\ clock' = clock + 1
            /\ UNCHANGED <<when, file, shouldSave, tick, crashes, owed>>

(* Send takes a name and moves it a period ahead.                          *)
SendName(n) == /\ n \in DOMAIN when /\ when[n] <= clock
               /\ when' = [when EXCEPT ![n] = clock + QFreq]
               /\ Forget({n})
               /\ UNCHANGED <<file, shouldSave, clock, crashes>>

(* Fix by somebody else: earlier, or later as the updater's fixOnce does.  *)
FixEarlier(n) == /\ n \in DOMAIN when /\ clock < when[n]
                 /\ when' = [when EXCEPT ![n] = clock]
                 /\ UNCHANGED <<file, shouldSave, tick, clock, crashes, owed>>

FixLater(n) == /\ n \in DOMAIN when /\ when[n] < clock + QFreq
               /\ when' = [when EXCEPT ![n] = clock + QFreq]
               /\ Forget({n})
               /\ UNCHANGED <<file, shouldSave, clock, crashes>>

(* A new configuration: the fixer is stopped first, and started again.     *)
NewNames(S) == /\ tick = Waiting /\ S # DOMAIN when
               /\ when' = [n \in S |-> IF n \in DOMAIN when THEN when[n] ELSE clock + QFreq]
               /\ Forget(IF shouldSave THEN QNames \ S ELSE {})
               /\ UNCHANGED <<file, shouldSave, clock, crashes>>
-----------------------------------------------------------------------------
(* A tick: either tryLoad or trySave begins.                               *)
TickLoad == /\ tick = Waiting /\ ~shouldSave
            /\ tick' = [at |-> "load", whens |-> file]
            /\ UNCHANGED <<when, file, shouldSave, clock, crashes, owed>>

TickSave == /\ tick = Waiting /\ shouldSave
            /\ tick' = [at |-> "save", whens |-> when, fresh |-> DOMAIN when]
            /\ UNCHANGED <<when, file, shouldSave, clock, crashes, owed>>

(* FixAll with what was read, for the names that the queue has.            *)
Load == /\ tick.at = "load"
        /\ when' = [n \in DOMAIN when |-> IF n \in DOMAIN tick.whens /\ tick.whens[n] < when[n]
                                            THEN tick.whens[n] ELSE when[n]]
        /\ owed' = Without(owed, QNames \ DOMAIN when)
        /\ shouldSave' = TRUE /\ tick' = Waiting
        /\ UNCHANGED <<file, clock, crashes>>

(* A variant with a bug: a load that failed is not tried again.            *)
LoadFailsOnce == /\ tick.at = "load"
                 /\ shouldSave' = TRUE /\ tick' = Waiting
                 /\ UNCHANGED <<when, file, clock, crashes, owed>>

LoadFails == /\ tick.at = "load"
             /\ tick' = Waiting
             /\ UNCHANGED <<when, file, shouldSave, clock, crashes, owed>>

(* The upload replaces the object, whether or not the answer arrives.      *)
Save == /\ tick.at = "save"
        /\ file' = tick.whens
        /\ owed' = [n \in tick.fresh |-> tick.whens[n]]
        /\ tick' = Waiting
        /\ UNCHANGED <<when, shouldSave, clock, crashes>>

SaveFails == /\ tick.at = "save"
             /\ tick' = Waiting
             /\ UNCHANGED <<when, file, shouldSave, clock, crashes, owed>>

(* The process ends and is started again, with the queue of some           *)
(* configuration.                                                          *)
Crash == /\ crashes < MaxCrashes /\ crashes' = crashes + 1
         /\ \E S \in SUBSET QNames : when' = [n \in S |-> clock + QFreq]
         /\ shouldSave' = FALSE /\ tick' = Waiting
         /\ UNCHANGED <<file, clock, owed>>

PersistNext == \/ PassTime \/ TickLoad \/ TickSave \/ Load \/ LoadFails \/ Save \/ SaveFails \/ Crash
               \/ \E n \in QNames : SendName(n) \/ FixEarlier(n) \/ FixLater(n)
               \/ \E S \in SUBSET QNames : NewNames(S)

(* A time that was saved is not lost in a crash, a failed load or a new    *)
(* configuration: the object has it until it was loaded, and from then on  *)
(* the queue has that time or an earlier one for the name, until the name  *)
(* is sent, postponed or removed (FixPersistent).                          *)
SavedKept ==
    \A n \in DOMAIN owed :
      IF shouldSave THEN n \in DOMAIN when /\ when[n] <= owed[n]
                    ELSE n \in DOMAIN file /\ file[n] <= owed[n]
=============================================================================
