----------------------------- MODULE UpdateLoop -----------------------------
(***************************************************************************)
(* Update of pkg/updater/updater.go around the queue: the relay goroutine  *)
(* of TestGroupQueue.Send (config/queue.go) turns names into test groups   *)
(* for GroupConcurrency workers; each worker claims the group in the       *)
(* active map, updates it, and tells the queue to retry a failed group     *)
(* later or an unfinished one at once.  Meanwhile the configuration        *)
(* changes, fixers move times, and the context may be cancelled.           *)
(*                                                                         *)
(* The queue is Queue's: every step here is a step of Queue or leaves its  *)
(* variables alone, so what is proved of Queue holds in this composition.  *)
(***************************************************************************)
EXTENDS Queue

CONSTANTS Workers

ASSUME WorkersAssumption == Workers # {}

VARIABLES
    relay,      \* TestGroupQueue.Send: where it is and the name it has
    worker,     \* each worker: where it is and its group
    active,     \* the active map: groups being updated
    updated     \* history: groups whose update has finished at least once

loopVars == <<relay, worker, active, updated>>
allVars == <<vars, loopVars>>

At(p, n) == [at |-> p, name |-> n]

LoopInit ==
    /\ QueueInit
    /\ relay = At("recv", NoName)
    /\ worker = [w \in Workers |-> At("idle", NoName)]
    /\ active = {} /\ updated = {}
----------------------------------------------------------------------------
(* The inner Send goroutine; its receiver is the relay. *)
InnerSend ==
    /\ SendNext \/ SendSleep \/ SendTimer \/ SendCancelled
    /\ UNCHANGED loopVars

RelayReceive ==
    /\ relay.at = "recv"
    /\ relay' = At("lookup", who)
    /\ SendDeliver
    /\ UNCHANGED <<worker, active, updated>>

(* The group may have left the configuration since the queue picked it.    *)
RelayLookup ==
    /\ relay.at = "lookup"
    /\ relay' = IF relay.name \in DOMAIN items THEN At("offer", relay.name)
                                               ELSE At("recv", NoName)
    /\ UNCHANGED <<vars, worker, active, updated>>

RelayGive(w) ==
    /\ relay.at = "offer" /\ worker[w].at = "idle"
    /\ worker' = [worker EXCEPT ![w] = At("check", relay.name)]
    /\ relay' = At("recv", NoName)
    /\ UNCHANGED <<vars, active, updated>>

(* A variant with a bug: the inner channel is never closed. *)
RelayNeverCloses ==
    /\ relay.at = "offer" /\ ctxDone
    /\ relay' = At("done", NoName)
    /\ UNCHANGED <<vars, worker, active, updated>>

(* The inner channel is closed, or the context ends while offering.  Then  *)
(* Update closes the workers' channel and waits for them.                  *)
RelayEnds ==
    /\ \/ relay.at = "recv" /\ pc = "done"
       \/ relay.at = "offer" /\ ctxDone
    /\ relay' = At("done", NoName)
    /\ UNCHANGED <<vars, worker, active, updated>>
----------------------------------------------------------------------------
(* updateTestGroup *)
Busy(n) == n \in active

Drop(w) == /\ worker' = [worker EXCEPT ![w] = At("idle", NoName)]
           /\ UNCHANGED active

(* The first look at the active map, under the read lock. *)
Check(w) ==
    /\ worker[w].at = "check"
    /\ IF Busy(worker[w].name)
         THEN Drop(w)
         ELSE worker' = [worker EXCEPT ![w].at = "claim"] /\ UNCHANGED active
    /\ UNCHANGED <<vars, relay, updated>>

(* A variant with a bug: no second look. *)
ClaimBlindly(w) ==
    /\ worker[w].at = "claim"
    /\ worker' = [worker EXCEPT ![w].at = "update"]
    /\ active' = active \cup {worker[w].name}
    /\ UNCHANGED <<vars, relay, updated>>

(* The second look, under the write lock, which claims the group. *)
Claim(w) ==
    /\ worker[w].at = "claim"
    /\ IF Busy(worker[w].name)
         THEN Drop(w)
         ELSE /\ worker' = [worker EXCEPT ![w].at = "update"]
              /\ active' = active \cup {worker[w].name}
    /\ UNCHANGED <<vars, relay, updated>>

Ends(w, at) ==
    /\ worker[w].at = "update"
    /\ worker' = [worker EXCEPT ![w].at = at]
    /\ updated' = updated \cup {worker[w].name}
    /\ UNCHANGED <<relay, active>>

(* updateGroup succeeds. *)
UpdateSucceeds(w) == Ends(w, "release") /\ UNCHANGED vars

(* A variant with a bug: a failed group is tried again after two periods.  *)
UpdateFailsForLong(w) ==
    /\ Freq > 0 /\ Ends(w, "fixed")
    /\ Fix(worker[w].name, now + 2 * Freq, TRUE)

(* It fails: with a period, try again after a quarter to a half of it.     *)
UpdateFails(w) ==
    \/ Freq = 0 /\ Ends(w, "release") /\ UNCHANGED vars
    \/ /\ Freq > 0 /\ Ends(w, "fixed")
       /\ \E t \in (now + Freq \div 4) .. (now + Freq \div 2) :
            Fix(worker[w].name, t, TRUE)

(* It succeeds with columns left to read: process another chunk ASAP.      *)
UpdateUnfinished(w) ==
    /\ Ends(w, "fixed")
    /\ Fix(worker[w].name, now, FALSE)

(* The deferred function: only now the group is no longer active. *)
Release(w) ==
    /\ worker[w].at \in {"release", "fixed"}
    /\ active' = active \ {worker[w].name}
    /\ worker' = [worker EXCEPT ![w] = At("idle", NoName)]
    /\ UNCHANGED <<vars, relay, updated>>

WorkerExits(w) ==
    /\ relay.at = "done" /\ worker[w].at = "idle"
    /\ worker' = [worker EXCEPT ![w] = At("gone", NoName)]
    /\ UNCHANGED <<vars, relay, active, updated>>
----------------------------------------------------------------------------
(* A new configuration, whose groups replace the queue's.                  *)
ConfigChange == Reconfigure /\ UNCHANGED loopVars

(* The fixer of lastUpdated: a group is due one period after the time t    *)
(* when StatExisting saw its grid written, by this updater or another one, *)
(* and now if it saw none.  The stat may be stale when FixAll runs, so t   *)
(* is any time so far.  (The fixer's own Init repeats the configuration.)  *)
fixOnce ==
    /\ Freq > 0
    /\ \E S \in SUBSET DOMAIN items : \E t \in [S -> 0 .. now] :
         FixAll([n \in DOMAIN items |-> IF n \in S THEN t[n] + Freq ELSE now], FALSE)
    /\ UNCHANGED loopVars

(* FixGCS: a notification asks for an update of the groups that read the   *)
(* changed path, now or after the delay for that kind of file.             *)
FixGCS ==
    /\ \E S \in SUBSET DOMAIN items, t \in now .. (now + Freq) :
         S # {} /\ FixAll([n \in S |-> t], FALSE)
    /\ UNCHANGED loopVars

LoopCancel == Cancel /\ UNCHANGED loopVars
LoopTick == Tick /\ UNCHANGED loopVars

(* A variant with a bug: Update does not wait for its workers. *)
ReturnedEarly == relay.at = "done"

Returned == relay.at = "done" /\ \A w \in Workers : worker[w].at = "gone"

LoopDone == /\ Returned \/ panicked \/ (now >= MaxTime /\ calls = MaxCalls)
            /\ UNCHANGED allVars

Work(w) == \/ RelayGive(w) \/ Check(w) \/ Claim(w)
           \/ UpdateSucceeds(w) \/ UpdateFails(w) \/ UpdateUnfinished(w)
           \/ Release(w) \/ WorkerExits(w)

Deliver == InnerSend \/ RelayReceive \/ RelayLookup \/ RelayEnds

LoopNext ==
    \/ /\ ~panicked
       /\ \/ Deliver \/ \E w \in Workers : Work(w)
          \/ ConfigChange \/ fixOnce \/ FixGCS \/ LoopCancel \/ LoopTick
    \/ LoopDone

LoopSpec == LoopInit /\ [][LoopNext]_allVars

(* Fairness: every goroutine runs, updates end (each has a timeout) and    *)
(* time passes.                                                            *)
LoopFairSpec ==
    /\ LoopSpec
    /\ WF_allVars(~panicked /\ Deliver) /\ WF_allVars(~panicked /\ LoopTick)
    /\ \A w \in Workers : WF_allVars(~panicked /\ Work(w))
----------------------------------------------------------------------------
(* Two workers never update the same group at the same time, whatever the  *)
(* queue sends, and the active map holds exactly the groups being updated. *)
MutualExclusion ==
    /\ \A v, w \in Workers :
         v # w /\ worker[v].at \in {"update", "release", "fixed"} =>
           ~(worker[w].at \in {"update", "release", "fixed"} /\ worker[v].name = worker[w].name)
    /\ active = { worker[w].name : w \in { v \in Workers :
                    worker[v].at \in {"update", "release", "fixed"} } }

(* One-shot: Update returns only after every configured group was updated  *)
(* ("Returns after all groups updated once if freq is zero").              *)
OneShotUpdatesAll ==
    Returned /\ Freq = 0 /\ ~ctxDone => DOMAIN items \subseteq updated

(* The loop uses the queue as Queue assumes its callers to: what is proved *)
(* of Queue holds here.                                                    *)
UsesQueue == Spec

(* After the context is cancelled Update returns, with no worker left.     *)
Terminates == ctxDone ~> Returned
=============================================================================
