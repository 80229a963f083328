--------------------------- MODULE ConfigSnapshot ---------------------------
(* config/snapshot: Observe sends a snapshot of the configuration object,  *)
(* and a new one when the object has another generation, until its context *)
(* is done; then it closes the channel.  The first snapshot, which Observe *)
(* reads itself, is received right away by every caller.                   *)
EXTENDS ConfigRules

CONSTANT Observers

VARIABLES
    target,                 \* the configuration object: [gen, cfg]
    obs,                    \* the goroutine of each Observe
    done                    \* the observers whose context is done

snapVars == <<target, obs, done>>

NoTarget == [gen |-> 0, cfg |-> EmptyConfig]
NotObserving == [at |-> "none", gen |-> 0, snap |-> NoTarget]

SnapInit == obs = [o \in Observers |-> NotObserving] /\ done = {}

Put(cfg) == target' = [gen |-> target.gen + 1, cfg |-> cfg]

(* updateHash: maps of the entities by name.                               *)
ByName(entities) == [n \in ToSet(NamesIn(entities)) |->
                       entities[CHOOSE i \in DOMAIN entities :
                                  /\ entities[i].name = n
                                  /\ \A j \in DOMAIN entities : entities[j].name = n => j <= i]]
Snapshot(cfg) == [dashboardGroups |-> ByName(cfg.dashboardGroups), dashboards |-> ByName(cfg.dashboards),
                  groups |-> ByName(cfg.groups)]

Observe(o) == obs' = [obs EXCEPT ![o] = [at |-> "watching", gen |-> target.gen, snap |-> target]]

(* A tick: the fetch (three attempts, if need be) finds another            *)
(* generation.  Otherwise, and if it fails, nothing changes.               *)
Tick(o) == /\ obs[o].at = "watching" /\ o \notin done
           /\ target.gen # obs[o].gen
           /\ obs' = [obs EXCEPT ![o].at = "sending", ![o].snap = target]
           /\ UNCHANGED <<target, done>>

(* A variant with a bug: the newest generation is recorded instead of the  *)
(* one that was sent.                                                      *)
SentNewest(o) == obs' = [obs EXCEPT ![o].at = "watching", ![o].gen = target.gen]

(* The receiver takes the snapshot; then its generation is recorded.       *)
Sent(o) == obs' = [obs EXCEPT ![o].at = "watching", ![o].gen = obs[o].snap.gen]

CloseChannel(o) == /\ obs[o].at \in {"watching", "sending"} /\ o \in done
                   /\ obs' = [obs EXCEPT ![o].at = "closed"]
                   /\ UNCHANGED <<target, done>>
-----------------------------------------------------------------------------
(* SummaryPath of pkg/summarizer and TabStatePath of pkg/tabulator: the    *)
(* summarizer's path is normalised, the tabulator's only joined.           *)
SummaryPath(dashboard) == Normalize(dashboard)
TabStatePath(dashboard, tab) == dashboard \o <<"/">> \o tab
=============================================================================
