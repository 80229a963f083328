----------------------------- MODULE ApiServer ------------------------------
(* The API server's configuration (pkg/api/v1/config_cache.go) and how it  *)
(* finds what a request names in it (config.go, state.go, summary.go).     *)
(*                                                                         *)
(* The first request for the default scope observes the configuration with *)
(* its own context, and a goroutine keeps the cache up to date until that  *)
(* context is done.  A request over HTTP does so on a copy of the server,  *)
(* which it drops; the requests here are the others.  A cache is named     *)
(* after the request that made it.                                         *)
EXTENDS ConfigSnapshot

NoConfig == [gen |-> -1, cfg |-> EmptyConfig]       \* a nil *snapshot.Config
NoCache == 0                                        \* a nil *cachedConfig

VARIABLES
    req,                    \* where each request is, and the cache it was given
    caches,                 \* the configuration in each cachedConfig
    defaultCache,           \* which of them is the server's
    applier,                \* the goroutine that a request left behind
    panicked                \* a handler has used a nil configuration

apiVars == <<req, caches, defaultCache, applier, panicked>>

ApiInit ==
    /\ req = [r \in Observers |-> [at |-> "new", cache |-> NoCache]]
    /\ caches = [r \in Observers |-> NoConfig]
    /\ defaultCache = NoCache
    /\ applier = [r \in Observers |-> "none"]
    /\ panicked = FALSE

Goes(r, at, c) == req' = [req EXCEPT ![r] = [at |-> at, cache |-> c]]

(* getConfig: there is a configuration, or the request has to observe it.  *)
getConfig(r) ==
    /\ req[r].at = "new"
    /\ IF defaultCache # NoCache /\ caches[defaultCache] # NoConfig
         THEN Goes(r, "serving", defaultCache)
         ELSE Goes(r, "observing", NoCache)
    /\ UNCHANGED <<caches, defaultCache, applier, panicked, snapVars>>

(* Observe fails without a configuration object; otherwise its first       *)
(* snapshot makes a new cache.                                             *)
ObserveDefault(r) ==
    /\ req[r].at = "observing"
    /\ \/ Goes(r, "failed", NoCache) /\ UNCHANGED <<caches, defaultCache, applier, obs>>
       \/ /\ target # NoTarget
          /\ Observe(r)
          /\ caches' = [caches EXCEPT ![r] = target]
          /\ defaultCache' = r
          /\ applier' = [applier EXCEPT ![r] = "on"]
          /\ Goes(r, "serving", r)
    /\ UNCHANGED <<panicked, target, done>>

(* The handler reads the configuration under the read lock.                *)
Serve(r) ==
    /\ req[r].at = "serving"
    /\ panicked' = (panicked \/ caches[req[r].cache] = NoConfig)
    /\ Goes(r, "served", req[r].cache)
    /\ UNCHANGED <<caches, defaultCache, applier, snapVars>>

(* The context of a request is done when its handler has returned.         *)
EndRequest(r) ==
    /\ req[r].at \in {"served", "failed"} /\ r \notin done
    /\ done' = done \cup {r}
    /\ UNCHANGED <<apiVars, target, obs>>

(* The goroutine puts what it receives into the server's cache of the      *)
(* moment, under its lock.  A closed channel yields a nil configuration.   *)
Apply(r) ==
    /\ applier[r] = "on"
    /\ \/ /\ obs[r].at = "sending" /\ Sent(r)
          /\ caches' = [caches EXCEPT ![defaultCache] = obs[r].snap]
       \/ /\ obs[r].at = "closed" /\ UNCHANGED obs
          /\ caches' = [caches EXCEPT ![defaultCache] = NoConfig]
    /\ UNCHANGED <<req, defaultCache, applier, panicked, target, done>>

StopApplying(r) ==
    /\ applier[r] = "on" /\ r \in done
    /\ applier' = [applier EXCEPT ![r] = "off"]
    /\ UNCHANGED <<req, caches, defaultCache, panicked, snapVars>>

ApiNext == \E r \in Observers :
             \/ getConfig(r) \/ ObserveDefault(r) \/ Serve(r) \/ EndRequest(r)
             \/ Apply(r) \/ StopApplying(r)
             \/ (Tick(r) \/ CloseChannel(r)) /\ UNCHANGED apiVars
-----------------------------------------------------------------------------
(* generateNormalCache: the names that a normalised name may stand for.    *)
NormalOf(names, normal) == { n \in names : Normalize(n) = normal }

(* findDashboardTab and the handlers: the dashboard and the tab that a     *)
(* request names, where a map has kept any one of several names.           *)
FindDashboards(snap, input) == NormalOf(DOMAIN snap.dashboards, Normalize(input))

FindTabs(snap, dashboard, input) ==
    { t \in ToSet(snap.dashboards[dashboard].tabs) : Normalize(t.name) = Normalize(input) }

FindGroups(snap, input) == NormalOf(DOMAIN snap.groups, Normalize(input))

FindDashboardGroups(snap, input) == NormalOf(DOMAIN snap.dashboardGroups, Normalize(input))

(* GetDashboardTab: the tab and the group behind it, or nothing.           *)
GetDashboardTab(snap, dashboard, tab) ==
    UNION { { [tab |-> t.name, group |-> g] : g \in FindGroups(snap, t.testGroup) } :
            t \in UNION { FindTabs(snap, d, tab) : d \in FindDashboards(snap, dashboard) } }

(* A listed name comes with the link to it, which has it normalised.       *)
Resource(name) == [name |-> name, link |-> Normalize(name)]

ListDashboardGroups(snap) == { Resource(g) : g \in DOMAIN snap.dashboardGroups }

(* ListDashboards: with the groups, any one of which the answer names.     *)
ListDashboards(snap) ==
    { [group |-> { g \in DOMAIN snap.dashboardGroups :
                     d \in ToSet(snap.dashboardGroups[g].dashboards) }] @@ Resource(d) :
      d \in DOMAIN snap.dashboards }

ListDashboardTabs(snap, dashboard) ==
    UNION { { Resource(t.name) : t \in ToSet(snap.dashboards[d].tabs) } : d \in FindDashboards(snap, dashboard) }

GetDashboardGroup(snap, group) ==
    UNION { ToSet(snap.dashboardGroups[g].dashboards) : g \in FindDashboardGroups(snap, group) }

GetDashboard(snap, dashboard) == { snap.dashboards[d] : d \in FindDashboards(snap, dashboard) }

(* The object with the grid behind ListRows and ListHeaders: the path has  *)
(* the names as the configuration has them.                                *)
Grid(snap, dashboard, tab) ==
    UNION { { TabStatePath(d, t.name) : t \in FindTabs(snap, d, tab) } : d \in FindDashboards(snap, dashboard) }
-----------------------------------------------------------------------------
(* Summaries.  store maps the object of a dashboard to the tab summaries   *)
(* [dashboard, tab] in it; an answer is a set, empty for an error.         *)
fetchSummary(store, dashboard) ==
    IF SummaryPath(dashboard) \in DOMAIN store THEN { store[SummaryPath(dashboard)] } ELSE {}

ListTabSummaries(snap, store, dashboard) ==
    IF FindDashboards(snap, dashboard) = {} THEN {}
    ELSE UNION { ToSet(sum) : sum \in fetchSummary(store, Normalize(dashboard)) }

(* The summary is read by the requested name, and searched for the tab's.  *)
GetTabSummary(snap, store, dashboard, tab) ==
    LET found == UNION { { t.name : t \in FindTabs(snap, d, tab) } : d \in FindDashboards(snap, dashboard) }
    IN { sum \in UNION { ToSet(s) : s \in fetchSummary(store, dashboard) } : sum.tab \in found }

(* A dashboard without a summary is left out.                              *)
ListDashboardSummaries(snap, store, group) ==
    UNION { { [name |-> d, tabs |-> sum] : sum \in fetchSummary(store, d) } : d \in GetDashboardGroup(snap, group) }

GetDashboardSummary(snap, store, dashboard) ==
    { [name |-> d, tabs |-> sum] : d \in FindDashboards(snap, dashboard),
                                   sum \in fetchSummary(store, Normalize(dashboard)) }
=============================================================================
