------------------------------ MODULE Services ------------------------------
(* The services around the updater: a behaviour is one of                  *)
(*   "merge"       owners edit their YAML files and the config merger      *)
(*                 writes the configuration (ConfigMerge),                 *)
(*   "api"         the API server observes what is written (ApiServer),    *)
(*   "summarizer"  the summarizer at work (Summarizer),                    *)
(*   "persist"     a queue that is saved and loaded (PersistQueue).        *)
EXTENDS ConfigMerge, ApiServer, Summarizer, PersistQueue

CONSTANTS
    Modes,                  \* bound: which of these
    MaxGenerations          \* bound: configurations written for the API server

VARIABLE mode

serviceVars == <<mode, snapVars, mergeVars, apiVars, sumVars, persistVars>>

ServicesInit ==
    /\ mode \in Modes
    /\ IF mode = "summarizer"
         THEN /\ target = [gen |-> 1, cfg |-> Deployed[1]]
              /\ obs = [o \in Observers |->
                          IF o = Watcher THEN [at |-> "watching", gen |-> 1, snap |-> target] ELSE NotObserving]
              /\ done = {}
         ELSE target = NoTarget /\ SnapInit
    /\ IF mode = "merge" THEN MergeInit
       ELSE /\ version = 0 /\ shard = <<>> /\ cache = <<>> /\ read = <<>>
            /\ cycle = 0 /\ now = 0 /\ origin = <<>> /\ sources = <<>>
    /\ ApiInit /\ SumInit
    /\ PersistInit /\ (mode # "persist" => DOMAIN when = {})

WriteConfig == /\ target.gen < MaxGenerations /\ Put(Deployed[1])
               /\ UNCHANGED <<obs, done>>

ServicesNext ==
    /\ UNCHANGED mode
    /\ \/ mode = "merge" /\ MergeNext /\ UNCHANGED <<apiVars, sumVars, persistVars>>
       \/ /\ mode = "api" /\ UNCHANGED <<mergeVars, sumVars, persistVars>>
          /\ \/ ApiNext
             \/ WriteConfig /\ UNCHANGED apiVars
       \/ mode = "summarizer" /\ SumNext /\ UNCHANGED <<mergeVars, apiVars, persistVars>>
       \/ mode = "persist" /\ PersistNext /\ UNCHANGED <<snapVars, mergeVars, apiVars, sumVars>>

(* Goroutines of the API server go on, and the observer's ticker ticks.    *)
ServicesSpec ==
    /\ ServicesInit /\ [][ServicesNext]_serviceVars
    /\ \A r \in Observers : WF_serviceVars(mode = "api" /\ UNCHANGED <<mode, mergeVars, sumVars, persistVars>>
                              /\ (Apply(r) \/ (Tick(r) /\ UNCHANGED apiVars)))
-----------------------------------------------------------------------------
(* The names of the target that a normalised name does not tell apart.    *)
Ambiguous(names, n) == \E i, j \in DOMAIN names : i # j /\ Normalize(names[i]) = Normalize(names[j])
                                                  /\ Normalize(n) = Normalize(names[i])

(* What a source calls n is called so after Converge.                      *)
NameNow(from, to, n) == to[CHOOSE i \in DOMAIN from : from[i].name = n].name

Resolves(s, dashboards, groups, snap) ==
    \A i \in DOMAIN s.from.dashboards :
      LET from == s.from.dashboards[i]
          then == s.to.dashboards[i]
      IN \A t \in DOMAIN from.tabs :
           LET group == NameNow(s.from.groups, s.to.groups, from.tabs[t].testGroup)
           IN \/ Ambiguous(dashboards, then.name) \/ Ambiguous(groups, group)
              \/ GetDashboardTab(snap, then.name, from.tabs[t].name) = {[tab |-> from.tabs[t].name, group |-> group]}

(* The links in the API's lists lead to what they are listed for.          *)
LinksLead(snap, members) ==
    /\ \A g \in ListDashboardGroups(snap) :
         Ambiguous(members, g.name) \/ FindDashboardGroups(snap, g.link) = {g.name}
    /\ \A d \in ListDashboards(snap) :
         \/ Ambiguous(members, d.name)
         \/ /\ \A g \in d.group : Ambiguous(members, g) \/ d.name \in GetDashboardGroup(snap, g)
            /\ GetDashboard(snap, d.link) = { snap.dashboards[d.name] }
            /\ \A t \in ListDashboardTabs(snap, d.link) :
                 /\ FindTabs(snap, d.name, t.link) = { x \in ToSet(snap.dashboards[d.name].tabs) : x.name = t.name }
                 /\ Grid(snap, d.link, t.link) = { TabStatePath(d.name, t.name) }

(* Where the summarizer has written the summaries of all dashboards but    *)
(* those in missing, the links lead to the summaries of what they are      *)
(* listed for.                                                             *)
SummariesLead(snap, members, missing) ==
    LET written == DOMAIN snap.dashboards \ missing
        Sum(d) == [i \in DOMAIN snap.dashboards[d].tabs |-> [dashboard |-> d, tab |-> snap.dashboards[d].tabs[i].name]]
        store == [p \in { SummaryPath(d) : d \in written } |-> Sum(CHOOSE d \in written : SummaryPath(d) = p)]
        Answer(d) == { [name |-> d, tabs |-> Sum(d)] }
        clear == { d \in DOMAIN snap.dashboards : ~Ambiguous(members, d) }
    IN /\ \A d \in ListDashboards(snap) :
            d.name \in clear =>
              /\ GetDashboardSummary(snap, store, d.link) = IF d.name \in written THEN Answer(d.name) ELSE {}
              /\ ListTabSummaries(snap, store, d.link) = IF d.name \in written THEN ToSet(Sum(d.name)) ELSE {}
              /\ \A t \in ListDashboardTabs(snap, d.link) :
                   GetTabSummary(snap, store, d.link, t.link) =
                      IF d.name \in written THEN { [dashboard |-> d.name, tab |-> t.name] } ELSE {}
       /\ \A g \in ListDashboardGroups(snap) :
            LET of == GetDashboardGroup(snap, g.name)
            IN Ambiguous(members, g.name) \/ ~(of \subseteq clear)
               \/ ListDashboardSummaries(snap, store, g.link) = UNION { Answer(d) : d \in of \cap written }

(* Whatever the sources call their things, and however often the merger    *)
(* renames what its cache holds, in the configuration it writes every tab  *)
(* of every source leads the API to that source's test group and every     *)
(* dashboard group to that source's dashboards, links lead to what they    *)
(* are listed for and to its summaries as far as they are written, no two  *)
(* things have one name, and no two dashboards or tabs have their          *)
(* summaries or tab states in one object (Converge, ReadGCS,               *)
(* generateNormalCache, fetchSummary, SummaryPath, TabStatePath).  Excepted*)
(* are names of different sources that only differ in case or punctuation, *)
(* and names with a slash.                                                 *)
MergedResolves ==
    mode = "merge" /\ target # NoTarget =>
      LET c == target.cfg
          snap == Snapshot(c)
          groups == NamesIn(c.groups)
          dashboards == NamesIn(c.dashboards)
          members == dashboards \o NamesIn(c.dashboardGroups)
          Slash(name) == "/" \in ToSet(name)
          tabs == { <<d, t>> : d \in ToSet(dashboards), t \in { x.name : x \in Tabs(c) } }
      IN /\ IsInjective(groups) /\ IsInjective(members) /\ LinksLead(snap, members)
         /\ \A missing \in SUBSET DOMAIN snap.dashboards : SummariesLead(snap, members, missing)
         /\ \A k \in DOMAIN sources :
              /\ Resolves(sources[k], members, groups, snap)
              /\ \A i \in DOMAIN sources[k].from.dashboardGroups :
                   LET from == sources[k].from.dashboardGroups[i]
                       name == sources[k].to.dashboardGroups[i].name
                   IN \/ Ambiguous(members, name)
                      \/ GetDashboardGroup(snap, name) =
                            { NameNow(sources[k].from.dashboards, sources[k].to.dashboards, d) :
                              d \in ToSet(from.dashboards) }
         /\ \A d \in ToSet(dashboards) : \/ Ambiguous(dashboards, d)
                                        \/ \A e \in ToSet(dashboards) : SummaryPath(d) = SummaryPath(e) => d = e
         /\ \A x, y \in tabs : \/ TabStatePath(x[1], x[2]) = TabStatePath(y[1], y[2]) => x = y
                              \/ \E n \in {x[1], x[2], y[1], y[2]} : Slash(n)

(* As long as no request has ended, the configuration that the API server  *)
(* answers from becomes the one that was written last, although several    *)
(* goroutines put theirs into one cache (getConfig, Observe).  After that  *)
(* it may stay as it is.                                                   *)
ApiCatchesUp ==
    mode = "api" =>
      (<>[](done = {} /\ defaultCache # NoCache) => <>[](defaultCache # NoCache /\ caches[defaultCache].gen = target.gen))
=============================================================================
