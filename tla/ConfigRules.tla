---------------------------- MODULE ConfigRules -----------------------------
(* Configurations: how YAML files with defaults become one                 *)
(* (config/yamlcfg), what Validate accepts (config/config.go) and how      *)
(* Converge merges several (config/converge.go).                           *)
(*                                                                         *)
(* A name is a sequence of words, some of which are punctuation.  A        *)
(* configuration is [groups, dashboards, dashboardGroups], each a          *)
(* sequence; a dashboard is [name, tabs], a dashboard group [name,         *)
(* dashboards].  A text that only needs to be well-formed (a regular       *)
(* expression, a list of addresses) is "", "ok" or "bad".                  *)
EXTENDS Integers, FiniteSets, SequencesExt

CONSTANTS
    Punctuation,            \* words without a letter or a digit
    Illegal,                \* words that nameRegex does not accept
    Lower,                  \* maps each word to itself in lower case
    Length,                 \* how many letters and digits a word has
    minNameLength, maxNameLength

NoDefaults == [none |-> TRUE]
Reserved == {"dashboard", "alerter", "summary", "bugs"}
-----------------------------------------------------------------------------
(* YAML.  Fields that are unset have their zero value; the default fills   *)
(* them, and two are always set.  Without a default file the default is a  *)
(* nil pointer.                                                            *)
TestGroupZero == [days |-> 0, namePolicy |-> 0, ignorePending |-> FALSE, ignoreSkip |-> FALSE,
                  headers |-> <<>>, recent |-> 0, stale |-> 0, failures |-> 0, codeSearch |-> "",
                  passes |-> 0]
TabZero == [bugComponent |-> 0, codeSearch |-> "", recent |-> 0, openTest |-> "", fileBug |-> "",
            attachBug |-> "", resultsText |-> "", resultsUrl |-> "", codeSearchUrl |-> "",
            alertOptions |-> "", openBug |-> ""]

Fill(current, default, zero) ==
    [f \in DOMAIN current |-> IF f \in DOMAIN zero /\ current[f] = zero[f] THEN default[f] ELSE current[f]]

ReconcileTestGroup(current, default) ==
    [Fill(current, default, TestGroupZero) EXCEPT !.isExternal = TRUE, !.useKubernetesClient = TRUE]

ReconcileDashboardTab(current, default) == Fill(current, default, TabZero)

NeedsDefault(current, zero) == \E f \in DOMAIN zero : current[f] = zero[f]

(* A file is [dir, base, yaml, parses, cfg]; base "default" stands for both*)
(* names that a file of defaults may have.  SeekYAMLFiles passes over a    *)
(* file with another extension.                                            *)
SeekYAMLFiles(files) == SelectSeq(files, LAMBDA f : f.yaml)

getDefaults(files) == { i \in DOMAIN files : files[i].base = "default" }

(* A file of defaults has both of them.                                    *)
LoadDefaults(f) == f.parses /\ NoDefaults \notin {f.cfg.group, f.cfg.tab}

DefaultsOf(files, dir, overall) ==
    LET local == { i \in getDefaults(files) : files[i].dir = dir }
    IN IF local = {} THEN overall ELSE files[CHOOSE i \in local : TRUE].cfg

Update(cfg, new, defaults) ==
    [groups |-> cfg.groups \o [i \in DOMAIN new.groups |->
                                  ReconcileTestGroup(new.groups[i], defaults.group)],
     dashboards |-> cfg.dashboards \o
        [i \in DOMAIN new.dashboards |->
           [new.dashboards[i] EXCEPT !.tabs =
              [k \in DOMAIN @ |-> ReconcileDashboardTab(@[k], defaults.tab)]]],
     dashboardGroups |-> cfg.dashboardGroups \o new.dashboardGroups]

EmptyConfig == [groups |-> <<>>, dashboards |-> <<>>, dashboardGroups |-> <<>>]

(* ReadConfig over the YAML files among paths, in order: an error, a panic *)
(* on missing defaults, or the configuration.                              *)
ReadConfig(paths, overall) ==
    LET files == SeekYAMLFiles(paths)
        defaults == getDefaults(files)
        twice == \E i, j \in defaults : i # j /\ files[i].dir = files[j].dir
        Default(f) == DefaultsOf(files, f.dir, overall)
        Nil(f) == /\ Default(f) = NoDefaults
                  /\ \/ \E tg \in ToSet(f.cfg.groups) : NeedsDefault(tg, TestGroupZero)
                     \/ \E d \in ToSet(f.cfg.dashboards) : \E t \in ToSet(d.tabs) : NeedsDefault(t, TabZero)
        Read(acc, f) == CASE acc.state # "read" -> acc
                          [] acc.state = "read" /\ ~f.parses -> [state |-> "error"]
                          [] acc.state = "read" /\ f.parses /\ Nil(f) -> [state |-> "panic"]
                          [] OTHER -> [acc EXCEPT !.cfg = Update(@, f.cfg, Default(f))]
    IN IF twice \/ \E i \in defaults : ~LoadDefaults(files[i]) THEN [state |-> "error"]
       ELSE FoldLeft(Read, [state |-> "read", cfg |-> EmptyConfig],
                     SelectSeq(files, LAMBDA f : f.base # "default"))
-----------------------------------------------------------------------------
(* Validation.                                                             *)
Normalize(name) ==
    LET kept == SelectSeq(name, LAMBDA w : w \notin Punctuation)
    IN [i \in DOMAIN kept |-> Lower[kept[i]]]

NamesIn(entities) == [i \in DOMAIN entities |-> entities[i].name]

validateUnique(names) ==
    \A i, j \in DOMAIN names : Normalize(names[i]) = Normalize(names[j]) => i = j

validateName(name) ==
    LET normal == Normalize(name)
        length == FoldLeft(LAMBDA n, w : n + Length[w], 0, normal)
    IN /\ \A i \in DOMAIN name : name[i] \notin Illegal
       /\ length >= minNameLength /\ length <= maxNameLength
       /\ normal[1] \notin Reserved

validateAllUnique(c) ==
    LET All(entities) == \A i \in DOMAIN entities : validateName(entities[i].name)
    IN /\ All(c.groups) /\ validateUnique(NamesIn(c.groups))
       /\ All(c.dashboards)
       /\ \A d \in ToSet(c.dashboards) : All(d.tabs) /\ validateUnique(NamesIn(d.tabs))
       /\ All(c.dashboardGroups)
       /\ validateUnique(NamesIn(c.dashboards) \o NamesIn(c.dashboardGroups))

Tabs(c) == UNION { ToSet(d.tabs) : d \in ToSet(c.dashboards) }

validateReferencesExist(c) ==
    LET members == FlattenSeq([i \in DOMAIN c.dashboardGroups |-> c.dashboardGroups[i].dashboards])
    IN /\ { t.testGroup : t \in Tabs(c) } = ToSet(NamesIn(c.groups))
       /\ ToSet(members) \subseteq ToSet(NamesIn(c.dashboards))
       /\ IsInjective(members)

validateEmails(addresses) == addresses # "bad"

validateResultStoreSource(tg) ==
    tg.source.kind = "resultstore" =>
        /\ tg.gcsPrefix = "" /\ ~tg.useKubernetesClient
        /\ tg.source.project # "" /\ tg.source.query # "bad"

validateGCSSource(tg) ==
    tg.source.kind = "gcs" =>
        /\ tg.gcsPrefix = "" /\ ~tg.useKubernetesClient
        /\ tg.source.gcsPrefix # ""
        /\ (tg.source.project = "") = (tg.source.subscription = "")

validateHeader(h) == Cardinality({ f \in {"value", "property", "label"} : h[f] # "" }) = 1

(* slots is the number of % in the format.                                 *)
validateNameConfig(nc) ==
    nc.is => /\ nc.elements > 0
             /\ nc.format = "ok" /\ nc.slots = nc.elements

validateTestGroup(tg) ==
    /\ tg.gcsPrefix # "" \/ tg.source.kind # "none"
    /\ tg.days > 0 /\ tg.recent > 0
    /\ validateResultStoreSource(tg) /\ validateGCSSource(tg)
    /\ tg.methodRegex # "bad" /\ validateEmails(tg.mailTo)
    /\ \A o \in ToSet(tg.metadataOptions) : /\ <<o.message, o.name>> # <<"", "">>
                                            /\ "bad" \notin {o.message, o.name}
    /\ \A n \in ToSet(tg.notifications) : n.summary # ""
    /\ \A a \in ToSet(tg.annotations) : a.property # "" /\ a.shortText \in 1 .. 5
    /\ (tg.fallback = "configuration value") = (tg.fallbackValue # "")
    /\ \A h \in ToSet(tg.headers) : validateHeader(h)
    /\ validateNameConfig(tg.nameConfig)

(* A tabular regular expression is [text, named, groups].                  *)
validateDashboardTab(dt) ==
    /\ dt.testGroup # <<>> /\ dt.name # <<"Summary">>
    /\ dt.tabular.text # "bad"
    /\ dt.tabular.text = "ok" => dt.tabular.groups = dt.tabular.named /\ dt.tabular.named > 0
    /\ validateEmails(dt.mailTo)
    /\ dt.maxFlakiness \in 0 .. 100

validateEntityConfigs(c) == /\ \A tg \in ToSet(c.groups) : validateTestGroup(tg)
                            /\ \A dt \in Tabs(c) : validateDashboardTab(dt)

Validate(c) ==
    /\ c.groups # <<>> /\ c.dashboards # <<>>
    /\ \A d \in ToSet(c.dashboards) : d.tabs # <<>>
    /\ validateAllUnique(c) /\ validateReferencesExist(c) /\ validateEntityConfigs(c)
-----------------------------------------------------------------------------
(* Converging.  The n-th name that is tried for a name that is taken.      *)
Attempt(prefix, n, name) ==
    IF n = 1 THEN prefix \o <<"-">> \o name
    ELSE prefix \o <<"-", ToString(n), "-">> \o name

negotiateConversions(prefix, original, new) ==
    LET tries == 1 .. (Cardinality(original \cup new) + 1)
        Free(n, name) == Attempt(prefix, n, name) \notin original \cup new
        First(name) == CHOOSE n \in tries : Free(n, name) /\ \A m \in tries : Free(m, name) => n <= m
    IN [name \in original \cap new |-> Attempt(prefix, First(name), name)]

Renamed(renames, name) == IF name \in DOMAIN renames THEN renames[name] ELSE name

(* Variants with a bug: the tabs keep the old name of a group.             *)
RenameTestGroupsOnly(renames, c) ==
    [c EXCEPT !.groups = [i \in DOMAIN @ |-> [@[i] EXCEPT !.name = Renamed(renames, @)]]]

RenameTestGroups(renames, c) ==
    [c EXCEPT !.groups = [i \in DOMAIN @ |-> [@[i] EXCEPT !.name = Renamed(renames, @)]],
              !.dashboards = [i \in DOMAIN @ |->
                 [@[i] EXCEPT !.tabs = [k \in DOMAIN @ |->
                    [@[k] EXCEPT !.testGroup = Renamed(renames, @)]]]]]

RenameDashboardsAndGroups(renames, c) ==
    [c EXCEPT !.dashboards = [i \in DOMAIN @ |-> [@[i] EXCEPT !.name = Renamed(renames, @)]],
              !.dashboardGroups = [i \in DOMAIN @ |->
                 [name |-> Renamed(renames, @[i].name),
                  dashboards |-> [k \in DOMAIN @[i].dashboards |-> Renamed(renames, @[i].dashboards[k])]]]]

DashboardsAndGroups(c) == ToSet(NamesIn(c.dashboards)) \cup ToSet(NamesIn(c.dashboardGroups))

(* The turn of Converge's loop for the shard with that key: what it is     *)
(* renamed to, given what was merged so far.                               *)
Rename(merged, key, c) ==
    RenameTestGroups(negotiateConversions(key, ToSet(NamesIn(merged.groups)), ToSet(NamesIn(c.groups))),
        RenameDashboardsAndGroups(
            negotiateConversions(key, DashboardsAndGroups(merged), DashboardsAndGroups(c)), c))

(* proto.Merge appends the lists.                                          *)
Merge(a, b) == [f \in DOMAIN a |-> a[f] \o b[f]]

(* Converge: shards is renamed in place, in the order of keys, which gives *)
(* the key of every shard.  The result is [merged, shards].                *)
Converge(shards, keys) ==
    FoldLeft(LAMBDA acc, k :
               IF k \notin DOMAIN shards THEN acc
               ELSE LET c == Rename(acc.merged, keys[k], shards[k])
                    IN [merged |-> Merge(acc.merged, c), shards |-> [acc.shards EXCEPT ![k] = c]],
             [merged |-> EmptyConfig, shards |-> shards], [k \in DOMAIN keys |-> k])
=============================================================================
