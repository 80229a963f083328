----------------------------- MODULE Summarizer -----------------------------
(* The summarizer's Update (pkg/summarizer/summary.go): workers that       *)
(* summarise the dashboards which the queue sends, the goroutine that      *)
(* applies new configurations, and the fixer that schedules dashboards     *)
(* when Pub/Sub tells of a changed object (pubsub.go, pkg/pubsub).         *)
(*                                                                         *)
(* Queue says how a queue schedules; here an item is due or it is not.     *)
(* A tab state is the sequence of the seconds of its writes, so that its   *)
(* length is its version.  The summary of a tab is the version it was made *)
(* of and the LastUpdateTimestamp it carries; a mere status has neither.   *)
EXTENDS ConfigSnapshot, Selection

CONSTANTS
    Watcher,                \* the observer that is the summarizer
    Deployed,               \* bound: the configurations that are deployed in turn
    Workers,                \* as many as opts.Concurrency
    Allowed,                \* opts.AllowedDashboards
    FindDashboard,          \* whether there is a prefix for tab states
    Messages,               \* bound: the Pub/Sub messages
    Objects,                \* bound: the objects that they are about
    MaxEvents, MaxSecond    \* bounds: what happens outside, and for how long

(* A configuration is validated before it is deployed: no name is empty.   *)
ASSUME DeployedAssumption ==
    /\ Watcher \in Observers
    /\ Len(Deployed) \in Nat \ {0} /\ DOMAIN Deployed = 1 .. Len(Deployed)
    /\ \A c \in ToSet(Deployed) :
         /\ <<>> \notin ToSet(NamesIn(c.dashboards))
         /\ DOMAIN c.dashboards = 1 .. Len(c.dashboards)
         /\ \A d \in ToSet(c.dashboards) : /\ Len(d.tabs) \in Nat
                                          /\ d.tabs = [i \in 1 .. Len(d.tabs) |-> d.tabs[i]]

VARIABLES
    cfg,                    \* the *snapshot.Config in use
    loop,                   \* the goroutine of the configuration
    items,                  \* q.items: the dashboards, and whether each is due
    qgroups,                \* q.groups: the dashboards of each test group
    offered,                \* the dashboard that Send offers, or NoName
    active, waiting,
    worker,                 \* what each worker does
    tabstate,               \* tab states, by path
    summary,                \* the dashboard summaries that exist, by path
    fixer,                  \* FixGCS: whether it listens, and the notice it has
    message,                \* Pub/Sub: the state of each message
    asked                   \* history: dashboards asked for since their last update began

sumVars == <<cfg, loop, items, qgroups, offered, active, waiting, worker, tabstate, summary,
             fixer, message, asked>>
queueVars == <<items, qgroups, offered>>
workVars == <<active, waiting, worker>>
noticeVars == <<fixer, message>>

NoName == <<>>
NoNotice == <<>>
Unparseable == << <<>> >>
Status == [ver |-> 0, time |-> 0]
Missing == -9                                   \* Updated of zero attributes
Idle == [at |-> "idle", dash |-> NoName, tabs |-> <<>>, sum |-> <<>>, todo |-> <<>>,
         more |-> FALSE, failed |-> {}, stat |-> <<>>]

Paths == UNION { { TabStatePath(d.name, t.name) : t \in ToSet(d.tabs) } :
                 d \in UNION { ToSet(c.dashboards) : c \in ToSet(Deployed) } }

filterDashboards(dashboards) ==
    IF Allowed = {} THEN dashboards ELSE Restrict(dashboards, DOMAIN dashboards \cap Allowed)

UsedConfig(c) == [Snapshot(c) EXCEPT !.dashboards = filterDashboards(@)]

(* DashboardQueue.Init: the dashboards that show each group.               *)
GroupsOf(dashboards) ==
    [g \in { t.testGroup : t \in UNION { ToSet(d.tabs) : d \in Range(dashboards) } } |->
       { n \in DOMAIN dashboards : g \in { t.testGroup : t \in ToSet(dashboards[n].tabs) } }]

(* After the first fixSnapshot, with no summary yet: all are due.          *)
SumInit ==
    /\ cfg = UsedConfig(Deployed[1])
    /\ loop = [at |-> "select", snap |-> NoTarget]
    /\ items = [n \in DOMAIN cfg.dashboards |-> TRUE]
    /\ qgroups = GroupsOf(cfg.dashboards)
    /\ offered = NoName /\ active = {} /\ waiting = {}
    /\ worker = [w \in Workers |-> Idle]
    /\ tabstate = [p \in Paths |-> <<>>]
    /\ summary = [p \in { SummaryPath(n) : n \in DOMAIN cfg.dashboards } |-> <<>>]
    /\ fixer = [on |-> TRUE, notice |-> NoNotice]
    /\ message = [m \in Messages |-> [at |-> "none", object |-> NoNotice]]
    /\ asked = {}

(* Tab states and configurations written, and messages published.          *)
Events == FoldFunction(LAMBDA writes, n : Len(writes) + n, 0, tabstate)
          + Cardinality({ m \in Messages : message[m].at # "none" }) + target.gen

(* A configuration is written.                                             *)
Deploy == /\ target.gen < Len(Deployed) /\ Events < MaxEvents /\ Put(Deployed[target.gen + 1])
          /\ UNCHANGED <<sumVars, obs, done>>

(* The tabulator writes a tab state.                                       *)
WriteTabState(p) ==
    /\ Events < MaxEvents
    /\ \E s \in 1 .. MaxSecond :
         /\ \A q \in Paths : tabstate[q] # <<>> => Last(tabstate[q]) <= s
         /\ tabstate' = [tabstate EXCEPT ![p] = Append(@, s)]
    /\ UNCHANGED <<cfg, loop, queueVars, workVars, summary, noticeVars, asked>>
-----------------------------------------------------------------------------
(* The queue.  Fix with a time that is not later, for a name it may not    *)
(* have any more.                                                          *)
FixNow(names) == items' = [n \in DOMAIN items |-> items[n] \/ n \in names]

Elapse(n) == /\ ~items[n] /\ FixNow({n})
             /\ UNCHANGED <<cfg, loop, qgroups, offered, workVars, tabstate, summary, noticeVars, asked>>

SendPick(n) == /\ offered = NoName /\ items[n] /\ Watcher \notin done
               /\ items' = [items EXCEPT ![n] = FALSE]
               /\ offered' = n
               /\ UNCHANGED <<cfg, loop, qgroups, workVars, tabstate, summary, noticeVars, asked>>
-----------------------------------------------------------------------------
(* A worker takes a dashboard, unless another one is at it.                *)
Receive(w) ==
    /\ worker[w].at = "idle" /\ offered # NoName
    /\ IF offered \in active THEN waiting' = waiting \cup {offered} /\ UNCHANGED <<active, worker>>
       ELSE /\ active' = active \cup {offered}
            /\ worker' = [worker EXCEPT ![w] = [Idle EXCEPT !.at = "start", !.dash = offered]]
            /\ UNCHANGED waiting
    /\ offered' = NoName
    /\ UNCHANGED <<cfg, loop, items, qgroups, tabstate, summary, noticeVars, asked>>

Fails(w) == worker' = [worker EXCEPT ![w] = [Idle EXCEPT !.at = "failed", !.dash = worker[w].dash]]

(* A summary object that does not exist reads as no summary.               *)
ReadSummary(d) == IF SummaryPath(d) \in DOMAIN summary THEN summary[SummaryPath(d)] ELSE <<>>

(* updateName up to ReadSummary, which may fail.                           *)
StartUpdate(w) ==
    LET d == worker[w].dash
    IN /\ worker[w].at = "start"
       /\ \/ Fails(w)
          \/ /\ d \in DOMAIN cfg.dashboards
             /\ worker' = [worker EXCEPT ![w].at = "stat", ![w].tabs = cfg.dashboards[d].tabs,
                                        ![w].sum = ReadSummary(d)]
       /\ asked' = asked \ {d}
       /\ UNCHANGED <<cfg, loop, queueVars, active, waiting, tabstate, summary, noticeVars>>

Updated(p) == IF tabstate[p] = <<>> THEN Missing ELSE Last(tabstate[p])

(* A variant with a bug: a summary that is there counts as up to date.     *)
DelayOnlyNew(path, tabSum, statted) == IF ~statted THEN -1 ELSE IF tabSum = <<>> THEN 24 ELSE 0

(* How far the summary of a tab is behind; <<>> stands for none.           *)
Delay(path, tabSum, statted) ==
    CASE ~statted -> -1
      [] statted /\ tabSum = <<>> -> 24
      [] OTHER -> Updated(path) - tabSum[1].time

SumOf(sum, tab) == IF tab.name \in DOMAIN sum THEN <<sum[tab.name]>> ELSE <<>>

(* updateDashboard up to the requests: the tabs of groups that exist (by   *)
(* now), those that are behind in the order of their delays.  A summary    *)
(* that is missing, or whose tab state could not be statted, becomes a     *)
(* status.  Bound: all can be statted, or none.                            *)
KnownTabs(u) == Select(u.tabs, { i \in DOMAIN u.tabs : u.tabs[i].testGroup \in DOMAIN cfg.groups })

TabDelay(u, t, statted) == Delay(TabStatePath(u.dash, t.name), SumOf(u.sum, t), t \in statted)

(* The stable sort by delay: a tab goes before those that are less behind. *)
InsertDelayed(tabs, tab) ==
    LET less == { i \in DOMAIN tabs : tabs[i].delay < tab.delay }
        at == Min({Len(tabs) + 1} \cup less)
    IN SubSeq(tabs, 1, at - 1) \o <<tab>> \o SubSeq(tabs, at, Len(tabs))
SortingDelays == INSTANCE Fold WITH Step <- InsertDelayed

TabsBehind(u, statted) ==
    LET known == KnownTabs(u)
        delayed == [i \in DOMAIN known |-> [tab |-> known[i], delay |-> TabDelay(u, known[i], statted)]]
        sorted == SortingDelays!Fold(<<>>, Select(delayed, { i \in DOMAIN known : delayed[i].delay # 0 }))
    IN [i \in DOMAIN sorted |-> sorted[i].tab]

SummaryAfterStat(u, statted) ==
    LET tabs == ToSet(u.tabs)
        After(t) == IF t \in ToSet(KnownTabs(u)) /\ t \in statted /\ SumOf(u.sum, t) # <<>>
                      THEN u.sum[t.name] ELSE Status
    IN [n \in { t.name : t \in tabs } |-> After(CHOOSE t \in tabs : t.name = n)]

VersionsSeen(u) == [t \in { k.name : k \in ToSet(KnownTabs(u)) } |-> Len(tabstate[TabStatePath(u.dash, t)])]

StatTabs(w) ==
    LET u == worker[w]
    IN /\ u.at = "stat"
       /\ \E statted \in {ToSet(KnownTabs(u)), {}} :
            worker' = [worker EXCEPT ![w] =
                         [u EXCEPT !.at = "tabs", !.todo = TabsBehind(u, statted),
                                   !.sum = SummaryAfterStat(u, statted),
                                   !.failed = { t.name : t \in ToSet(u.tabs) \ ToSet(KnownTabs(u)) },
                                   !.stat = VersionsSeen(u)]]
       /\ UNCHANGED <<cfg, loop, queueVars, active, waiting, tabstate, summary, noticeVars, asked>>

updateTab(p) == [ver |-> Len(tabstate[p]), time |-> Last(tabstate[p])]

(* A worker of tabUpdatePool reads the tab state of a requested tab and    *)
(* updateTab makes its summary (TabStatus); or that fails.  Bound: no more *)
(* than one tab state that is there cannot be read.                        *)
UpdateTab(w, i) ==
    LET u == worker[w]
        t == u.todo[i].name
        p == TabStatePath(u.dash, t)
        Now(s, failed) == [u EXCEPT !.todo = RemoveAt(u.todo, i), !.sum = [u.sum EXCEPT ![t] = s],
                                    !.failed = failed]
    IN /\ u.at = "tabs"
       /\ \/ tabstate[p] # <<>> /\ worker' = [worker EXCEPT ![w] = Now(updateTab(p), u.failed)]
          \/ /\ tabstate[p] = <<>> \/ u.failed = {}
             /\ worker' = [worker EXCEPT ![w] = Now(Status, u.failed \cup {t})]
       /\ UNCHANGED <<cfg, loop, queueVars, active, waiting, tabstate, summary, noticeVars, asked>>

(* Half of the time is over: no tab is requested any more.                 *)
GraceEnds(w) ==
    /\ worker[w].at = "tabs" /\ ~worker[w].more
    /\ \E n \in 0 .. Len(worker[w].todo) :
         worker' = [worker EXCEPT ![w].more = TRUE, ![w].todo = SubSeq(@, 1, n)]
    /\ UNCHANGED <<cfg, loop, queueVars, active, waiting, tabstate, summary, noticeVars, asked>>

(* Summaries are written whatever is there.                                *)
writeSummaries(paths, sum) ==
    summary' = [p \in DOMAIN summary \cup paths |-> IF p \in paths THEN sum ELSE summary[p]]

WriteSummary(w) ==
    /\ worker[w].at = "tabs" /\ worker[w].todo = <<>>
    /\ \/ Fails(w) /\ UNCHANGED <<summary, asked>>
       \/ /\ writeSummaries({SummaryPath(worker[w].dash)}, worker[w].sum)
          /\ asked' = IF worker[w].more THEN asked \cup ({worker[w].dash} \cap DOMAIN items) ELSE asked
          /\ worker' = [worker EXCEPT ![w].at = "written"]
    /\ UNCHANGED <<cfg, loop, queueVars, active, waiting, tabstate, noticeVars>>

(* A failed update is tried again in half a period, one that was cut now.  *)
Reschedule(w) ==
    /\ worker[w].at \in {"failed", "written"}
    /\ FixNow(IF worker[w].at = "written" /\ worker[w].more THEN {worker[w].dash} ELSE {})
    /\ worker' = [worker EXCEPT ![w] = [Idle EXCEPT !.at = "release", !.dash = worker[w].dash]]
    /\ UNCHANGED <<cfg, loop, qgroups, offered, active, waiting, tabstate, summary, noticeVars, asked>>

(* A variant with a bug: who waits is forgotten.                           *)
ReleaseForgets(w) ==
    /\ worker[w].at = "release"
    /\ active' = active \ {worker[w].dash} /\ waiting' = waiting \ {worker[w].dash}
    /\ worker' = [worker EXCEPT ![w] = Idle]
    /\ UNCHANGED <<cfg, loop, queueVars, tabstate, summary, noticeVars, asked>>

Release(w) ==
    /\ worker[w].at = "release"
    /\ active' = active \ {worker[w].dash} /\ waiting' = waiting \ {worker[w].dash}
    /\ worker' = [worker EXCEPT ![w] = IF worker[w].dash \in waiting
                                         THEN [Idle EXCEPT !.at = "restart", !.dash = worker[w].dash]
                                         ELSE Idle]
    /\ UNCHANGED <<cfg, loop, queueVars, tabstate, summary, noticeVars, asked>>

Restart(w) ==
    /\ worker[w].at = "restart"
    /\ FixNow({worker[w].dash})
    /\ worker' = [worker EXCEPT ![w] = Idle]
    /\ UNCHANGED <<cfg, loop, qgroups, offered, active, waiting, tabstate, summary, noticeVars, asked>>

Work(w) == \/ Receive(w) \/ StartUpdate(w) \/ StatTabs(w) \/ GraceEnds(w) \/ WriteSummary(w)
           \/ Reschedule(w) \/ Release(w) \/ Restart(w)
           \/ \E i \in DOMAIN worker[w].todo : UpdateTab(w, i)
-----------------------------------------------------------------------------
(* The goroutine of the configuration.  It takes a new one, and stops the  *)
(* fixer; when that has returned (StopFixer) it assigns cfg, and then it   *)
(* stats the summaries and fixes the queue.                                *)
TakeConfig ==
    /\ loop.at = "select" /\ obs[Watcher].at = "sending"
    /\ loop' = [at |-> "stopping", snap |-> obs[Watcher].snap]
    /\ Sent(Watcher)
    /\ UNCHANGED <<target, done, cfg, queueVars, workVars, tabstate, summary, noticeVars, asked>>

(* When the context is done the channel is closed; select may take that    *)
(* for a configuration, and fixSnapshot then uses a nil pointer.           *)
LoopEnds ==
    /\ loop.at = "select"
    /\ \/ Watcher \in done /\ loop' = [loop EXCEPT !.at = "returned"]
       \/ obs[Watcher].at = "closed" /\ loop' = [loop EXCEPT !.at = "panicked"]
    /\ fixer' = [fixer EXCEPT !.on = FALSE]
    /\ UNCHANGED <<snapVars, cfg, queueVars, workVars, tabstate, summary, message, asked>>

StopFixer ==
    /\ loop.at = "stopping" /\ fixer.notice = NoNotice
    /\ \A m \in Messages : message[m].at \notin {"offered", "taken"}
    /\ fixer' = [fixer EXCEPT !.on = FALSE]
    /\ cfg' = UsedConfig(loop.snap.cfg)
    /\ loop' = [loop EXCEPT !.at = "fixing"]
    /\ UNCHANGED <<queueVars, workVars, tabstate, summary, message, asked>>

(* lockDashboard for each of the names: an empty summary is written.       *)
lockDashboard(names) == writeSummaries({ SummaryPath(n) : n \in names }, <<>>)

(* fixSnapshot.  A summary that is missing is created, empty, if that can  *)
(* be done, and due now; so is one that cannot be statted.  The others are *)
(* due a period after their last update.                                   *)
FixSnapshot ==
    LET missing == { n \in DOMAIN cfg.dashboards : SummaryPath(n) \notin DOMAIN summary }
    IN
    /\ loop.at = "fixing"
    /\ \E due \in SUBSET DOMAIN cfg.dashboards :
         /\ missing \subseteq due
         /\ items' = [n \in DOMAIN cfg.dashboards |-> n \in due \/ (n \in DOMAIN items /\ items[n])]
    /\ \E created \in SUBSET missing : lockDashboard(created)
    /\ qgroups' = GroupsOf(cfg.dashboards)
    /\ asked' = asked \cap DOMAIN items'
    /\ fixer' = [fixer EXCEPT !.on = TRUE]
    /\ loop' = [at |-> "select", snap |-> NoTarget]
    /\ UNCHANGED <<cfg, offered, workVars, tabstate, message>>
-----------------------------------------------------------------------------
(* Pub/Sub: a message about an object, or one that cannot be parsed.       *)
(* It is published, offered by the callback of SendGCS, taken by the       *)
(* fixer, and then acknowledged, unless that is lost.                      *)
MessageGoes(m, at) == message' = [message EXCEPT ![m].at = at]

Ack(m) == message' = [message EXCEPT ![m] = [at |-> "acked", object |-> NoNotice]]

Publish(m, o) == /\ message[m].at = "none" /\ Events < MaxEvents
                 /\ message' = [message EXCEPT ![m] = [at |-> "queued", object |-> o]]
                 /\ UNCHANGED fixer

sendToReceivers(m) ==
    /\ message[m].at = "queued" /\ fixer.on
    /\ IF message[m].object = Unparseable THEN Ack(m) ELSE MessageGoes(m, "offered")
    /\ UNCHANGED fixer

Nack(m) == message[m].at = "offered" /\ loop.at # "select" /\ MessageGoes(m, "queued") /\ UNCHANGED fixer

Acknowledge(m) == message[m].at = "taken" /\ Ack(m) /\ UNCHANGED fixer

Redeliver(m) == message[m].at = "taken" /\ MessageGoes(m, "queued") /\ UNCHANGED fixer

PubSub == /\ \E m \in Messages : \/ \E o \in Objects : Publish(m, o)
                                 \/ sendToReceivers(m) \/ Nack(m) \/ Acknowledge(m) \/ Redeliver(m)
          /\ UNCHANGED <<cfg, loop, queueVars, workVars, tabstate, summary, asked>>

(* processNotification: objects are relative to the prefix, so that those  *)
(* of test groups have one part and tab states are <<dashboard, tab>>.     *)
processNotification(object) ==
    IF Len(object) = (IF FindDashboard THEN 2 ELSE 1) THEN {object[1]} ELSE {}

(* DashboardQueue.FixTestGroups.                                           *)
FixTestGroups(groups) == FixNow(UNION { qgroups[g] : g \in groups \cap DOMAIN qgroups })

(* The dashboards that a notice is about: those of the test group, or the  *)
(* one of the tab.                                                         *)
Concerned(object) ==
    { n \in DOMAIN items :
        \/ ~FindDashboard /\ Len(object) = 1 /\ object[1] \in DOMAIN qgroups /\ n \in qgroups[object[1]]
        \/ FindDashboard /\ Len(object) = 2 /\ n = object[1] }

TakeNotice(m) ==
    /\ message[m].at = "offered" /\ fixer.on /\ fixer.notice = NoNotice
    /\ fixer' = [fixer EXCEPT !.notice = message[m].object]
    /\ MessageGoes(m, "taken")
    /\ asked' = asked \cup Concerned(message[m].object)
    /\ UNCHANGED <<cfg, loop, queueVars, workVars, tabstate, summary>>

ProcessNotice ==
    /\ fixer.notice # NoNotice
    /\ FixTestGroups(processNotification(fixer.notice))
    /\ fixer' = [fixer EXCEPT !.notice = NoNotice]
    /\ UNCHANGED <<cfg, loop, qgroups, offered, workVars, tabstate, summary, message, asked>>
-----------------------------------------------------------------------------
SendReturns == /\ Watcher \in done /\ offered # NoName /\ offered' = NoName
               /\ UNCHANGED <<cfg, loop, items, qgroups, workVars, tabstate, summary, noticeVars, asked>>

(* The context is done.  Bound: only while no worker is busy.              *)
StopSummarizer == /\ Watcher \notin done /\ active = {} /\ fixer.notice = NoNotice
                  /\ done' = done \cup {Watcher}
                  /\ UNCHANGED <<sumVars, target, obs>>

(* Once the context is done, only the end of the goroutines is followed.   *)
SumNext ==
    \/ Deploy \/ StopSummarizer \/ TakeConfig \/ LoopEnds
    \/ SendReturns /\ UNCHANGED snapVars
    \/ (Tick(Watcher) \/ CloseChannel(Watcher)) /\ UNCHANGED sumVars
    \/ /\ \/ StopFixer \/ FixSnapshot \/ PubSub \/ ProcessNotice
          \/ \E n \in DOMAIN items : Elapse(n) \/ SendPick(n)
          \/ \E p \in Paths : WriteTabState(p)
          \/ \E w \in Workers : Work(w)
          \/ \E m \in Messages : TakeNotice(m)
       /\ Watcher \notin done
       /\ UNCHANGED snapVars
-----------------------------------------------------------------------------
Pending(d) ==
    \/ items[d] \/ offered = d
    \/ d \in active \cap waiting
    \/ d \in Concerned(fixer.notice)
    \/ \E w \in Workers : /\ worker[w].dash = d
                          /\ \/ worker[w].at \in {"start", "restart"}
                             \/ worker[w].at = "written" /\ worker[w].more

(* No request is forgotten: a dashboard that a notice was about, or whose  *)
(* update was cut short, is due, on its way or waiting until an update of  *)
(* it begins, whatever other workers and new configurations do meanwhile;  *)
(* and the process does not end before its context does (Update, FixGCS).  *)
RequestKept ==
    Watcher \notin done => /\ loop.at # "panicked"
                          /\ \A d \in asked \cap DOMAIN items : Pending(d)

(* A complete update leaves a summary of exactly the dashboard's tabs,     *)
(* each made of the tab state that was there when the update looked or of  *)
(* a later one, although tabs that seem up to date are skipped             *)
(* (updateDashboard).  Excepted are tabs that failed, and tab states       *)
(* written twice in a second.                                              *)
TabsCurrent ==
    \A w \in Workers :
      worker[w].at = "written" /\ ~worker[w].more =>
        LET u == worker[w]
            stored == summary[SummaryPath(u.dash)]
            names == { t.name : t \in ToSet(u.tabs) }
            Writes(t) == tabstate[TabStatePath(u.dash, t)]
        IN /\ DOMAIN stored = names
           /\ \A t \in names \ u.failed :
                LET shown == stored[t].ver
                IN \/ shown >= u.stat[t]
                   \/ shown > 0 /\ Writes(t)[shown] = Writes(t)[u.stat[t]]
=============================================================================
