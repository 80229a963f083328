--------------------------- MODULE ServicesProofs ---------------------------
(***************************************************************************)
(* Proofs about the services around the updater, for every set of names,   *)
(* workers and configurations and for every bound.                         *)
(***************************************************************************)
EXTENDS Services, SelectionProofs, SequenceTheorems

(* The queue that is saved and loaded (PersistQueue).  SavedKept is not    *)
(* inductive: a crash forgets what was loaded, so that the object must     *)
(* have what is owed also while the queue has it, and what a tick has in   *)
(* hand must still be true when it is written.                             *)
PersistTypes ==
    /\ DOMAIN when \subseteq QNames /\ when \in [DOMAIN when -> Int]
    /\ DOMAIN file \subseteq QNames /\ file \in [DOMAIN file -> Int]
    /\ DOMAIN owed \subseteq QNames /\ owed \in [DOMAIN owed -> Int]
    /\ clock \in Nat

TickTypes ==
    \/ tick = Waiting
    \/ tick = [at |-> "load", whens |-> file]
    \/ \E w, f : /\ tick = [at |-> "save", whens |-> w, fresh |-> f]
                 /\ DOMAIN w \subseteq QNames /\ w \in [DOMAIN w -> Int]
                 /\ f \subseteq DOMAIN w
                 /\ shouldSave
                 /\ \A n \in f : n \in DOMAIN when /\ when[n] <= w[n]

PersistInv ==
    /\ PersistTypes /\ TickTypes
    /\ \A n \in DOMAIN owed : n \in DOMAIN file /\ file[n] <= owed[n]
    /\ shouldSave => \A n \in DOMAIN owed : n \in DOMAIN when /\ when[n] <= owed[n]

(* One step of the queue or its fixer keeps what was saved. *)
LEMMA PersistStep == PersistInv /\ [PersistNext]_persistVars => PersistInv'
<1> SUFFICES ASSUME PersistInv, [PersistNext]_persistVars PROVE PersistInv'
  OBVIOUS
<1> USE PersistAssumption
<1>1. CASE PassTime
  BY <1>1 DEF PassTime, PersistInv, PersistTypes, TickTypes
<1>2. CASE UNCHANGED persistVars
  BY <1>2 DEF persistVars, PersistInv, PersistTypes, TickTypes
<1>3. CASE TickLoad
  BY <1>3 DEF TickLoad, PersistInv, PersistTypes, TickTypes
<1>4. CASE TickSave
  BY <1>4 DEF TickSave, PersistInv, PersistTypes, TickTypes
<1>5. CASE Load
  BY <1>5 DEF Load, Without, PersistInv, PersistTypes, TickTypes, Waiting
<1>6. CASE LoadFails \/ SaveFails
  BY <1>6 DEF LoadFails, SaveFails, PersistInv, PersistTypes, TickTypes
<1>7. CASE Save
  BY <1>7 DEF Save, PersistInv, PersistTypes, TickTypes, Waiting
<1>8. CASE Crash
  BY <1>8 DEF Crash, PersistInv, PersistTypes, TickTypes
<1>9. ASSUME NEW n \in QNames, SendName(n) \/ FixLater(n) PROVE PersistInv'
  <2>1. /\ n \in DOMAIN when /\ when' = [when EXCEPT ![n] = clock + QFreq]
        /\ owed' = [m \in DOMAIN owed \ {n} |-> owed[m]]
        /\ tick' = IF tick.at = "save" THEN [tick EXCEPT !.fresh = @ \ {n}] ELSE tick
        /\ UNCHANGED <<file, shouldSave, clock>>
    BY <1>9 DEF SendName, FixLater, Forget, Without
  <2>2. PersistTypes'
    BY <2>1 DEF PersistInv, PersistTypes
  <2>3. TickTypes'
    <3>1. CASE tick = Waiting \/ tick = [at |-> "load", whens |-> file]
      BY <2>1, <3>1 DEF TickTypes, Waiting
    <3>2. ASSUME NEW w, NEW f, tick = [at |-> "save", whens |-> w, fresh |-> f],
                 DOMAIN w \subseteq QNames, w \in [DOMAIN w -> Int], f \subseteq DOMAIN w, shouldSave,
                 \A m \in f : m \in DOMAIN when /\ when[m] <= w[m]
          PROVE  TickTypes'
      <4>1. tick' = [at |-> "save", whens |-> w, fresh |-> f \ {n}]
        BY <2>1, <3>2
      <4>2. \A m \in f \ {n} : m \in DOMAIN when' /\ when'[m] <= w[m]
        BY <2>1, <3>2
      <4> QED BY <2>1, <3>2, <4>1, <4>2 DEF TickTypes
    <3> QED BY <3>1, <3>2 DEF PersistInv, TickTypes
  <2> QED BY <2>1, <2>2, <2>3 DEF PersistInv, PersistTypes
<1>10. ASSUME NEW n \in QNames, FixEarlier(n) PROVE PersistInv'
  BY <1>10 DEF FixEarlier, PersistInv, PersistTypes, TickTypes
<1>11. ASSUME NEW S \in SUBSET QNames, NewNames(S) PROVE PersistInv'
  BY <1>11 DEF NewNames, Forget, Without, PersistInv, PersistTypes, TickTypes, Waiting
<1> QED BY <1>1, <1>2, <1>3, <1>4, <1>5, <1>6, <1>7, <1>8, <1>9, <1>10, <1>11 DEF PersistNext

(* The services run the queue as it is. *)
LEMMA ServicesPersist ==
    /\ ServicesInit => PersistInit
    /\ [ServicesNext]_serviceVars => [PersistNext]_persistVars
  BY DEF ServicesInit, ServicesNext, serviceVars

(* A time that FixPersistent saved is not lost, whatever crashes, failed   *)
(* loads and saves, sends, fixes and configurations come in between: the   *)
(* object has it until it was loaded, and the queue from then on.          *)
THEOREM SavedTimesKept == ServicesSpec => []SavedKept
<1>1. PersistInit => PersistInv
  BY PersistAssumption DEF PersistInit, PersistInv, PersistTypes, TickTypes
<1>2. PersistInv => SavedKept
  BY DEF PersistInv, SavedKept
<1> QED BY <1>1, <1>2, PersistStep, ServicesPersist, PTL DEF ServicesSpec

-----------------------------------------------------------------------------
(* The summarizer.  RequestKept needs: the shapes of the records; that no  *)
(* dashboard has the name that stands for none, which validation rules     *)
(* out; that the fixer holds no notice while the queue's groups are        *)
(* replaced; and that the channel of configurations is closed only when    *)
(* the context is done.                                                    *)
WorkerShape(u) == /\ DOMAIN u = {"at", "dash", "tabs", "sum", "todo", "more", "failed", "stat"}
                  /\ u = [x \in DOMAIN u |-> u[x]]

SumTypes ==
    /\ worker = [w \in Workers |-> worker[w]] /\ \A w \in Workers : WorkerShape(worker[w])
    /\ items = [n \in DOMAIN items |-> items[n]]
    /\ fixer = [on |-> fixer.on, notice |-> fixer.notice]
    /\ loop = [at |-> loop.at, snap |-> loop.snap]

Named(c) == NoName \notin ToSet(NamesIn(c.dashboards))

Watched ==
    /\ obs = [o \in Observers |-> obs[o]]
    /\ obs[Watcher] = [at |-> obs[Watcher].at, gen |-> obs[Watcher].gen, snap |-> obs[Watcher].snap]
    /\ obs[Watcher].at = "closed" => Watcher \in done
    /\ target.gen \in Nat /\ Named(target.cfg) /\ Named(obs[Watcher].snap.cfg)
    /\ loop.at = "stopping" => Named(loop.snap.cfg)
    /\ NoName \notin DOMAIN cfg.dashboards /\ NoName \notin DOMAIN items

Requests ==
    /\ loop.at = "fixing" => fixer.notice = NoNotice /\ ~fixer.on
    /\ asked \subseteq DOMAIN items
    /\ loop.at = "panicked" => Watcher \in done
    /\ Watcher \notin done => \A d \in asked : Pending(d)

SumInv == SumTypes /\ Watched /\ Requests

(* The dashboards that are used are among those of the configuration.      *)
LEMMA UsedNames == \A c : Named(c) => NoName \notin DOMAIN UsedConfig(c).dashboards
<1> TAKE c
<1>1. Snapshot(c) = [dashboardGroups |-> ByName(c.dashboardGroups), dashboards |-> ByName(c.dashboards),
                     groups |-> ByName(c.groups)]
  BY DEF Snapshot
<1>2. UsedConfig(c).dashboards = filterDashboards(ByName(c.dashboards))
  BY <1>1 DEF UsedConfig
<1>3. DOMAIN ByName(c.dashboards) = ToSet(NamesIn(c.dashboards))
  BY DEF ByName
<1>4. DOMAIN filterDashboards(ByName(c.dashboards)) \subseteq DOMAIN ByName(c.dashboards)
  BY DEF filterDashboards, Restrict
<1> QED BY <1>2, <1>3, <1>4 DEF Named

(* What a step of one worker leaves alone. *)
OneWorker(w) ==
    /\ worker' = [v \in Workers |-> worker'[v]]
    /\ \A v \in Workers : v # w => worker'[v] = worker[v]
    /\ WorkerShape(worker'[w])

(* A worker is given another record, or stays with its dashboard.          *)
LEMMA WorkerTakesRecord ==
  ASSUME SumTypes, NEW w \in Workers, NEW u, WorkerShape(u), worker' = [worker EXCEPT ![w] = u]
  PROVE  OneWorker(w) /\ worker'[w] = u
  BY DEF SumTypes, OneWorker

(* The records of workers between two updates. *)
LEMMA IdleShape ==
  /\ WorkerShape(Idle) /\ Idle.at = "idle"
  /\ \A p, d : LET u == [Idle EXCEPT !.at = p, !.dash = d]
               IN WorkerShape(u) /\ u.at = p /\ u.dash = d
  BY ZenonT(40) DEF Idle, WorkerShape

(* While it updates, a worker keeps its dashboard. *)
LEMMA UpdateSteps ==
  ASSUME SumTypes, NEW w \in Workers,
         \/ StatTabs(w) \/ GraceEnds(w)
         \/ \E i \in DOMAIN worker[w].todo : UpdateTab(w, i)
  PROVE  OneWorker(w) /\ worker[w].at \in {"stat", "tabs"} /\ worker'[w].at = "tabs"
<1>1. PICK u : u = worker[w]
  OBVIOUS
<1>0. WorkerShape(u)
  BY <1>1 DEF SumTypes
<1>2. CASE StatTabs(w)
  <2>1. PICK todo, sum, failed, stat :
          worker' = [worker EXCEPT ![w] = [worker[w] EXCEPT !.at = "tabs", !.todo = todo, !.sum = sum,
                                                            !.failed = failed, !.stat = stat]]
    BY <1>2, Zenon DEF StatTabs
  <2>2. PICK v : v = [u EXCEPT !.at = "tabs", !.todo = todo, !.sum = sum, !.failed = failed, !.stat = stat]
    OBVIOUS
  <2>3. WorkerShape(v) /\ v.at = "tabs"
    BY <1>0, <2>2 DEF WorkerShape
  <2>4. worker' = [worker EXCEPT ![w] = v]
    BY <1>1, <2>1, <2>2
  <2> QED BY <1>2, <2>3, <2>4, WorkerTakesRecord DEF StatTabs
<1>3. CASE GraceEnds(w)
  <2>1. PICK todo : worker' = [worker EXCEPT ![w].more = TRUE, ![w].todo = todo]
    BY <1>3, Zenon DEF GraceEnds
  <2>2. PICK v : v = [u EXCEPT !.more = TRUE, !.todo = todo]
    OBVIOUS
  <2>3. WorkerShape(v) /\ v.at = u.at
    BY <1>0, <2>2 DEF WorkerShape
  <2>4. worker' = [worker EXCEPT ![w] = v]
    BY <1>1, <2>1, <2>2 DEF SumTypes
  <2> QED BY <1>1, <1>3, <2>3, <2>4, WorkerTakesRecord DEF GraceEnds
<1>4. ASSUME NEW i \in DOMAIN worker[w].todo, UpdateTab(w, i)
      PROVE  OneWorker(w) /\ worker[w].at \in {"stat", "tabs"} /\ worker'[w].at = "tabs"
  <2>1. PICK todo, sum, failed :
          worker' = [worker EXCEPT ![w] = [worker[w] EXCEPT !.todo = todo, !.sum = sum, !.failed = failed]]
    <3> DEFINE t == worker[w].todo[i].name
               p == TabStatePath(worker[w].dash, t)
               Now(s, failed) == [worker[w] EXCEPT !.todo = RemoveAt(worker[w].todo, i),
                                                  !.sum = [worker[w].sum EXCEPT ![t] = s], !.failed = failed]
    <3>1. \/ worker' = [worker EXCEPT ![w] = Now(updateTab(p), worker[w].failed)]
          \/ worker' = [worker EXCEPT ![w] = Now(Status, worker[w].failed \cup {t})]
      BY <1>4 DEF UpdateTab
    <3> HIDE DEF t, p
    <3> QED BY <3>1, Zenon
  <2>2. PICK v : v = [u EXCEPT !.todo = todo, !.sum = sum, !.failed = failed]
    OBVIOUS
  <2>3. WorkerShape(v) /\ v.at = u.at
    BY <1>0, <2>2 DEF WorkerShape
  <2>4. worker' = [worker EXCEPT ![w] = v]
    BY <1>1, <2>1, <2>2
  <2> QED BY <1>1, <1>4, <2>3, <2>4, WorkerTakesRecord, ZenonT(40) DEF UpdateTab
<1> QED BY <1>2, <1>3, <1>4

(* What most steps leave alone, and what follows from it: the goroutine of *)
(* the configuration and the notice that is in hand.                       *)
Framed == /\ UNCHANGED <<cfg, loop, snapVars, qgroups, fixer>>
          /\ DOMAIN items' = DOMAIN items

(* A step that leaves the configuration, the fixer and the queue's names   *)
(* alone changes neither what is watched nor whom a notice concerns.       *)
LEMMA FramedKeeps ==
  ASSUME Framed
  PROVE  /\ Watched => Watched'
         /\ Concerned(fixer.notice)' = Concerned(fixer.notice)
  BY DEF Framed, Watched, snapVars, Concerned

(* Fix does not take a dashboard out of the queue, nor delay it. *)
LEMMA FixNowKeeps ==
  ASSUME NEW names, FixNow(names), items = [n \in DOMAIN items |-> items[n]]
  PROVE  /\ DOMAIN items' = DOMAIN items
         /\ items' = [n \in DOMAIN items' |-> items'[n]]
         /\ \A n \in DOMAIN items : items[n] \/ n \in names => items'[n]
  BY DEF FixNow

(* A worker's step keeps every request: the worker takes what is offered   *)
(* or marks it as waiting, and gives the dashboard back to the queue when  *)
(* it was cut short or somebody waited.                                    *)
LEMMA WorkKeeps ==
  ASSUME SumInv, Watcher \notin done, NEW w \in Workers, Work(w), UNCHANGED snapVars
  PROVE  SumInv'
<1> USE DEF SumInv, queueVars, workVars, noticeVars
<1>1. CASE Receive(w)
  <2> DEFINE u == [Idle EXCEPT !.at = "start", !.dash = offered]
  <2>1. WorkerShape(u) /\ u.at = "start" /\ u.dash = offered
    BY IdleShape
  <2> HIDE DEF u
  <2>2. Framed /\ UNCHANGED <<items, asked>> /\ offered' = NoName
    BY <1>1 DEF Receive, Framed
  <2>3. Watched' /\ Concerned(fixer.notice)' = Concerned(fixer.notice)
    BY <2>2, FramedKeeps
  <2>4. CASE offered \in active
    <3>1. waiting' = waiting \cup {offered} /\ UNCHANGED <<active, worker>>
      BY <1>1, <2>4 DEF Receive
    <3>2. SumTypes'
      BY <2>2, <3>1 DEF SumTypes, Framed
    <3>3. \A d : Pending(d) => Pending(d)'
      BY <2>2, <2>3, <2>4, <3>1 DEF Pending
    <3> QED BY <2>2, <2>3, <3>2, <3>3 DEF Requests, Framed, snapVars
  <2>5. CASE offered \notin active
    <3>1. worker[w].at = "idle" /\ active' = active \cup {offered} /\ UNCHANGED waiting
          /\ worker' = [worker EXCEPT ![w] = u]
      BY <1>1, <2>5 DEF Receive, u
    <3>2. OneWorker(w) /\ worker'[w] = u
      BY <2>1, <3>1, WorkerTakesRecord
    <3>3. SumTypes'
      BY <2>2, <3>2 DEF SumTypes, Framed, OneWorker
    <3>4. \A d : Pending(d) => Pending(d)'
      BY <2>1, <2>2, <2>3, <3>1, <3>2 DEF Pending, OneWorker
    <3> QED BY <2>2, <2>3, <3>3, <3>4 DEF Requests, Framed, snapVars
  <2> QED BY <2>4, <2>5
<1>2. CASE StartUpdate(w)
  <2>1. Framed /\ UNCHANGED <<items, offered, active, waiting>> /\ asked' = asked \ {worker[w].dash}
    BY <1>2 DEF StartUpdate, Framed
  <2>2. Watched' /\ Concerned(fixer.notice)' = Concerned(fixer.notice)
    BY <2>1, FramedKeeps
  <2>3. OneWorker(w)
    <3>1. CASE Fails(w)
      <4>1. PICK u : u = [Idle EXCEPT !.at = "failed", !.dash = worker[w].dash]
        OBVIOUS
      <4>2. WorkerShape(u)
        BY <4>1, IdleShape
      <4>3. worker' = [worker EXCEPT ![w] = u]
        BY <3>1, <4>1 DEF Fails
      <4> QED BY <4>2, <4>3, WorkerTakesRecord
    <3>2. CASE ~Fails(w)
      <4>1. PICK tabs, sum : worker' = [worker EXCEPT ![w].at = "stat", ![w].tabs = tabs, ![w].sum = sum]
        BY <1>2, <3>2, Zenon DEF StartUpdate
      <4>2. PICK u : u = worker[w]
        OBVIOUS
      <4>3. PICK v : v = [u EXCEPT !.at = "stat", !.tabs = tabs, !.sum = sum]
        OBVIOUS
      <4>4. WorkerShape(v)
        BY <4>2, <4>3 DEF WorkerShape, SumTypes
      <4>5. worker' = [worker EXCEPT ![w] = v]
        BY <4>1, <4>2, <4>3 DEF SumTypes
      <4> QED BY <4>4, <4>5, WorkerTakesRecord
    <3> QED BY <3>1, <3>2
  <2>4. SumTypes'
    BY <2>1, <2>3 DEF SumTypes, Framed, OneWorker
  <2>5. \A d : Pending(d) /\ d # worker[w].dash => Pending(d)'
    BY <2>1, <2>2, <2>3 DEF Pending, OneWorker
  <2> QED BY <2>1, <2>2, <2>4, <2>5 DEF Requests, Framed, snapVars
<1>3. CASE StatTabs(w) \/ GraceEnds(w) \/ \E i \in DOMAIN worker[w].todo : UpdateTab(w, i)
  <2>1. Framed /\ UNCHANGED <<items, offered, active, waiting, asked>>
    BY <1>3 DEF StatTabs, GraceEnds, UpdateTab, Framed
  <2>2. Watched' /\ Concerned(fixer.notice)' = Concerned(fixer.notice)
    BY <2>1, FramedKeeps
  <2>3. OneWorker(w) /\ worker[w].at \in {"stat", "tabs"}
    BY <1>3, UpdateSteps
  <2>4. SumTypes'
    BY <2>1, <2>3 DEF SumTypes, Framed, OneWorker
  <2>5. \A d : Pending(d) => Pending(d)'
    BY <2>1, <2>2, <2>3 DEF Pending, OneWorker
  <2> QED BY <2>1, <2>2, <2>4, <2>5 DEF Requests, Framed, snapVars
<1>4. CASE WriteSummary(w)
  <2>1. Framed /\ UNCHANGED <<items, offered, active, waiting>> /\ worker[w].at = "tabs"
    BY <1>4 DEF WriteSummary, Framed
  <2>2. Watched' /\ Concerned(fixer.notice)' = Concerned(fixer.notice)
    BY <2>1, FramedKeeps
  <2>3. PICK u : u = worker[w]
    OBVIOUS
  <2>4. CASE Fails(w) /\ UNCHANGED asked
    <3>1. PICK v : v = [Idle EXCEPT !.at = "failed", !.dash = worker[w].dash]
      OBVIOUS
    <3>2. WorkerShape(v)
      BY <3>1, IdleShape
    <3>3. worker' = [worker EXCEPT ![w] = v]
      BY <2>4, <3>1 DEF Fails
    <3>4. OneWorker(w)
      BY <3>2, <3>3, WorkerTakesRecord
    <3>5. SumTypes'
      BY <2>1, <3>4 DEF SumTypes, Framed, OneWorker
    <3>6. \A d : Pending(d) => Pending(d)'
      BY <2>1, <2>2, <3>4 DEF Pending, OneWorker
    <3> QED BY <2>1, <2>2, <2>4, <3>5, <3>6 DEF Requests, Framed, snapVars
  <2>5. CASE ~(Fails(w) /\ UNCHANGED asked)
    <3>1. /\ asked' = IF u.more THEN asked \cup ({u.dash} \cap DOMAIN items) ELSE asked
          /\ worker' = [worker EXCEPT ![w].at = "written"]
      BY <1>4, <2>3, <2>5 DEF WriteSummary
    <3>2. PICK v : v = [u EXCEPT !.at = "written"]
      OBVIOUS
    <3>3. WorkerShape(v) /\ v.at = "written" /\ v.dash = u.dash /\ (u.more => v.more)
      BY <2>3, <3>2 DEF WorkerShape, SumTypes
    <3>4. worker' = [worker EXCEPT ![w] = v]
      BY <2>3, <3>1, <3>2 DEF SumTypes
    <3>5. OneWorker(w) /\ worker'[w] = v
      BY <3>3, <3>4, WorkerTakesRecord
    <3>6. SumTypes'
      BY <2>1, <3>5 DEF SumTypes, Framed, OneWorker
    <3>7. \A d : Pending(d) => Pending(d)'
      BY <2>1, <2>2, <3>5 DEF Pending, OneWorker
    <3>8. u.more => Pending(u.dash)'
      BY <3>3, <3>5 DEF Pending
    <3> QED BY <2>1, <2>2, <3>1, <3>6, <3>7, <3>8 DEF Requests, Framed, snapVars
  <2> QED BY <2>4, <2>5
<1>5. CASE Reschedule(w)
  <2>1. PICK names :
          /\ FixNow(names)
          /\ worker[w].at = "written" /\ worker[w].more => worker[w].dash \in names
    BY <1>5 DEF Reschedule
  <2>2. PICK v : v = [Idle EXCEPT !.at = "release", !.dash = worker[w].dash]
    OBVIOUS
  <2>3. /\ worker[w].at \in {"failed", "written"}
        /\ worker' = [worker EXCEPT ![w] = v]
        /\ UNCHANGED <<offered, active, waiting, asked>>
    BY <1>5, <2>2 DEF Reschedule
  <2>4. WorkerShape(v)
    BY <2>2, IdleShape
  <2>5. OneWorker(w)
    BY <2>3, <2>4, WorkerTakesRecord
  <2>6. /\ DOMAIN items' = DOMAIN items
        /\ items' = [n \in DOMAIN items' |-> items'[n]]
        /\ \A n \in DOMAIN items : items[n] \/ n \in names => items'[n]
    BY <2>1, FixNowKeeps DEF SumTypes
  <2>7. Framed
    BY <1>5, <2>6 DEF Reschedule, Framed
  <2>8. Watched' /\ Concerned(fixer.notice)' = Concerned(fixer.notice)
    BY <2>7, FramedKeeps
  <2>9. SumTypes'
    BY <2>5, <2>6, <2>7 DEF SumTypes, Framed, OneWorker
  <2>10. \A d \in DOMAIN items : Pending(d) => Pending(d)'
    BY <2>1, <2>3, <2>5, <2>6, <2>8 DEF Pending, OneWorker
  <2> QED BY <2>3, <2>6, <2>7, <2>8, <2>9, <2>10 DEF Requests, Framed, snapVars
<1>6. CASE Release(w)
  <2>1. PICK d : d = worker[w].dash
    OBVIOUS
  <2>2. PICK v : v = IF d \in waiting THEN [Idle EXCEPT !.at = "restart", !.dash = d] ELSE Idle
    OBVIOUS
  <2>3. WorkerShape(v) /\ (d \in waiting => v.at = "restart" /\ v.dash = d)
    BY <2>2, IdleShape
  <2>4. /\ worker[w].at = "release"
        /\ active' = active \ {d} /\ waiting' = waiting \ {d}
        /\ worker' = [worker EXCEPT ![w] = v]
        /\ UNCHANGED <<items, offered, asked>> /\ Framed
    BY <1>6, <2>1, <2>2 DEF Release, Framed
  <2>5. OneWorker(w) /\ worker'[w] = v
    BY <2>3, <2>4, WorkerTakesRecord
  <2>6. Watched' /\ Concerned(fixer.notice)' = Concerned(fixer.notice)
    BY <2>4, FramedKeeps
  <2>7. SumTypes'
    BY <2>4, <2>5 DEF SumTypes, Framed, OneWorker
  <2>8. \A e : Pending(e) => Pending(e)'
    BY <2>3, <2>4, <2>5, <2>6 DEF Pending, OneWorker
  <2> QED BY <2>4, <2>6, <2>7, <2>8 DEF Requests, Framed, snapVars
<1>7. CASE Restart(w)
  <2>1. /\ FixNow({worker[w].dash}) /\ worker[w].at = "restart"
        /\ worker' = [worker EXCEPT ![w] = Idle]
        /\ UNCHANGED <<offered, active, waiting, asked>>
    BY <1>7 DEF Restart
  <2>2. OneWorker(w)
    BY <2>1, IdleShape, WorkerTakesRecord
  <2>3. /\ DOMAIN items' = DOMAIN items
        /\ items' = [n \in DOMAIN items' |-> items'[n]]
        /\ \A n \in DOMAIN items : items[n] \/ n \in {worker[w].dash} => items'[n]
    BY <2>1, FixNowKeeps DEF SumTypes
  <2>4. Framed
    BY <1>7, <2>3 DEF Restart, Framed
  <2>5. Watched' /\ Concerned(fixer.notice)' = Concerned(fixer.notice)
    BY <2>4, FramedKeeps
  <2>6. SumTypes'
    BY <2>2, <2>3, <2>4 DEF SumTypes, Framed, OneWorker
  <2>7. \A d \in DOMAIN items : Pending(d) => Pending(d)'
    BY <2>1, <2>2, <2>3, <2>5 DEF Pending, OneWorker
  <2> QED BY <2>1, <2>3, <2>4, <2>5, <2>6, <2>7 DEF Requests, Framed, snapVars
<1> QED BY <1>1, <1>2, <1>3, <1>4, <1>5, <1>6, <1>7 DEF Work

(* So do the queue, Pub/Sub and the tabulator. *)
LEMMA QueueKeeps ==
  ASSUME SumInv, Watcher \notin done, UNCHANGED snapVars,
         \/ \E n \in DOMAIN items : Elapse(n) \/ SendPick(n)
         \/ \E t \in Paths : WriteTabState(t)
         \/ PubSub
  PROVE  SumInv'
<1> USE DEF SumInv, queueVars, workVars, noticeVars
<1>1. ASSUME NEW n \in DOMAIN items, Elapse(n) PROVE SumInv'
  <2>1. FixNow({n}) /\ UNCHANGED <<offered, active, waiting, worker, asked>>
    BY <1>1 DEF Elapse
  <2>2. /\ DOMAIN items' = DOMAIN items
        /\ items' = [m \in DOMAIN items' |-> items'[m]]
        /\ \A m \in DOMAIN items : items[m] => items'[m]
    BY <2>1, FixNowKeeps DEF SumTypes
  <2>3. Framed
    BY <1>1, <2>2 DEF Elapse, Framed
  <2>4. Watched' /\ Concerned(fixer.notice)' = Concerned(fixer.notice)
    BY <2>3, FramedKeeps
  <2>5. SumTypes'
    BY <2>1, <2>2, <2>3 DEF SumTypes, Framed
  <2>6. \A d \in DOMAIN items : Pending(d) => Pending(d)'
    BY <2>1, <2>2, <2>4 DEF Pending
  <2> QED BY <2>1, <2>2, <2>3, <2>4, <2>5, <2>6 DEF Requests, Framed, snapVars
<1>2. ASSUME NEW n \in DOMAIN items, SendPick(n) PROVE SumInv'
  <2>1. /\ offered = NoName /\ offered' = n
        /\ items' = [items EXCEPT ![n] = FALSE]
        /\ UNCHANGED <<active, waiting, worker, asked>>
    BY <1>2 DEF SendPick
  <2>2. /\ DOMAIN items' = DOMAIN items
        /\ items' = [m \in DOMAIN items' |-> items'[m]]
        /\ \A m \in DOMAIN items : m # n => items'[m] = items[m]
    BY <2>1 DEF SumTypes
  <2>3. Framed
    BY <1>2, <2>2 DEF SendPick, Framed
  <2>4. Watched' /\ Concerned(fixer.notice)' = Concerned(fixer.notice)
    BY <2>3, FramedKeeps
  <2>5. SumTypes'
    BY <2>1, <2>2, <2>3 DEF SumTypes, Framed
  <2>6. \A d \in DOMAIN items : Pending(d) => Pending(d)'
    BY <2>1, <2>2, <2>4 DEF Pending, Watched
  <2> QED BY <2>1, <2>2, <2>3, <2>4, <2>5, <2>6 DEF Requests, Framed, snapVars
<1>3. CASE PubSub \/ \E t \in Paths : WriteTabState(t)
  <2>1. UNCHANGED <<cfg, loop, qgroups, fixer, items, offered, active, waiting, worker, asked>>
    BY <1>3 DEF PubSub, WriteTabState, Publish, sendToReceivers, Nack, Acknowledge, Redeliver
  <2>2. Framed
    BY <2>1 DEF Framed
  <2>3. Watched' /\ Concerned(fixer.notice)' = Concerned(fixer.notice)
    BY <2>2, FramedKeeps
  <2>4. SumTypes'
    BY <2>1 DEF SumTypes
  <2>5. \A d : Pending(d) => Pending(d)'
    BY <2>1, <2>3 DEF Pending
  <2> QED BY <2>1, <2>3, <2>4, <2>5 DEF Requests, snapVars
<1> QED BY <1>1, <1>2, <1>3

(* No dashboard is concerned by no notice. *)
LEMMA NoneConcerned == Concerned(NoNotice) = {}
  BY DEF Concerned, NoNotice

(* A notice is in hand until its dashboards are due, as long as they are   *)
(* found by their test groups.                                             *)
LEMMA NoticesKeep ==
  ASSUME SumInv, ~FindDashboard, Watcher \notin done, UNCHANGED snapVars,
         ProcessNotice \/ \E m \in Messages : TakeNotice(m)
  PROVE  SumInv'
<1> USE DEF SumInv, queueVars, workVars, noticeVars
<1>1. ASSUME NEW m \in Messages, TakeNotice(m) PROVE SumInv'
  <2>1. /\ fixer.on /\ fixer.notice = NoNotice /\ fixer' = [fixer EXCEPT !.notice = message[m].object]
        /\ asked' = asked \cup Concerned(message[m].object)
        /\ UNCHANGED <<cfg, loop, items, qgroups, offered, active, waiting, worker>>
    BY <1>1 DEF TakeNotice
  <2>2. /\ fixer' = [on |-> fixer'.on, notice |-> fixer'.notice]
        /\ fixer'.notice = message[m].object
    BY <2>1 DEF SumTypes
  <2>3. SumTypes' /\ Watched'
    BY <2>1, <2>2 DEF SumTypes, Watched, snapVars
  <2>4. Concerned(fixer.notice)' = Concerned(message[m].object)
    BY <2>1, <2>2 DEF Concerned
  <2>5. \A d : Pending(d) => Pending(d)'
    BY <2>1, NoneConcerned DEF Pending
  <2>6. \A d \in Concerned(message[m].object) : Pending(d)' /\ d \in DOMAIN items
    <3>1. Concerned(message[m].object) \subseteq DOMAIN items
      BY DEF Concerned
    <3> QED BY <2>4, <3>1 DEF Pending
  <2> QED BY <2>1, <2>3, <2>5, <2>6 DEF Requests, snapVars
<1>2. CASE ProcessNotice
  <2>1. PICK names : FixNow(names) /\ names = UNION { qgroups[g] : g \in processNotification(fixer.notice) \cap DOMAIN qgroups }
    BY <1>2 DEF ProcessNotice, FixTestGroups
  <2>2. /\ fixer' = [fixer EXCEPT !.notice = NoNotice]
        /\ UNCHANGED <<cfg, loop, qgroups, offered, active, waiting, worker, asked>>
    BY <1>2 DEF ProcessNotice
  <2>3. /\ DOMAIN items' = DOMAIN items
        /\ items' = [n \in DOMAIN items' |-> items'[n]]
        /\ \A n \in DOMAIN items : items[n] \/ n \in names => items'[n]
    BY <2>1, FixNowKeeps DEF SumTypes
  <2>4. Concerned(fixer.notice) \subseteq names
    BY <2>1 DEF Concerned, processNotification
  <2>5. SumTypes' /\ Watched'
    BY <2>2, <2>3 DEF SumTypes, Watched, snapVars
  <2>6. \A d \in DOMAIN items : Pending(d) => Pending(d)'
    BY <2>2, <2>3, <2>4 DEF Pending
  <2>7. loop.at = "fixing" => FALSE
    BY <1>2 DEF ProcessNotice, Requests
  <2> QED BY <2>2, <2>3, <2>5, <2>6, <2>7 DEF Requests, snapVars
<1> QED BY <1>1, <1>2

(* A new configuration keeps the requests for the dashboards that it has. *)
LEMMA ConfigKeeps ==
  ASSUME SumInv, Watcher \notin done, UNCHANGED snapVars, StopFixer \/ FixSnapshot
  PROVE  SumInv'
<1> USE DEF SumInv, queueVars, workVars, noticeVars
<1>1. CASE StopFixer
  <2>1. /\ loop.at = "stopping" /\ fixer.notice = NoNotice /\ fixer' = [fixer EXCEPT !.on = FALSE]
        /\ cfg' = UsedConfig(loop.snap.cfg) /\ loop' = [loop EXCEPT !.at = "fixing"]
        /\ UNCHANGED <<items, qgroups, offered, active, waiting, worker, asked>>
    BY <1>1 DEF StopFixer
  <2>2. /\ fixer' = [on |-> fixer'.on, notice |-> fixer'.notice]
        /\ fixer'.notice = NoNotice /\ ~fixer'.on
        /\ loop' = [at |-> loop'.at, snap |-> loop'.snap] /\ loop'.at = "fixing"
    BY <2>1 DEF SumTypes
  <2>3. NoName \notin DOMAIN cfg'.dashboards
    BY <2>1, UsedNames DEF Watched
  <2>4. SumTypes' /\ Watched'
    BY <2>1, <2>2, <2>3 DEF SumTypes, Watched, snapVars
  <2>5. Concerned(fixer.notice)' = Concerned(fixer.notice)
    BY <2>1, <2>2 DEF Concerned
  <2>6. \A d : Pending(d) => Pending(d)'
    BY <2>1, <2>5 DEF Pending
  <2> QED BY <2>1, <2>2, <2>4, <2>6 DEF Requests, snapVars
<1>2. CASE FixSnapshot
  <2>1. PICK due : items' = [n \in DOMAIN cfg.dashboards |-> n \in due \/ (n \in DOMAIN items /\ items[n])]
    BY <1>2, Zenon DEF FixSnapshot
  <2>2. /\ loop.at = "fixing" /\ asked' = asked \cap DOMAIN items'
        /\ fixer' = [fixer EXCEPT !.on = TRUE] /\ loop' = [at |-> "select", snap |-> NoTarget]
        /\ UNCHANGED <<cfg, offered, active, waiting, worker>>
    BY <1>2 DEF FixSnapshot
  <2>3. /\ DOMAIN items' = DOMAIN cfg.dashboards
        /\ items' = [n \in DOMAIN items' |-> items'[n]]
        /\ \A n \in DOMAIN items \cap DOMAIN items' : items[n] => items'[n]
    BY <2>1
  <2>4. fixer' = [on |-> fixer'.on, notice |-> fixer'.notice]
    BY <2>2 DEF SumTypes
  <2>5. SumTypes' /\ Watched'
    BY <2>2, <2>3, <2>4 DEF SumTypes, Watched, snapVars
  <2>6. Concerned(fixer.notice) = {}
    BY <2>2, NoneConcerned DEF Requests
  <2>7. \A d \in DOMAIN items \cap DOMAIN items' : Pending(d) => Pending(d)'
    BY <2>2, <2>3, <2>6 DEF Pending
  <2> QED BY <2>2, <2>5, <2>7 DEF Requests, snapVars
<1> QED BY <1>1, <1>2

(* What the configurations that are deployed are called. *)
LEMMA DeployedNamed == \A i \in 1 .. Len(Deployed) : Named(Deployed[i])
  BY DeployedAssumption DEF Named, NoName, ToSet

(* The summarizer's requests are kept by the configuration object, its     *)
(* observer and the end of the context, too.                               *)
LEMMA ObserverKeeps ==
  ASSUME SumInv,
         \/ Deploy \/ StopSummarizer \/ TakeConfig \/ LoopEnds
         \/ SendReturns /\ UNCHANGED snapVars
         \/ (Tick(Watcher) \/ CloseChannel(Watcher)) /\ UNCHANGED sumVars
  PROVE  SumInv'
<1> USE DEF SumInv, queueVars, workVars, noticeVars, snapVars
<1>0. Watcher \in Observers
  BY DeployedAssumption
<1>1. CASE UNCHANGED sumVars /\ UNCHANGED obs
           /\ (Deploy \/ StopSummarizer)
  <2>1. SumTypes'
    BY <1>1 DEF SumTypes, sumVars
  <2>2. target'.gen \in Nat /\ Named(target'.cfg)
    <3>1. CASE Deploy
      <4>1. target' = [gen |-> target.gen + 1, cfg |-> Deployed[target.gen + 1]] /\ target.gen < Len(Deployed)
        BY <3>1 DEF Deploy, Put
      <4>2. target.gen + 1 \in 1 .. Len(Deployed)
        BY <4>1, DeployedAssumption DEF Watched
      <4> QED BY <4>1, <4>2, DeployedNamed
    <3>2. CASE StopSummarizer
      BY <3>2 DEF StopSummarizer, Watched
    <3> QED BY <1>1, <3>1, <3>2
  <2>3. done \subseteq done'
    BY <1>1 DEF Deploy, StopSummarizer
  <2>4. Watched'
    BY <1>1, <2>2, <2>3 DEF Watched, sumVars
  <2>5. \A d : Pending(d) => Pending(d)'
    BY <1>1 DEF Pending, Concerned, sumVars
  <2> QED BY <1>1, <2>1, <2>3, <2>4, <2>5 DEF Requests, sumVars
<1>2. CASE TakeConfig
  <2>1. /\ obs[Watcher].at = "sending" /\ loop' = [at |-> "stopping", snap |-> obs[Watcher].snap]
        /\ obs' = [obs EXCEPT ![Watcher].at = "watching", ![Watcher].gen = obs[Watcher].snap.gen]
        /\ UNCHANGED <<target, done, cfg, items, qgroups, offered, active, waiting, worker, fixer, asked>>
    BY <1>2 DEF TakeConfig, Sent
  <2>2. SumTypes'
    BY <2>1 DEF SumTypes
  <2>3. Watched'
    BY <1>0, <2>1 DEF Watched
  <2>4. \A d : Pending(d) => Pending(d)'
    BY <2>1 DEF Pending, Concerned
  <2> QED BY <2>1, <2>2, <2>3, <2>4 DEF Requests
<1>3. CASE LoopEnds
  <2>1. /\ loop' = [loop EXCEPT !.at = "returned"] \/ loop' = [loop EXCEPT !.at = "panicked"]
        /\ Watcher \in done /\ fixer' = [fixer EXCEPT !.on = FALSE]
        /\ UNCHANGED <<target, obs, done, cfg, items, asked, worker>>
    BY <1>3 DEF LoopEnds, Watched
  <2>2. SumTypes' /\ loop'.at \in {"returned", "panicked"}
    BY <2>1 DEF SumTypes
  <2>3. Watched'
    BY <2>1, <2>2 DEF Watched
  <2> QED BY <2>1, <2>2, <2>3 DEF Requests
<1>4. CASE SendReturns /\ UNCHANGED snapVars
  <2>1. Watcher \in done /\ UNCHANGED <<target, obs, done, cfg, loop, items, worker, fixer, asked>>
    BY <1>4 DEF SendReturns
  <2> QED BY <2>1 DEF SumTypes, Watched, Requests
<1>5. CASE (Tick(Watcher) \/ CloseChannel(Watcher)) /\ UNCHANGED sumVars
  <2>1. SumTypes'
    BY <1>5 DEF SumTypes, sumVars
  <2>2. Watched'
    BY <1>0, <1>5 DEF Watched, Tick, CloseChannel, sumVars
  <2>3. \A d : Pending(d) => Pending(d)'
    BY <1>5 DEF Pending, Concerned, sumVars
  <2> QED BY <1>5, <2>1, <2>2, <2>3 DEF Requests, sumVars, Tick, CloseChannel
<1> QED BY <1>1, <1>2, <1>3, <1>4, <1>5 DEF Deploy, StopSummarizer

(* The behaviours that are not the summarizer's leave it alone. *)
ServicesInv == IF mode = "summarizer" THEN SumInv ELSE asked = {} /\ loop.at = "select"

(* As long as the process runs, a dashboard that a notice was about or     *)
(* whose update was cut short is due, on its way or waiting until an       *)
(* update of it begins; and the process does not end before its context    *)
(* does.  This holds of every number of workers, messages and              *)
(* configurations, where the notices are about test groups; with a prefix  *)
(* for tab states, FixTestGroups takes a dashboard for a test group.       *)
THEOREM RequestsKept == ASSUME ~FindDashboard PROVE ServicesSpec => []RequestKept
<1>1. ServicesInit => ServicesInv
  <2> SUFFICES ASSUME ServicesInit PROVE ServicesInv
    OBVIOUS
  <2>1. CASE mode # "summarizer"
    BY <2>1 DEF ServicesInit, SumInit, ServicesInv
  <2>2. CASE mode = "summarizer"
    <3> USE DEF ServicesInit, SumInit
    <3>1. /\ target = [gen |-> 1, cfg |-> Deployed[1]]
          /\ obs = [o \in Observers |-> IF o = Watcher THEN [at |-> "watching", gen |-> 1, snap |-> target]
                                        ELSE NotObserving]
      BY <2>2
    <3>2. Named(Deployed[1]) /\ Watcher \in Observers
      BY DeployedNamed, DeployedAssumption
    <3>3. NoName \notin DOMAIN cfg.dashboards
      BY <3>2, UsedNames
    <3>4. Watched
      BY <3>1, <3>2, <3>3 DEF Watched
    <3>5. SumTypes
      BY IdleShape DEF SumTypes
    <3> QED BY <2>2, <3>4, <3>5 DEF ServicesInv, SumInv, Requests
  <2> QED BY <2>1, <2>2
<1>2. ServicesInv /\ [ServicesNext]_serviceVars => ServicesInv'
  <2> SUFFICES ASSUME ServicesInv, [ServicesNext]_serviceVars PROVE ServicesInv'
    OBVIOUS
  <2>1. CASE mode # "summarizer"
    BY <2>1 DEF ServicesInv, ServicesNext, serviceVars, sumVars
  <2>2. CASE mode = "summarizer" /\ SumNext /\ UNCHANGED mode
    BY <2>2, WorkKeeps, QueueKeeps, NoticesKeep, ConfigKeeps, ObserverKeeps DEF SumNext, ServicesInv
  <2>3. CASE UNCHANGED serviceVars
    BY <2>3 DEF serviceVars, snapVars, sumVars, ServicesInv, SumInv, SumTypes, Watched, Requests, Pending, Concerned
  <2> QED BY <2>1, <2>2, <2>3 DEF ServicesNext
<1>3. ServicesInv => RequestKept
  BY DEF ServicesInv, SumInv, Requests, RequestKept
<1> QED BY <1>1, <1>2, <1>3, PTL DEF ServicesSpec

-----------------------------------------------------------------------------
(* The summaries that the summarizer writes.  TabsCurrent is about the     *)
(* moment of a write.  It needs that a summary's time is the one at which  *)
(* the version it was made of was written (Recorded), that a worker has    *)
(* each tab ahead of it, done or failed (UpdateInv), and that no other     *)
(* worker writes the same summary (Exclusion).                             *)
DeployedNames == UNION { ToSet(NamesIn(c.dashboards)) : c \in ToSet(Deployed) }

IsDeployed(d, tabs) ==
    \E c \in ToSet(Deployed) : \E e \in ToSet(c.dashboards) : e.name = d /\ e.tabs = tabs

Recorded(d, sum, states) == \A n \in DOMAIN sum :
    \/ sum[n] = Status
    \/ /\ TabStatePath(d, n) \in Paths
       /\ sum[n].ver \in 1 .. Len(states[TabStatePath(d, n)])
       /\ sum[n].time = states[TabStatePath(d, n)][sum[n].ver]

TabNames(u) == { t.name : t \in ToSet(u.tabs) }

CurrentTab(u, n, states) ==
    \/ u.sum[n].ver >= u.stat[n]
    \/ /\ u.sum[n].ver \in 1 .. Len(states[TabStatePath(u.dash, n)])
       /\ u.stat[n] \in 1 .. Len(states[TabStatePath(u.dash, n)])
       /\ states[TabStatePath(u.dash, n)][u.sum[n].ver] = states[TabStatePath(u.dash, n)][u.stat[n]]

Requested(u, n) == \E i \in DOMAIN u.todo : u.todo[i].name = n

UpdateInv(u, states) ==
    /\ u.at \in {"stat", "tabs", "written"} => IsDeployed(u.dash, u.tabs) /\ Recorded(u.dash, u.sum, states)
    /\ u.at \in {"tabs", "written"} =>
         /\ DOMAIN u.sum = TabNames(u) /\ u.todo \in Seq(ToSet(u.tabs))
         /\ \A n \in TabNames(u) \ u.failed : /\ u.stat[n] \in 0 .. Len(states[TabStatePath(u.dash, n)])
                                              /\ ~u.more => Requested(u, n) \/ CurrentTab(u, n, states)
    /\ u.at = "written" => u.todo = <<>>

WorkerTypes == worker = [w \in Workers |-> worker[w]] /\ \A w \in Workers : WorkerShape(worker[w])

Working == {"start", "stat", "tabs", "written", "failed", "release"}

Exclusion ==
    /\ \A w \in Workers : worker[w].at \in Working => worker[w].dash \in active
    /\ \A v, w \in Workers :
         v # w /\ worker[v].at \in Working /\ worker[w].at \in Working => worker[v].dash # worker[w].dash

Summaries ==
    /\ tabstate \in [Paths -> Seq(Nat \ {0})]
    /\ summary = [p \in DOMAIN summary |-> summary[p]]
    /\ \A d \in DeployedNames :
         SummaryPath(d) \in DOMAIN summary => Recorded(d, summary[SummaryPath(d)], tabstate)
    /\ \A w \in Workers : UpdateInv(worker[w], tabstate)
    /\ \A w \in Workers : worker[w].at = "written" =>
         /\ SummaryPath(worker[w].dash) \in DOMAIN summary
         /\ summary[SummaryPath(worker[w].dash)] = worker[w].sum

Offers(c) == \A d \in DOMAIN c.dashboards : IsDeployed(d, c.dashboards[d].tabs)

Configured ==
    /\ obs = [o \in Observers |-> obs[o]]
    /\ obs[Watcher] = [at |-> obs[Watcher].at, gen |-> obs[Watcher].gen, snap |-> obs[Watcher].snap]
    /\ loop = [at |-> loop.at, snap |-> loop.snap]
    /\ target.gen \in Nat /\ target.cfg \in ToSet(Deployed) /\ obs[Watcher].snap.cfg \in ToSet(Deployed)
    /\ loop.at = "stopping" => loop.snap.cfg \in ToSet(Deployed)
    /\ Offers(cfg)

CurrentInv == WorkerTypes /\ Exclusion /\ Summaries /\ Configured

Separate == \A d, e \in DeployedNames : SummaryPath(d) = SummaryPath(e) => d = e

(* What is deployed. *)
LEMMA DeployedIs ==
    ASSUME NEW d, NEW tabs, IsDeployed(d, tabs)
    PROVE  /\ d \in DeployedNames
           /\ Len(tabs) \in Nat /\ tabs = [i \in 1 .. Len(tabs) |-> tabs[i]]
           /\ \A t \in ToSet(tabs) : TabStatePath(d, t.name) \in Paths
<1>1. PICK c \in ToSet(Deployed) : \E e \in ToSet(c.dashboards) : e.name = d /\ e.tabs = tabs
  BY DEF IsDeployed
<1>2. PICK e \in ToSet(c.dashboards) : e.name = d /\ e.tabs = tabs
  BY <1>1
<1>3. Len(e.tabs) \in Nat /\ e.tabs = [i \in 1 .. Len(e.tabs) |-> e.tabs[i]]
  BY <1>1, <1>2, DeployedAssumption
<1>4. d \in ToSet(NamesIn(c.dashboards))
  BY <1>2 DEF ToSet, NamesIn
<1>5. ASSUME NEW t \in ToSet(tabs) PROVE TabStatePath(d, t.name) \in Paths
  <2>1. e \in UNION { ToSet(k.dashboards) : k \in ToSet(Deployed) }
    BY <1>1, <1>2
  <2>2. TabStatePath(e.name, t.name) \in { TabStatePath(e.name, s.name) : s \in ToSet(e.tabs) }
    BY <1>2
  <2> QED BY <1>2, <2>1, <2>2 DEF Paths
<1> QED BY <1>1, <1>2, <1>3, <1>4, <1>5 DEF DeployedNames

(* The dashboards in use are deployed ones. *)
LEMMA UsedOffers == ASSUME NEW c \in ToSet(Deployed) PROVE Offers(UsedConfig(c))
<1>1. Snapshot(c) = [dashboardGroups |-> ByName(c.dashboardGroups), dashboards |-> ByName(c.dashboards),
                     groups |-> ByName(c.groups)]
  BY DEF Snapshot
<1>2. UsedConfig(c).dashboards = filterDashboards(ByName(c.dashboards))
  BY <1>1 DEF UsedConfig
<1>3. PICK b, f : b = ByName(c.dashboards) /\ f = filterDashboards(b)
  OBVIOUS
<1>4. DOMAIN f \subseteq DOMAIN b /\ \A d \in DOMAIN f : f[d] = b[d]
  BY <1>3 DEF filterDashboards, Restrict
<1>5. ASSUME NEW d \in DOMAIN b PROVE b[d] \in ToSet(c.dashboards) /\ b[d].name = d
  <2> DEFINE S == { i \in DOMAIN c.dashboards : c.dashboards[i].name = d }
  <2>1. d \in ToSet(NamesIn(c.dashboards)) /\ DOMAIN b = ToSet(NamesIn(c.dashboards))
    BY <1>3, <1>5 DEF ByName
  <2>2. PICK k \in DOMAIN c.dashboards : c.dashboards[k].name = d
    BY <2>1 DEF ToSet, NamesIn
  <2>3. DOMAIN c.dashboards = 1 .. Len(c.dashboards)
    BY DeployedAssumption
  <2>4. k \in S /\ S \in SUBSET Int /\ \A i \in S : i >= 1 /\ i <= Len(c.dashboards)
    BY <2>2, <2>3
  <2>5. PICK i \in S : \A j \in S : j <= i
    <3>1. CASE Len(c.dashboards) \in Int
      <4> HIDE DEF S
      <4>1. Max(S) \in S /\ \A j \in S : j <= Max(S)
        BY <2>4, <3>1, MaxOf
      <4> QED BY <4>1
    <3> QED BY <3>1
  <2>6. b[d] = c.dashboards[CHOOSE j \in DOMAIN c.dashboards :
                                  /\ c.dashboards[j].name = d
                                  /\ \A n \in DOMAIN c.dashboards : c.dashboards[n].name = d => n <= j]
    BY <1>3, <2>1 DEF ByName
  <2>7. PICK j \in DOMAIN c.dashboards : b[d] = c.dashboards[j] /\ c.dashboards[j].name = d
    BY <2>5, <2>6
  <2> QED BY <2>7 DEF ToSet
<1>6. ASSUME NEW d \in DOMAIN f PROVE IsDeployed(d, f[d].tabs)
  BY <1>4, <1>5 DEF IsDeployed
<1> QED BY <1>2, <1>3, <1>6 DEF Offers

SortsDelays == INSTANCE FoldProofs WITH Step <- InsertDelayed

(* A tab that is inserted is there, and so are the others. *)
LEMMA InsertDelayedIs ==
    ASSUME NEW X, \A x \in X : x.delay \in Int, NEW s \in Seq(X), NEW x \in X
    PROVE  /\ InsertDelayed(s, x) \in Seq(X) /\ x \in ToSet(InsertDelayed(s, x))
           /\ \A i \in DOMAIN s : s[i] \in ToSet(InsertDelayed(s, x))
<1> DEFINE S == {Len(s) + 1} \cup { i \in DOMAIN s : s[i].delay < x.delay }
           at == Min(S)
<1>1. Len(s) \in Nat /\ DOMAIN s = 1 .. Len(s) /\ \A i \in 1 .. Len(s) : s[i] \in X
  OBVIOUS
<1>2. S \in SUBSET Int /\ S # {} /\ 1 \in Int /\ \A i \in S : i >= 1 /\ i <= Len(s) + 1
  BY <1>1
<1>3. at \in S
  <2> HIDE DEF S
  <2> QED BY <1>2, MinOf
<1> HIDE DEF at
<1>4. at \in 1 .. Len(s) + 1
  <2> HIDE DEF S
  <2>1. at \in Int /\ at >= 1 /\ at <= Len(s) + 1
    BY <1>2, <1>3
  <2> QED BY <1>1, <2>1
<1> DEFINE pre == SubSeq(s, 1, at - 1)
           post == SubSeq(s, at, Len(s))
<1>5. pre \in Seq(X) /\ Len(pre) = at - 1 /\ \A i \in 1 .. at - 1 : pre[i] = s[i]
  BY <1>1, <1>4
<1>6. /\ post \in Seq(X) /\ Len(post) = (Len(s) - at) + 1
      /\ \A i \in 1 .. (Len(s) - at) + 1 : post[i] = s[(at + i) - 1]
  BY <1>1, <1>4
<1> HIDE DEF pre, post
<1> DEFINE mid == pre \o <<x>>
<1>7. mid \in Seq(X) /\ Len(mid) = at /\ mid[at] = x /\ \A i \in 1 .. at - 1 : mid[i] = s[i]
  <2>1. at \in Nat /\ at >= 1 /\ <<x>> \in Seq(X) /\ Len(<<x>>) = 1 /\ <<x>>[1] = x
    BY <1>1, <1>4
  <2>2. mid \in Seq(X) /\ Len(mid) = at /\ \A i \in 1 .. at - 1 : mid[i] = pre[i]
    BY <1>5, <2>1
  <2>3. mid[at] = <<x>>[at - (at - 1)] /\ at - (at - 1) = 1
    BY <1>5, <2>1
  <2> QED BY <1>5, <2>1, <2>2, <2>3
<1> HIDE DEF mid
<1>8. InsertDelayed(s, x) = mid \o post
  BY DEF InsertDelayed, mid, pre, post, at, S
<1>9. /\ mid \o post \in Seq(X) /\ Len(mid \o post) = Len(s) + 1
      /\ \A i \in 1 .. at : (mid \o post)[i] = mid[i]
      /\ \A i \in at + 1 .. Len(s) + 1 : (mid \o post)[i] = post[i - at]
  BY <1>1, <1>4, <1>6, <1>7
<1>10. PICK r : r = mid \o post
  OBVIOUS
<1>11. r \in Seq(X) /\ DOMAIN r = 1 .. Len(s) + 1
  BY <1>1, <1>9, <1>10
<1>12. x \in ToSet(r)
  <2>1. r[at] = x /\ at \in DOMAIN r
    BY <1>1, <1>4, <1>7, <1>9, <1>10, <1>11
  <2> QED BY <2>1 DEF ToSet
<1>13. ASSUME NEW i \in DOMAIN s PROVE s[i] \in ToSet(r)
  <2>1. CASE i < at
    <3>1. i \in 1 .. at - 1 /\ i \in 1 .. at /\ i \in DOMAIN r
      BY <1>1, <1>4, <1>11, <2>1
    <3>2. r[i] = s[i]
      BY <1>7, <1>9, <1>10, <3>1
    <3> QED BY <3>1, <3>2 DEF ToSet
  <2>2. CASE i >= at
    <3>0. i \in Nat /\ i >= 1 /\ i <= Len(s) /\ at \in Nat /\ at >= 1 /\ Len(s) \in Nat
      BY <1>1, <1>4
    <3>1. PICK k : k = (i + 1) - at
      OBVIOUS
    <3>2. k \in 1 .. (Len(s) - at) + 1 /\ (at + k) - 1 = i
      BY <2>2, <3>0, <3>1
    <3>3. i + 1 \in at + 1 .. Len(s) + 1 /\ i + 1 \in 1 .. Len(s) + 1
      BY <2>2, <3>0
    <3>4. r[i + 1] = s[i] /\ i + 1 \in DOMAIN r
      BY <1>6, <1>9, <1>10, <1>11, <3>1, <3>2, <3>3
    <3> QED BY <3>4 DEF ToSet
  <2> QED BY <1>1, <1>4, <2>1, <2>2
<1> QED BY <1>8, <1>10, <1>11, <1>12, <1>13

(* Sorting tabs by their delays loses none. *)
LEMMA SortDelayedIs ==
    ASSUME NEW X, \A x \in X : x.delay \in Int, NEW s \in Seq(X)
    PROVE  /\ SortingDelays!Fold(<<>>, s) \in Seq(X)
           /\ \A i \in DOMAIN s : s[i] \in ToSet(SortingDelays!Fold(<<>>, s))
<1> DEFINE Q == [n \in 0 .. Len(s) |-> { t \in Seq(X) : \A i \in 1 .. n : s[i] \in ToSet(t) }]
<1>1. Len(s) \in Nat /\ DOMAIN s = 1 .. Len(s) /\ \A i \in 1 .. Len(s) : s[i] \in X
  OBVIOUS
<1>2. <<>> \in Q[0]
  OBVIOUS
<1>3. ASSUME NEW n \in 1 .. Len(s), NEW t \in Q[n - 1] PROVE InsertDelayed(t, s[n]) \in Q[n]
  <2>1. n - 1 \in 0 .. Len(s) /\ n \in 0 .. Len(s) /\ s[n] \in X
    BY <1>1
  <2>2. t \in Seq(X) /\ \A i \in 1 .. n - 1 : s[i] \in ToSet(t)
    BY <1>3, <2>1
  <2>3. /\ InsertDelayed(t, s[n]) \in Seq(X) /\ s[n] \in ToSet(InsertDelayed(t, s[n]))
        /\ \A i \in DOMAIN t : t[i] \in ToSet(InsertDelayed(t, s[n]))
    BY <2>1, <2>2, InsertDelayedIs
  <2>4. ASSUME NEW i \in 1 .. n PROVE s[i] \in ToSet(InsertDelayed(t, s[n]))
    <3>1. CASE i = n
      BY <2>3, <3>1
    <3>2. CASE i # n
      <4>1. i \in 1 .. n - 1
        BY <1>1, <3>2
      <4>2. PICK j \in DOMAIN t : s[i] = t[j]
        BY <2>2, <4>1 DEF ToSet
      <4> QED BY <2>3, <4>2
    <3> QED BY <3>1, <3>2
  <2> QED BY <2>1, <2>3, <2>4
<1>4. SortsDelays!Fold(<<>>, s) \in Q[Len(s)]
  <2> HIDE DEF Q
  <2> QED BY <1>1, <1>2, <1>3, SortsDelays!FoldReaches
<1>5. SortingDelays!Fold(<<>>, s) = SortsDelays!Fold(<<>>, s)
  BY DEF SortingDelays!Fold, SortsDelays!Fold
<1>6. Len(s) \in 0 .. Len(s)
  BY <1>1
<1> QED BY <1>1, <1>4, <1>5, <1>6

(* The tabs of the groups that exist are tabs of the dashboard. *)
LEMMA KnownIs ==
    ASSUME NEW u, Len(u.tabs) \in Nat, u.tabs = [i \in 1 .. Len(u.tabs) |-> u.tabs[i]]
    PROVE  KnownTabs(u) \in Seq(ToSet(u.tabs)) /\ ToSet(KnownTabs(u)) \subseteq ToSet(u.tabs)
<1>1. PICK s : s = u.tabs
  OBVIOUS
<1>2. s \in Seq(ToSet(s))
  <2>1. \A i \in 1 .. Len(s) : s[i] \in ToSet(s)
    BY <1>1 DEF ToSet
  <2> QED BY <1>1, <2>1
<1>3. PICK k : k = KnownTabs(u)
  OBVIOUS
<1>4. k \in Seq(ToSet(s))
  BY <1>1, <1>2, <1>3, SelectIs DEF KnownTabs
<1>5. ToSet(k) \subseteq ToSet(s)
  <2>1. \A i \in DOMAIN k : k[i] \in ToSet(s)
    BY <1>4
  <2> QED BY <2>1 DEF ToSet
<1> QED BY <1>1, <1>3, <1>4, <1>5

(* Every tab that is behind is requested. *)
LEMMA TabsBehindAre ==
    ASSUME NEW u, Len(u.tabs) \in Nat, u.tabs = [i \in 1 .. Len(u.tabs) |-> u.tabs[i]], NEW statted,
           \A t \in ToSet(u.tabs) : TabDelay(u, t, statted) \in Int
    PROVE  /\ TabsBehind(u, statted) \in Seq(ToSet(u.tabs))
           /\ \A t \in ToSet(KnownTabs(u)) : TabDelay(u, t, statted) # 0 => t \in ToSet(TabsBehind(u, statted))
<1>1. PICK X, Y, k : X = ToSet(u.tabs) /\ Y = [tab : X, delay : Int] /\ k = KnownTabs(u)
  OBVIOUS
<1>2. k \in Seq(X)
  BY <1>1, KnownIs
<1>3. PICK d : d = [i \in DOMAIN k |-> [tab |-> k[i], delay |-> TabDelay(u, k[i], statted)]]
  OBVIOUS
<1>4. /\ d \in Seq(Y) /\ DOMAIN d = DOMAIN k
      /\ \A i \in DOMAIN k : d[i].tab = k[i] /\ d[i].delay = TabDelay(u, k[i], statted)
  <2>1. Len(k) \in Nat /\ DOMAIN k = 1 .. Len(k) /\ \A i \in 1 .. Len(k) : k[i] \in X
    BY <1>2
  <2>2. \A i \in 1 .. Len(k) : [tab |-> k[i], delay |-> TabDelay(u, k[i], statted)] \in Y
    BY <1>1, <2>1
  <2> QED BY <1>3, <2>1, <2>2
<1>5. PICK S : S = { i \in DOMAIN k : d[i].delay # 0 }
  OBVIOUS
<1>6. PICK e : e = Select(d, S)
  OBVIOUS
<1>7. e \in Seq(Y) /\ \E h : Subsequence(e, d, Len(d), S, h)
  BY <1>4, <1>6, SelectIs
<1>8. PICK f : f = SortingDelays!Fold(<<>>, e)
  OBVIOUS
<1>9. f \in Seq(Y) /\ \A i \in DOMAIN e : e[i] \in ToSet(f)
  <2>1. \A y \in Y : y.delay \in Int
    BY <1>1
  <2> QED BY <1>7, <1>8, <2>1, SortDelayedIs
<1>10. PICK r : r = TabsBehind(u, statted)
  OBVIOUS
<1>11. r = [i \in DOMAIN f |-> f[i].tab]
  BY <1>1, <1>3, <1>5, <1>6, <1>8, <1>10 DEF TabsBehind
<1>12. r \in Seq(X)
  <2>1. Len(f) \in Nat /\ DOMAIN f = 1 .. Len(f) /\ \A i \in 1 .. Len(f) : f[i] \in Y
    BY <1>9
  <2>2. \A y \in Y : y.tab \in X
    BY <1>1
  <2>3. \A i \in 1 .. Len(f) : f[i].tab \in X
    BY <2>1, <2>2
  <2> QED BY <1>11, <2>1, <2>3
<1>13. ASSUME NEW t \in ToSet(k), TabDelay(u, t, statted) # 0 PROVE t \in ToSet(r)
  <2>1. PICK i \in DOMAIN k : t = k[i]
    BY DEF ToSet
  <2>2. i \in S /\ i \in 1 .. Len(d)
    BY <1>2, <1>4, <1>5, <1>13, <2>1
  <2>3. PICK p \in DOMAIN e : e[p] = d[i]
    <3>1. PICK h : Subsequence(e, d, Len(d), S, h)
      BY <1>7
    <3>2. PICK p \in 1 .. Len(e) : h[p] = i
      BY <2>2, <3>1 DEF Subsequence
    <3>3. p \in DOMAIN e /\ e[p] = d[h[p]]
      BY <3>1, <3>2 DEF Subsequence
    <3> QED BY <3>2, <3>3
  <2>4. PICK q \in DOMAIN f : f[q] = d[i]
    BY <1>9, <2>3 DEF ToSet
  <2>5. r[q] = t /\ q \in DOMAIN r
    BY <1>4, <1>11, <2>1, <2>4
  <2> QED BY <2>5 DEF ToSet
<1> QED BY <1>1, <1>10, <1>12, <1>13

(* The delay of a tab; one that is up to date has been summarised at the   *)
(* second of its last write.                                               *)
LEMMA TabDelayIs ==
    ASSUME NEW u, IsDeployed(u.dash, u.tabs), Recorded(u.dash, u.sum, tabstate),
           tabstate \in [Paths -> Seq(Nat \ {0})], NEW t \in ToSet(u.tabs), NEW statted,
           NEW s, s = tabstate[TabStatePath(u.dash, t.name)]
    PROVE  /\ TabDelay(u, t, statted) \in Int
           /\ TabDelay(u, t, statted) = 0 =>
                /\ t \in statted /\ SumOf(u.sum, t) # <<>> /\ t.name \in DOMAIN u.sum
                /\ u.sum[t.name].ver \in 1 .. Len(s) /\ Len(s) \in 1 .. Len(s) /\ s[u.sum[t.name].ver] = s[Len(s)]
<1>1. PICK n, p : n = t.name /\ p = TabStatePath(u.dash, n)
  OBVIOUS
<1>2. p \in Paths /\ s = tabstate[p] /\ s \in Seq(Nat \ {0}) /\ Len(s) \in Nat
  <2>1. p \in Paths
    BY <1>1, DeployedIs
  <2> QED BY <1>1, <2>1
<1>3. CASE t \notin statted
  <2>1. TabDelay(u, t, statted) = -1
    BY <1>3 DEF TabDelay, Delay
  <2> QED BY <2>1
<1>4. CASE t \in statted /\ n \notin DOMAIN u.sum
  <2>1. SumOf(u.sum, t) = <<>>
    BY <1>1, <1>4 DEF SumOf
  <2>2. TabDelay(u, t, statted) = 24
    BY <1>4, <2>1 DEF TabDelay, Delay
  <2> QED BY <2>2
<1>5. CASE t \in statted /\ n \in DOMAIN u.sum
  <2>1. SumOf(u.sum, t) = <<u.sum[n]>>
    BY <1>1, <1>5 DEF SumOf
  <2>2. TabDelay(u, t, statted) = Updated(p) - u.sum[n].time
    <3>1. SumOf(u.sum, t) # <<>> /\ SumOf(u.sum, t)[1] = u.sum[n]
      BY <2>1
    <3> QED BY <1>1, <1>5, <3>1 DEF TabDelay, Delay
  <2>3. \/ s = <<>> /\ Updated(p) = -9
        \/ s # <<>> /\ Len(s) >= 1 /\ Updated(p) = s[Len(s)] /\ s[Len(s)] \in Nat \ {0}
    <3>1. Updated(p) = IF s = <<>> THEN -9 ELSE s[Len(s)]
      BY <1>2 DEF Updated, Missing, Last
    <3>2. s # <<>> => Len(s) >= 1 /\ s[Len(s)] \in Nat \ {0}
      BY <1>2
    <3>3. CASE s = <<>>
      BY <3>1, <3>3
    <3>4. CASE s # <<>>
      BY <3>1, <3>2, <3>4
    <3> QED BY <3>3, <3>4
  <2>4. CASE u.sum[n] = Status
    <3>1. u.sum[n].time = 0
      BY <2>4 DEF Status
    <3> QED BY <2>2, <2>3, <3>1
  <2>5. CASE u.sum[n] # Status
    <3>1. u.sum[n].ver \in 1 .. Len(s) /\ u.sum[n].time = s[u.sum[n].ver]
      BY <1>1, <1>2, <1>5, <2>5 DEF Recorded
    <3>2. s[u.sum[n].ver] \in Nat \ {0} /\ s # <<>>
      BY <1>2, <3>1
    <3>3. Len(s) >= 1 /\ Updated(p) = s[Len(s)] /\ s[Len(s)] \in Nat /\ u.sum[n].time \in Nat
      BY <2>3, <3>1, <3>2
    <3>4. TabDelay(u, t, statted) \in Int /\ (TabDelay(u, t, statted) = 0 => s[u.sum[n].ver] = s[Len(s)])
      BY <2>2, <3>1, <3>3
    <3>5. SumOf(u.sum, t) # <<>> /\ Len(s) \in 1 .. Len(s)
      BY <1>2, <2>1, <3>3
    <3> QED BY <1>1, <1>5, <3>1, <3>4, <3>5
  <2> QED BY <2>4, <2>5
<1> QED BY <1>1, <1>3, <1>4, <1>5

(* After the stat, each tab whose group exists is requested or current. *)
LEMMA StatTabsIs ==
    ASSUME NEW u, UpdateInv(u, tabstate), u.at = "stat", tabstate \in [Paths -> Seq(Nat \ {0})],
           NEW statted \in {ToSet(KnownTabs(u)), {}},
           NEW v, v.at = "tabs", v.dash = u.dash, v.tabs = u.tabs, v.todo = TabsBehind(u, statted),
           v.sum = SummaryAfterStat(u, statted), v.stat = VersionsSeen(u),
           v.failed = { t.name : t \in ToSet(u.tabs) \ ToSet(KnownTabs(u)) }
    PROVE  UpdateInv(v, tabstate)
<1>1. IsDeployed(u.dash, u.tabs) /\ Recorded(u.dash, u.sum, tabstate)
  BY DEF UpdateInv
<1>2. /\ Len(u.tabs) \in Nat /\ u.tabs = [i \in 1 .. Len(u.tabs) |-> u.tabs[i]]
      /\ \A t \in ToSet(u.tabs) : TabStatePath(u.dash, t.name) \in Paths
  BY <1>1, DeployedIs
<1>3. \A t \in ToSet(u.tabs) : TabDelay(u, t, statted) \in Int
  BY <1>1, TabDelayIs
<1>4. /\ v.todo \in Seq(ToSet(u.tabs))
      /\ \A t \in ToSet(KnownTabs(u)) : TabDelay(u, t, statted) # 0 => t \in ToSet(v.todo)
  BY <1>2, <1>3, TabsBehindAre
<1>5. ASSUME NEW n \in TabNames(u)
      PROVE  /\ n \in DOMAIN v.sum
             /\ \E t \in ToSet(u.tabs) :
                  /\ t.name = n
                  /\ v.sum[n] = IF t \in ToSet(KnownTabs(u)) /\ t \in statted /\ SumOf(u.sum, t) # <<>>
                                  THEN u.sum[n] ELSE Status
  <2> DEFINE t == CHOOSE x \in ToSet(u.tabs) : x.name = n
  <2>1. t \in ToSet(u.tabs) /\ t.name = n
    BY <1>5 DEF TabNames
  <2> HIDE DEF t
  <2>2. n \in DOMAIN v.sum /\ v.sum[n] = IF t \in ToSet(KnownTabs(u)) /\ t \in statted /\ SumOf(u.sum, t) # <<>>
                                            THEN u.sum[t.name] ELSE Status
    BY <1>5 DEF SummaryAfterStat, TabNames, t
  <2> QED BY <2>1, <2>2
<1>6. DOMAIN v.sum = TabNames(v)
  BY DEF SummaryAfterStat, TabNames
<1>7. Recorded(v.dash, v.sum, tabstate)
  <2> SUFFICES ASSUME NEW n \in DOMAIN v.sum, v.sum[n] # Status
               PROVE  /\ TabStatePath(u.dash, n) \in Paths
                      /\ v.sum[n].ver \in 1 .. Len(tabstate[TabStatePath(u.dash, n)])
                      /\ v.sum[n].time = tabstate[TabStatePath(u.dash, n)][v.sum[n].ver]
    BY DEF Recorded
  <2>1. n \in TabNames(u)
    BY <1>6 DEF TabNames
  <2>2. PICK t \in ToSet(u.tabs) : t.name = n /\ SumOf(u.sum, t) # <<>> /\ v.sum[n] = u.sum[n]
    BY <1>5, <2>1
  <2>3. n \in DOMAIN u.sum
    BY <2>2 DEF SumOf
  <2> QED BY <1>1, <2>2, <2>3 DEF Recorded
<1>8. ASSUME NEW n \in TabNames(v) \ v.failed
      PROVE  /\ v.stat[n] \in 0 .. Len(tabstate[TabStatePath(v.dash, n)])
             /\ Requested(v, n) \/ CurrentTab(v, n, tabstate)
  <2>1. n \in TabNames(u)
    BY DEF TabNames
  <2>2. PICK t \in ToSet(u.tabs) :
          /\ t.name = n
          /\ v.sum[n] = IF t \in ToSet(KnownTabs(u)) /\ t \in statted /\ SumOf(u.sum, t) # <<>>
                          THEN u.sum[n] ELSE Status
    BY <1>5, <2>1
  <2>3. t \in ToSet(KnownTabs(u))
    BY <1>8, <2>2
  <2>4. PICK s : s = tabstate[TabStatePath(u.dash, n)]
    OBVIOUS
  <2>5. Len(s) \in Nat
    BY <1>2, <2>2, <2>4
  <2>6. v.stat[n] = Len(s)
    BY <2>2, <2>3, <2>4 DEF VersionsSeen
  <2>7. CASE TabDelay(u, t, statted) # 0
    <3>1. t \in ToSet(v.todo)
      BY <1>4, <2>3, <2>7
    <3>2. Requested(v, n)
      BY <2>2, <3>1 DEF ToSet, Requested
    <3> QED BY <2>4, <2>5, <2>6, <3>2
  <2>8. CASE TabDelay(u, t, statted) = 0
    <3>1. /\ t \in statted /\ SumOf(u.sum, t) # <<>>
          /\ u.sum[n].ver \in 1 .. Len(s) /\ Len(s) \in 1 .. Len(s) /\ s[u.sum[n].ver] = s[Len(s)]
      BY <1>1, <2>2, <2>4, <2>8, TabDelayIs
    <3>2. v.sum[n] = u.sum[n]
      BY <2>2, <2>3, <3>1
    <3>3. CurrentTab(v, n, tabstate)
      BY <2>4, <2>6, <3>1, <3>2 DEF CurrentTab
    <3> QED BY <2>4, <2>5, <2>6, <3>3
  <2> QED BY <2>7, <2>8
<1> QED BY <1>1, <1>4, <1>6, <1>7, <1>8 DEF UpdateInv

(* A request that is served leaves the other ones. *)
LEMMA RemoveAtIs ==
    ASSUME NEW X, NEW s \in Seq(X), NEW i \in DOMAIN s
    PROVE  /\ RemoveAt(s, i) \in Seq(X)
           /\ \A j \in DOMAIN s : j # i => s[j] \in ToSet(RemoveAt(s, i))
<1>1. Len(s) \in Nat /\ DOMAIN s = 1 .. Len(s) /\ i \in 1 .. Len(s) /\ \A j \in 1 .. Len(s) : s[j] \in X
  OBVIOUS
<1> DEFINE pre == SubSeq(s, 1, i - 1)
           post == SubSeq(s, i + 1, Len(s))
<1>2. pre \in Seq(X) /\ Len(pre) = i - 1 /\ \A j \in 1 .. i - 1 : pre[j] = s[j]
  BY <1>1
<1>3. post \in Seq(X) /\ Len(post) = Len(s) - i /\ \A j \in 1 .. Len(s) - i : post[j] = s[i + j]
  <2>1. \A j \in i + 1 .. Len(s) : s[j] \in X
    BY <1>1
  <2>2. Len(post) = Len(s) - i
    BY <1>1
  <2>3. \A j \in 1 .. Len(s) - i : post[j] = s[i + j] /\ i + j \in i + 1 .. Len(s)
    <3> TAKE j \in 1 .. Len(s) - i
    <3>1. post[j] = s[((i + 1) + j) - 1]
      BY <1>1
    <3>2. ((i + 1) + j) - 1 = i + j /\ i + j \in i + 1 .. Len(s)
      BY <1>1
    <3> QED BY <3>1, <3>2
  <2>4. post \in Seq(X)
    BY <1>1
  <2> QED BY <2>2, <2>3, <2>4
<1>4. RemoveAt(s, i) = pre \o post
  BY DEF RemoveAt
<1> HIDE DEF pre, post
<1>5. PICK r : r = pre \o post
  OBVIOUS
<1>6. /\ r \in Seq(X) /\ DOMAIN r = 1 .. Len(s) - 1
      /\ \A j \in 1 .. i - 1 : r[j] = s[j]
      /\ \A j \in i .. Len(s) - 1 : r[j] = post[j - (i - 1)]
  <2>1. /\ r \in Seq(X) /\ Len(r) = Len(pre) + Len(post)
        /\ \A j \in 1 .. Len(pre) + Len(post) : r[j] = IF j <= Len(pre) THEN pre[j] ELSE post[j - Len(pre)]
    BY <1>2, <1>3, <1>5, ConcatProperties
  <2>2. /\ Len(pre) + Len(post) = Len(s) - 1 /\ Len(pre) = i - 1
        /\ \A j \in 1 .. i - 1 : j \in 1 .. Len(s) - 1 /\ j <= i - 1
        /\ \A j \in i .. Len(s) - 1 : j \in 1 .. Len(s) - 1 /\ ~(j <= i - 1)
    BY <1>1, <1>2, <1>3
  <2>3. DOMAIN r = 1 .. Len(r)
    BY <2>1
  <2> QED BY <1>2, <2>1, <2>2, <2>3
<1>7. ASSUME NEW j \in DOMAIN s, j # i PROVE s[j] \in ToSet(r)
  <2>1. CASE j < i
    <3>1. j \in 1 .. i - 1 /\ j \in DOMAIN r
      BY <1>1, <1>6, <2>1
    <3> QED BY <1>6, <3>1 DEF ToSet
  <2>2. CASE j > i
    <3>1. PICK k : k = j - i
      OBVIOUS
    <3>2. k \in 1 .. Len(s) - i /\ i + k = j /\ (j - 1) - (i - 1) = k
      BY <1>1, <1>7, <2>2, <3>1
    <3>3. j - 1 \in i .. Len(s) - 1 /\ j - 1 \in 1 .. Len(s) - 1
      BY <1>1, <1>7, <2>2
    <3>4. r[j - 1] = s[j] /\ j - 1 \in DOMAIN r
      BY <1>3, <1>6, <3>2, <3>3
    <3> QED BY <3>4 DEF ToSet
  <2> QED BY <1>1, <1>7, <2>1, <2>2
<1> QED BY <1>4, <1>5, <1>6, <1>7

(* What UpdateTab makes of an update: a summary of the tab state that is   *)
(* there, or a failure.                                                    *)
Served(u, v, i, t, p, s) ==
    /\ t = u.todo[i].name /\ p = TabStatePath(u.dash, t)
    /\ v.at = "tabs" /\ v.dash = u.dash /\ v.tabs = u.tabs /\ v.stat = u.stat /\ v.more = u.more
    /\ v.todo = RemoveAt(u.todo, i) /\ v.sum = [u.sum EXCEPT ![t] = s]
    /\ \/ tabstate[p] # <<>> /\ s = updateTab(p) /\ v.failed = u.failed
       \/ s = Status /\ v.failed = u.failed \cup {t}

(* A request that is served makes its tab current. *)
LEMMA UpdateTabIs ==
    ASSUME NEW u, UpdateInv(u, tabstate), u.at = "tabs", tabstate \in [Paths -> Seq(Nat \ {0})],
           NEW i \in DOMAIN u.todo, NEW v, NEW t, NEW p, NEW s, Served(u, v, i, t, p, s)
    PROVE  UpdateInv(v, tabstate)
<1> USE DEF Served
<1>1. /\ IsDeployed(u.dash, u.tabs) /\ Recorded(u.dash, u.sum, tabstate)
      /\ DOMAIN u.sum = TabNames(u) /\ u.todo \in Seq(ToSet(u.tabs))
      /\ \A n \in TabNames(u) \ u.failed :
           /\ u.stat[n] \in 0 .. Len(tabstate[TabStatePath(u.dash, n)])
           /\ ~u.more => Requested(u, n) \/ CurrentTab(u, n, tabstate)
  BY DEF UpdateInv
<1>2. u.todo[i] \in ToSet(u.tabs)
  BY <1>1
<1>3. t \in TabNames(u) /\ p \in Paths /\ TabNames(v) = TabNames(u)
  BY <1>1, <1>2, DeployedIs DEF TabNames
<1>4. v.todo \in Seq(ToSet(u.tabs)) /\ \A j \in DOMAIN u.todo : j # i => u.todo[j] \in ToSet(v.todo)
  BY <1>1, RemoveAtIs
<1>5. /\ DOMAIN v.sum = TabNames(u) /\ v.sum[t] = s
      /\ \A n \in TabNames(u) : n # t => v.sum[n] = u.sum[n]
  BY <1>1, <1>3
<1>6. PICK ws : ws = tabstate[p]
  OBVIOUS
<1>7. ws \in Seq(Nat \ {0}) /\ Len(ws) \in Nat
  BY <1>3, <1>6
<1>8. s = Status \/ (s.ver = Len(ws) /\ Len(ws) >= 1 /\ s.time = ws[Len(ws)])
  <2>1. CASE ws # <<>> /\ s = updateTab(p)
    <3>1. s.ver = Len(ws) /\ s.time = ws[Len(ws)]
      BY <1>6, <2>1 DEF updateTab, Last
    <3>2. Len(ws) >= 1
      BY <1>7, <2>1
    <3> QED BY <3>1, <3>2
  <2>2. CASE s = Status
    BY <2>2
  <2> QED BY <1>6, <2>1, <2>2
<1>9. Recorded(v.dash, v.sum, tabstate)
  <2> SUFFICES ASSUME NEW n \in TabNames(u), v.sum[n] # Status
               PROVE  /\ TabStatePath(u.dash, n) \in Paths
                      /\ v.sum[n].ver \in 1 .. Len(tabstate[TabStatePath(u.dash, n)])
                      /\ v.sum[n].time = tabstate[TabStatePath(u.dash, n)][v.sum[n].ver]
    BY <1>5 DEF Recorded
  <2>1. CASE n = t
    <3>1. s.ver \in 1 .. Len(ws) /\ s.time = ws[s.ver]
      BY <1>5, <1>7, <1>8, <2>1
    <3> QED BY <1>3, <1>5, <1>6, <2>1, <3>1
  <2>2. CASE n # t
    BY <1>1, <1>5, <2>2 DEF Recorded
  <2> QED BY <2>1, <2>2
<1>10. ASSUME NEW n \in TabNames(u) \ v.failed
       PROVE  /\ v.stat[n] \in 0 .. Len(tabstate[TabStatePath(v.dash, n)])
              /\ ~v.more => Requested(v, n) \/ CurrentTab(v, n, tabstate)
  <2>1. n \in TabNames(u) \ u.failed
    BY <1>10
  <2>2. CASE n = t
    <3>1. s.ver = Len(ws) /\ u.stat[n] \in 0 .. Len(ws)
      BY <1>1, <1>6, <1>10, <2>1, <2>2 DEF updateTab
    <3>2. v.sum[n].ver >= v.stat[n]
      BY <1>5, <1>7, <2>2, <3>1
    <3>3. CurrentTab(v, n, tabstate)
      BY <3>2 DEF CurrentTab
    <3> QED BY <1>1, <2>1, <3>3
  <2>3. CASE n # t
    <3>1. ASSUME Requested(u, n) PROVE Requested(v, n)
      <4>1. PICK j \in DOMAIN u.todo : u.todo[j].name = n
        BY <3>1 DEF Requested
      <4>2. j # i
        BY <2>3, <4>1
      <4>3. PICK k \in DOMAIN v.todo : v.todo[k] = u.todo[j]
        <5>1. u.todo[j] \in ToSet(v.todo)
          BY <1>4, <4>2
        <5> HIDE DEF Served
        <5> QED BY <5>1 DEF ToSet
      <4> HIDE DEF Served
      <4> QED BY <4>1, <4>3 DEF Requested
    <3>2. CurrentTab(u, n, tabstate) => CurrentTab(v, n, tabstate)
      BY <1>5, <2>3 DEF CurrentTab
    <3> QED BY <1>1, <2>1, <3>1, <3>2
  <2> QED BY <2>2, <2>3
<1> QED BY <1>1, <1>3, <1>4, <1>5, <1>9, <1>10 DEF UpdateInv

(* Tab states only get more versions. *)
Grown(states, later) ==
    \A p \in Paths : /\ Len(states[p]) \in Nat /\ Len(later[p]) \in Nat /\ Len(states[p]) <= Len(later[p])
                     /\ \A i \in 1 .. Len(states[p]) : later[p][i] = states[p][i]

(* What a summary was made of stays there. *)
LEMMA RecordedGrows ==
    ASSUME NEW d, NEW sum, NEW states, NEW later, Grown(states, later), Recorded(d, sum, states)
    PROVE  Recorded(d, sum, later)
<1> SUFFICES ASSUME NEW n \in DOMAIN sum, sum[n] # Status
             PROVE  /\ TabStatePath(d, n) \in Paths
                    /\ sum[n].ver \in 1 .. Len(later[TabStatePath(d, n)])
                    /\ sum[n].time = later[TabStatePath(d, n)][sum[n].ver]
  BY DEF Recorded
<1>1. PICK p : p = TabStatePath(d, n)
  OBVIOUS
<1>2. p \in Paths /\ sum[n].ver \in 1 .. Len(states[p]) /\ sum[n].time = states[p][sum[n].ver]
  BY <1>1 DEF Recorded
<1> QED BY <1>1, <1>2 DEF Grown

(* What an update knows stays true when a tab state is written. *)
LEMMA UpdateGrows ==
    ASSUME NEW u, NEW states, NEW later, Grown(states, later), UpdateInv(u, states)
    PROVE  UpdateInv(u, later)
<1>1. u.at \in {"stat", "tabs", "written"} => IsDeployed(u.dash, u.tabs) /\ Recorded(u.dash, u.sum, later)
  BY RecordedGrows DEF UpdateInv
<1>2. ASSUME u.at \in {"tabs", "written"}, NEW n \in TabNames(u) \ u.failed
      PROVE  /\ u.stat[n] \in 0 .. Len(later[TabStatePath(u.dash, n)])
             /\ ~u.more => Requested(u, n) \/ CurrentTab(u, n, later)
  <2>1. PICK p : p = TabStatePath(u.dash, n)
    OBVIOUS
  <2>2. p \in Paths
    BY <1>1, <1>2, <2>1, DeployedIs DEF TabNames
  <2>3. /\ Len(states[p]) \in Nat /\ Len(later[p]) \in Nat /\ Len(states[p]) <= Len(later[p])
        /\ \A i \in 1 .. Len(states[p]) : later[p][i] = states[p][i] /\ i \in 1 .. Len(later[p])
    BY <2>2 DEF Grown
  <2>4. u.stat[n] \in 0 .. Len(states[p])
    BY <1>2, <2>1 DEF UpdateInv
  <2>5. CurrentTab(u, n, states) => CurrentTab(u, n, later)
    BY <2>1, <2>3 DEF CurrentTab
  <2> QED BY <1>2, <2>1, <2>3, <2>4, <2>5 DEF UpdateInv
<1> QED BY <1>1, <1>2 DEF UpdateInv

(* A worker is given another record. *)
LEMMA WorkerTakes ==
  ASSUME WorkerTypes, NEW w \in Workers, NEW u, WorkerShape(u), worker' = [worker EXCEPT ![w] = u]
  PROVE  OneWorker(w) /\ worker'[w] = u /\ WorkerTypes'
  BY DEF WorkerTypes, OneWorker

(* What one worker does leaves the others' updates and summaries alone, if *)
(* it does not write.                                                      *)
LEMMA OthersKeep ==
  ASSUME Summaries, NEW w \in Workers, OneWorker(w), UNCHANGED <<tabstate, summary>>,
         UpdateInv(worker'[w], tabstate), worker'[w].at # "written"
  PROVE  Summaries'
<1>1. \A v \in Workers : UpdateInv(worker'[v], tabstate)
  BY DEF Summaries, OneWorker
<1>2. \A v \in Workers : worker'[v].at = "written" => worker'[v] = worker[v]
  BY DEF OneWorker
<1> QED BY <1>1, <1>2 DEF Summaries

(* A worker that is not at work has no update. *)
LEMMA NoUpdate == ASSUME NEW u, u.at \notin {"stat", "tabs", "written"}, NEW states PROVE UpdateInv(u, states)
  BY DEF UpdateInv

(* While a worker works, it has its dashboard for itself. *)
LEMMA KeepsOwn ==
  ASSUME Exclusion, NEW w \in Workers, OneWorker(w), UNCHANGED active,
         worker[w].at \in Working, worker'[w].dash = worker[w].dash
  PROVE  Exclusion'
  BY DEF Exclusion, OneWorker

Stays == UNCHANGED <<cfg, loop, snapVars>>

(* What most steps leave alone. *)
LEMMA StaysConfigured == Configured /\ Stays => Configured'
  BY DEF Configured, Stays, snapVars

(* A worker takes a dashboard that nobody has, and gives it back. *)
LEMMA TakingKeeps ==
  ASSUME CurrentInv, NEW w \in Workers, Receive(w) \/ Reschedule(w) \/ Release(w) \/ Restart(w), UNCHANGED snapVars
  PROVE  CurrentInv'
<1> USE DEF CurrentInv, queueVars, workVars, noticeVars
<1>0. Stays /\ Configured'
  BY StaysConfigured DEF Stays, Receive, Reschedule, Release, Restart
<1>1. UNCHANGED <<tabstate, summary>>
  BY DEF Receive, Reschedule, Release, Restart
<1>2. ASSUME NEW u, WorkerShape(u), u.at \notin {"stat", "tabs", "written"}, worker' = [worker EXCEPT ![w] = u],
             UNCHANGED <<tabstate, summary>>
      PROVE  OneWorker(w) /\ worker'[w] = u /\ WorkerTypes' /\ Summaries'
  <2>1. OneWorker(w) /\ worker'[w] = u /\ WorkerTypes'
    BY <1>2, WorkerTakes
  <2>2. UpdateInv(u, tabstate)
    BY <1>2, NoUpdate
  <2>3. Summaries'
    BY <1>2, <2>1, <2>2, OthersKeep
  <2> QED BY <2>1, <2>3
<1>3. CASE Receive(w)
  <2>1. CASE offered \in active
    <3>1. UNCHANGED <<active, worker>>
      BY <1>3, <2>1 DEF Receive
    <3> QED BY <1>0, <1>1, <3>1 DEF WorkerTypes, Exclusion, Summaries
  <2>2. CASE offered \notin active
    <3>1. PICK u : u = [Idle EXCEPT !.at = "start", !.dash = offered]
      OBVIOUS
    <3>2. WorkerShape(u) /\ u.at = "start" /\ u.dash = offered
      BY <3>1, IdleShape
    <3>3. worker' = [worker EXCEPT ![w] = u] /\ active' = active \cup {offered}
      BY <1>3, <2>2, <3>1 DEF Receive
    <3>4. OneWorker(w) /\ worker'[w] = u /\ WorkerTypes' /\ Summaries'
      BY <1>1, <1>2, <3>2, <3>3
    <3>5. Exclusion'
      BY <2>2, <3>2, <3>3, <3>4 DEF Exclusion, OneWorker
    <3> QED BY <1>0, <3>4, <3>5
  <2> QED BY <2>1, <2>2
<1>4. CASE Reschedule(w)
  <2>0. PICK d : d = worker[w].dash
    OBVIOUS
  <2>1. PICK u : u = [Idle EXCEPT !.at = "release", !.dash = d]
    OBVIOUS
  <2>2. WorkerShape(u) /\ u.at = "release" /\ u.dash = worker[w].dash
    <3>1. WorkerShape(u) /\ u.at = "release" /\ u.dash = d
      BY <2>1, IdleShape
    <3> QED BY <2>0, <3>1
  <2>3. worker' = [worker EXCEPT ![w] = u] /\ UNCHANGED active /\ worker[w].at \in Working
    BY <1>4, <2>0, <2>1 DEF Reschedule, Working
  <2>4. OneWorker(w) /\ worker'[w] = u /\ WorkerTypes' /\ Summaries'
    BY <1>1, <1>2, <2>2, <2>3
  <2>5. Exclusion'
    BY <2>2, <2>3, <2>4, KeepsOwn
  <2> QED BY <1>0, <2>4, <2>5
<1>5. CASE Release(w)
  <2>1. PICK u : u = IF worker[w].dash \in waiting THEN [Idle EXCEPT !.at = "restart", !.dash = worker[w].dash] ELSE Idle
    OBVIOUS
  <2>2. WorkerShape(u) /\ u.at \in {"idle", "restart"}
    <3>1. PICK r : r = [Idle EXCEPT !.at = "restart", !.dash = worker[w].dash]
      OBVIOUS
    <3>2. WorkerShape(r) /\ r.at = "restart"
      BY <3>1, IdleShape
    <3>3. u = r \/ u = Idle
      BY <2>1, <3>1
    <3> QED BY <3>2, <3>3, IdleShape
  <2>3. worker' = [worker EXCEPT ![w] = u] /\ active' = active \ {worker[w].dash} /\ worker[w].at \in Working
    BY <1>5, <2>1 DEF Release, Working
  <2>4. OneWorker(w) /\ worker'[w] = u /\ WorkerTypes' /\ Summaries'
    BY <1>1, <1>2, <2>2, <2>3
  <2>5. Exclusion'
    BY <2>2, <2>3, <2>4 DEF Exclusion, OneWorker, Working
  <2> QED BY <1>0, <2>4, <2>5
<1>6. CASE Restart(w)
  <2>1. worker' = [worker EXCEPT ![w] = Idle] /\ UNCHANGED active
    BY <1>6 DEF Restart
  <2>2. OneWorker(w) /\ worker'[w] = Idle /\ WorkerTypes' /\ Summaries'
    BY <1>1, <1>2, <2>1, IdleShape
  <2>3. Exclusion'
    <3>1. worker'[w].at \notin Working
      BY <2>2, IdleShape DEF Working
    <3> QED BY <2>1, <2>2, <3>1 DEF Exclusion, OneWorker
  <2> QED BY <1>0, <2>2, <2>3
<1> QED BY <1>3, <1>4, <1>5, <1>6

(* An update begins with the tabs of the configuration in use and the      *)
(* summary that is there.                                                  *)
LEMMA StartKeeps ==
  ASSUME CurrentInv, NEW w \in Workers, StartUpdate(w), UNCHANGED snapVars
  PROVE  CurrentInv'
<1> USE DEF CurrentInv, queueVars, workVars, noticeVars
<1>1. Configured' /\ UNCHANGED <<tabstate, summary, active>> /\ worker[w].at = "start"
  BY StaysConfigured DEF Stays, StartUpdate
<1>2. PICK u, d : u = worker[w] /\ d = u.dash
  OBVIOUS
<1>3. PICK v : /\ WorkerShape(v) /\ worker' = [worker EXCEPT ![w] = v]
               /\ v.dash = d /\ v.at # "written" /\ UpdateInv(v, tabstate)
  <2>1. CASE Fails(w)
    <3>1. PICK v : v = [Idle EXCEPT !.at = "failed", !.dash = d]
      OBVIOUS
    <3>2. WorkerShape(v) /\ v.at = "failed" /\ v.dash = d
      BY <3>1, IdleShape
    <3>3. worker' = [worker EXCEPT ![w] = v]
      BY <1>2, <2>1, <3>1 DEF Fails
    <3> QED BY <3>2, <3>3, NoUpdate
  <2>2. CASE ~Fails(w)
    <3>1. /\ d \in DOMAIN cfg.dashboards
          /\ worker' = [worker EXCEPT ![w].at = "stat", ![w].tabs = cfg.dashboards[d].tabs, ![w].sum = ReadSummary(d)]
      BY <1>2, <2>2 DEF StartUpdate
    <3>2. PICK v : v = [u EXCEPT !.at = "stat", !.tabs = cfg.dashboards[d].tabs, !.sum = ReadSummary(d)]
      OBVIOUS
    <3>3. /\ WorkerShape(v) /\ v.at = "stat" /\ v.dash = d
          /\ v.tabs = cfg.dashboards[d].tabs /\ v.sum = ReadSummary(d)
      BY <1>2, <3>2 DEF WorkerShape, WorkerTypes
    <3>4. worker' = [worker EXCEPT ![w] = v]
      BY <1>2, <3>1, <3>2 DEF WorkerTypes
    <3>5. IsDeployed(d, v.tabs) /\ d \in DeployedNames
      BY <3>1, <3>3, DeployedIs DEF Configured, Offers
    <3>6. Recorded(d, ReadSummary(d), tabstate)
      <4>1. CASE SummaryPath(d) \in DOMAIN summary
        BY <3>5, <4>1 DEF ReadSummary, Summaries
      <4>2. CASE SummaryPath(d) \notin DOMAIN summary
        BY <4>2 DEF ReadSummary, Recorded
      <4> QED BY <4>1, <4>2
    <3>7. UpdateInv(v, tabstate)
      BY <3>3, <3>5, <3>6 DEF UpdateInv
    <3> QED BY <3>3, <3>4, <3>7
  <2> QED BY <2>1, <2>2
<1>4. OneWorker(w) /\ worker'[w] = v /\ WorkerTypes'
  BY <1>3, WorkerTakes
<1>5. Summaries'
  BY <1>1, <1>3, <1>4, OthersKeep
<1>6. Exclusion'
  BY <1>1, <1>2, <1>3, <1>4, KeepsOwn DEF Working
<1> QED BY <1>1, <1>4, <1>5, <1>6

(* The steps of an update. *)
LEMMA UpdateKeeps ==
  ASSUME CurrentInv, NEW w \in Workers, UNCHANGED snapVars,
         \/ StatTabs(w) \/ GraceEnds(w)
         \/ \E i \in DOMAIN worker[w].todo : UpdateTab(w, i)
  PROVE  CurrentInv'
<1> USE DEF CurrentInv, queueVars, workVars, noticeVars
<1>1. /\ Configured' /\ UNCHANGED <<tabstate, summary, active>> /\ worker[w].at \in {"stat", "tabs"}
  BY StaysConfigured DEF Stays, StatTabs, GraceEnds, UpdateTab
<1>2. PICK u : u = worker[w]
  OBVIOUS
<1>3. WorkerShape(u) /\ UpdateInv(u, tabstate) /\ tabstate \in [Paths -> Seq(Nat \ {0})]
  BY <1>2 DEF WorkerTypes, Summaries
<1>4. PICK v : /\ WorkerShape(v) /\ worker' = [worker EXCEPT ![w] = v]
               /\ v.dash = u.dash /\ v.at = "tabs" /\ UpdateInv(v, tabstate)
  <2>1. CASE StatTabs(w)
    <3>1. PICK statted \in {ToSet(KnownTabs(u)), {}} :
            worker' = [worker EXCEPT ![w] =
                         [u EXCEPT !.at = "tabs", !.todo = TabsBehind(u, statted),
                                   !.sum = SummaryAfterStat(u, statted),
                                   !.failed = { t.name : t \in ToSet(u.tabs) \ ToSet(KnownTabs(u)) },
                                   !.stat = VersionsSeen(u)]]
      BY <1>2, <2>1 DEF StatTabs
    <3>2. PICK todo, sum, failed, stat :
            /\ todo = TabsBehind(u, statted) /\ sum = SummaryAfterStat(u, statted) /\ stat = VersionsSeen(u)
            /\ failed = { t.name : t \in ToSet(u.tabs) \ ToSet(KnownTabs(u)) }
      OBVIOUS
    <3>3. PICK v : v = [u EXCEPT !.at = "tabs", !.todo = todo, !.sum = sum, !.failed = failed, !.stat = stat]
      OBVIOUS
    <3>4. /\ WorkerShape(v) /\ v.at = "tabs" /\ v.dash = u.dash /\ v.tabs = u.tabs
          /\ v.todo = todo /\ v.sum = sum /\ v.failed = failed /\ v.stat = stat
      BY <1>3, <3>3 DEF WorkerShape
    <3>5. worker' = [worker EXCEPT ![w] = v]
      BY <3>1, <3>2, <3>3
    <3>6. u.at = "stat"
      BY <1>2, <2>1 DEF StatTabs
    <3>7. UpdateInv(v, tabstate)
      BY <1>3, <3>2, <3>4, <3>6, StatTabsIs
    <3> QED BY <3>4, <3>5, <3>7
  <2>2. CASE GraceEnds(w)
    <3>1. PICK n \in 0 .. Len(u.todo) : worker' = [worker EXCEPT ![w].more = TRUE, ![w].todo = SubSeq(@, 1, n)]
      BY <1>2, <2>2 DEF GraceEnds
    <3>2. PICK todo : todo = SubSeq(u.todo, 1, n)
      OBVIOUS
    <3>3. PICK v : v = [u EXCEPT !.more = TRUE, !.todo = todo]
      OBVIOUS
    <3>4. u.at = "tabs"
      BY <1>2, <2>2 DEF GraceEnds
    <3>5. /\ WorkerShape(v) /\ v.at = "tabs" /\ v.dash = u.dash /\ v.tabs = u.tabs
          /\ v.todo = todo /\ v.sum = u.sum /\ v.failed = u.failed /\ v.stat = u.stat /\ v.more
      BY <1>3, <3>3, <3>4 DEF WorkerShape
    <3>6. worker' = [worker EXCEPT ![w] = v]
      BY <1>2, <3>1, <3>2, <3>3 DEF WorkerTypes
    <3>7. todo \in Seq(ToSet(u.tabs))
      <4>1. u.todo \in Seq(ToSet(u.tabs))
        BY <1>3, <3>4 DEF UpdateInv
      <4> QED BY <3>2, <4>1
    <3>8. UpdateInv(v, tabstate)
      BY <1>3, <3>4, <3>5, <3>7 DEF UpdateInv, TabNames
    <3> QED BY <3>5, <3>6, <3>8
  <2>3. ASSUME NEW i \in DOMAIN worker[w].todo, UpdateTab(w, i)
        PROVE  \E v : /\ WorkerShape(v) /\ worker' = [worker EXCEPT ![w] = v]
                      /\ v.dash = u.dash /\ v.at = "tabs" /\ UpdateInv(v, tabstate)
    <3>1. PICK t, p : t = u.todo[i].name /\ p = TabStatePath(u.dash, t)
      OBVIOUS
    <3>2. PICK s, failed :
            /\ \/ tabstate[p] # <<>> /\ s = updateTab(p) /\ failed = u.failed
               \/ s = Status /\ failed = u.failed \cup {t}
            /\ worker' = [worker EXCEPT ![w] = [u EXCEPT !.todo = RemoveAt(u.todo, i),
                                                         !.sum = [u.sum EXCEPT ![t] = s], !.failed = failed]]
      <4> DEFINE Now(s, failed) == [u EXCEPT !.todo = RemoveAt(u.todo, i), !.sum = [u.sum EXCEPT ![t] = s],
                                             !.failed = failed]
      <4>1. \/ tabstate[p] # <<>> /\ worker' = [worker EXCEPT ![w] = Now(updateTab(p), u.failed)]
            \/ worker' = [worker EXCEPT ![w] = Now(Status, u.failed \cup {t})]
        BY <1>2, <2>3, <3>1 DEF UpdateTab
      <4> QED BY <4>1, Zenon
    <3>3. PICK todo, sum : todo = RemoveAt(u.todo, i) /\ sum = [u.sum EXCEPT ![t] = s]
      OBVIOUS
    <3>4. PICK v : v = [u EXCEPT !.todo = todo, !.sum = sum, !.failed = failed]
      OBVIOUS
    <3>5. u.at = "tabs"
      BY <1>2, <2>3 DEF UpdateTab
    <3>6. /\ WorkerShape(v) /\ v.at = "tabs" /\ v.dash = u.dash /\ v.tabs = u.tabs
          /\ v.todo = todo /\ v.sum = sum /\ v.failed = failed /\ v.stat = u.stat /\ v.more = u.more
      BY <1>3, <3>4, <3>5 DEF WorkerShape
    <3>7. worker' = [worker EXCEPT ![w] = v]
      BY <3>2, <3>3, <3>4
    <3>8. i \in DOMAIN u.todo
      BY <1>2
    <3>9. Served(u, v, i, t, p, s)
      BY <3>1, <3>2, <3>3, <3>6 DEF Served
    <3>10. UpdateInv(v, tabstate)
      BY <1>3, <3>5, <3>8, <3>9, UpdateTabIs
    <3> QED BY <3>6, <3>7, <3>10
  <2> QED BY <2>1, <2>2, <2>3
<1>5. OneWorker(w) /\ worker'[w] = v /\ WorkerTypes'
  BY <1>4, WorkerTakes
<1>6. Summaries'
  BY <1>1, <1>4, <1>5, OthersKeep
<1>7. Exclusion'
  BY <1>1, <1>2, <1>4, <1>5, KeepsOwn DEF Working
<1> QED BY <1>1, <1>5, <1>6, <1>7

(* A summary is written where no other worker writes, as long as no two    *)
(* dashboards have one path.                                               *)
LEMMA WriteKeeps ==
  ASSUME CurrentInv, Separate, NEW w \in Workers, WriteSummary(w), UNCHANGED snapVars
  PROVE  CurrentInv'
<1> USE DEF CurrentInv, queueVars, workVars, noticeVars
<1>1. Configured' /\ UNCHANGED <<tabstate, active>> /\ worker[w].at = "tabs" /\ worker[w].todo = <<>>
  BY StaysConfigured DEF Stays, WriteSummary
<1>2. PICK u, d : u = worker[w] /\ d = u.dash
  OBVIOUS
<1>3. WorkerShape(u) /\ UpdateInv(u, tabstate) /\ u.at = "tabs" /\ u.todo = <<>>
  BY <1>1, <1>2 DEF WorkerTypes, Summaries
<1>4. CASE Fails(w) /\ UNCHANGED summary
  <2>1. PICK v : v = [Idle EXCEPT !.at = "failed", !.dash = d]
    OBVIOUS
  <2>2. WorkerShape(v) /\ v.at = "failed" /\ v.dash = d
    BY <2>1, IdleShape
  <2>3. worker' = [worker EXCEPT ![w] = v]
    BY <1>2, <1>4, <2>1 DEF Fails
  <2>4. OneWorker(w) /\ worker'[w] = v /\ WorkerTypes'
    BY <2>2, <2>3, WorkerTakes
  <2>5. Summaries'
    BY <1>1, <1>4, <2>2, <2>4, NoUpdate, OthersKeep
  <2>6. Exclusion'
    BY <1>1, <1>2, <2>2, <2>4, KeepsOwn DEF Working
  <2> QED BY <1>1, <2>4, <2>5, <2>6
<1>5. CASE ~(Fails(w) /\ UNCHANGED summary)
  <2>1. writeSummaries({SummaryPath(d)}, u.sum) /\ worker' = [worker EXCEPT ![w].at = "written"]
    BY <1>2, <1>5 DEF WriteSummary
  <2>2. PICK v : v = [u EXCEPT !.at = "written"]
    OBVIOUS
  <2>3. /\ WorkerShape(v) /\ v.at = "written" /\ v.dash = d /\ v.tabs = u.tabs /\ v.todo = u.todo
        /\ v.sum = u.sum /\ v.failed = u.failed /\ v.stat = u.stat /\ v.more = u.more
    BY <1>2, <1>3, <2>2 DEF WorkerShape
  <2>4. worker' = [worker EXCEPT ![w] = v]
    BY <1>2, <2>1, <2>2 DEF WorkerTypes
  <2>5. OneWorker(w) /\ worker'[w] = v /\ WorkerTypes'
    BY <2>3, <2>4, WorkerTakes
  <2>6. UpdateInv(v, tabstate)
    BY <1>2, <1>3, <2>3 DEF UpdateInv, TabNames, Requested, CurrentTab
  <2>7. Exclusion'
    BY <1>1, <1>2, <2>3, <2>5, KeepsOwn DEF Working
  <2>8. /\ DOMAIN summary' = DOMAIN summary \cup {SummaryPath(d)} /\ summary' = [p \in DOMAIN summary' |-> summary'[p]]
        /\ summary'[SummaryPath(d)] = u.sum
        /\ \A p \in DOMAIN summary : p # SummaryPath(d) => summary'[p] = summary[p]
    BY <2>1 DEF writeSummaries
  <2>9. d \in DeployedNames /\ Recorded(d, u.sum, tabstate)
    BY <1>2, <1>3, DeployedIs DEF UpdateInv
  <2>10. ASSUME NEW e \in DeployedNames, SummaryPath(e) \in DOMAIN summary'
         PROVE  Recorded(e, summary'[SummaryPath(e)], tabstate)
    <3>1. CASE SummaryPath(e) = SummaryPath(d)
      <4>1. e = d
        BY <2>9, <3>1 DEF Separate
      <4> QED BY <2>8, <2>9, <4>1
    <3>2. CASE SummaryPath(e) # SummaryPath(d)
      BY <2>8, <2>10, <3>2 DEF Summaries
    <3> QED BY <3>1, <3>2
  <2>11. ASSUME NEW x \in Workers
         PROVE  /\ UpdateInv(worker'[x], tabstate)
                /\ worker'[x].at = "written" =>
                     /\ SummaryPath(worker'[x].dash) \in DOMAIN summary'
                     /\ summary'[SummaryPath(worker'[x].dash)] = worker'[x].sum
    <3>1. CASE x = w
      BY <2>3, <2>5, <2>6, <2>8, <3>1
    <3>2. CASE x # w
      <4>1. worker'[x] = worker[x] /\ UpdateInv(worker[x], tabstate)
        BY <2>5, <3>2 DEF OneWorker, Summaries
      <4>2. ASSUME worker[x].at = "written"
            PROVE  /\ SummaryPath(worker[x].dash) \in DOMAIN summary'
                   /\ summary'[SummaryPath(worker[x].dash)] = worker[x].sum
        <5>1. worker[x].dash # d
          BY <1>2, <1>3, <3>2, <4>2 DEF Exclusion, Working
        <5>2. worker[x].dash \in DeployedNames
          BY <4>1, <4>2, DeployedIs DEF UpdateInv
        <5>3. SummaryPath(worker[x].dash) # SummaryPath(d)
          BY <2>9, <5>1, <5>2 DEF Separate
        <5> QED BY <2>8, <4>2, <5>3 DEF Summaries
      <4> QED BY <4>1, <4>2
    <3> QED BY <3>1, <3>2
  <2>12. Summaries'
    BY <1>1, <2>8, <2>10, <2>11 DEF Summaries
  <2> QED BY <1>1, <2>5, <2>7, <2>12
<1> QED BY <1>4, <1>5

(* A tab state that is written is longer by one. *)
LEMMA TabStateGrows ==
  ASSUME tabstate \in [Paths -> Seq(Nat \ {0})], NEW p \in Paths, WriteTabState(p)
  PROVE  tabstate' \in [Paths -> Seq(Nat \ {0})] /\ Grown(tabstate, tabstate')
<1>1. PICK s \in 1 .. MaxSecond : tabstate' = [tabstate EXCEPT ![p] = Append(@, s)]
  BY DEF WriteTabState
<1>2. s \in Nat \ {0}
  OBVIOUS
<1>3. PICK t : t = tabstate[p]
  OBVIOUS
<1>4. t \in Seq(Nat \ {0}) /\ Len(t) \in Nat
  BY <1>3
<1>5. PICK r : r = Append(t, s)
  OBVIOUS
<1>6. r \in Seq(Nat \ {0}) /\ Len(r) = Len(t) + 1 /\ \A i \in 1 .. Len(t) : r[i] = t[i]
  BY <1>2, <1>4, <1>5
<1>7. tabstate' = [tabstate EXCEPT ![p] = r]
  BY <1>1, <1>3, <1>5
<1>8. tabstate' \in [Paths -> Seq(Nat \ {0})] /\ tabstate'[p] = r /\ \A q \in Paths : q # p => tabstate'[q] = tabstate[q]
  BY <1>6, <1>7
<1>9. Grown(tabstate, tabstate')
  <2> SUFFICES ASSUME NEW q \in Paths
               PROVE  /\ Len(tabstate[q]) \in Nat /\ Len(tabstate'[q]) \in Nat
                      /\ Len(tabstate[q]) <= Len(tabstate'[q])
                      /\ \A i \in 1 .. Len(tabstate[q]) : tabstate'[q][i] = tabstate[q][i]
    BY DEF Grown
  <2>1. CASE q = p
    BY <1>3, <1>4, <1>6, <1>8, <2>1
  <2>2. CASE q # p
    <3>1. tabstate[q] \in Seq(Nat \ {0}) /\ tabstate'[q] = tabstate[q]
      BY <1>8, <2>2
    <3>2. Len(tabstate[q]) \in Nat
      BY <3>1
    <3> QED BY <3>1, <3>2
  <2> QED BY <2>1, <2>2
<1> QED BY <1>8, <1>9

(* The tabulator writes at any time. *)
LEMMA TabStateKeeps ==
  ASSUME CurrentInv, NEW p \in Paths, WriteTabState(p), UNCHANGED snapVars
  PROVE  CurrentInv'
<1> USE DEF CurrentInv, queueVars, workVars, noticeVars
<1>1. Configured' /\ UNCHANGED <<worker, active, summary>>
  BY StaysConfigured DEF Stays, WriteTabState
<1>2. tabstate' \in [Paths -> Seq(Nat \ {0})] /\ Grown(tabstate, tabstate')
  BY TabStateGrows DEF Summaries
<1>3. \A w \in Workers : UpdateInv(worker[w], tabstate')
  BY <1>2, UpdateGrows DEF Summaries
<1>4. \A d \in DeployedNames : SummaryPath(d) \in DOMAIN summary => Recorded(d, summary[SummaryPath(d)], tabstate')
  BY <1>2, RecordedGrows DEF Summaries
<1>5. Summaries'
  BY <1>1, <1>2, <1>3, <1>4 DEF Summaries
<1> QED BY <1>1, <1>5 DEF WorkerTypes, Exclusion

(* fixSnapshot only creates summaries that are missing. *)
LEMMA FixSnapshotKeeps ==
  ASSUME CurrentInv, FixSnapshot, UNCHANGED snapVars
  PROVE  CurrentInv'
<1> USE DEF CurrentInv, queueVars, workVars, noticeVars
<1>1. UNCHANGED <<worker, active, tabstate, cfg>> /\ loop' = [at |-> "select", snap |-> NoTarget]
  BY DEF FixSnapshot
<1>2. Configured'
  BY <1>1 DEF Configured, snapVars
<1>3. PICK created : /\ \A n \in created : SummaryPath(n) \notin DOMAIN summary
                     /\ lockDashboard(created)
  BY DEF FixSnapshot
<1>4. /\ summary' = [p \in DOMAIN summary' |-> summary'[p]]
      /\ \A p \in DOMAIN summary : p \in DOMAIN summary' /\ summary'[p] = summary[p]
      /\ \A p \in DOMAIN summary' : p \in DOMAIN summary \/ summary'[p] = <<>>
  BY <1>3 DEF lockDashboard, writeSummaries
<1>5. ASSUME NEW d \in DeployedNames, SummaryPath(d) \in DOMAIN summary'
      PROVE  Recorded(d, summary'[SummaryPath(d)], tabstate)
  <2>1. CASE SummaryPath(d) \in DOMAIN summary
    BY <1>4, <2>1 DEF Summaries
  <2>2. CASE SummaryPath(d) \notin DOMAIN summary
    BY <1>4, <1>5, <2>2 DEF Recorded
  <2> QED BY <2>1, <2>2
<1>6. Summaries'
  BY <1>1, <1>4, <1>5 DEF Summaries
<1> QED BY <1>1, <1>2, <1>6 DEF WorkerTypes, Exclusion

(* The goroutine of the configuration and its observer use what is         *)
(* deployed, and the other steps have nothing to do with summaries.        *)
LEMMA OthersAreConfigured ==
  ASSUME CurrentInv,
         \/ Deploy \/ StopSummarizer \/ TakeConfig \/ LoopEnds
         \/ SendReturns /\ UNCHANGED snapVars
         \/ (Tick(Watcher) \/ CloseChannel(Watcher)) /\ UNCHANGED sumVars
         \/ /\ UNCHANGED snapVars
            /\ \/ StopFixer \/ PubSub \/ ProcessNotice
               \/ \E n \in DOMAIN items : Elapse(n) \/ SendPick(n)
               \/ \E m \in Messages : TakeNotice(m)
  PROVE  CurrentInv'
<1> USE DEF CurrentInv, queueVars, workVars, noticeVars, snapVars, sumVars
<1>0. Watcher \in Observers
  BY DeployedAssumption
<1>1. UNCHANGED <<worker, active, tabstate, summary>>
  BY DEF Deploy, StopSummarizer, TakeConfig, LoopEnds, SendReturns, StopFixer, PubSub, ProcessNotice,
         Elapse, SendPick, TakeNotice
<1>2. Configured'
  <2>1. CASE Deploy
    <3>1. target' = [gen |-> target.gen + 1, cfg |-> Deployed[target.gen + 1]] /\ target.gen < Len(Deployed)
          /\ UNCHANGED <<obs, loop, cfg>>
      BY <2>1 DEF Deploy, Put
    <3>2. target.gen + 1 \in 1 .. Len(Deployed) /\ target.gen + 1 \in Nat
      BY <3>1, DeployedAssumption DEF Configured
    <3>3. Deployed[target.gen + 1] \in ToSet(Deployed)
      BY <3>2, DeployedAssumption DEF ToSet
    <3> QED BY <3>1, <3>2, <3>3 DEF Configured
  <2>2. CASE StopSummarizer
    BY <2>2 DEF StopSummarizer, Configured
  <2>3. CASE TakeConfig
    <3>1. /\ loop' = [at |-> "stopping", snap |-> obs[Watcher].snap] /\ UNCHANGED <<target, cfg>>
          /\ obs' = [obs EXCEPT ![Watcher].at = "watching", ![Watcher].gen = obs[Watcher].snap.gen]
      BY <2>3 DEF TakeConfig, Sent
    <3> QED BY <1>0, <3>1 DEF Configured
  <2>4. CASE LoopEnds
    <3>1. /\ loop' = [loop EXCEPT !.at = "returned"] \/ loop' = [loop EXCEPT !.at = "panicked"]
          /\ UNCHANGED <<target, obs, cfg>>
      BY <2>4 DEF LoopEnds
    <3> QED BY <3>1 DEF Configured
  <2>5. CASE (Tick(Watcher) \/ CloseChannel(Watcher)) /\ UNCHANGED sumVars
    BY <1>0, <2>5 DEF Tick, CloseChannel, Configured
  <2>6. CASE StopFixer /\ UNCHANGED snapVars
    <3>1. cfg' = UsedConfig(loop.snap.cfg) /\ loop' = [loop EXCEPT !.at = "fixing"] /\ loop.at = "stopping"
      BY <2>6 DEF StopFixer
    <3>2. Offers(UsedConfig(loop.snap.cfg))
      BY <3>1, UsedOffers DEF Configured
    <3> QED BY <2>6, <3>1, <3>2 DEF Configured
  <2>7. CASE UNCHANGED snapVars /\ UNCHANGED <<cfg, loop>>
    BY <2>7, StaysConfigured DEF Stays
  <2> QED BY <2>1, <2>2, <2>3, <2>4, <2>5, <2>6, <2>7
          DEF SendReturns, PubSub, ProcessNotice, Elapse, SendPick, TakeNotice
<1>3. Summaries'
  BY <1>1 DEF Summaries
<1> QED BY <1>1, <1>2, <1>3 DEF WorkerTypes, Exclusion

(* The behaviours that are not the summarizer's leave its workers idle. *)
CurrentOrIdle ==
    IF mode = "summarizer" THEN CurrentInv ELSE worker = [w \in Workers |-> Idle]

(* A complete update leaves a summary of exactly the dashboard's tabs,     *)
(* each but the failed ones of the tab state that was there when the       *)
(* update looked, or of a later one, whatever other workers, the tabulator *)
(* and new configurations do meanwhile: for every number of workers,       *)
(* dashboards, tabs and writes, provided that no two of the dashboards     *)
(* that are deployed have their summaries in one object.                   *)
THEOREM TabsAreCurrent == ASSUME Separate PROVE ServicesSpec => []TabsCurrent
<1>1. ServicesInit => CurrentOrIdle
  <2> SUFFICES ASSUME ServicesInit PROVE CurrentOrIdle
    OBVIOUS
  <2>1. CASE mode # "summarizer"
    BY <2>1 DEF ServicesInit, SumInit, CurrentOrIdle
  <2>2. CASE mode = "summarizer"
    <3> USE DEF ServicesInit, SumInit
    <3>1. /\ target = [gen |-> 1, cfg |-> Deployed[1]]
          /\ obs = [o \in Observers |-> IF o = Watcher THEN [at |-> "watching", gen |-> 1, snap |-> target]
                                        ELSE NotObserving]
      BY <2>2
    <3>2. Deployed[1] \in ToSet(Deployed) /\ Watcher \in Observers
      BY DeployedAssumption DEF ToSet
    <3>3. Offers(cfg)
      BY <3>2, UsedOffers
    <3>4. Configured
      BY <3>1, <3>2, <3>3 DEF Configured
    <3>5. WorkerTypes /\ \A w \in Workers : worker[w] = Idle /\ worker[w].at = "idle"
      BY IdleShape DEF WorkerTypes
    <3>6. Exclusion
      BY <3>5 DEF Exclusion, Working
    <3>7. tabstate \in [Paths -> Seq(Nat \ {0})]
      OBVIOUS
    <3>8. \A d \in DeployedNames : SummaryPath(d) \in DOMAIN summary => Recorded(d, summary[SummaryPath(d)], tabstate)
      BY DEF Recorded
    <3>9. \A w \in Workers : UpdateInv(worker[w], tabstate)
      BY <3>5, NoUpdate
    <3>10. summary = [p \in DOMAIN summary |-> summary[p]]
      OBVIOUS
    <3>11. Summaries
      BY <3>5, <3>7, <3>8, <3>9, <3>10 DEF Summaries
    <3> QED BY <2>2, <3>4, <3>5, <3>6, <3>11 DEF CurrentOrIdle, CurrentInv
  <2> QED BY <2>1, <2>2
<1>2. CurrentOrIdle /\ [ServicesNext]_serviceVars => CurrentOrIdle'
  <2> SUFFICES ASSUME CurrentOrIdle, [ServicesNext]_serviceVars PROVE CurrentOrIdle'
    OBVIOUS
  <2>1. CASE mode # "summarizer"
    BY <2>1 DEF CurrentOrIdle, ServicesNext, serviceVars, sumVars
  <2>2. CASE mode = "summarizer" /\ SumNext /\ UNCHANGED mode
    <3>1. CurrentInv
      BY <2>2 DEF CurrentOrIdle
    <3>2. ASSUME NEW w \in Workers, Work(w), UNCHANGED snapVars PROVE CurrentInv'
      BY <3>1, <3>2, TakingKeeps, StartKeeps, UpdateKeeps, WriteKeeps DEF Work
    <3>3. CurrentInv'
      BY <2>2, <3>1, <3>2, TabStateKeeps, FixSnapshotKeeps, OthersAreConfigured DEF SumNext
    <3> QED BY <2>2, <3>3 DEF CurrentOrIdle
  <2>3. CASE UNCHANGED serviceVars
    BY <2>3 DEF serviceVars, snapVars, sumVars, CurrentOrIdle, CurrentInv, WorkerTypes, Exclusion, Summaries, Configured
  <2> QED BY <2>1, <2>2, <2>3 DEF ServicesNext
<1>3. CurrentOrIdle => TabsCurrent
  <2> SUFFICES ASSUME CurrentOrIdle, NEW w \in Workers, worker[w].at = "written", ~worker[w].more, NEW u, u = worker[w],
                      NEW stored, stored = summary[SummaryPath(u.dash)]
               PROVE  /\ DOMAIN stored = TabNames(u)
                      /\ \A t \in TabNames(u) \ u.failed :
                           \/ stored[t].ver >= u.stat[t]
                           \/ /\ stored[t].ver > 0
                              /\ tabstate[TabStatePath(u.dash, t)][stored[t].ver]
                                   = tabstate[TabStatePath(u.dash, t)][u.stat[t]]
    BY DEF TabsCurrent, TabNames
  <2>1. mode = "summarizer"
    <3>1. worker[w] # Idle
      BY IdleShape
    <3> QED BY <3>1 DEF CurrentOrIdle
  <2>2. UpdateInv(u, tabstate) /\ stored = u.sum
    BY <2>1 DEF CurrentOrIdle, CurrentInv, Summaries
  <2>3. DOMAIN u.sum = TabNames(u) /\ u.todo = <<>>
        /\ \A n \in TabNames(u) \ u.failed : Requested(u, n) \/ CurrentTab(u, n, tabstate)
    BY <2>2 DEF UpdateInv
  <2>4. \A n : ~Requested(u, n)
    BY <2>3 DEF Requested
  <2> QED BY <2>2, <2>3, <2>4 DEF CurrentTab
<1> QED BY <1>1, <1>2, <1>3, PTL DEF ServicesSpec
=============================================================================
