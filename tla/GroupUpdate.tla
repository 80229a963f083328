---------------------------- MODULE GroupUpdate -----------------------------
(***************************************************************************)
(* One test group and the updaters that keep its grid object up to date:   *)
(* InflateDropAppend of pkg/updater/updater.go with the column reader of   *)
(* pkg/updater/read.go.  A cycle downloads the grid, drops the columns     *)
(* that have to be read again, lists the builds after the newest hint that *)
(* is left, reads them oldest first and uploads the merged result if the   *)
(* object is still at the generation that was downloaded.                  *)
(*                                                                         *)
(* Builds are numbered in the natural order of their ids, which is the     *)
(* order of hints.  A column keeps, for each build merged into it, which   *)
(* result was seen and under which configuration.  Column.Started is in    *)
(* hundredths of a tick (Milli per tick), so that the 0.01 steps between   *)
(* failed columns can be told apart.                                       *)
(*                                                                         *)
(* Only the comparison of generations matters: instead of a number, each   *)
(* updater has a flag that is cleared when somebody else writes.           *)
(***************************************************************************)
EXTENDS Selection, FiniteSets, FiniteSetsExt

CONSTANTS
    Updaters,
    NumBuilds,  \* builds are 1 .. NumBuilds
    Override,   \* BuildOverrideConfigurationValue is set
    Key,        \* then: the column a finished build belongs to
    Reprocess,  \* the 20 minutes within which columns are read again
    Window,     \* DaysOfResults
    Lookback,   \* the 7 days read again after a configuration change
    Deadline,   \* the 24 hours after which a build no longer counts as running
    Ceiling,    \* byteCeiling, in columns (0: no ceiling for shrinkGridInline)
    Faults,     \* which of the events below happen, see FaultKinds
    MaxTime,    \* bound: the clock
    MaxConfig,  \* bound: configuration changes
    MaxFailures \* bound: downloads that fail and cycles that are aborted

FaultKinds == {
    "pending",  \* a build's directory appears before its started.json
    "tie",      \* two builds start in the same second
    "error",    \* a build cannot be read
    "slow",     \* the grace period ends before all builds are read
    "nolock" }  \* the grid object does not exist at the start

Builds == 1 .. NumBuilds

ASSUME BuildsAssumption == /\ NumBuilds \in Nat /\ Override \in BOOLEAN
                            /\ Key \in [Builds -> Nat \ (0 .. NumBuilds)]
ASSUME BoundsAssumption ==
    /\ {Reprocess, Window, Lookback, Deadline, Ceiling, MaxTime, MaxConfig,
        MaxFailures} \subseteq Nat
    /\ Faults \subseteq FaultKinds

VARIABLES
    build,      \* how far each build has got
    st,         \* when it started, by its started.json
    exists,     \* the grid object exists
    grid,       \* its columns (newest first), configuration and size
    up,         \* the updaters' local state
    cfg,        \* the group's configuration
    now,
    lost,       \* history: a write replaced a version its writer never saw
    failures,   \* downloads that failed and cycles that were aborted
    fumbled     \* history: builds that got a column with a made-up start

vars == <<build, st, exists, grid, up, cfg, now, lost, failures, fumbled>>

Milli == 10
RunningResults == {"running", "nostart"}
----------------------------------------------------------------------------
(* Columns *)
IsRunning(col) == \E c \in col.cells : c.res \in RunningResults
When(col) == col.start \div Milli

(* SortStarted: stable, newest start first. *)
InsertStarted(cols, col) ==
    LET at == Min({Len(cols) + 1} \cup { i \in DOMAIN cols : cols[i].start < col.start })
    IN SubSeq(cols, 1, at - 1) \o <<col>> \o SubSeq(cols, at, Len(cols))
Sorting == INSTANCE Fold WITH Step <- InsertStarted
SortStarted(cols) == Sorting!Fold(<<>>, cols)

(* InflateGrid drops columns that are too recent, and too old ones after   *)
(* the first that is kept.                                                 *)
Inflate(cols, earliest, latest) ==
    LET fit == { i \in DOMAIN cols : When(cols[i]) <= latest }
    IN Select(cols, { i \in fit : When(cols[i]) >= earliest \/ \A j \in fit : i <= j })

(* Variants with a bug: the newest running column is looked for; a column  *)
(* that starts at the floor is not considered.                             *)
truncateRunningNewest(cols, floor) ==
    LET running == { i \in DOMAIN cols : cols[i].start >= floor /\ IsRunning(cols[i]) }
    IN IF running = {} THEN cols ELSE SubSeq(cols, Min(running) + 1, Len(cols))
truncateRunningAbove(cols, floor) ==
    LET running == { i \in DOMAIN cols : cols[i].start > floor /\ IsRunning(cols[i]) }
    IN IF running = {} THEN cols ELSE SubSeq(cols, Max(running) + 1, Len(cols))

(* truncateRunning keeps what comes after the oldest running column.       *)
truncateRunning(cols, floor) ==
    LET running == { i \in DOMAIN cols : cols[i].start >= floor /\ IsRunning(cols[i]) }
    IN IF running = {} THEN cols ELSE SubSeq(cols, Max(running) + 1, Len(cols))

(* reprocessColumn: a running column as old as the results to read again.  *)
reprocessColumn(when) ==
    [key |-> 0, start |-> when * Milli, hint |-> 0,
     cells |-> {[b |-> 0, res |-> "running", cfg |-> 0]}]

(* A variant with a bug: a changed configuration is not noticed. *)
OldColumnsUnchanged(g, c, t) ==
    truncateRunning(SortStarted(Inflate(g.cols, t - Window, t - Reprocess)), 0 - MaxTime * Milli)

(* What a cycle of configuration c keeps of grid g at time t. *)
OldColumns(g, c, t) ==
    LET cols == Inflate(g.cols, t - Window, t - Reprocess)
        changed == g.cfg # 0 /\ g.cfg # c
        when == t - Lookback
    IN IF changed
         THEN truncateRunning(SortStarted(Append(cols, reprocessColumn(when))), when * Milli)
         ELSE truncateRunning(SortStarted(cols), 0 - MaxTime * Milli)

(* A variant with a bug: the newest build is listed again. *)
SinceInclusive(cols) == Max({0} \cup { cols[i].hint - 1 : i \in DOMAIN cols })

(* hintStarted: the newest build among the columns. *)
Since(cols) == Max({0} \cup { cols[i].hint : i \in DOMAIN cols })

(* groupColumns merges columns with the same key into the first of them.   *)
Merge(a, b) == [key |-> a.key, start |-> Min({a.start, b.start}),
                hint |-> Max({a.hint, b.hint}), cells |-> a.cells \cup b.cells]
Group(out, col) ==
    LET same == { i \in DOMAIN out : out[i].key = col.key }
    IN IF same = {} THEN Append(out, col) ELSE [out EXCEPT ![Max(same)] = Merge(@, col)]
Grouping == INSTANCE Fold WITH Step <- Group
groupColumns(cols) == Grouping!Fold(<<>>, cols)

(* truncateGrid cuts the columns after which there are too many cells, but *)
(* keeps two.                                                              *)
AddCells(count, col) == count + Cardinality(col.cells)
Counting == INSTANCE Fold WITH Step <- AddCells
CellCount(cols) == Counting!Fold(0, cols)
truncateGrid(cols) ==
    LET over == { i \in 3 .. Len(cols) : CellCount(SubSeq(cols, 1, i)) > Ceiling }
    IN IF over = {} THEN cols ELSE SubSeq(cols, 1, Min(over) - 1)

(* The first n columns, the cells of the last of them marked as unknown by *)
(* truncateLastColumn, or replaced by one such cell in deletedColumn.      *)
Truncated(cols, n) ==
    [SubSeq(cols, 1, n) EXCEPT ![n].cells = {[c EXCEPT !.res = "unknown"] : c \in @}]

(* shrinkGridInline halves the columns until they are below half of the    *)
(* ceiling; at each turn it may time out and return what it has.           *)
shrinkGridInline(cols) ==
    LET n == Len(cols)
        halves == { i \in 1 .. n : \E k \in 1 .. n :
                      i = n \div 2^k /\ (k > 1 => n \div 2^(k - 1) >= Ceiling \div 2) }
    IN IF Ceiling = 0 \/ n < Ceiling THEN {cols}
       ELSE IF n = 1 THEN {Truncated(cols, 1)}
       ELSE {cols} \cup { Truncated(cols, i) : i \in halves }
----------------------------------------------------------------------------
(* Reading one build *)

(* The overall result of a build that has started. *)
overallCell(b) == IF build[b] = "finished" THEN "done"
                  ELSE IF now > st[b] + Deadline THEN "timeout" ELSE "running"

(* What is to be read of build b, at this moment. *)
readResult(b, stop) == IF build[b] = "pending" THEN "nostart"
                       ELSE IF st[b] < stop THEN "ancient" ELSE overallCell(b)

Failed == {"nostart", "ancient", "error"}

CellsOf(b, res, c) == {[b |-> b, res |-> res, cfg |-> c]}

(* A good column.  Only the metadata of a finished build has the value     *)
(* that overrides its id; the others all get the empty one.                *)
convertResult(b, res, c) ==
    [key |-> IF ~Override THEN b ELSE IF res = "done" THEN Key[b] ELSE 0,
     start |-> st[b] * Milli, hint |-> b, cells |-> CellsOf(b, res, c)]

(* The columns of ancient, pending and unreadable builds. *)
failedColumn(b, res, when, c) ==
    [key |-> b, start |-> when, hint |-> b, cells |-> CellsOf(b, res, c)]

(* A failed column starts right after the last good one of this cycle.     *)
Column(b, res, u) ==
    IF res \in Failed THEN failedColumn(b, res, up[u].last + up[u].fails + 1, up[u].cfg)
                      ELSE convertResult(b, res, up[u].cfg)
----------------------------------------------------------------------------
(* One cycle of InflateDropAppend *)
Idle == [phase |-> "idle", cond |-> "none", fresh |-> FALSE, old |-> <<>>, new |-> <<>>,
         todo |-> {}, last |-> 0, fails |-> 0, stop |-> 0, cfg |-> 0]

Begun(u, phase, cond, old) ==
    up' = [up EXCEPT ![u] = [Idle EXCEPT !.phase = phase, !.cond = cond, !.fresh = TRUE,
                               !.old = old, !.stop = now - Window, !.cfg = cfg]]

(* DownloadGrid and InflateGrid.  A grid that is too large is only         *)
(* compressed, through the client without conditions.                      *)
Download(u) ==
    /\ up[u].phase = "idle"
    /\ IF ~exists THEN Begun(u, "list", "absent", <<>>)
       ELSE IF Len(grid.cols) >= Ceiling
         THEN Begun(u, "write", "none", OldColumns(grid, cfg, now))
         ELSE Begun(u, "list", "match", OldColumns(grid, cfg, now))
    /\ UNCHANGED <<build, st, exists, grid, cfg, now, lost, failures, fumbled>>

Fails == failures < MaxFailures /\ failures' = failures + 1

(* A download that fails is logged; the cycle goes on as if the object did *)
(* not exist and asks the upload to insist on that.                        *)
DownloadFails(u) ==
    /\ Fails /\ up[u].phase = "idle"
    /\ Begun(u, "list", "absent", <<>>)
    /\ UNCHANGED <<build, st, exists, grid, cfg, now, lost, fumbled>>

Listed(u) == { b \in Builds : build[b] # "absent" /\ b > Since(up[u].old) }

listBuilds(u) ==
    /\ up[u].phase = "list"
    /\ up' = [up EXCEPT ![u].phase = "read", ![u].todo = Listed(u)]
    /\ UNCHANGED <<build, st, exists, grid, cfg, now, lost, failures, fumbled>>

(* The next column is received, after counting failures since a good one.  *)
receive(u, col, failed) ==
    up' = [up EXCEPT ![u].todo = @ \ {Min(@)}, ![u].new = Append(@, col),
                     ![u].fails = IF failed THEN @ + 1 ELSE 0,
                     ![u].last = IF failed THEN @ ELSE col.start]

readColumn(u) ==
    /\ up[u].phase = "read" /\ up[u].todo # {}
    /\ \E b \in {Min(up[u].todo)} :
         \E res \in {readResult(b, up[u].stop)} \cup (Faults \cap {"error"}) :
           /\ receive(u, Column(b, res, u), res \in Failed)
           /\ fumbled' = IF res \in {"nostart", "error"} THEN fumbled \cup {b} ELSE fumbled
    /\ UNCHANGED <<build, st, exists, grid, cfg, now, lost, failures>>

(* The reader is done, or the grace period ends after the first column.    *)
endRead(u) ==
    /\ up[u].phase = "read"
    /\ \/ up[u].todo = {}
       \/ "slow" \in Faults /\ up[u].new # <<>>
    /\ up' = [up EXCEPT ![u].phase = "write", ![u].todo = {}]
    /\ UNCHANGED <<build, st, exists, grid, cfg, now, lost, failures, fumbled>>

Columns(u) ==
    SortStarted(IF up[u].cond = "none" THEN up[u].old
                ELSE groupColumns(up[u].new \o up[u].old))

(* A variant with a bug: GenerationMatch is not set. *)
PreconditionNoMatch(u) == up[u].cond = "absent" => ~exists

(* The server's check of the conditions that If attached to the client.    *)
PreconditionHolds(u) == /\ up[u].cond = "match" => up[u].fresh
                        /\ up[u].cond = "absent" => ~exists

(* Somebody wrote the object: no other updater has its generation.         *)
Overwritten(u) == [v \in Updaters |-> IF v = u THEN Idle
                                               ELSE [up[v] EXCEPT !.fresh = FALSE]]

Upload(u) ==
    /\ up[u].phase = "write"
    /\ IF PreconditionHolds(u)
         THEN /\ \E cols \in shrinkGridInline(truncateGrid(Columns(u))) :
                   grid' = [cols |-> cols, cfg |-> up[u].cfg]
              /\ exists' = TRUE
              /\ up' = Overwritten(u)
              /\ lost' = (lost \/ ~up[u].fresh)
         ELSE /\ up' = [up EXCEPT ![u] = Idle]
              /\ UNCHANGED <<exists, grid, lost>>
    /\ UNCHANGED <<build, st, cfg, now, failures, fumbled>>

(* The context ends, or listing the builds fails. *)
Abort(u) ==
    /\ Fails /\ up[u].phase # "idle"
    /\ up' = [up EXCEPT ![u] = Idle]
    /\ UNCHANGED <<build, st, exists, grid, cfg, now, lost, fumbled>>

(* fixOnce: lockGroup creates an empty grid for a group that has none.     *)
lockGroup(u) ==
    /\ ~exists
    /\ exists' = TRUE
    /\ grid' = [cols |-> <<>>, cfg |-> 0]
    /\ up' = [v \in Updaters |-> [up[v] EXCEPT !.fresh = FALSE]]
    /\ UNCHANGED <<build, st, cfg, now, lost, failures, fumbled>>
----------------------------------------------------------------------------
(* The jobs, which upload to the bucket that the updaters read. *)
Fresh == \A b \in Builds : build[b] \in {"running", "finished"} => st[b] < now

CreateBuild(b) ==
    /\ build[b] = "absent" /\ \A a \in 1 .. (b - 1) : build[a] # "absent"
    /\ "pending" \in Faults
    /\ build' = [build EXCEPT ![b] = "pending"]
    /\ UNCHANGED <<st, exists, grid, up, cfg, now, lost, failures, fumbled>>

StartBuild(b) ==
    /\ \/ build[b] = "pending"
       \/ build[b] = "absent" /\ \A a \in 1 .. (b - 1) : build[a] # "absent"
    /\ "tie" \in Faults \/ Fresh
    /\ build' = [build EXCEPT ![b] = "running"]
    /\ st' = [st EXCEPT ![b] = now]
    /\ UNCHANGED <<exists, grid, up, cfg, now, lost, failures, fumbled>>

FinishBuild(b) ==
    /\ build[b] = "running"
    /\ build' = [build EXCEPT ![b] = "finished"]
    /\ UNCHANGED <<st, exists, grid, up, cfg, now, lost, failures, fumbled>>

ChangeConfig ==
    /\ cfg < MaxConfig
    /\ cfg' = cfg + 1
    /\ UNCHANGED <<build, st, exists, grid, up, now, lost, failures, fumbled>>

Tick == /\ now < MaxTime
        /\ now' = now + 1
        /\ UNCHANGED <<build, st, exists, grid, up, cfg, lost, failures, fumbled>>
----------------------------------------------------------------------------
GroupInit ==
    /\ build = [b \in Builds |-> "absent"] /\ st = [b \in Builds |-> 0]
    /\ exists = ("nolock" \notin Faults) /\ grid = [cols |-> <<>>, cfg |-> 0]
    /\ up = [u \in Updaters |-> Idle]
    /\ cfg = 1 /\ now = Window + 1 /\ lost = FALSE /\ failures = 0
    /\ fumbled = {}

Cycle(u) == \/ Download(u) \/ DownloadFails(u) \/ listBuilds(u) \/ readColumn(u)
            \/ endRead(u) \/ Upload(u) \/ Abort(u) \/ lockGroup(u)

Job(b) == CreateBuild(b) \/ StartBuild(b) \/ FinishBuild(b)

Next == \/ \E u \in Updaters : Cycle(u)
        \/ \E b \in Builds : Job(b)
        \/ ChangeConfig \/ Tick

Spec == GroupInit /\ [][Next]_vars

(* Fairness: the queue comes back to the group and the steps of each cycle *)
(* are taken.  Downloads, listings and contexts fail finitely often.       *)
FairSpec ==
    /\ Spec
    /\ \A u \in Updaters :
         WF_vars(Download(u) \/ listBuilds(u) \/ readColumn(u) \/ endRead(u) \/ Upload(u))
----------------------------------------------------------------------------
Cells == UNION { grid.cols[i].cells : i \in DOMAIN grid.cols }
Settled(b) == \E c \in Cells : c.b = b /\ c.res \notin RunningResults
TooOld(b) == build[b] # "pending" /\ st[b] < now - Window
WillBeRead(b) == b > Since(OldColumns(grid, cfg, now))

(* The grid's columns are well formed. *)
TypeOK ==
    /\ build \in [Builds -> {"absent", "pending", "running", "finished"}]
    /\ exists \in BOOLEAN /\ lost \in BOOLEAN /\ fumbled \subseteq Builds
    /\ \A i \in DOMAIN grid.cols :
         /\ grid.cols[i].start \in Nat /\ grid.cols[i].hint \in Builds
         /\ \A c \in grid.cols[i].cells : c.b \in Builds
    /\ \A u \in Updaters : up[u].phase \in {"idle", "list", "read", "write"}

(* No hole: a build whose result is not in the grid, or is in it only as   *)
(* still running, is listed again by the next cycle, so that its result    *)
(* gets in before it is too old to show.  Dropping goes by start time and  *)
(* resuming by hint; this says that the two agree unless a newer build     *)
(* started no later, or the build or a newer one was given a made-up start.*)
Overtaken(b) ==
    \E c \in (b + 1) .. NumBuilds : build[c] \in {"running", "finished"} /\ st[c] <= st[b]
NoHoles == \A b \in Builds :
    \/ build[b] = "absent" \/ TooOld(b) \/ Settled(b) \/ WillBeRead(b)
    \/ Overtaken(b) \/ \E c \in fumbled : c >= b

(* No build is counted twice: whatever a cycle drops and reads again, and  *)
(* however columns are merged, each build has one set of cells.            *)
NoDuplicates == \A i, j \in DOMAIN grid.cols :
    \A c \in grid.cols[i].cells, d \in grid.cols[j].cells :
        c.b = d.b => i = j /\ c = d

(* The only writer that can replace a version he has not read is one that  *)
(* compresses a grid which is too large: every other write is conditional  *)
(* on the generation that was downloaded, or on there being none.          *)
OverwriteOnlyCompressing ==
    [][lost' # lost => \E u \in Updaters : up[u].phase = "write" /\ up[u].cond = "none"]_vars

(* After a configuration change, no result younger than the lookback is    *)
(* left from the old configuration once the grid claims the new one.       *)
ConfigApplied == \A i \in DOMAIN grid.cols :
    When(grid.cols[i]) >= now - Lookback => \A c \in grid.cols[i].cells : c.cfg = grid.cfg

(* The result of a build that finishes before its deadline eventually      *)
(* shows, or becomes too old to: however often cycles fail, drop it or     *)
(* read it while it still runs.                                            *)
FinishedIsShown == \A b \in Builds :
    build[b] = "finished" /\ now <= st[b] + Deadline
        ~> (\E c \in Cells : c.b = b /\ c.res = "done") \/ TooOld(b)
=============================================================================
