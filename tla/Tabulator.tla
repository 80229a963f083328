----------------------------- MODULE Tabulator ------------------------------
(* The tabulator (pkg/tabulator/tabstate.go): readers download the grid of *)
(* a group that the queue sends and hand a copy to writers, which make the *)
(* state of a tab of it, grafted onto the state the tab already has, while *)
(* the updater goes on writing the grid.  The queue is left open (Queue):  *)
(* it sends the group again and again.  The group has one tab, so that     *)
(* tabLock, which keeps the tasks of a group together, is left out.  Grids *)
(* are their decoded columns, as GridHistory justifies.                    *)
EXTENDS TabGrid, TLC

CONSTANTS
    Readers, Writers,       \* ReadConcurrency and WriteConcurrency
    ExtendState,            \* the option
    Filters,                \* the base options that the tab is given in turn
    Results,                \* what a build may show in the row "a"
    MaxColumns,             \* bound: builds
    MaxTurns                \* bound: halvings of an oversized grid

VARIABLES
    grid, builds,           \* the group's grid and how many builds it was given
    cfg,                    \* index of the tab's base options
    reader, writer,         \* where each is, and the grid or the task it has
    tab,                    \* the tab state object
    stage                   \* how far Update has got with shutting down

vars == <<grid, builds>>
loop == <<cfg, reader, writer, tab, stage>>
allVars == <<vars, loop>>

NoGrid == <<>>
Idle == [at |-> "idle", grid |-> NoGrid]

Task(g, c) == [grid |-> g, cfg |-> c]

TabInit ==
    /\ grid = NoGrid /\ builds = 0 /\ cfg = 1
    /\ reader = [r \in Readers |-> Idle]
    /\ writer = [w \in Writers |-> [at |-> "idle", task |-> Task(NoGrid, 1), existing |-> NoGrid]]
    /\ tab = NoGrid /\ stage = "sending"

(* A build has a result in row "b", and in row "a" if res is one.          *)
NewColumn(res, k) ==
    LET Cell(r) == [emptyCell EXCEPT !.res = r]
    IN [col |-> [started |-> k],
        cells |-> ("b" :> Cell("PASS")) @@ (IF res = "NO_RESULT" THEN <<>> ELSE "a" :> Cell(res))]

(* The updater adds a build, or reads its newest one again if that was     *)
(* running, and shrinks the grid if it is too large.                       *)
UpdateGrid ==
    /\ stage = "sending"
    /\ \E res \in Results :
         \/ /\ builds < MaxColumns
            /\ builds' = builds + 1
            /\ \E turns \in 0 .. MaxTurns :
                 grid' = shrinkGridInline(<<NewColumn(res, builds + 1)>> \o grid, turns)
         \/ /\ grid # NoGrid /\ "a" \in DOMAIN grid[1].cells /\ grid[1].cells["a"].res = "RUNNING"
            /\ grid' = [grid EXCEPT ![1] = NewColumn(res, builds)]
            /\ UNCHANGED builds
    /\ UNCHANGED loop

(* fixSnapshot: tasks are mapped anew; those under way keep what they have.*)
fixSnapshot == /\ stage = "sending" /\ cfg < Len(Filters)
               /\ cfg' = cfg + 1
               /\ UNCHANGED <<vars, reader, writer, tab, stage>>

(* A reader gets the group from the queue and downloads its grid.  If that *)
(* fails, the group is fixed to be sent again, and nothing else changes.   *)
Read(r) == /\ stage = "sending" /\ reader[r].at = "idle"
           /\ reader' = [reader EXCEPT ![r] = [at |-> "sending", grid |-> grid]]
           /\ UNCHANGED <<vars, cfg, writer, tab, stage>>

(* The task goes to a writer that is ready for one, or is skipped because  *)
(* the context is done.                                                    *)
SendTask(r) ==
    /\ reader[r].at = "sending"
    /\ \/ /\ stage # "sending" /\ UNCHANGED writer
       \/ \E w \in Writers :
            /\ writer[w].at = "idle"
            /\ writer' = [writer EXCEPT ![w] = [at |-> IF ExtendState THEN "extending" ELSE "uploading",
                                                task |-> Task(reader[r].grid, cfg), existing |-> NoGrid]]
    /\ reader' = [reader EXCEPT ![r] = Idle]
    /\ UNCHANGED <<vars, cfg, tab, stage>>

WriterGoes(w, at, existing) ==
    writer' = [writer EXCEPT ![w].at = at, ![w].existing = existing,
                             ![w].task = IF at = "idle" THEN Task(NoGrid, 1) ELSE @]

(* createTabState: downloads the state to extend, and uploads the new one. *)
DownloadExisting(w) == /\ writer[w].at = "extending"
                       /\ WriterGoes(w, "uploading", tab)
                       /\ UNCHANGED <<vars, cfg, reader, tab, stage>>

Upload(w) == /\ writer[w].at = "uploading"
             /\ tab' = tabColumns(writer[w].task.grid, Filters[writer[w].task.cfg], writer[w].existing)
             /\ WriterGoes(w, "idle", NoGrid)
             /\ UNCHANGED <<vars, cfg, reader, stage>>

WriteFails(w) == /\ writer[w].at \in {"extending", "uploading"}
                 /\ WriterGoes(w, "idle", NoGrid)
                 /\ UNCHANGED <<vars, cfg, reader, tab, stage>>

StopsAt(s, t, condition) == /\ stage = s /\ condition
                            /\ stage' = t
                            /\ UNCHANGED <<vars, cfg, reader, writer, tab>>

AllIdle == (\A r \in Readers : reader[r].at = "idle") /\ \A w \in Writers : writer[w].at = "idle"

(* The context is done and Send returns; close(groups).                    *)
Cancel == StopsAt("sending", "reading", TRUE)

(* A variant with a bug: the deferred calls are in another order.          *)
CloseTasksAtOnce == StopsAt("reading", "writing", TRUE)

(* readWg.Wait, then close(tasks).                                         *)
CloseTasks == StopsAt("reading", "writing", \A r \in Readers : reader[r].at = "idle")

(* writeWg.Wait.                                                           *)
Return == StopsAt("writing", "returned", AllIdle)

Steps == \/ \E r \in Readers : SendTask(r)
         \/ \E w \in Writers : DownloadExisting(w) \/ Upload(w)
         \/ CloseTasks \/ Return

TabNext == \/ UpdateGrid \/ fixSnapshot \/ Cancel \/ Steps
           \/ \E r \in Readers : Read(r)
           \/ \E w \in Writers : WriteFails(w)

TabSpec == TabInit /\ [][TabNext]_allVars
-----------------------------------------------------------------------------
(* The columns of a grid in which the tab, with base options base, has a   *)
(* result.                                                                 *)
TabCells(g, i, base) == filterGrid(g[i].cells, base)
Shown(g, base) == { i \in DOMAIN g : HasResult([cells |-> TabCells(g, i, base)]) }

(* No reader sends on the channel of tasks after it was closed (the order  *)
(* of Update's deferred calls), and then no task is left behind when       *)
(* Update returns.                                                         *)
NoSendAfterClose ==
    /\ stage \in {"writing", "returned"} => \A r \in Readers : reader[r].at = "idle"
    /\ stage = "returned" => \A w \in Writers : writer[w].at = "idle"

(* However tasks overtake each other, the columns of a tab are in order of *)
(* time and no build is there twice (mergeGrids at its seam).              *)
TabOrdered == \A i, j \in DOMAIN tab : i < j => tab[i].col.started > tab[j].col.started

Uploads(w) == tab' # tab /\ writer[w].at = "uploading" /\ writer'[w].at = "idle"

WriteKeeps(w) ==
    LET t == writer[w].task
        base == Filters[t.cfg]
        Newest(g) == IF g = NoGrid THEN 0 ELSE g[1].col.started
        kept == { tab'[i].col : i \in DOMAIN tab' }
        emptied == { t.grid[i].col : i \in DOMAIN t.grid \ Shown(t.grid, base) }
    IN (writer[w].existing = tab /\ Newest(t.grid) >= Newest(tab)) =>
         \A i \in Shown(tab, base) : tab[i].col \in kept \cup emptied

(* A write that extends the state which is there, from a grid that is no   *)
(* older, loses no column of the tab, also when the updater has dropped it *)
(* from the grid (createTabState with ExtendState).                        *)
TabKeeps == [][\A w \in Writers : Uploads(w) => WriteKeeps(w)]_allVars

Current(shown) ==
    LET base == Filters[cfg]
    IN \A i \in Shown(grid, base) :
         (\E k \in Shown(grid, base) : k > i) =>
           \E j \in DOMAIN shown : /\ shown[j].col = grid[i].col
                                   /\ TabCells(shown, j, base) = TabCells(grid, i, base)

(* A task made of the grid and the configuration of the moment brings the  *)
(* tab up to date, whatever state it extends: every column in which the    *)
(* tab has a result shows the latest ones, but for the oldest, for which   *)
(* the tab keeps what it has (tabulate).                                   *)
Refreshes == [][\A w \in Writers : Uploads(w) /\ writer[w].task = Task(grid, cfg)
                                      => Current(tab')]_allVars
=============================================================================
