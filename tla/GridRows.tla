------------------------------ MODULE GridRows ------------------------------
(* The rows of a grid: how columns of cells are encoded into rows when a   *)
(* grid is written and decoded when it is read (pkg/updater), and the      *)
(* alert of each row.                                                      *)
(*                                                                         *)
(* A cell is [res, id, cellId, msg, metrics, issues]; id "" stands for     *)
(* none, a message is [text, long] and metrics is a function of the names  *)
(* that the cell measures.  Icons, properties and user properties are kept *)
(* like messages.  A column is [col, cells] with the header col = [build,  *)
(* started, hint, extra, stats] and cells a function of row names.  A      *)
(* row's results are a sequence of runs [res, n] and a metric's indices    *)
(* one of [start, len].  Rows are a function of their names: ConstructGrid *)
(* sorts them by name.                                                     *)
EXTENDS Results, FiniteSets, FiniteSetsExt, Functions

CONSTANTS
    MethodRows,             \* row names that contain @TESTGRID@
    NoColumn                \* a column pointer that is nil

NoMessage == [text |-> "", long |-> FALSE]

emptyCell == [res |-> "NO_RESULT", id |-> "", cellId |-> "", msg |-> NoMessage,
              metrics |-> <<>>, issues |-> {}]

hasCellID(name) == name \notin MethodRows

(* A message of more than 140 bytes keeps its start and its end; cutting   *)
(* the result again does not change it.                                    *)
truncate(msg) == [msg EXCEPT !.long = FALSE]

(* A variant with a bug: a hole does not start a new group of values.      *)
appendMetricDense(metric, idx, value) ==
    [indices |-> IF metric.indices = <<>> THEN <<[start |-> idx, len |-> 1]>>
                 ELSE [metric.indices EXCEPT ![Len(metric.indices)].len = @ + 1],
     values |-> Append(metric.values, value)]

(* appendMetric extends the last group of values if it ends before idx.    *)
appendMetric(metric, idx, value) ==
    LET l == Len(metric.indices)
    IN [indices |-> IF l = 0 \/ metric.indices[l].start + metric.indices[l].len # idx
                      THEN Append(metric.indices, [start |-> idx, len |-> 1])
                      ELSE [metric.indices EXCEPT ![l].len = @ + 1],
        values |-> Append(metric.values, value)]

(* The values of several columns, one after the other.                     *)
AddValue(metric, v) == appendMetric(metric, v.idx, v.value)
Measuring == INSTANCE Fold WITH Step <- AddValue

appendResult(results, res, count) ==
    LET n == Len(results)
    IN IF n = 0 \/ results[n].res # res THEN Append(results, [res |-> res, n |-> count])
       ELSE [results EXCEPT ![n].n = @ + count]

NoMetric == [indices |-> <<>>, values |-> <<>>]

(* appendCell adds the same cell for count columns from start (from 0).    *)
(* Columns without a result have no entry in the lists of filled cells.    *)
appendCell(name, row, cell, start, count) ==
    LET measured == DOMAIN row.metrics \cup DOMAIN cell.metrics
        Measure(m) == LET old == IF m \in DOMAIN row.metrics THEN row.metrics[m] ELSE NoMetric
                      IN IF m \notin DOMAIN cell.metrics THEN old
                         ELSE Measuring!Fold(old, [i \in 1 .. count |->
                                                     [idx |-> start + i - 1, value |-> cell.metrics[m]]])
        Filled(list, value) == IF cell.res = "NO_RESULT" THEN list
                               ELSE list \o [i \in 1 .. count |-> value]
    IN [id       |-> row.id,
        results  |-> appendResult(row.results, cell.res, count),
        metrics  |-> [m \in measured |-> Measure(m)],
        cellIds  |-> IF hasCellID(name) THEN Filled(row.cellIds, cell.cellId) ELSE row.cellIds,
        messages |-> Filled(row.messages, truncate(cell.msg)),
        issues   |-> row.issues \cup cell.issues,
        alert    |-> row.alert]

NoAlert == [failCount |-> 0]

newRow(name, cell, colIdx) ==
    LET row == [id |-> IF cell.id = "" THEN name ELSE cell.id, results |-> <<>>,
                metrics |-> <<>>, cellIds |-> <<>>, messages |-> <<>>,
                issues |-> {}, alert |-> NoAlert]
    IN IF colIdx > 0 THEN appendCell(name, row, emptyCell, 0, colIdx) ELSE row

(* AppendColumn: new rows are padded before, absent ones at this column.   *)
AppendColumn(grid, inflated) ==
    LET colIdx == Len(grid.columns)
        names == DOMAIN grid.rows \cup DOMAIN inflated.cells
        Old(name) == IF name \in DOMAIN grid.rows THEN grid.rows[name]
                     ELSE newRow(name, inflated.cells[name], colIdx)
        Cell(name) == IF name \in DOMAIN inflated.cells THEN inflated.cells[name] ELSE emptyCell
    IN [columns |-> Append(grid.columns, inflated.col),
        rows |-> [name \in names |-> appendCell(name, Old(name), Cell(name), colIdx, 1)]]

Appending == INSTANCE Fold WITH Step <- AppendColumn

Without(grid, names) == [grid EXCEPT !.rows = Restrict(@, DOMAIN @ \ names)]

dropEmptyRows(grid) ==
    Without(grid, { n \in DOMAIN grid.rows :
                      \A i \in DOMAIN grid.rows[n].results :
                        grid.rows[n].results[i].res = "NO_RESULT" })

NoStats == [totalCount |-> 0]

(* columnStats: threshold is in percent.                                   *)
columnStats(cells, threshold) ==
    LET Count(S) == Cardinality({ n \in DOMAIN cells : Coalesce(cells[n].res, FALSE) \in S })
        total == Count({"PASS", "FAIL", "FLAKY", "UNKNOWN"})
    IN IF threshold = 0 THEN NoStats
       ELSE [failCount |-> Count({"FAIL"}), passCount |-> Count({"PASS"}), totalCount |-> total,
             pending |-> \E n \in DOMAIN cells : cells[n].res = "RUNNING",
             broken |-> total # 0 /\ 100 * Count({"FAIL"}) > threshold * total]

(* The state of alertRow's loop: indexes of columns, 0 where the code has  *)
(* nil; at counts the filled cells, counted from 0, as the row's lists do. *)
AlertStart == [open |-> 0, total |-> 0, passes |-> 0, at |-> 0, firstFail |-> 0,
               latestFail |-> 0, latestPass |-> 0, failAt |-> 0, latestFailAt |-> 0,
               extra |-> <<>>, end |-> "no"]

(* A variant with a bug: a running cell is not counted as a filled one.    *)
SkipCellUncounted(s, raw) == s

(* Cells without a result are skipped; running ones have a message.        *)
SkipCell(s, raw) == IF raw = "RUNNING" THEN [s EXCEPT !.at = @ + 1] ELSE s

(* A pass: enough of them end the search, with or without an outage.       *)
PassCell(s, i, failuresToOpen, passesToClose) ==
    LET p == s.passes + 1
        t == [s EXCEPT !.passes = p]
    IN IF s.open >= failuresToOpen
         THEN [t EXCEPT !.latestPass = IF @ = 0 THEN i ELSE @,
                        !.end = IF p >= passesToClose THEN "break" ELSE "no"]
         ELSE IF p >= passesToClose THEN [t EXCEPT !.end = "nil"]
         ELSE [t EXCEPT !.open = 0]

FailCell(s, i) ==
    [s EXCEPT !.passes = 0, !.latestPass = 0, !.open = @ + 1, !.total = @ + 1,
              !.latestFail = IF s.total = 0 THEN i ELSE @,
              !.latestFailAt = IF s.total = 0 THEN s.at ELSE @,
              !.failAt = s.at, !.firstFail = i]

(* A flaky cell: it cannot be said which commit is at fault.               *)
FlakyCell(s, failuresToOpen) ==
    IF s.open >= failuresToOpen THEN [s EXCEPT !.passes = 0, !.end = "break"]
    ELSE [s EXCEPT !.passes = 0, !.open = 0]

(* A turn, for the cell [i, raw, extra, open, close] of the column i, where *)
(* open failures and close passes are asked for.                           *)
AlertStep(s, cell) ==
    LET res == Coalesce(cell.raw, TRUE)
        t == CASE res = "PASS" -> PassCell(s, cell.i, cell.open, cell.close)
               [] res = "FAIL" -> FailCell(s, cell.i)
               [] res = "FLAKY" -> FlakyCell(s, cell.open)
               [] OTHER -> s
    IN IF s.end # "no" THEN s
       ELSE IF res = "NO_RESULT" THEN SkipCell(s, cell.raw)
       ELSE IF t.end # "no" THEN t
       ELSE [t EXCEPT !.at = @ + 1, !.extra = cell.extra]
Alerts == INSTANCE Fold WITH Step <- AlertStep

buildID(columns, i, useCommitAsBuildID) ==
    IF i = 0 THEN NoColumn
    ELSE IF useCommitAsBuildID /\ columns[i].extra # <<>> THEN columns[i].extra[1]
    ELSE columns[i].build

stamp(columns, i) == IF i = 0 THEN 0 ELSE columns[i].started

alertInfo(columns, row, s, useCommitAsBuildID) ==
    [failCount |-> s.total,
     failBuildId |-> buildID(columns, s.firstFail, useCommitAsBuildID),
     latestFailBuildId |-> buildID(columns, s.latestFail, useCommitAsBuildID),
     passBuildId |-> buildID(columns, s.latestPass, useCommitAsBuildID),
     failTime |-> stamp(columns, s.firstFail), passTime |-> stamp(columns, s.latestPass),
     failTestId |-> IF row.cellIds = <<>> THEN "" ELSE row.cellIds[s.failAt + 1],
     latestFailTestId |-> IF row.cellIds = <<>> THEN "" ELSE row.cellIds[s.latestFailAt + 1],
     message |-> row.messages[s.latestFailAt + 1],
     customColumnHeaders |-> s.extra]

(* alertRow: an alert if there have been failuresToOpen consecutive        *)
(* failures more recently than passesToClose passes.                       *)
alertRow(columns, row, failuresToOpen, passesToClose, useCommitAsBuildID) ==
    LET f == Iter(row.results)
        s == Alerts!Fold(AlertStart, [i \in DOMAIN columns |->
                [i |-> i, raw |-> Call(f, i), extra |-> columns[i].extra,
                 open |-> failuresToOpen, close |-> passesToClose]])
    IN IF failuresToOpen = 0 \/ s.end = "nil" \/ s.open < failuresToOpen THEN NoAlert
       ELSE alertInfo(columns, row, s, useCommitAsBuildID)

(* ConstructGrid: issues are those of the old grid, by row; alerting says  *)
(* after how many failures and passes a row starts and stops to alert and  *)
(* whether commits name builds; brokenThreshold 0 leaves statistics alone. *)
ConstructGrid(cols, issues, alerting, brokenThreshold) ==
    LET fails == alerting.failuresToAlert
        passes == IF fails > 0 /\ alerting.passesToDisableAlert = 0 THEN 1
                  ELSE alerting.passesToDisableAlert
        Stats(c) == IF brokenThreshold = 0 THEN c
                    ELSE [c EXCEPT !.col.stats = columnStats(c.cells, brokenThreshold)]
        grid == dropEmptyRows(Appending!Fold([columns |-> <<>>, rows |-> <<>>],
                                             [i \in DOMAIN cols |-> Stats(cols[i])]))
        Issues(n) == IF n \in DOMAIN issues THEN issues[n] ELSE {}
        Alert(n) == alertRow(grid.columns, grid.rows[n], fails, passes, alerting.useCommitAsBuildID)
    IN [columns |-> grid.columns,
        rows |-> [n \in DOMAIN grid.rows |->
                    [grid.rows[n] EXCEPT !.issues = @ \cup Issues(n), !.alert = Alert(n)]]]
-----------------------------------------------------------------------------
(* Decoding *)

(* inflateMetric: the value at column i, a set that is empty at a hole.    *)
(* Every column of a group takes the next of the values.                   *)
inflateMetric(metric, i) ==
    LET Group(g) == metric.indices[g].start .. (metric.indices[g].start + metric.indices[g].len - 1)
        measured == UNION { Group(g) : g \in DOMAIN metric.indices }
    IN IF i \in measured THEN {metric.values[Cardinality(measured \cap (0 .. i))]} ELSE {}

(* inflateResults: an iterator like that of internal/result, but one that  *)
(* ends with the row's results.                                            *)
inflateResults(results) == Iter(results)

(* inflateRow: the i-th cell of the row, counted from 1.  Messages and ids *)
(* are listed for the filled cells only.                                   *)
inflateRow(name, row, i) ==
    LET results == inflateResults(row.results)
        filledIdx == Cardinality({ j \in 1 .. i : results[j] # "NO_RESULT" })
        has == results[i] # "NO_RESULT"
        measured == { m \in DOMAIN row.metrics : inflateMetric(row.metrics[m], i - 1) # {} }
    IN [res |-> results[i], id |-> row.id,
        cellId |-> IF has /\ hasCellID(name) THEN row.cellIds[filledIdx] ELSE "",
        msg |-> IF has THEN row.messages[filledIdx] ELSE NoMessage,
        metrics |-> [m \in measured |-> CHOOSE v \in inflateMetric(row.metrics[m], i - 1) : TRUE],
        issues |-> {}]

(* InflateGrid without its limits on time: every row has a cell in each    *)
(* column that its results reach.                                          *)
InflateColumn(grid, i) ==
    [col |-> grid.columns[i],
     cells |-> [n \in { n \in DOMAIN grid.rows : i <= Len(inflateResults(grid.rows[n].results)) } |->
                  inflateRow(n, grid.rows[n], i)]]

(* InflateGrid, of all columns, with the issues of the rows.               *)
Inflate(grid) == [i \in DOMAIN grid.columns |-> InflateColumn(grid, i)]
Issues(grid) == [n \in DOMAIN grid.rows |-> grid.rows[n].issues]
-----------------------------------------------------------------------------
(* Truncation *)

TruncatedRow == "Truncated"

Exceeds == [text |-> "grid exceeds maximum size", long |-> FALSE]

(* truncateLastColumn: what is left of the last column is that it was.     *)
truncateLastColumn(cols) ==
    LET Cut(c) == IF c.res = "NO_RESULT" THEN c ELSE [c EXCEPT !.res = "UNKNOWN", !.msg = Exceeds]
    IN IF cols = <<>> THEN cols
       ELSE [cols EXCEPT ![Len(cols)].cells =
               [n \in DOMAIN @ \ {TruncatedRow} |-> Cut(@[n])]]

deletedColumn(latest) ==
    LET cell == [emptyCell EXCEPT !.res = "UNKNOWN", !.id = TruncatedRow,
                                  !.msg = [text |-> "too large", long |-> FALSE]]
    IN << [latest EXCEPT !.cells = [n \in {TruncatedRow} |-> cell]] >>

(* truncateGrid: at least two columns, then as many as the ceiling allows. *)
truncateGrid(cols, cellCeiling) ==
    LET Cells(i) == SumFunction([j \in 1 .. i |-> Cardinality(DOMAIN cols[j].cells)])
        over == { i \in DOMAIN cols : i > 2 /\ Cells(i) > cellCeiling }
    IN IF over = {} THEN cols ELSE SubSeq(cols, 1, Min(over) - 1)

(* shrinkGridInline: the columns of the grid that is written if it fits    *)
(* after it was halved turns times.  Every turn marks the last column.     *)
shrinkGridInline(cols, turns) ==
    LET i == Len(cols) \div 2^turns
    IN CASE turns = 0 -> cols
         [] turns > 0 /\ i \in DOMAIN cols -> truncateLastColumn(SubSeq(cols, 1, i))
         [] OTHER -> deletedColumn(cols[1])

=============================================================================
