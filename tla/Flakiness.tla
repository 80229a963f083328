----------------------------- MODULE Flakiness ------------------------------
(* The healthiness of a tab (pkg/summarizer/flakiness.go and analyzers).   *)
(* A flakiness in percent is kept as the ratio [flips, considered].        *)
EXTENDS GridRows

CONSTANT InfraMessages      \* messages that are a single word

isInfraFailure(message) == message.text \in InfraMessages

isWithinTimeFrame(column, startTime, endTime) == column.started \in startTime .. endTime

(* failingColumns: column i has no passing or flaky row; with a single row *)
(* there is no such column.                                                *)
failingColumn(rows, i) ==
    /\ Cardinality(DOMAIN rows) > 1
    /\ \A n \in DOMAIN rows : Coalesce(At(rows[n].results, i), TRUE) \notin {"PASS", "FLAKY"}

(* A variant with a bug: messages are indexed by column.                   *)
MessageOfColumn(row, i) == IF i <= Len(row.messages) THEN row.messages[i] ELSE NoMessage

(* The message of the cell at column i, by the number of filled cells.     *)
MessageOf(row, i) ==
    row.messages[Cardinality({ j \in 1 .. i : Coalesce(At(row.results, j), FALSE) # "NO_RESULT" })]

(* The columns of the time frame in which the row has a result res.        *)
ColumnsOf(grid, row, startTime, endTime, res) ==
    { i \in 1 .. Min({Len(Iter(row.results)), Len(grid.columns)}) :
        /\ isWithinTimeFrame(grid.columns[i], startTime, endTime)
        /\ Coalesce(At(row.results, i), FALSE) = res }

(* parseGrid for one row: its counts, and its statuses from new to old     *)
(* without infrastructure failures and columns that fail throughout.       *)
parseRow(grid, row, startTime, endTime) ==
    LET Cols(res) == ColumnsOf(grid, row, startTime, endTime, res)
        passes == Cols("PASS")
        flakes == Cols("FLAKY")
        infra == { i \in Cols("FAIL") : isInfraFailure(MessageOf(row, i)) }
        failures == Cols("FAIL") \ infra
        fails == { i \in failures : ~failingColumn(grid.rows, i) }
        Status(i) == IF i \in fails THEN "Fail" ELSE IF i \in passes THEN "Pass" ELSE "Flaky"
    IN [passed |-> Cardinality(passes), failed |-> Cardinality(failures),
        infra |-> Cardinality(infra), flaky |-> Cardinality(flakes),
        statuses |-> Select([i \in 1 .. Len(grid.columns) |-> Status(i)], fails \cup passes \cup flakes)]

IgnoreFailuresInARow == 3

consecutiveFailures(statuses, i) ==
    Max({0} \cup { k \in 1 .. (Len(statuses) - i + 1) :
                     \A j \in i .. (i + k - 1) : statuses[j] = "Fail" })

(* A turn of calculateFlipFlakiness's loop, at the status s.i: a run of at *)
(* least three failures is skipped and the status after it is considered.  *)
FlipStep(s, statuses) ==
    LET cf == consecutiveFailures(statuses, s.i)
        k == IF cf >= IgnoreFailuresInARow THEN s.i + cf ELSE s.i
        flip == statuses[k] = "Flaky" \/ (statuses[k] = "Fail" /\ s.lastPassing)
    IN CASE s.i > Len(statuses) -> s
         [] s.i <= Len(statuses) /\ k > Len(statuses) -> [s EXCEPT !.i = k]
         [] OTHER -> [i |-> k + 1, lastPassing |-> statuses[k] # "Fail",
                      flips |-> s.flips + (IF flip THEN 1 ELSE 0), considered |-> s.considered + 1]
Flips == INSTANCE Fold WITH Step <- FlipStep

(* As many turns as there are statuses; further ones would do nothing.     *)
calculateFlipFlakiness(statuses) ==
    LET s == Flips!Fold([i |-> 1, lastPassing |-> TRUE, flips |-> 0, considered |-> 0],
                        [turn \in DOMAIN statuses |-> statuses])
    IN [flips |-> s.flips, considered |-> s.considered]

(* The counts of a row as a TestInfo, and whether it gets one: minRuns is  *)
(* 0, but a row without runs that count is left out.                       *)
calculateNaiveFlakiness(test) ==
    [flakiness |-> [flips |-> test.failed, considered |-> test.passed + test.failed],
     passed |-> test.passed, failed |-> test.failed, infra |-> test.infra, trend |-> "UNKNOWN"]

HasRuns(test) == test.passed + test.failed > 0

(* GetFlakiness of the base analyzer, whose naive flakiness and average    *)
(* that of the flip analyzer replaces.                                     *)
GetBaseFlakiness(info) ==
    [n \in { n \in DOMAIN info : HasRuns(info[n]) } |-> calculateNaiveFlakiness(info[n])]

GetFlakiness(info) ==
    LET healthinessInfo == GetBaseFlakiness(info)
    IN [n \in DOMAIN healthinessInfo |->
          [healthinessInfo[n] EXCEPT !.flakiness = calculateFlipFlakiness(info[n].statuses)]]

CalculateHealthiness(grid, startTime, endTime) ==
    GetFlakiness([n \in DOMAIN grid.rows \ MethodRows |-> parseRow(grid, grid.rows[n], startTime, endTime)])

(* f is more than g; nothing considered counts as 0.                       *)
FlakierThan(f, g) ==
    LET D(x) == IF x.considered = 0 THEN 1 ELSE x.considered IN f.flips * D(g) > g.flips * D(f)

getTrend(current, previous) == CASE FlakierThan(previous, current) -> "DOWN"
                                 [] FlakierThan(current, previous) -> "UP"
                                 [] OTHER -> "NO_CHANGE"

(* getHealthinessForInterval: this interval, with the trend since the last.*)
getHealthinessForInterval(grid, now, interval) ==
    LET healthiness == CalculateHealthiness(grid, now - interval, now)
        past == CalculateHealthiness(grid, now - 2 * interval, now - interval)
    IN [n \in DOMAIN healthiness |->
          IF n \in DOMAIN past
            THEN [healthiness[n] EXCEPT !.trend = getTrend(healthiness[n].flakiness, past[n].flakiness)]
            ELSE healthiness[n]]
=============================================================================
