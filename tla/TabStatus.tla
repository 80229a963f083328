----------------------------- MODULE TabStatus ------------------------------
(* The summary of a tab (pkg/summarizer/summary.go, updateTab).            *)
(* opts has ignored, minRuns and maxFlakiness (in percent); features are   *)
(* the enabled ones of "ignore", "fuzzy" and "minruns".                    *)
EXTENDS GridRows

DefaultRecent == 5

(* The first that is not zero.                                             *)
recentColumns(tab, group) ==
    CASE tab # 0 -> tab [] tab = 0 /\ group # 0 -> group [] OTHER -> DefaultRecent

(* Rows with a result in the recent columns, without those of methods.     *)
recentRows(rows, recent) ==
    Restrict(rows, { n \in DOMAIN rows : /\ rows[n].results # <<>>
                                         /\ ~ /\ rows[n].results[1].res = "NO_RESULT"
                                              /\ rows[n].results[1].n >= recent })

filterMethods(rows) ==
    Restrict(rows, { n \in DOMAIN rows : {n, rows[n].id} \cap MethodRows = {} })

latestRun(columns) == IF columns = <<>> THEN 0 ELSE columns[1].started

(* staleAlert: mod is when the grid was written, 0 if it never was.        *)
staleAlert(mod, ran, stale, rows, now) ==
    CASE mod = 0 -> "no stored results"
      [] mod # 0 /\ stale = 0 -> ""
      [] mod # 0 /\ stale # 0 /\ (ran = 0 \/ rows = 0) -> "no completed results"
      [] OTHER -> IF now - mod > stale THEN "data has not changed"
                  ELSE IF now - ran > stale THEN "latest column is old" ELSE ""

failingTestSummaries(rows) ==
    { [displayName |-> n, testName |-> rows[n].id, linkedBugs |-> rows[n].issues,
       alert |-> rows[n].alert] : n \in { n \in DOMAIN rows : rows[n].alert # NoAlert } }

allLinkedIssues(rows) == UNION { rows[n].issues : n \in DOMAIN rows }

(* What each row has at column i.                                          *)
Column(rows, i) == [n \in DOMAIN rows |-> At(rows[n].results, i)]

ignores(r, features, opts) == "ignore" \in features /\ Ignored(r, opts.ignored)

ColumnStats(cells, features, opts, brokenThreshold) ==
    LET Count(P(_)) == Cardinality({ n \in DOMAIN cells : P(Coalesce(cells[n], TRUE)) })
        passes == Count(Passing)
        failures == Count(Failing)
        filled == Count(LAMBDA r : r # "NO_RESULT")
        ignored == \E n \in DOMAIN cells : ignores(cells[n], features, opts)
    IN [passingCols |-> IF ~ignored /\ failures = 0 /\ passes > 0 THEN 1 ELSE 0,
        completedCols |-> IF filled > 0 THEN 1 ELSE 0,
        ignoredCols |-> IF ignored THEN 1 ELSE 0,
        passingCells |-> passes, filledCells |-> filled,
        broken |-> IF /\ passes + failures > 0 /\ brokenThreshold > 0
                      /\ 100 * failures > brokenThreshold * filled THEN 1 ELSE 0]

(* gridMetrics: sums over the recent columns.                              *)
gridMetrics(cols, rows, recent, brokenThreshold, features, opts) ==
    LET stats == [i \in 1 .. Min({cols, recent}) |->
                    ColumnStats(Column(rows, i), features, opts, brokenThreshold)]
    IN [f \in {"passingCols", "completedCols", "ignoredCols", "passingCells", "filledCells", "broken"} |->
          SumFunction([i \in DOMAIN stats |-> stats[i][f]])]

(* A quotient with a zero divisor is NaN or infinite.                      *)
isAcceptable(stats, opts, features) ==
    LET valid == stats.completedCols - stats.ignoredCols
    IN /\ "fuzzy" \in features /\ opts.maxFlakiness > 0
       /\ IF valid = 0 THEN stats.passingCols > 0
          ELSE 100 * stats.passingCols >= (100 - opts.maxFlakiness) * valid

(* A variant with a bug: only failures make a column flaky.                *)
flakyResultsFailing(cells, features, opts) ==
    \E n \in DOMAIN cells : Coalesce(cells[n], TRUE) = "FAIL"

(* A cell of the column is neither empty, running, ignored nor a pass.     *)
flakyResults(cells, features, opts) ==
    \E n \in DOMAIN cells : /\ ~ignores(cells[n], features, opts)
                            /\ Coalesce(cells[n], TRUE) \notin {"NO_RESULT", "PASS"}

(* One turn of overallStatus's loop, for the results of one column.  The   *)
(* flag flaky is not reset by a running column.                            *)
StatusStep(s, cells, acceptable, features, opts) ==
    LET results == { cells[n] : n \in DOMAIN cells }
        flaky == s.flaky \/ flakyResults(cells, features, opts)
    IN IF s.status # "none" \/ s.recent = 0 THEN s
       ELSE IF "RUNNING" \in results THEN [s EXCEPT !.flaky = flaky]
       ELSE IF \E r \in results : ignores(r, features, opts)
         THEN [s EXCEPT !.recent = @ - 1, !.flaky = FALSE]
       ELSE IF flaky THEN [s EXCEPT !.status = IF acceptable THEN "ACCEPTABLE" ELSE "FLAKY"]
       ELSE IF \E r \in results : Coalesce(r, TRUE) = "PASS"
         THEN [s EXCEPT !.passing = TRUE, !.recent = @ - 1]
       ELSE s

(* The rows that still have a result at column i; the loop takes one turn  *)
(* more after the last column.                                             *)
ColumnLeft(rows, i) ==
    Column(Restrict(rows, { n \in DOMAIN rows : i <= Len(Iter(rows[n].results)) }), i)

recentStatus(cols, rows, recent, acceptable, features, opts) ==
    LET s == FoldLeft(LAMBDA acc, i : StatusStep(acc, ColumnLeft(rows, i), acceptable, features, opts),
                      [recent |-> recent, passing |-> FALSE, flaky |-> FALSE, status |-> "none"],
                      [i \in 1 .. (cols + 1) |-> i])
    IN IF s.status # "none" THEN s.status ELSE IF s.passing THEN "PASS" ELSE "UNKNOWN"

overallStatus(grid, rows, recent, stale, alerts, stats, features, opts) ==
    CASE stats.broken > 0 -> "BROKEN"
      [] stats.broken = 0 /\ stale # "" -> "STALE"
      [] stats.broken = 0 /\ stale = "" /\ alerts # {} -> "FAIL"
      [] OTHER -> IF /\ "minruns" \in features
                     /\ opts.minRuns > stats.completedCols - stats.ignoredCols THEN "PENDING"
                  ELSE recentStatus(Len(grid.columns), rows, recent,
                                    isAcceptable(stats, opts, features), features, opts)

(* The part of the statistics that the summary has.                        *)
tabMetrics(stats) == Restrict(stats, {"passingCols", "completedCols", "ignoredCols"})

(* The status info after the statistics, if there is some.                 *)
fmtStatus(status) == CASE status = "PENDING" -> "not enough runs"
                       [] status = "ACCEPTABLE" -> "acceptable"
                       [] OTHER -> "tab stats"

statusMessage(stats, status) == IF stats.filledCells = 0 THEN "no completed results" ELSE fmtStatus(status)

(* latestGreen: the newest column in which a row passes and none fails.    *)
latestGreen(grid, rows) ==
    LET Res(i) == { Coalesce(r, FALSE) : r \in { At(rows[n].results, i) : n \in DOMAIN rows } }
        green == { i \in DOMAIN grid.columns : "PASS" \in Res(i) /\ Res(i) \subseteq {"PASS", "NO_RESULT"} }
    IN IF green = {} THEN NoColumn ELSE grid.columns[Min(green)].build

(* updateTab.  The recent rows are all that the rest looks at.             *)
updateTab(grid, mod, now, tab, features) ==
    LET recent == recentColumns(tab.numColumnsRecent, tab.groupColumnsRecent)
        rows == filterMethods(recentRows(grid.rows, recent))
        alert == staleAlert(mod, latestRun(grid.columns), tab.staleHours, Cardinality(DOMAIN rows), now)
        failures == failingTestSummaries(rows)
        stats == gridMetrics(Len(grid.columns), rows, recent, tab.brokenThreshold, features, tab.opts)
        status == overallStatus(grid, rows, recent, alert, failures, stats, features, tab.opts)
    IN [lastUpdate |-> mod, lastRun |-> latestRun(grid.columns), alert |-> alert,
        failing |-> failures, status |-> status, message |-> statusMessage(stats, status),
        latestGreen |-> latestGreen(grid, rows), issues |-> allLinkedIssues(rows),
        metrics |-> tabMetrics(stats)]
=============================================================================
