---------------------------- MODULE ApiResponses ----------------------------
(* What the API server makes of a tab's grid and of a dashboard's summary  *)
(* (pkg/api/v1/state.go and summary.go).                                   *)
EXTENDS GridRows

CONSTANT NumTop             \* numSummaryFailingTests, numSummaryFlakyTests

(* Every run of the encoded results, repeated.                             *)
decodeRLE(results) == Flatten([i \in DOMAIN results |-> [k \in 1 .. results[i].n |-> results[i].res]])

(* The place of column i in the lists that have an entry per filled cell.  *)
FilledIdx(results, i) == Cardinality({ j \in 1 .. i : results[j] # "NO_RESULT" })

ListRows(grid) ==
    [n \in DOMAIN grid.rows |->
      LET row == grid.rows[n]
          results == decodeRLE(row.results)
          Entry(list, i, none) ==
              IF results[i] = "NO_RESULT" \/ list = <<>> THEN none ELSE list[FilledIdx(results, i)]
      IN [issues |-> row.issues, alert |-> row.alert,
          cells |-> [i \in DOMAIN results |->
                       [res |-> results[i], cellId |-> Entry(row.cellIds, i, ""),
                        msg |-> Entry(row.messages, i, NoMessage)]]]]

(* Milliseconds become seconds and nanoseconds.                            *)
ListHeaders(grid) ==
    [i \in DOMAIN grid.columns |->
      LET c == grid.columns[i]
      IN [build |-> c.build, extra |-> c.extra,
          started |-> [seconds |-> c.started \div 1000, nanos |-> (c.started % 1000) * 1000000]]]
-----------------------------------------------------------------------------
TabStatusStr == [PASS |-> "PASSING", FAIL |-> "FAILING", FLAKY |-> "FLAKY", STALE |-> "STALE",
                 BROKEN |-> "BROKEN", PENDING |-> "PENDING", ACCEPTABLE |-> "ACCEPTABLE"]

(* The string for a status that the map lacks is empty.                    *)
tabStatusStr(status) == IF status \in DOMAIN TabStatusStr THEN TabStatusStr[status] ELSE ""

(* The n members of S with the greatest values.                            *)
Top(S, n, Value(_)) ==
    CHOOSE T \in kSubset(Min({n, Cardinality(S)}), S) :
        \A x \in T, y \in S \ T : Value(x) >= Value(y)

extractFailuresSummary(failing) ==
    [numFailingTests |-> Cardinality(failing),
     top |-> Top(failing, NumTop, LAMBDA t : t.alert.failCount)]

(* health maps tests to their flips and the runs considered.               *)
extractHealthinessSummary(health) ==
    LET flaky == { n \in DOMAIN health : health[n].flips > 0 }
    IN [numFlakyTests |-> Cardinality(flaky),
        top |-> Top(flaky, NumTop, LAMBDA n : (100 * health[n].flips) \div health[n].considered)]

convertSummary(sum, health) ==
    [overallStatus |-> tabStatusStr(sum.status), detailedStatusMessage |-> sum.message,
     lastRun |-> sum.lastRun, lastUpdate |-> sum.lastUpdate, latestPassingBuild |-> sum.latestGreen,
     failures |-> extractFailuresSummary(sum.failing), healthiness |-> extractHealthinessSummary(health)]

(* The worst first; a tab with another status counts for none of them.     *)
Priority == <<"BROKEN", "STALE", "FAILING", "FLAKY", "PENDING", "ACCEPTABLE", "PASSING">>

dashboardSummary(tabs) ==
    LET count == [s \in Range(Priority) \cup {""} |->
                    Cardinality({ i \in DOMAIN tabs : tabStatusStr(tabs[i].status) = s })]
        seen == SelectSeq(Priority, LAMBDA s : count[s] > 0)
    IN [overallStatus |-> IF seen = <<>> THEN "UNKNOWN" ELSE seen[1], tabStatusCount |-> count]
=============================================================================
