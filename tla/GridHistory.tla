---------------------------- MODULE GridHistory -----------------------------
(* A grid over many cycles of the updater: each decodes the grid, puts the *)
(* columns it read in front, shrinks and encodes it again.  What the tab   *)
(* summary, the alerts and the healthiness then say of the encoded grid is *)
(* compared with what they should say of the columns that were read.       *)
EXTENDS TabGrid, TabStatus, Flakiness, ApiResponses, StateComparer, TLC

CONSTANTS
    MaxReads,               \* bound: columns that are read
    MaxHalvings,            \* bound: halvings of an oversized grid
    CellCeiling,            \* byteCeiling, as a number of cells
    FirstResults,           \* results of the row "a" and their messages
    SecondResults,          \* results of the row "b" and its method row "b@m"
    Alerting, Tab, Features \* the configuration

VARIABLES
    truth,                  \* the columns as they were read, newest first
    stored,                 \* the grid object
    reads                   \* how many columns were read

historyVars == <<truth, stored, reads>>

AllRows == {"a", "b", "b@m", TruncatedRow}
Duplicate == "a [1]"

ASSUME HistoryAssumption ==
    /\ FirstResults \cup SecondResults \subseteq [res : Statuses, text : STRING]
    /\ MaxReads \in Nat /\ MaxHalvings \in Nat
    /\ Alerting.failuresToAlert \in Nat /\ Alerting.passesToDisableAlert \in Nat
    /\ Tab.numColumnsRecent \in Nat
    /\ {"a", Duplicate} \cap MethodRows = {}
    /\ BaseName["a"] = "a" /\ BaseName[Duplicate] = "a"
    /\ \A n \in AllRows \ {"a"} : BaseName[n] # "a"

Absent == [res |-> "NO_RESULT", text |-> ""]

NewCell(r, k) ==
    [res |-> r.res, id |-> "", cellId |-> ToString(k), issues |-> IF r.res = "FAIL" THEN {"issue"} ELSE {},
     msg |-> [text |-> IF r.text = "" THEN ToString(k) ELSE r.text, long |-> r.res = "FAIL"],
     metrics |-> IF r.res \in {"PASS", "FAIL"} THEN [m \in {"duration"} |-> k] ELSE <<>>]

ReadColumn(a, b, k) ==
    LET cells == [n \in {"a", "b", "b@m"} |-> IF n = "a" THEN a ELSE b]
        filled == { n \in DOMAIN cells : cells[n] # Absent }
    IN [col |-> [build |-> k, started |-> k, hint |-> k, extra |-> <<k>>, stats |-> NoStats],
        cells |-> [n \in filled |-> NewCell(cells[n], k)]]

HistoryInit == /\ truth = <<>>
               /\ stored = [columns |-> <<>>, rows |-> <<>>]
               /\ reads = 0

(* A cycle writes the column that it read and the old ones that it keeps.  *)
(* Decoded columns have a cell for every row, which counts for the ceiling.*)
Write(new, kept, turns) ==
    LET From(cols) == <<new>> \o SubSeq(cols, Len(cols) - kept + 1, Len(cols))
        cols == truncateGrid(From(Inflate(stored)), CellCeiling)
        deleted == turns > 0 /\ Len(cols) \div 2^turns = 0
    IN /\ truth' = shrinkGridInline(SubSeq(From(truth), 1, Len(cols)), turns)
       /\ stored' = ConstructGrid(shrinkGridInline(cols, turns),
                                  IF deleted THEN <<>> ELSE Issues(stored), Alerting, 0)

(* A new build is read.                                                    *)
Build == /\ reads < MaxReads
         /\ reads' = reads + 1
         /\ \E a \in FirstResults, b \in SecondResults, turns \in 0 .. MaxHalvings :
              Write(ReadColumn(a, b, reads + 1), Len(truth), turns)

(* The newest column was running and is read again.                        *)
Reread == /\ truth # <<>>
          /\ \E n \in DOMAIN truth[1].cells : truth[1].cells[n].res = "RUNNING"
          /\ UNCHANGED reads
          /\ \E a \in FirstResults, b \in SecondResults :
               Write(ReadColumn(a, b, reads), Len(truth) - 1, 0)

HistoryNext == Build \/ Reread

HistorySpec == HistoryInit /\ [][HistoryNext]_historyVars
-----------------------------------------------------------------------------
TruthCell(i, n) == IF n \in DOMAIN truth[i].cells THEN truth[i].cells[n] ELSE emptyCell

TruthResults(n) == [i \in DOMAIN truth |-> TruthCell(i, n).res]

(* However many cycles decode and encode a grid, each row decodes to the   *)
(* results, messages, cell ids and metrics that were read for it, column   *)
(* by column; rows that have no result are absent (AppendColumn and        *)
(* InflateGrid over run-length codes, lists of filled cells and sparse     *)
(* metrics).  The API, which decodes the same grid in its own way, lists   *)
(* the same cells (ListRows), and the state comparer takes the grid for    *)
(* what it decodes to, but not for one that lost a column or has a row     *)
(* twice.                                                                  *)
RoundTrip ==
    LET listed == ListRows(stored)
        headers == ListHeaders(stored)
        recent == Tab.numColumnsRecent
        seen == DOMAIN rowsAndColumns(stored, recent).rows
        again == ConstructGrid(Inflate(stored), Issues(stored), Alerting, 0)
        lost == [stored EXCEPT !.columns = Tail(@)]
        twice == [stored EXCEPT !.rows = [n \in DOMAIN @ \cup {Duplicate} |->
                                            IF n = Duplicate THEN @["a"] ELSE @[n]]]
    IN /\ DOMAIN stored.rows = { n \in AllRows : \E i \in DOMAIN truth : TruthCell(i, n).res # "NO_RESULT" }
       /\ \A i \in DOMAIN truth : headers[i].build = truth[i].col.build
       /\ compare(stored, again, 0, recent) = [rows |-> "none", columns |-> "none"]
       /\ seen # {} => compare(stored, lost, 0, recent) = [rows |-> "none", columns |-> "other"]
       /\ "a" \in seen => compare(stored, twice, 0, recent) = [rows |-> "secondHasDuplicates", columns |-> "none"]
       /\ \A i \in DOMAIN truth, n \in DOMAIN stored.rows :
            LET read == TruthCell(i, n)
                shown == inflateRow(n, stored.rows[n], i)
                cell == listed[n].cells[i]
            IN /\ shown.res = read.res /\ shown.metrics = read.metrics
               /\ cell.res = shown.res /\ cell.cellId = shown.cellId /\ cell.msg = shown.msg
               /\ read.res # "NO_RESULT" =>
                    /\ shown.msg = [read.msg EXCEPT !.long = FALSE]
                    /\ shown.cellId = IF n \in MethodRows THEN "" ELSE read.cellId

(* The last k conclusive results up to i, newest first, are all res.       *)
Streak(n, i, k, res) ==
    LET Res(j) == Coalesce(TruthCell(j, n).res, TRUE)
        concluded == { j \in 1 .. i : Res(j) \in {"PASS", "FAIL", "FLAKY"} }
    IN /\ i \in concluded
       /\ \E S \in SUBSET concluded :
            /\ Cardinality(S) = k /\ i \in S
            /\ \A j \in S : Res(j) = res
            /\ \A j \in concluded : j >= Min(S) => j \in S

(* A row alerts exactly when failuresToAlert conclusive results in a row   *)
(* failed more recently than passesToDisableAlert, or one, in a row passed;*)
(* the message, test id and build of it are those of the newest failing    *)
(* column, its first failure the oldest one before the passes or the flake *)
(* that end the outage (alertRow, which counts filled cells to index the   *)
(* row's lists).                                                           *)
AlertExact ==
    \A n \in DOMAIN stored.rows :
      LET alert == stored.rows[n].alert
          Fail(i) == Coalesce(TruthCell(i, n).res, TRUE) = "FAIL"
          opens == { i \in DOMAIN truth : Streak(n, i, Alerting.failuresToAlert, "FAIL") }
          closes == { i \in DOMAIN truth : Streak(n, i, Max({1, Alerting.passesToDisableAlert}), "PASS") }
          newest == Min({ i \in DOMAIN truth : Fail(i) })
          ends == { i \in DOMAIN truth : i > Min(opens)
                      /\ (i \in closes \/ TruthCell(i, n).res = "FLAKY") }
          oldest == Max({ i \in DOMAIN truth : Fail(i) /\ (ends = {} \/ i < Min(ends)) })
      IN /\ (alert # NoAlert) <=> (opens # {} /\ (closes = {} \/ Min(opens) < Min(closes)))
         /\ alert # NoAlert =>
              /\ alert.message = [TruthCell(newest, n).msg EXCEPT !.long = FALSE]
              /\ alert.latestFailBuildId = truth[newest].col.build
              /\ alert.failBuildId = truth[oldest].col.build
              /\ n \notin MethodRows => /\ alert.latestFailTestId = TruthCell(newest, n).cellId
                                        /\ alert.failTestId = TruthCell(oldest, n).cellId

(* The tabulator's state of the tab and the summarizer's summary of it.    *)
TabState == tabulate(stored, [base |-> Tab.base, alerting |-> Alerting, brokenThreshold |-> 0],
                     [columns |-> <<>>, rows |-> <<>>])
Summary == updateTab(TabState, 1, reads, Tab, Features)

(* What the tab should show: the results of its rows, where it has any.    *)
TabResults ==
    LET Results(c) == [n \in { n \in DOMAIN c.cells : \A re \in Tab.base.exclude : n \notin re } |->
                         c.cells[n].res]
    IN SelectSeq([i \in DOMAIN truth |-> Results(truth[i])],
                 LAMBDA c : \E n \in DOMAIN c : c[n] # "NO_RESULT")

(* The results in its columns of the rows that the summarizer looks at.    *)
CellsOf(cols) ==
    LET rows == { n \in AllRows \ MethodRows :
                    \E i \in 1 .. Min({Tab.numColumnsRecent, Len(cols)}) :
                        n \in DOMAIN cols[i] /\ cols[i][n] # "NO_RESULT" }
    IN [i \in DOMAIN cols |-> { cols[i][n] : n \in rows \cap DOMAIN cols[i] }]

StatusAgrees(status, cells) ==
    LET Ignores(r) == "ignore" \in Features /\ Ignored(r, Tab.opts.ignored)
        Bad(i) == \E r \in cells[i] : ~Ignores(r) /\ Coalesce(r, TRUE) \notin {"PASS", "NO_RESULT"}
        running == { i \in DOMAIN cells : "RUNNING" \in cells[i] }
        counted == { i \in DOMAIN cells \ running : cells[i] \ {"NO_RESULT"} # {} }
        recent == { i \in counted : Cardinality({ j \in counted : j < i }) < Tab.numColumnsRecent }
        conclusive == { i \in recent : \A r \in cells[i] : ~Ignores(r) }
        bad == \E i \in conclusive : Bad(i)
        flaky == status \in {"FLAKY", "ACCEPTABLE"}
    IN status \notin {"FAIL", "STALE", "BROKEN", "PENDING"} =>
            /\ bad => flaky
            /\ flaky /\ ~bad => \E i \in running : Bad(i)
            /\ status = "PASS" => ~bad /\ conclusive # {}

(* health maps tests to their flips, summary is what the API serves.       *)
ServedAgrees(summary, health) ==
    LET served == convertSummary(summary, health)
    IN /\ (dashboardSummary(<<summary>>).overallStatus = "FAILING") <=>
            (served.failures.numFailingTests > 0 /\ summary.status \notin {"BROKEN", "STALE"})
       /\ \A n \in served.healthiness.top : health[n].flips > 0

(* A tab passes only if no cell of its recent columns is anything but a    *)
(* pass, and is flaky whenever one is, where columns that are still        *)
(* running are passed over and ignored ones only counted (overallStatus).  *)
(* The one exception is that results next to a running cell count with the *)
(* column after it.  The API shows the dashboard of the tab as failing     *)
(* exactly if a test of it alerts and nothing worse is known.              *)
StatusExact ==
    LET summary == Summary
        healthy == getHealthinessForInterval(stored, reads, reads)
    IN /\ StatusAgrees(summary.status, CellsOf(TabResults))
       /\ ServedAgrees(summary, [n \in DOMAIN healthy |-> healthy[n].flakiness])

(* The columns of a row that are listed for its flips: its results that    *)
(* are no infrastructure failures and not in columns that fail throughout. *)
ColumnResults(n) == [i \in DOMAIN truth |-> Coalesce(TruthCell(i, n).res, FALSE)]
DeadColumn(i) ==
    /\ Cardinality(DOMAIN stored.rows) > 1
    /\ \A m \in DOMAIN stored.rows : Coalesce(TruthCell(i, m).res, TRUE) \notin {"PASS", "FLAKY"}
ListedColumns(n) ==
    LET R == ColumnResults(n)
    IN { i \in DOMAIN truth :
           \/ R[i] \in {"PASS", "FLAKY"}
           \/ R[i] = "FAIL" /\ ~DeadColumn(i) /\ TruthCell(i, n).msg.text \notin InfraMessages }

(* Of the columns L with the results R: those between two, and whether one *)
(* is in a run of failures that is passed over; those that are kept, K.    *)
Span(L, i, j) == { l \in L : l \in Min({i, j}) .. Max({i, j}) }
InRun(L, R, i) ==
    \E first, last \in L :
      LET S == Span(L, first, last)
      IN i \in S /\ Cardinality(S) >= IgnoreFailuresInARow /\ \A l \in S : R[l] = "FAIL"
KeptOf(L, R) == { i \in L : ~InRun(L, R, i) }
PrevOf(K, i) == Max({ j \in K : j < i })
FlipsOf(K, R) == { i \in K : \/ R[i] = "FLAKY"
                             \/ R[i] = "FAIL" /\ (i = Min(K) \/ R[PrevOf(K, i)] # "FAIL") }

(* The flips of a row: of its results that are no infrastructure failures, *)
(* not in columns that fail throughout and not in a run of three failures  *)
(* or more, those that are flaky or the first to fail after one that did   *)
(* not (parseGrid and calculateFlipFlakiness).                             *)
FlipsExact ==
    LET health == CalculateHealthiness(stored, 1, reads)
    IN \A n \in DOMAIN health :
      LET R == ColumnResults(n)
          kept == KeptOf(ListedColumns(n), R)
      IN health[n].flakiness = [flips |-> Cardinality(FlipsOf(kept, R)), considered |-> Cardinality(kept)]
=============================================================================
