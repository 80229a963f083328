--------------------------- MODULE MCGridHistory ----------------------------
EXTENDS GridHistory

Result(r) == [res |-> r, text |-> ""]

MCFirst == { Result(r) : r \in {"NO_RESULT", "PASS", "FAIL", "FLAKY", "RUNNING", "CANCEL"} }
             \cup { [res |-> "FAIL", text |-> "infra"] }
MCSecond == { Result(r) : r \in {"NO_RESULT", "FAIL"} }
MCAlerting == [failuresToAlert |-> 2, passesToDisableAlert |-> 2, useCommitAsBuildID |-> FALSE]
MCBaseName == [n \in AllRows \cup {Duplicate} |-> IF n = Duplicate THEN "a" ELSE n]
MCTab == [base |-> [include |-> {}, exclude |-> {{TruncatedRow}}], numColumnsRecent |-> 2,
          groupColumnsRecent |-> 0, staleHours |-> 0, brokenThreshold |-> 0,
          opts |-> [ignored |-> {"CANCEL"}, minRuns |-> 1, maxFlakiness |-> 50]]
=============================================================================
