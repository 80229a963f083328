------------------------------ MODULE Results -------------------------------
(* The statuses of cells and the run-length code of a row's results        *)
(* (internal/result).                                                      *)
EXTENDS Integers, Sequences, SequencesExt, Selection

Severity ==
    <<"NO_RESULT", "BUILD_PASSED", "PASS", "PASS_WITH_SKIPS", "PASS_WITH_ERRORS",
      "RUNNING", "CATEGORIZED_ABORT", "UNKNOWN", "CANCEL", "BLOCKED", "FLAKY",
      "TOOL_FAIL", "TIMED_OUT", "CATEGORIZED_FAIL", "BUILD_FAIL", "FAIL">>

Statuses == { Severity[i] : i \in DOMAIN Severity }

statusSeverity == [r \in Statuses |-> CHOOSE i \in DOMAIN Severity : Severity[i] = r]

LTE(r, s) == statusSeverity[r] <= statusSeverity[s]
GTE(r, s) == statusSeverity[r] >= statusSeverity[s]

Passing(r) == GTE(r, "BUILD_PASSED") /\ LTE(r, "PASS_WITH_ERRORS")
Failing(r) == GTE(r, "TOOL_FAIL") /\ LTE(r, "FAIL")

(* The statuses that a tab may be configured to ignore.                    *)
Ignorable == {"CATEGORIZED_ABORT", "UNKNOWN", "CANCEL", "BLOCKED"}
Ignored(r, ignoredTestStatuses) == r \in ignoredTestStatuses \cap Ignorable

Coalesce(r, ignoreRunning) ==
    CASE r = "NO_RESULT" \/ (r = "RUNNING" /\ ignoreRunning) -> "NO_RESULT"
      [] r = "FLAKY" -> "FLAKY"
      [] Failing(r) -> "FAIL"
      [] Passing(r) -> "PASS"
      [] OTHER -> "UNKNOWN"

(* Iter: the results of a row, one for each column that it has.            *)
Repeated(run) == [i \in 1 .. run.n |-> run.res]
Iter(results) == Flatten([k \in DOMAIN results |-> Repeated(results[k])])

(* What the i-th call of an iterator returns: after the end, NO_RESULT.    *)
Call(out, i) == IF i <= Len(out) THEN out[i] ELSE "NO_RESULT"
At(results, i) == Call(Iter(results), i)
=============================================================================
