-------------------------- MODULE CustomEvaluator ---------------------------
(* The rules that override the status of a test (pkg/updater/eval.go).     *)
(* Strings are sequences of words.  A comparison is a record: the operator *)
(* op, what it looks at (of, key), and the values to compare with: str,    *)
(* num, status and, for a regular expression, the set of strings that it   *)
(* matches (empty for one that does not compile).                          *)
EXTENDS Integers, Sequences, SequencesExt

(* What a rule gives when it does not match.                               *)
NoStatus == "none"

strContains(a, b) == \E i \in 0 .. Len(a) - Len(b) : SubSeq(a, i + 1, i + Len(b)) = b

(* The arguments are the other way round: the value must start the string. *)
strStartsWith(a, b) == IsPrefix(a, b)

(* strEQ, strNE and strReg with the others: val is what the test has.      *)
StrOps == {"CONTAINS", "REGEX", "STARTS_WITH", "EQ", "NE"}
NumOps == {"EQ", "NE"}
scmp(cmp, val) ==
    CASE cmp.op = "CONTAINS" -> strContains(val, cmp.str)
      [] cmp.op = "REGEX" -> val \in cmp.matches
      [] cmp.op = "STARTS_WITH" -> strStartsWith(val, cmp.str)
      [] cmp.op = "EQ" -> val = cmp.str
      [] cmp.op = "NE" -> val # cmp.str

fcmp(cmp, n) == IF cmp.op = "EQ" THEN n = cmp.num ELSE n # cmp.num

(* jUnitTestResult: what the rules see of a junit result.                  *)
Errors(r) == IF r.errored.is THEN 1 ELSE 0
Failures(r) == IF r.failure.is THEN 1 ELSE 0
Exceptions(r) == { e.value : e \in { x \in {r.errored, r.failure} : x.is } }
Properties(r, key) == IF key \in DOMAIN r.props THEN Range(r.props[key]) ELSE {}

(* A number compared with an operator for strings, and a name compared     *)
(* with an unknown operator, call a nil function.                          *)
CmpPanics(cmp) ==
    /\ cmp.of = "field"
    /\ \/ cmp.key \in {"error_count", "failure_count"} /\ cmp.op \notin NumOps
       \/ cmp.key = "name" /\ cmp.op \notin StrOps

(* Does the comparison hold of the test?  Fields nobody knows never do.    *)
CmpHolds(cmp, r) ==
    CASE cmp.of = "property" -> cmp.op \in StrOps /\ \E v \in Properties(r, cmp.key) : scmp(cmp, v)
      [] cmp.of = "field" /\ cmp.key = "name" -> scmp(cmp, r.name)
      [] cmp.of = "field" /\ cmp.key = "error_count" -> fcmp(cmp, Errors(r))
      [] cmp.of = "field" /\ cmp.key = "failure_count" -> fcmp(cmp, Failures(r))
      [] cmp.of = "error" /\ cmp.key = "exception_type" ->
           cmp.op \in StrOps /\ \E v \in Exceptions(r) : scmp(cmp, v)
      [] OTHER -> FALSE

(* The first comparison that does not hold ends the evaluation.            *)
evalProperties(rule, r) ==
    LET Panics(i) == CmpPanics(rule.comparisons[i])
        Stops(i) == Panics(i) \/ ~CmpHolds(rule.comparisons[i], r)
        stop == { i \in DOMAIN rule.comparisons : Stops(i) }
        at == CHOOSE i \in stop : \A j \in stop : i <= j
    IN CASE stop = {} -> rule.status
         [] stop # {} /\ Panics(at) -> "panic"
         [] OTHER -> NoStatus

evalTargetProperties(rule, status) ==
    IF \A i \in DOMAIN rule.comparisons :
         LET cmp == rule.comparisons[i] IN cmp.op = "EQ" /\ cmp.of = "target" /\ status = cmp.status
    THEN rule.status ELSE NoStatus

FirstStatus(statuses) ==
    LET got == { i \in DOMAIN statuses : statuses[i] # NoStatus }
    IN IF got = {} THEN NoStatus ELSE statuses[CHOOSE i \in got : \A j \in got : i <= j]

CustomStatus(rules, r) == FirstStatus([i \in DOMAIN rules |-> evalProperties(rules[i], r)])

CustomTargetStatus(rules, status) ==
    FirstStatus([i \in DOMAIN rules |-> evalTargetProperties(rules[i], status)])
=============================================================================
