------------------------- MODULE ResultstoreColumns -------------------------
(* How invocations of ResultStore become columns                           *)
(* (pkg/updater/resultstore/resultstore.go).                               *)
(*                                                                         *)
(* An invocation as it is fetched is [id, start, props, labels, tags,      *)
(* targets, configured, actions]: targets is a set of target IDs,          *)
(* configured maps target IDs to statuses and actions is a sequence of     *)
(* [target, suite].  A suite is a sequence of tests with properties,       *)
(* [name, props, tests], and a test is either such a suite or a case       *)
(* [name, class, props, result].  Lists of properties are sequences of     *)
(* [key, value].                                                           *)
EXTENDS BuildColumn

NoSuite == [kind |-> "none", tests |-> <<>>]

(* Statuses of ResultStore as those of TestGrid.                           *)
convertStatus ==
    [UNSPECIFIED |-> "NO_RESULT", BUILDING |-> "RUNNING", BUILT |-> "BUILD_PASSED",
     FAILED_TO_BUILD |-> "BUILD_FAIL", TESTING |-> "RUNNING", PASSED |-> "PASS", FAILED |-> "FAIL",
     TIMED_OUT |-> "TIMED_OUT", CANCELLED |-> "CANCEL", TOOL_FAILED |-> "TOOL_FAIL",
     INCOMPLETE |-> "UNKNOWN", FLAKY |-> "FLAKY", UNKNOWN |-> "UNKNOWN", SKIPPED |-> "PASS_WITH_SKIPS"]

includeStatus(tg, status) ==
    LET ignored == {"NO_RESULT"} \cup (IF tg.ignoreBuilt THEN {"BUILD_PASSED"} ELSE {})
                     \cup (IF tg.ignorePending THEN {"RUNNING"} ELSE {})
                     \cup (IF tg.ignoreSkip THEN {"PASS_WITH_SKIPS"} ELSE {})
    IN convertStatus[status] \notin ignored

(* collateRawResults and isolateActions: the suites of each target that is *)
(* also a configured target, one for each of its actions.                  *)
targetSuites(inv) ==
    [t \in inv.targets \cap DOMAIN inv.configured |->
       LET actions == SelectSeq(inv.actions, LAMBDA a : a.target = t)
       IN IF actions = <<>> THEN <<NoSuite>> ELSE [i \in DOMAIN actions |-> actions[i].suite]]

ValuesOf(props, key) == LET of == SelectSeq(props, LAMBDA p : p.key = key)
                        IN [i \in DOMAIN of |-> of[i].value]

(* The time in the group's format, which tells days apart.                 *)
FormatStrftime(tg, time) == <<IF time < tg.midnight THEN "day" ELSE "next day">>

identifyBuild(tg, inv) ==
    CASE tg.buildKey # "" -> LET v == ValuesOf(inv.props, tg.buildKey) IN IF v = <<>> THEN <<>> ELSE v[1]
      [] tg.buildKey = "" /\ tg.strftime -> FormatStrftime(tg, inv.start)
      [] OTHER -> <<>>

extractGroupID(tg, inv) == IF tg.byBuild THEN identifyBuild(tg, inv) ELSE inv.id
-----------------------------------------------------------------------------
(* Tests.                                                                  *)
RECURSIVE getTestResults(_), properties(_)

(* The cases of a suite; a suite with no tests stands for itself.          *)
getTestResults(suite) ==
    IF suite.kind = "none" THEN <<>>
    ELSE IF suite.tests = <<>> THEN <<suite>>
    ELSE FlattenSeq([i \in DOMAIN suite.tests |->
           IF suite.tests[i].kind = "case" THEN <<suite.tests[i]>> ELSE getTestResults(suite.tests[i])])

properties(test) ==
    IF test.kind = "none" THEN <<>>
    ELSE test.props \o (IF test.kind = "case" THEN <<>>
                        ELSE FlattenSeq([i \in DOMAIN test.tests |-> properties(test.tests[i])]))

(* fillProperties: one value for a key, "*" if its values differ.          *)
fillProperty(test, key) ==
    LET values == Range(IF test.kind = "case" THEN ValuesOf(test.props, key) ELSE <<>>)
    IN IF values = {} THEN <<>> ELSE IF Cardinality(values) > 1 THEN <<"*">> ELSE CHOOSE v \in values : TRUE

(* A regular expression that a group may have: "none", "bad" or the names  *)
(* that it matches.                                                        *)
Matches(re, name) == name \in re.names

filterResults(tests, tg) ==
    SelectSeq(tests, LAMBDA t :
      /\ \A i \in DOMAIN tg.methodProps : fillProperty(t, tg.methodProps[i].key) = tg.methodProps[i].value
      /\ tg.match.kind = "names" => Matches(tg.match, t.name)
      /\ tg.unmatch.kind = "names" => ~Matches(tg.unmatch, t.name))

Filtered(tg) == tg.methodProps # <<>> \/ tg.match.kind = "names" \/ tg.unmatch.kind = "names"

testMethodLimit(tg) == IF ~tg.enableMethods THEN 0
                       ELSE IF tg.maxMethods = 0 THEN MaxDuplicates ELSE tg.maxMethods

mapStatusToCellResult(case) ==
    CASE case.disabled \/ case.result \in {"SKIPPED", "SUPPRESSED"} -> "PASS_WITH_SKIPS"
      [] ~case.disabled /\ case.result \in {"CANCELLED", "INTERRUPTED"} -> "CANCEL"
      [] OTHER -> IF case.failed THEN "FAIL" ELSE "PASS"

(* cellMessageIcon: the value of the first annotated property of any case  *)
(* or else the first annotated tag of the target.                          *)
cellMessage(tg, suite, tags) ==
    LET cases == getTestResults(suite)
        props == FlattenSeq([i \in DOMAIN cases |-> cases[i].props])
        found == SelectSeq(tg.annotations, LAMBDA a : ValuesOf(props, a) # <<>>)
        tagged == SelectSeq(tags, LAMBDA t : t \in Range(tg.annotations))
    IN IF found # <<>> THEN ValuesOf(props, found[1])[1]
       ELSE IF tagged # <<>> THEN <<tagged[1]>> ELSE <<>>

(* A suite without tests is no case: reading its properties never ends, or *)
(* asking for its name panics.                                             *)
TestsPanic(suite) == \E t \in Range(getTestResults(suite)) : t.kind # "case"

methodCells(tg, target, inv, suite) ==
    LET tests == filterResults(getTestResults(suite), tg)
        NameOf(t) == <<target, "@">> \o (IF tg.fullNames THEN <<t.class>> ELSE <<>>) \o <<t.name>>
        CellOf(t) == [NewCell EXCEPT !.cellId = inv.id, !.res = mapStatusToCellResult(t),
                                     !.msg = cellMessage(tg, suite, inv.tags)]
        shown == SelectSeq(tests, LAMBDA t : ~(tg.ignoreSkip /\ mapStatusToCellResult(t) = "PASS_WITH_SKIPS"))
    IN IF Len(tests) > testMethodLimit(tg) THEN <<>>
       ELSE [i \in DOMAIN shown |-> [name |-> NameOf(shown[i]), cell |-> CellOf(shown[i])]]
-----------------------------------------------------------------------------
(* Columns.                                                                *)
TargetCell(tg, inv, status) ==
    LET override == CustomTargetStatus(tg.rules, convertStatus[status])
    IN [NewCell EXCEPT !.cellId = inv.id,
                       !.res = IF override = NoStatus THEN convertStatus[status] ELSE override]

(* A regular expression that does not compile shows in a row of its own.   *)
RegexCells(tg) ==
    LET Bad(re, row) == IF re.kind # "bad" THEN <<>>
                        ELSE <<[name |-> <<row>>, cell |-> [NewCell EXCEPT !.res = "TOOL_FAIL", !.msg = <<"regexp">>]]>>
    IN Bad(tg.match, "test_method_match_regex") \o Bad(tg.unmatch, "test_method_unmatch_regex")

(* The cells that one invocation adds.  The code reads the targets of an   *)
(* invocation in no order, which makes no difference: they differ in name. *)
invocationCells(tg, inv) ==
    LET suites == targetSuites(inv)
        Of(t) == IF ~includeStatus(tg, inv.configured[t]) THEN <<>>
                 ELSE FlattenSeq([i \in DOMAIN suites[t] |->
                        <<[name |-> <<t>>, cell |-> TargetCell(tg, inv, inv.configured[t])]>>
                          \o methodCells(tg, t, inv, suites[t][i])])
        targets == SetToSeq(DOMAIN suites)
    IN RegexCells(tg) \o FlattenSeq([i \in DOMAIN targets |-> Of(targets[i])])

invocationPanics(tg, inv) ==
    LET suites == targetSuites(inv)
    IN \E t \in DOMAIN suites : /\ includeStatus(tg, inv.configured[t])
                                /\ \E i \in DOMAIN suites[t] : TestsPanic(suites[t][i])

(* The values that an invocation gives for a header; those of a target     *)
(* count unless the filter of tests leaves nothing of it.                  *)
headerValues(tg, inv, h) ==
    LET suites == targetSuites(inv)
        own == CASE h.kind = "value" -> ValuesOf(inv.props, h.key)
                 [] h.kind = "label" -> ValuesOf(inv.labels, h.key)
                 [] OTHER -> <<>>
        OfSuite(s) == IF Filtered(tg) /\ filterResults(getTestResults(s), tg) = <<>> THEN <<>>
                      ELSE ValuesOf(properties(s), h.key)
        included == SetToSeq({ t \in DOMAIN suites : includeStatus(tg, inv.configured[t]) })
    IN own \o (IF h.kind # "property" THEN <<>>
               ELSE FlattenSeq([i \in DOMAIN included |->
                      FlattenSeq([j \in DOMAIN suites[included[i]] |-> OfSuite(suites[included[i]][j])])]))

(* compileHeaders: one value, all of them, or "*".                         *)
compileHeader(h, values) ==
    CASE values = <<>> -> <<>>
      [] Len(values) = 1 -> values[1]
      [] OTHER -> IF h.listAll THEN FlattenSeq(SetToSeq(Range(values))) ELSE <<"*">>

(* processGroup: invocations of one group, newest first.                   *)
processGroup(tg, group) ==
    LET starts == { group[i].start : i \in DOMAIN group }
        all == FlattenSeq([i \in DOMAIN group |-> invocationCells(tg, group[i])])
        cells == [name \in { all[i].name : i \in DOMAIN all } |->
                    LET of == SelectSeq(all, LAMBDA n : n.name = name)
                    IN [i \in DOMAIN of |-> of[i].cell]]
        last == group[Len(group)]
        build == identifyBuild(tg, last)
    IN { [name |-> extractGroupID(tg, last),
          build |-> IF build # <<>> THEN build ELSE extractGroupID(tg, last),
          started |-> Min(starts), hint |-> Max(starts),
          extra |-> [i \in DOMAIN tg.headers |->
                       compileHeader(tg.headers[i],
                         FlattenSeq([j \in DOMAIN group |-> headerValues(tg, group[j], tg.headers[i])]))],
          cells |-> c] : c \in SplitAll(cells) }

(* groupInvocations: the groups in the order of their newest invocations.  *)
(* Those that start together are in no particular order in the code.       *)
groupInvocations(tg, invs) ==
    LET sorted == SortSeq(invs, LAMBDA a, b : a.start > b.start)
        Of(i) == SelectSeq(sorted, LAMBDA v : extractGroupID(tg, v) = extractGroupID(tg, sorted[i]))
        firsts == SelectSeq([i \in DOMAIN sorted |-> i], LAMBDA i : Of(i)[1] = sorted[i])
    IN [k \in DOMAIN firsts |-> Of(firsts[k])]
-----------------------------------------------------------------------------
(* Where to start searching.  Times are minutes.                           *)
mostRecent(times) == Max(times \cup {0})

(* The most recent time that the columns which have one know of.           *)
stopFromColumns(cols) ==
    mostRecent(UNION { {cols[i].started, cols[i].hint} : i \in { j \in DOMAIN cols : cols[j].started # 0 } })

(* The stop that is moved back for groups of builds is computed but not    *)
(* kept.                                                                   *)
updateStop(tg, now, cols, defaultStop, reprocess) ==
    LET stop == mostRecent({stopFromColumns(cols), defaultStop, now - 2 * tg.days})
    IN Min({stop, now - reprocess})
=============================================================================
