---------------------------- MODULE BuildColumn -----------------------------
(* How the files of a build become a column (pkg/updater/gcs.go and        *)
(* read.go, metadata, metadata/junit and the pod summary of util/gcs).     *)
(*                                                                         *)
(* Strings are sequences of words, <<>> being the empty one; names that    *)
(* are joined by dots or formatted together are concatenated.  A cell is   *)
(* [res, cellId, msg, metrics, user, issues] with metrics the set of names *)
(* it measures; icons are left out.  Times are hours.                      *)
EXTENDS CustomEvaluator, Results, FiniteSets, FiniteSetsExt, Functions

CONSTANTS
    Numbers,            \* the words that parse as numbers
    MaxDuplicates       \* maxDuplicates: cells of one name that are kept

NoTime == -1            \* a timestamp that is nil

(* dotName, and the join of a name with its suffix.                        *)
dotName(left, right) == left \o right
-----------------------------------------------------------------------------
(* The junit file.  A test is [name, timed, errored, failure, skipped,     *)
(* stderr, stdout, props]; an element that may be missing is [is, message, *)
(* value] and props maps names to sequences of values.                     *)
composeMessage(e) == e.message \o e.value

Says(e) == e.is /\ composeMessage(e) # <<>>

Message(r) ==
    CASE Says(r.errored) -> composeMessage(r.errored)
      [] ~Says(r.errored) /\ Says(r.failure) -> composeMessage(r.failure)
      [] ~Says(r.errored) /\ ~Says(r.failure) /\ Says(r.skipped) -> composeMessage(r.skipped)
      [] OTHER -> IF r.stderr # <<>> THEN r.stderr ELSE r.stdout

(* The tests of a suite [name, suites, results] and of all suites in it.   *)
RECURSIVE flattenResults(_)
flattenResults(suites) ==
    IF suites = <<>> THEN <<>>
    ELSE LET suite == Head(suites)
             Named(x) == [x EXCEPT !.name = dotName(suite.name, @)]
             inner == [i \in DOMAIN suite.suites |-> Named(suite.suites[i])]
         IN flattenResults(inner)
              \o [i \in DOMAIN suite.results |-> Named(suite.results[i])]
              \o flattenResults(Tail(suites))

(* Means: the properties that have a number among their values.            *)
Means(props) == { p \in DOMAIN props : \E i \in DOMAIN props[p] : props[p][i] \in Numbers }

firstOf(props) == [p \in { q \in DOMAIN props : props[q] # <<>> } |-> props[p][1]]
-----------------------------------------------------------------------------
(* The metadata files.  Metadata maps keys to [kind, val].                 *)
Strings(metadata) == [k \in { q \in DOMAIN metadata : metadata[q].kind = "string" } |-> metadata[k].val]

(* MultiString: a list of which one element is not a string counts as none.*)
MultiString(metadata, name) ==
    IF name \in DOMAIN metadata /\ metadata[name].kind = "list" THEN metadata[name].val ELSE <<>>

firstFilled(options) ==
    LET filled == SelectSeq(options, LAMBDA o : o # <<>>) IN IF filled = <<>> THEN <<>> ELSE filled[1]

VersionKeys == {"revision", "repo-commit", "job-version"}

(* A value that is not a string is dereferenced all the same.              *)
VersionPanics(finished) ==
    \E k \in VersionKeys \cap DOMAIN finished.metadata : finished.metadata[k].kind # "string"

Missing == <<"missing">>
Version(started, finished) ==
    LET strings == Strings(finished.metadata)
        meta(k) == IF k \in DOMAIN strings THEN strings[k] ELSE <<>>
    IN firstFilled(<<finished.jobVersion, started.jobVersion, started.repoVersion, finished.repoVersion,
                     meta("revision"), meta("repo-commit"), meta("job-version"), started.repoCommit,
                     Missing>>)
-----------------------------------------------------------------------------
(* podinfo.json: a pod is [phase, scheduled, initialized, init, containers]*)
(* with conditions "True", "False" or "absent", and a container is [name,  *)
(* state] with one of the states below.                                    *)
NoPod == [phase |-> "missing"]
MissingPodInfo == <<"missing podinfo">>
NoPodUtils == <<"no pod utils">>

checkContainerStatus(c) == c.state \notin {"waiting", "running", "failed"}

(* Only the sidecar, or a container that has not stopped, fails a pod.     *)
Summarize(pod) ==
    LET Failed(what) == [pass |-> FALSE, msg |-> <<what>>]
        Breaks(c) == ~checkContainerStatus(c) /\ (c.name = "sidecar" \/ c.state # "failed")
    IN CASE pod = NoPod -> [pass |-> FALSE, msg |-> MissingPodInfo]
         [] pod # NoPod /\ pod.phase = "Succeeded" -> [pass |-> TRUE, msg |-> <<>>]
         [] OTHER ->
              IF pod.scheduled = "False" THEN Failed("did not schedule")
              ELSE IF pod.initialized = "False" THEN Failed("could not initialize")
              ELSE IF \E i \in DOMAIN pod.init : ~checkContainerStatus(pod.init[i]) THEN Failed("init container")
              ELSE IF \E i \in DOMAIN pod.containers : Breaks(pod.containers[i]) THEN Failed("container")
              ELSE [pass |-> TRUE,
                    msg |-> IF \E i \in DOMAIN pod.containers : pod.containers[i].name = "sidecar"
                              THEN <<>> ELSE NoPodUtils]
-----------------------------------------------------------------------------
(* Cells.                                                                  *)
NewCell == [res |-> "NO_RESULT", cellId |-> <<>>, msg |-> <<>>, metrics |-> {}, user |-> <<>>, issues |-> {}]

(* The result of a build is [job, started, finished, pod, suites,          *)
(* malformed]; the clock reads now.                                        *)
deadline(result) == IF result.finished.timestamp = NoTime THEN result.started.timestamp + 24
                    ELSE result.finished.timestamp + 1

overallCell(result, now) ==
    LET f == result.finished
        passed == f.passed = "true" \/ (f.passed = "nil" /\ f.result = <<"SUCCESS">>)
        Cell(res, msg) == [NewCell EXCEPT !.res = res, !.msg = msg]
    IN IF result.malformed # {} THEN Cell("FAIL", <<"malformed">>)
       ELSE IF f.timestamp > 0
         THEN [Cell(IF passed THEN "PASS" ELSE "FAIL",
                    IF f.passed = "nil" /\ f.result # <<>> THEN <<"missing passed">> ELSE <<>>)
                 EXCEPT !.metrics = {"elapsed"}]
       ELSE IF now > deadline(result) THEN Cell("FAIL", <<"did not complete">>)
       ELSE Cell("RUNNING", <<"still running">>)

podInfoCell(result, now) ==
    LET sum == Summarize(result.pod)
    IN [NewCell EXCEPT
          !.msg = sum.msg,
          !.res = CASE sum.msg = MissingPodInfo -> IF now < deadline(result) THEN "RUNNING" ELSE "PASS_WITH_SKIPS"
                    [] sum.msg # MissingPodInfo /\ sum.pass -> "PASS"
                    [] OTHER -> "FAIL"]

ignoreStatus(opt, status) == status = "NO_RESULT" \/ (opt.ignoreSkip /\ status = "PASS_WITH_SKIPS")

(* Ginkgo reports every test that is not in focus as skipped.              *)
SkippedSilently(r) == r.skipped.is /\ r.skipped.value = <<>> /\ r.skipped.message \in {<<>>, <<"skipped">>}

testCell(r, cellId, opt) ==
    LET override == CustomStatus(opt.rules, r)
        own == IF r.errored.is \/ r.failure.is THEN "FAIL"
               ELSE IF r.skipped.is THEN "PASS_WITH_SKIPS" ELSE "PASS"
    IN [NewCell EXCEPT
          !.cellId = cellId,
          !.metrics = Means(r.props) \cup (IF r.timed THEN {"elapsed"} ELSE {}),
          !.msg = Message(r),
          !.res = IF override = NoStatus THEN own ELSE override,
          !.user = IF opt.userKey \in DOMAIN firstOf(r.props) THEN firstOf(r.props)[opt.userKey] ELSE <<>>]

(* The worst result of the cells.                                          *)
Worst(cells) == LET res == { cells[i].res : i \in DOMAIN cells }
                IN CHOOSE r \in res : \A s \in res : GTE(r, s)

(* The message of the last cell of the kind that has one and is no less    *)
(* severe than the first cell and the messages before it.                  *)
MessageAmong(cells, Kind(_)) ==
    LET seen[i \in 0 .. Len(cells)] ==
          IF i = 0 THEN [msg |-> <<>>, res |-> cells[1].res]
          ELSE LET c == cells[i]
               IN IF Kind(c.res) /\ c.msg # <<>> /\ GTE(c.res, seen[i - 1].res)
                    THEN [msg |-> c.msg, res |-> c.res] ELSE seen[i - 1]
    IN seen[Len(cells)].msg

MergeCells(flaky, cells) ==
    LET Has(Kind(_)) == \E i \in DOMAIN cells : Kind(cells[i].res)
        failMsg == MessageAmong(cells, Failing)
        All(field(_)) == UNION { field(cells[i]) : i \in DOMAIN cells }
    IN IF Len(cells) = 1 THEN cells[1]
       ELSE [cells[1] EXCEPT
               !.res = IF flaky /\ Has(Passing) /\ Has(Failing) THEN "FLAKY" ELSE Worst(cells),
               !.msg = <<"runs passed">> \o (IF failMsg # <<>> THEN failMsg ELSE MessageAmong(cells, Passing)),
               !.metrics = All(LAMBDA c : c.metrics),
               !.issues = All(LAMBDA c : c.issues)]

overflowCell == [NewCell EXCEPT !.res = "FAIL", !.msg = <<"too many duplicates">>]

Suffix(i) == <<"[1]", "[2]", "[3]">>[i]

(* SplitCells: foo, foo [1], foo [2], ... foo [overflow].                  *)
SplitCells(name, cells) ==
    LET n == Min({Len(cells), MaxDuplicates})
        NameOf(i) == IF i = 1 THEN name ELSE Append(name, Suffix(i - 1))
        kept == [m \in { NameOf(i) : i \in 1 .. n } |-> cells[CHOOSE i \in 1 .. n : NameOf(i) = m]]
    IN IF Len(cells) <= MaxDuplicates THEN kept
       ELSE [m \in DOMAIN kept \cup {Append(name, "[overflow]")} |->
               IF m \in DOMAIN kept THEN kept[m] ELSE overflowCell]

(* The cells of all names under one name each.  A test may have the very   *)
(* name that another one's duplicate gets; which of the two is kept        *)
(* depends on the order in which a map is read.                            *)
SplitAll(cells) ==
    LET split == [name \in DOMAIN cells |-> SplitCells(name, cells[name])]
        names == UNION { DOMAIN split[name] : name \in DOMAIN split }
        Duplicated(m) == Len(m) > 1 /\ Front(m) \in DOMAIN split /\ m \in DOMAIN split[Front(m)]
        clashes == { m \in DOMAIN split : Duplicated(m) }
    IN { [m \in names |-> IF m \in DOMAIN split \ lost THEN split[m][m] ELSE split[Front(m)][m]] :
         lost \in SUBSET clashes }
-----------------------------------------------------------------------------
(* Names.  A configuration of names is [parts, multiJob].                  *)
ensureJobName(parts) == IF "Job name" \in Range(parts) THEN parts ELSE <<"Job name">> \o parts

(* A group of several prefixes has its cells named after their jobs.       *)
makeNameConfig(group) ==
    [multiJob |-> group.multiJob,
     parts |-> IF group.multiJob THEN ensureJobName(group.nameParts) ELSE group.nameParts]

render(nameCfg, job, test, metadatas) ==
    LET Value(p) == CASE p = "Job name" -> job
                      [] p = "Tests name" -> test
                      [] OTHER ->
                           LET having == SelectSeq(metadatas, LAMBDA m : p \in DOMAIN m)
                           IN IF having = <<>> THEN <<>> ELSE having[1][p]
    IN FlattenSeq([i \in DOMAIN nameCfg.parts |-> Value(nameCfg.parts[i])])
-----------------------------------------------------------------------------
NotExplained(overall, named) ==
    /\ overall.res = "FAIL" /\ overall.msg = <<>>
    /\ \A i \in DOMAIN named : named[i].cell.res # "FAIL"

(* A variant with a bug: any cell explains the failure of the build.       *)
ExplainAlways(overall, named) == overall

(* A failing build has a failing cell or a message.                        *)
Explain(overall, named) ==
    IF NotExplained(overall, named)
      THEN [overall EXCEPT !.msg = <<"failed outside of test results">>] ELSE overall

(* The cells of the tests, with their names, in the order of the files.    *)
NamedCells(nameCfg, cellId, result, opt) ==
    LET Of(file) ==
          LET tests == SelectSeq(flattenResults(file.suites), LAMBDA r : ~SkippedSilently(r))
              all == [i \in DOMAIN tests |->
                        [cell |-> testCell(tests[i], cellId, opt),
                         name |-> render(nameCfg, result.job, tests[i].name,
                                         <<firstOf(tests[i].props), file.metadata,
                                           Strings(result.finished.metadata)>>)]]
          IN SelectSeq(all, LAMBDA n : ~ignoreStatus(opt, n.cell.res))
    IN FlattenSeq([i \in DOMAIN result.suites |-> Of(result.suites[i])])

(* A rule or the version of the build may make the conversion panic.       *)
ConvertPanics(result, opt) ==
    \/ VersionPanics(result.finished)
    \/ \E f \in Range(result.suites) : \E r \in Range(flattenResults(f.suites)) :
         ~SkippedSilently(r) /\ CustomStatus(opt.rules, r) = "panic"

(* convertResult: the columns that a result may become.                    *)
convertResult(nameCfg, id, headers, result, opt, now) ==
    LET cellId == IF nameCfg.multiJob THEN result.job \o id ELSE IF opt.addCellID THEN id ELSE <<>>
        named == NamedCells(nameCfg, cellId, result, opt)
        overall == Explain(overallCell(result, now), named)
        pod == podInfoCell(result, now)
        withPod == opt.analyzeProwJob /\ ~(pod.msg = MissingPodInfo /\ overall.res = "RUNNING")
        InjectedAs(row, cell) ==
          LET c == [cell EXCEPT !.cellId = cellId]
          IN <<[name |-> result.job \o <<row>>, cell |-> c]>>
               \o (IF nameCfg.multiJob THEN <<[name |-> <<row>>, cell |-> c]>> ELSE <<>>)
        all == InjectedAs("Overall", overall)
                 \o (IF withPod THEN InjectedAs("Pod", pod) ELSE <<>>) \o named
        cells == [name \in { all[i].name : i \in DOMAIN all } |->
                    LET of == SelectSeq(all, LAMBDA n : n.name = name)
                    IN [i \in DOMAIN of |-> of[i].cell]]
        meta == Strings(result.finished.metadata)
        Header(h) == IF h \in DOMAIN meta THEN meta[h]
                     ELSE IF h = "Commit" /\ Version(result.started, result.finished) # Missing
                       THEN Version(result.started, result.finished)
                     ELSE IF overall.res # "RUNNING" THEN Missing ELSE <<>>
        build == IF opt.buildKey = "" THEN id
                 ELSE IF opt.buildKey \in DOMAIN meta THEN meta[opt.buildKey] ELSE <<>>
    IN { [build |-> build, hint |-> id, started |-> result.started.timestamp,
          extra |-> [i \in DOMAIN headers |-> Header(headers[i])],
          emails |-> MultiString(result.finished.metadata, "EmailAddresses"),
          cells |-> c] :
         c \in IF opt.merge THEN { [name \in DOMAIN cells |-> MergeCells(TRUE, cells[name])] }
               ELSE SplitAll(cells) }

(* The columns that stand for a build that was not read.                   *)
errorColumn(id, when, extra, res) ==
    [build |-> id, hint |-> id, started |-> when, extra |-> extra, emails |-> <<>>,
     cells |-> [name \in {<<"Overall">>} |-> [NewCell EXCEPT !.res = res, !.msg = <<"not read">>]]]
ancientColumn(id, when, extra) == errorColumn(id, when, extra, "UNKNOWN")
noStartColumn(id, when, extra) == errorColumn(id, when, extra, "RUNNING")
erroredColumn(id, when, extra) == errorColumn(id, when, extra, "TOOL_FAIL")
-----------------------------------------------------------------------------
(* groupColumns: columns of the same name and build become one, in the     *)
(* place of the first.                                                     *)
mergeExtra(group, old, new, i) ==
    CASE new = <<>> \/ new = old -> old
      [] old = <<>> /\ new # <<>> -> new
      [] OTHER -> IF group.headers[i].listAll THEN FlattenSeq(SetToSeq(Range(old) \cup Range(new))) ELSE <<"*">>

(* The columns that a group of columns may become.                         *)
mergeGroup(group, cols) ==
    LET names == UNION { DOMAIN cols[i].cells : i \in DOMAIN cols }
        cells == [name \in names |->
                    LET having == SelectSeq(cols, LAMBDA c : name \in DOMAIN c.cells)
                    IN [i \in DOMAIN having |-> having[i].cells[name]]]
        extra[k \in DOMAIN cols] ==
          IF k = 1 THEN cols[1].extra
          ELSE [i \in DOMAIN extra[k - 1] |-> mergeExtra(group, extra[k - 1][i], cols[k].extra[i], i)]
        Of(c) == [cols[1] EXCEPT !.started = Min({ cols[i].started : i \in DOMAIN cols }),
                                 !.hint = Max({ cols[i].hint : i \in DOMAIN cols }),
                                 !.extra = extra[Len(cols)], !.cells = c]
    IN IF Len(cols) = 1 THEN {cols[1]}
       ELSE { Of(c) : c \in IF group.ignoreOldResults
                              THEN { [name \in names |-> cells[name][1]] } ELSE SplitAll(cells) }

groupColumns(group, cols) ==
    LET Same(c, d) == c.name = d.name /\ c.build = d.build
        Of(i) == SelectSeq(cols, LAMBDA c : Same(c, cols[i]))
        firsts == SelectSeq([i \in DOMAIN cols |-> i], LAMBDA i : \A j \in 1 .. i - 1 : ~Same(cols[j], cols[i]))
        upTo[k \in 0 .. Len(firsts)] ==
          IF k = 0 THEN {<<>>}
          ELSE { Append(out, c) : out \in upTo[k - 1], c \in mergeGroup(group, Of(firsts[k])) }
    IN upTo[Len(firsts)]
=============================================================================
