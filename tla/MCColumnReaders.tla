-------------------------- MODULE MCColumnReaders ---------------------------
EXTENDS ColumnReaders

NoRegex == [kind |-> "none", names |-> {}]

MCHeaders == <<"Commit">>
MCBuildId == <<"id">>
MCNumbers == {<<"1">>}

(* ResultStore *)
Invocation(status) ==
    [id |-> <<>>, start |-> 0, props |-> <<[key |-> "build", value |-> <<"b1">>]>>,
     labels |-> <<[key |-> "prow", value |-> <<>>]>>, tags |-> <<"flaky">>, targets |-> {"t"}, configured |-> [t |-> status],
     actions |-> <<[target |-> "t",
                    suite |-> [kind |-> "suite", name |-> "s", props |-> <<>>,
                               tests |-> <<[kind |-> "case", name |-> "m", class |-> "c", props |-> <<>>,
                                            disabled |-> FALSE, failed |-> TRUE, result |-> "COMPLETED"]>>]]>>]
MCTemplates == {Invocation("PASSED"), Invocation("TESTING"), [Invocation("PASSED") EXCEPT !.labels = <<>>]}
MCGroup == [query |-> "t", byBuild |-> FALSE, buildKey |-> "build", strftime |-> TRUE, midnight |-> 3,
            ignoreBuilt |-> FALSE, ignorePending |-> FALSE, ignoreSkip |-> FALSE, rules |-> <<>>,
            headers |-> <<[kind |-> "value", key |-> "build", listAll |-> FALSE]>>,
            enableMethods |-> TRUE, maxMethods |-> 0, fullNames |-> FALSE, methodProps |-> <<>>,
            match |-> NoRegex, unmatch |-> [kind |-> "bad", names |-> {}],
            annotations |-> <<"flaky">>, days |-> 100, ignoreOldResults |-> FALSE]

(* One build *)
Bucket(started, finished, pod, arts, fails) ==
    [started |-> started, finished |-> finished, podinfo |-> pod, artifacts |-> arts,
     fails |-> fails, listed |-> IF fails THEN 1 ELSE Len(arts)]
MCFiles == { Bucket("ok", "ok", "missing", <<"junit", "bad">>, FALSE),
             Bucket("zero", "missing", "error", <<"other">>, FALSE),
             Bucket("old", "eof", "eof", <<>>, FALSE),
             Bucket("ok", "ok", "ok", <<"junit", "junit">>, TRUE) }

(* The pool *)
MCNumBuilds == [g \in Groups |-> IF g = CHOOSE x \in Groups : TRUE THEN 2 ELSE 1]
MCOutcomes == [g \in Groups |-> IF g = CHOOSE x \in Groups : TRUE THEN {"good", "ancient"} ELSE {"good"}]

(* Conversions *)
Not == [is |-> FALSE, message |-> <<>>, value |-> <<>>]
Is(m) == [is |-> TRUE, message |-> m, value |-> <<>>]
Test(name) == [name |-> name, timed |-> TRUE, errored |-> Not, failure |-> Not, skipped |-> Not,
               stderr |-> <<>>, stdout |-> <<>>, props |-> [owner |-> <<<<"1">>>>]]
MCTests == { Test(<<"a">>),
             [Test(<<"a">>) EXCEPT !.failure = Is(<<>>)],
             [Test(<<"a", "[1]">>) EXCEPT !.errored = Is(<<"oops">>)],
             [Test(<<"job", "Overall">>) EXCEPT !.skipped = Is(<<"why">>), !.stdout = <<"out">>],
             [Test(<<"b">>) EXCEPT !.skipped = Is(<<"skipped">>)] }
MCSuites == { <<[metadata |-> [Context |-> <<"ctx">>],
                 suites |-> <<[name |-> <<>>, suites |-> <<[name |-> <<>>, suites |-> <<>>, results |-> inner]>>,
                               results |-> outer]>>]>> :
              inner \in {<<>>} \cup { <<t>> : t \in MCTests },
              outer \in {<<>>} \cup { <<t>> : t \in MCTests } \cup { <<t, t>> : t \in MCTests } }

Fin(time, passed, res, meta) ==
    [timestamp |-> time, passed |-> passed, result |-> res, metadata |-> meta,
     jobVersion |-> <<>>, repoVersion |-> <<>>]
MCFinished == { Fin(NoTime, "nil", <<>>, <<>>), Fin(5, "true", <<>>, <<>>), Fin(5, "false", <<>>, <<>>),
                Fin(5, "nil", <<"SUCCESS">>, [revision |-> [kind |-> "string", val |-> <<"v1">>]]),
                Fin(0, "nil", <<>>, [revision |-> [kind |-> "list", val |-> <<>>]]) }
Box(name, state) == [name |-> name, state |-> state]
MCPods == { NoPod,
            [phase |-> "Failed", scheduled |-> "True", initialized |-> "absent", init |-> <<Box("i", "passed")>>,
             containers |-> <<Box("test", "failed"), Box("sidecar", "passed")>>],
            [phase |-> "Pending", scheduled |-> "False", initialized |-> "False", init |-> <<>>, containers |-> <<>>] }
Opt(merge, skip, rules) ==
    [merge |-> merge, ignoreSkip |-> skip, rules |-> rules, analyzeProwJob |-> TRUE, addCellID |-> TRUE,
     userKey |-> "owner", buildKey |-> IF merge THEN "" ELSE "revision"]
Rule == [status |-> "CATEGORIZED_FAIL",
         comparisons |-> <<[op |-> "STARTS_WITH", of |-> "field", key |-> "name", str |-> <<"a", "x">>,
                            num |-> 0, matches |-> {}, status |-> "PASS"],
                           [op |-> "EQ", of |-> "field", key |-> "failure_count", str |-> <<>>,
                            num |-> 1, matches |-> {}, status |-> "PASS"]>>]
MCOptions == { Opt(TRUE, FALSE, <<>>), Opt(TRUE, TRUE, <<Rule>>), Opt(FALSE, FALSE, <<>>) }
MCInputs ==
    { [res |-> [job |-> <<"job">>, pod |-> pod, suites |-> suites, malformed |-> bad, finished |-> fin,
                started |-> [timestamp |-> 4, jobVersion |-> <<>>, repoVersion |-> <<>>, repoCommit |-> <<"c">>]],
       opt |-> opt,
       group |-> [multiJob |-> multi,
                  nameParts |-> IF multi THEN <<"Context", "Tests name">> ELSE <<"Tests name">>]] :
      pod \in MCPods, suites \in MCSuites, fin \in MCFinished, opt \in MCOptions,
      <<bad, multi>> \in {<<{}, TRUE>>, <<{"started"}, FALSE>>} }
=============================================================================
