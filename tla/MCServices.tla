----------------------------- MODULE MCServices -----------------------------
EXTENDS Services

Words == {"foo", "Foo", "bar", "dash", "tab", "grp", "k", "q", "2", "-", "/", "!", "a", "b"}
MCLower == [w \in Words |-> IF w = "Foo" THEN "foo" ELSE w]
MCLength == [w \in Words |-> 3]

Group(name, days) ==
    [TestGroupZero EXCEPT !.days = days] @@
    [name |-> name, gcsPrefix |-> "bucket", useKubernetesClient |-> FALSE, isExternal |-> FALSE,
     source |-> [kind |-> "none", project |-> "", query |-> "", gcsPrefix |-> "", subscription |-> ""],
     methodRegex |-> "", mailTo |-> "", metadataOptions |-> <<>>, notifications |-> <<>>,
     annotations |-> <<>>, fallback |-> "none", fallbackValue |-> "",
     nameConfig |-> [is |-> FALSE, elements |-> 0, format |-> "", slots |-> 0]]
Tab(name, group) ==
    TabZero @@ [name |-> name, testGroup |-> group, mailTo |-> "", maxFlakiness |-> 0,
                tabular |-> [text |-> "", named |-> 0, groups |-> 0]]
Dashboard(name, tabs) == [name |-> name, tabs |-> tabs]
Config(groups, dashboards, dashboardGroups) ==
    [groups |-> groups, dashboards |-> dashboards, dashboardGroups |-> dashboardGroups]
File(dir, base, c) == [dir |-> dir, base |-> base, yaml |-> TRUE, parses |-> TRUE, cfg |-> c]

MCOverall == [group |-> [Group(<<>>, 7) EXCEPT !.recent = 3], tab |-> [Tab(<<>>, <<>>) EXCEPT !.recent = 4]]
Other(dir, base, c) == [File(dir, base, c) EXCEPT !.yaml = FALSE]
Local == [group |-> [Group(<<>>, 1) EXCEPT !.recent = 2], tab |-> Tab(<<>>, <<>>)]

MCKeys == << <<"k">>, <<"q">> >>
One(group) == Config(<<Group(group, 0)>>, <<Dashboard(<<"dash">>, <<Tab(<<"tab">>, group)>>)>>,
                     <<[name |-> <<"grp">>, dashboards |-> << <<"dash">> >>]>>)
MCFiles ==
    << << <<File("x", "one", One(<<"foo">>))>>,
          <<File("x", "one", One(<<"Foo">>))>> >>,
       << <<File("y", "one", Config(<<Group(<<"foo">>, 0), Group(<<"bar">>, 2)>>, <<>>, <<>>)),
            File("y", "default", Local),
            File("z", "two", Config(<<>>, <<Dashboard(<<"dash">>, <<Tab(<<"tab">>, <<"foo">>), Tab(<<"a">>, <<"bar">>)>>)>>,
                                    <<[name |-> <<"grp">>, dashboards |-> << <<"dash">> >>]>>))>>,
          <<File("y", "one", One(<<"bar">>)), File("y", "default", Local), File("y", "default", Local)>>,
          <<File("y", "one", Config(<<Group(<<"foo">>, 0), Group(<<"bar">>, 0)>>,
                                    <<Dashboard(<<"dash">>, <<Tab(<<"tab">>, <<"foo">>)>>)>>, <<>>))>>,
          <<File("y", "one", One(<<"foo">>)), File("y", "default", [Local EXCEPT !.tab = NoDefaults])>>,
          <<File("y", "one", One(<<"q", "-", "foo">>)), Other("y", "default", NoDefaults)>> >> >>

(* The summarizer *)
Shown(tabs) == [i \in DOMAIN tabs |-> [name |-> tabs[i][1], testGroup |-> tabs[i][2]]]
Named(names) == [i \in DOMAIN names |-> [name |-> names[i]]]
MCDeployed ==
    << Config(Named(<< <<"foo">>, <<"bar">> >>),
              <<Dashboard(<<"a">>, Shown(<< << <<"tab">>, <<"bar">> >> >>))>>, <<>>),
       Config(Named(<< <<"foo">> >>), <<Dashboard(<<"b">>, Shown(<< << <<"tab">>, <<"foo">> >>, << <<"dash">>, <<"foo">> >> >>))>>, <<>>) >>
MCObjects == { << <<"bar">> >>, << <<"a">>, <<"tab">> >>, Unparseable }
Symmetry == Permutations(Workers)
=============================================================================
