---------------------------- MODULE MCTabulator -----------------------------
EXTENDS Tabulator

MCFilters == << [include |-> {}, exclude |-> {}], [include |-> {{"a", "b"}}, exclude |-> {{"b"}}] >>
Symmetry == Permutations(Writers)
=============================================================================
