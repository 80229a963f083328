--------------------------- MODULE StateComparer ----------------------------
(* What cmd/state_comparer says of two grids: the rows and columns of each *)
(* are counted by name, and the counts are compared.                       *)
EXTENDS GridRows

CONSTANT BaseName           \* maps a row's name to it without the suffix of a duplicate

(* Rows without a recent result and those of methods are passed over, and  *)
(* of a column only the build and the headers count.                       *)
rowsAndColumns(grid, recent) ==
    LET Count(S, Key(_)) == [k \in { Key(x) : x \in S } |-> Cardinality({ x \in S : Key(x) = k })]
        Stale(row) == /\ recent # 0 /\ row.results # <<>>
                      /\ row.results[1].res = "NO_RESULT" /\ row.results[1].n >= recent
        names == { n \in DOMAIN grid.rows \ MethodRows : ~Stale(grid.rows[n]) }
    IN [rows |-> Count(names, LAMBDA n : BaseName[n]),
        columns |-> Count(DOMAIN grid.columns, LAMBDA i : <<grid.columns[i].build, grid.columns[i].extra>>)]

(* The lines of cmp.Diff for one side, and the more of both.               *)
Differing(m, other) == { k \in DOMAIN m : k \notin DOMAIN other \/ m[k] # other[k] }
numDiff(first, second) ==
    Max({Cardinality(Differing(first, second)), Cardinality(Differing(second, first))})

(* Whether too many, in percent of the larger map, differ.                 *)
Exceeding(first, second, ok) ==
    100 * numDiff(first, second) > ok * Max({Cardinality(DOMAIN first), Cardinality(DOMAIN second)})

compareKeys(first, second, ok) ==
    LET Keys(m) == [k \in DOMAIN m |-> TRUE] IN Exceeding(Keys(first), Keys(second), ok)

(* The sum of the counts.                                                  *)
Total(m) == Cardinality(UNION { {k} \X (1 .. m[k]) : k \in DOMAIN m })

(* The reason that is reported: duplicates on the side with more in total, *)
(* if the same names are on both.                                          *)
reportDiff(first, second, ok) ==
    CASE ~Exceeding(first, second, ok) -> "none"
      [] Exceeding(first, second, ok) /\ compareKeys(first, second, ok) -> "other"
      [] OTHER -> IF Total(first) > Total(second) THEN "firstHasDuplicates"
                  ELSE "secondHasDuplicates"

compare(first, second, ok, recent) ==
    LET f == rowsAndColumns(first, recent)
        s == rowsAndColumns(second, recent)
        ignored == \/ f.rows = <<>> /\ s.rows = <<>>
                   \/ f.columns = <<>> /\ Cardinality(DOMAIN s.columns) <= 1
    IN IF ignored THEN [rows |-> "none", columns |-> "none"]
       ELSE [rows |-> reportDiff(f.rows, s.rows, ok), columns |-> reportDiff(f.columns, s.columns, ok)]
=============================================================================
