------------------------------ MODULE TabGrid -------------------------------
(* What the tabulator makes of a grid for a tab (pkg/tabulator).           *)
EXTENDS GridRows, Selection

(* A tab's filters are the row names that each of its regular expressions  *)
(* matches; with one that does not compile, valid is FALSE.                *)
filterGrid(rows, base) ==
    Restrict(rows, { n \in DOMAIN rows : /\ \A re \in base.include : n \in re
                                         /\ \A re \in base.exclude : n \notin re })

HasResult(inflated) ==
    \E n \in DOMAIN inflated.cells : inflated.cells[n].res # "NO_RESULT"

(* Drops every column that has no results, but keeps one of them.          *)
dropEmptyColumns(cols) ==
    LET result == Select(cols, { i \in DOMAIN cols : HasResult(cols[i]) })
    IN IF result = <<>> /\ cols # <<>> THEN SubSeq(cols, 1, 1) ELSE result

(* A turn of the binary search of mergeGrids.  The column that is looked   *)
(* for is at min (from 0) or later; the last ones, late of them, start at  *)
(* seam or before.                                                         *)
Halve(found, s) ==
    LET n == Len(s.existing)
        max == n - found.late
        check == (found.min + max) \div 2
    IN IF found.min = max THEN found
       ELSE IF s.existing[check + 1].col.started <= s.seam THEN [found EXCEPT !.late = n - check]
       ELSE [found EXCEPT !.min = check + 1]
Searching == INSTANCE Fold WITH Step <- Halve

(* The first column of existing, from 0, that starts at seam or before:    *)
(* there are no more turns than columns.                                   *)
Seam(existing, seam) ==
    Searching!Fold([min |-> 0, late |-> 0], [i \in DOMAIN existing |-> [existing |-> existing, seam |-> seam]]).min

(* A variant with a bug: the old grid is joined after its column at seam.  *)
mergeGridsAfterSeam(existing, addition) ==
    IF addition = <<>> THEN existing
    ELSE LET max == Seam(existing, Last(addition).col.started)
         IN IF max = Len(existing) THEN addition
            ELSE Front(addition) \o SubSeq(existing, max + 2, Len(existing))

(* A variant with a bug: the last new column is kept as well.              *)
mergeGridsWhole(existing, addition) ==
    IF addition = <<>> THEN existing
    ELSE LET max == Seam(existing, Last(addition).col.started)
         IN addition \o SubSeq(existing, max + 1, Len(existing))

(* A variant with a bug: a tab that is as new as the grid is left alone.   *)
mergeGridsIfNewer(existing, addition) ==
    IF addition = <<>> THEN existing
    ELSE IF existing # <<>> /\ existing[1].col.started >= addition[1].col.started THEN existing
    ELSE Front(addition) \o SubSeq(existing, 1 + Seam(existing, Last(addition).col.started), Len(existing))

(* mergeGrids: the last column of addition, which the updater truncated,   *)
(* gives way to the existing results of that time.                         *)
mergeGrids(existing, addition) ==
    IF addition = <<>> THEN existing
    ELSE LET max == Seam(existing, Last(addition).col.started)
         IN IF max = Len(existing) THEN addition
            ELSE Front(addition) \o SubSeq(existing, max + 1, Len(existing))

(* What tabulate makes of columns, for a tab whose filters are valid.      *)
(* existing is what the tab has if it is to be extended, and else empty.   *)
tabColumns(cols, base, existing) ==
    mergeGrids(existing,
               dropEmptyColumns([i \in DOMAIN cols |-> [cols[i] EXCEPT !.cells = filterGrid(@, base)]]))

tabulate(grid, tab, existing) ==
    ConstructGrid(tabColumns(Inflate(grid), tab.base, Inflate(existing)),
                  Issues([rows |-> filterGrid(grid.rows, tab.base)]), tab.alerting, tab.brokenThreshold)
=============================================================================
