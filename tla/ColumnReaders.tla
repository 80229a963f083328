--------------------------- MODULE ColumnReaders ----------------------------
(* The readers of columns: a behaviour is one of                           *)
(*   "convert"      one build's files made into a column (BuildColumn),    *)
(*   "build"        the download of one build's files (ReadBuild),         *)
(*   "columns"      the readers of several groups and their pool           *)
(*                  (ReadColumns),                                         *)
(*   "resultstore"  the updates of a ResultStore group (Resultstore).      *)
EXTENDS ReadBuild, ReadColumns, Resultstore

CONSTANTS
    Inputs,             \* bound: results of builds and options to convert
    Headers, BuildId, Now

VARIABLES
    mode,
    input, column       \* the conversion: what is converted, and the outcome

convertVars == <<input, column>>
readerVars == <<mode, convertVars, buildVars, columnVars, rsVars>>

NotYet == [state |-> "none"]
Panicked == [state |-> "panicked"]

Modes == {"convert", "build", "columns", "resultstore"}

ReadersInit ==
    /\ mode \in Modes
    /\ IF mode = "convert" THEN input \in Inputs ELSE input = NotYet
    /\ column = NotYet
    /\ ReadInit /\ (mode # "build" => files = CHOOSE f \in Files : TRUE)
    /\ ColumnsInit /\ RSInit

(* The goroutine of readColumns that makes a column of a result.           *)
Convert ==
    /\ column = NotYet
    /\ IF ConvertPanics(input.res, input.opt) THEN column' = Panicked
       ELSE \E col \in convertResult(makeNameConfig(input.group), BuildId, Headers, input.res, input.opt, Now) :
              column' = [state |-> "made", col |-> col]
    /\ UNCHANGED input

ReadersNext ==
    /\ UNCHANGED mode
    /\ \/ mode = "convert" /\ Convert /\ UNCHANGED <<buildVars, columnVars, rsVars>>
       \/ mode = "build" /\ ReadNext /\ UNCHANGED <<convertVars, columnVars, rsVars>>
       \/ mode = "columns" /\ ColumnsNext /\ UNCHANGED <<convertVars, buildVars, rsVars>>
       \/ mode = "resultstore" /\ RSNext /\ UNCHANGED <<convertVars, buildVars, columnVars>>

Goroutines ==
    /\ UNCHANGED mode
    /\ \/ mode = "build" /\ ReadSteps /\ UNCHANGED <<convertVars, columnVars, rsVars>>
       \/ mode = "columns" /\ ColumnSteps /\ UNCHANGED <<convertVars, buildVars, rsVars>>

(* Goroutines that can go on do, and a context that is done stays so.      *)
ReadersSpec == /\ ReadersInit /\ [][ReadersNext]_readerVars
               /\ WF_readerVars(Goroutines)
-----------------------------------------------------------------------------
(* A test whose failure no rule overrides, and its name.                   *)
FailingTests ==
    LET named == NamedCells(makeNameConfig(input.group), <<>>, input.res, [input.opt EXCEPT !.rules = <<>>])
        kept == NamedCells(makeNameConfig(input.group), <<>>, input.res, input.opt)
    IN { named[i].name : i \in { k \in DOMAIN named : /\ named[k].cell.res = "FAIL"
                                                       /\ named[k] \in Range(kept) } }

IsBad(res) == Failing(res) \/ res = "FLAKY"
NamesOf(c) == DOMAIN c.cells
ShowsFailure(c, name) == \E m \in NamesOf(c) : IsPrefix(name, m) /\ IsBad(c.cells[m].res)

(* No failure is hidden: a test that failed has a failing or flaky cell of *)
(* its name, however many tests share it; and a build that failed has an   *)
(* overall cell which is failing or flaky and another cell that is, or a   *)
(* message (convertResult, MergeCells, SplitCells).  Excepted is a test    *)
(* that has the name which the duplicate of another one gets.              *)
FailuresShow ==
    column.state = "made" =>
      LET c == column.col
          overall == overallCell(input.res, Now)
          row == input.res.job \o <<"Overall">>
          Clash(name) == Len(name) > 1 /\ Front(name) \in NamesOf(c)
      IN /\ \A name \in FailingTests : Clash(name) \/ ShowsFailure(c, name)
         /\ overall.res = "FAIL" =>
              /\ ShowsFailure(c, row)
              /\ \/ c.cells[row].msg # <<>>
                 \/ \E m \in NamesOf(c) \ {row, <<"Overall">>} : IsBad(c.cells[m].res)
                 \/ \E name \in FailingTests : Clash(name)

(* Every read ends: readResult and all goroutines that it started, and     *)
(* readColumns of every group, also when the pool closes while requests    *)
(* are queued, unless the process panics on its closed channel             *)
(* (resultReaderPool).                                                     *)
ReadersReturn == mode \in {"build", "columns"} ~> IF mode = "build" THEN ReadOver ELSE ColumnsOver
=============================================================================
