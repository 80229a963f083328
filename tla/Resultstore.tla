---------------------------- MODULE Resultstore -----------------------------
(* The cycles in which a group is updated from ResultStore                 *)
(* (pkg/updater/resultstore: Updater, ColumnReader and the client), with   *)
(* the steps of InflateDropAppend around them.  Invocations start, end and *)
(* are found by a search from the moment they start.  Columns are sent     *)
(* newest first to a receiver that may stop taking them after the first.   *)
EXTENDS ResultstoreColumns

CONSTANTS
    Group,              \* the configuration of the group
    Templates,          \* bound: invocations that may be made
    Reprocess,          \* how long a column is read again
    MaxClock, MaxInvocations    \* bounds

VARIABLES
    clock, store,       \* the time, and the invocations that have started
    grid,               \* the columns of the grid
    up,                 \* the update that is under way
    missed              \* invocations whose fetch failed or that were cut off

rsVars == <<clock, store, grid, up, missed>>

Resting == [at |-> "idle", old |-> <<>>, ids |-> <<>>, results |-> <<>>, groups |-> <<>>, new |-> <<>>]

RSInit == /\ clock = 1 /\ store = <<>> /\ grid = <<>>
          /\ up = Resting /\ missed = {}

Tick == /\ clock < MaxClock
        /\ clock' = clock + 1
        /\ UNCHANGED <<store, grid, up, missed>>

Start == /\ Len(store) < MaxInvocations
         /\ \E t \in Templates :
              store' = Append(store, [t EXCEPT !.id = <<"inv" , Suffix(Len(store) + 1)>>, !.start = clock])
         /\ UNCHANGED <<clock, grid, up, missed>>

(* The targets of an invocation that are being tested pass.                *)
End(i) == /\ \E t \in DOMAIN store[i].configured : store[i].configured[t] = "TESTING"
          /\ store' = [store EXCEPT ![i].configured = [t \in DOMAIN @ |-> "PASSED"]]
          /\ UNCHANGED <<clock, grid, up, missed>>
-----------------------------------------------------------------------------
SortStarted(cols) == SortSeq(cols, LAMBDA a, b : a.started > b.started)

(* InflateGrid drops what is to be read again, and truncateRunning columns *)
(* up to the oldest that is still running.                                 *)
Running(col) == \E n \in DOMAIN col.cells : col.cells[n].res = "RUNNING"
Inflated(now) == SortStarted(SelectSeq(grid, LAMBDA c : c.started <= now - Reprocess))

(* A variant with a bug: only the running columns are dropped.             *)
KeptColumnsRest(now) == SelectSeq(Inflated(now), LAMBDA c : ~Running(c))

KeptColumns(now) ==
    LET cols == Inflated(now)
        running == { i \in DOMAIN cols : Running(cols[i]) }
    IN IF running = {} THEN cols ELSE SubSeq(cols, Max(running) + 1, Len(cols))

(* A query names a target, or is empty.                                    *)
TranslateQuery(query, inv) == query = "" \/ query \in inv.targets

(* queryProw: what is searched for.  Search returns the IDs page by page;  *)
(* the service fails or finds every such invocation.                       *)
queryProw(inv, stop) == /\ TranslateQuery(Group.query, inv)
                        /\ \E i \in DOMAIN inv.labels : inv.labels[i].key = "prow"
                        /\ inv.start >= stop
Found(stop) == SelectSeq([i \in DOMAIN store |-> i], LAMBDA i : queryProw(store[i], stop))

Begin ==
    /\ up.at = "idle"
    /\ LET old == KeptColumns(clock)
       IN up' = [Resting EXCEPT !.at = "fetching", !.old = old,
                   !.ids = Found(updateStop(Group, clock, old, 0, 0))]
    /\ UNCHANGED <<clock, store, grid, missed>>

(* FetchInvocation for each ID: one that cannot be fetched is skipped.     *)
Fetch ==
    /\ up.at = "fetching"
    /\ \E failed \in SUBSET Range(up.ids) :
         LET ids == SelectSeq(up.ids, LAMBDA i : i \notin failed)
         IN /\ up' = [up EXCEPT !.at = "fetched", !.ids = <<>>,
                                !.results = [k \in DOMAIN ids |-> store[ids[k]]]]
            /\ missed' = missed \cup { store[i].id : i \in failed }
    /\ UNCHANGED <<clock, store, grid>>

GroupFetched ==
    /\ up.at = "fetched"
    /\ up' = [up EXCEPT !.at = IF \E v \in Range(up.results) : invocationPanics(Group, v)
                                 THEN "panicked" ELSE "sending",
                        !.groups = groupInvocations(Group, up.results), !.results = <<>>]
    /\ UNCHANGED <<clock, store, grid, missed>>

(* A column without cells loses its name and build, so that all such are   *)
(* grouped.                                                                *)
Received(col) == IF DOMAIN col.cells = {} THEN [col EXCEPT !.name = <<>>, !.build = <<>>] ELSE col

SendColumn ==
    /\ up.at = "sending" /\ up.groups # <<>>
    /\ \E col \in processGroup(Group, Head(up.groups)) :
         up' = [up EXCEPT !.groups = Tail(@), !.new = Append(@, Received(col))]
    /\ UNCHANGED <<clock, store, grid, missed>>

(* The builds of the columns that were read are replaced, if so configured.*)
overrideBuild(tg, cols) ==
    IF tg.strftime THEN [i \in DOMAIN cols |-> [cols[i] EXCEPT !.build = FormatStrftime(tg, cols[i].started)]] ELSE cols

Ids(groups) == UNION { { groups[k][i].id : i \in DOMAIN groups[k] } : k \in DOMAIN groups }

(* The reader is done, or the grace is over and the rest is not received:  *)
(* the grid is grouped, sorted and written.                                *)
Write ==
    /\ up.at = "sending"
    /\ up.groups = <<>> \/ up.new # <<>>
    /\ \E cols \in groupColumns(Group, overrideBuild(Group, up.new) \o up.old) : grid' = SortStarted(cols)
    /\ missed' = missed \cup Ids(up.groups)
    /\ up' = Resting
    /\ UNCHANGED <<clock, store>>

(* The search or the upload fails, or the update times out.                *)
Fail == /\ up.at \in {"fetching", "fetched", "sending"}
        /\ up' = Resting
        /\ UNCHANGED <<clock, store, grid, missed>>

RSNext == \/ Tick \/ Start \/ \E i \in DOMAIN store : End(i)
          \/ Begin \/ Fetch \/ GroupFetched \/ SendColumn \/ Write \/ Fail

RSSpec == RSInit /\ [][RSNext]_rsVars
-----------------------------------------------------------------------------
Shows(col, inv) == \E n \in DOMAIN col.cells : col.cells[n].cellId = inv.id
Included(inv) == \E t \in DOMAIN targetSuites(inv) : includeStatus(Group, inv.configured[t])

(* An invocation that no column shows and that no later read will find,    *)
(* because the columns to be kept are more recent than it.                 *)
Lost(inv) ==
    /\ Included(inv) /\ queryProw(inv, 0)
    /\ \A i \in DOMAIN KeptColumns(clock) : ~Shows(KeptColumns(clock)[i], inv)
    /\ inv.start < updateStop(Group, clock, KeptColumns(clock), 0, 0)

(* An invocation of the group is lost only if its fetch failed or the      *)
(* update stopped taking columns before it (ColumnReader sends the newest  *)
(* first and skips what it could not fetch): reading again what is recent  *)
(* or running misses nothing (updateStop).                                 *)
LostOnlyIfMissed ==
    \A i \in DOMAIN store : (up.at = "idle" /\ Lost(store[i])) => store[i].id \in missed
=============================================================================
