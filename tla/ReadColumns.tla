---------------------------- MODULE ReadColumns -----------------------------
(* The readers of builds (pkg/updater/read.go): for each group a call of   *)
(* readColumns asks a pool of workers that all groups share to read its    *)
(* builds, oldest first, and hands the answers in the same order to a      *)
(* goroutine that makes columns of them.  What a worker's readResult does  *)
(* is in ReadBuild and what a column looks like in BuildColumn; here the   *)
(* answer is "good" or the kind of an error, and a column is the build,    *)
(* its time in hundredths and the build whose headers it shows.            *)
EXTENDS Integers, Sequences, SequencesExt, FiniteSets

CONSTANTS
    Groups, Workers,    \* groups being updated, and the pool's concurrency
    LockAbove,          \* a group with more builds locks the pool (the code has 2)
    NumBuilds,          \* builds of each group, numbered from the oldest
    Outcomes            \* what reading a build of each group may give

(* A group that has no builds to read needs no reader.                     *)
ASSUME NumBuildsAssumption == NumBuilds \in [Groups -> Nat \ {0}]

VARIABLES
    sender, responder,  \* the two goroutines of each readColumns
    cols,               \* columns received
    expired,            \* groups whose context is done
    full,               \* groups that receive no more (the grace is over)
    queue, worker,      \* the pool's channel and workers
    answer,             \* requests answered
    pool,               \* "open", "closed"; or "panicked" for the process
    lock                \* groups that hold the lock of the pool

columnVars == <<sender, responder, cols, expired, full, queue, worker, answer, pool, lock>>

Idle == <<>>
Started(b) == 100 * b

ColumnsInit ==
    /\ sender = [g \in Groups |-> [at |-> IF NumBuilds[g] > LockAbove THEN "locking" ELSE "asking", b |-> 1]]
    /\ responder = [g \in Groups |-> [at |-> "receiving", b |-> 0, failures |-> 0, good |-> 0]]
    /\ cols = [g \in Groups |-> <<>>]
    /\ expired = {} /\ full = {}
    /\ queue = <<>> /\ worker = [w \in Workers |-> Idle] /\ answer = <<>>
    /\ pool = "open" /\ lock = {}

SenderAt(g, at, b) == sender' = [sender EXCEPT ![g] = [at |-> at, b |-> b]]
-----------------------------------------------------------------------------
Lock(g) == /\ sender[g].at = "locking" /\ lock = {}
           /\ lock' = {g} /\ SenderAt(g, "asking", 1)
           /\ UNCHANGED <<responder, cols, expired, full, queue, worker, answer, pool>>

(* readResultViaPool: the request gets onto the queue or the context is    *)
(* done, which counts as an answer.  A send on the channel that the pool   *)
(* has closed panics, if the select tries it.                              *)
Ask(g) ==
    /\ sender[g].at = "asking"
    /\ LET b == sender[g].b
       IN \/ /\ pool = "open" /\ Len(queue) < Cardinality(Workers)
             /\ queue' = Append(queue, <<g, b>>)
             /\ SenderAt(g, "sending", b)
             /\ UNCHANGED <<answer, pool>>
          \/ /\ g \in expired
             /\ answer' = [x \in DOMAIN answer \cup {<<g, b>>} |-> IF x = <<g, b>> THEN "error" ELSE answer[x]]
             /\ SenderAt(g, "sending", b)
             /\ UNCHANGED <<queue, pool>>
          \/ /\ pool = "closed"
             /\ pool' = "panicked"
             /\ UNCHANGED <<sender, queue, answer>>
    /\ UNCHANGED <<responder, cols, expired, full, worker, lock>>

(* The builds are sent, or the context is done: the lock is released and   *)
(* the channel to the responder closed.                                    *)
Send(g) ==
    /\ sender[g].at = "sending"
    /\ \/ /\ responder[g].at = "receiving"
          /\ responder' = [responder EXCEPT ![g].at = "waiting", ![g].b = sender[g].b]
          /\ IF sender[g].b < NumBuilds[g]
               THEN SenderAt(g, "asking", sender[g].b + 1) /\ UNCHANGED lock
               ELSE SenderAt(g, "closed", sender[g].b) /\ lock' = lock \ {g}
       \/ /\ g \in expired
          /\ SenderAt(g, "closed", sender[g].b) /\ lock' = lock \ {g}
          /\ UNCHANGED responder
    /\ UNCHANGED <<cols, expired, full, queue, worker, answer, pool>>

(* A variant with a bug: failures since the last good build are not        *)
(* counted.                                                                *)
AnsweredUncounted(g) ==
    /\ responder[g].at = "waiting" /\ <<g, responder[g].b>> \in DOMAIN answer
    /\ responder' = [responder EXCEPT ![g].at = "delivering",
                       ![g].good = IF answer[<<g, responder[g].b>>] = "good" THEN responder[g].b ELSE @]
    /\ UNCHANGED <<sender, cols, expired, full, queue, worker, answer, pool, lock>>

(* The responder waits for the answer, whatever happens to the context.    *)
Answered(g) ==
    /\ responder[g].at = "waiting" /\ <<g, responder[g].b>> \in DOMAIN answer
    /\ responder' = IF answer[<<g, responder[g].b>>] = "good"
                      THEN [responder EXCEPT ![g] = [at |-> "delivering", b |-> @.b, failures |-> 0, good |-> @.b]]
                      ELSE [responder EXCEPT ![g].at = "delivering", ![g].failures = @ + 1]
    /\ UNCHANGED <<sender, cols, expired, full, queue, worker, answer, pool, lock>>

(* A build that was not read is placed after the last good one and shows   *)
(* its headers.                                                            *)
Column(r) == [build |-> r.b, when |-> Started(r.good) + r.failures, extra |-> r.good]

Deliver(g) ==
    /\ responder[g].at = "delivering"
    /\ \/ /\ g \notin full
          /\ cols' = [cols EXCEPT ![g] = Append(@, Column(responder[g]))]
          /\ responder' = [responder EXCEPT ![g].at = "receiving"]
       \/ /\ g \in expired
          /\ responder' = [responder EXCEPT ![g].at = "done"]
          /\ UNCHANGED cols
    /\ UNCHANGED <<sender, expired, full, queue, worker, answer, pool, lock>>

Drained(g) == /\ responder[g].at = "receiving" /\ sender[g].at = "closed"
              /\ responder' = [responder EXCEPT ![g].at = "done"]
              /\ UNCHANGED <<sender, cols, expired, full, queue, worker, answer, pool, lock>>

(* wg.Wait: readColumns returns and cancels its context.                   *)
ReturnColumns(g) ==
    /\ sender[g].at = "closed" /\ responder[g].at = "done"
    /\ SenderAt(g, "returned", sender[g].b)
    /\ UNCHANGED <<responder, cols, expired, full, queue, worker, answer, pool, lock>>
-----------------------------------------------------------------------------
(* A variant with a bug: requests left when the pool stops are dropped.    *)
WorkerTakesOpen(w) ==
    /\ worker[w] = Idle /\ queue # <<>> /\ pool = "open"
    /\ worker' = [worker EXCEPT ![w] = Head(queue)] /\ queue' = Tail(queue)
    /\ UNCHANGED <<sender, responder, cols, expired, full, answer, pool, lock>>

(* The workers, which empty the channel also after it was closed.          *)
WorkerTakes(w) ==
    /\ worker[w] = Idle /\ queue # <<>>
    /\ worker' = [worker EXCEPT ![w] = Head(queue)] /\ queue' = Tail(queue)
    /\ UNCHANGED <<sender, responder, cols, expired, full, answer, pool, lock>>

(* readResult: the outcome for the build, or an error if the context of    *)
(* the group is done.                                                      *)
WorkerAnswers(w) ==
    /\ worker[w] # Idle
    /\ \E out \in Outcomes[worker[w][1]] \cup (IF worker[w][1] \in expired THEN {"error"} ELSE {}) :
         answer' = [x \in DOMAIN answer \cup {worker[w]} |-> IF x = worker[w] THEN out ELSE answer[x]]
    /\ worker' = [worker EXCEPT ![w] = Idle]
    /\ UNCHANGED <<sender, responder, cols, expired, full, queue, pool, lock>>

(* InflateDropAppend: the grace to read more columns is over, and then the *)
(* call ends and cancels; or the update of the group times out.            *)
Grace(g) == /\ g \notin full /\ cols[g] # <<>>
            /\ full' = full \cup {g}
            /\ UNCHANGED <<sender, responder, cols, expired, queue, worker, answer, pool, lock>>

Cancel(g) == /\ g \notin expired
             /\ expired' = expired \cup {g}
             /\ UNCHANGED <<sender, responder, cols, full, queue, worker, answer, pool, lock>>

(* The process is told to stop: every context is done; the pool closes its *)
(* channel.                                                                *)
ClosePool == /\ pool = "open"
             /\ pool' = "closed" /\ expired' = Groups
             /\ UNCHANGED <<sender, responder, cols, full, queue, worker, answer, lock>>

ColumnSteps ==
    /\ pool # "panicked"
    /\ \/ \E g \in Groups : \/ Lock(g) \/ Ask(g) \/ Send(g) \/ Answered(g) \/ Deliver(g)
                            \/ Drained(g) \/ ReturnColumns(g) \/ (g \in full /\ Cancel(g))
       \/ \E w \in Workers : WorkerTakes(w) \/ WorkerAnswers(w)

ColumnsNext == \/ ColumnSteps
               \/ /\ pool # "panicked"
                  /\ ClosePool \/ \E g \in Groups : Grace(g) \/ Cancel(g)

ColumnsSpec == ColumnsInit /\ [][ColumnsNext]_columnVars
-----------------------------------------------------------------------------
(* The columns of a group come oldest first and none is missing: they are  *)
(* a prefix of its builds, all of them if nothing was cut short, their     *)
(* times increase, and one that was not read is between its neighbours     *)
(* and shows the headers of the last good one (readColumns).               *)
ColumnsInOrder ==
    \A g \in Groups :
      LET c == cols[g]
      IN /\ \A i \in DOMAIN c : c[i].build = i /\ c[i].extra <= i /\ c[i].when <= Started(i)
         /\ \A i, j \in DOMAIN c : i < j => c[i].when < c[j].when
         /\ (sender[g].at = "returned" /\ g \notin expired) => Len(c) = NumBuilds[g]

ColumnsOver == pool = "panicked" \/ \A g \in Groups : sender[g].at = "returned"
=============================================================================
