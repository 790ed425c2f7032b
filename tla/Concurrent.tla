----------------------------- MODULE Concurrent -----------------------------
(***************************************************************************)
(* haiway.helpers.concurrent: process_concurrently, execute_concurrently   *)
(* and concurrently, which share one loop.  The caller takes elements from *)
(* a source, starts a task in a local ContextTaskGroup for each and, with  *)
(* as many tasks as allowed, waits until the first of them is done.        *)
(*                                                                         *)
(* A task that ended is seen by asyncio.wait at once, but by the task      *)
(* group, and by a waiting caller, only in a callback of the loop.  An     *)
(* asynchronous source suspends the caller before each element; a plain    *)
(* iterable never does.                                                    *)
(***************************************************************************)
EXTENDS Integers, FiniteSets

CONSTANTS
    Size,          \* elements of the source
    Concurrency,   \* concurrent_tasks
    MaxCancels     \* bound: times the caller is cancelled from outside

ASSUME ConcurrentAssumption ==
    /\ Size \in Nat
    /\ Concurrency \in Nat \ {0}
    /\ MaxCancels \in Nat

VARIABLES
    mode,          \* asynchronous source, exceptions kept as results, results wanted
    pc,            \* where the caller is
    taken,         \* elements taken from the source, a task was started for each
    task,          \* the tasks by element
    unseen,        \* tasks that ended and whose callbacks have not run
    tasks,         \* the tasks the caller still looks at
    aborting,      \* the group cancels its tasks and accepts no more
    cancelled,     \* the caller's await was cancelled
    joinCancelled, \* the wait for the group was cancelled from outside
    raised,        \* the exception on its way out
    outcome,       \* what the caller got
    cancels        \* history: times the caller was cancelled from outside

vars == <<mode, pc, taken, task, unseen, tasks, aborting, cancelled, joinCancelled, raised,
          outcome, cancels>>

Elements == 1..Size
Running(k) == task[k] \in {"running", "stopping"}
Ended(k) == task[k] \in {"value", "error", "cancelled"}
Seen(k) == Ended(k) /\ k \notin unseen
Failed == {k \in Elements : task[k] = "error"}

TypeOK ==
    /\ mode \in [async : BOOLEAN, keep : BOOLEAN, collect : BOOLEAN]
    /\ pc \in {"taking", "waiting", "draining", "joining", "returned"}
    /\ taken \in 0..Size
    /\ task \in [Elements -> {"new", "running", "stopping", "value", "error", "cancelled"}]
    /\ unseen \in SUBSET Elements
    /\ tasks \in SUBSET Elements
    /\ {aborting, cancelled, joinCancelled} \subseteq BOOLEAN
    /\ raised \in {"none", "error", "source", "cancelled"}
    /\ outcome \in {"none", "results", "error", "source", "group", "cancelled"}
    /\ cancels \in 0..MaxCancels

Init ==
    /\ mode \in [async : BOOLEAN, keep : BOOLEAN, collect : BOOLEAN]
    /\ pc = "taking"
    /\ taken = 0
    /\ task = [k \in Elements |-> "new"]
    /\ unseen = {}
    /\ tasks = {}
    /\ aborting = FALSE
    /\ cancelled = FALSE
    /\ joinCancelled = FALSE
    /\ raised = "none"
    /\ outcome = "none"
    /\ cancels = 0
-----------------------------------------------------------------------------
\* The tasks of the group once it is aborted.
Aborted == [k \in Elements |-> IF task[k] = "running" THEN "stopping" ELSE task[k]]

\* The body of the group is left with an exception, or none: the group waits.
LeaveBody(exc) ==
    /\ pc' = "joining"
    /\ raised' = exc
    /\ IF exc # "none" /\ ~aborting
       THEN aborting' = TRUE /\ task' = Aborted
       ELSE UNCHANGED <<aborting, task>>

\* Mutant: one task too many is started before the first wait.
Room_OneMore == Concurrency - Cardinality(tasks) + 1

\* How many tasks are started until the caller has to wait.
Room == Concurrency - Cardinality(tasks)

\* Elements taken without a suspension in between.
Batch == IF mode.async \/ Size - taken < Room
         THEN IF mode.async THEN 1 ELSE Size - taken
         ELSE Room

\* The next elements arrive and their tasks start.
Take ==
    /\ pc = "taking"
    /\ ~cancelled
    /\ taken < Size
    /\ LET new == (taken + 1)..(taken + Batch)
       IN  /\ taken' = taken + Batch
           /\ task' = [k \in Elements |-> IF k \in new THEN "running" ELSE task[k]]
           /\ tasks' = tasks \cup new
           /\ pc' = IF Cardinality(tasks') < Concurrency THEN "taking" ELSE "waiting"
    /\ UNCHANGED <<mode, unseen, aborting, cancelled, joinCancelled, raised, outcome, cancels>>

\* The source has no more elements.
Exhausted ==
    /\ pc = "taking"
    /\ ~cancelled
    /\ taken = Size
    /\ IF tasks # {}
       THEN pc' = "draining" /\ UNCHANGED <<raised, aborting, task>>
       ELSE LeaveBody("none")
    /\ UNCHANGED <<mode, taken, unseen, tasks, cancelled, joinCancelled, outcome, cancels>>

\* The source raises, or the caller is cancelled where it waits for the source.
SourceRaises ==
    /\ pc = "taking"
    /\ \/ ~cancelled /\ LeaveBody("source")
       \/ cancelled /\ LeaveBody("cancelled")
    /\ cancelled' = FALSE
    /\ UNCHANGED <<mode, taken, unseen, tasks, joinCancelled, outcome, cancels>>

\* The caller raises the exception of a task it looks at.
Failure(looked) == \E k \in looked : task[k] = "error"

\* Mutant: the cancellation is swallowed and the loop goes on.
WaitCancelled_Swallowed ==
    /\ pc \in {"waiting", "draining"}
    /\ cancelled
    /\ cancelled' = FALSE
    /\ pc' = "taking"
    /\ UNCHANGED <<mode, taken, task, unseen, tasks, aborting, joinCancelled, raised, outcome,
                   cancels>>

\* asyncio.wait was cancelled, by the group or from outside.
WaitCancelled ==
    /\ pc \in {"waiting", "draining"}
    /\ cancelled
    /\ cancelled' = FALSE
    /\ LeaveBody(IF Failure(tasks) THEN "error" ELSE "cancelled")
    /\ UNCHANGED <<mode, taken, unseen, tasks, joinCancelled, outcome, cancels>>

\* asyncio.wait returns: with room for another task, or with all of them done.
WaitReturns ==
    /\ ~cancelled
    /\ \/ pc = "waiting" /\ \E k \in tasks : Seen(k)
       \/ pc = "draining" /\ \A k \in tasks : Seen(k)
    /\ LET completed == {k \in tasks : Ended(k)}
       IN  /\ tasks' = tasks \ completed
           /\ IF Failure(completed) THEN LeaveBody("error")
              ELSE IF pc = "draining" THEN LeaveBody("none")
              ELSE pc' = "taking" /\ UNCHANGED <<raised, aborting, task>>
    /\ UNCHANGED <<mode, taken, unseen, cancelled, joinCancelled, outcome, cancels>>
-----------------------------------------------------------------------------
\* A plain iterable gives its next element without a suspension.
Busy == pc = "taking" /\ ~mode.async

\* The handler returns, raises, or raises CancelledError, told to or not; the
\* wrapper around it keeps its exceptions when they are wanted as results.
TaskEnds(k) ==
    /\ Running(k)
    /\ ~Busy
    /\ \E how \in {"value", "cancelled"} \cup (IF mode.keep THEN {} ELSE {"error"}) :
            task' = [task EXCEPT ![k] = how]
    /\ unseen' = unseen \cup {k}
    /\ UNCHANGED <<mode, pc, taken, tasks, aborting, cancelled, joinCancelled, raised, outcome,
                   cancels>>

\* The callbacks of a task that ended: a failure aborts the group, which cancels
\* the caller.
TaskSeen(k) ==
    /\ k \in unseen
    /\ ~Busy
    /\ unseen' = unseen \ {k}
    /\ IF task[k] = "error" /\ ~aborting
       THEN aborting' = TRUE /\ task' = Aborted /\ cancelled' = TRUE
       ELSE UNCHANGED <<aborting, task, cancelled>>
    /\ UNCHANGED <<mode, pc, taken, tasks, joinCancelled, raised, outcome, cancels>>

\* CancelledError reaches the wait for the group: the wait goes on.
JoinInterrupted ==
    /\ pc = "joining"
    /\ cancelled
    /\ cancelled' = FALSE
    /\ IF aborting
       THEN UNCHANGED <<aborting, task, joinCancelled>>
       ELSE aborting' = TRUE /\ task' = Aborted /\ joinCancelled' = TRUE
    /\ UNCHANGED <<mode, pc, taken, unseen, tasks, raised, outcome, cancels>>

\* What ContextTaskGroup.__aexit__ raises.
GroupRaises ==
    IF raised # "none" THEN raised
    ELSE IF Failed # {} THEN "group"
    ELSE IF joinCancelled THEN "cancelled"
    ELSE "none"

\* Mutant: results are returned without asking the tasks.
Collected_Partial == "results"

\* Collecting the results raises for a task that was cancelled.
Collected ==
    IF mode.collect /\ \E k \in Elements : task[k] = "cancelled" THEN "cancelled" ELSE "results"

GroupDone == \A k \in Elements : ~Running(k) /\ k \notin unseen

\* Every task of the group ended and the call returns.
Return ==
    /\ pc = "joining"
    /\ ~cancelled
    /\ GroupDone
    /\ pc' = "returned"
    /\ outcome' = IF GroupRaises = "none" THEN Collected ELSE GroupRaises
    /\ UNCHANGED <<mode, taken, task, unseen, tasks, aborting, cancelled, joinCancelled, raised,
                   cancels>>

\* Task.cancel on the caller by somebody else, where it is suspended.
CancelCaller ==
    /\ pc \in {"waiting", "draining", "joining"} \/ (pc = "taking" /\ mode.async)
    /\ cancels < MaxCancels
    /\ cancels' = cancels + 1
    /\ cancelled' = TRUE
    /\ UNCHANGED <<mode, pc, taken, task, unseen, tasks, aborting, joinCancelled, raised, outcome>>

Next ==
    \/ Take
    \/ Exhausted
    \/ SourceRaises
    \/ WaitCancelled
    \/ WaitReturns
    \/ JoinInterrupted
    \/ Return
    \/ CancelCaller
    \/ \E k \in Elements : TaskEnds(k) \/ TaskSeen(k)

Spec == Init /\ [][Next]_vars

\* What goes on by itself: the loop runs callbacks, the caller goes on when it may,
\* a source that is cancelled raises, and handlers that were told to stop do.
Promised ==
    \/ Busy /\ Take
    \/ Exhausted
    \/ cancelled /\ SourceRaises
    \/ WaitCancelled
    \/ WaitReturns
    \/ JoinInterrupted
    \/ Return
    \/ \E k \in Elements : TaskSeen(k) \/ (task[k] = "stopping" /\ TaskEnds(k))

\* One of them happens as long as there is one, whichever it is.
FairSpec == Spec /\ WF_vars(Promised)
-----------------------------------------------------------------------------
\* The concurrency is bounded, the caller looks at every task that may still
\* fail it, and nothing runs once the call returned.
Bounded ==
    /\ TypeOK
    /\ Cardinality({k \in Elements : Running(k)}) <= Concurrency
    /\ pc \in {"taking", "waiting", "draining"} =>
        {k \in 1..taken : Running(k) \/ task[k] = "error"} \subseteq tasks
    /\ pc = "returned" => \A k \in Elements : ~Running(k)

\* Results are complete: every element was handled, unless a handler that
\* cancelled itself is passed over by process_concurrently.  Anything else has
\* a cause: an exception of a handler is raised, alone or in a group, when one
\* failed, and CancelledError when the caller was cancelled from outside, when a
\* handler failed while the caller waited for an asynchronous source, which hides
\* the handler's exception, or when the result of a handler that cancelled itself
\* was asked for.
OutcomeJustified ==
    pc = "returned" =>
        /\ outcome = "results" =>
            /\ taken = Size
            /\ \A k \in Elements : task[k] = "value" \/ (task[k] = "cancelled" /\ ~mode.collect)
        /\ outcome \in {"error", "group"} => Failed # {}
        /\ outcome = "cancelled" =>
            \/ cancels > 0
            \/ mode.async /\ Failed # {}
            \/ mode.collect /\ Failed = {} /\ \E k \in Elements : task[k] = "cancelled"

\* No element is taken once a failure was seen or the caller was ever cancelled.
StopsTaking == [][aborting \/ cancels > 0 => taken' = taken]_vars

\* How much is left to happen at most.  An element that was not taken is worth its
\* task, the task's callbacks, a wait of the caller and the step that takes it.
StepsLeft ==
    4 * (Size - taken)
    + 2 * Cardinality({k \in Elements : Running(k)})
    + Cardinality(unseen)
    + Cardinality(tasks)
    + 2 * (MaxCancels - cancels)
    + (IF cancelled THEN 1 ELSE 0)
    + (IF aborting THEN 0 ELSE 1)
    + (CASE pc \in {"taking", "waiting"} -> 3 [] pc = "draining" -> 2 [] pc = "joining" -> 1
         [] pc = "returned" -> 0)

\* A call comes to an end: every step, of the caller, of a task or of a callback,
\* in whatever order they come, leaves less to happen.
EveryStepCounts == [][StepsLeft' < StepsLeft]_vars

\* A call that failed or was cancelled, once, remains so until it returns, and until
\* then one of the steps FairSpec promises can be made, without another element and
\* without a handler that was not told to stop.
InterruptedGoesOn ==
    (aborting \/ cancelled) /\ pc # "returned" =>
        \/ cancelled
        \/ pc = "joining" /\ GroupDone
        \/ \E k \in Elements : ~Busy /\ (k \in unseen \/ task[k] = "stopping")
StaysInterrupted == [][aborting \/ cancelled => (aborting \/ cancelled)']_vars

\* A call that failed or was cancelled returns, even if the source never gives
\* another element.
InterruptedCallReturns == aborting \/ cancelled ~> pc = "returned"
=============================================================================
