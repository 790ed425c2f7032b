------------------------------- MODULE Timeout -------------------------------
(***************************************************************************)
(* haiway.helpers.timeouting: calls of a function wrapped with timeout.    *)
(*                                                                         *)
(* A call runs the function in a task of its own and waits for a future,   *)
(* which the end of the task, the timer or the cancellation of the caller  *)
(* completes, whichever is first.  Each of them does so in a callback of   *)
(* the event loop, later than the event itself.  The module has no Next:   *)
(* Retry makes the calls.                                                  *)
(***************************************************************************)
EXTENDS Integers, FiniteSets

CONSTANTS
    Calls,         \* the calls, one task and one future each
    SelfCancels    \* whether the function may raise CancelledError by itself

ASSUME TimeoutAssumption == SelfCancels \in BOOLEAN

VARIABLES
    task,          \* the task of each call
    future,        \* the future its caller waits for
    timer,         \* the timer of the call
    ended,         \* calls whose on_completion callback is scheduled
    settled        \* calls whose on_result callback is scheduled

timeoutVars == <<task, future, timer, ended, settled>>

Running(k) == task[k] \in {"running", "stopping"}
Done(k) == future[k] \notin {"none", "pending"}

TimeoutTypeOK ==
    /\ task \in [Calls -> {"new", "running", "stopping", "value", "error", "cancelled"}]
    /\ future \in [Calls -> {"none", "pending", "value", "error", "timeout", "cancelled"}]
    /\ timer \in [Calls -> {"unset", "set", "over"}]
    /\ ended \in SUBSET Calls
    /\ settled \in SUBSET Calls

TimeoutInit ==
    /\ task = [k \in Calls |-> "new"]
    /\ future = [k \in Calls |-> "none"]
    /\ timer = [k \in Calls |-> "unset"]
    /\ ended = {}
    /\ settled = {}
-----------------------------------------------------------------------------
\* The call up to its await: task, timer and callbacks are in place.
Call(k) ==
    /\ task' = [task EXCEPT ![k] = "running"]
    /\ future' = [future EXCEPT ![k] = "pending"]
    /\ timer' = [timer EXCEPT ![k] = "set"]
    /\ UNCHANGED <<ended, settled>>

\* Mutant: the end of the call does not stop the task.
Settled_TaskIgnored(k) == settled

\* on_result is a callback of the future.
Settled(k) == settled \cup {k}

\* The first outcome is the one the caller gets.
Settle(k, outcome) ==
    IF Done(k)
    THEN UNCHANGED <<future, settled>>
    ELSE /\ future' = [future EXCEPT ![k] = outcome]
         /\ settled' = Settled(k)

\* The function returns or raises; told to stop it may do so any way it likes.
TaskEnds(k, how) ==
    /\ Running(k)
    /\ how = "cancelled" => task[k] = "stopping" \/ SelfCancels
    /\ task' = [task EXCEPT ![k] = how]
    /\ ended' = ended \cup {k}
    /\ UNCHANGED <<future, timer, settled>>

\* on_completion.  Task.result of a cancelled task raises CancelledError, which
\* `except Exception` does not catch: the timer is gone and the future is not
\* completed.
OnCompletion(k) ==
    /\ k \in ended
    /\ ended' = ended \ {k}
    /\ timer' = [timer EXCEPT ![k] = "over"]
    /\ IF task[k] = "cancelled"
       THEN UNCHANGED <<future, settled>>
       ELSE Settle(k, task[k])
    /\ UNCHANGED task

\* Mutant: the timer stops the task and leaves the answer to it.
OnTimeout_StopsTask(k) ==
    /\ timer[k] = "set"
    /\ timer' = [timer EXCEPT ![k] = "over"]
    /\ settled' = Settled(k)
    /\ UNCHANGED <<task, future, ended>>

\* on_timeout.
OnTimeout(k) ==
    /\ timer[k] = "set"
    /\ timer' = [timer EXCEPT ![k] = "over"]
    /\ Settle(k, "timeout")
    /\ UNCHANGED <<task, ended>>

\* on_result: the task is told to stop unless it ended.
OnResult(k) ==
    /\ k \in settled
    /\ settled' = settled \ {k}
    /\ task' = IF task[k] = "running" THEN [task EXCEPT ![k] = "stopping"] ELSE task
    /\ UNCHANGED <<future, timer, ended>>

\* Callbacks and timers of the loop; tasks are not bound to end by themselves.
TimeoutNext ==
    \E k \in Calls :
        \/ \E how \in {"value", "error", "cancelled"} : TaskEnds(k, how)
        \/ OnCompletion(k)
        \/ OnTimeout(k)
        \/ OnResult(k)
-----------------------------------------------------------------------------
\* A call that was answered, by a timeout or by the cancellation of its caller,
\* never leaves its task running unasked: it is told to stop, now or by a
\* callback that is scheduled.
AbandonedIsStopped == \A k \in Calls : Done(k) /\ task[k] = "running" => k \in settled

\* Every answer has its cause: a result is the one of the task, and an
\* unanswered call can still be answered, or its task cancelled itself.
AnswersJustified ==
    \A k \in Calls :
        /\ future[k] \in {"value", "error"} => task[k] = future[k]
        /\ future[k] = "timeout" => timer[k] = "over"
        /\ future[k] = "pending" =>
            \/ timer[k] = "set" /\ task[k] = "running"
            \/ timer[k] = "set" /\ k \in ended
            \/ task[k] = "cancelled"
=============================================================================
