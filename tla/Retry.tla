-------------------------------- MODULE Retry --------------------------------
(***************************************************************************)
(* haiway.helpers.retries around haiway.helpers.timeouting: one call of    *)
(* what retry made of an asynchronous function with a timeout.             *)
(*                                                                         *)
(* retry asks inspect.iscoroutinefunction which wrapper to use.  It is true *)
(* of a coroutine function that awaits the function with the timeout, and  *)
(* _wrap_async awaits each attempt.  It is false of what timeout itself    *)
(* returns, an instance of _AsyncTimeout: _wrap_sync calls it, which only  *)
(* makes a coroutine, hands that to the caller to await and has nothing to *)
(* catch.                                                                  *)
(*                                                                         *)
(* The k-th attempt is the call k of Timeout.  Its caller, `owner`, can be *)
(* cancelled wherever it waits: for the future of an attempt or in the     *)
(* sleep before the next one.  A cancelled future or sleep resumes it with *)
(* CancelledError, and so does a cancellation that arrives once the future *)
(* is done.                                                                *)
(***************************************************************************)
EXTENDS Timeout

CONSTANTS
    Limit          \* retries after the first attempt

ASSUME RetryAssumption ==
    /\ Limit \in Nat \ {0}
    /\ Calls = 1..(Limit + 1)

VARIABLES
    coroutine,     \* retry was given a coroutine function, not an instance
    catching,      \* what the predicate of the decorator catches
    delayed,       \* there is a delay before a retry
    owner,         \* where the caller is
    attempt,       \* the attempts made
    interrupted,   \* the caller was cancelled
    outcome        \* what the caller got

retryVars == <<coroutine, catching, delayed, owner, attempt, interrupted, outcome>>
vars == <<timeoutVars, retryVars>>

TypeOK ==
    /\ TimeoutTypeOK
    /\ coroutine \in BOOLEAN
    /\ catching \in SUBSET {"error", "timeout"}
    /\ delayed \in BOOLEAN
    /\ owner \in {"new", "waiting", "sleeping", "returned"}
    /\ attempt \in 0..(Limit + 1)
    /\ interrupted \in BOOLEAN
    /\ outcome \in {"none", "value", "error", "timeout", "cancelled"}

Init ==
    /\ TimeoutInit
    /\ coroutine \in BOOLEAN
    /\ catching \in SUBSET {"error", "timeout"}
    /\ delayed \in BOOLEAN
    /\ owner = "new"
    /\ attempt = 0
    /\ interrupted = FALSE
    /\ outcome = "none"
-----------------------------------------------------------------------------
\* The next attempt is called and waited for.
Attempt ==
    /\ attempt' = attempt + 1
    /\ owner' = "waiting"
    /\ Call(attempt + 1)
    /\ UNCHANGED outcome

Return(how) ==
    /\ outcome' = how
    /\ owner' = "returned"
    /\ UNCHANGED <<attempt, timeoutVars>>

Begin ==
    /\ owner = "new"
    /\ Attempt
    /\ UNCHANGED <<coroutine, catching, delayed, interrupted>>

\* What the await of the attempt raises or returns.
Answer == IF interrupted THEN "cancelled" ELSE future[attempt]

\* Mutant: CancelledError is given to the predicate like any error.
Retried_Cancelled(answer) ==
    /\ coroutine
    /\ attempt < Limit + 1
    /\ answer \in catching \/ (answer = "cancelled" /\ catching # {})

\* CancelledError is never retried; an exception is when the wrapper awaits the
\* attempt, there are attempts left and the predicate says so.
Retried(answer) == coroutine /\ attempt < Limit + 1 /\ answer \in catching

\* The future of the attempt is done and the caller goes on.
Resume ==
    /\ owner = "waiting"
    /\ Done(attempt)
    /\ IF ~Retried(Answer) THEN Return(Answer)
       ELSE IF delayed THEN owner' = "sleeping" /\ UNCHANGED <<attempt, outcome, timeoutVars>>
       ELSE Attempt
    /\ UNCHANGED <<coroutine, catching, delayed, interrupted>>

\* The sleep between two attempts ends.
WakeUp ==
    /\ owner = "sleeping"
    /\ IF interrupted THEN Return("cancelled") ELSE Attempt
    /\ UNCHANGED <<coroutine, catching, delayed, interrupted>>

\* Task.cancel on the caller where it waits.
CancelOwner ==
    /\ owner \in {"waiting", "sleeping"}
    /\ ~interrupted
    /\ interrupted' = TRUE
    /\ IF owner = "waiting"
       THEN Settle(attempt, "cancelled") /\ UNCHANGED <<task, timer, ended>>
       ELSE UNCHANGED timeoutVars
    /\ UNCHANGED <<coroutine, catching, delayed, owner, attempt, outcome>>

Next ==
    \/ Begin
    \/ Resume
    \/ WakeUp
    \/ CancelOwner
    \/ TimeoutNext /\ UNCHANGED retryVars

Spec == Init /\ [][Next]_vars

\* The loop runs its callbacks and timers, sleeps end and the caller goes on
\* when it may.  Tasks need not end, not even when they are told to stop.
FairSpec ==
    /\ Spec
    /\ WF_vars(Resume) /\ WF_vars(WakeUp)
    /\ \A k \in Calls :
        /\ WF_vars(OnCompletion(k) /\ UNCHANGED retryVars)
        /\ WF_vars(OnTimeout(k) /\ UNCHANGED retryVars)
        /\ WF_vars(OnResult(k) /\ UNCHANGED retryVars)
-----------------------------------------------------------------------------
\* The state of every call is consistent, answered or not.
CallInv == TypeOK /\ AbandonedIsStopped /\ AnswersJustified

\* Attempts follow each other: all but the last were answered with something
\* that is caught, by a wrapper that awaits them, and the last decides the
\* outcome unless the caller was cancelled.
AttemptsJustified ==
    /\ attempt > 1 => coroutine
    /\ \A k \in 1..(attempt - 1) : future[k] \in catching
    /\ \A k \in Calls : k > attempt <=> task[k] = "new"
    /\ owner = "returned" => outcome \in {future[attempt], "cancelled"}
    /\ outcome = "cancelled" <=> interrupted /\ owner = "returned"

\* Once its caller is cancelled a function is never called again, whatever the
\* predicate catches and wherever the cancellation arrives.
CancelledNeverRetried == [][interrupted => attempt' = attempt]_vars

\* How much is left to happen at most.  A call that was not made is worth the
\* steps of its task, its timer, its callbacks and its caller.
StepsLeft ==
    7 * Cardinality({k \in Calls : task[k] = "new"})
    + 3 * Cardinality({k \in Calls : Running(k)})
    + 2 * Cardinality(ended)
    + 2 * Cardinality({k \in Calls : timer[k] = "set"})
    + Cardinality(settled)
    + (IF interrupted THEN 0 ELSE 2)
    + (CASE owner = "new" -> 3 [] owner = "waiting" -> 2 [] owner = "sleeping" -> 1
         [] owner = "returned" -> 0)

\* Retries come to an end: every step, of the caller, of a task or of a callback,
\* whichever comes first and whoever is cancelled, leaves less to happen.
EveryStepCounts == [][StepsLeft' < StepsLeft]_vars

\* A caller that waits goes on as soon as it may, or when the timer fires, apart
\* from the exception that CallReturns makes.
WaitGoesOn ==
    owner = "waiting" =>
        \/ Done(attempt)
        \/ timer[attempt] = "set"
        \/ task[attempt] = "cancelled" /\ future[attempt] = "pending"

\* A call returns within its attempts' timeouts even if the function never
\* does, unless the function raised CancelledError before it was answered.
CallReturns ==
    owner = "waiting" ~>
        \/ owner = "returned"
        \/ \E k \in Calls : task[k] = "cancelled" /\ future[k] = "pending"

\* The maximum execution time is enforced: every call returns.
TimeEnforced == owner = "waiting" ~> owner = "returned"
=============================================================================
