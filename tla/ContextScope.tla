---------------------------- MODULE ContextScope ----------------------------
(***************************************************************************)
(* haiway.context.scope.ContextScope with the disposables and the task     *)
(* group it enters: one asynchronous scope, from `async with` to the end   *)
(* of its exit stack.                                                      *)
(*                                                                         *)
(* Disposables are entered and left in layers, first those of the preset,  *)
(* then the scope's own; asyncio.gather runs the calls of a layer as tasks *)
(* of their own.  Cancelling the owner while it awaits a gather cancels    *)
(* the calls that still run, and the owner gets CancelledError once all of *)
(* them ended.  An isolated scope also enters a task group, after its      *)
(* disposables, so that it leaves the group before them.  Tasks spawned in *)
(* a scope that is not isolated belong to the enclosing group and are not  *)
(* part of this model; the bus entered last is in ContextEvents.           *)
(***************************************************************************)
EXTENDS Integers, Sequences, FiniteSets

CONSTANTS
    Preset,       \* disposables of the preset
    Own,          \* disposables given to the scope, its state among them
    Children,     \* tasks that may be spawned in the scope
    MaxCancels    \* bound: times the owner is cancelled from outside

ASSUME ScopeAssumption ==
    /\ Preset \cap Own = {}
    /\ MaxCancels \in Nat

VARIABLES
    layers,        \* the layers of disposables, the preset first if there is one
    nested,        \* the scope is entered within another one
    isolated,      \* the scope has a task group of its own
    pc,            \* where the owner is
    level,         \* the layer it is entering or leaving
    pushed,        \* layers whose exit is on the exit stack
    call,          \* the call of a gather that runs for each disposable
    failure,       \* how that call failed
    held,          \* disposables that were entered and not left since
    stateLost,     \* the scope runs with an empty state
    child,         \* the tasks of the group
    aborting,      \* the group cancels its tasks and accepts no more
    cancelled,     \* the owner's await was cancelled
    raised,        \* the exception on its way out of the scope
    joinCancelled, \* the wait for the group was cancelled from outside
    cancels,       \* history: times the owner was cancelled from outside
    spoiled        \* history: disposables whose gather was cancelled

setup == <<layers, nested, isolated>>
group == <<child, aborting, joinCancelled>>
calls == <<call, failure, held>>
vars == <<setup, pc, level, pushed, calls, stateLost, group, cancelled, raised, cancels, spoiled>>

Disposables == Preset \cup Own
Layer(n) == layers[n]
FirstLayers(n) == UNION {layers[k] : k \in 1..n}
InUse == FirstLayers(Len(layers))
Live == {c \in Children : child[c] \in {"running", "stopping"}}
Failed == {c \in Children : child[c] = "failed"}

TypeOK ==
    /\ layers \in {<<Own>>, <<Preset, Own>>}
    /\ nested \in BOOLEAN
    /\ isolated \in BOOLEAN
    /\ pc \in {"new", "entering", "body", "joining", "leaving", "left"}
    /\ level \in 0..Len(layers)
    /\ pushed \in 0..Len(layers)
    /\ call \in [Disposables -> {"idle", "entering", "exiting"}]
    /\ failure \in [Disposables -> {"none", "error", "lookup", "cancelled"}]
    /\ held \in SUBSET Disposables
    /\ stateLost \in BOOLEAN
    /\ child \in [Children -> {"new", "running", "stopping", "ended", "failed"}]
    /\ {aborting, cancelled, joinCancelled} \subseteq BOOLEAN
    /\ raised \in {"none", "error", "group", "cancelled"}
    /\ cancels \in 0..MaxCancels
    /\ spoiled \in SUBSET Disposables

Init ==
    /\ layers \in {<<Own>>, <<Preset, Own>>}
    /\ nested \in BOOLEAN
    /\ isolated \in {b \in BOOLEAN : ~nested => b}
    /\ pc = "new"
    /\ level = 0
    /\ pushed = 0
    /\ call = [d \in Disposables |-> "idle"]
    /\ failure = [d \in Disposables |-> "none"]
    /\ held = {}
    /\ stateLost = FALSE
    /\ child = [c \in Children |-> "new"]
    /\ aborting = FALSE
    /\ cancelled = FALSE
    /\ raised = "none"
    /\ joinCancelled = FALSE
    /\ cancels = 0
    /\ spoiled = {}
-----------------------------------------------------------------------------
\* A gather of the enters or exits of a whole layer begins.
Gather(n, what) ==
    /\ level' = n
    /\ call' = [d \in Disposables |-> IF d \in Layer(n) THEN what ELSE "idle"]
    /\ failure' = [d \in Disposables |-> "none"]

\* The exit stack continues with the topmost of the n layers left on it.
\* Exits are called for the whole layer, also for what failed to enter.
Unwind(n) ==
    IF n = 0
    THEN pc' = "left" /\ level' = 0 /\ UNCHANGED <<call, failure>>
    ELSE pc' = "leaving" /\ Gather(n, "exiting")

\* __aenter__ up to the first await: identifier and observability do not wait.
Enter ==
    /\ pc = "new"
    /\ pc' = "entering"
    /\ Gather(1, "entering")
    /\ UNCHANGED <<setup, pushed, held, stateLost, group, cancelled, raised, cancels, spoiled>>

\* The __aenter__ of a disposable returns or raises.
EnterEnds(d) ==
    /\ call[d] = "entering"
    /\ call' = [call EXCEPT ![d] = "idle"]
    /\ \/ held' = held \cup {d} /\ UNCHANGED failure
       \/ /\ \E how \in {"error", "lookup"} \cup (IF cancelled THEN {"cancelled"} ELSE {}) :
                failure' = [failure EXCEPT ![d] = how]
          /\ UNCHANGED held
    /\ UNCHANGED <<setup, pc, level, pushed, stateLost, group, cancelled, raised, cancels,
                   spoiled>>

\* Mutant: failures are dropped when the state of a layer is collected.
Failures_Ignored == {}

Failures == {d \in Layer(level) : failure[d] # "none"}

\* Collecting the state of the layers raises inside ContextState.updating,
\* which takes the LookupError of a single disposable for a missing context
\* and falls back to an empty root state.  With a preset the state is
\* collected before.
Swallowed ==
    /\ nested
    /\ Len(layers) = 1
    /\ Cardinality(Failures) = 1
    /\ \A d \in Failures : failure[d] = "lookup"

\* Mutant: a failing layer is not put on the exit stack.
Pushed_OnSuccess == IF Failures = {} THEN level ELSE level - 1

\* enter_async_context pushes a layer once its gather returned, whatever the
\* gather returned.
Pushed == level

\* The gather of enters returned: the next layer, the body or the way out.
LayerEntered ==
    /\ pc = "entering"
    /\ \A d \in Disposables : call[d] = "idle"
    /\ IF cancelled
       THEN /\ raised' = "cancelled"
            /\ Unwind(pushed)
            /\ UNCHANGED <<pushed, stateLost>>
       ELSE /\ pushed' = Pushed
            /\ IF Failures # {} /\ ~Swallowed
               THEN raised' = "error" /\ Unwind(Pushed) /\ UNCHANGED stateLost
               ELSE /\ UNCHANGED raised
                    /\ IF level < Len(layers)
                       THEN Gather(level + 1, "entering") /\ UNCHANGED <<pc, stateLost>>
                       ELSE /\ pc' = "body"
                            /\ stateLost' = Swallowed
                            /\ UNCHANGED <<level, call, failure>>
    /\ cancelled' = FALSE
    /\ UNCHANGED <<setup, held, group, cancels, spoiled>>
-----------------------------------------------------------------------------
\* TaskGroup.create_task through ctx.spawn, by the body or by another child.
Spawn(c) ==
    /\ isolated
    /\ child[c] = "new"
    /\ ~aborting
    /\ pc = "body" \/ (pc = "joining" /\ Live # {})
    /\ child' = [child EXCEPT ![c] = "running"]
    /\ UNCHANGED <<setup, pc, level, pushed, calls, stateLost, aborting, cancelled, raised,
                   joinCancelled, cancels, spoiled>>

\* The tasks of the group once it is aborted.
Aborted(tasks) == [c \in Children |-> IF tasks[c] = "running" THEN "stopping" ELSE tasks[c]]

ChildEnds(c) ==
    /\ c \in Live
    /\ child' = [child EXCEPT ![c] = "ended"]
    /\ UNCHANGED <<setup, pc, level, pushed, calls, stateLost, aborting, cancelled, raised,
                   joinCancelled, cancels, spoiled>>

\* The first failure aborts the group and cancels the owner.
ChildFails(c) ==
    /\ c \in Live
    /\ LET tasks == [child EXCEPT ![c] = "failed"]
       IN  IF aborting
           THEN child' = tasks /\ UNCHANGED <<aborting, cancelled>>
           ELSE /\ child' = Aborted(tasks)
                /\ aborting' = TRUE
                /\ cancelled' = TRUE
    /\ UNCHANGED <<setup, pc, level, pushed, calls, stateLost, raised, joinCancelled, cancels,
                   spoiled>>

\* Mutant: the group's errors are logged only.
GroupRaises_Logged(exc) == exc

\* What leaves ContextTaskGroup.__aexit__ for an exception that entered it:
\* errors of children are raised as a group, unless the body raised itself,
\* be it the CancelledError by which the group told it to stop.
GroupRaises(exc) ==
    IF exc # "none" THEN exc
    ELSE IF Failed # {} THEN "group"
    ELSE IF joinCancelled THEN "cancelled"
    ELSE "none"

\* TaskGroup.__aexit__ with errors cancels a task again that was cancelled
\* from outside, and the next await of the owner is interrupted.
CancelsAgain(exc) == (Failed # {} \/ exc = "error") /\ cancels > 0

\* Mutant: the disposables are left without waiting for the tasks.
MustJoin_Never == FALSE

\* The group has to wait for its tasks.
MustJoin == isolated /\ Live # {}

\* The group is left with exception exc and the disposables are next.
LeaveGroup(exc) ==
    /\ raised' = IF isolated THEN GroupRaises(exc) ELSE exc
    /\ cancelled' = (isolated /\ CancelsAgain(exc))
    /\ spoiled' = IF cancelled' THEN spoiled \cup Layer(pushed) ELSE spoiled
    /\ Unwind(pushed)

\* Mutant: an exception of the body does not stop the tasks.
StopsTasks_Never(exc) == FALSE

StopsTasks(exc) == exc # "none"

\* The body returns or raises; __aexit__ runs up to its first await.  A body
\* that was cancelled may still catch CancelledError or raise another error.
BodyEnds ==
    /\ pc = "body"
    /\ \E exc \in {"none", "error"} \cup (IF cancelled THEN {"cancelled"} ELSE {}) :
        IF MustJoin
        THEN /\ pc' = "joining"
             /\ raised' = exc
             /\ cancelled' = FALSE
             /\ IF StopsTasks(exc) /\ ~aborting
                THEN aborting' = TRUE /\ child' = Aborted(child)
                ELSE UNCHANGED <<aborting, child>>
             /\ UNCHANGED <<level, call, failure, spoiled>>
        ELSE LeaveGroup(exc) /\ UNCHANGED <<aborting, child>>
    /\ UNCHANGED <<setup, pushed, held, stateLost, joinCancelled, cancels>>

\* CancelledError reaches the wait for the group: the wait goes on.
JoinInterrupted ==
    /\ pc = "joining"
    /\ cancelled
    /\ cancelled' = FALSE
    /\ IF aborting
       THEN UNCHANGED <<aborting, child, joinCancelled>>
       ELSE aborting' = TRUE /\ child' = Aborted(child) /\ joinCancelled' = TRUE
    /\ UNCHANGED <<setup, pc, level, pushed, calls, stateLost, raised, cancels, spoiled>>

\* The last task of the group ended.
Joined ==
    /\ pc = "joining"
    /\ ~cancelled
    /\ Live = {}
    /\ LeaveGroup(raised)
    /\ UNCHANGED <<setup, pushed, held, stateLost, group, cancels>>
-----------------------------------------------------------------------------
\* The __aexit__ of a disposable returns or raises.  Once the gather was
\* cancelled it may be interrupted, or never start, and hold its resource.
ExitEnds(d) ==
    /\ call[d] = "exiting"
    /\ call' = [call EXCEPT ![d] = "idle"]
    /\ \/ /\ \E how \in {"none", "error"} : failure' = [failure EXCEPT ![d] = how]
          /\ held' = held \ {d}
       \/ /\ cancelled
          /\ failure' = [failure EXCEPT ![d] = "cancelled"]
          /\ UNCHANGED held
    /\ UNCHANGED <<setup, pc, level, pushed, stateLost, group, cancelled, raised, cancels,
                   spoiled>>

\* The gather of exits returned: the next layer below, or the scope is left.
LayerExited ==
    /\ pc = "leaving"
    /\ \A d \in Disposables : call[d] = "idle"
    /\ raised' = IF cancelled THEN "cancelled"
                 ELSE IF Failures # {} THEN "error"
                 ELSE raised
    /\ cancelled' = FALSE
    /\ Unwind(level - 1)
    /\ UNCHANGED <<setup, pushed, held, stateLost, group, cancels, spoiled>>

\* Task.cancel on the owner by somebody else, at an await of the scope.
CancelOwner ==
    /\ pc \in {"entering", "body", "joining", "leaving"}
    /\ cancels < MaxCancels
    /\ cancels' = cancels + 1
    /\ cancelled' = TRUE
    /\ spoiled' = IF pc \in {"entering", "leaving"} THEN spoiled \cup Layer(level) ELSE spoiled
    /\ UNCHANGED <<setup, pc, level, pushed, calls, stateLost, group, raised>>

Next ==
    \/ Enter
    \/ LayerEntered
    \/ BodyEnds
    \/ JoinInterrupted
    \/ Joined
    \/ LayerExited
    \/ CancelOwner
    \/ \E d \in Disposables : EnterEnds(d) \/ ExitEnds(d)
    \/ \E c \in Children : Spawn(c) \/ ChildEnds(c) \/ ChildFails(c)

Spec == Init /\ [][Next]_vars

\* Calls on disposables return, the body and the tasks of an aborted group
\* stop, and the owner goes on when what it awaits is done.  Other bodies and
\* tasks may run forever.
FairSpec ==
    /\ Spec
    /\ WF_vars(LayerEntered) /\ WF_vars(LayerExited)
    /\ WF_vars(JoinInterrupted) /\ WF_vars(Joined)
    /\ WF_vars(aborting /\ BodyEnds)
    /\ \A d \in Disposables : WF_vars(EnterEnds(d)) /\ WF_vars(ExitEnds(d))
    /\ \A c \in Children : WF_vars(child[c] = "stopping" /\ ChildEnds(c))
-----------------------------------------------------------------------------
\* No task of the scope ever runs while, or after, a disposable is being left:
\* tasks never use a resource that is gone, whoever fails or is cancelled.
TasksEndFirst == pc \in {"leaving", "left"} => Live = {}

\* Whatever failed on the way, a scope that is over holds no resource, except
\* for those whose concurrent enters or exits were cancelled from outside or,
\* after the failure of a task, by the task group.
ResourcesReleased == pc = "left" => held \subseteq spoiled

\* Tasks only live in the body or while the owner waits for them.
TasksInScope == Live # {} => isolated /\ pc \in {"body", "joining"}

\* What is held belongs to a layer that the exit stack, or the gather that
\* runs, still has to deal with, or was spoiled by a cancellation.
StackAccounts ==
    /\ pc = "new" => held = {} /\ pushed = 0 /\ ~cancelled
    /\ pc = "entering" => /\ level \in DOMAIN layers
                          /\ pushed = level - 1
                          /\ held \subseteq FirstLayers(level)
    /\ pc \in {"body", "joining"} => pushed = Len(layers) /\ held \subseteq InUse
    /\ pc = "leaving" =>
        /\ level \in DOMAIN layers
        /\ held \subseteq spoiled \cup FirstLayers(level - 1)
                       \cup {d \in Layer(level) : call[d] = "exiting"}
    /\ pc \in {"entering", "leaving"} /\ cancelled => Layer(level) \subseteq spoiled
    /\ \A d \in Disposables :
        /\ call[d] = "entering" => pc = "entering" /\ d \in Layer(level)
        /\ call[d] = "exiting" => pc = "leaving" /\ d \in Layer(level)
    /\ pc = "left" => held \subseteq spoiled

\* Both are needed to show that tasks end first and resources are released.
ScopeInv == TypeOK /\ TasksInScope /\ StackAccounts

\* The body runs with every resource entered; the only exception is a single
\* LookupError of a disposable of a nested scope without preset.
BodyHasResources == pc \in {"body", "joining"} => held = InUse \/ stateLost

\* The failure of a task never leaves the scope unnoticed, and nobody sees a
\* CancelledError that neither an outside cancellation nor such a failure caused.
OutcomeTruthful ==
    pc = "left" =>
        /\ Failed # {} => raised # "none"
        /\ raised = "cancelled" => cancels > 0 \/ Failed # {}

\* Strengthening of OutcomeTruthful: every cancellation has a cause, and what
\* made the group fail is on its way out once the group was left.
OutcomeInv ==
    /\ cancelled \/ raised = "cancelled" => cancels > 0 \/ Failed # {}
    /\ joinCancelled => cancels > 0
    /\ Failed # {} => isolated /\ aborting /\ pc \notin {"new", "entering"}
    /\ pc \in {"leaving", "left"} /\ Failed # {} => raised # "none"

\* Strengthening of BodyHasResources: what was entered without failing is held.
EntryInv ==
    /\ pc = "entering" =>
        /\ FirstLayers(level - 1) \subseteq held
        /\ \A d \in Layer(level) : call[d] = "idle" /\ failure[d] = "none" => d \in held
    /\ BodyHasResources

\* Where the scope is on its way from `async with` to the end of the exit stack.
StageLeft ==
    CASE pc = "new" -> 2 * Len(layers) + 3
      [] pc = "entering" -> 2 * Len(layers) + 3 - level
      [] pc = "body" -> Len(layers) + 2
      [] pc = "joining" -> Len(layers) + 1
      [] pc = "leaving" -> level
      [] pc = "left" -> 0

\* How much is left to happen before the next stage: calls that run, tasks to
\* spawn and to end, and interruptions of the owner.
StepsLeft ==
    Cardinality({d \in Disposables : call[d] # "idle"})
    + 3 * Cardinality({c \in Children : child[c] = "new"})
    + 2 * Cardinality(Live)
    + 2 * (MaxCancels - cancels)
    + (IF cancelled THEN 1 ELSE 0)
    + (IF aborting THEN 0 ELSE 1)

\* A scope only goes forward: every step, of the owner, a disposable or a task,
\* reaches the next stage or leaves less to happen before it.  No failure and no
\* cancellation makes it enter or leave a layer again.
EveryStepCounts ==
    [][\/ StageLeft' < StageLeft
       \/ StageLeft' = StageLeft /\ StepsLeft' < StepsLeft]_vars

\* An exception is on its way out, a task failed, or an await was cancelled.
Interrupted == raised # "none" \/ aborting \/ (cancelled /\ pc # "body")

\* The owner can go on after the calls of a layer, or one of them can end.
GatherGoesOn(what) ==
    (\A d \in Disposables : call[d] = "idle") \/ (\E d \in Disposables : call[d] = what)

\* An interrupted scope remains so until it was left, and until then one of the
\* steps FairSpec promises can be made: it waits for no task that was not told to
\* stop, and for no disposable but those of the layer at hand.
InterruptedGoesOn ==
    Interrupted =>
        \/ pc = "left"
        \/ pc = "entering" /\ GatherGoesOn("entering")
        \/ pc = "leaving" /\ GatherGoesOn("exiting")
        \/ pc = "body" /\ aborting
        \/ pc = "joining" /\ (cancelled \/ Live = {} \/ \E c \in Children : child[c] = "stopping")
StaysInterrupted == [][Interrupted => Interrupted']_vars

\* Once an exception is on its way out of the scope, a task failed, or the
\* owner was cancelled anywhere but in its own code, the scope ends: none of its
\* waits survives cancellation.
InterruptedScopeEnds == Interrupted ~> pc = "left"
=============================================================================
