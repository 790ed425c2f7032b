--------------------------- MODULE MCContextScope ---------------------------
(* A small scope for TLC, with and without a preset, nested or root,       *)
(* isolated or not, as Init chooses; and concurrent processing, whose task *)
(* group is local to one call.  `subject` says which of the two a          *)
(* behaviour is about, and the other stays as it began.                    *)
EXTENDS ContextScope

CONSTANTS Size, Concurrency

VARIABLES
    subject, mode, at, taken, task, unseen, tasks, stopped, told, joinTold, thrown, outcome,
    interruptions

Processing == INSTANCE Concurrent WITH
    pc <- at, aborting <- stopped, cancelled <- told, joinCancelled <- joinTold,
    raised <- thrown, cancels <- interruptions

processingVars == <<mode, at, taken, task, unseen, tasks, stopped, told, joinTold, thrown,
                    outcome, interruptions>>
groupsVars == <<subject, vars, processingVars>>

GroupsInit ==
    /\ subject \in {"scope", "processing"}
    /\ Init
    /\ subject # "scope" => layers = <<Own>> /\ nested /\ ~isolated
    /\ Processing!Init
    /\ subject # "processing" => mode = [async |-> FALSE, keep |-> FALSE, collect |-> FALSE]

\* A step of the scope, or of the processing, in the behaviours that are about it.
Scoped(step) == subject = "scope" /\ step /\ UNCHANGED <<subject, processingVars>>
Processed(step) == subject = "processing" /\ step /\ UNCHANGED <<subject, vars>>

\* The fairness of both.
GroupsSpec ==
    /\ GroupsInit
    /\ [][Scoped(Next) \/ Processed(Processing!Next)]_groupsVars
    /\ WF_groupsVars(Scoped(LayerEntered)) /\ WF_groupsVars(Scoped(LayerExited))
    /\ WF_groupsVars(Scoped(JoinInterrupted)) /\ WF_groupsVars(Scoped(Joined))
    /\ WF_groupsVars(Scoped(aborting /\ BodyEnds))
    /\ \A d \in Disposables :
        WF_groupsVars(Scoped(EnterEnds(d))) /\ WF_groupsVars(Scoped(ExitEnds(d)))
    /\ \A c \in Children : WF_groupsVars(Scoped(child[c] = "stopping" /\ ChildEnds(c)))
    /\ WF_groupsVars(Processed(Processing!Promised))
-----------------------------------------------------------------------------
\* Concurrent: a call that failed or was cancelled returns.
InterruptedCallReturns == Processing!InterruptedCallReturns
=============================================================================
