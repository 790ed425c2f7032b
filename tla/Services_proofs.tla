---------------------------- MODULE Services_proofs ----------------------------
(***************************************************************************)
(* Proofs about the components of MCServices, each for every value of its  *)
(* constants.  A step of one component leaves the others as they are, so   *)
(* each invariant is shown on the steps of its component alone.            *)
(***************************************************************************)
EXTENDS MCServices, FiniteSetTheorems, SequenceTheorems, WellFoundedInduction, TLAPS
-----------------------------------------------------------------------------
(* Concurrent processing: for every source size and concurrency.           *)

InLoop == pc \in {"taking", "waiting", "draining"}

\* The caller looks at every task that runs, and in the loop at every one that
\* failed; it takes an element only when there is room for its task.
Tracked ==
    /\ tasks \subseteq 1..taken
    /\ Cardinality(tasks) <= Concurrency
    /\ pc = "taking" => Cardinality(tasks) < Concurrency
    /\ \A k \in Elements : task[k] = "new" <=> k > taken
    /\ \A k \in Elements : Running(k) => k \in tasks
    /\ \A k \in Elements : k \in unseen => Ended(k)
    /\ InLoop => Failed \subseteq tasks

\* Why the caller was cancelled: from outside, or by the group for a failure
\* that the caller sees among its tasks when it waits for them.
Cancellation ==
    /\ InLoop => ~joinCancelled /\ (aborting \/ cancels > 0 => cancelled)
    /\ InLoop /\ cancelled => cancels > 0 \/ Failed # {}
    /\ pc = "taking" /\ cancelled => mode.async
    /\ pc = "joining" /\ cancelled /\ ~aborting => cancels > 0
    /\ joinCancelled => cancels > 0

\* Why the body was left, and what is true of its end.
Endings ==
    /\ InLoop => raised = "none"
    /\ raised = "error" => Failed # {}
    /\ raised = "cancelled" => cancels > 0 \/ (mode.async /\ Failed # {})
    /\ pc = "draining" => taken = Size
    /\ pc \in {"joining", "returned"} /\ raised = "none" => taken = Size
    /\ pc = "returned" => unseen = {} /\ \A k \in Elements : ~Running(k)

\* The inductive invariant.
CInv == TypeOK /\ Tracked /\ Cancellation /\ Endings /\ OutcomeJustified

LEMMA TasksFinite ==
  ASSUME TypeOK, Tracked
  PROVE  /\ IsFiniteSet(tasks)
         /\ Cardinality(tasks) \in Nat
         /\ taken \in Nat
<1>1. taken \in Nat
  BY ConcurrentAssumption DEF TypeOK
<1>2. IsFiniteSet(1..taken)
  BY <1>1, FS_Interval
<1> QED
  BY <1>1, <1>2, FS_Subset, FS_CardinalityType DEF Tracked

LEMMA TasksAreElements ==
  ASSUME TypeOK
  PROVE  tasks \subseteq Elements
  BY DEF TypeOK

LEMMA CInvInit == Init => CInv
<1> SUFFICES ASSUME Init PROVE CInv
  OBVIOUS
<1> USE DEF Init
<1>1. TypeOK
  <2>1. 0 \in 0..Size /\ 0 \in 0..MaxCancels
    BY ConcurrentAssumption
  <2> QED
    BY <2>1 DEF TypeOK
<1>2. Tracked
  BY FS_EmptySet, ConcurrentAssumption DEF Tracked, Running, Failed, Elements
<1>3. Cancellation /\ Endings /\ OutcomeJustified
  BY DEF Cancellation, Endings, OutcomeJustified
<1> QED
  BY <1>1, <1>2, <1>3 DEF CInv

\* Aborting tells running tasks to stop and changes no other.
LEMMA AbortedTasks ==
  ASSUME TypeOK
  PROVE  /\ Aborted \in [Elements -> {"new", "running", "stopping", "value", "error", "cancelled"}]
         /\ \A k \in Elements : Aborted[k] = "new" <=> task[k] = "new"
         /\ \A k \in Elements : Aborted[k] \in {"running", "stopping"} <=> Running(k)
         /\ \A k \in Elements : Ended(k) => Aborted[k] = task[k]
         /\ \A k \in Elements : Aborted[k] = "error" <=> task[k] = "error"
  BY DEF TypeOK, Aborted, Running, Ended

\* Leaving the body, with the tasks that are still looked at.
LEMMA LeaveBodyKeeps ==
  ASSUME CInv, InLoop, NEW exc \in {"none", "error", "source", "cancelled"}, LeaveBody(exc),
         UNCHANGED <<mode, taken, unseen, joinCancelled, outcome, cancels>>,
         tasks' \subseteq tasks,
         \A k \in Elements : Running(k) => k \in tasks',
         cancelled' = FALSE,
         exc = "none" => taken = Size,
         exc = "error" => Failed # {},
         exc = "cancelled" => cancels > 0 \/ (mode.async /\ Failed # {})
  PROVE  CInv'
<1>1. /\ task' \in [Elements -> {"new", "running", "stopping", "value", "error", "cancelled"}]
      /\ \A k \in Elements : task'[k] = "new" <=> task[k] = "new"
      /\ \A k \in Elements : task'[k] \in {"running", "stopping"} <=> Running(k)
      /\ \A k \in Elements : Ended(k) => task'[k] = task[k]
      /\ \A k \in Elements : task'[k] = "error" <=> task[k] = "error"
      /\ aborting' \in BOOLEAN
      /\ pc' = "joining" /\ raised' = exc
  BY AbortedTasks DEF LeaveBody, CInv, TypeOK, Running
<1>2. TypeOK'
  BY <1>1 DEF CInv, TypeOK
<1>3. Tracked'
  <2>1. Cardinality(tasks') <= Concurrency
    <3>1. IsFiniteSet(tasks') /\ Cardinality(tasks') <= Cardinality(tasks)
      BY TasksFinite, FS_Subset DEF CInv
    <3>2. Cardinality(tasks') \in Nat
      BY <3>1, FS_CardinalityType
    <3> QED
      BY <3>1, <3>2, TasksFinite, ConcurrentAssumption DEF CInv, Tracked
  <2> QED
    BY <1>1, <2>1 DEF CInv, Tracked, Running, Ended, InLoop
<1>4. Failed' = Failed
  BY <1>1 DEF Failed
<1>5. Cancellation' /\ Endings' /\ OutcomeJustified'
  BY <1>1, <1>4 DEF CInv, Cancellation, Endings, OutcomeJustified, InLoop
<1> QED
  BY <1>2, <1>3, <1>5 DEF CInv

\* The tasks that start fit into the room there is.
LEMMA BatchFits ==
  ASSUME CInv, pc = "taking", taken < Size
  PROVE  /\ Batch \in Nat \ {0}
         /\ taken + Batch <= Size
         /\ Cardinality(tasks \cup ((taken + 1)..(taken + Batch))) <= Concurrency
         /\ tasks \cup ((taken + 1)..(taken + Batch)) \subseteq 1..(taken + Batch)
<1>1. taken \in Nat /\ Size \in Nat /\ Cardinality(tasks) \in Nat /\ Concurrency \in Nat
  BY TasksFinite, ConcurrentAssumption DEF CInv
<1>2. Cardinality(tasks) < Concurrency
  BY DEF CInv, Tracked
<1>3. Batch \in Nat \ {0} /\ taken + Batch <= Size /\ Batch <= Room
  <2>1. Room \in Nat \ {0}
    BY <1>1, <1>2 DEF Room
  <2>2. Size - taken \in Nat \ {0}
    BY <1>1
  <2>3. Batch \in {1, Size - taken, Room} /\ Batch <= Room /\ Batch <= Size - taken
    BY <2>1, <2>2 DEF Batch
  <2> QED
    BY <1>1, <2>1, <2>2, <2>3
<1> DEFINE new == (taken + 1)..(taken + Batch)
<1>4. IsFiniteSet(new) /\ Cardinality(new) = Batch
  <2>1. taken + 1 \in Int /\ taken + Batch \in Int /\ taken + 1 <= taken + Batch
        /\ (taken + Batch) - (taken + 1) + 1 = Batch
    BY <1>1, <1>3
  <2>2. /\ IsFiniteSet(new)
        /\ Cardinality(new) = IF taken + 1 > taken + Batch THEN 0
                              ELSE (taken + Batch) - (taken + 1) + 1
    BY <2>1, FS_Interval
  <2> HIDE DEF new
  <2> QED
    BY <1>1, <1>3, <2>1, <2>2
<1>9. IsFiniteSet(tasks)
  BY TasksFinite DEF CInv
<1>5. Cardinality(tasks \cup new) <= Cardinality(tasks) + Cardinality(new)
  <2>1. tasks \cap new = {}
    BY <1>1, <1>3 DEF CInv, Tracked
  <2> HIDE DEF new
  <2>2. Cardinality(tasks \cup new)
          = Cardinality(tasks) + Cardinality(new) - Cardinality(tasks \cap new)
    BY <1>9, <1>4, FS_Union
  <2> QED
    BY <1>1, <1>3, <1>4, <2>1, <2>2, FS_EmptySet
<1>6. IsFiniteSet(tasks \cup new)
  BY <1>9, <1>4, FS_Union
<1>7. Cardinality(tasks \cup new) \in Nat
  BY <1>6, FS_CardinalityType
<1>8. tasks \cup new \subseteq 1..(taken + Batch)
  BY <1>1, <1>3 DEF CInv, Tracked
<1> QED
  BY <1>1, <1>3, <1>4, <1>5, <1>7, <1>8 DEF Room

LEMMA TakeKeeps ==
  ASSUME CInv, Take
  PROVE  CInv'
<1> DEFINE new == (taken + 1)..(taken + Batch)
<1>1. /\ pc = "taking" /\ ~cancelled /\ taken < Size
      /\ taken' = taken + Batch
      /\ task' = [k \in Elements |-> IF k \in new THEN "running" ELSE task[k]]
      /\ tasks' = tasks \cup new
      /\ pc' = IF Cardinality(tasks') < Concurrency THEN "taking" ELSE "waiting"
      /\ UNCHANGED <<mode, unseen, aborting, cancelled, joinCancelled, raised, outcome, cancels>>
  BY DEF Take
<1>2. /\ Batch \in Nat \ {0} /\ taken + Batch <= Size /\ Cardinality(tasks') <= Concurrency
      /\ tasks' \subseteq 1..taken' /\ taken \in Nat /\ Size \in Nat
  BY <1>1, BatchFits, TasksFinite, ConcurrentAssumption DEF CInv
<1>3. \A k \in Elements : k \in new <=> k > taken /\ k <= taken'
  BY <1>1, <1>2 DEF Elements
<1> HIDE DEF new
<1>4. \A k \in Elements :
          /\ k \in new => task[k] = "new" /\ task'[k] = "running" /\ k \in tasks'
          /\ k \notin new => task'[k] = task[k]
  BY <1>1, <1>3 DEF CInv, Tracked
<1>5. TypeOK'
  <2>1. taken' \in 0..Size
    BY <1>1, <1>2
  <2>2. tasks' \subseteq Elements
    BY <1>1, <1>2 DEF Elements
  <2>3. task' \in [Elements -> {"new", "running", "stopping", "value", "error", "cancelled"}]
    BY <1>1 DEF CInv, TypeOK
  <2> QED
    BY <1>1, <2>1, <2>2, <2>3 DEF CInv, TypeOK
<1>6. Failed' = Failed
  BY <1>4 DEF Failed
<1>7. Tracked'
  <2>1. \A k \in Elements : task'[k] = "new" <=> k > taken'
    <3> SUFFICES ASSUME NEW k \in Elements PROVE task'[k] = "new" <=> k > taken'
      OBVIOUS
    <3>1. k \in Nat /\ taken' \in Nat /\ taken <= taken'
      BY <1>1, <1>2 DEF Elements
    <3> QED
      BY <1>2, <1>3, <1>4, <3>1 DEF CInv, Tracked
  <2>2. \A k \in Elements : Running(k)' => k \in tasks'
    BY <1>1, <1>4 DEF CInv, Tracked, Running
  <2>3. \A k \in Elements : k \in unseen' => Ended(k)'
    BY <1>1, <1>4 DEF CInv, Tracked, Ended
  <2>4. Failed' \subseteq tasks'
    BY <1>1, <1>6 DEF CInv, Tracked, InLoop
  <2> QED
    BY <1>1, <1>2, <2>1, <2>2, <2>3, <2>4 DEF Tracked
<1>8. Cancellation' /\ Endings' /\ OutcomeJustified'
  BY <1>1, <1>6 DEF CInv, Cancellation, Endings, OutcomeJustified, InLoop
<1> QED
  BY <1>5, <1>7, <1>8 DEF CInv

LEMMA ExhaustedKeeps ==
  ASSUME CInv, Exhausted
  PROVE  CInv'
<1>1. /\ pc = "taking" /\ ~cancelled /\ taken = Size
      /\ UNCHANGED <<mode, taken, unseen, tasks, cancelled, joinCancelled, outcome, cancels>>
  BY DEF Exhausted
<1>2. CASE tasks # {}
  <2>1. pc' = "draining" /\ UNCHANGED <<raised, aborting, task>>
    BY <1>2 DEF Exhausted
  <2>2. TypeOK'
    BY <1>1, <2>1 DEF CInv, TypeOK
  <2>3. Tracked'
    BY <1>1, <2>1 DEF CInv, Tracked, Running, Ended, Failed, InLoop
  <2>4. Cancellation' /\ Endings' /\ OutcomeJustified'
    BY <1>1, <2>1 DEF CInv, Cancellation, Endings, OutcomeJustified, InLoop, Failed
  <2> QED
    BY <2>2, <2>3, <2>4 DEF CInv
<1>3. CASE tasks = {}
  BY <1>1, <1>3, LeaveBodyKeeps DEF Exhausted, InLoop, CInv, TypeOK, Tracked
<1> QED
  BY <1>2, <1>3

LEMMA SourceRaisesKeeps ==
  ASSUME CInv, SourceRaises
  PROVE  CInv'
<1>1. InLoop /\ pc = "taking"
      /\ UNCHANGED <<mode, taken, unseen, tasks, joinCancelled, outcome, cancels>>
      /\ cancelled' = FALSE
  BY DEF SourceRaises, InLoop
<1>2. \A k \in Elements : Running(k) => k \in tasks'
  BY <1>1 DEF CInv, Tracked
<1>3. CASE LeaveBody("source")
  BY <1>1, <1>2, <1>3, LeaveBodyKeeps
<1>4. CASE cancelled /\ LeaveBody("cancelled")
  <2>1. cancels > 0 \/ (mode.async /\ Failed # {})
    BY <1>1, <1>4 DEF CInv, Cancellation
  <2> QED
    BY <1>1, <1>2, <1>4, <2>1, LeaveBodyKeeps
<1> QED
  BY <1>3, <1>4 DEF SourceRaises

LEMMA WaitCancelledKeeps ==
  ASSUME CInv, WaitCancelled
  PROVE  CInv'
<1>1. InLoop /\ cancelled
      /\ UNCHANGED <<mode, taken, unseen, tasks, joinCancelled, outcome, cancels>>
      /\ cancelled' = FALSE
  BY DEF WaitCancelled, InLoop
<1>2. \A k \in Elements : Running(k) => k \in tasks'
  BY <1>1 DEF CInv, Tracked
<1>3. CASE Failure(tasks)
  <2>1. Failed # {}
    BY <1>3, TasksAreElements DEF Failure, Failed, CInv
  <2> QED
    BY <1>1, <1>2, <1>3, <2>1, LeaveBodyKeeps DEF WaitCancelled
<1>4. CASE ~Failure(tasks)
  <2>1. Failed = {}
    BY <1>1, <1>4 DEF CInv, Tracked, Failure, Failed
  <2>2. cancels > 0
    BY <1>1, <2>1 DEF CInv, Cancellation
  <2> QED
    BY <1>1, <1>2, <1>4, <2>2, LeaveBodyKeeps DEF WaitCancelled
<1> QED
  BY <1>3, <1>4

LEMMA WaitReturnsKeeps ==
  ASSUME CInv, WaitReturns
  PROVE  CInv'
<1> DEFINE completed == {k \in tasks : Ended(k)}
<1>1. /\ InLoop /\ ~cancelled /\ pc \in {"waiting", "draining"}
      /\ tasks' = tasks \ completed
      /\ UNCHANGED <<mode, taken, unseen, cancelled, joinCancelled, outcome, cancels>>
  BY DEF WaitReturns, InLoop
<1>2. \A k \in Elements : Running(k) => k \in tasks'
  BY <1>1 DEF CInv, Tracked, Running, Ended
<1>3. tasks' \subseteq tasks /\ cancelled' = FALSE
  BY <1>1 DEF CInv, TypeOK
<1>4. CASE Failure(completed)
  <2>1. Failed # {}
    BY <1>4, TasksAreElements DEF Failure, Failed, CInv
  <2> QED
    BY <1>1, <1>2, <1>3, <1>4, <2>1, LeaveBodyKeeps DEF WaitReturns
<1>5. CASE ~Failure(completed) /\ pc = "draining"
  <2>1. LeaveBody("none") /\ taken = Size
    BY <1>1, <1>5 DEF WaitReturns, CInv, Endings
  <2> QED
    BY <1>1, <1>2, <1>3, <2>1, LeaveBodyKeeps
<1>6. CASE ~Failure(completed) /\ pc # "draining"
  <2>1. pc' = "taking" /\ UNCHANGED <<raised, aborting, task>>
    BY <1>6 DEF WaitReturns
  <2>2. PICK k \in tasks : k \in completed
    BY <1>1, <1>6 DEF WaitReturns, Seen
  <2>3. Cardinality(tasks') < Concurrency
    <3>1. IsFiniteSet(tasks) /\ Cardinality(tasks) \in Nat /\ Cardinality(tasks) <= Concurrency
      BY TasksFinite DEF CInv, Tracked
    <3>2. IsFiniteSet(tasks') /\ Cardinality(tasks') <= Cardinality(tasks)
          /\ (Cardinality(tasks) = Cardinality(tasks') => tasks = tasks')
      BY <1>3, <3>1, FS_Subset
    <3>3. tasks # tasks' /\ Cardinality(tasks') \in Nat
      BY <1>1, <2>2, <3>2, FS_CardinalityType
    <3> QED
      BY <3>1, <3>2, <3>3, ConcurrentAssumption
  <2>4. Failed = {}
    <3>1. Failed \subseteq completed
      BY <1>1 DEF CInv, Tracked, Failed, Ended
    <3> QED
      BY <1>6, <3>1 DEF Failure, Failed
  <2>5. TypeOK'
    BY <1>1, <1>3, <2>1 DEF CInv, TypeOK
  <2>6. Tracked'
    <3>1. Cardinality(tasks') \in Nat
      BY <1>3, TasksFinite, FS_Subset, FS_CardinalityType DEF CInv
    <3>2. Cardinality(tasks') <= Concurrency
      BY <2>3, <3>1, ConcurrentAssumption
    <3>3. tasks' \subseteq 1..taken' /\ UNCHANGED <<taken, task, unseen>>
      BY <1>1, <1>3, <2>1 DEF CInv, Tracked
    <3>4. Failed' \subseteq tasks'
      BY <2>4, <3>3 DEF Failed
    <3> QED
      BY <1>2, <2>3, <3>2, <3>3, <3>4 DEF CInv, Tracked, Running, Ended
  <2>7. Cancellation' /\ Endings' /\ OutcomeJustified'
    BY <1>1, <1>3, <2>1, <2>4 DEF CInv, Cancellation, Endings, OutcomeJustified, InLoop, Failed
  <2> QED
    BY <2>5, <2>6, <2>7 DEF CInv
<1> QED
  BY <1>4, <1>5, <1>6

LEMMA TaskEndsKeeps ==
  ASSUME CInv, NEW k \in Elements, TaskEnds(k)
  PROVE  CInv'
<1>1. PICK how \in {"value", "error", "cancelled"} :
          /\ Running(k) /\ task' = [task EXCEPT ![k] = how] /\ unseen' = unseen \cup {k}
          /\ UNCHANGED <<mode, pc, taken, tasks, aborting, cancelled, joinCancelled, raised,
                         outcome, cancels>>
  BY DEF TaskEnds
<1>2. task'[k] = how /\ \A j \in Elements : j # k => task'[j] = task[j]
  BY <1>1 DEF CInv, TypeOK
<1>3. TypeOK'
  BY <1>1 DEF CInv, TypeOK
<1>4. Failed \subseteq Failed' /\ Failed' \subseteq Failed \cup {k}
  BY <1>1, <1>2 DEF Failed, Running
<1>5. k \in tasks /\ task[k] # "new"
  BY <1>1 DEF CInv, Tracked, Running
<1>6. Tracked'
  BY <1>1, <1>2, <1>4, <1>5 DEF CInv, Tracked, Running, Ended, InLoop
<1>7. pc # "returned"
  BY <1>1 DEF CInv, Endings
<1>8. Cancellation' /\ Endings' /\ OutcomeJustified'
  BY <1>1, <1>4, <1>7 DEF CInv, Cancellation, Endings, OutcomeJustified, InLoop
<1> QED
  BY <1>3, <1>6, <1>8 DEF CInv

LEMMA TaskSeenKeeps ==
  ASSUME CInv, NEW k \in Elements, TaskSeen(k)
  PROVE  CInv'
<1>1. /\ k \in unseen /\ ~Busy /\ unseen' = unseen \ {k} /\ pc # "returned"
      /\ UNCHANGED <<mode, pc, taken, tasks, joinCancelled, raised, outcome, cancels>>
  BY DEF TaskSeen, CInv, Endings
<1>2. CASE task[k] = "error" /\ ~aborting
  <2>1. aborting' = TRUE /\ task' = Aborted /\ cancelled' = TRUE
    BY <1>2 DEF TaskSeen
  <2>2. Failed' = Failed /\ k \in Failed
    BY <1>2, <2>1, AbortedTasks DEF CInv, Failed
  <2>3. TypeOK'
    BY <1>1, <2>1, AbortedTasks DEF CInv, TypeOK
  <2>4. Tracked'
    BY <1>1, <2>1, <2>2, AbortedTasks DEF CInv, Tracked, Running, Ended, InLoop
  <2>5. Cancellation' /\ Endings' /\ OutcomeJustified'
    BY <1>1, <2>1, <2>2
    DEF CInv, Cancellation, Endings, OutcomeJustified, InLoop, Busy, TypeOK
  <2> QED
    BY <2>3, <2>4, <2>5 DEF CInv
<1>3. CASE ~(task[k] = "error" /\ ~aborting)
  <2>1. UNCHANGED <<aborting, task, cancelled>>
    BY <1>3 DEF TaskSeen
  <2> QED
    BY <1>1, <2>1
    DEF CInv, TypeOK, Tracked, Cancellation, Endings, OutcomeJustified, InLoop, Running, Ended, Failed
<1> QED
  BY <1>2, <1>3

LEMMA JoinInterruptedKeeps ==
  ASSUME CInv, JoinInterrupted
  PROVE  CInv'
<1>1. /\ pc = "joining" /\ cancelled /\ cancelled' = FALSE
      /\ UNCHANGED <<mode, pc, taken, unseen, tasks, raised, outcome, cancels>>
  BY DEF JoinInterrupted
<1>2. CASE aborting
  <2>1. UNCHANGED <<aborting, task, joinCancelled>>
    BY <1>2 DEF JoinInterrupted
  <2>2. TypeOK'
    BY <1>1, <2>1 DEF CInv, TypeOK
  <2>3. Tracked'
    BY <1>1, <2>1 DEF CInv, Tracked, Running, Ended, Failed, InLoop
  <2>4. Cancellation' /\ Endings' /\ OutcomeJustified'
    BY <1>1, <2>1
    DEF CInv, Cancellation, Endings, OutcomeJustified, InLoop, Running, Failed
  <2> QED
    BY <2>2, <2>3, <2>4 DEF CInv
<1>3. CASE ~aborting
  <2>1. aborting' = TRUE /\ task' = Aborted /\ joinCancelled' = TRUE
    BY <1>3 DEF JoinInterrupted
  <2>2. Failed' = Failed
    BY <2>1, AbortedTasks DEF CInv, Failed
  <2>3. TypeOK'
    BY <1>1, <2>1, AbortedTasks DEF CInv, TypeOK
  <2>4. Tracked'
    BY <1>1, <2>1, <2>2, AbortedTasks DEF CInv, Tracked, Running, Ended, InLoop
  <2>5. Cancellation' /\ Endings' /\ OutcomeJustified'
    BY <1>1, <1>3, <2>1, <2>2 DEF CInv, Cancellation, Endings, OutcomeJustified, InLoop
  <2> QED
    BY <2>3, <2>4, <2>5 DEF CInv
<1> QED
  BY <1>2, <1>3

LEMMA ReturnKeeps ==
  ASSUME CInv, Return
  PROVE  CInv'
<1>1. /\ pc = "joining" /\ GroupDone /\ pc' = "returned"
      /\ outcome' = IF GroupRaises = "none" THEN Collected ELSE GroupRaises
      /\ UNCHANGED <<mode, taken, task, unseen, tasks, aborting, cancelled, joinCancelled, raised,
                     cancels>>
  BY DEF Return
<1>2. TypeOK'
  BY <1>1 DEF CInv, TypeOK, GroupRaises, Collected
<1>3. Tracked' /\ Cancellation'
  BY <1>1 DEF CInv, Tracked, Cancellation, InLoop, Running, Ended, Failed
<1>4. Endings'
  BY <1>1 DEF CInv, Endings, GroupDone, InLoop, TypeOK, Running, Failed
<1>5. OutcomeJustified'
  <2>1. ASSUME outcome' = "results"
        PROVE  taken = Size /\ \A k \in Elements :
                   task[k] = "value" \/ (task[k] = "cancelled" /\ ~mode.collect)
    <3>1. raised = "none" /\ Failed = {} /\ Collected = "results"
      BY <1>1, <2>1 DEF GroupRaises, CInv, TypeOK
    <3>2. taken = Size
      BY <1>1, <3>1 DEF CInv, Endings
    <3>3. ASSUME NEW k \in Elements
          PROVE  task[k] = "value" \/ (task[k] = "cancelled" /\ ~mode.collect)
      <4>1. task[k] # "new"
        BY <3>2, ConcurrentAssumption DEF CInv, Tracked, Elements
      <4>2. task[k] \in {"value", "cancelled"}
        BY <1>1, <3>1, <4>1 DEF GroupDone, Running, Failed, CInv, TypeOK
      <4> QED
        BY <3>1, <4>2 DEF Collected
    <3> QED
      BY <3>2, <3>3
  <2>2. outcome' \in {"error", "group"} => Failed # {}
    BY <1>1 DEF GroupRaises, Collected, CInv, TypeOK, Endings
  <2>3. outcome' = "cancelled" =>
            \/ cancels > 0
            \/ mode.async /\ Failed # {}
            \/ mode.collect /\ Failed = {} /\ \E k \in Elements : task[k] = "cancelled"
    <3>1. CASE raised = "cancelled"
      BY <3>1 DEF CInv, Endings
    <3>2. CASE raised # "cancelled" /\ GroupRaises = "cancelled"
      BY <3>2 DEF GroupRaises, CInv, Cancellation
    <3>3. CASE GroupRaises = "none"
      BY <1>1, <3>3 DEF GroupRaises, Collected
    <3> QED
      BY <1>1, <3>1, <3>2, <3>3 DEF GroupRaises
  <2> QED
    BY <1>1, <2>1, <2>2, <2>3 DEF OutcomeJustified, Failed
<1> QED
  BY <1>2, <1>3, <1>4, <1>5 DEF CInv

LEMMA CancelCallerKeeps ==
  ASSUME CInv, CancelCaller
  PROVE  CInv'
<1>1. /\ InLoop => pc # "taking" \/ mode.async
      /\ pc # "returned" /\ cancels < MaxCancels /\ cancels' = cancels + 1 /\ cancelled' = TRUE
      /\ UNCHANGED <<mode, pc, taken, task, unseen, tasks, aborting, joinCancelled, raised, outcome>>
  BY DEF CancelCaller, InLoop
<1>2. cancels' \in 0..MaxCancels /\ cancels' > 0
  BY <1>1, ConcurrentAssumption DEF CInv, TypeOK
<1>3. TypeOK'
  BY <1>1, <1>2 DEF CInv, TypeOK
<1>4. Tracked'
  BY <1>1 DEF CInv, Tracked, Running, Ended, Failed, InLoop
<1>5. Cancellation' /\ Endings' /\ OutcomeJustified'
  BY <1>1, <1>2 DEF CInv, Cancellation, Endings, OutcomeJustified, InLoop, Running, Failed
<1> QED
  BY <1>3, <1>4, <1>5 DEF CInv

LEMMA CInvStep == CInv /\ [Next]_vars => CInv'
<1> SUFFICES ASSUME CInv, [Next]_vars PROVE CInv'
  OBVIOUS
<1>1. ASSUME NEW k \in Elements, TaskEnds(k) \/ TaskSeen(k) PROVE CInv'
  BY <1>1, TaskEndsKeeps, TaskSeenKeeps
<1>2. CASE UNCHANGED vars
  BY <1>2
  DEF vars, CInv, TypeOK, Tracked, Cancellation, Endings, OutcomeJustified, InLoop, Running,
      Ended, Failed
<1> QED
  BY <1>1, <1>2, TakeKeeps, ExhaustedKeeps, SourceRaisesKeeps, WaitCancelledKeeps,
     WaitReturnsKeeps, JoinInterruptedKeeps, ReturnKeeps, CancelCallerKeeps
  DEF Next

THEOREM Invariance == Spec => []CInv
  BY CInvInit, CInvStep, PTL DEF Spec

\* No more tasks run than allowed, the caller looks at every task that may
\* still fail it, and none is left when it returns.
THEOREM BoundedHolds == Spec => []Bounded
<1>1. CInv => Bounded
  <2> SUFFICES ASSUME CInv PROVE Bounded
    OBVIOUS
  <2> DEFINE running == {k \in Elements : Running(k)}
  <2>1. running \subseteq tasks
    BY DEF CInv, Tracked
  <2>2. IsFiniteSet(running) /\ Cardinality(running) <= Cardinality(tasks)
    BY <2>1, TasksFinite, FS_Subset DEF CInv
  <2>3. Cardinality(running) <= Concurrency
    <3> HIDE DEF running
    <3>1. Cardinality(running) \in Nat /\ Cardinality(tasks) \in Nat
      BY <2>2, TasksFinite, FS_CardinalityType DEF CInv
    <3> QED
      BY <2>2, <3>1, ConcurrentAssumption DEF CInv, Tracked
  <2>4. pc \in {"taking", "waiting", "draining"} =>
            {k \in 1..taken : Running(k) \/ task[k] = "error"} \subseteq tasks
    <3>1. 1..taken \subseteq Elements
      BY ConcurrentAssumption DEF CInv, TypeOK, Elements
    <3> QED
      BY <3>1 DEF CInv, Tracked, InLoop, Failed
  <2>5. pc = "returned" => \A k \in Elements : ~Running(k)
    BY DEF CInv, Endings
  <2> QED
    BY <2>3, <2>4, <2>5 DEF Bounded, CInv
<1> QED
  BY <1>1, Invariance, PTL

\* Results are complete, and every other outcome has its cause.
THEOREM OutcomeJustifiedHolds == Spec => []OutcomeJustified
<1>1. CInv => OutcomeJustified
  BY DEF CInv
<1> QED
  BY <1>1, Invariance, PTL

\* After a failure was seen, or a cancellation, no element is taken.
THEOREM StopsTakingHolds == Spec => StopsTaking
<1>1. CInv /\ [Next]_vars => [aborting \/ cancels > 0 => taken' = taken]_vars
  <2> SUFFICES ASSUME CInv, Next, aborting \/ cancels > 0 PROVE taken' = taken
    BY DEF vars
  <2>1. ~Take
    BY DEF Take, CInv, Cancellation, InLoop
  <2> QED
    BY <2>1
    DEF Next, Exhausted, SourceRaises, WaitCancelled, WaitReturns, JoinInterrupted, Return,
        CancelCaller, TaskEnds, TaskSeen
<1> QED
  BY <1>1, Invariance, PTL DEF Spec, StopsTaking

\* What is counted: the running tasks, and the shares of the caller.
Active == {k \in Elements : Running(k)}
PcLeft ==
    CASE pc \in {"taking", "waiting"} -> 3 [] pc = "draining" -> 2 [] pc = "joining" -> 1
      [] pc = "returned" -> 0
CancelledLeft == IF cancelled THEN 1 ELSE 0
AbortLeft == IF aborting THEN 0 ELSE 1

\* The bounds of what is counted, and the sum.
Counted ==
    /\ Size \in Nat /\ taken \in Nat /\ taken <= Size
    /\ MaxCancels \in Nat /\ cancels \in Nat /\ cancels <= MaxCancels
    /\ Active \in SUBSET Elements /\ unseen \in SUBSET Elements /\ tasks \in SUBSET Elements
    /\ Cardinality(Active) \in Nat /\ Cardinality(unseen) \in Nat /\ Cardinality(tasks) \in Nat
    /\ CancelledLeft \in {0, 1} /\ AbortLeft \in {0, 1} /\ PcLeft \in 0..3
    /\ StepsLeft = 4 * (Size - taken) + 2 * Cardinality(Active) + Cardinality(unseen)
                    + Cardinality(tasks) + 2 * (MaxCancels - cancels) + CancelledLeft + AbortLeft
                    + PcLeft

LEMMA ElementsCounted ==
  ASSUME NEW S \in SUBSET Elements
  PROVE  IsFiniteSet(S) /\ Cardinality(S) \in Nat
<1>1. IsFiniteSet(Elements)
  BY ConcurrentAssumption, FS_Interval DEF Elements
<1> QED
  BY <1>1, FS_Subset, FS_CardinalityType

\* One element less, or no more of them.
LEMMA OneLess ==
  ASSUME NEW S \in SUBSET Elements, NEW k \in S
  PROVE  Cardinality(S \ {k}) = Cardinality(S) - 1
BY ElementsCounted, FS_RemoveElement

LEMMA NoMore ==
  ASSUME NEW S \in SUBSET Elements, NEW R \in SUBSET S
  PROVE  Cardinality(R) <= Cardinality(S)
BY ElementsCounted, FS_Subset

\* Some more of them, as many at most.
LEMMA JoinedCounts ==
  ASSUME NEW S \in SUBSET Elements, NEW R \in SUBSET Elements
  PROVE  Cardinality(S \cup R) <= Cardinality(S) + Cardinality(R)
<1>1. Cardinality(S \cup R) = Cardinality(S) + Cardinality(R) - Cardinality(S \cap R)
  BY ElementsCounted, FS_Union
<1> QED
  BY <1>1, ElementsCounted

LEMMA CountsTyped == CInv => Counted
<1> SUFFICES ASSUME CInv PROVE Counted
  OBVIOUS
<1>1. /\ Size \in Nat /\ taken \in Nat /\ taken <= Size
      /\ MaxCancels \in Nat /\ cancels \in Nat /\ cancels <= MaxCancels
  BY ConcurrentAssumption DEF CInv, TypeOK
<1>2. Active \in SUBSET Elements /\ unseen \in SUBSET Elements /\ tasks \in SUBSET Elements
  BY DEF CInv, TypeOK, Active
<1>3. Cardinality(Active) \in Nat /\ Cardinality(unseen) \in Nat /\ Cardinality(tasks) \in Nat
  BY <1>2, ElementsCounted
<1>4. CancelledLeft \in {0, 1} /\ AbortLeft \in {0, 1} /\ PcLeft \in 0..3
  BY DEF CInv, TypeOK, CancelledLeft, AbortLeft, PcLeft
<1>5. StepsLeft = 4 * (Size - taken) + 2 * Cardinality(Active) + Cardinality(unseen)
                    + Cardinality(tasks) + 2 * (MaxCancels - cancels) + CancelledLeft + AbortLeft
                    + PcLeft
  <2> HIDE DEF Counted
  <2> DEFINE a == Cardinality(Active)  u == Cardinality(unseen)  t == Cardinality(tasks)
  <2>1. StepsLeft = 4 * (Size - taken) + 2 * a + u + t + 2 * (MaxCancels - cancels)
                    + CancelledLeft + AbortLeft + PcLeft
    BY DEF StepsLeft, Active, CancelledLeft, AbortLeft, PcLeft
  <2> QED
    BY <2>1
<1> QED
  BY <1>1, <1>2, <1>3, <1>4, <1>5 DEF Counted

\* Leaving the body ends the wait, and nothing is counted again.
LEMMA LeaveBodyCounts ==
  ASSUME CInv, Counted, Counted', InLoop, NEW exc, LeaveBody(exc),
         UNCHANGED <<taken, unseen, cancels>>, tasks' \subseteq tasks, cancelled' = FALSE
  PROVE  StepsLeft' < StepsLeft
<1>1. PcLeft' = 1 /\ PcLeft \in {2, 3} /\ CancelledLeft' = 0 /\ AbortLeft' <= AbortLeft
  BY DEF LeaveBody, InLoop, PcLeft, CancelledLeft, AbortLeft
<1>2. Active' = Active
  BY AbortedTasks DEF LeaveBody, Active, Running, CInv
<1>3. Cardinality(tasks') <= Cardinality(tasks)
  BY NoMore DEF Counted
<1> QED
  BY <1>1, <1>2, <1>3 DEF Counted

LEMMA TakeCounts ==
  ASSUME CInv, Counted, Counted', Take
  PROVE  StepsLeft' < StepsLeft
<1> DEFINE new == (taken + 1)..(taken + Batch)
<1>1. /\ pc = "taking" /\ taken < Size /\ taken' = taken + Batch
      /\ task' = [k \in Elements |-> IF k \in new THEN "running" ELSE task[k]]
      /\ tasks' = tasks \cup new /\ pc' \in {"taking", "waiting"}
      /\ UNCHANGED <<unseen, aborting, cancelled, cancels>>
  BY DEF Take
<1>2. Batch \in Nat \ {0} /\ taken + Batch <= Size
  BY <1>1, BatchFits
<1>3. new \subseteq Elements /\ Cardinality(new) = Batch
  <2>1. taken + 1 \in Int /\ taken + Batch \in Int
    BY <1>2 DEF Counted
  <2>2. Cardinality(new) = IF taken + 1 > taken + Batch THEN 0 ELSE (taken + Batch) - (taken + 1) + 1
    BY <2>1, FS_Interval
  <2>3. taken \in Nat /\ Size \in Nat
    BY DEF Counted
  <2>4. ~(taken + 1 > taken + Batch) /\ (taken + Batch) - (taken + 1) + 1 = Batch
    BY <1>2, <2>3
  <2>5. new \subseteq 1..Size
    BY <1>2, <2>3
  <2> QED
    BY <2>2, <2>4, <2>5 DEF Elements
<1>4. Active' = Active \cup new
  <2> HIDE DEF new
  <2> QED
    BY <1>1, <1>3 DEF Active, Running
<1> HIDE DEF new
<1>5. /\ Cardinality(Active') <= Cardinality(Active) + Batch
      /\ Cardinality(tasks') <= Cardinality(tasks) + Batch
  BY <1>1, <1>3, <1>4, JoinedCounts DEF Counted
<1>6. UNCHANGED <<PcLeft, CancelledLeft, AbortLeft>>
  BY <1>1 DEF PcLeft, CancelledLeft, AbortLeft
<1> QED
  BY <1>1, <1>2, <1>5, <1>6 DEF Counted

LEMMA TaskCounts ==
  ASSUME CInv, Counted, Counted', NEW k \in Elements, TaskEnds(k) \/ TaskSeen(k)
  PROVE  StepsLeft' < StepsLeft
<1>1. UNCHANGED <<taken, tasks, cancels, PcLeft>>
  BY DEF TaskEnds, TaskSeen, PcLeft
<1>2. CASE TaskEnds(k)
  <2>1. k \in Active /\ Active' = Active \ {k} /\ unseen' = unseen \cup {k}
        /\ UNCHANGED <<CancelledLeft, AbortLeft>>
    BY <1>2 DEF TaskEnds, Active, Running, CInv, TypeOK, CancelledLeft, AbortLeft
  <2>2. Cardinality(Active') = Cardinality(Active) - 1
    BY <2>1, OneLess DEF Counted
  <2>3. Cardinality(unseen') <= Cardinality(unseen) + 1
    <3>1. Cardinality(unseen') = IF k \in unseen THEN Cardinality(unseen) ELSE Cardinality(unseen) + 1
      BY <2>1, ElementsCounted, FS_AddElement DEF Counted
    <3> QED
      BY <3>1 DEF Counted
  <2> QED
    BY <1>1, <2>1, <2>2, <2>3 DEF Counted
<1>3. CASE TaskSeen(k)
  <2>1. k \in unseen /\ unseen' = unseen \ {k} /\ Active' = Active
    BY <1>3, AbortedTasks DEF TaskSeen, Active, Running, CInv
  <2>2. Cardinality(unseen') = Cardinality(unseen) - 1
    BY <2>1, OneLess DEF Counted
  <2>3. CancelledLeft' + AbortLeft' <= CancelledLeft + AbortLeft
    <3>1. \/ AbortLeft = 1 /\ AbortLeft' = 0
          \/ AbortLeft' = AbortLeft /\ CancelledLeft' = CancelledLeft
      BY <1>3 DEF TaskSeen, CancelledLeft, AbortLeft
    <3>2. {CancelledLeft, CancelledLeft', AbortLeft, AbortLeft'} \subseteq {0, 1}
      BY DEF Counted
    <3> QED
      BY <3>1, <3>2
  <2>4. StepsLeft' - (CancelledLeft' + AbortLeft') < StepsLeft - (CancelledLeft + AbortLeft)
    BY <1>1, <2>1, <2>2 DEF Counted
  <2>5. /\ StepsLeft \in Int /\ StepsLeft' \in Int
        /\ CancelledLeft + AbortLeft \in Int /\ CancelledLeft' + AbortLeft' \in Int
    BY DEF Counted
  <2> QED
    BY <2>3, <2>4, <2>5
<1> QED
  BY <1>2, <1>3

LEMMA WaitReturnsCounts ==
  ASSUME CInv, Counted, Counted', WaitReturns
  PROVE  StepsLeft' < StepsLeft
<1>1. /\ InLoop /\ ~cancelled /\ pc \in {"waiting", "draining"} /\ tasks' \subseteq tasks
      /\ UNCHANGED <<taken, unseen, cancelled, cancels>>
  BY DEF WaitReturns, InLoop
<1>2. CASE \E exc : LeaveBody(exc)
  BY <1>1, <1>2, LeaveBodyCounts DEF CInv, TypeOK
<1>3. CASE ~\E exc : LeaveBody(exc)
  <2>1. pc = "waiting" /\ pc' = "taking" /\ UNCHANGED <<aborting, task>>
    BY <1>1, <1>3 DEF WaitReturns
  <2>2. PICK k \in tasks : Seen(k)
    BY <1>1, <2>1 DEF WaitReturns
  <2>3. tasks' \subseteq tasks \ {k}
    BY <2>2 DEF WaitReturns, Seen
  <2>4. Cardinality(tasks') <= Cardinality(tasks) - 1
    <3>1. tasks \in SUBSET Elements
      BY DEF Counted
    <3>2. tasks \ {k} \in SUBSET Elements /\ Cardinality(tasks \ {k}) = Cardinality(tasks) - 1
      BY <3>1, OneLess
    <3>3. Cardinality(tasks') <= Cardinality(tasks \ {k})
      BY <2>3, <3>2, NoMore
    <3> QED
      BY <3>2, <3>3
  <2>5. UNCHANGED <<Active, CancelledLeft, AbortLeft, PcLeft>>
    BY <1>1, <2>1 DEF Active, Running, CancelledLeft, AbortLeft, PcLeft
  <2> QED
    BY <1>1, <2>4, <2>5 DEF Counted
<1> QED
  BY <1>2, <1>3

LEMMA CallerCounts ==
  ASSUME CInv, Counted, Counted', UNCHANGED <<taken, unseen, tasks>>, UNCHANGED Active,
         2 * (MaxCancels - cancels') + CancelledLeft' + AbortLeft' + PcLeft'
            < 2 * (MaxCancels - cancels) + CancelledLeft + AbortLeft + PcLeft
  PROVE  StepsLeft' < StepsLeft
<1> DEFINE rest ==
      4 * (Size - taken) + 2 * Cardinality(Active) + Cardinality(unseen) + Cardinality(tasks)
<1>1. /\ rest \in Int
      /\ StepsLeft = rest + (2 * (MaxCancels - cancels) + CancelledLeft + AbortLeft + PcLeft)
  BY DEF Counted
<1>2. StepsLeft' = rest + (2 * (MaxCancels - cancels') + CancelledLeft' + AbortLeft' + PcLeft')
  BY DEF Counted
<1>3. /\ 2 * (MaxCancels - cancels') + CancelledLeft' + AbortLeft' + PcLeft' \in Int
      /\ 2 * (MaxCancels - cancels) + CancelledLeft + AbortLeft + PcLeft \in Int
  BY DEF Counted
<1> HIDE DEF rest
<1> QED
  BY <1>1, <1>2, <1>3

LEMMA EveryStepLeavesLess ==
  ASSUME CInv, Counted, Counted', Next
  PROVE  StepsLeft' < StepsLeft
<1>1. CASE Exhausted
  <2>1. CASE tasks # {}
    <3>1. UNCHANGED <<Active, CancelledLeft, AbortLeft>> /\ PcLeft' < PcLeft
      BY <1>1, <2>1 DEF Exhausted, Active, Running, CancelledLeft, AbortLeft, PcLeft
    <3> QED
      BY <1>1, <3>1, CallerCounts DEF Exhausted, Counted
  <2>2. CASE tasks = {}
    BY <1>1, <2>2, LeaveBodyCounts DEF Exhausted, InLoop, CInv, TypeOK
  <2> QED
    BY <2>1, <2>2
<1>2. CASE SourceRaises
  BY <1>2, LeaveBodyCounts DEF SourceRaises, InLoop
<1>3. CASE WaitCancelled
  BY <1>3, LeaveBodyCounts DEF WaitCancelled, InLoop
<1>4. CASE JoinInterrupted
  <2>1. UNCHANGED Active
    BY <1>4, AbortedTasks DEF JoinInterrupted, Active, Running, CInv
  <2>2. UNCHANGED PcLeft /\ CancelledLeft = 1 /\ CancelledLeft' = 0 /\ AbortLeft' <= AbortLeft
    BY <1>4 DEF JoinInterrupted, PcLeft, CancelledLeft, AbortLeft
  <2> QED
    BY <1>4, <2>1, <2>2, CallerCounts DEF JoinInterrupted, Counted
<1>5. CASE Return
  <2>1. UNCHANGED <<Active, CancelledLeft, AbortLeft>> /\ PcLeft' < PcLeft
    BY <1>5 DEF Return, Active, Running, CancelledLeft, AbortLeft, PcLeft
  <2> QED
    BY <1>5, <2>1, CallerCounts DEF Return, Counted
<1>6. CASE CancelCaller
  <2>1. UNCHANGED <<Active, AbortLeft, PcLeft>> /\ cancels' = cancels + 1
    BY <1>6 DEF CancelCaller, Active, Running, AbortLeft, PcLeft
  <2> QED
    BY <1>6, <2>1, CallerCounts DEF CancelCaller, Counted
<1> QED
  BY <1>1, <1>2, <1>3, <1>4, <1>5, <1>6, TakeCounts, TaskCounts, WaitReturnsCounts DEF Next

\* A call comes to an end, however tasks, callbacks and cancellations come in
\* between: what is left to happen is a natural number, and every step lowers it.
THEOREM CallsEnd == Spec => [](StepsLeft \in Nat) /\ EveryStepCounts
<1>1. CInv => StepsLeft \in Nat
  BY CountsTyped DEF Counted
<1>2. CInv /\ Counted /\ Counted' /\ [Next]_vars => [StepsLeft' < StepsLeft]_vars
  BY EveryStepLeavesLess
<1> QED
  BY <1>1, <1>2, CountsTyped, Invariance, PTL DEF Spec, EveryStepCounts

\* An aborted group has told its tasks to stop, and a caller in the loop was
\* cancelled: with CInv, what keeps an interrupted call going.
ToldToStop == aborting => \A k \in Elements : task[k] # "running"

LEMMA ToldToStopStep ==
  ASSUME CInv, ToldToStop, [Next]_vars
  PROVE  ToldToStop'
<1>1. \A k \in Elements : Aborted[k] # "running"
  BY DEF Aborted
<1>2. CASE Take
  BY <1>2 DEF Take, CInv, Cancellation, InLoop, ToldToStop
<1>3. ASSUME NEW k \in Elements, TaskEnds(k) \/ TaskSeen(k) PROVE ToldToStop'
  BY <1>1, <1>3 DEF TaskEnds, TaskSeen, ToldToStop, CInv, TypeOK
<1> QED
  BY <1>1, <1>2, <1>3
  DEF Next, Exhausted, SourceRaises, WaitCancelled, WaitReturns, JoinInterrupted, Return,
      CancelCaller, LeaveBody, ToldToStop, vars

\* A call that failed or was cancelled remains so and is never stuck before it
\* returned: an exception it has to deliver, a callback, a task that was told to
\* stop, or its return is due, whatever the source and other handlers do.
THEOREM InterruptedCallsGoOn == Spec => []InterruptedGoesOn /\ StaysInterrupted
<1>1. Init => ToldToStop
  BY DEF Init, ToldToStop
<1>2. CInv /\ ToldToStop => InterruptedGoesOn
  <2> SUFFICES ASSUME CInv, ToldToStop, aborting, ~cancelled, pc # "returned", ~GroupDone
               PROVE  \E k \in Elements : ~Busy /\ (k \in unseen \/ task[k] = "stopping")
    BY DEF InterruptedGoesOn, CInv, Cancellation, InLoop, TypeOK
  <2>1. ~Busy
    BY DEF CInv, Cancellation, InLoop, Busy
  <2>2. PICK k \in Elements : Running(k) \/ k \in unseen
    BY DEF GroupDone
  <2> QED
    BY <2>1, <2>2 DEF Running, ToldToStop
<1>3. CInv /\ [Next]_vars => [aborting \/ cancelled => (aborting \/ cancelled)']_vars
  <2> SUFFICES ASSUME CInv, Next, aborting \/ cancelled PROVE (aborting \/ cancelled)'
    BY DEF vars
  <2> QED
    BY DEF Next, Take, Exhausted, SourceRaises, WaitCancelled, WaitReturns, JoinInterrupted,
           Return, CancelCaller, LeaveBody, TaskEnds, TaskSeen, CInv, TypeOK
<1> QED
  BY <1>1, <1>2, <1>3, ToldToStopStep, Invariance, PTL DEF Spec, StaysInterrupted
-----------------------------------------------------------------------------
(* The configuration cache: for every number of tasks and cached entries,  *)
(* every latency and every expiration.                                     *)

\* What the caches and the tasks hold.
Entries == [key : Cache!Keys, seen : Nat, expire : Nat, current : BOOLEAN]
Calls == [op : {"idle", "reading", "read", "writing", "written"},
          key : Cache!Keys, seen : Nat, since : Nat, own : BOOLEAN]
Commits == [keys : SUBSET Cache!Keys, at : Nat, transacted : BOOLEAN]

CacheTypes ==
    /\ now \in Nat
    /\ writes \in Seq(Commits)
    /\ cache \in [{"loading", "listing"} -> Seq(Entries)]
    /\ client \in [Clients -> Calls]
    /\ pending \in [Clients -> SUBSET Cache!Keys]
    /\ skipped \in BOOLEAN

Held(entry) ==
    \E which \in {"loading", "listing"} : \E i \in DOMAIN cache[which] : cache[which][i] = entry

\* Nothing was written or stored later than now, and no read takes longer than
\* Latency.
InTime ==
    /\ \A n \in DOMAIN writes : writes[n].at <= now
    /\ \A entry \in Entries : Held(entry) => entry.expire <= now + Expiration
    /\ \A c \in Clients :
        client[c].op \in {"reading", "read"} =>
            client[c].since <= now /\ now <= client[c].since + Latency

\* What was read was replaced, if at all, after the read had begun.
ReplacedLater ==
    \A c \in Clients :
        client[c].op = "read" =>
            \A n \in Cache!Writes(client[c].key) :
                n > client[c].seen => writes[n].at >= client[c].since

\* An entry that was replaced expires in time.
Expires(entry) ==
    \A n \in Cache!Writes(entry.key) :
        n > entry.seen => entry.expire <= writes[n].at + Expiration + Latency

ReplacedExpire == \A entry \in Entries : Held(entry) => Expires(entry)

\* Why an entry may be older than what the table holds.
Explained(entry) ==
    \/ \A m \in Cache!Writes(entry.key) : m > entry.seen => writes[m].transacted
    \/ ~entry.current
    \/ skipped
    \/ \E c \in Clients \ open :
           client[c].op = "written" /\ client[c].key \in Cache!Covers(entry.key)

AllExplained == \A entry \in Entries : Held(entry) => Explained(entry)

CacheInv == CacheTypes /\ InTime /\ ReplacedLater /\ ReplacedExpire /\ AllExplained
-----------------------------------------------------------------------------
\* Every non-empty set of natural numbers has a least member.
LEMMA LeastNatural ==
    ASSUME NEW S \in SUBSET Nat, S # {}
    PROVE  \E n \in S : \A m \in S : n <= m
<1>1. PICK n \in S : \A m \in S : <<m, n>> \notin OpToRel(<, Nat)
  BY NatLessThanWellFounded, WFMin
<1>2. ASSUME NEW m \in S, m < n PROVE <<m, n>> \in OpToRel(<, Nat)
  BY <1>2 DEF OpToRel
<1>3. \A m \in S : n \in Nat /\ m \in Nat /\ ~(m < n)
  BY <1>1, <1>2
<1>4. \A m \in S : n <= m
  BY <1>3
<1>5. QED
  BY <1>4

\* Every set of positions of a sequence has a last one.
LEMMA LastPosition ==
    ASSUME NEW len \in Nat, NEW S \in SUBSET (1..len), S # {}
    PROVE  \E n \in S : \A m \in S : m <= n
<1>1. PICK d \in {len - n : n \in S} : \A e \in {len - n : n \in S} : d <= e
  <2>1. \A n \in S : len - n \in Nat
    OBVIOUS
  <2>2. {len - n : n \in S} \in SUBSET Nat
    BY <2>1
  <2>3. {len - n : n \in S} # {}
    OBVIOUS
  <2>4. QED
    BY <2>2, <2>3, LeastNatural
<1>2. PICK n \in S : d = len - n
  BY <1>1
<1>3. \A m \in S : m <= n
  BY <1>1, <1>2
<1>4. QED
  BY <1>3
-----------------------------------------------------------------------------
(* LocalCache: none of its operations invents an entry.                    *)

LEMMA PositionIsOne ==
    ASSUME NEW s, NEW key, Cache!Cached(s, key)
    PROVE  Cache!Position(s, key) \in DOMAIN s /\ s[Cache!Position(s, key)].key = key
BY DEF Cache!Cached, Cache!Position, Cache!Positions

LEMMA RemovedAt ==
    ASSUME NEW E, NEW s \in Seq(E), NEW n \in DOMAIN s
    PROVE  /\ Cache!RemoveAt(s, n) \in Seq(E)
           /\ \A i \in DOMAIN Cache!RemoveAt(s, n) :
                \E j \in DOMAIN s : Cache!RemoveAt(s, n)[i] = s[j]
<1> DEFINE low == SubSeq(s, 1, n - 1)
           high == SubSeq(s, n + 1, Len(s))
<1>1. Len(s) \in Nat /\ DOMAIN s = 1..Len(s) /\ n \in 1..Len(s)
  BY LenProperties
<1>2. /\ low \in Seq(E) /\ Len(low) = n - 1
      /\ \A i \in 1..(n - 1) : low[i] = s[i]
  BY <1>1, SubSeqProperties, ElementOfSeq
<1>3. /\ high \in Seq(E) /\ Len(high) = Len(s) - n
      /\ \A i \in 1..(Len(s) - n) : high[i] = s[n + i]
  BY <1>1, SubSeqProperties, ElementOfSeq
<1> DEFINE w == low \o high
<1>4. Cache!RemoveAt(s, n) = w
  BY DEF Cache!RemoveAt
<1> HIDE DEF low, high
<1>5. /\ w \in Seq(E) /\ Len(w) = Len(low) + Len(high)
      /\ \A i \in 1..(Len(low) + Len(high)) :
            w[i] = IF i <= Len(low) THEN low[i] ELSE high[i - Len(low)]
  BY <1>2, <1>3, ConcatProperties
<1> HIDE DEF w
<1>6. n \in Nat /\ n >= 1 /\ n <= Len(s) /\ Len(s) \in Nat
  BY <1>1
<1>7. Len(low) + Len(high) = Len(s) - 1
  BY <1>2, <1>3, <1>6
<1>8. DOMAIN w = 1..(Len(s) - 1)
  BY <1>5, <1>7, LenProperties
<1>9. ASSUME NEW i \in 1..(Len(s) - 1) PROVE \E j \in DOMAIN s : w[i] = s[j]
  <2>1. w[i] = IF i <= n - 1 THEN low[i] ELSE high[i - (n - 1)]
    BY <1>2, <1>5, <1>7
  <2>2. CASE i <= n - 1
    <3>1. i \in 1..(n - 1) /\ i \in 1..Len(s)
      BY <2>2, <1>6
    <3>2. QED
      BY <3>1, <2>1, <2>2, <1>1, <1>2
  <2>3. CASE ~(i <= n - 1)
    <3>1. i + 1 \in 1..Len(s) /\ i - (n - 1) \in 1..(Len(s) - n) /\ n + (i - (n - 1)) = i + 1
      BY <2>3, <1>6
    <3>2. high[i - (n - 1)] = s[n + (i - (n - 1))]
      BY <3>1, <1>3
    <3>3. QED
      BY <3>1, <3>2, <2>1, <2>3, <1>1
  <2>4. QED
    BY <2>2, <2>3
<1>10. QED
  BY <1>4, <1>5, <1>8, <1>9

LEMMA WithoutEntries ==
    ASSUME NEW E, NEW s \in Seq(E), NEW key
    PROVE  /\ Cache!Without(s, key) \in Seq(E)
           /\ \A i \in DOMAIN Cache!Without(s, key) :
                \E j \in DOMAIN s : Cache!Without(s, key)[i] = s[j]
<1>1. CASE Cache!Cached(s, key)
  BY <1>1, PositionIsOne, RemovedAt DEF Cache!Without
<1>2. CASE ~Cache!Cached(s, key)
  BY <1>2 DEF Cache!Without
<1>3. QED
  BY <1>1, <1>2

LEMMA AppendEntries ==
    ASSUME NEW E, NEW s \in Seq(E), NEW e \in E
    PROVE  /\ Append(s, e) \in Seq(E)
           /\ \A i \in DOMAIN Append(s, e) :
                Append(s, e)[i] = e \/ \E j \in DOMAIN s : Append(s, e)[i] = s[j]
<1>1. /\ Append(s, e) \in Seq(E) /\ Len(Append(s, e)) = Len(s) + 1
      /\ \A i \in 1..Len(s) : Append(s, e)[i] = s[i]
      /\ Append(s, e)[Len(s) + 1] = e
  BY AppendProperties
<1>2. Len(s) \in Nat /\ DOMAIN s = 1..Len(s) /\ DOMAIN Append(s, e) = 1..(Len(s) + 1)
  BY <1>1, LenProperties
<1>3. QED
  BY <1>1, <1>2

LEMMA TouchedEntries ==
    ASSUME NEW E, NEW s \in Seq(E), NEW key, Cache!Cached(s, key)
    PROVE  /\ Cache!Touched(s, key) \in Seq(E)
           /\ \A i \in DOMAIN Cache!Touched(s, key) :
                \E j \in DOMAIN s : Cache!Touched(s, key)[i] = s[j]
<1> DEFINE w == Cache!Without(s, key)
           e == Cache!EntryFor(s, key)
<1>1. w \in Seq(E) /\ \A i \in DOMAIN w : \E j \in DOMAIN s : w[i] = s[j]
  BY WithoutEntries
<1>2. \E j \in DOMAIN s : e = s[j]
  BY PositionIsOne DEF Cache!EntryFor
<1>3. e \in E
  BY <1>2, LenProperties, ElementOfSeq
<1>4. Cache!Touched(s, key) = Append(w, e)
  BY DEF Cache!Touched
<1> HIDE DEF w, e
<1>5. Append(w, e) \in Seq(E) /\ \A i \in DOMAIN Append(w, e) :
          Append(w, e)[i] = e \/ \E j \in DOMAIN w : Append(w, e)[i] = w[j]
  BY <1>1, <1>3, AppendEntries
<1>6. \A i \in DOMAIN Append(w, e) : \E j \in DOMAIN s : Append(w, e)[i] = s[j]
  BY <1>1, <1>2, <1>5
<1>7. QED
  BY <1>4, <1>5, <1>6

LEMMA StoredEntries ==
    ASSUME NEW E, NEW s \in Seq(E), NEW e \in E
    PROVE  /\ Cache!Stored(s, e) \in Seq(E)
           /\ \A i \in DOMAIN Cache!Stored(s, e) :
                Cache!Stored(s, e)[i] = e \/ \E j \in DOMAIN s : Cache!Stored(s, e)[i] = s[j]
<1> DEFINE longer == Append(s, e)
<1>1. /\ longer \in Seq(E) /\ longer # <<>>
      /\ \A i \in DOMAIN longer : longer[i] = e \/ \E j \in DOMAIN s : longer[i] = s[j]
  BY AppendEntries, AppendProperties
<1>2. CASE Cache!Cached(s, e.key)
  <2> DEFINE p == Cache!Position(s, e.key)
  <2>1. p \in DOMAIN s /\ DOMAIN s = 1..Len(s)
    BY <1>2, PositionIsOne, LenProperties
  <2>2. Cache!Stored(s, e) = [s EXCEPT ![p] = e]
    BY <1>2 DEF Cache!Stored
  <2> HIDE DEF p
  <2>3. QED
    BY <2>1, <2>2, ExceptSeq
<1>3. CASE ~Cache!Cached(s, e.key) /\ Len(longer) > Limit
  <2>1. Cache!Stored(s, e) = Tail(longer)
    BY <1>3 DEF Cache!Stored
  <2> HIDE DEF longer
  <2>2. /\ Tail(longer) \in Seq(E) /\ Len(Tail(longer)) = Len(longer) - 1
        /\ \A i \in 1..Len(Tail(longer)) : Tail(longer)[i] = longer[i + 1]
    BY <1>1, HeadTailProperties
  <2>3. /\ Len(longer) \in Nat /\ DOMAIN longer = 1..Len(longer)
        /\ DOMAIN Tail(longer) = 1..Len(Tail(longer))
    BY <1>1, <2>2, LenProperties
  <2>4. \A i \in DOMAIN Tail(longer) : i + 1 \in DOMAIN longer /\ Tail(longer)[i] = longer[i + 1]
    BY <2>2, <2>3
  <2>5. QED
    BY <2>1, <2>2, <2>4, <1>1
<1>4. CASE ~Cache!Cached(s, e.key) /\ ~(Len(longer) > Limit)
  BY <1>1, <1>4 DEF Cache!Stored
<1>5. QED
  BY <1>2, <1>3, <1>4
-----------------------------------------------------------------------------
(* ConfigurationCache                                                      *)

\* What the steps start from, in the terms of the lemmas above.
LEMMA CacheTyped ==
    ASSUME CacheTypes
    PROVE  /\ now \in Nat /\ now \in Int
           /\ Len(writes) \in Nat /\ DOMAIN writes = 1..Len(writes)
           /\ \A n \in DOMAIN writes : writes[n].at \in Nat
           /\ \A c \in Clients : /\ client[c] \in Calls /\ client[c].key \in Cache!Keys
                                 /\ client[c].seen \in Nat /\ client[c].since \in Nat
           /\ \A which \in {"loading", "listing"} : cache[which] \in Seq(Entries)
           /\ \A which \in {"loading", "listing"} : \A i \in DOMAIN cache[which] :
                  /\ cache[which][i] \in Entries
                  /\ cache[which][i].seen \in Nat /\ cache[which][i].expire \in Nat
<1>1. /\ Len(writes) \in Nat /\ DOMAIN writes = 1..Len(writes)
      /\ \A n \in DOMAIN writes : writes[n] \in Commits
  BY LenProperties, ElementOfSeq DEF CacheTypes
<1>2. \A which \in {"loading", "listing"} : cache[which] \in Seq(Entries)
  BY DEF CacheTypes
<1>3. \A which \in {"loading", "listing"} : \A i \in DOMAIN cache[which] : cache[which][i] \in Entries
  BY <1>2, LenProperties, ElementOfSeq
<1>4. \A c \in Clients : client[c] \in Calls
  BY DEF CacheTypes
<1>5. now \in Nat
  BY DEF CacheTypes
<1>6. \A e \in Entries : e.seen \in Nat /\ e.expire \in Nat
  BY DEF Entries
<1>7. QED
  BY <1>1, <1>2, <1>3, <1>4, <1>5, <1>6 DEF Calls, Commits

\* The number of the last write to a key, 0 if there is none.
LEMMA NewestIsLast ==
    ASSUME CacheTypes, NEW key
    PROVE  /\ Cache!Newest(key) \in Nat
           /\ \A n \in Cache!Writes(key) : n <= Cache!Newest(key)
<1>1. Cache!Writes(key) \in SUBSET (1..Len(writes)) /\ Len(writes) \in Nat
  BY CacheTyped DEF Cache!Writes
<1>2. CASE Cache!Writes(key) = {}
  BY <1>2 DEF Cache!Newest
<1>3. CASE Cache!Writes(key) # {}
  <2>1. \E n \in Cache!Writes(key) : \A m \in Cache!Writes(key) : m <= n
    BY <1>1, <1>3, LastPosition
  <2>2. Cache!Newest(key) = CHOOSE n \in Cache!Writes(key) : \A m \in Cache!Writes(key) : m <= n
    BY <1>3 DEF Cache!Newest
  <2>3. Cache!Newest(key) \in Cache!Writes(key) /\ \A m \in Cache!Writes(key) : m <= Cache!Newest(key)
    BY <2>1, <2>2
  <2>4. QED
    BY <1>1, <2>3
<1>4. QED
  BY <1>2, <1>3

\* Neither the table nor time has to do with it: what an entry is worth stays
\* the same while writes do.
LEMMA SameWrites ==
    ASSUME UNCHANGED writes
    PROVE  /\ \A key : Cache!Writes(key)' = Cache!Writes(key)
           /\ \A key : Cache!Newest(key)' = Cache!Newest(key)
           /\ \A entry : Expires(entry)' <=> Expires(entry)
<1>1. \A key : Cache!Writes(key)' = Cache!Writes(key)
  BY DEF Cache!Writes
<1>2. \A key : Cache!Newest(key)' = Cache!Newest(key)
  <2>1. ASSUME NEW key PROVE Cache!Newest(key)' = Cache!Newest(key)
    <3>1. Cache!Writes(key)' = Cache!Writes(key)
      BY <1>1
    <3>2. PICK W : W = Cache!Writes(key)
      OBVIOUS
    <3>3. Cache!Newest(key) = IF W = {} THEN 0 ELSE CHOOSE n \in W : \A m \in W : m <= n
      BY <3>2 DEF Cache!Newest
    <3>4. Cache!Newest(key)' = IF W = {} THEN 0 ELSE CHOOSE n \in W : \A m \in W : m <= n
      BY <3>1, <3>2 DEF Cache!Newest
    <3>5. QED
      BY <3>3, <3>4
  <2>2. QED
    BY <2>1
<1>3. \A entry : Expires(entry)' <=> Expires(entry)
  BY <1>1 DEF Expires
<1>4. QED
  BY <1>1, <1>2, <1>3

\* A step that adds no entry and no reason to doubt one keeps the invariants of
\* the entries.
LEMMA FewerEntries ==
    ASSUME CacheInv, UNCHANGED <<writes, open, skipped>>,
           \A entry \in Entries : Held(entry)' => Held(entry),
           \A c \in Clients : client[c].op = "written" =>
               client'[c].op = "written" /\ client'[c].key = client[c].key
    PROVE  ReplacedExpire' /\ AllExplained'
<1>1. ReplacedExpire'
  BY SameWrites DEF CacheInv, ReplacedExpire
<1>2. \A entry \in Entries : Explained(entry) => Explained(entry)'
  BY SameWrites DEF Explained
<1>3. AllExplained'
  BY <1>2 DEF CacheInv, AllExplained
<1>4. QED
  BY <1>1, <1>3
Caches == {"loading", "listing"}

\* What a change of one of the caches does to what they hold.
LEMMA HeldAfter ==
    ASSUME CacheTypes, NEW which \in Caches, NEW s \in Seq(Entries),
           cache' = [cache EXCEPT ![which] = s]
    PROVE  /\ cache' \in [Caches -> Seq(Entries)]
           /\ \A entry : Held(entry)' => Held(entry) \/ \E i \in DOMAIN s : s[i] = entry
<1>1. cache' \in [Caches -> Seq(Entries)]
  BY DEF CacheTypes, Caches
<1>2. ASSUME NEW entry, Held(entry)' PROVE Held(entry) \/ \E i \in DOMAIN s : s[i] = entry
  <2>1. PICK w \in Caches : \E i \in DOMAIN cache'[w] : cache'[w][i] = entry
    BY <1>2 DEF Held, Caches
  <2>2. cache'[w] = IF w = which THEN s ELSE cache[w]
    BY DEF CacheTypes, Caches
  <2>3. QED
    BY <2>1, <2>2 DEF Held, Caches
<1>3. QED
  BY <1>1, <1>2

LEMMA CacheOfTyped ==
    ASSUME CacheTypes, NEW key \in Cache!Keys
    PROVE  Cache!CacheOf(key) \in Caches /\ cache[Cache!CacheOf(key)] \in Seq(Entries)
BY DEF CacheTypes, Cache!CacheOf, Caches

LEMMA HeldAt ==
    \A which \in Caches : \A j \in DOMAIN cache[which] : Held(cache[which][j])
BY DEF Held, Caches

LEMMA CacheBegins == Cache!Init => CacheInv
<1> SUFFICES ASSUME Cache!Init PROVE CacheInv
  OBVIOUS
<1>1. /\ <<>> \in Seq(Entries) /\ <<>> \in Seq(Commits)
      /\ cache = [which \in Caches |-> <<>>]
  BY EmptySeq DEF Cache!Init, Cache!Cleared, Caches
<1>2. CacheTypes
  BY <1>1 DEF CacheTypes, Cache!Init, Cache!Idle, Calls, Cache!Keys, Caches
<1>3. \A entry : ~Held(entry)
  BY <1>1 DEF Held, Caches
<1>4. InTime /\ ReplacedLater
  BY <1>3 DEF InTime, ReplacedLater, Cache!Init, Cache!Idle
<1>5. QED
  BY <1>2, <1>3, <1>4 DEF CacheInv, ReplacedExpire, AllExplained

LEMMA TickKeeps == ASSUME CacheInv, Cache!Tick PROVE CacheInv'
<1> USE DEF Cache!Tick
<1>1. CacheTypes'
  BY DEF CacheInv, CacheTypes
<1>2. InTime'
  <2>1. \A entry : Held(entry)' <=> Held(entry)
    BY DEF Held
  <2>2. \A entry \in Entries : Held(entry) => entry.expire <= now + 1 + Expiration
    BY CacheTyped, ServicesAssumption DEF CacheInv, InTime, Entries
  <2>3. QED
    BY <2>1, <2>2, CacheTyped, ServicesAssumption DEF CacheInv, InTime
<1>3. ReplacedLater'
  BY SameWrites DEF CacheInv, ReplacedLater
<1>4. ReplacedExpire' /\ AllExplained'
  BY FewerEntries DEF Held
<1>5. QED
  BY <1>1, <1>2, <1>3, <1>4 DEF CacheInv

LEMMA ReadHitKeeps ==
    ASSUME CacheInv, NEW c \in Clients, NEW key \in Cache!Keys, Cache!ReadHit(c, key)
    PROVE  CacheInv'
<1> DEFINE which == Cache!CacheOf(key)
           s == Cache!Touched(cache[which], key)
<1> USE DEF Cache!ReadHit
<1>1. which \in Caches /\ cache[which] \in Seq(Entries) /\ CacheTypes
  BY CacheOfTyped DEF CacheInv
<1>2. s \in Seq(Entries) /\ \A i \in DOMAIN s : \E j \in DOMAIN cache[which] : s[i] = cache[which][j]
  BY <1>1, TouchedEntries DEF Cache!Hit
<1>3. cache' = [cache EXCEPT ![which] = s]
  OBVIOUS
<1> HIDE DEF s, which
<1>4. cache' \in [Caches -> Seq(Entries)]
  BY <1>1, <1>2, <1>3, HeldAfter
<1>5. \A entry : Held(entry)' => Held(entry) \/ \E i \in DOMAIN s : s[i] = entry
  BY <1>1, <1>2, <1>3, HeldAfter
<1>6. \A entry : Held(entry)' => Held(entry)
  BY <1>1, <1>2, <1>5, HeldAt
<1>7. CacheTypes' /\ InTime'
  BY <1>1, <1>4, <1>6 DEF CacheInv, CacheTypes, InTime, Caches
<1>8. ReplacedLater'
  BY SameWrites DEF CacheInv, ReplacedLater
<1>9. ReplacedExpire' /\ AllExplained'
  BY <1>6, FewerEntries
<1>10. QED
  BY <1>7, <1>8, <1>9 DEF CacheInv

LEMMA ReadMissKeeps ==
    ASSUME CacheInv, NEW c \in Clients, NEW key \in Cache!Keys, Cache!ReadMiss(c, key)
    PROVE  CacheInv'
<1> DEFINE which == Cache!CacheOf(key)
           s == Cache!Without(cache[which], key)
           k == [Cache!Idle EXCEPT !.op = "reading", !.key = key, !.since = now]
<1>1. which \in Caches /\ cache[which] \in Seq(Entries) /\ CacheTypes
  BY CacheOfTyped DEF CacheInv
<1>2. s \in Seq(Entries) /\ \A i \in DOMAIN s : \E j \in DOMAIN cache[which] : s[i] = cache[which][j]
  BY <1>1, WithoutEntries
<1>3. /\ cache' = [cache EXCEPT ![which] = s] /\ client' = [client EXCEPT ![c] = k]
      /\ client[c].op = "idle" /\ UNCHANGED <<now, writes, open, pending, skipped>>
  BY DEF Cache!ReadMiss
<1>4. k \in Calls /\ k.op = "reading" /\ k.since = now
  BY <1>1, CacheTyped DEF Calls, Cache!Idle, Cache!Keys
<1> HIDE DEF s, which, k
<1>5. cache' \in [Caches -> Seq(Entries)]
  BY <1>1, <1>2, <1>3, HeldAfter
<1>6. \A entry : Held(entry)' => Held(entry) \/ \E i \in DOMAIN s : s[i] = entry
  BY <1>1, <1>2, <1>3, HeldAfter
<1>7. \A entry : Held(entry)' => Held(entry)
  BY <1>1, <1>2, <1>6, HeldAt
<1>8. \A d \in Clients : client'[d] = IF d = c THEN k ELSE client[d]
  BY <1>1, <1>3 DEF CacheTypes
<1>9. CacheTypes'
  BY <1>1, <1>3, <1>4, <1>5 DEF CacheTypes, Caches
<1>10. InTime'
  BY <1>1, <1>3, <1>4, <1>7, <1>8, CacheTyped, ServicesAssumption DEF CacheInv, InTime
<1>11. ReplacedLater'
  BY <1>3, <1>4, <1>8, SameWrites DEF CacheInv, ReplacedLater
<1>12. ReplacedExpire' /\ AllExplained'
  BY <1>3, <1>7, <1>8, FewerEntries
<1>13. QED
  BY <1>9, <1>10, <1>11, <1>12 DEF CacheInv

\* A step of a task that sends, reads in the database, gives up, or begins or
\* undoes a transaction.
LEMMA ClientKeeps ==
    ASSUME CacheInv, NEW c \in Clients, NEW k \in Calls,
           client' = [client EXCEPT ![c] = k], UNCHANGED <<now, writes, cache>>,
           pending' \in [Clients -> SUBSET Cache!Keys],
           \A d \in Clients : d # c => (d \in open' <=> d \in open),
           k.op \in {"reading", "read"} =>
               client[c].op = "reading" /\ k.since = client[c].since,
           k.op = "read" => \A n \in Cache!Writes(k.key) : n <= k.seen,
           \/ skipped' = skipped /\ (client[c].op # "written" \/ c \in open)
           \/ skipped' = TRUE
    PROVE  CacheInv'
<1>1. CacheTypes
  BY DEF CacheInv
<1>2. \A d \in Clients : client'[d] = IF d = c THEN k ELSE client[d]
  BY <1>1 DEF CacheTypes
<1>3. CacheTypes'
  BY <1>1 DEF CacheTypes
<1>4. InTime'
  BY <1>1, <1>2 DEF CacheInv, InTime, Held
<1>5. ReplacedLater'
  <2>1. ASSUME NEW d \in Clients, k.op = "read", NEW n \in Cache!Writes(k.key), n > k.seen
        PROVE FALSE
    <3>1. n \in Nat /\ k.seen \in Nat /\ n <= k.seen
      BY <1>1, <2>1, CacheTyped DEF Cache!Writes, Calls
    <3>2. QED
      BY <3>1, <2>1
  <2>2. QED
    BY <1>2, <2>1, SameWrites DEF CacheInv, ReplacedLater
<1>6. ReplacedExpire'
  BY SameWrites DEF CacheInv, ReplacedExpire, Held
<1>7. AllExplained'
  <2>1. \A entry \in Entries : Explained(entry) => Explained(entry)'
    <3>1. CASE skipped' = TRUE
      BY <3>1 DEF Explained
    <3>2. CASE skipped' = skipped /\ (client[c].op # "written" \/ c \in open)
      <4>1. \A d \in Clients \ open : client[d].op = "written" =>
                d \in Clients \ open' /\ client'[d] = client[d]
        BY <3>2, <1>2
      <4>2. \A entry \in Entries :
                (\A m \in Cache!Writes(entry.key) : m > entry.seen => writes[m].transacted) =>
                (\A m \in Cache!Writes(entry.key)' : m > entry.seen => writes'[m].transacted)
        BY SameWrites
      <4>3. QED
        BY <3>2, <4>1, <4>2 DEF Explained
    <3>3. QED
      BY <3>1, <3>2
  <2>2. \A entry : Held(entry)' <=> Held(entry)
    BY DEF Held
  <2>3. QED
    BY <2>1, <2>2 DEF CacheInv, AllExplained
<1>8. QED
  BY <1>3, <1>4, <1>5, <1>6, <1>7 DEF CacheInv

LEMMA SelectKeeps == ASSUME CacheInv, NEW c \in Clients, Cache!Select(c) PROVE CacheInv'
<1> DEFINE own == pending[c] \cap Cache!Covers(client[c].key) # {}
           k == [client[c] EXCEPT !.op = "read", !.seen = Cache!Newest(client[c].key), !.own = own]
<1>1. CacheTypes /\ client[c] \in Calls
  BY CacheTyped DEF CacheInv
<1>2. /\ Cache!Newest(client[c].key) \in Nat
      /\ \A n \in Cache!Writes(client[c].key) : n <= Cache!Newest(client[c].key)
  BY <1>1, NewestIsLast
<1>3. client[c].op = "reading" /\ UNCHANGED <<now, writes, cache, open, pending, skipped>>
  BY DEF Cache!Select
<1>4. client' = [client EXCEPT ![c] = k]
  BY <1>1 DEF Cache!Select, CacheTypes
<1>5. /\ k \in Calls /\ k.since = client[c].since /\ k.key = client[c].key
      /\ k.seen = Cache!Newest(client[c].key)
  <2>1. own \in BOOLEAN
    OBVIOUS
  <2> HIDE DEF own
  <2>2. QED
    BY <1>1, <1>2, <2>1 DEF Calls
<1> HIDE DEF k
<1>6. pending' \in [Clients -> SUBSET Cache!Keys]
  BY <1>1, <1>3 DEF CacheTypes
<1>7. QED
  BY <1>2, <1>3, <1>4, <1>5, <1>6, ClientKeeps

LEMMA WriteKeeps ==
    ASSUME CacheInv, NEW c \in Clients, NEW key \in Identifiers, Cache!Write(c, key)
    PROVE  CacheInv'
<1> DEFINE k == [Cache!Idle EXCEPT !.op = "writing", !.key = key]
<1>1. k \in Calls /\ k.op = "writing"
  BY DEF Calls, Cache!Idle, Cache!Keys
<1>2. /\ client[c].op = "idle" /\ client' = [client EXCEPT ![c] = k]
      /\ UNCHANGED <<now, writes, cache, open, pending, skipped>>
  BY DEF Cache!Write
<1> HIDE DEF k
<1>3. pending' \in [Clients -> SUBSET Cache!Keys]
  BY <1>2 DEF CacheInv, CacheTypes
<1>4. QED
  BY <1>1, <1>2, <1>3, ClientKeeps

LEMMA ExecuteKeeps == ASSUME CacheInv, NEW c \in Clients, Cache!Execute(c) PROVE CacheInv'
<1> DEFINE k == [client[c] EXCEPT !.op = "written"]
<1>1. CacheTypes /\ client[c] \in Calls /\ client[c].key \in Cache!Keys
  BY CacheTyped DEF CacheInv
<1>2. /\ client[c].op = "writing" /\ UNCHANGED <<now, writes, cache, open, skipped>>
      /\ pending' = [pending EXCEPT ![c] = @ \cup {client[c].key}]
  BY DEF Cache!Execute
<1>3. client' = [client EXCEPT ![c] = k]
  BY <1>1 DEF Cache!Execute, CacheTypes
<1>4. k \in Calls /\ k.op = "written"
  BY <1>1 DEF Calls
<1> HIDE DEF k
<1>5. pending' \in [Clients -> SUBSET Cache!Keys]
  BY <1>1, <1>2 DEF CacheTypes
<1>6. QED
  BY <1>2, <1>3, <1>4, <1>5, ClientKeeps

LEMMA AbandonKeeps == ASSUME CacheInv, NEW c \in Clients, Cache!Abandon(c) PROVE CacheInv'
<1>1. Cache!Idle \in Calls /\ Cache!Idle.op = "idle"
  BY DEF Calls, Cache!Idle, Cache!Keys
<1>2. client' = [client EXCEPT ![c] = Cache!Idle] /\ UNCHANGED <<now, writes, cache>>
  BY DEF Cache!Abandon
<1>3. \/ skipped' = skipped /\ (client[c].op # "written" \/ c \in open)
      \/ skipped' = TRUE
  BY DEF Cache!Abandon, CacheInv, CacheTypes
<1>4. \A d \in Clients : d # c => (d \in open' <=> d \in open)
  BY DEF Cache!Abandon
<1>5. pending' \in [Clients -> SUBSET Cache!Keys]
  <2>1. pending' = pending \/ pending' = [pending EXCEPT ![c] = {}]
    BY DEF Cache!Abandon
  <2>2. QED
    BY <2>1 DEF CacheInv, CacheTypes
<1>6. QED
  BY <1>1, <1>2, <1>3, <1>4, <1>5, ClientKeeps

\* A transaction begins, or is undone.
LEMMA TransactionKeeps ==
    ASSUME CacheInv, NEW c \in Clients, client[c].op = "idle",
           UNCHANGED <<now, writes, cache, client, skipped>>,
           pending' = pending \/ pending' = [pending EXCEPT ![c] = {}],
           \A d \in Clients : d # c => (d \in open' <=> d \in open)
    PROVE  CacheInv'
<1>1. CacheTypes /\ client[c] \in Calls
  BY CacheTyped DEF CacheInv
<1>2. client' = [client EXCEPT ![c] = client[c]]
  BY <1>1 DEF CacheTypes
<1>3. pending' \in [Clients -> SUBSET Cache!Keys]
  BY <1>1 DEF CacheTypes
<1>4. QED
  BY <1>1, <1>2, <1>3, ClientKeeps

LEMMA BeginKeeps == ASSUME CacheInv, NEW c \in Clients, Cache!Begin(c) PROVE CacheInv'
  BY TransactionKeeps DEF Cache!Begin

LEMMA ReadStoredKeeps == ASSUME CacheInv, NEW c \in Clients, Cache!ReadStored(c) PROVE CacheInv'
<1> DEFINE key == client[c].key
           current == client[c].seen = Cache!Newest(key) /\ ~client[c].own
           e == [key |-> key, seen |-> client[c].seen, expire |-> now + Expiration,
                 current |-> current]
           which == Cache!CacheOf(key)
           s == Cache!Stored(cache[which], e)
<1>1. /\ CacheTypes /\ client[c] \in Calls /\ key \in Cache!Keys /\ client[c].seen \in Nat
      /\ client[c].since \in Nat /\ now \in Nat
  BY CacheTyped DEF CacheInv
<1>2. /\ client[c].op = "read" /\ client' = [client EXCEPT ![c] = Cache!Idle]
      /\ cache' = [cache EXCEPT ![which] = s]
      /\ UNCHANGED <<now, writes, open, pending, skipped>>
  BY DEF Cache!ReadStored
<1>3. which \in Caches /\ cache[which] \in Seq(Entries)
  BY <1>1, CacheOfTyped
<1>4. /\ e \in Entries /\ e.key = key /\ e.seen = client[c].seen /\ e.expire = now + Expiration
      /\ e.current => client[c].seen = Cache!Newest(key)
  <2>1. current \in BOOLEAN /\ (current => client[c].seen = Cache!Newest(key))
    OBVIOUS
  <2> HIDE DEF current
  <2>2. /\ e \in Entries /\ e.key = key /\ e.seen = client[c].seen
        /\ e.expire = now + Expiration /\ e.current = current
    BY <1>1, <2>1, ServicesAssumption DEF Entries
  <2>3. QED
    BY <2>1, <2>2
<1>5. /\ Cache!Idle \in Calls /\ Cache!Idle.op = "idle"
      /\ \A d \in Clients : client'[d] = IF d = c THEN Cache!Idle ELSE client[d]
  BY <1>1, <1>2 DEF Calls, Cache!Idle, Cache!Keys, CacheTypes
<1> HIDE DEF e, which
<1>6. /\ s \in Seq(Entries)
      /\ \A i \in DOMAIN s : s[i] = e \/ \E j \in DOMAIN cache[which] : s[i] = cache[which][j]
  BY <1>3, <1>4, StoredEntries
<1> HIDE DEF s
<1>7. /\ cache' \in [Caches -> Seq(Entries)]
      /\ \A entry : Held(entry)' => Held(entry) \/ \E i \in DOMAIN s : s[i] = entry
  BY <1>1, <1>2, <1>3, <1>6, HeldAfter
<1>8. \A entry : Held(entry)' => Held(entry) \/ entry = e
  BY <1>3, <1>6, <1>7, HeldAt
<1>9. CacheTypes'
  BY <1>1, <1>2, <1>5, <1>7 DEF CacheTypes, Caches
<1>10. InTime'
  <2>1. \A m \in DOMAIN writes' : writes'[m].at <= now'
    BY <1>2 DEF CacheInv, InTime
  <2>2. \A entry \in Entries : Held(entry)' => entry.expire <= now' + Expiration
    BY <1>1, <1>2, <1>4, <1>8, ServicesAssumption DEF CacheInv, InTime
  <2>3. \A d \in Clients : client'[d].op \in {"reading", "read"} =>
            client'[d].since <= now' /\ now' <= client'[d].since + Latency
    BY <1>2, <1>5 DEF CacheInv, InTime
  <2>4. QED
    BY <2>1, <2>2, <2>3 DEF InTime
<1>11. ReplacedLater'
  BY <1>2, <1>5, SameWrites DEF CacheInv, ReplacedLater
<1>12. ReplacedExpire'
  <2>1. ASSUME NEW n \in Cache!Writes(key), n > client[c].seen
        PROVE  e.expire <= writes[n].at + Expiration + Latency
    <3>1. writes[n].at >= client[c].since /\ now <= client[c].since + Latency
      BY <1>2, <2>1 DEF CacheInv, ReplacedLater, InTime
    <3>2. writes[n].at \in Nat
      BY <1>1, <2>1, CacheTyped DEF Cache!Writes
    <3>3. QED
      BY <1>1, <1>4, <3>1, <3>2, ServicesAssumption
  <2>2. Expires(e)
    BY <1>4, <2>1 DEF Expires
  <2>3. QED
    BY <1>2, <1>8, <2>2, SameWrites DEF CacheInv, ReplacedExpire
<1>13. AllExplained'
  <2>1. \A entry : Explained(entry) => Explained(entry)'
    BY <1>2, <1>5, SameWrites DEF Explained
  <2>2. Explained(e)
    <3>1. CASE e.current
      <4>1. \A m \in Cache!Writes(e.key) : m <= e.seen
        BY <1>1, <1>4, <3>1, NewestIsLast
      <4>2. \A m \in Cache!Writes(e.key) : m \in Nat
        BY <1>1, CacheTyped DEF Cache!Writes
      <4>3. e.seen \in Nat
        BY <1>1, <1>4
      <4>4. \A m \in Cache!Writes(e.key) : ~(m > e.seen)
        BY <4>1, <4>2, <4>3
      <4>5. QED
        BY <4>4 DEF Explained
    <3>2. QED
      BY <3>1 DEF Explained
  <2>3. QED
    BY <1>8, <2>1, <2>2 DEF CacheInv, AllExplained
<1>14. QED
  BY <1>9, <1>10, <1>11, <1>12, <1>13 DEF CacheInv

\* A commit, of a single statement or of a transaction.
LEMMA CommittedKeeps ==
    ASSUME CacheInv, NEW c \in Clients, NEW k \in Calls,
           NEW keys \in SUBSET Cache!Keys, NEW transacted \in BOOLEAN,
           Cache!Committed(keys, transacted), UNCHANGED <<now, cache, skipped>>,
           client' = [client EXCEPT ![c] = k],
           client[c].op \in {"idle", "writing"}, k.op \in {"idle", "written"},
           pending' \in [Clients -> SUBSET Cache!Keys],
           \A d \in Clients : d # c => (d \in open' <=> d \in open),
           ~transacted => k.op = "written" /\ keys = {k.key} /\ c \notin open'
    PROVE  CacheInv'
<1> DEFINE write == [keys |-> keys, at |-> now, transacted |-> transacted]
           n == Len(writes) + 1
<1>1. /\ CacheTypes /\ client[c] \in Calls /\ now \in Nat /\ Len(writes) \in Nat
      /\ DOMAIN writes = 1..Len(writes)
  BY CacheTyped DEF CacheInv
<1>2. writes' = Append(writes, write)
  BY DEF Cache!Committed
<1>3. /\ write \in Commits
      /\ write.keys = keys /\ write.at = now /\ write.transacted = transacted
  BY <1>1 DEF Commits
<1>4. \A d \in Clients : client'[d] = IF d = c THEN k ELSE client[d]
  BY <1>1 DEF CacheTypes
<1> HIDE DEF write
<1>5. /\ writes' \in Seq(Commits) /\ DOMAIN writes' = 1..n
      /\ \A m \in DOMAIN writes : writes'[m] = writes[m]
      /\ writes'[n] = write
  <2>1. /\ Append(writes, write) \in Seq(Commits)
        /\ Len(Append(writes, write)) = Len(writes) + 1
        /\ \A i \in 1..Len(writes) : Append(writes, write)[i] = writes[i]
        /\ Append(writes, write)[Len(writes) + 1] = write
    BY <1>1, <1>3, AppendProperties DEF CacheTypes
  <2>2. DOMAIN Append(writes, write) = 1..(Len(writes) + 1)
    BY <2>1, LenProperties
  <2>3. QED
    BY <1>1, <1>2, <2>1, <2>2
<1>6. /\ n \notin DOMAIN writes /\ \A m \in DOMAIN writes' : m \in DOMAIN writes \/ m = n
      /\ DOMAIN writes \subseteq DOMAIN writes'
  BY <1>1, <1>5
<1> HIDE DEF n
<1>7. \A key, m : m \in Cache!Writes(key)' => m \in Cache!Writes(key) \/ m = n
  BY <1>5, <1>6 DEF Cache!Writes
<1>8. \A key : write.keys \cap Cache!Covers(key) = {} => Cache!Writes(key)' = Cache!Writes(key)
  <2>1. ASSUME NEW key, write.keys \cap Cache!Covers(key) = {}
        PROVE  Cache!Writes(key)' = Cache!Writes(key)
    <3>1. \A m : m \in Cache!Writes(key)' <=> m \in Cache!Writes(key)
      BY <2>1, <1>5, <1>6 DEF Cache!Writes
    <3>2. QED
      BY <3>1
  <2>2. QED
    BY <2>1
<1>9. CacheTypes'
  BY <1>1, <1>2, <1>3, <1>5 DEF CacheTypes
<1>10. \A entry : Held(entry)' <=> Held(entry)
  BY <1>2 DEF Held
<1>11. InTime'
  <2>1. \A m \in DOMAIN writes' : writes'[m].at <= now'
    BY <1>1, <1>2, <1>3, <1>5, <1>6 DEF CacheInv, InTime
  <2>2. \A entry \in Entries : Held(entry)' => entry.expire <= now' + Expiration
    BY <1>2, <1>10 DEF CacheInv, InTime
  <2>3. \A d \in Clients : client'[d].op \in {"reading", "read"} =>
            client'[d].since <= now' /\ now' <= client'[d].since + Latency
    BY <1>2, <1>3, <1>4 DEF CacheInv, InTime
  <2>4. QED
    BY <2>1, <2>2, <2>3 DEF InTime
<1>12. ReplacedLater'
  <2>1. ASSUME NEW d \in Clients, client'[d].op = "read", NEW m \in DOMAIN writes',
               writes'[m].keys \cap Cache!Covers(client'[d].key) # {}, m > client'[d].seen
        PROVE  writes'[m].at >= client'[d].since
    <3>1. client'[d] = client[d] /\ client[d].op = "read"
      BY <2>1, <1>3, <1>4
    <3>2. CASE m = n
      BY <3>1, <3>2, <1>3, <1>5 DEF CacheInv, InTime
    <3>3. CASE m \in DOMAIN writes
      <4>1. m \in Cache!Writes(client[d].key)
        BY <3>1, <3>3, <2>1, <1>5 DEF Cache!Writes
      <4>2. QED
        BY <4>1, <3>1, <3>3, <2>1, <1>5 DEF CacheInv, ReplacedLater
    <3>4. QED
      BY <3>2, <3>3, <2>1, <1>6
  <2>2. QED
    BY <2>1 DEF ReplacedLater, Cache!Writes
<1>13. ReplacedExpire'
  <2>1. ASSUME NEW entry \in Entries, Held(entry), NEW m \in Cache!Writes(entry.key)', m > entry.seen
        PROVE  entry.expire <= writes'[m].at + Expiration + Latency
    <3>1. CASE m = n
      <4>1. entry.expire <= now + Expiration /\ entry.expire \in Nat
        BY <2>1 DEF CacheInv, InTime, Entries
      <4>2. QED
        BY <4>1, <3>1, <1>1, <1>3, <1>5, ServicesAssumption
    <3>2. CASE m \in Cache!Writes(entry.key)
      <4>1. m \in DOMAIN writes
        BY <3>2 DEF Cache!Writes
      <4>2. QED
        BY <4>1, <3>2, <2>1, <1>5 DEF CacheInv, ReplacedExpire, Expires
    <3>3. QED
      BY <3>1, <3>2, <2>1, <1>7
  <2>2. \A entry \in Entries : Held(entry) => Expires(entry)'
    BY <2>1 DEF Expires
  <2>3. QED
    BY <2>2, <1>10 DEF ReplacedExpire
<1>14. AllExplained'
  <2>1. ASSUME NEW entry \in Entries, Explained(entry) PROVE Explained(entry)'
    <3>1. CASE transacted
      <4>1. (\A m \in Cache!Writes(entry.key) : m > entry.seen => writes[m].transacted) =>
            (\A m \in Cache!Writes(entry.key)' : m > entry.seen => writes'[m].transacted)
        <5>1. ASSUME NEW m \in Cache!Writes(entry.key) PROVE writes'[m] = writes[m]
          BY <1>5 DEF Cache!Writes
        <5>2. writes'[n].transacted
          BY <3>1, <1>3, <1>5
        <5>3. QED
          BY <5>1, <5>2, <1>7
      <4>2. \A d \in Clients \ open : client[d].op = "written" =>
                d \in Clients \ open' /\ client'[d] = client[d]
        BY <1>4
      <4>3. QED
        BY <2>1, <4>1, <4>2 DEF Explained
    <3>2. CASE ~transacted /\ keys \cap Cache!Covers(entry.key) # {}
      <4>1. c \in Clients \ open' /\ client'[c].op = "written"
            /\ client'[c].key \in Cache!Covers(entry.key)
        BY <3>2, <1>4
      <4>2. QED
        BY <4>1 DEF Explained
    <3>3. CASE keys \cap Cache!Covers(entry.key) = {}
      <4>1. Cache!Writes(entry.key)' = Cache!Writes(entry.key)
        BY <3>3, <1>3, <1>8
      <4>2. \A m \in Cache!Writes(entry.key) : writes'[m] = writes[m]
        BY <1>5 DEF Cache!Writes
      <4>3. \A d \in Clients \ open : client[d].op = "written" =>
                d \in Clients \ open' /\ client'[d] = client[d]
        BY <1>4
      <4>4. QED
        BY <2>1, <4>1, <4>2, <4>3 DEF Explained
    <3>4. QED
      BY <3>1, <3>2, <3>3
  <2>2. QED
    BY <2>1, <1>10 DEF CacheInv, AllExplained
<1>15. QED
  BY <1>9, <1>11, <1>12, <1>13, <1>14 DEF CacheInv

LEMMA CommitKeeps == ASSUME CacheInv, NEW c \in Clients, Cache!Commit(c) PROVE CacheInv'
<1> DEFINE k == [client[c] EXCEPT !.op = "written"]
<1>1. CacheTypes /\ client[c] \in Calls /\ client[c].key \in Cache!Keys
  BY CacheTyped DEF CacheInv
<1>2. /\ client[c].op = "writing" /\ c \notin open
      /\ Cache!Committed({client[c].key}, FALSE)
      /\ UNCHANGED <<now, cache, open, pending, skipped>>
  BY DEF Cache!Commit
<1>3. client' = [client EXCEPT ![c] = k]
  BY <1>1 DEF Cache!Commit, CacheTypes
<1>4. k \in Calls /\ k.op = "written" /\ k.key = client[c].key
  BY <1>1 DEF Calls
<1> HIDE DEF k
<1>5. pending' \in [Clients -> SUBSET Cache!Keys] /\ {client[c].key} \in SUBSET Cache!Keys
  BY <1>1, <1>2 DEF CacheTypes
<1>6. QED
  BY <1>2, <1>3, <1>4, <1>5, CommittedKeeps

LEMMA EndKeeps == ASSUME CacheInv, NEW c \in Clients, Cache!End(c) PROVE CacheInv'
<1>1. CacheTypes /\ client[c] \in Calls
  BY CacheTyped DEF CacheInv
<1>2. /\ client[c].op = "idle" /\ UNCHANGED <<now, cache, client, skipped>>
      /\ pending' = [pending EXCEPT ![c] = {}]
      /\ \A d \in Clients : d # c => (d \in open' <=> d \in open)
  BY DEF Cache!End
<1>3. CASE UNCHANGED writes
  BY <1>2, <1>3, TransactionKeeps
<1>4. CASE Cache!Committed(pending[c], TRUE)
  <2>1. client' = [client EXCEPT ![c] = client[c]]
    BY <1>1, <1>2 DEF CacheTypes
  <2>2. pending' \in [Clients -> SUBSET Cache!Keys] /\ pending[c] \in SUBSET Cache!Keys
    BY <1>1, <1>2 DEF CacheTypes
  <2>3. QED
    BY <1>1, <1>2, <1>4, <2>1, <2>2, CommittedKeeps
<1>5. QED
  BY <1>3, <1>4 DEF Cache!End

LEMMA WrittenKeeps == ASSUME CacheInv, NEW c \in Clients, Cache!Written(c) PROVE CacheInv'
<1>1. /\ cache' = [which \in Caches |-> <<>>] /\ skipped' = FALSE
      /\ client' = [client EXCEPT ![c] = Cache!Idle]
      /\ UNCHANGED <<now, writes, open, pending>>
  BY DEF Cache!Written, Cache!ClearCaches, Cache!Cleared, Caches
<1>2. Cache!Idle \in Calls /\ Cache!Idle.op = "idle" /\ CacheTypes
  BY DEF Calls, Cache!Idle, Cache!Keys, CacheInv
<1>3. \A d \in Clients : client'[d] = IF d = c THEN Cache!Idle ELSE client[d]
  BY <1>1, <1>2 DEF CacheTypes
<1>4. <<>> \in Seq(Entries)
  BY EmptySeq
<1>5. CacheTypes'
  BY <1>1, <1>2, <1>4 DEF CacheTypes, Caches
<1>6. \A entry : ~Held(entry)'
  BY <1>1 DEF Held, Caches
<1>7. InTime'
  BY <1>1, <1>2, <1>3, <1>6 DEF CacheInv, InTime
<1>8. ReplacedLater'
  BY <1>1, <1>2, <1>3, SameWrites DEF CacheInv, ReplacedLater
<1>9. QED
  BY <1>5, <1>6, <1>7, <1>8 DEF CacheInv, ReplacedExpire, AllExplained

LEMMA CacheKept == CacheInv /\ [Cache!Next]_cacheVars => CacheInv'
<1>1. ASSUME CacheInv, Cache!Next PROVE CacheInv'
  BY <1>1, TickKeeps, ReadHitKeeps, ReadMissKeeps, SelectKeeps, ReadStoredKeeps, WriteKeeps,
     CommitKeeps, ExecuteKeeps, WrittenKeeps, AbandonKeeps, BeginKeeps, EndKeeps DEF Cache!Next
<1>2. ASSUME CacheInv, UNCHANGED cacheVars PROVE CacheInv'
  <2>1. \A entry : Held(entry)' <=> Held(entry)
    BY <1>2 DEF Held, cacheVars
  <2>2. CacheTypes' /\ InTime'
    BY <1>2, <2>1 DEF CacheInv, CacheTypes, InTime, cacheVars
  <2>3. ReplacedLater'
    BY <1>2, SameWrites DEF CacheInv, ReplacedLater, cacheVars
  <2>4. ReplacedExpire' /\ AllExplained'
    BY <1>2, <2>1, FewerEntries DEF cacheVars
  <2>5. QED
    BY <2>2, <2>3, <2>4 DEF CacheInv
<1>3. QED
  BY <1>1, <1>2

LEMMA CacheInvHolds == ServicesSpec => []CacheInv
<1>1. ServicesInit => CacheInv
  BY CacheBegins DEF ServicesInit
<1>2. CacheInv /\ [ServicesNext]_allVars => CacheInv'
  <2>1. [ServicesNext]_allVars => [Cache!Next]_cacheVars
    BY DEF ServicesNext, allVars, cacheVars
  <2>2. QED
    BY <2>1, CacheKept
<1>3. QED
  BY <1>1, <1>2, PTL DEF ServicesSpec

\* Whatever tasks read, write, commit and give up at the same time, an entry of a
\* cache that a commit replaced was not what the table held when it was stored,
\* or its writer has yet to clear the caches or was cancelled before it could, or
\* all that replaced it were transactions, after which no cache is cleared.
THEOREM StaleIsExplained == ServicesSpec => []StaleExplained
<1>1. ASSUME CacheInv PROVE StaleExplained
  <2>1. ASSUME NEW which \in Caches, NEW i \in DOMAIN cache[which]
        PROVE  Explained(cache[which][i])
    <3>1. cache[which][i] \in Entries
      BY <1>1, CacheTyped DEF CacheInv, Caches
    <3>2. QED
      BY <1>1, <3>1, HeldAt DEF CacheInv, AllExplained
  <2>2. QED
    BY <2>1 DEF StaleExplained, Cache!StaleExplained, Explained, Caches
<1>2. QED
  BY <1>1, CacheInvHolds, PTL

\* How long ago what was read was replaced, from one write that replaced it.
LEMMA ReplacedForAtMost ==
    ASSUME CacheTypes, NEW key, NEW seen, NEW most \in Nat,
           \A n \in Cache!Writes(key) : n > seen => now - writes[n].at <= most
    PROVE  Cache!ReplacedFor(key, seen) <= most
<1> DEFINE later == {n \in Cache!Writes(key) : n > seen}
           first == CHOOSE n \in later : \A m \in later : n <= m
<1>1. CASE later = {}
  BY <1>1 DEF Cache!ReplacedFor
<1>2. CASE later # {}
  <2>1. later \in SUBSET Nat
    BY CacheTyped DEF Cache!Writes
  <2>2. \E n \in later : \A m \in later : n <= m
    BY <1>2, <2>1, LeastNatural
  <2>3. first \in later
    BY <2>2
  <2>4. Cache!ReplacedFor(key, seen) = now - writes[first].at
    BY <1>2 DEF Cache!ReplacedFor
  <2>5. QED
    BY <2>3, <2>4
<1>3. QED
  BY <1>1, <1>2

\* In no order of reads, writes and cancellations is an answer served that was
\* replaced longer ago than a read may take and a cached entry may be served.
THEOREM StalenessIsBounded == ServicesSpec => []StalenessBounded
<1>1. ASSUME CacheInv PROVE StalenessBounded
  <2>1. CacheTypes /\ now \in Nat /\ \A n \in DOMAIN writes : writes[n].at \in Nat
    BY <1>1, CacheTyped DEF CacheInv
  <2>2. ASSUME NEW key \in Cache!Keys, Cache!Hit(key)
        PROVE  Cache!ReplacedFor(key, Cache!EntryFor(cache[Cache!CacheOf(key)], key).seen)
                   <= Expiration + Latency
    <3> DEFINE e == Cache!EntryFor(cache[Cache!CacheOf(key)], key)
    <3>1. Cache!CacheOf(key) \in Caches
      BY <2>1, CacheOfTyped
    <3>2. \E j \in DOMAIN cache[Cache!CacheOf(key)] : e = cache[Cache!CacheOf(key)][j] /\ e.key = key
      BY <2>2, PositionIsOne DEF Cache!Hit, Cache!EntryFor
    <3>3. Held(e) /\ e \in Entries /\ e.key = key /\ e.expire \in Nat
      BY <2>1, <3>1, <3>2, HeldAt, CacheTyped DEF Caches
    <3>4. e.expire >= now
      BY <2>2 DEF Cache!Hit, Cache!Fresh
    <3> HIDE DEF e
    <3>5. \A n \in Cache!Writes(key) : n > e.seen => e.expire <= writes[n].at + Expiration + Latency
      BY <1>1, <3>3 DEF CacheInv, ReplacedExpire, Expires
    <3>6. ASSUME NEW n \in Cache!Writes(key), n > e.seen
          PROVE  now - writes[n].at <= Expiration + Latency
      <4>1. writes[n].at \in Nat
        BY <2>1 DEF Cache!Writes
      <4>2. QED
        BY <4>1, <2>1, <3>3, <3>4, <3>5, <3>6, ServicesAssumption
    <3>7. Expiration + Latency \in Nat
      BY ServicesAssumption
    <3>8. Cache!ReplacedFor(key, e.seen) <= Expiration + Latency
      BY <2>1, <3>6, <3>7, ReplacedForAtMost
    <3>9. QED
      BY <3>8 DEF e
  <2>3. ASSUME NEW c \in Clients, client[c].op = "read"
        PROVE  Cache!ReplacedFor(client[c].key, client[c].seen) <= Latency
    <3>1. ASSUME NEW n \in Cache!Writes(client[c].key), n > client[c].seen
          PROVE  now - writes[n].at <= Latency
      <4>1. writes[n].at \in Nat /\ client[c].since \in Nat
        BY <2>1, CacheTyped DEF Cache!Writes
      <4>2. writes[n].at >= client[c].since /\ now <= client[c].since + Latency
        BY <1>1, <2>3, <3>1 DEF CacheInv, ReplacedLater, InTime
      <4>3. QED
        BY <4>1, <4>2, <2>1, ServicesAssumption
    <3>2. QED
      BY <2>1, <3>1, ReplacedForAtMost, ServicesAssumption
  <2>4. QED
    BY <2>2, <2>3 DEF StalenessBounded, Cache!StalenessBounded
<1>2. QED
  BY <1>1, CacheInvHolds, PTL
-----------------------------------------------------------------------------
(* RabbitMQ: for every number of connections, channels and messages.       *)

ConnectionStates == {"opening", "open", "closed"}
ChannelRecords(messages) ==
    [of : Nat, state : {"opening", "open", "closed"}, deliveries : Seq(messages),
     asked : {"none"} \cup Broker!Administration]
Phases == {"out", "entered", "in", "done", "left"}
TaskCalls == [op : {"none", "enter", "leave", "queue", "consume", "publish"} \cup Broker!Administration,
              at : {"idle", "lock", "connected", "opened", "ready", "reply", "reopen"}, of : Nat]

\* What is delivered is not described: messages are what the broker has.
ChannelTypes == \E messages : channels \in Seq(ChannelRecords(messages))
BufferTypes == \E deliveries : buffer \in Seq(deliveries)

UsageTypes ==
    /\ connections \in Seq(ConnectionStates)
    /\ connection \in 0..Len(connections)
    /\ block \in [phase : Phases, channel : {0} \cup DOMAIN channels]
    /\ call \in [Broker!Tasks -> TaskCalls]
    /\ abandoned \in [connections : SUBSET Nat, channels : SUBSET Nat]

\* A delivery that the consumer has not settled is the one its tag stands for,
\* unless its channel is closed.
Current(d) ==
    /\ d = [message |-> d.message, channel |-> d.channel, tag |-> d.tag]
    /\ d.channel \in DOMAIN channels
    /\ channels[d.channel].state # "opening"
    /\ channels[d.channel].state = "open" =>
           /\ d.tag \in DOMAIN channels[d.channel].deliveries
           /\ channels[d.channel].deliveries[d.tag] = d.message

Buffered(d) == \E i \in DOMAIN buffer : buffer[i] = d

\* Every delivery is in one place, and comes over an open channel.
Tags ==
    /\ \A d : d \in held \/ Buffered(d) => Current(d)
    /\ \A d \in held : ~Buffered(d)
    /\ \A i, j \in DOMAIN buffer : buffer[i] = buffer[j] => i = j
    /\ \A ch \in consuming : ch \in DOMAIN channels /\ channels[ch].state = "open"

DeliveryInv == ChannelTypes /\ BufferTypes /\ Tags /\ gone \subseteq released \cup purged

\* A task is about to give the access a new channel.
Reopening(k) == k.op \in {"publish", "consume"} /\ k.at \in {"lock", "connected", "opened", "ready"}

\* What a task may have called, by what became of the access.
Fits(t, k) ==
    /\ k.op = "none" => k.at = "idle"
    /\ t = "owner" => k.op \in {"none", "enter", "leave", "queue", "consume"}
    /\ t = "helper" => k.op \in {"none", "publish"} \cup Broker!Administration
    /\ k.op = "leave" => block.phase \in {"entered", "done"} /\ k.at = "lock"
    /\ k.op = "enter" => block.phase = "out" /\ k.at \notin {"ready", "reply", "reopen"}
    /\ k.op = "queue" => block.phase = "entered"
    /\ k.op = "consume" => block.phase = "in"
    /\ k.op = "publish" => block.channel # 0
    /\ k.at \in {"connected", "opened"} => k.of \in DOMAIN connections
    /\ k.at \in {"ready", "reply"} => k.of \in DOMAIN channels
    /\ Reopening(k) => channels[block.channel].state = "closed"

Access ==
    /\ block.phase \in {"out", "entered"} => block.channel = 0
    /\ block.phase \in {"in", "done"} => block.channel # 0
    /\ block.channel # 0 => channels[block.channel].state \in {"open", "closed"}
    /\ \A t \in Broker!Tasks : Fits(t, call[t])
    /\ ~(Reopening(call["owner"]) /\ Reopening(call["helper"]))

\* A connection that opens is waited for or was given up.
Awaited ==
    \A c \in DOMAIN connections :
        connections[c] = "opening" =>
            \/ c \in abandoned.connections
            \/ \E t \in Broker!Tasks : call[t].at = "connected" /\ call[t].of = c

UsageInv == UsageTypes /\ Access /\ Awaited /\ OpenIsAccounted

BrokerInv == DeliveryInv /\ UsageInv
-----------------------------------------------------------------------------
\* What the steps start from.
LEMMA ChannelsTyped ==
    ASSUME ChannelTypes
    PROVE  /\ Len(channels) \in Nat /\ DOMAIN channels = 1..Len(channels)
           /\ \A ch \in DOMAIN channels :
                /\ channels[ch].of \in Nat
                /\ channels[ch].state \in {"opening", "open", "closed"}
<1>1. PICK messages : channels \in Seq(ChannelRecords(messages))
  BY DEF ChannelTypes
<1>2. \A ch \in 1..Len(channels) : channels[ch] \in ChannelRecords(messages)
  BY <1>1, ElementOfSeq
<1>3. Len(channels) \in Nat /\ DOMAIN channels = 1..Len(channels)
  BY <1>1, LenProperties
<1>4. QED
  BY <1>2, <1>3 DEF ChannelRecords

\* A change of channels one by one.
LEMMA ChannelsChange ==
    ASSUME NEW messages, channels \in Seq(ChannelRecords(messages)), NEW f,
           DOMAIN f = DOMAIN channels,
           \A ch \in DOMAIN channels : f[ch] \in ChannelRecords(messages),
           f = [ch \in DOMAIN f |-> f[ch]]
    PROVE  f \in Seq(ChannelRecords(messages))
<1>1. Len(channels) \in Nat /\ DOMAIN channels = 1..Len(channels)
  BY LenProperties
<1>2. f \in [1..Len(channels) -> ChannelRecords(messages)]
  BY <1>1
<1>3. QED
  BY <1>1, <1>2

LEMMA ChannelsClosed ==
    ASSUME ChannelTypes, NEW chs, Broker!Closed(chs)
    PROVE  /\ ChannelTypes' /\ DOMAIN channels' = DOMAIN channels
           /\ \A ch \in DOMAIN channels :
                /\ ch \in chs => channels'[ch].state = "closed"
                /\ ch \notin chs => channels'[ch] = channels[ch]
           /\ consuming' = consuming \ chs
<1>1. PICK messages : channels \in Seq(ChannelRecords(messages))
  BY DEF ChannelTypes
<1> DEFINE f == [ch \in DOMAIN channels |->
                     IF ch \in chs THEN [channels[ch] EXCEPT !.state = "closed", !.deliveries = <<>>,
                                                              !.asked = "none"]
                     ELSE channels[ch]]
<1>2. channels' = f /\ consuming' = consuming \ chs
  BY DEF Broker!Closed
<1>3. \A ch \in DOMAIN channels : channels[ch] \in ChannelRecords(messages)
  BY <1>1, LenProperties, ElementOfSeq
<1>4. <<>> \in Seq(messages)
  BY EmptySeq
<1>5. \A ch \in DOMAIN channels :
        /\ f[ch] \in ChannelRecords(messages)
        /\ ch \in chs => f[ch].state = "closed"
        /\ ch \notin chs => f[ch] = channels[ch]
  BY <1>3, <1>4 DEF ChannelRecords
<1>6. DOMAIN f = DOMAIN channels /\ f = [ch \in DOMAIN f |-> f[ch]]
  OBVIOUS
<1> HIDE DEF f
<1>7. f \in Seq(ChannelRecords(messages))
  BY <1>1, <1>5, <1>6, ChannelsChange
<1>8. QED
  BY <1>2, <1>5, <1>6, <1>7 DEF ChannelTypes

LEMMA ChannelAdded ==
    ASSUME ChannelTypes, NEW c \in Nat,
           channels' = Append(channels, Broker!NewChannel(c))
    PROVE  /\ ChannelTypes' /\ DOMAIN channels' = DOMAIN channels \cup {Len(channels) + 1}
           /\ Len(channels) + 1 \notin DOMAIN channels
           /\ \A ch \in DOMAIN channels : channels'[ch] = channels[ch]
           /\ channels'[Len(channels) + 1].state = "opening"
<1>1. PICK messages : channels \in Seq(ChannelRecords(messages))
  BY DEF ChannelTypes
<1> DEFINE new == Broker!NewChannel(c)
<1>2. new \in ChannelRecords(messages) /\ new.state = "opening"
  BY EmptySeq DEF ChannelRecords, Broker!NewChannel
<1> HIDE DEF new
<1>3. /\ Append(channels, new) \in Seq(ChannelRecords(messages))
      /\ Len(Append(channels, new)) = Len(channels) + 1
      /\ \A i \in 1..Len(channels) : Append(channels, new)[i] = channels[i]
      /\ Append(channels, new)[Len(channels) + 1] = new
  BY <1>1, <1>2, AppendProperties
<1>4. Len(channels) \in Nat /\ DOMAIN channels = 1..Len(channels)
  BY <1>1, LenProperties
<1>5. channels' = Append(channels, new)
  BY DEF new
<1>6. DOMAIN channels' = 1..(Len(channels) + 1)
  BY <1>3, <1>5, LenProperties
<1>7. QED
  BY <1>2, <1>3, <1>4, <1>5, <1>6 DEF ChannelTypes
\* A channel opens, and the broker may be asked to do something through it.
LEMMA ChannelOpens ==
    ASSUME ChannelTypes, NEW ch \in DOMAIN channels,
           \/ channels' = [channels EXCEPT ![ch].state = "open"]
           \/ \E op \in Broker!Administration :
                  channels' = [channels EXCEPT ![ch].state = "open", ![ch].asked = op]
    PROVE  /\ ChannelTypes' /\ DOMAIN channels' = DOMAIN channels /\ channels'[ch].state = "open"
           /\ \A b \in DOMAIN channels : b # ch => channels'[b] = channels[b]
<1>1. PICK messages : channels \in Seq(ChannelRecords(messages))
  BY DEF ChannelTypes
<1>2. \A b \in DOMAIN channels : channels[b] \in ChannelRecords(messages)
  BY <1>1, LenProperties, ElementOfSeq
<1>3. ASSUME NEW r \in ChannelRecords(messages), r.state = "open", channels' = [channels EXCEPT ![ch] = r]
      PROVE  /\ ChannelTypes' /\ DOMAIN channels' = DOMAIN channels /\ channels'[ch].state = "open"
             /\ \A b \in DOMAIN channels : b # ch => channels'[b] = channels[b]
  <2>1. PICK f : f = [channels EXCEPT ![ch] = r]
    OBVIOUS
  <2>2. /\ DOMAIN f = DOMAIN channels /\ f = [b \in DOMAIN f |-> f[b]] /\ f[ch] = r
        /\ \A b \in DOMAIN channels : b # ch => f[b] = channels[b]
    BY <2>1
  <2>3. \A b \in DOMAIN channels : f[b] \in ChannelRecords(messages)
    BY <1>2, <2>2
  <2>4. f \in Seq(ChannelRecords(messages))
    BY <1>1, <2>2, <2>3, ChannelsChange
  <2>5. QED
    BY <1>3, <2>1, <2>2, <2>4 DEF ChannelTypes
<1>4. CASE channels' = [channels EXCEPT ![ch].state = "open"]
  <2>1. PICK r : r = [channels[ch] EXCEPT !.state = "open"]
    OBVIOUS
  <2>2. r \in ChannelRecords(messages) /\ r.state = "open"
    BY <1>2, <2>1 DEF ChannelRecords
  <2>3. QED
    BY <1>3, <1>4, <2>1, <2>2
<1>5. CASE \E op \in Broker!Administration :
               channels' = [channels EXCEPT ![ch].state = "open", ![ch].asked = op]
  <2>1. PICK op \in Broker!Administration :
            channels' = [channels EXCEPT ![ch].state = "open", ![ch].asked = op]
    BY <1>5
  <2>2. PICK r : r = [channels[ch] EXCEPT !.state = "open", !.asked = op]
    OBVIOUS
  <2>3. r \in ChannelRecords(messages) /\ r.state = "open"
    BY <1>2, <2>2 DEF ChannelRecords
  <2>4. channels' = [channels EXCEPT ![ch] = r]
    BY <2>1, <2>2
  <2>5. QED
    BY <1>3, <2>3, <2>4
<1>6. QED
  BY <1>4, <1>5
-----------------------------------------------------------------------------
(* Deliveries                                                              *)

\* A step that does not touch what open channels have delivered.
LEMMA DeliveriesStay ==
    ASSUME DeliveryInv, ChannelTypes', UNCHANGED <<held, buffer>>,
           UNCHANGED <<gone, released, purged>> \/ gone' \subseteq released' \cup purged',
           \A ch \in DOMAIN channels :
               /\ ch \in DOMAIN channels'
               /\ \/ channels[ch].state = "opening" /\ channels'[ch].state # "opening"
                  \/ channels'[ch] = channels[ch]
                  \/ /\ channels'[ch].state = channels[ch].state
                     /\ channels'[ch].deliveries = channels[ch].deliveries
                  \/ channels'[ch].state = "closed",
           \A ch \in consuming' : ch \in DOMAIN channels' /\ channels'[ch].state = "open"
    PROVE  DeliveryInv'
<1>1. BufferTypes'
  BY DEF DeliveryInv, BufferTypes
<1>2. \A d : Current(d) => Current(d)'
  BY DEF Current
<1>3. \A d : Buffered(d)' <=> Buffered(d)
  BY DEF Buffered
<1>4. Tags'
  BY <1>2, <1>3 DEF DeliveryInv, Tags
<1>5. QED
  BY <1>1, <1>4 DEF DeliveryInv

LEMMA CloseKeepsDeliveries ==
    ASSUME DeliveryInv, NEW chs, Broker!Closed(chs), UNCHANGED <<held, buffer, gone, released, purged>>
    PROVE  DeliveryInv'
<1>1. /\ ChannelTypes' /\ DOMAIN channels' = DOMAIN channels
      /\ \A ch \in DOMAIN channels :
           /\ ch \in chs => channels'[ch].state = "closed"
           /\ ch \notin chs => channels'[ch] = channels[ch]
      /\ consuming' = consuming \ chs
  BY ChannelsClosed DEF DeliveryInv
<1>2. \A ch \in consuming' : ch \in DOMAIN channels' /\ channels'[ch].state = "open"
  BY <1>1 DEF DeliveryInv, Tags
<1>3. QED
  BY <1>1, <1>2, DeliveriesStay

\* Using an open channel, or none.
LEMMA DoneKeepsDeliveries ==
    ASSUME DeliveryInv, UNCHANGED <<channels, held, buffer, gone, released, purged>>,
           consuming' = consuming \/ \E ch \in DOMAIN channels :
               channels[ch].state = "open" /\ consuming' = consuming \cup {ch}
    PROVE  DeliveryInv'
<1>1. \A ch \in consuming' : ch \in DOMAIN channels' /\ channels'[ch].state = "open"
  BY DEF DeliveryInv, Tags
<1>2. ChannelTypes'
  BY DEF DeliveryInv, ChannelTypes
<1>3. QED
  BY <1>1, <1>2, DeliveriesStay

LEMMA NewChannelKeepsDeliveries ==
    ASSUME DeliveryInv, UNCHANGED <<held, buffer, consuming, gone, released, purged>>, NEW c \in Nat,
           channels' = Append(channels, Broker!NewChannel(c))
    PROVE  DeliveryInv'
<1>1. /\ ChannelTypes' /\ DOMAIN channels' = DOMAIN channels \cup {Len(channels) + 1}
      /\ \A ch \in DOMAIN channels : channels'[ch] = channels[ch]
  BY ChannelAdded DEF DeliveryInv
<1>2. \A ch \in consuming' : ch \in DOMAIN channels' /\ channels'[ch].state = "open"
  BY <1>1 DEF DeliveryInv, Tags
<1>3. QED
  BY <1>1, <1>2, DeliveriesStay

LEMMA ReadyChannel ==
    ASSUME ChannelTypes, NEW ch \in DOMAIN channels, Broker!Ready(ch)
    PROVE  /\ ChannelTypes' /\ DOMAIN channels' = DOMAIN channels /\ channels'[ch].state = "open"
           /\ \A b \in DOMAIN channels : b # ch => channels'[b] = channels[b]
<1>1. \/ channels' = [channels EXCEPT ![ch].state = "open"]
      \/ \E op \in Broker!Administration :
             channels' = [channels EXCEPT ![ch].state = "open", ![ch].asked = op]
  BY DEF Broker!Ready
<1>2. QED
  BY <1>1, ChannelOpens

LEMMA ReadyKeepsDeliveries ==
    ASSUME DeliveryInv, NEW ch \in DOMAIN channels, Broker!Ready(ch)
    PROVE  DeliveryInv'
<1>1. /\ channels[ch].state = "opening"
      /\ UNCHANGED <<held, buffer, gone, released, purged>>
      /\ consuming' = consuming \/ consuming' = consuming \cup {ch}
  BY DEF Broker!Ready, Broker!Done
<1>2. /\ ChannelTypes' /\ DOMAIN channels' = DOMAIN channels /\ channels'[ch].state = "open"
      /\ \A b \in DOMAIN channels : b # ch => channels'[b] = channels[b]
  BY ReadyChannel DEF DeliveryInv
<1>3. \A b \in consuming' : b \in DOMAIN channels' /\ channels'[b].state = "open"
  BY <1>1, <1>2 DEF DeliveryInv, Tags
<1>4. \A b \in DOMAIN channels :
          /\ b \in DOMAIN channels'
          /\ \/ channels[b].state = "opening" /\ channels'[b].state # "opening"
             \/ channels'[b] = channels[b]
  BY <1>1, <1>2
<1>5. QED
  BY <1>1, <1>2, <1>3, <1>4, DeliveriesStay

\* The broker does what it was asked to do.
LEMMA ServeKeeps ==
    ASSUME DeliveryInv, NEW ch \in DOMAIN channels, Broker!Serve(ch)
    PROVE  /\ DeliveryInv' /\ DOMAIN channels' = DOMAIN channels
           /\ \A b \in DOMAIN channels : channels'[b].state = channels[b].state
<1>1. PICK messages : channels \in Seq(ChannelRecords(messages))
  BY DEF DeliveryInv, ChannelTypes
<1>2. \A b \in DOMAIN channels : channels[b] \in ChannelRecords(messages)
  BY <1>1, LenProperties, ElementOfSeq
<1>3. PICK f : f = channels' /\ f = [channels EXCEPT ![ch].asked = "none"]
  BY DEF Broker!Serve
<1>4. PICK r : r = [channels[ch] EXCEPT !.asked = "none"]
  OBVIOUS
<1>5. /\ r \in ChannelRecords(messages) /\ r.state = channels[ch].state
      /\ r.deliveries = channels[ch].deliveries
  BY <1>2, <1>4 DEF ChannelRecords
<1>6. /\ DOMAIN f = DOMAIN channels /\ f = [b \in DOMAIN f |-> f[b]] /\ f[ch] = r
      /\ \A b \in DOMAIN channels : b # ch => f[b] = channels[b]
  BY <1>3, <1>4
<1>7. f \in Seq(ChannelRecords(messages))
  <2>1. \A b \in DOMAIN channels : f[b] \in ChannelRecords(messages)
    BY <1>2, <1>5, <1>6
  <2>2. QED
    BY <1>1, <1>6, <2>1, ChannelsChange
<1>8. ChannelTypes'
  BY <1>3, <1>7 DEF ChannelTypes
<1>9. \A b \in DOMAIN channels : /\ b \in DOMAIN channels' /\ channels'[b].state = channels[b].state
                                 /\ channels'[b].deliveries = channels[b].deliveries
  BY <1>3, <1>5, <1>6
<1>10. UNCHANGED <<held, buffer, consuming, released>>
  BY DEF Broker!Serve
<1>11. UNCHANGED <<gone, released, purged>> \/ gone' \subseteq released' \cup purged'
  <2>1. CASE UNCHANGED <<gone, purged>>
    BY <1>10, <2>1
  <2>2. ASSUME NEW waiting, gone' = gone \cup waiting, purged' = purged \cup waiting
        PROVE  gone' \subseteq released' \cup purged'
    BY <1>10, <2>2 DEF DeliveryInv
  <2>3. QED
    BY <2>1, <2>2 DEF Broker!Serve
<1>12. \A b \in consuming' : b \in DOMAIN channels' /\ channels'[b].state = "open"
  BY <1>9, <1>10 DEF DeliveryInv, Tags
<1>13. DeliveryInv'
  BY <1>8, <1>9, <1>10, <1>11, <1>12, DeliveriesStay
<1>14. QED
  BY <1>3, <1>6, <1>9, <1>13

\* What a change of the deliveries of one open channel leaves as it was.
LEMMA OneChannelDelivers ==
    ASSUME ChannelTypes, NEW ch \in DOMAIN channels, channels[ch].state = "open", NEW messages,
           channels \in Seq(ChannelRecords(messages)), NEW s \in Seq(messages), NEW f,
           f = [channels EXCEPT ![ch].deliveries = s]
    PROVE  /\ f \in Seq(ChannelRecords(messages)) /\ DOMAIN f = DOMAIN channels
           /\ f[ch].deliveries = s
           /\ \A b \in DOMAIN channels : /\ f[b].state = channels[b].state
                                         /\ b # ch => f[b] = channels[b]
<1>1. \A b \in DOMAIN channels : channels[b] \in ChannelRecords(messages)
  BY LenProperties, ElementOfSeq
<1>2. /\ DOMAIN f = DOMAIN channels /\ f = [b \in DOMAIN f |-> f[b]]
      /\ \A b \in DOMAIN channels : f[b] = IF b = ch THEN [channels[b] EXCEPT !.deliveries = s]
                                           ELSE channels[b]
  OBVIOUS
<1>3. \A b \in DOMAIN channels : f[b] \in ChannelRecords(messages)
  BY <1>1, <1>2 DEF ChannelRecords
<1>4. f[ch].deliveries = s /\ \A b \in DOMAIN channels : f[b].state = channels[b].state
  BY <1>1, <1>2 DEF ChannelRecords
<1>5. QED
  BY <1>2, <1>3, <1>4, ChannelsChange

LEMMA DeliverKeeps ==
    ASSUME DeliveryInv, NEW ch \in DOMAIN channels, Broker!Deliver(ch)
    PROVE  /\ DeliveryInv' /\ DOMAIN channels' = DOMAIN channels
           /\ \A b \in DOMAIN channels : channels'[b].state = channels[b].state
<1>1. PICK messages : channels \in Seq(ChannelRecords(messages))
  BY DEF DeliveryInv, ChannelTypes
<1>0. PICK message, n, d :
        /\ message = Head(queued) /\ n = Len(channels[ch].deliveries) + 1
        /\ d = [message |-> message, channel |-> ch, tag |-> n]
  OBVIOUS
<1> DEFINE more == messages \cup {message, 0}
           old == channels[ch].deliveries
<1>2. channels[ch].state = "open" /\ UNCHANGED <<held, consuming, purged>>
  BY DEF Broker!Deliver, DeliveryInv, Tags
<1>3. PICK what \in {message, 0} :
        /\ channels' = [channels EXCEPT ![ch].deliveries = Append(@, what)]
        /\ \/ what = message /\ buffer' = Append(buffer, d) /\ UNCHANGED <<gone, released>>
           \/ /\ what = 0 /\ UNCHANGED buffer
              /\ \/ UNCHANGED <<gone, released>>
                 \/ gone' = gone \cup {message} /\ released' = released \cup {message}
  BY <1>0 DEF Broker!Deliver
<1>4. channels \in Seq(ChannelRecords(more)) /\ old \in Seq(more)
  <2>1. Seq(messages) \subseteq Seq(more)
    BY SeqMonotonic
  <2>2. ChannelRecords(messages) \subseteq ChannelRecords(more)
    BY <2>1 DEF ChannelRecords
  <2>3. channels \in Seq(ChannelRecords(more))
    BY <1>1, <2>2, SeqMonotonic
  <2>4. channels[ch] \in ChannelRecords(more)
    BY <2>3, LenProperties, ElementOfSeq
  <2>5. QED
    BY <2>3, <2>4 DEF ChannelRecords
<1>5. /\ Append(old, what) \in Seq(more) /\ DOMAIN Append(old, what) = 1..n
      /\ \A i \in DOMAIN old : i \in 1..n /\ Append(old, what)[i] = old[i]
      /\ Append(old, what)[n] = what /\ n \notin DOMAIN old /\ n \in 1..n
  <2>1. what \in more
    OBVIOUS
  <2>2. /\ Append(old, what) \in Seq(more) /\ Len(Append(old, what)) = n
        /\ \A i \in 1..Len(old) : Append(old, what)[i] = old[i]
        /\ Append(old, what)[n] = what
    BY <1>0, <1>4, <2>1, AppendProperties
  <2>3. Len(old) \in Nat /\ DOMAIN old = 1..Len(old) /\ n = Len(old) + 1 /\ DOMAIN Append(old, what) = 1..n
    BY <1>0, <1>4, <2>2, LenProperties
  <2>4. QED
    BY <2>2, <2>3
<1> DEFINE s == Append(old, what)
<1>6. channels' = [channels EXCEPT ![ch].deliveries = s]
  BY <1>3
<1> HIDE DEF more, old, s
<1>7. /\ s \in Seq(more) /\ n \in DOMAIN s /\ s[n] = what
      /\ \A i \in DOMAIN old : i \in DOMAIN s /\ s[i] = old[i]
  BY <1>5 DEF s
<1>8. /\ channels' \in Seq(ChannelRecords(more)) /\ DOMAIN channels' = DOMAIN channels
      /\ channels'[ch].deliveries = s
      /\ \A b \in DOMAIN channels : /\ channels'[b].state = channels[b].state
                                    /\ b # ch => channels'[b] = channels[b]
  BY <1>2, <1>4, <1>7, <1>6, OneChannelDelivers DEF DeliveryInv
<1>9. ChannelTypes'
  BY <1>8 DEF ChannelTypes
<1>10. ASSUME NEW e, Current(e) PROVE Current(e)'
  <2>1. CASE e.channel = ch
    BY <2>1, <1>2, <1>7, <1>8, <1>10 DEF Current, old
  <2>2. CASE e.channel # ch
    BY <2>2, <1>8, <1>10 DEF Current
  <2>3. QED
    BY <2>1, <2>2
<1>11. \A e : Current(e) => e # d
  BY <1>0, <1>2, <1>5 DEF Current, old
<1>12. \A b \in consuming' : b \in DOMAIN channels' /\ channels'[b].state = "open"
  BY <1>2, <1>8 DEF DeliveryInv, Tags
<1>13. CASE UNCHANGED buffer
  <2>1. BufferTypes' /\ \A e : Buffered(e)' <=> Buffered(e)
    BY <1>13 DEF DeliveryInv, BufferTypes, Buffered
  <2>2. Tags'
    BY <2>1, <1>2, <1>10, <1>12, <1>13 DEF DeliveryInv, Tags
  <2>3. (gone \subseteq released \cup purged)'
    BY <1>2, <1>3 DEF DeliveryInv
  <2>4. QED
    BY <2>1, <2>2, <2>3, <1>8, <1>9 DEF DeliveryInv
<1>14. CASE what = message /\ buffer' = Append(buffer, d) /\ UNCHANGED <<gone, released>>
  <2>1. PICK deliveries : buffer \in Seq(deliveries)
    BY DEF DeliveryInv, BufferTypes
  <2>2. buffer \in Seq(deliveries \cup {d})
    BY <2>1, SeqMonotonic
  <2>3. /\ buffer' \in Seq(deliveries \cup {d}) /\ Len(buffer') = Len(buffer) + 1
        /\ \A i \in 1..Len(buffer) : buffer'[i] = buffer[i]
        /\ buffer'[Len(buffer) + 1] = d
    BY <1>14, <2>2, AppendProperties
  <2>4. /\ Len(buffer) \in Nat /\ DOMAIN buffer = 1..Len(buffer)
        /\ DOMAIN buffer' = 1..(Len(buffer) + 1)
    BY <2>2, <2>3, LenProperties
  <2>5. \A i \in DOMAIN buffer' :
          \/ i \in DOMAIN buffer /\ buffer'[i] = buffer[i]
          \/ i = Len(buffer) + 1 /\ buffer'[i] = d
    <3> SUFFICES ASSUME NEW i \in DOMAIN buffer'
                 PROVE  \/ i \in DOMAIN buffer /\ buffer'[i] = buffer[i]
                        \/ i = Len(buffer) + 1 /\ buffer'[i] = d
      OBVIOUS
    <3>1. i \in 1..(Len(buffer) + 1)
      BY <2>4
    <3>2. i \in 1..Len(buffer) \/ i = Len(buffer) + 1
      BY <3>1, <2>4
    <3>3. CASE i \in 1..Len(buffer)
      BY <3>3, <2>3, <2>4
    <3>4. CASE i = Len(buffer) + 1
      BY <3>4, <2>3
    <3>5. QED
      BY <3>2, <3>3, <3>4
  <2>6. \A e : Buffered(e)' => Buffered(e) \/ e = d
    BY <2>5 DEF Buffered
  <2>7. ~Buffered(d) /\ d \notin held
    BY <1>11 DEF DeliveryInv, Tags
  <2>8. Current(d)'
    <3>1. d = [message |-> d.message, channel |-> d.channel, tag |-> d.tag] /\ d.channel = ch
          /\ d.tag = n /\ d.message = message
      BY <1>0
    <3>2. channels'[ch].state # "opening" /\ ch \in DOMAIN channels'
      BY <1>2, <1>8
    <3>3. n \in DOMAIN channels'[ch].deliveries /\ channels'[ch].deliveries[n] = message
      BY <1>7, <1>8, <1>14
    <3>4. QED
      BY <3>1, <3>2, <3>3 DEF Current
  <2>9. \A i, j \in DOMAIN buffer' : buffer'[i] = buffer'[j] => i = j
    <3>1. \A i \in DOMAIN buffer : buffer[i] # d
      BY <2>7 DEF Buffered
    <3>2. QED
      BY <2>5, <3>1 DEF DeliveryInv, Tags
  <2>10. Tags'
    <3>1. \A e : e \in held' \/ Buffered(e)' => Current(e)'
      <4>1. \A e : e \in held \/ Buffered(e) => Current(e)'
        BY <1>10 DEF DeliveryInv, Tags
      <4>2. \A e : e \in held' \/ Buffered(e)' => e \in held \/ Buffered(e) \/ e = d
        BY <2>6, <1>2
      <4>3. ASSUME NEW e, e = d PROVE Current(e)'
        BY <4>3, <2>8
      <4>4. QED
        BY <4>1, <4>2, <4>3
    <3>2. \A e \in held' : ~Buffered(e)'
      BY <2>6, <2>7, <1>2 DEF DeliveryInv, Tags
    <3>3. QED
      BY <3>1, <3>2, <2>9, <1>12 DEF Tags
  <2>11. BufferTypes' /\ (gone \subseteq released \cup purged)'
    BY <2>3, <1>2, <1>14 DEF BufferTypes, DeliveryInv
  <2>12. QED
    BY <2>10, <2>11, <1>8, <1>9 DEF DeliveryInv
<1>15. QED
  BY <1>3, <1>13, <1>14

LEMMA TakeKeepsDeliveries == ASSUME DeliveryInv, Broker!Take PROVE DeliveryInv'
<1>1. PICK deliveries : buffer \in Seq(deliveries)
  BY DEF DeliveryInv, BufferTypes
<1>2. /\ buffer # <<>> /\ held' = held \cup {Head(buffer)} /\ buffer' = Tail(buffer)
      /\ UNCHANGED <<channels, consuming, gone, released, purged>>
  BY DEF Broker!Take, Broker!brokerVars, Broker!historyVars
<1>3. /\ Len(buffer) \in Nat /\ Len(buffer) > 0 /\ DOMAIN buffer = 1..Len(buffer)
      /\ Head(buffer) = buffer[1]
  BY <1>1, <1>2, LenProperties, EmptySeq
<1>4. /\ buffer' \in Seq(deliveries) /\ Len(buffer') = Len(buffer) - 1
      /\ \A i \in 1..Len(buffer') : buffer'[i] = buffer[i + 1]
  BY <1>1, <1>2, HeadTailProperties
<1>5. DOMAIN buffer' = 1..(Len(buffer) - 1)
  BY <1>4, LenProperties
<1>6. \A i \in DOMAIN buffer' : i + 1 \in DOMAIN buffer /\ i + 1 # 1 /\ buffer'[i] = buffer[i + 1]
  BY <1>3, <1>4, <1>5
<1>7. \A e : Buffered(e)' => Buffered(e) /\ e # buffer[1]
  BY <1>3, <1>6 DEF Buffered, DeliveryInv, Tags
<1>8. Buffered(buffer[1])
  BY <1>3 DEF Buffered
<1>9. \A e : Current(e) => Current(e)'
  BY <1>2 DEF Current
<1>10. \A i, j \in DOMAIN buffer' : buffer'[i] = buffer'[j] => i = j
  <2>1. ASSUME NEW i \in DOMAIN buffer', NEW j \in DOMAIN buffer', buffer'[i] = buffer'[j]
        PROVE  i = j
    <3>1. i + 1 = j + 1
      BY <2>1, <1>6 DEF DeliveryInv, Tags
    <3>2. i \in Int /\ j \in Int
      BY <1>5
    <3>3. QED
      BY <3>1, <3>2
  <2>2. QED
    BY <2>1
<1>11. \A d \in held' : d \in held \/ d = buffer[1]
  BY <1>2, <1>3
<1>12. Tags'
  <2>1. \A d : d \in held' \/ Buffered(d)' => Current(d)'
    <3>1. \A d : d \in held' \/ Buffered(d)' => d \in held \/ Buffered(d)
      BY <1>7, <1>8, <1>11
    <3>2. \A d : d \in held \/ Buffered(d) => Current(d)
      BY DEF DeliveryInv, Tags
    <3>3. QED
      BY <3>1, <3>2, <1>9
  <2>2. \A d \in held' : ~Buffered(d)'
    BY <1>7, <1>11 DEF DeliveryInv, Tags
  <2>3. \A ch \in consuming' : ch \in DOMAIN channels' /\ channels'[ch].state = "open"
    BY <1>2 DEF DeliveryInv, Tags
  <2>4. QED
    BY <2>1, <2>2, <2>3, <1>10 DEF Tags
<1>13. ChannelTypes' /\ BufferTypes' /\ (gone \subseteq released \cup purged)'
  BY <1>2, <1>4 DEF DeliveryInv, ChannelTypes, BufferTypes
<1>14. QED
  BY <1>12, <1>13 DEF DeliveryInv

LEMMA SettleKeepsDeliveries ==
    ASSUME DeliveryInv, NEW d \in held, Broker!Settle(d)
    PROVE  /\ DeliveryInv' /\ DOMAIN channels' = DOMAIN channels
           /\ \A b \in DOMAIN channels : channels'[b].state = channels[b].state
<1> DEFINE ch == d.channel
           known == ch # 0 /\ channels[ch].state = "open" /\ d.tag \in DOMAIN channels[ch].deliveries
<1>1. held' = held \ {d} /\ UNCHANGED <<buffer, consuming, purged>>
  BY DEF Broker!Settle
<1>2. PICK requeue \in BOOLEAN :
        /\ released' = IF requeue THEN released ELSE released \cup {d.message}
        /\ IF known
           THEN /\ channels' = [channels EXCEPT ![ch].deliveries[d.tag] = 0]
                /\ gone' = IF requeue THEN gone ELSE gone \cup {channels[ch].deliveries[d.tag]}
           ELSE UNCHANGED <<channels, gone>>
  BY DEF Broker!Settle, Broker!SettledOn, Broker!ChannelOpen
<1>3. Current(d) /\ ~Buffered(d)
  BY DEF DeliveryInv, Tags
<1>4. BufferTypes' /\ \A e : Buffered(e)' <=> Buffered(e)
  BY <1>1 DEF DeliveryInv, BufferTypes, Buffered
<1>5. CASE ~known
  <2>1. UNCHANGED <<channels, gone>>
    BY <1>2, <1>5
  <2>2. \A e : Current(e) => Current(e)'
    BY <2>1 DEF Current
  <2>3. Tags'
    BY <1>1, <1>4, <2>1, <2>2 DEF DeliveryInv, Tags
  <2>4. ChannelTypes' /\ (gone \subseteq released \cup purged)'
    BY <1>1, <1>2, <2>1 DEF DeliveryInv, ChannelTypes
  <2>5. QED
    BY <2>1, <2>3, <2>4, <1>4 DEF DeliveryInv
<1>6. CASE known
  <2>1. PICK messages : channels \in Seq(ChannelRecords(messages))
    BY DEF DeliveryInv, ChannelTypes
  <2> DEFINE more == messages \cup {0}
             old == channels[ch].deliveries
             s == [old EXCEPT ![d.tag] = 0]
  <2>2. ch \in DOMAIN channels /\ channels[ch].state = "open" /\ d.tag \in DOMAIN old
        /\ old[d.tag] = d.message
    BY <1>3, <1>6 DEF Current
  <2>3. channels \in Seq(ChannelRecords(more)) /\ old \in Seq(more)
    <3>1. Seq(messages) \subseteq Seq(more)
      BY SeqMonotonic
    <3>2. ChannelRecords(messages) \subseteq ChannelRecords(more)
      BY <3>1 DEF ChannelRecords
    <3>3. channels \in Seq(ChannelRecords(more))
      BY <2>1, <3>2, SeqMonotonic
    <3>4. channels[ch] \in ChannelRecords(more)
      BY <2>2, <3>3, LenProperties, ElementOfSeq
    <3>5. QED
      BY <3>3, <3>4 DEF ChannelRecords
  <2>4. /\ s \in Seq(more) /\ DOMAIN s = DOMAIN old
        /\ \A i \in DOMAIN old : i # d.tag => s[i] = old[i]
    <3>1. DOMAIN old = 1..Len(old) /\ d.tag \in 1..Len(old) /\ 0 \in more
      BY <2>2, <2>3, LenProperties
    <3>2. QED
      BY <2>3, <3>1, ExceptSeq
  <2>5. /\ channels' = [channels EXCEPT ![ch].deliveries = s]
        /\ gone' = IF requeue THEN gone ELSE gone \cup {d.message}
    BY <1>2, <1>6, <2>2
  <2> HIDE DEF s, more, old
  <2>6. /\ channels' \in Seq(ChannelRecords(more)) /\ DOMAIN channels' = DOMAIN channels
        /\ channels'[ch].deliveries = s
        /\ \A b \in DOMAIN channels : /\ channels'[b].state = channels[b].state
                                      /\ b # ch => channels'[b] = channels[b]
    BY <2>2, <2>3, <2>4, <2>5, OneChannelDelivers DEF DeliveryInv
  <2>7. ASSUME NEW e, Current(e), e # d PROVE Current(e)'
    <3>1. CASE e.channel # ch
      BY <3>1, <2>6, <2>7 DEF Current
    <3>2. CASE e.channel = ch
      <4>1. e.tag \in DOMAIN old /\ old[e.tag] = e.message
        BY <3>2, <2>2, <2>7 DEF Current, old
      <4>2. e.tag # d.tag
        BY <4>1, <3>2, <2>2, <2>7, <1>3 DEF Current
      <4>3. QED
        BY <4>1, <4>2, <3>2, <2>2, <2>4, <2>6, <2>7 DEF Current
    <3>3. QED
      BY <3>1, <3>2
  <2>8. Tags'
    <3>1. \A e : e \in held' \/ Buffered(e)' => Current(e) /\ e # d
      BY <1>1, <1>3, <1>4 DEF DeliveryInv, Tags
    <3>2. \A b \in consuming' : b \in DOMAIN channels' /\ channels'[b].state = "open"
      BY <1>1, <2>6 DEF DeliveryInv, Tags
    <3>3. QED
      BY <3>1, <3>2, <2>7, <1>1, <1>4 DEF DeliveryInv, Tags
  <2>9. ChannelTypes'
    BY <2>6 DEF ChannelTypes
  <2>10. (gone \subseteq released \cup purged)'
    BY <1>1, <1>2, <2>5 DEF DeliveryInv
  <2>11. QED
    BY <2>6, <2>8, <2>9, <2>10, <1>4 DEF DeliveryInv
<1>7. QED
  BY <1>5, <1>6

LEMMA GoOnKeepsDeliveries ==
    ASSUME DeliveryInv, NEW t, NEW c \in Nat, Broker!GoOn(t, c),
           UNCHANGED <<held, buffer, consuming, gone, released, purged>>
    PROVE  DeliveryInv'
<1>1. \/ UNCHANGED channels
      \/ channels' = Append(channels, Broker!NewChannel(c))
  BY DEF Broker!GoOn
<1>2. CASE UNCHANGED channels
  BY <1>2, DoneKeepsDeliveries
<1>3. QED
  BY <1>1, <1>2, NewChannelKeepsDeliveries

\* Every step keeps the deliveries where they were, or moves one.
LEMMA DeliveryKept == ASSUME BrokerInv, Broker!Next PROVE DeliveryInv'
<1>1. DeliveryInv /\ UsageTypes
  BY DEF BrokerInv, UsageInv
<1>2. ASSUME NEW c \in DOMAIN connections, Broker!Opens(c) PROVE DeliveryInv'
  <2>1. UNCHANGED <<channels, held, buffer, consuming, gone, released, purged>>
    BY <1>2 DEF Broker!Opens, Broker!historyVars
  <2>2. QED
    BY <1>1, <2>1, DoneKeepsDeliveries
<1>3. ASSUME NEW c \in DOMAIN connections, Broker!LoseConnection(c) PROVE DeliveryInv'
  <2>1. UNCHANGED <<held, buffer, gone, released, purged>> /\ Broker!Closed(Broker!ChannelsOf(c))
    BY <1>3 DEF Broker!LoseConnection, Broker!historyVars
  <2>2. QED
    BY <1>1, <2>1, CloseKeepsDeliveries
<1>4. ASSUME NEW ch \in DOMAIN channels, Broker!LoseChannel(ch) PROVE DeliveryInv'
  <2>1. UNCHANGED <<held, buffer, gone, released, purged>> /\ Broker!Closed({ch})
    BY <1>4 DEF Broker!LoseChannel, Broker!historyVars
  <2>2. QED
    BY <1>1, <2>1, CloseKeepsDeliveries
<1>5. ASSUME NEW t \in Broker!Tasks, Broker!Connect(t) PROVE DeliveryInv'
  <2>1. UNCHANGED <<held, buffer, consuming, gone, released, purged>>
    BY <1>5 DEF Broker!Connect, Broker!counts
  <2>2. connection \in Nat
    <3>1. Len(connections) \in Nat
      BY <1>1, LenProperties DEF UsageTypes
    <3>2. QED
      BY <1>1, <3>1 DEF UsageTypes
  <2>3. CASE Broker!GoOn(t, connection)
    BY <1>1, <2>1, <2>2, <2>3, GoOnKeepsDeliveries
  <2>4. CASE UNCHANGED channels
    BY <1>1, <2>1, <2>4, DoneKeepsDeliveries
  <2>5. QED
    BY <1>5, <2>3, <2>4 DEF Broker!Connect
<1>6. ASSUME NEW t \in Broker!Tasks, Broker!Connected(t) PROVE DeliveryInv'
  <2>1. UNCHANGED <<held, buffer, consuming, gone, released, purged>> /\ Broker!GoOn(t, call[t].of)
    BY <1>6 DEF Broker!Connected, Broker!historyVars
  <2>2. call[t].of \in Nat
    BY <1>1 DEF UsageTypes, TaskCalls
  <2>3. QED
    BY <1>1, <2>1, <2>2, GoOnKeepsDeliveries
<1>7. ASSUME NEW t \in Broker!Tasks, Broker!Interrupt(t) PROVE DeliveryInv'
  <2>1. UNCHANGED <<channels, held, buffer, consuming, gone, released, purged>>
    BY <1>7 DEF Broker!Interrupt, Broker!brokerVars
  <2>2. QED
    BY <1>1, <2>1, DoneKeepsDeliveries
<1>8. ASSUME NEW t, NEW op, Broker!ChannelOpen(block.channel), Broker!Done(t, op, block.channel),
             UNCHANGED <<channels, held, buffer, gone, released, purged>>
      PROVE  DeliveryInv'
  <2>1. block.channel \in DOMAIN channels /\ channels[block.channel].state = "open"
    BY <1>1, <1>8 DEF UsageTypes, Broker!ChannelOpen
  <2>2. consuming' = consuming \/ consuming' = consuming \cup {block.channel}
    BY <1>8 DEF Broker!Done
  <2>3. QED
    BY <1>1, <1>8, <2>1, <2>2, DoneKeepsDeliveries
<1>9. ASSUME NEW t \in Broker!Tasks, Broker!Reopen(t) PROVE DeliveryInv'
  <2>1. UNCHANGED <<channels, held, buffer, gone, released, purged>>
    BY <1>9 DEF Broker!Reopen, Broker!historyVars
  <2>2. \/ Broker!ChannelOpen(block.channel) /\ Broker!Done(t, call[t].op, block.channel)
        \/ UNCHANGED consuming
    BY <1>9 DEF Broker!Reopen
  <2>3. CASE UNCHANGED consuming
    BY <1>1, <2>1, <2>3, DoneKeepsDeliveries
  <2>4. QED
    BY <2>1, <2>2, <2>3, <1>8
<1>10. ASSUME NEW t \in Broker!Tasks, NEW op, Broker!Use(t, op) PROVE DeliveryInv'
  <2>1. UNCHANGED <<channels, held, buffer, gone, released, purged>>
    BY <1>10 DEF Broker!Use, Broker!historyVars
  <2>2. \/ Broker!ChannelOpen(block.channel) /\ Broker!Done(t, op, block.channel)
        \/ UNCHANGED consuming
    BY <1>10 DEF Broker!Use
  <2>3. CASE UNCHANGED consuming
    BY <1>1, <2>1, <2>3, DoneKeepsDeliveries
  <2>4. QED
    BY <2>1, <2>2, <2>3, <1>8
<1>11. CASE \/ Broker!EnterClient \/ Broker!AccessQueue
            \/ \E op \in Broker!Administration : Broker!Administer(op)
  <2>1. UNCHANGED <<channels, held, buffer, consuming, gone, released, purged>>
    BY <1>11 DEF Broker!EnterClient, Broker!AccessQueue, Broker!Administer, Broker!brokerVars,
       Broker!historyVars
  <2>2. QED
    BY <1>1, <2>1, DoneKeepsDeliveries
<1>12. CASE Broker!Administered
  <2>1. UNCHANGED <<held, buffer, gone, released, purged>> /\ Broker!Closed({call["helper"].of})
    BY <1>12 DEF Broker!Administered, Broker!historyVars
  <2>2. QED
    BY <1>1, <2>1, CloseKeepsDeliveries
<1>13. CASE Broker!LeaveQueue
  <2>1. UNCHANGED <<held, buffer, gone, released, purged>>
    BY <1>13 DEF Broker!LeaveQueue
  <2>2. CASE UNCHANGED <<channels, consuming>>
    BY <1>1, <2>1, <2>2, DoneKeepsDeliveries
  <2>3. ASSUME NEW chs, Broker!Closed(chs) PROVE DeliveryInv'
    BY <1>1, <2>1, <2>3, CloseKeepsDeliveries
  <2>4. QED
    BY <1>13, <2>2, <2>3 DEF Broker!LeaveQueue
<1>14. CASE Broker!LeaveClient \/ Broker!Left
  <2>1. UNCHANGED <<held, buffer, gone, released, purged>>
    BY <1>14 DEF Broker!LeaveClient, Broker!Left, Broker!historyVars
  <2>2. CASE UNCHANGED <<channels, consuming>>
    BY <1>1, <2>1, <2>2, DoneKeepsDeliveries
  <2>3. ASSUME NEW chs, Broker!Closed(chs) PROVE DeliveryInv'
    BY <1>1, <2>1, <2>3, CloseKeepsDeliveries
  <2>4. QED
    BY <1>14, <2>2, <2>3 DEF Broker!LeaveClient, Broker!Left, Broker!Disconnect, Broker!brokerVars
<1>15. QED
  BY <1>1, <1>2, <1>3, <1>4, <1>5, <1>6, <1>7, <1>9, <1>10, <1>11, <1>12, <1>13, <1>14,
     ReadyKeepsDeliveries, DeliverKeeps, ServeKeeps, TakeKeepsDeliveries, SettleKeepsDeliveries
     DEF Broker!Next, Broker!Tasks
-----------------------------------------------------------------------------
(* What is open at the broker                                              *)

LEMMA ConnectionsTyped ==
    ASSUME UsageTypes
    PROVE  /\ Len(connections) \in Nat /\ DOMAIN connections = 1..Len(connections)
           /\ connections \in Seq(ConnectionStates)
           /\ \A c \in DOMAIN connections : connections[c] \in ConnectionStates
<1>1. connections \in Seq(ConnectionStates)
  BY DEF UsageTypes
<1>2. Len(connections) \in Nat /\ DOMAIN connections = 1..Len(connections)
  BY <1>1, LenProperties
<1>3. QED
  BY <1>1, <1>2, ElementOfSeq

\* Connections and channels close; nobody is told.
LEMMA ClosingKeepsUsage ==
    ASSUME UsageInv, ChannelTypes, UNCHANGED <<connection, block, call, abandoned>>,
           connections' \in Seq(ConnectionStates), Len(connections') = Len(connections),
           \A c \in DOMAIN connections : connections'[c] \in {connections[c], "closed"},
           DOMAIN channels' = DOMAIN channels,
           \A ch \in DOMAIN channels : channels'[ch].state \in {channels[ch].state, "closed"}
    PROVE  UsageInv'
<1>1. UsageTypes'
  BY DEF UsageInv, UsageTypes
<1>2. DOMAIN connections' = DOMAIN connections
  BY ConnectionsTyped, LenProperties DEF UsageInv
<1>3. block.channel # 0 => block.channel \in DOMAIN channels
  BY DEF UsageInv, UsageTypes
<1>4. Access'
  <2>1. \A t \in Broker!Tasks : Fits(t, call[t])'
    BY <1>2, <1>3 DEF UsageInv, Access, Fits, Reopening
  <2>2. QED
    BY <2>1, <1>3 DEF UsageInv, Access, Reopening
<1>5. Awaited'
  BY <1>2 DEF UsageInv, Awaited
<1>6. OpenIsAccounted'
  BY <1>2 DEF UsageInv, OpenIsAccounted, Broker!OpenIsAccounted
<1>7. QED
  BY <1>1, <1>4, <1>5, <1>6 DEF UsageInv

\* A task calls, waits for something else, or returns.
LEMMA CallKeepsUsage ==
    ASSUME UsageInv, UNCHANGED <<connection, connections, channels, block>>,
           NEW t \in Broker!Tasks, NEW k \in TaskCalls, call' = [call EXCEPT ![t] = k],
           Fits(t, k), Reopening(k) => \A u \in Broker!Tasks \ {t} : ~Reopening(call[u]),
           abandoned' \in [connections : SUBSET Nat, channels : SUBSET Nat],
           abandoned.connections \subseteq abandoned'.connections,
           abandoned.channels \subseteq abandoned'.channels,
           call[t].at = "connected" => call[t].of \in abandoned'.connections,
           call[t].at \in {"ready", "reply"} => call[t].of \in abandoned'.channels
    PROVE  UsageInv'
<1>1. /\ call'[t] = k /\ call' \in [Broker!Tasks -> TaskCalls]
      /\ \A u \in Broker!Tasks : u # t => call'[u] = call[u]
  BY DEF UsageInv, UsageTypes
<1>2. UsageTypes'
  BY <1>1 DEF UsageInv, UsageTypes
<1>3. Access'
  <2>1. ASSUME NEW u \in Broker!Tasks PROVE Fits(u, call[u])'
    <3>1. CASE u = t
      BY <3>1, <1>1 DEF Fits, Reopening
    <3>2. CASE u # t
      BY <3>2, <1>1 DEF UsageInv, Access, Fits, Reopening
    <3>3. QED
      BY <3>1, <3>2
  <2>2. ~(Reopening(call["owner"]) /\ Reopening(call["helper"]))'
    BY <1>1 DEF UsageInv, Access, Reopening, Broker!Tasks
  <2>3. QED
    BY <2>1, <2>2 DEF UsageInv, Access
<1>4. Awaited'
  BY <1>1 DEF UsageInv, Awaited
<1>5. OpenIsAccounted'
  BY <1>1 DEF UsageInv, OpenIsAccounted, Broker!OpenIsAccounted
<1>6. QED
  BY <1>2, <1>3, <1>4, <1>5 DEF UsageInv

LEMMA UnusedKeepsUsage ==
    ASSUME UsageInv, ChannelTypes,
           UNCHANGED <<connection, connections, channels, block, call, abandoned>>
    PROVE  UsageInv'
BY ClosingKeepsUsage, ConnectionsTyped DEF UsageInv

LEMMA NoCallFits ==
    ASSUME NEW t \in Broker!Tasks
    PROVE  Broker!NoCall \in TaskCalls /\ Fits(t, Broker!NoCall) /\ ~Reopening(Broker!NoCall)
BY DEF TaskCalls, Broker!NoCall, Fits, Reopening

LEMMA CallsKeepUsage ==
    ASSUME UsageInv, \/ Broker!EnterClient \/ Broker!AccessQueue
                     \/ \E op \in Broker!Administration : Broker!Administer(op)
    PROVE  UsageInv'
<1>1. PICK t \in Broker!Tasks, op \in {"enter", "queue"} \cup Broker!Administration :
        /\ call[t] = Broker!NoCall
        /\ call' = [call EXCEPT ![t] = [op |-> op, at |-> "lock", of |-> 0]]
        /\ UNCHANGED <<connection, connections, channels, block, abandoned>>
        /\ op = "enter" => block.phase = "out" /\ t = "owner"
        /\ op = "queue" => block.phase = "entered" /\ t = "owner"
        /\ op \in Broker!Administration => t = "helper"
  BY DEF Broker!EnterClient, Broker!AccessQueue, Broker!Administer, Broker!Calling, Broker!brokerVars,
     Broker!historyVars, Broker!Tasks, Broker!Administration
<1> DEFINE k == [op |-> op, at |-> "lock", of |-> 0]
<1>2. k \in TaskCalls /\ Fits(t, k) /\ ~Reopening(k)
  BY <1>1 DEF TaskCalls, Fits, Reopening, Broker!Administration
<1>3. call[t].at = "idle" /\ abandoned \in [connections : SUBSET Nat, channels : SUBSET Nat]
  BY <1>1 DEF Broker!NoCall, UsageInv, UsageTypes
<1> HIDE DEF k
<1>4. call' = [call EXCEPT ![t] = k]
  BY <1>1 DEF k
<1>5. QED
  BY <1>1, <1>2, <1>3, <1>4, CallKeepsUsage

LEMMA UseKeepsUsage ==
    ASSUME UsageInv, ChannelTypes, Broker!Use("helper", "publish") \/ Broker!Use("owner", "consume")
    PROVE  UsageInv'
<1>1. PICK t \in Broker!Tasks, op \in {"publish", "consume"} :
        /\ call[t] = Broker!NoCall
        /\ op = "publish" => t = "helper" /\ block.channel # 0
        /\ op = "consume" => t = "owner" /\ block.phase = "in"
        /\ UNCHANGED call \/ call' = [call EXCEPT ![t] = [op |-> op, at |-> "reopen", of |-> 0]]
        /\ UNCHANGED <<connection, connections, channels, block, abandoned>>
  BY DEF Broker!Use, Broker!Calling, Broker!historyVars, Broker!Tasks
<1> DEFINE k == [op |-> op, at |-> "reopen", of |-> 0]
<1>2. k \in TaskCalls /\ Fits(t, k) /\ ~Reopening(k)
  BY <1>1 DEF TaskCalls, Fits, Reopening
<1>3. call[t].at = "idle" /\ abandoned \in [connections : SUBSET Nat, channels : SUBSET Nat]
  BY <1>1 DEF Broker!NoCall, UsageInv, UsageTypes
<1> HIDE DEF k
<1>4. UNCHANGED call \/ call' = [call EXCEPT ![t] = k]
  BY <1>1 DEF k
<1>5. CASE UNCHANGED call
  BY <1>1, <1>5, UnusedKeepsUsage
<1>6. CASE call' = [call EXCEPT ![t] = k]
  BY <1>1, <1>2, <1>3, <1>6, CallKeepsUsage
<1>7. QED
  BY <1>4, <1>5, <1>6

LEMMA ReopenKeepsUsage ==
    ASSUME UsageInv, NEW t \in Broker!Tasks, Broker!Reopen(t) PROVE UsageInv'
<1>1. /\ call[t].at = "reopen"
      /\ abandoned \in [connections : SUBSET Nat, channels : SUBSET Nat]
      /\ UNCHANGED <<connection, connections, channels, block, abandoned>>
      /\ \A u \in Broker!Tasks : ~Reopening(call[u])
  BY DEF Broker!Reopen, Broker!historyVars, UsageInv, UsageTypes, Reopening
<1>2. CASE call' = [call EXCEPT ![t] = Broker!NoCall]
  BY <1>1, <1>2, NoCallFits, CallKeepsUsage
<1>3. CASE ~Broker!ChannelOpen(block.channel)
           /\ call' = [call EXCEPT ![t] = [op |-> call[t].op, at |-> "lock", of |-> 0]]
  <2> DEFINE k == [op |-> call[t].op, at |-> "lock", of |-> 0]
  <2>1. k \in TaskCalls
    BY DEF TaskCalls, UsageInv, UsageTypes
  <2>2. Fits(t, call[t])
    BY DEF UsageInv, Access
  <2>3. k.op \in {"publish", "consume"} => block.channel # 0
    BY <2>2 DEF Fits, UsageInv, Access
  <2>4. k.op \in {"publish", "consume"} => channels[block.channel].state = "closed"
    BY <2>3, <1>3 DEF Broker!ChannelOpen, UsageInv, Access
  <2>5. Fits(t, k)
    BY <2>2, <2>4, <1>1 DEF Fits, Reopening
  <2> HIDE DEF k
  <2>6. call' = [call EXCEPT ![t] = k]
    BY <1>3 DEF k
  <2>7. QED
    BY <2>1, <2>5, <2>6, <1>1, CallKeepsUsage
<1>4. QED
  BY <1>2, <1>3 DEF Broker!Reopen, Broker!Returned, Broker!Calling

LEMMA AdministeredKeepsUsage ==
    ASSUME UsageInv, ChannelTypes, Broker!Administered PROVE UsageInv'
<1>1. /\ "helper" \in Broker!Tasks /\ call["helper"].at = "reply"
      /\ call' = [call EXCEPT !["helper"] = Broker!NoCall]
      /\ UNCHANGED <<connection, connections, block, abandoned>>
      /\ Broker!Closed({call["helper"].of})
  BY DEF Broker!Administered, Broker!Returned, Broker!historyVars, Broker!Tasks
<1>2. /\ DOMAIN channels' = DOMAIN channels
      /\ \A ch \in DOMAIN channels :
           /\ ch = call["helper"].of => channels'[ch].state = "closed"
           /\ ch # call["helper"].of => channels'[ch] = channels[ch]
  BY <1>1, ChannelsClosed
<1>3. /\ call'["helper"] = Broker!NoCall /\ call' \in [Broker!Tasks -> TaskCalls]
      /\ call'["owner"] = call["owner"]
  BY <1>1, NoCallFits DEF UsageInv, UsageTypes, Broker!Tasks
<1>4. UsageTypes'
  BY <1>1, <1>2, <1>3 DEF UsageInv, UsageTypes
<1>5. block.channel # 0 => block.channel \in DOMAIN channels
  BY DEF UsageInv, UsageTypes
<1>6. Access'
  <2>1. Fits("helper", call["helper"])'
    BY <1>3 DEF Fits, Reopening, Broker!NoCall
  <2>2. Fits("owner", call["owner"])'
    BY <1>1, <1>2, <1>3, <1>5 DEF UsageInv, Access, Fits, Reopening, Broker!Tasks
  <2>3. ~Reopening(call["helper"])'
    BY <1>3 DEF Reopening, Broker!NoCall
  <2>4. QED
    BY <1>1, <1>2, <1>5, <2>1, <2>2, <2>3 DEF UsageInv, Access, Broker!Tasks
<1>7. Awaited'
  BY <1>1, <1>3 DEF UsageInv, Awaited, Broker!Tasks
<1>8. OpenIsAccounted'
  <2>1. \A ch \in DOMAIN channels : ch # call["helper"].of =>
            \A t \in Broker!Tasks : call[t].at \in {"ready", "reply"} /\ call[t].of = ch =>
                call'[t] = call[t]
    BY <1>3 DEF Broker!Tasks
  <2>2. QED
    BY <1>1, <1>2, <2>1 DEF UsageInv, OpenIsAccounted, Broker!OpenIsAccounted
<1>9. QED
  BY <1>4, <1>6, <1>7, <1>8 DEF UsageInv

\* One connection is given a state.
LEMMA ConnectionSet ==
    ASSUME UsageTypes, NEW c \in DOMAIN connections, NEW state \in ConnectionStates,
           connections' = [connections EXCEPT ![c] = state]
    PROVE  /\ connections' \in Seq(ConnectionStates) /\ Len(connections') = Len(connections)
           /\ DOMAIN connections' = DOMAIN connections
           /\ connections'[c] = state
           /\ \A e \in DOMAIN connections : e # c => connections'[e] = connections[e]
BY ConnectionsTyped, ExceptSeq, LenProperties

LEMMA LossesKeepUsage ==
    ASSUME UsageInv, ChannelTypes,
           \/ \E c \in DOMAIN connections : Broker!LoseConnection(c)
           \/ \E ch \in DOMAIN channels : Broker!LoseChannel(ch)
    PROVE  UsageInv'
<1>1. PICK chs : Broker!Closed(chs)
  BY DEF Broker!LoseConnection, Broker!LoseChannel
<1>2. /\ DOMAIN channels' = DOMAIN channels
      /\ \A ch \in DOMAIN channels : channels'[ch].state \in {channels[ch].state, "closed"}
  BY <1>1, ChannelsClosed
<1>3. UNCHANGED <<connection, block, call, abandoned>>
  BY DEF Broker!LoseConnection, Broker!LoseChannel, Broker!historyVars
<1>4. /\ connections' \in Seq(ConnectionStates) /\ Len(connections') = Len(connections)
      /\ \A c \in DOMAIN connections : connections'[c] \in {connections[c], "closed"}
  <2>1. CASE UNCHANGED connections
    BY <2>1, ConnectionsTyped DEF UsageInv
  <2>2. ASSUME NEW c \in DOMAIN connections, Broker!LoseConnection(c)
        PROVE  /\ connections' \in Seq(ConnectionStates) /\ Len(connections') = Len(connections)
               /\ \A e \in DOMAIN connections : connections'[e] \in {connections[e], "closed"}
    <3>1. connections' = [connections EXCEPT ![c] = "closed"] /\ "closed" \in ConnectionStates
      BY <2>2 DEF Broker!LoseConnection, ConnectionStates
    <3>2. QED
      BY <3>1, ConnectionSet DEF UsageInv
  <2>3. QED
    BY <2>1, <2>2 DEF Broker!LoseChannel
<1>5. QED
  BY <1>2, <1>3, <1>4, ClosingKeepsUsage

LEMMA MessagesKeepUsage ==
    ASSUME BrokerInv, \/ Broker!Take
                      \/ \E ch \in DOMAIN channels : Broker!Deliver(ch) \/ Broker!Serve(ch)
                      \/ \E d \in held : Broker!Settle(d)
    PROVE  UsageInv'
<1>1. UNCHANGED <<connection, connections, block, call, abandoned>>
  BY DEF Broker!Take, Broker!Deliver, Broker!Serve, Broker!Settle, Broker!brokerVars,
     Broker!historyVars
<1>2. /\ DOMAIN channels' = DOMAIN channels
      /\ \A b \in DOMAIN channels : channels'[b].state = channels[b].state
  <2>1. CASE Broker!Take
    BY <2>1 DEF Broker!Take, Broker!brokerVars
  <2>2. QED
    BY <2>1, DeliverKeeps, ServeKeeps, SettleKeepsDeliveries DEF BrokerInv
<1>3. ChannelTypes /\ UsageInv
  BY DEF BrokerInv, DeliveryInv
<1>4. QED
  BY <1>1, <1>2, <1>3, ConnectionsTyped, ClosingKeepsUsage DEF UsageInv

LEMMA OpensKeepsUsage ==
    ASSUME UsageInv, NEW c \in DOMAIN connections, Broker!Opens(c) PROVE UsageInv'
<1>1. /\ connections[c] = "opening" /\ connections' = [connections EXCEPT ![c] = "open"]
      /\ UNCHANGED <<connection, channels, block, abandoned>> /\ "open" \in ConnectionStates
  BY DEF Broker!Opens, Broker!historyVars, ConnectionStates
<1>2. /\ connections' \in Seq(ConnectionStates) /\ Len(connections') = Len(connections)
      /\ DOMAIN connections' = DOMAIN connections
      /\ connections'[c] = "open"
      /\ \A e \in DOMAIN connections : e # c => connections'[e] = connections[e]
  BY <1>1, ConnectionSet DEF UsageInv
<1>3. c \in Nat
  BY ConnectionsTyped DEF UsageInv
<1>4. \A t \in Broker!Tasks :
        \/ call'[t] = call[t]
        \/ /\ call[t].at = "connected" /\ call[t].of = c
           /\ call'[t] = [op |-> call[t].op, at |-> "opened", of |-> c]
  <2>1. CASE UNCHANGED call
    BY <2>1
  <2>2. CASE \E t \in Broker!Tasks : call[t].at = "connected" /\ call[t].of = c
    <3> DEFINE u == CHOOSE t \in Broker!Tasks : call[t].at = "connected" /\ call[t].of = c
    <3>1. u \in Broker!Tasks /\ call[u].at = "connected" /\ call[u].of = c
      BY <2>2
    <3>2. call' = [call EXCEPT ![u] = [op |-> call[u].op, at |-> "opened", of |-> c]]
      BY <2>2 DEF Broker!Opens, Broker!Calling
    <3> HIDE DEF u
    <3>3. call \in [Broker!Tasks -> TaskCalls]
      BY DEF UsageInv, UsageTypes
    <3>4. QED
      BY <3>1, <3>2, <3>3
  <2>3. QED
    BY <2>1, <2>2 DEF Broker!Opens
<1>5. call' \in [Broker!Tasks -> TaskCalls]
  <2>1. ASSUME NEW t \in Broker!Tasks PROVE call'[t] \in TaskCalls
    <3>1. call[t] \in TaskCalls
      BY DEF UsageInv, UsageTypes
    <3>2. [op |-> call[t].op, at |-> "opened", of |-> c] \in TaskCalls
      BY <3>1, <1>3 DEF TaskCalls
    <3>3. QED
      BY <3>1, <3>2, <1>4
  <2>2. DOMAIN call' = Broker!Tasks /\ call' = [t \in DOMAIN call' |-> call'[t]]
    BY DEF Broker!Opens, Broker!Calling, UsageInv, UsageTypes
  <2>3. QED
    BY <2>1, <2>2
<1>6. UsageTypes'
  BY <1>1, <1>2, <1>5 DEF UsageInv, UsageTypes
<1>7. Access'
  <2>1. ASSUME NEW t \in Broker!Tasks
        PROVE  Fits(t, call[t])' /\ (Reopening(call[t])' <=> Reopening(call[t]))
    <3>1. Fits(t, call[t])
      BY DEF UsageInv, Access
    <3>2. CASE call'[t] = call[t]
      BY <3>1, <3>2, <1>1, <1>2 DEF Fits, Reopening
    <3>3. CASE /\ call[t].at = "connected" /\ call[t].of = c
               /\ call'[t] = [op |-> call[t].op, at |-> "opened", of |-> c]
      BY <3>1, <3>3, <1>1, <1>2 DEF Fits, Reopening
    <3>4. QED
      BY <3>2, <3>3, <1>4
  <2>2. QED
    BY <2>1, <1>1 DEF UsageInv, Access, Broker!Tasks
<1>8. Awaited'
  <2>1. \A t \in Broker!Tasks : call[t].of # c => call'[t] = call[t]
    BY <1>4
  <2>2. \A e \in DOMAIN connections : connections'[e] = "opening" =>
            e # c /\ connections[e] = "opening"
    BY <1>2
  <2>3. ASSUME NEW e \in DOMAIN connections, connections'[e] = "opening"
        PROVE  \/ e \in abandoned.connections
               \/ \E t \in Broker!Tasks : call'[t].at = "connected" /\ call'[t].of = e
    <3>1. \/ e \in abandoned.connections
          \/ \E t \in Broker!Tasks : call[t].at = "connected" /\ call[t].of = e
      BY <2>2, <2>3 DEF UsageInv, Awaited
    <3>2. QED
      BY <3>1, <2>1, <2>2, <2>3
  <2>4. QED
    BY <2>3, <1>1, <1>2 DEF Awaited
<1>9. OpenIsAccounted'
  <2>1. \A t \in Broker!Tasks : call[t].at \in {"ready", "reply"} => call'[t] = call[t]
    BY <1>4
  <2>2. \A e \in DOMAIN connections : connections'[e] # "closed" => connections[e] # "closed"
    BY <1>1, <1>2
  <2>3. OpenIsAccounted
    BY DEF UsageInv
  <2>4. QED
    BY <1>1, <1>2, <2>1, <2>2, <2>3 DEF OpenIsAccounted, Broker!OpenIsAccounted
<1>10. QED
  BY <1>6, <1>7, <1>8, <1>9 DEF UsageInv

LEMMA GoOnKeepsUsage ==
    ASSUME UsageInv, ChannelTypes, NEW t \in Broker!Tasks, NEW c \in DOMAIN connections,
           call[t].at \in {"lock", "opened"}, call[t].op # "leave", Broker!GoOn(t, c),
           UNCHANGED <<connection, connections, abandoned>>
    PROVE  UsageInv'
<1>1. /\ Fits(t, call[t]) /\ call[t] \in TaskCalls
      /\ block \in [phase : Phases, channel : {0} \cup DOMAIN channels]
      /\ call \in [Broker!Tasks -> TaskCalls]
      /\ abandoned \in [connections : SUBSET Nat, channels : SUBSET Nat]
  BY DEF UsageInv, UsageTypes, Access
<1>2. CASE call[t].op = "enter"
  <2>1. /\ t = "owner" /\ block.phase = "out" /\ block.channel = 0
        /\ block' = [block EXCEPT !.phase = "entered"] /\ UNCHANGED channels
        /\ call' = [call EXCEPT ![t] = Broker!NoCall]
    BY <1>1, <1>2 DEF Broker!GoOn, Broker!Returned, Fits, UsageInv, Access, Broker!Tasks,
       Broker!Administration
  <2>2. block' \in [phase : Phases, channel : {0} \cup DOMAIN channels]
        /\ block'.phase = "entered" /\ block'.channel = 0
    BY <1>1, <2>1 DEF Phases
  <2>3. /\ call'["owner"] = Broker!NoCall /\ call' \in [Broker!Tasks -> TaskCalls]
        /\ call'["helper"] = call["helper"]
    BY <1>1, <2>1, NoCallFits DEF Broker!Tasks
  <2>4. UsageTypes'
    BY <2>1, <2>2, <2>3 DEF UsageInv, UsageTypes
  <2>5. Access'
    <3>1. Fits("owner", call["owner"])' /\ ~Reopening(call["owner"])'
      BY <2>3 DEF Fits, Reopening, Broker!NoCall
    <3>2. Fits("helper", call["helper"])'
      BY <2>1, <2>2, <2>3 DEF UsageInv, Access, Fits, Reopening, Broker!Tasks, Broker!Administration
    <3>3. QED
      BY <2>2, <3>1, <3>2 DEF Access, Broker!Tasks
  <2>6. Awaited'
    BY <2>1, <2>3 DEF UsageInv, Awaited, Broker!Tasks
  <2>7. OpenIsAccounted'
    <3>1. \A u \in Broker!Tasks : call[u].at \in {"ready", "reply"} => call'[u] = call[u]
      BY <2>1, <2>3 DEF Broker!Tasks
    <3>2. OpenIsAccounted
      BY DEF UsageInv
    <3>3. QED
      BY <2>1, <2>2, <3>1, <3>2 DEF OpenIsAccounted, Broker!OpenIsAccounted
  <2>8. QED
    BY <2>4, <2>5, <2>6, <2>7 DEF UsageInv
<1>3. CASE UNCHANGED <<block, channels>> /\ call' = [call EXCEPT ![t] = Broker!NoCall]
  BY <1>1, <1>3, NoCallFits, CallKeepsUsage
<1> PICK new, k : new = Len(channels) + 1 /\ k = [op |-> call[t].op, at |-> "ready", of |-> new]
  OBVIOUS
<1>4. CASE /\ call[t].op # "enter" /\ UNCHANGED block
           /\ channels' = Append(channels, Broker!NewChannel(c))
           /\ call' = [call EXCEPT ![t] = k]
  <2>1. c \in Nat /\ Len(channels) \in Nat
    BY ConnectionsTyped, ChannelsTyped DEF UsageInv
  <2>2. /\ DOMAIN channels' = DOMAIN channels \cup {new}
        /\ new \notin DOMAIN channels
        /\ \A ch \in DOMAIN channels : channels'[ch] = channels[ch]
        /\ channels'[new].state = "opening"
    BY <1>4, <2>1, ChannelAdded
  <2>3. k \in TaskCalls
    BY <1>1, <2>1 DEF TaskCalls
  <2>4. k.op = call[t].op /\ k.at = "ready" /\ k.of = new
    OBVIOUS
  <2>5. Reopening(k) <=> Reopening(call[t])
    BY <2>4 DEF Reopening
  <2>6. /\ call'[t] = k /\ call' \in [Broker!Tasks -> TaskCalls]
        /\ \A u \in Broker!Tasks : u # t => call'[u] = call[u]
    BY <1>1, <1>4, <2>3
  <2>7. UsageTypes'
    BY <1>1, <1>4, <2>2, <2>6 DEF UsageInv, UsageTypes
  <2>8. block.channel # 0 => block.channel \in DOMAIN channels
    BY <1>1
  <2>9. Access'
    <3>1. Fits(t, call[t])'
      <4>1. Fits(t, k)'
        BY <1>1, <1>4, <2>2, <2>4, <2>5, <2>8 DEF Fits, Reopening, UsageInv, Access
      <4>2. QED
        BY <4>1, <2>6 DEF Fits
    <3>2. ASSUME NEW u \in Broker!Tasks, u # t PROVE Fits(u, call[u])'
      <4>1. Fits(u, call[u])
        BY DEF UsageInv, Access
      <4>2. call'[u] = call[u]
        BY <2>6, <3>2
      <4>3. QED
        BY <4>1, <4>2, <1>4, <2>2, <2>8 DEF Fits, Reopening, UsageInv, Access
    <3>3. ~(Reopening(call["owner"]) /\ Reopening(call["helper"]))'
      <4>1. \A u \in Broker!Tasks : Reopening(call[u])' => Reopening(call[u])
        BY <2>5, <2>6 DEF Reopening
      <4>2. QED
        BY <4>1 DEF UsageInv, Access, Broker!Tasks
    <3>4. QED
      BY <1>4, <2>2, <2>8, <3>1, <3>2, <3>3 DEF UsageInv, Access
  <2>10. Awaited'
    BY <1>4, <2>6 DEF UsageInv, Awaited
  <2>11. OpenIsAccounted'
    <3>1. \A u \in Broker!Tasks : call[u].at \in {"ready", "reply"} => call'[u] = call[u]
      BY <2>6
    <3>2. call'[t].at = "ready" /\ call'[t].of = new
      BY <2>4, <2>6
    <3>3. OpenIsAccounted
      BY DEF UsageInv
    <3>4. QED
      BY <1>4, <2>2, <3>1, <3>2, <3>3 DEF OpenIsAccounted, Broker!OpenIsAccounted
  <2>12. QED
    BY <2>7, <2>9, <2>10, <2>11 DEF UsageInv
<1>5. QED
  BY <1>2, <1>3, <1>4 DEF Broker!GoOn, Broker!Returned, Broker!Calling

LEMMA ConnectKeepsUsage ==
    ASSUME UsageInv, ChannelTypes, NEW t \in Broker!Tasks, Broker!Connect(t) PROVE UsageInv'
<1>1. /\ Fits(t, call[t]) /\ call[t] \in TaskCalls /\ call[t].at = "lock" /\ call[t].op # "leave"
      /\ call \in [Broker!Tasks -> TaskCalls] /\ connection \in 0..Len(connections)
      /\ abandoned \in [connections : SUBSET Nat, channels : SUBSET Nat]
      /\ Len(connections) \in Nat /\ DOMAIN connections = 1..Len(connections)
  BY ConnectionsTyped DEF UsageInv, UsageTypes, Access, Broker!Connect
<1>2. CASE /\ connection # 0 /\ Broker!GoOn(t, connection)
           /\ UNCHANGED <<connection, connections, abandoned>>
  <2>1. connection \in DOMAIN connections
    BY <1>1, <1>2
  <2>2. QED
    BY <1>1, <1>2, <2>1, GoOnKeepsUsage
<1>3. PICK new, k :
        new = Len(connections) + 1 /\ k = [op |-> call[t].op, at |-> "connected", of |-> new]
  OBVIOUS
<1>4. CASE /\ connection = 0 \/ connections[connection] # "open"
           /\ connections' = Append(connections, "opening") /\ connection' = new
           /\ call' = [call EXCEPT ![t] = k] /\ UNCHANGED <<channels, block>>
           /\ abandoned' = IF block.phase = "left"
                  THEN [abandoned EXCEPT !.connections = @ \cup {new}] ELSE abandoned
  <2>1. /\ connections' \in Seq(ConnectionStates) /\ Len(connections') = new
        /\ DOMAIN connections' = DOMAIN connections \cup {new} /\ new \notin DOMAIN connections
        /\ \A c \in DOMAIN connections : connections'[c] = connections[c]
        /\ connections'[new] = "opening" /\ new \in Nat
    <3>1. "opening" \in ConnectionStates /\ connections \in Seq(ConnectionStates)
      BY ConnectionsTyped DEF ConnectionStates, UsageInv
    <3>2. /\ connections' \in Seq(ConnectionStates) /\ Len(connections') = new
          /\ \A c \in 1..Len(connections) : connections'[c] = connections[c]
          /\ connections'[new] = "opening"
      BY <3>1, <1>3, <1>4, AppendProperties
    <3>3. DOMAIN connections' = 1..new
      BY <3>2, LenProperties
    <3>4. QED
      BY <3>2, <3>3, <1>1, <1>3
  <2>2. k.op = call[t].op /\ k.at = "connected" /\ k.of = new /\ k \in TaskCalls
    BY <1>1, <1>3, <2>1 DEF TaskCalls
  <2>3. /\ call'[t] = k /\ call' \in [Broker!Tasks -> TaskCalls]
        /\ \A u \in Broker!Tasks : u # t => call'[u] = call[u]
    BY <1>1, <1>4, <2>2
  <2>4. /\ abandoned' \in [connections : SUBSET Nat, channels : SUBSET Nat]
        /\ abandoned.connections \subseteq abandoned'.connections
        /\ abandoned'.channels = abandoned.channels
        /\ block.phase = "left" => new \in abandoned'.connections
    BY <1>1, <1>4, <2>1
  <2>5. UsageTypes'
    <3>1. connection' \in 0..Len(connections')
      BY <1>4, <2>1
    <3>2. QED
      BY <3>1, <1>4, <2>1, <2>3, <2>4 DEF UsageInv, UsageTypes
  <2>6. Access'
    <3>1. Fits(t, call[t])'
      <4>1. Fits(t, k)'
        BY <1>1, <1>4, <2>1, <2>2 DEF Fits, Reopening
      <4>2. QED
        BY <4>1, <2>3 DEF Fits
    <3>2. ASSUME NEW u \in Broker!Tasks, u # t PROVE Fits(u, call[u])'
      <4>1. Fits(u, call[u])
        BY DEF UsageInv, Access
      <4>2. call'[u] = call[u]
        BY <2>3, <3>2
      <4>3. QED
        BY <4>1, <4>2, <1>4, <2>1 DEF Fits, Reopening
    <3>3. ~(Reopening(call["owner"]) /\ Reopening(call["helper"]))'
      <4>1. \A u \in Broker!Tasks : Reopening(call[u])' => Reopening(call[u])
        BY <1>1, <2>2, <2>3 DEF Reopening
      <4>2. QED
        BY <4>1 DEF UsageInv, Access, Broker!Tasks
    <3>4. QED
      BY <1>4, <3>1, <3>2, <3>3 DEF UsageInv, Access
  <2>7. \A c \in DOMAIN connections : connections[c] = "opening" => c \in abandoned.connections
    <3>1. \A u \in Broker!Tasks : call[u].at # "connected"
      BY DEF Broker!Connect, Broker!LockFree
    <3>2. QED
      BY <3>1 DEF UsageInv, Awaited
  <2>8. Awaited'
    BY <2>1, <2>2, <2>3, <2>4, <2>7 DEF Awaited
  <2>9. OpenIsAccounted'
    <3>1. OpenIsAccounted
      BY DEF UsageInv
    <3>2. ASSUME NEW c \in DOMAIN connections, connections[c] # "closed"
          PROVE  c \in abandoned.connections
      <4>1. CASE c = connection
        <5>1. connections[c] = "opening"
          BY <4>1, <3>2, <1>1, <1>4, ConnectionsTyped DEF ConnectionStates, UsageInv
        <5>2. QED
          BY <5>1, <2>7
      <4>2. QED
        BY <4>1, <3>1, <3>2 DEF OpenIsAccounted, Broker!OpenIsAccounted
    <3>3. \A u \in Broker!Tasks : call[u].at \in {"ready", "reply"} => call'[u] = call[u]
      BY <1>1, <2>3
    <3>4. QED
      BY <1>4, <2>1, <2>4, <3>1, <3>2, <3>3 DEF OpenIsAccounted, Broker!OpenIsAccounted
  <2>10. QED
    BY <2>5, <2>6, <2>8, <2>9 DEF UsageInv
<1>5. QED
  BY <1>2, <1>3, <1>4 DEF Broker!Connect, Broker!Calling

LEMMA ConnectedKeepsUsage ==
    ASSUME UsageInv, ChannelTypes, NEW t \in Broker!Tasks, Broker!Connected(t) PROVE UsageInv'
<1>1. /\ call[t].at = "opened" /\ Broker!GoOn(t, call[t].of)
      /\ UNCHANGED <<connection, connections, abandoned>>
  BY DEF Broker!Connected, Broker!historyVars
<1>2. call[t].of \in DOMAIN connections /\ call[t].op # "leave"
  BY <1>1 DEF UsageInv, Access, Fits
<1>3. QED
  BY <1>1, <1>2, GoOnKeepsUsage

LEMMA LeaveQueueKeepsUsage ==
    ASSUME UsageInv, ChannelTypes, Broker!LeaveQueue PROVE UsageInv'
<1>1. /\ block.phase = "in" /\ call["owner"] = Broker!NoCall /\ block.channel # 0
      /\ block' = [block EXCEPT !.phase = "done"] /\ block.channel \in DOMAIN channels
      /\ block \in [phase : Phases, channel : {0} \cup DOMAIN channels]
      /\ UNCHANGED <<connection, connections, call>>
  BY DEF Broker!LeaveQueue, UsageInv, UsageTypes, Access
<1>2. /\ DOMAIN channels' = DOMAIN channels
      /\ \A ch \in DOMAIN channels : channels'[ch].state \in {channels[ch].state, "closed"}
      /\ abandoned' \in [connections : SUBSET Nat, channels : SUBSET Nat]
      /\ abandoned'.connections = abandoned.connections
      /\ abandoned.channels \subseteq abandoned'.channels
      /\ channels'[block.channel].state = "closed" \/ block.channel \in abandoned'.channels
  <2>1. abandoned \in [connections : SUBSET Nat, channels : SUBSET Nat]
    BY DEF UsageInv, UsageTypes
  <2>2. block.channel \in Nat
    BY <1>1, ChannelsTyped
  <2>3. CASE /\ Broker!Closed(IF Broker!ChannelOpen(block.channel) THEN {block.channel} ELSE {})
             /\ UNCHANGED abandoned
    <3>1. PICK chs : /\ Broker!Closed(chs)
                     /\ chs = IF Broker!ChannelOpen(block.channel) THEN {block.channel} ELSE {}
      BY <2>3
    <3>2. /\ DOMAIN channels' = DOMAIN channels
          /\ \A ch \in DOMAIN channels :
               /\ ch \in chs => channels'[ch].state = "closed"
               /\ ch \notin chs => channels'[ch] = channels[ch]
      BY <3>1, ChannelsClosed
    <3>3. block.channel \notin chs => channels[block.channel].state = "closed"
      BY <1>1, <3>1 DEF Broker!ChannelOpen, UsageInv, Access
    <3>4. QED
      BY <1>1, <2>1, <2>3, <3>2, <3>3
  <2>4. CASE /\ abandoned' = [abandoned EXCEPT !.channels = @ \cup {block.channel}]
             /\ UNCHANGED channels
    BY <1>1, <2>1, <2>2, <2>4
  <2>5. QED
    BY <2>3, <2>4 DEF Broker!LeaveQueue
<1>3. /\ block'.phase = "done" /\ block'.channel = block.channel
      /\ block' \in [phase : Phases, channel : {0} \cup DOMAIN channels]
  BY <1>1 DEF Phases
<1>4. UsageTypes'
  BY <1>1, <1>2, <1>3 DEF UsageInv, UsageTypes
<1>5. Access'
  <2>1. Fits("owner", call["owner"])'
    BY <1>1 DEF Fits, Reopening, Broker!NoCall
  <2>2. Fits("helper", call["helper"])'
    <3>1. Fits("helper", call["helper"])
      BY DEF UsageInv, Access, Broker!Tasks
    <3>2. QED
      BY <3>1, <1>1, <1>2, <1>3 DEF Fits, Reopening, Broker!Administration
  <2>3. ~(Reopening(call["owner"]) /\ Reopening(call["helper"]))'
    BY <1>1 DEF Reopening, Broker!NoCall
  <2>4. QED
    BY <1>1, <1>2, <1>3, <2>1, <2>2, <2>3 DEF UsageInv, Access, Broker!Tasks
<1>6. Awaited'
  BY <1>1, <1>2 DEF UsageInv, Awaited
<1>7. OpenIsAccounted'
  <2>1. OpenIsAccounted
    BY DEF UsageInv
  <2>2. QED
    BY <2>1, <1>1, <1>2, <1>3 DEF OpenIsAccounted, Broker!OpenIsAccounted
<1>8. QED
  BY <1>4, <1>5, <1>6, <1>7 DEF UsageInv

\* The client is left: its connection is closed, or given up.
LEMMA LeavingKeepsUsage ==
    ASSUME UsageInv, ChannelTypes,
           block.phase \in {"entered", "done"}, block' = [block EXCEPT !.phase = "left"],
           call["owner"].at \in {"idle", "lock"}, call' = [call EXCEPT !["owner"] = Broker!NoCall],
           connections' \in Seq(ConnectionStates), Len(connections') = Len(connections),
           \A c \in DOMAIN connections : connections'[c] \in {connections[c], "closed"},
           connection' \in {0, connection},
           connection # 0 => \/ connections'[connection] = "closed"
                             \/ connection \in abandoned'.connections,
           DOMAIN channels' = DOMAIN channels,
           \A ch \in DOMAIN channels : channels'[ch].state \in {channels[ch].state, "closed"},
           abandoned' \in [connections : SUBSET Nat, channels : SUBSET Nat],
           abandoned.connections \subseteq abandoned'.connections,
           abandoned.channels = abandoned'.channels
    PROVE  UsageInv'
<1>1. /\ block \in [phase : Phases, channel : {0} \cup DOMAIN channels]
      /\ call \in [Broker!Tasks -> TaskCalls]
      /\ DOMAIN connections' = DOMAIN connections
  BY ConnectionsTyped, LenProperties DEF UsageInv, UsageTypes
<1>2. /\ call'["owner"] = Broker!NoCall /\ call' \in [Broker!Tasks -> TaskCalls]
      /\ call'["helper"] = call["helper"]
  BY <1>1, NoCallFits DEF Broker!Tasks
<1>3. /\ block'.phase = "left" /\ block'.channel = block.channel
      /\ block' \in [phase : Phases, channel : {0} \cup DOMAIN channels]
      /\ block.channel # 0 => block.channel \in DOMAIN channels
  BY <1>1 DEF Phases
<1>4. UsageTypes'
  <2>1. connection' \in 0..Len(connections')
    BY ConnectionsTyped DEF UsageInv, UsageTypes
  <2>2. QED
    BY <2>1, <1>2, <1>3 DEF UsageInv, UsageTypes
<1>5. Access'
  <2>1. Fits("owner", call["owner"])'
    BY <1>2 DEF Fits, Reopening, Broker!NoCall
  <2>2. Fits("helper", call["helper"])'
    <3>1. Fits("helper", call["helper"])
      BY DEF UsageInv, Access, Broker!Tasks
    <3>2. QED
      BY <3>1, <1>1, <1>2, <1>3 DEF Fits, Reopening, Broker!Administration
  <2>3. ~Reopening(call["owner"])'
    BY <1>2 DEF Reopening, Broker!NoCall
  <2>4. block'.channel # 0 => channels'[block'.channel].state \in {"open", "closed"}
    BY <1>3 DEF UsageInv, Access
  <2>5. QED
    BY <1>3, <2>1, <2>2, <2>3, <2>4 DEF UsageInv, Access, Broker!Tasks
<1>6. \A t \in Broker!Tasks : call[t].at \in {"connected", "ready", "reply"} => call'[t] = call[t]
  BY <1>2 DEF Broker!Tasks
<1>7. Awaited'
  <2>1. Awaited
    BY DEF UsageInv
  <2>2. QED
    BY <1>1, <1>6, <2>1 DEF Awaited
<1>8. OpenIsAccounted'
  <2>1. OpenIsAccounted
    BY DEF UsageInv
  <2>2. \A c \in DOMAIN connections : connections'[c] # "closed" =>
            /\ connections[c] # "closed"
            /\ c # connection \/ c \in abandoned'.connections
    <3>1. ASSUME NEW c \in DOMAIN connections, connections'[c] # "closed"
          PROVE  connections[c] # "closed" /\ (c # connection \/ c \in abandoned'.connections)
      <4>1. c # 0
        BY ConnectionsTyped DEF UsageInv
      <4>2. QED
        BY <3>1, <4>1
    <3>2. QED
      BY <3>1
  <2>3. QED
    BY <2>1, <2>2, <1>1, <1>3, <1>6 DEF OpenIsAccounted, Broker!OpenIsAccounted
<1>9. QED
  BY <1>4, <1>5, <1>7, <1>8 DEF UsageInv

\* What closing the connection does.
LEMMA Disconnected ==
    ASSUME UsageInv, ChannelTypes, Broker!Disconnect
    PROVE  /\ block' = [block EXCEPT !.phase = "left"]
           /\ connections' \in Seq(ConnectionStates) /\ Len(connections') = Len(connections)
           /\ \A c \in DOMAIN connections : connections'[c] \in {connections[c], "closed"}
           /\ connection # 0 => connections'[connection] = "closed"
           /\ connection' \in {0, connection}
           /\ DOMAIN channels' = DOMAIN channels
           /\ \A ch \in DOMAIN channels : channels'[ch].state \in {channels[ch].state, "closed"}
<1>1. block' = [block EXCEPT !.phase = "left"]
  BY DEF Broker!Disconnect
<1>2. CASE /\ connection # 0 /\ connection' = 0
           /\ connections' = [connections EXCEPT ![connection] = "closed"]
           /\ Broker!Closed(Broker!ChannelsOf(connection))
  <2>1. connection \in DOMAIN connections
    BY <1>2, ConnectionsTyped DEF UsageInv, UsageTypes
  <2>2. /\ connections' \in Seq(ConnectionStates) /\ Len(connections') = Len(connections)
        /\ connections'[connection] = "closed"
        /\ \A e \in DOMAIN connections : e # connection => connections'[e] = connections[e]
    BY <1>2, <2>1, ConnectionSet DEF ConnectionStates, UsageInv
  <2>3. /\ DOMAIN channels' = DOMAIN channels
        /\ \A ch \in DOMAIN channels : channels'[ch].state \in {channels[ch].state, "closed"}
    BY <1>2, ChannelsClosed
  <2>4. QED
    BY <1>1, <1>2, <2>2, <2>3
<1>3. CASE /\ connection # 0 => connections[connection] = "closed"
           /\ UNCHANGED <<connection, connections, channels>>
  BY <1>1, <1>3, ConnectionsTyped DEF UsageInv
<1>4. QED
  BY <1>2, <1>3 DEF Broker!Disconnect, Broker!brokerVars

LEMMA LeaveClientKeepsUsage ==
    ASSUME UsageInv, ChannelTypes, Broker!LeaveClient PROVE UsageInv'
<1>1. /\ block.phase \in {"entered", "done"} /\ call["owner"] = Broker!NoCall
      /\ UNCHANGED abandoned /\ "owner" \in Broker!Tasks
      /\ abandoned \in [connections : SUBSET Nat, channels : SUBSET Nat]
      /\ call \in [Broker!Tasks -> TaskCalls]
  BY DEF Broker!LeaveClient, Broker!historyVars, Broker!Tasks, UsageInv, UsageTypes
<1>2. CASE Broker!Disconnect /\ UNCHANGED call
  <2>1. call["owner"].at = "idle" /\ call' = [call EXCEPT !["owner"] = Broker!NoCall]
    BY <1>1, <1>2 DEF Broker!NoCall
  <2>2. QED
    BY <1>1, <1>2, <2>1, Disconnected, LeavingKeepsUsage
<1>3. CASE /\ call' = [call EXCEPT !["owner"] = [op |-> "leave", at |-> "lock", of |-> 0]]
           /\ UNCHANGED <<connection, connections, channels, block>>
  <2> DEFINE k == [op |-> "leave", at |-> "lock", of |-> 0]
  <2>1. k \in TaskCalls /\ Fits("owner", k) /\ ~Reopening(k)
    BY <1>1 DEF TaskCalls, Fits, Reopening
  <2>2. call["owner"].at = "idle"
    BY <1>1 DEF Broker!NoCall
  <2> HIDE DEF k
  <2>3. call' = [call EXCEPT !["owner"] = k]
    BY <1>3 DEF k
  <2>4. QED
    BY <1>1, <1>3, <2>1, <2>2, <2>3, CallKeepsUsage
<1>4. QED
  BY <1>2, <1>3 DEF Broker!LeaveClient, Broker!Calling, Broker!brokerVars

LEMMA LeftKeepsUsage ==
    ASSUME UsageInv, ChannelTypes, Broker!Left PROVE UsageInv'
<1>1. /\ call["owner"].op = "leave" /\ Broker!Disconnect
      /\ call' = [call EXCEPT !["owner"] = Broker!NoCall] /\ UNCHANGED abandoned
      /\ abandoned \in [connections : SUBSET Nat, channels : SUBSET Nat]
  BY DEF Broker!Left, Broker!Returned, Broker!historyVars, UsageInv, UsageTypes
<1>2. Fits("owner", call["owner"])
  BY DEF UsageInv, Access, Broker!Tasks
<1>3. block.phase \in {"entered", "done"} /\ call["owner"].at = "lock"
  BY <1>1, <1>2 DEF Fits
<1>4. QED
  BY <1>1, <1>3, Disconnected, LeavingKeepsUsage

LEMMA InterruptKeepsUsage ==
    ASSUME UsageInv, ChannelTypes, NEW t \in Broker!Tasks, Broker!Interrupt(t) PROVE UsageInv'
<1>1. /\ call' = [call EXCEPT ![t] = Broker!NoCall] /\ call[t].of \in Nat
      /\ UNCHANGED <<connection, connections, channels>>
  BY DEF Broker!Interrupt, Broker!Returned, Broker!brokerVars, UsageInv, UsageTypes, TaskCalls
<1>2. CASE call[t].op # "leave"
  <2>1. UNCHANGED block
    BY <1>2 DEF Broker!Interrupt
  <2>2. /\ abandoned' \in [connections : SUBSET Nat, channels : SUBSET Nat]
        /\ abandoned.connections \subseteq abandoned'.connections
        /\ abandoned.channels \subseteq abandoned'.channels
        /\ call[t].at = "connected" => call[t].of \in abandoned'.connections
        /\ call[t].at \in {"ready", "reply"} => call[t].of \in abandoned'.channels
    BY <1>1, <1>2 DEF Broker!Interrupt, UsageInv, UsageTypes
  <2>3. QED
    BY <1>1, <2>1, <2>2, NoCallFits, CallKeepsUsage
<1>3. CASE call[t].op = "leave"
  <2>1. Fits(t, call[t]) /\ connection \in Nat
    BY ConnectionsTyped DEF UsageInv, UsageTypes, Access
  <2>2. t = "owner" /\ block.phase \in {"entered", "done"} /\ call["owner"].at = "lock"
    BY <1>3, <2>1 DEF Fits, Broker!Tasks, Broker!Administration
  <2>3. /\ block' = [block EXCEPT !.phase = "left"]
        /\ abandoned' = [abandoned EXCEPT !.connections = @ \cup {connection}]
    BY <1>3 DEF Broker!Interrupt
  <2>4. /\ abandoned' \in [connections : SUBSET Nat, channels : SUBSET Nat]
        /\ abandoned.connections \subseteq abandoned'.connections
        /\ abandoned.channels = abandoned'.channels
        /\ connection \in abandoned'.connections
    BY <2>1, <2>3 DEF UsageInv, UsageTypes
  <2>5. \A c \in DOMAIN connections : connections'[c] \in {connections[c], "closed"}
    BY <1>1
  <2>6. QED
    BY <1>1, <2>2, <2>3, <2>4, <2>5, ConnectionsTyped, LeavingKeepsUsage DEF UsageInv
<1>4. QED
  BY <1>2, <1>3

LEMMA ReadyKeepsUsage ==
    ASSUME UsageInv, ChannelTypes, NEW ch \in DOMAIN channels, Broker!Ready(ch) PROVE UsageInv'
<1>1. /\ channels[ch].state = "opening" /\ ch # 0 /\ ch \in Nat
      /\ UNCHANGED <<connection, connections>>
      /\ block \in [phase : Phases, channel : {0} \cup DOMAIN channels]
      /\ call \in [Broker!Tasks -> TaskCalls]
      /\ abandoned \in [connections : SUBSET Nat, channels : SUBSET Nat]
      /\ OpenIsAccounted
  BY ChannelsTyped DEF Broker!Ready, UsageInv, UsageTypes
<1>2. /\ DOMAIN channels' = DOMAIN channels /\ channels'[ch].state = "open"
      /\ \A b \in DOMAIN channels : b # ch => channels'[b] = channels[b]
  BY ReadyChannel
<1>3. /\ block.channel # ch
      /\ block.channel # 0 => block.channel \in DOMAIN channels
  BY <1>1 DEF UsageInv, Access
<1>4. CASE UNCHANGED <<block, call, abandoned>>
  <2>1. UsageTypes'
    BY <1>1, <1>2, <1>4 DEF UsageInv, UsageTypes
  <2>2. Access'
    <3>1. \A t \in Broker!Tasks : Fits(t, call[t])'
      BY <1>1, <1>2, <1>3, <1>4 DEF UsageInv, Access, Fits, Reopening
    <3>2. QED
      BY <3>1, <1>1, <1>2, <1>3, <1>4 DEF UsageInv, Access, Reopening
  <2>3. Awaited'
    BY <1>1, <1>4 DEF UsageInv, Awaited
  <2>4. OpenIsAccounted'
    BY <1>1, <1>2, <1>4 DEF OpenIsAccounted, Broker!OpenIsAccounted
  <2>5. QED
    BY <2>1, <2>2, <2>3, <2>4 DEF UsageInv
<1>5. CASE \E t \in Broker!Tasks : call[t].at = "ready" /\ call[t].of = ch
  <2>1. PICK t \in Broker!Tasks :
          /\ call[t].at = "ready" /\ call[t].of = ch
          /\ IF call[t].op \in Broker!Administration
             THEN /\ call' = [call EXCEPT ![t] = [op |-> call[t].op, at |-> "reply", of |-> ch]]
                  /\ UNCHANGED <<block, abandoned>>
             ELSE /\ call' = [call EXCEPT ![t] = Broker!NoCall]
                  /\ block' = [phase |-> IF call[t].op = "queue" THEN "in" ELSE block.phase,
                               channel |-> ch]
                  /\ abandoned' = IF block.phase \in {"done", "left"}
                         THEN [abandoned EXCEPT !.channels = @ \cup {ch}] ELSE abandoned
    <3> DEFINE u == CHOOSE t \in Broker!Tasks : call[t].at = "ready" /\ call[t].of = ch
    <3>1. u \in Broker!Tasks /\ call[u].at = "ready" /\ call[u].of = ch
      BY <1>5
    <3>2. IF call[u].op \in Broker!Administration
          THEN /\ call' = [call EXCEPT ![u] = [op |-> call[u].op, at |-> "reply", of |-> ch]]
               /\ UNCHANGED <<block, abandoned>>
          ELSE /\ call' = [call EXCEPT ![u] = Broker!NoCall]
               /\ block' = [phase |-> IF call[u].op = "queue" THEN "in" ELSE block.phase,
                            channel |-> ch]
               /\ abandoned' = IF block.phase \in {"done", "left"}
                      THEN [abandoned EXCEPT !.channels = @ \cup {ch}] ELSE abandoned
      BY <1>5 DEF Broker!Ready, Broker!Calling, Broker!Returned
    <3> HIDE DEF u
    <3>3. QED
      BY <3>1, <3>2
  <2>2. Fits(t, call[t])
    BY DEF UsageInv, Access
  <2>3. PICK k \in TaskCalls :
          /\ call' = [call EXCEPT ![t] = k]
          /\ k = IF call[t].op \in Broker!Administration
                 THEN [op |-> call[t].op, at |-> "reply", of |-> ch] ELSE Broker!NoCall
    <3>1. [op |-> call[t].op, at |-> "reply", of |-> ch] \in TaskCalls
      BY <1>1 DEF TaskCalls
    <3>2. QED
      BY <2>1, <3>1, NoCallFits
  <2>4. /\ call'[t] = k /\ call' \in [Broker!Tasks -> TaskCalls] /\ ~Reopening(k)
        /\ \A u \in Broker!Tasks : u # t => call'[u] = call[u]
    BY <1>1, <2>3 DEF Reopening, Broker!NoCall
  <2>5. /\ block' \in [phase : Phases, channel : {0} \cup DOMAIN channels]
        /\ abandoned' \in [connections : SUBSET Nat, channels : SUBSET Nat]
        /\ abandoned.connections = abandoned'.connections
        /\ abandoned.channels \subseteq abandoned'.channels
    BY <1>1, <2>1 DEF Phases
  <2>6. UsageTypes'
    BY <1>1, <1>2, <2>4, <2>5 DEF UsageInv, UsageTypes
  <2>7. Awaited'
    <3>1. \A u \in Broker!Tasks : call[u].at = "connected" => call'[u] = call[u]
      BY <2>1, <2>4
    <3>2. QED
      BY <3>1, <1>1, <2>5 DEF UsageInv, Awaited
  <2>8. \A u \in Broker!Tasks : call[u].at \in {"ready", "reply"} /\ call[u].of # ch =>
            call'[u] = call[u]
    BY <2>1, <2>4
  <2>9. CASE call[t].op \in Broker!Administration
    <3>1. k.op = call[t].op /\ k.at = "reply" /\ k.of = ch /\ UNCHANGED <<block, abandoned>>
      BY <2>1, <2>3, <2>9
    <3>2. Access'
      <4>1. ASSUME NEW u \in Broker!Tasks PROVE Fits(u, call[u])'
        <5>1. CASE u = t
          BY <5>1, <2>2, <2>4, <2>9, <3>1, <1>2 DEF Fits, Reopening, Broker!Administration
        <5>2. CASE u # t
          BY <5>2, <1>1, <1>2, <1>3, <2>4, <3>1 DEF UsageInv, Access, Fits, Reopening
        <5>3. QED
          BY <5>1, <5>2
      <4>2. ~(Reopening(call["owner"]) /\ Reopening(call["helper"]))'
        BY <2>4 DEF Reopening, UsageInv, Access, Broker!Tasks
      <4>3. QED
        BY <4>1, <4>2, <1>1, <1>2, <1>3, <3>1 DEF UsageInv, Access
    <3>3. OpenIsAccounted'
      BY <1>1, <1>2, <2>4, <2>8, <3>1 DEF OpenIsAccounted, Broker!OpenIsAccounted
    <3>4. QED
      BY <2>6, <2>7, <3>2, <3>3 DEF UsageInv
  <2>10. CASE call[t].op \notin Broker!Administration
    <3>1. /\ k = Broker!NoCall /\ block'.channel = ch
          /\ block'.phase = IF call[t].op = "queue" THEN "in" ELSE block.phase
          /\ block.phase \in {"done", "left"} => ch \in abandoned'.channels
      BY <2>1, <2>3, <2>10, <1>1
    <3>2. /\ call[t].op \in {"queue", "publish", "consume"}
          /\ call[t].op = "queue" =>
                 t = "owner" /\ block.phase = "entered" /\ block.channel = 0
          /\ call[t].op # "queue" =>
                 /\ Reopening(call[t]) /\ block.channel # 0
                 /\ channels[block.channel].state = "closed"
                 /\ block.phase \in {"in", "done", "left"}
      <4>1. block.phase \in Phases /\ call[t].op \in {"queue", "publish", "consume"}
        BY <1>1, <2>1, <2>2, <2>10 DEF Fits, Broker!Tasks, TaskCalls, Broker!Administration
      <4>2. call[t].op = "queue" => t = "owner" /\ block.phase = "entered" /\ block.channel = 0
        BY <2>2 DEF Fits, UsageInv, Access, Broker!Tasks, Broker!Administration
      <4>3. call[t].op # "queue" => Reopening(call[t]) /\ block.channel # 0
        BY <2>1, <2>2, <4>1 DEF Fits, Reopening, UsageInv, Access
      <4>4. QED
        BY <4>1, <4>2, <4>3, <2>2 DEF Fits, Phases, UsageInv, Access
    <3>3. \A u \in Broker!Tasks : u # t => ~Reopening(call[u])
      <4>1. ASSUME NEW u \in Broker!Tasks, u # t, Reopening(call[u]), call[t].op = "queue"
            PROVE  FALSE
        <5>1. u = "helper" /\ Fits(u, call[u])
          BY <3>2, <4>1 DEF Broker!Tasks, UsageInv, Access
        <5>2. QED
          BY <5>1, <3>2, <4>1 DEF Fits, Reopening
      <4>2. QED
        BY <4>1, <3>2 DEF UsageInv, Access, Broker!Tasks
    <3>4. Access'
      <4>1. ASSUME NEW u \in Broker!Tasks PROVE Fits(u, call[u])'
        <5>1. CASE u = t
          BY <5>1, <2>4, <3>1 DEF Fits, Reopening, Broker!NoCall
        <5>2. CASE u # t
          <6>1. Fits(u, call[u]) /\ ~Reopening(call[u]) /\ call'[u] = call[u]
            BY <5>2, <2>4, <3>3 DEF UsageInv, Access
          <6>2. /\ call[u].op = "enter" => block.phase = "out"
                /\ call[u].op = "queue" => block.phase = "entered" /\ u = "owner"
                /\ call[u].op = "leave" => block.phase \in {"entered", "done"} /\ u = "owner"
                /\ call[u].op = "consume" => block.phase = "in"
            BY <6>1 DEF Fits, Broker!Tasks, Broker!Administration
          <6>3. /\ call[u].op = "enter" => block'.phase = "out"
                /\ call[u].op = "queue" => block'.phase = "entered"
                /\ call[u].op = "leave" => block'.phase \in {"entered", "done"}
                /\ call[u].op = "consume" => block'.phase = "in"
            BY <6>2, <5>2, <3>1, <3>2
          <6>4. QED
            BY <6>1, <6>3, <1>1, <1>2, <3>1 DEF Fits, Reopening
        <5>3. QED
          BY <5>1, <5>2
      <4>2. ~(Reopening(call["owner"]) /\ Reopening(call["helper"]))'
        BY <2>4, <3>1 DEF Reopening, Broker!Tasks
      <4>3. QED
        BY <4>1, <4>2, <1>1, <1>2, <3>1, <3>2 DEF Access
    <3>5. OpenIsAccounted'
      <4>1. \/ ch \in abandoned'.channels
            \/ block'.channel = ch /\ block'.phase = "in"
        BY <3>1, <3>2
      <4>2. block.channel # 0 => channels[block.channel].state = "closed"
        BY <3>2
      <4>3. block'.phase = "left" <=> block.phase = "left"
        BY <3>1, <3>2
      <4>4. ASSUME NEW b \in DOMAIN channels, b # ch, channels[b].state # "closed"
            PROVE  \/ b \in abandoned.channels
                   \/ \E u \in Broker!Tasks : call[u].at \in {"ready", "reply"} /\ call[u].of = b
        <5>1. b # 0
          BY ChannelsTyped
        <5>2. QED
          BY <4>2, <4>4, <5>1, <1>1 DEF OpenIsAccounted, Broker!OpenIsAccounted
      <4>5. QED
        BY <4>1, <4>3, <4>4, <1>1, <1>2, <2>5, <2>8 DEF OpenIsAccounted, Broker!OpenIsAccounted
    <3>6. QED
      BY <2>6, <2>7, <3>4, <3>5 DEF UsageInv
  <2>11. QED
    BY <2>9, <2>10
<1>6. QED
  BY <1>4, <1>5 DEF Broker!Ready

LEMMA BrokerKept == BrokerInv /\ [Broker!Next]_mqVars => BrokerInv'
<1> SUFFICES ASSUME BrokerInv, [Broker!Next]_mqVars PROVE BrokerInv'
  OBVIOUS
<1>1. DeliveryInv /\ UsageInv /\ ChannelTypes
  BY DEF BrokerInv, DeliveryInv
<1>2. CASE Broker!Next
  <2>1. DeliveryInv'
    BY <1>2, DeliveryKept
  <2>2. UsageInv'
    BY <1>1, <1>2, OpensKeepsUsage, LossesKeepUsage, ReadyKeepsUsage, MessagesKeepUsage,
       ConnectKeepsUsage, ConnectedKeepsUsage, InterruptKeepsUsage, ReopenKeepsUsage,
       CallsKeepUsage, AdministeredKeepsUsage, UseKeepsUsage, LeaveQueueKeepsUsage,
       LeaveClientKeepsUsage, LeftKeepsUsage DEF Broker!Next
  <2>3. QED
    BY <2>1, <2>2 DEF BrokerInv
<1>3. CASE UNCHANGED mqVars
  <2>1. /\ UNCHANGED <<connection, connections, channels, block, call, abandoned>>
        /\ UNCHANGED <<consuming, held, buffer, gone, released, purged>>
    BY <1>3 DEF mqVars
  <2>2. DeliveryInv' /\ UsageInv'
    BY <1>1, <2>1, DoneKeepsDeliveries, UnusedKeepsUsage
  <2>3. QED
    BY <2>2 DEF BrokerInv
<1>4. QED
  BY <1>2, <1>3

LEMMA BrokerBegins == Broker!Init => BrokerInv
<1> SUFFICES ASSUME Broker!Init PROVE BrokerInv
  OBVIOUS
<1>1. /\ connection = 0 /\ connections = <<>> /\ channels = <<>> /\ consuming = {}
      /\ buffer = <<>> /\ held = {} /\ gone = {} /\ released = {} /\ purged = {}
      /\ block = [phase |-> "out", channel |-> 0]
      /\ call = [t \in Broker!Tasks |-> Broker!NoCall]
      /\ abandoned = [connections |-> {}, channels |-> {}]
  BY DEF Broker!Init
<1>2. Len(connections) = 0 /\ DOMAIN connections = {} /\ DOMAIN channels = {} /\ DOMAIN buffer = {}
  BY <1>1
<1>3. ChannelTypes /\ BufferTypes
  <2>1. channels \in Seq(ChannelRecords({})) /\ buffer \in Seq({})
    BY <1>1, EmptySeq
  <2>2. QED
    BY <2>1 DEF ChannelTypes, BufferTypes
<1>4. DeliveryInv
  <2>1. Tags
    BY <1>1, <1>2 DEF Tags, Buffered
  <2>2. QED
    BY <1>1, <1>3, <2>1 DEF DeliveryInv
<1>5. \A t \in Broker!Tasks : call[t] = Broker!NoCall
  BY <1>1
<1>6. UsageTypes
  <2>1. connections \in Seq(ConnectionStates)
    BY <1>1, EmptySeq
  <2>2. call \in [Broker!Tasks -> TaskCalls]
    BY <1>1, NoCallFits DEF TaskCalls, Broker!NoCall
  <2>3. QED
    BY <1>1, <1>2, <2>1, <2>2 DEF UsageTypes, Phases
<1>7. Access
  BY <1>1, <1>5, NoCallFits DEF Access, Broker!Tasks
<1>8. Awaited /\ OpenIsAccounted
  BY <1>2 DEF Awaited, OpenIsAccounted, Broker!OpenIsAccounted
<1>9. QED
  BY <1>4, <1>6, <1>7, <1>8 DEF BrokerInv, UsageInv

LEMMA BrokerInvHolds == ServicesSpec => []BrokerInv
<1>1. ServicesInit => BrokerInv
  BY BrokerBegins DEF ServicesInit
<1>2. [ServicesNext]_allVars => [Broker!Next]_mqVars
  BY DEF ServicesNext, allVars, mqVars
<1>3. QED
  BY <1>1, <1>2, BrokerKept, PTL DEF ServicesSpec

\* Whatever connections and channels are lost, opened again and given up, the
\* broker drops no message that the consumer did not acknowledge, refuse for
\* good or fail to decode, and that was not in the queue when it was purged
\* (rabbitmq/connection.py).
THEOREM MessagesAreKept == ServicesSpec => []NoMessageLost
<1>1. BrokerInv => NoMessageLost
  BY DEF BrokerInv, DeliveryInv, NoMessageLost, Broker!NoMessageLost
<1>2. QED
  BY <1>1, BrokerInvHolds, PTL

\* However opening, using and leaving overlap with each other, with losses and
\* with interruptions, of a task that waits to close the connection too, what
\* stays open at the broker is in use, is about to be, or was given up
\* (rabbitmq/connection.py).
THEOREM OpenIsUsedOrGivenUp == ServicesSpec => []OpenIsAccounted
<1>1. BrokerInv => OpenIsAccounted
  BY DEF BrokerInv, UsageInv
<1>2. QED
  BY <1>1, BrokerInvHolds, PTL
-----------------------------------------------------------------------------
(* Scope trees: for every set of scopes.                                   *)

StoreRecords == [nested : SUBSET Scopes, exited : BOOLEAN, completed : BOOLEAN]
ScopeRecords == [phase : {"new", "entered", "left", "refused"}, parent : Scopes \cup {"none"}]
Joined == {s \in Scopes : scope[s].phase \in {"entered", "left"}}

TreeTypes ==
    /\ DOMAIN stores \subseteq Scopes /\ stores \in [DOMAIN stores -> StoreRecords]
    /\ scope \in [Scopes -> ScopeRecords]
    /\ IF root = "none" THEN DOMAIN stores = {} ELSE root \in DOMAIN stores \cap Joined

\* What is nested in a scope is a tree beneath it; who is open is known.
Nesting ==
    /\ \A s \in Scopes : scope[s].phase = "entered" => s \in DOMAIN stores
    /\ \A r \in DOMAIN stores :
        /\ scope[r].phase # "new"
        /\ scope[r].phase = "left" <=> stores[r].exited
        /\ stores[r].completed => stores[r].exited
        /\ \A n \in stores[r].nested :
               n \in DOMAIN stores \cap Joined /\ n # root /\ scope[n].parent = r

NestedIn(tree) == \A r \in tree : stores[r].nested \subseteq tree

\* Every scope that was let in is beneath the root.
Reached ==
    \A tree \in SUBSET DOMAIN stores :
        root \in tree /\ NestedIn(tree) => DOMAIN stores \cap Joined \subseteq tree

\* No scope is beneath itself.
Acyclic ==
    \A some \in SUBSET DOMAIN stores :
        some # {} => \E r \in some : stores[r].nested \cap some = {}

\* A scope is complete as soon as it can be, and the root is not.
Prompt ==
    /\ \A r \in DOMAIN stores : stores[r].completed =>
           \A n \in stores[r].nested : stores[n].completed
    /\ \A r \in DOMAIN stores :
           stores[r].exited /\ (\A n \in stores[r].nested : stores[n].completed) =>
               stores[r].completed
    /\ root # "none" => ~stores[root].completed

TreeInv == second = {} => TreeTypes /\ Nesting /\ Reached /\ Acyclic /\ (late = {} => Prompt)
-----------------------------------------------------------------------------

\* What is complete with all that is beneath it is so by its flag, as long as
\* nothing is nested later in what is complete.
LEMMA CompletedByFlag ==
    ASSUME NEW known, NEW n \in DOMAIN known
    PROVE  /\ Tree!Completed(known, n) => known[n].completed
           /\ (\A r \in DOMAIN known : known[r].completed =>
                  \A m \in known[r].nested : m \in DOMAIN known /\ known[m].completed) =>
                  (known[n].completed => Tree!Completed(known, n))
<1>1. Tree!Completed(known, n) => known[n].completed
  BY DEF Tree!Completed
<1>2. ASSUME \A r \in DOMAIN known : known[r].completed =>
                 \A m \in known[r].nested : m \in DOMAIN known /\ known[m].completed,
             known[n].completed
      PROVE  Tree!Completed(known, n)
  <2> DEFINE tree == {r \in DOMAIN known : known[r].completed}
  <2>1. /\ tree \in SUBSET DOMAIN known /\ n \in tree
        /\ \A r \in tree : known[r].completed /\ known[r].nested \subseteq tree
    BY <1>2
  <2> HIDE DEF tree
  <2>2. QED
    BY <2>1 DEF Tree!Completed
<1>3. QED
  BY <1>1, <1>2

\* The store of a scope is one, in every tree.
StoresTyped == stores \in [DOMAIN stores -> StoreRecords]

\* A scope is left, and those in `done` are completed.
LEMMA TypedAfterLeaving ==
    ASSUME StoresTyped, NEW s \in DOMAIN stores, NEW done, NEW f,
           f = Tree!Complete(Tree!Left(s), done)
    PROVE  /\ DOMAIN f = DOMAIN stores /\ f \in [DOMAIN stores -> StoreRecords]
           /\ \A r \in DOMAIN stores :
                /\ f[r].nested = stores[r].nested
                /\ f[r].exited <=> stores[r].exited \/ r = s
                /\ f[r].completed <=> stores[r].completed \/ r \in done
<1>1. PICK left : left = Tree!Left(s)
  OBVIOUS
<1>2. /\ DOMAIN left = DOMAIN stores
      /\ \A r \in DOMAIN stores : left[r] = IF r = s THEN [stores[r] EXCEPT !.exited = TRUE]
                                            ELSE stores[r]
  BY <1>1 DEF Tree!Left
<1>3. \A r \in DOMAIN stores :
        /\ left[r] \in StoreRecords
        /\ left[r].nested = stores[r].nested /\ left[r].completed = stores[r].completed
        /\ left[r].exited <=> stores[r].exited \/ r = s
  BY <1>2 DEF StoresTyped, StoreRecords
<1>4. f = [r \in DOMAIN left |-> [left[r] EXCEPT !.completed = @ \/ r \in done]]
  BY <1>1 DEF Tree!Complete
<1>5. \A r \in DOMAIN stores :
        /\ f[r] = [left[r] EXCEPT !.completed = left[r].completed \/ r \in done]
        /\ f[r] \in StoreRecords /\ f[r].nested = left[r].nested /\ f[r].exited = left[r].exited
        /\ f[r].completed <=> left[r].completed \/ r \in done
  BY <1>2, <1>3, <1>4 DEF StoreRecords
<1>6. DOMAIN f = DOMAIN stores /\ f \in [DOMAIN stores -> StoreRecords]
  BY <1>2, <1>4, <1>5
<1>7. QED
  BY <1>3, <1>5, <1>6

LEMMA AfterLeaving ==
    ASSUME TreeTypes, NEW s \in DOMAIN stores, NEW done, NEW f,
           f = Tree!Complete(Tree!Left(s), done)
    PROVE  /\ DOMAIN f = DOMAIN stores /\ f \in [DOMAIN stores -> StoreRecords]
           /\ \A r \in DOMAIN stores :
                /\ f[r].nested = stores[r].nested
                /\ f[r].exited <=> stores[r].exited \/ r = s
                /\ f[r].completed <=> stores[r].completed \/ r \in done
BY TypedAfterLeaving DEF TreeTypes, StoresTyped

LEMMA WithStoreTyped ==
    ASSUME TreeTypes, NEW s \in Scopes, s \notin DOMAIN stores, NEW f,
           f = Tree!WithStore(stores, s)
    PROVE  /\ DOMAIN f = DOMAIN stores \cup {s} /\ f \in [DOMAIN stores \cup {s} -> StoreRecords]
           /\ f[s].nested = {} /\ ~f[s].exited /\ ~f[s].completed
           /\ \A r \in DOMAIN stores : f[r] = stores[r]
<1>1. Tree!NewStore \in StoreRecords
  BY DEF Tree!NewStore, StoreRecords
<1>2. QED
  BY <1>1 DEF Tree!WithStore, Tree!NewStore, TreeTypes

LEMMA ScopePrepared ==
    ASSUME TreeTypes, NEW s \in Scopes, NEW parent \in Scopes, scope' = Tree!Prepared(s, parent)
    PROVE  /\ scope' \in [Scopes -> ScopeRecords]
           /\ scope'[s].phase = "entered" /\ scope'[s].parent = parent
           /\ \A r \in Scopes : r # s => scope'[r] = scope[r]
           /\ Joined' = Joined \cup {s}
<1>1. /\ scope' \in [Scopes -> ScopeRecords]
      /\ scope'[s].phase = "entered" /\ scope'[s].parent = parent
      /\ \A r \in Scopes : r # s => scope'[r] = scope[r]
  BY DEF Tree!Prepared, TreeTypes, ScopeRecords
<1>2. QED
  BY <1>1 DEF Joined

LEMMA EnterFirstKeeps ==
    ASSUME TreeInv, NEW s \in Scopes, scope[s].phase = "new", NEW parent \in Scopes,
           Tree!EnterFirst(s, parent)
    PROVE  TreeInv'
<1> SUFFICES ASSUME second = {} PROVE (TreeTypes /\ Nesting /\ Reached /\ Acyclic /\ Prompt)'
  BY DEF TreeInv, Tree!EnterFirst
<1>1. /\ TreeTypes /\ Nesting /\ root = "none" /\ root' = s /\ DOMAIN stores = {}
      /\ stores' = Tree!WithStore(stores, s) /\ scope' = Tree!Prepared(s, parent)
  BY DEF Tree!EnterFirst, Tree!NoScope, TreeInv, TreeTypes
<1>2. /\ DOMAIN stores' = {s} /\ stores' \in [{s} -> StoreRecords]
      /\ stores'[s].nested = {} /\ ~stores'[s].exited /\ ~stores'[s].completed
  BY <1>1, WithStoreTyped
<1>3. /\ scope' \in [Scopes -> ScopeRecords]
      /\ scope'[s].phase = "entered" /\ scope'[s].parent = parent
      /\ \A r \in Scopes : r # s => scope'[r] = scope[r]
      /\ Joined' = Joined \cup {s}
  BY <1>1, ScopePrepared
<1>4. TreeTypes'
  BY <1>1, <1>2, <1>3, ServicesAssumption DEF TreeTypes
<1>5. Nesting'
  BY <1>1, <1>2, <1>3 DEF Nesting
<1>6. Reached' /\ Acyclic' /\ Prompt'
  <2>1. Reached'
    BY <1>1, <1>2 DEF Reached
  <2>2. Acyclic'
    BY <1>2 DEF Acyclic
  <2>3. Prompt'
    BY <1>1, <1>2 DEF Prompt
  <2>4. QED
    BY <2>1, <2>2, <2>3
<1>7. QED
  BY <1>4, <1>5, <1>6

LEMMA EnterNestedKeeps ==
    ASSUME TreeInv, NEW s \in Scopes, scope[s].phase = "new",
           NEW parent \in Scopes, parent # s => scope[parent].phase \in {"entered", "left"},
           Tree!EnterNested(s, parent)
    PROVE  TreeInv'
<1> SUFFICES ASSUME second' = {}
             PROVE  (TreeTypes /\ Nesting /\ Reached /\ Acyclic /\ (late = {} => Prompt))'
  BY DEF TreeInv
<1>1. /\ second = {} /\ parent # s /\ root # "none" /\ root' = root
      /\ parent \in DOMAIN stores \cap Joined
      /\ stores' = [Tree!WithStore(stores, s) EXCEPT ![parent].nested = @ \cup {s}]
      /\ scope' = Tree!Prepared(s, parent)
      /\ late' = {} => late = {} /\ ~stores[parent].completed
  BY DEF Tree!EnterNested, Tree!NoScope, Joined
<1>2. TreeTypes /\ Nesting /\ Reached /\ Acyclic /\ (late = {} => Prompt)
  BY <1>1 DEF TreeInv
<1>3. s \notin DOMAIN stores
  BY <1>2 DEF Nesting
<1>4. /\ DOMAIN stores' = DOMAIN stores \cup {s}
      /\ stores' \in [DOMAIN stores \cup {s} -> StoreRecords]
      /\ stores'[s].nested = {} /\ ~stores'[s].exited /\ ~stores'[s].completed
      /\ \A r \in DOMAIN stores :
           /\ stores'[r].nested = IF r = parent THEN stores[r].nested \cup {s} ELSE stores[r].nested
           /\ stores'[r].exited = stores[r].exited
           /\ stores'[r].completed = stores[r].completed
  <2>1. PICK f : f = Tree!WithStore(stores, s)
    OBVIOUS
  <2>2. /\ DOMAIN f = DOMAIN stores \cup {s} /\ f \in [DOMAIN stores \cup {s} -> StoreRecords]
        /\ f[s].nested = {} /\ ~f[s].exited /\ ~f[s].completed
        /\ \A r \in DOMAIN stores : f[r] = stores[r]
    BY <1>2, <1>3, <2>1, WithStoreTyped
  <2>3. stores' = [f EXCEPT ![parent] = [f[parent] EXCEPT !.nested = f[parent].nested \cup {s}]]
    BY <1>1, <2>1
  <2>4. f[parent] \in StoreRecords /\ f[parent] = stores[parent]
    BY <1>1, <2>2
  <2>5. PICK nested \in SUBSET Scopes : nested = stores[parent].nested \cup {s}
    BY <2>4 DEF StoreRecords
  <2>6. PICK store \in StoreRecords :
          /\ store = [f[parent] EXCEPT !.nested = nested]
          /\ store.nested = nested
          /\ store.exited = stores[parent].exited /\ store.completed = stores[parent].completed
    <3>1. [f[parent] EXCEPT !.nested = nested] \in StoreRecords
      BY <2>4 DEF StoreRecords
    <3>2. /\ [f[parent] EXCEPT !.nested = nested].nested = nested
          /\ [f[parent] EXCEPT !.nested = nested].exited = f[parent].exited
          /\ [f[parent] EXCEPT !.nested = nested].completed = f[parent].completed
      BY <2>4 DEF StoreRecords
    <3>3. QED
      BY <2>4, <3>1, <3>2
  <2>7. stores' = [f EXCEPT ![parent] = store]
    BY <2>3, <2>4, <2>5, <2>6
  <2>8. /\ stores' \in [DOMAIN stores \cup {s} -> StoreRecords]
        /\ stores'[parent] = store /\ stores'[s] = f[s]
        /\ \A r \in DOMAIN stores : r # parent => stores'[r] = stores[r]
    BY <1>1, <1>3, <2>2, <2>6, <2>7
  <2>9. QED
    BY <1>3, <2>2, <2>5, <2>6, <2>8
<1>5. /\ scope' \in [Scopes -> ScopeRecords]
      /\ scope'[s].phase = "entered" /\ scope'[s].parent = parent
      /\ \A r \in Scopes : r # s => scope'[r] = scope[r]
      /\ Joined' = Joined \cup {s}
  BY <1>1, <1>2, ScopePrepared
<1>6. root \in DOMAIN stores \cap Joined /\ DOMAIN stores \subseteq Scopes
  BY <1>1, <1>2 DEF TreeTypes
<1>7. TreeTypes'
  BY <1>1, <1>4, <1>5, <1>6 DEF TreeTypes
<1>8. Nesting'
  <2>1. ASSUME NEW r \in DOMAIN stores'
        PROVE  /\ scope'[r].phase # "new"
               /\ scope'[r].phase = "left" <=> stores'[r].exited
               /\ stores'[r].completed => stores'[r].exited
    <3>1. CASE r = s
      BY <3>1, <1>4, <1>5
    <3>2. CASE r # s
      <4>1. r \in DOMAIN stores /\ r \in Scopes
        BY <3>2, <1>4, <1>6
      <4>2. /\ scope[r].phase # "new"
            /\ scope[r].phase = "left" <=> stores[r].exited
            /\ stores[r].completed => stores[r].exited
        BY <4>1, <1>2 DEF Nesting
      <4>3. QED
        BY <3>2, <4>1, <4>2, <1>4, <1>5
    <3>3. QED
      BY <3>1, <3>2
  <2>2. ASSUME NEW r \in DOMAIN stores', NEW n \in stores'[r].nested
        PROVE  n \in DOMAIN stores' \cap Joined' /\ n # root /\ scope'[n].parent = r
    <3>1. r \in DOMAIN stores
      BY <1>4, <2>2
    <3>2. CASE n = s
      BY <3>1, <3>2, <1>2, <1>3, <1>4, <1>5, <1>6, <2>2 DEF Nesting
    <3>3. CASE n # s
      <4>1. n \in stores[r].nested
        BY <3>1, <3>3, <1>4, <2>2
      <4>2. n \in DOMAIN stores \cap Joined /\ n # root /\ scope[n].parent = r
        BY <3>1, <4>1, <1>2 DEF Nesting
      <4>3. QED
        BY <4>2, <3>3, <1>4, <1>5, <1>6
    <3>4. QED
      BY <3>2, <3>3
  <2>3. \A r \in Scopes : scope'[r].phase = "entered" => r \in DOMAIN stores'
    BY <1>2, <1>4, <1>5 DEF Nesting
  <2>4. QED
    BY <1>1, <2>1, <2>2, <2>3 DEF Nesting
<1>9. Reached'
  <2>1. ASSUME NEW tree \in SUBSET DOMAIN stores', root \in tree,
               \A r \in tree : stores'[r].nested \subseteq tree
        PROVE  DOMAIN stores' \cap Joined' \subseteq tree
    <3> DEFINE before == tree \ {s}
    <3>1. before \in SUBSET DOMAIN stores /\ root \in before
      BY <1>3, <1>4, <1>6, <2>1
    <3>2. \A r \in before : stores[r].nested \subseteq before
      <4>1. ASSUME NEW r \in before PROVE stores[r].nested \subseteq before
        <5>1. r \in DOMAIN stores /\ stores'[r].nested \subseteq tree
          BY <3>1, <2>1
        <5>2. s \notin stores[r].nested
          BY <5>1, <1>2, <1>3 DEF Nesting
        <5>3. QED
          BY <5>1, <5>2, <1>4
      <4>2. QED
        BY <4>1
    <3> HIDE DEF before
    <3>3. DOMAIN stores \cap Joined \subseteq before
      BY <3>1, <3>2, <1>2 DEF Reached, NestedIn
    <3>4. parent \in tree
      BY <3>3, <1>1 DEF before
    <3>5. s \in tree
      BY <3>4, <2>1, <1>1, <1>4
    <3>6. QED
      BY <3>3, <3>5, <1>4, <1>5 DEF before
  <2>2. QED
    BY <2>1, <1>1 DEF Reached, NestedIn
<1>10. Acyclic'
  <2>1. ASSUME NEW some \in SUBSET DOMAIN stores', some # {}
        PROVE  \E r \in some : stores'[r].nested \cap some = {}
    <3>1. CASE s \in some
      BY <3>1, <1>4
    <3>2. CASE s \notin some
      <4>1. some \in SUBSET DOMAIN stores
        BY <3>2, <2>1, <1>4
      <4>2. PICK r \in some : stores[r].nested \cap some = {}
        BY <4>1, <2>1, <1>2 DEF Acyclic
      <4>3. QED
        BY <4>1, <4>2, <3>2, <1>4
    <3>3. QED
      BY <3>1, <3>2
  <2>2. QED
    BY <2>1 DEF Acyclic
<1>11. ASSUME late' = {} PROVE Prompt'
  <2>1. Prompt /\ ~stores[parent].completed
    BY <1>1, <1>2, <1>11
  <2>2. \A r \in DOMAIN stores : \A n \in stores[r].nested :
            n \in DOMAIN stores /\ stores'[n].completed = stores[n].completed
    BY <1>2, <1>4 DEF Nesting
  <2>3. ASSUME NEW r \in DOMAIN stores', stores'[r].completed
        PROVE  \A n \in stores'[r].nested : stores'[n].completed
    <3>1. r \in DOMAIN stores /\ r # parent /\ stores[r].completed
      BY <2>1, <2>3, <1>4
    <3>2. QED
      BY <3>1, <2>1, <2>2, <1>4 DEF Prompt
  <2>4. ASSUME NEW r \in DOMAIN stores', stores'[r].exited,
               \A n \in stores'[r].nested : stores'[n].completed
        PROVE  stores'[r].completed
    <3>1. r \in DOMAIN stores
      BY <2>4, <1>4
    <3>2. r # parent
      BY <2>4, <3>1, <1>4
    <3>3. QED
      BY <3>1, <3>2, <2>1, <2>2, <2>4, <1>4 DEF Prompt
  <2>5. ~stores'[root].completed
    BY <2>1, <1>1, <1>4, <1>6 DEF Prompt
  <2>6. QED
    BY <2>3, <2>4, <2>5, <1>1 DEF Prompt
<1>12. QED
  BY <1>7, <1>8, <1>9, <1>10, <1>11

\* A scope that is refused may have a store, but it is nested in none.
LEMMA EnterRaisesKeeps ==
    ASSUME TreeInv, NEW s \in Scopes, scope[s].phase = "new", NEW parent,
           Tree!EnterRaises(s, parent)
    PROVE  TreeInv'
<1> SUFFICES ASSUME second = {}
             PROVE  (TreeTypes /\ Nesting /\ Reached /\ Acyclic /\ (late = {} => Prompt))'
  BY DEF TreeInv, Tree!EnterRaises
<1>1. /\ root # "none" /\ UNCHANGED <<root, late>>
      /\ scope' = [scope EXCEPT ![s].phase = "refused"]
      /\ stores' = Tree!WithStore(stores, s) \/ UNCHANGED stores
  BY DEF Tree!EnterRaises, Tree!NoScope
<1>2. TreeTypes /\ Nesting /\ Reached /\ Acyclic /\ (late = {} => Prompt)
  BY DEF TreeInv
<1>3. s \notin DOMAIN stores /\ s \notin Joined
  BY <1>2 DEF Nesting, Joined
<1>4. /\ scope' \in [Scopes -> ScopeRecords] /\ scope'[s].phase = "refused"
      /\ \A r \in Scopes : r # s => scope'[r] = scope[r]
  BY <1>1, <1>2 DEF TreeTypes, ScopeRecords
<1>5. Joined' = Joined
  BY <1>3, <1>4 DEF Joined
<1>6. /\ DOMAIN stores' = DOMAIN stores \cup {s} \/ DOMAIN stores' = DOMAIN stores
      /\ stores' \in [DOMAIN stores' -> StoreRecords]
      /\ s \in DOMAIN stores' =>
             stores'[s].nested = {} /\ ~stores'[s].exited /\ ~stores'[s].completed
      /\ \A r \in DOMAIN stores : stores'[r] = stores[r]
  <2>1. CASE UNCHANGED stores
    BY <2>1, <1>2, <1>3 DEF TreeTypes
  <2>2. CASE stores' = Tree!WithStore(stores, s)
    BY <2>2, <1>2, <1>3, WithStoreTyped
  <2>3. QED
    BY <1>1, <2>1, <2>2
<1>7. root \in DOMAIN stores \cap Joined /\ DOMAIN stores \subseteq Scopes
  BY <1>1, <1>2 DEF TreeTypes
<1>8. TreeTypes'
  BY <1>1, <1>4, <1>5, <1>6, <1>7 DEF TreeTypes
<1>9. ASSUME NEW r \in DOMAIN stores', r # s PROVE r \in DOMAIN stores
  BY <1>6, <1>9
<1>10. Nesting'
  <2>1. ASSUME NEW r \in DOMAIN stores'
        PROVE  /\ scope'[r].phase # "new"
               /\ scope'[r].phase = "left" <=> stores'[r].exited
               /\ stores'[r].completed => stores'[r].exited
    <3>1. CASE r = s
      BY <3>1, <1>4, <1>6
    <3>2. CASE r # s
      <4>1. r \in DOMAIN stores /\ r \in Scopes
        BY <3>2, <1>7, <1>9
      <4>2. QED
        BY <3>2, <4>1, <1>2, <1>4, <1>6 DEF Nesting
    <3>3. QED
      BY <3>1, <3>2
  <2>2. ASSUME NEW r \in DOMAIN stores', NEW n \in stores'[r].nested
        PROVE  n \in DOMAIN stores' \cap Joined' /\ n # root /\ scope'[n].parent = r
    <3>1. r # s
      BY <2>2, <1>6
    <3>2. r \in DOMAIN stores /\ stores'[r] = stores[r]
      BY <3>1, <1>6, <1>9
    <3>3. n \in DOMAIN stores \cap Joined /\ n # root /\ scope[n].parent = r
      BY <3>2, <2>2, <1>2 DEF Nesting
    <3>4. n # s /\ n \in Scopes
      BY <3>3, <1>3, <1>7
    <3>5. QED
      BY <3>3, <3>4, <1>4, <1>5, <1>6
  <2>3. \A r \in Scopes : scope'[r].phase = "entered" => r \in DOMAIN stores'
    BY <1>2, <1>4, <1>6 DEF Nesting
  <2>4. QED
    BY <1>1, <2>1, <2>2, <2>3 DEF Nesting
<1>11. Reached'
  <2>1. ASSUME NEW tree \in SUBSET DOMAIN stores', root \in tree,
               \A r \in tree : stores'[r].nested \subseteq tree
        PROVE  DOMAIN stores' \cap Joined' \subseteq tree
    <3> DEFINE before == tree \ {s}
    <3>1. before \in SUBSET DOMAIN stores /\ root \in before
      BY <1>3, <1>7, <1>9, <2>1
    <3>2. \A r \in before : stores[r].nested \subseteq before
      <4>1. ASSUME NEW r \in before PROVE stores[r].nested \subseteq before
        <5>1. r \in DOMAIN stores /\ stores'[r].nested \subseteq tree
          BY <3>1, <2>1
        <5>2. s \notin stores[r].nested
          BY <5>1, <1>2, <1>3 DEF Nesting
        <5>3. QED
          BY <5>1, <5>2, <1>6
      <4>2. QED
        BY <4>1
    <3> HIDE DEF before
    <3>3. DOMAIN stores \cap Joined \subseteq before
      BY <3>1, <3>2, <1>2 DEF Reached, NestedIn
    <3>4. QED
      BY <3>3, <1>3, <1>5, <1>6 DEF before
  <2>2. QED
    BY <2>1, <1>1 DEF Reached, NestedIn
<1>12. Acyclic'
  <2>1. ASSUME NEW some \in SUBSET DOMAIN stores', some # {}
        PROVE  \E r \in some : stores'[r].nested \cap some = {}
    <3>1. CASE s \in some
      BY <2>1, <3>1, <1>6
    <3>2. CASE s \notin some
      <4>1. some \in SUBSET DOMAIN stores
        BY <3>2, <2>1, <1>9
      <4>2. PICK r \in some : stores[r].nested \cap some = {}
        BY <4>1, <2>1, <1>2 DEF Acyclic
      <4>3. QED
        BY <4>1, <4>2, <1>6
    <3>3. QED
      BY <3>1, <3>2
  <2>2. QED
    BY <2>1 DEF Acyclic
<1>13. ASSUME late' = {} PROVE Prompt'
  <2>1. Prompt
    BY <1>1, <1>2, <1>13
  <2>2. \A r \in DOMAIN stores : \A n \in stores[r].nested :
            n \in DOMAIN stores /\ stores'[n].completed = stores[n].completed
    BY <1>2, <1>6 DEF Nesting
  <2>3. ASSUME NEW r \in DOMAIN stores', stores'[r].completed
        PROVE  \A n \in stores'[r].nested : stores'[n].completed
    <3>1. r # s /\ r \in DOMAIN stores /\ stores[r].completed
      BY <2>3, <1>6, <1>9
    <3>2. QED
      BY <3>1, <2>1, <2>2, <1>6 DEF Prompt
  <2>4. ASSUME NEW r \in DOMAIN stores', stores'[r].exited,
               \A n \in stores'[r].nested : stores'[n].completed
        PROVE  stores'[r].completed
    <3>1. r # s /\ r \in DOMAIN stores
      BY <2>4, <1>6, <1>9
    <3>2. QED
      BY <3>1, <2>1, <2>2, <2>4, <1>6 DEF Prompt
  <2>5. ~stores'[root].completed
    BY <2>1, <1>1, <1>6, <1>7 DEF Prompt
  <2>6. QED
    BY <2>3, <2>4, <2>5, <1>1 DEF Prompt
<1>14. QED
  BY <1>8, <1>10, <1>11, <1>12, <1>13

\* What a scope that is left completes.
LEMMA LeavingCompletes ==
    ASSUME TreeTypes, Nesting, late = {} => Prompt, NEW s \in DOMAIN stores, scope[s].phase = "entered",
           NEW done \in SUBSET DOMAIN stores, Tree!Completes(Tree!Left(s), s, done), NEW f,
           f = Tree!Complete(Tree!Left(s), done)
    PROVE  /\ \A r \in DOMAIN stores : f[r].completed => f[r].exited
           /\ late = {} =>
                /\ \A r \in DOMAIN stores : f[r].completed =>
                       \A n \in f[r].nested : f[n].completed
                /\ \A r \in DOMAIN stores :
                       f[r].exited /\ (\A n \in f[r].nested : f[n].completed) => f[r].completed
<1>1. /\ DOMAIN f = DOMAIN stores
      /\ \A r \in DOMAIN stores :
           /\ f[r].nested = stores[r].nested
           /\ f[r].exited <=> stores[r].exited \/ r = s
           /\ f[r].completed <=> stores[r].completed \/ r \in done
  BY AfterLeaving
<1>2. DOMAIN Tree!Left(s) = DOMAIN stores
  BY DEF Tree!Left
<1>3. PICK tried :
        /\ tried = {s} \cup {scope[n].parent : n \in done \ {root}}
        /\ \A r : r \in done <=>
               /\ r \in tried /\ r \in DOMAIN stores
               /\ Tree!Completable(Tree!Complete(Tree!Left(s), done \ {r}), r)
  BY <1>2 DEF Tree!Completes
<1>4. ASSUME NEW r \in done
      PROVE  /\ f[r].exited /\ ~stores[r].completed
             /\ \A n \in stores[r].nested : f[n].completed
  <2>1. PICK g : g = Tree!Complete(Tree!Left(s), done \ {r})
    OBVIOUS
  <2>2. Tree!Completable(g, r)
    BY <2>1, <1>3, <1>4
  <2>3. /\ DOMAIN g = DOMAIN stores
        /\ \A q \in DOMAIN stores :
             /\ g[q].nested = stores[q].nested
             /\ g[q].exited <=> stores[q].exited \/ q = s
             /\ g[q].completed <=> stores[q].completed \/ q \in done \ {r}
    BY <2>1, AfterLeaving
  <2>4. /\ g[r].exited /\ ~g[r].completed
        /\ \A n \in stores[r].nested : Tree!Completed(g, n)
    BY <2>2, <2>3 DEF Tree!Completable
  <2>5. ASSUME NEW n \in stores[r].nested PROVE f[n].completed
    <3>1. n \in DOMAIN stores
      BY <2>5 DEF Nesting
    <3>2. g[n].completed
      BY <3>1, <2>3, <2>4, <2>5, CompletedByFlag
    <3>3. QED
      BY <3>1, <3>2, <2>3, <1>1
  <2>6. QED
    BY <2>3, <2>4, <2>5, <1>1
<1>5. \A r \in DOMAIN stores : f[r].completed => f[r].exited
  BY <1>1, <1>4 DEF Nesting
<1>6. ASSUME Prompt, NEW r \in DOMAIN stores, f[r].completed, NEW n \in f[r].nested
      PROVE  f[n].completed
  <2>1. n \in stores[r].nested /\ n \in DOMAIN stores
    BY <1>1, <1>6 DEF Nesting
  <2>2. CASE r \in done
    BY <2>1, <2>2, <1>4
  <2>3. CASE stores[r].completed
    BY <2>1, <2>3, <1>1, <1>6 DEF Prompt
  <2>4. QED
    BY <2>2, <2>3, <1>1, <1>6
<1>7. ASSUME Prompt, NEW r \in DOMAIN stores, f[r].exited, \A n \in f[r].nested : f[n].completed,
             ~f[r].completed
      PROVE  FALSE
  <2>1. r \notin done /\ ~stores[r].completed /\ done \ {r} = done
    BY <1>1, <1>7
  <2>2. Tree!Completable(f, r)
    <3>1. \A q \in DOMAIN f : f[q].completed =>
              \A m \in f[q].nested : m \in DOMAIN f /\ f[m].completed
      BY <1>1, <1>6, <1>7 DEF Nesting
    <3>2. \A n \in f[r].nested : n \in DOMAIN f
      BY <1>1 DEF Nesting
    <3>3. \A n \in f[r].nested : Tree!Completed(f, n)
      BY <3>1, <3>2, <1>7, CompletedByFlag
    <3>4. QED
      BY <3>3, <1>7 DEF Tree!Completable
  <2>3. r \notin tried
    BY <1>3, <2>1, <2>2
  <2>4. r # s /\ stores[r].exited
    BY <2>3, <1>1, <1>3, <1>7
  <2>5. PICK n \in stores[r].nested : ~stores[n].completed
    BY <2>1, <2>4, <1>7 DEF Prompt
  <2>6. n \in DOMAIN stores /\ n # root /\ scope[n].parent = r
    BY <2>5 DEF Nesting
  <2>7. n \in done
    BY <2>5, <2>6, <1>1, <1>7
  <2>8. r \in tried
    BY <2>6, <2>7, <1>3
  <2>9. QED
    BY <2>3, <2>8
<1>8. QED
  BY <1>5, <1>6, <1>7

LEMMA ExitKeeps ==
    ASSUME TreeInv, NEW s \in Scopes, Tree!Exit(s) PROVE TreeInv'
<1> SUFFICES ASSUME second = {}
             PROVE  (TreeTypes /\ Nesting /\ Reached /\ Acyclic /\ (late = {} => Prompt))'
  BY DEF TreeInv, Tree!Exit
<1>1. /\ scope[s].phase = "entered" /\ s \in DOMAIN stores /\ UNCHANGED late
      /\ scope' = [scope EXCEPT ![s].phase = "left"]
  BY DEF Tree!Exit
<1>2. TreeTypes /\ Nesting /\ Reached /\ Acyclic /\ (late = {} => Prompt)
  BY DEF TreeInv
<1>3. PICK done, f, reported :
        /\ done \in SUBSET DOMAIN stores /\ reported \in BOOLEAN
        /\ f = Tree!Complete(Tree!Left(s), done) /\ Tree!Completes(Tree!Left(s), s, done)
        /\ reported <=> done # {} /\ Tree!Completed(f, root)
        /\ root' = IF reported THEN "none" ELSE root
        /\ stores' = IF reported THEN [r \in {} |-> r] ELSE f
  <2>1. PICK done \in SUBSET DOMAIN stores :
          LET all == Tree!Complete(Tree!Left(s), done)
              reported == done # {} /\ Tree!Completed(all, root)
          IN  /\ Tree!Completes(Tree!Left(s), s, done)
              /\ root' = IF reported THEN "none" ELSE root
              /\ stores' = IF reported THEN [r \in {} |-> r] ELSE all
    BY DEF Tree!Exit, Tree!NoScope
  <2>2. PICK f : f = Tree!Complete(Tree!Left(s), done)
    OBVIOUS
  <2>3. PICK reported \in BOOLEAN : reported <=> done # {} /\ Tree!Completed(f, root)
    OBVIOUS
  <2>4. /\ root' = IF reported THEN "none" ELSE root
        /\ stores' = IF reported THEN [r \in {} |-> r] ELSE f
    BY <2>1, <2>2, <2>3
  <2>5. QED
    BY <2>1, <2>2, <2>3, <2>4
<1>4. /\ DOMAIN f = DOMAIN stores /\ f \in [DOMAIN stores -> StoreRecords]
      /\ \A r \in DOMAIN stores :
           /\ f[r].nested = stores[r].nested
           /\ f[r].exited <=> stores[r].exited \/ r = s
           /\ f[r].completed <=> stores[r].completed \/ r \in done
  BY <1>1, <1>2, <1>3, AfterLeaving
<1>5. /\ \A r \in DOMAIN stores : f[r].completed => f[r].exited
      /\ late = {} =>
           /\ \A r \in DOMAIN stores : f[r].completed => \A n \in f[r].nested : f[n].completed
           /\ \A r \in DOMAIN stores :
                  f[r].exited /\ (\A n \in f[r].nested : f[n].completed) => f[r].completed
  BY <1>1, <1>2, <1>3, LeavingCompletes
<1>6. /\ scope' \in [Scopes -> ScopeRecords] /\ scope'[s].phase = "left"
      /\ scope'[s].parent = scope[s].parent
      /\ \A r \in Scopes : r # s => scope'[r] = scope[r]
  BY <1>1, <1>2 DEF TreeTypes, ScopeRecords
<1>7. Joined' = Joined
  BY <1>1, <1>6 DEF Joined
<1>8. root # "none" /\ root \in DOMAIN stores \cap Joined /\ DOMAIN stores \subseteq Scopes
  BY <1>1, <1>2, ServicesAssumption DEF TreeTypes
<1>9. CASE reported
  <2>1. root' = "none" /\ DOMAIN stores' = {} /\ stores' = [r \in {} |-> r]
    BY <1>3, <1>9
  <2>2. TreeTypes'
    BY <2>1, <1>6 DEF TreeTypes
  <2>3. ASSUME NEW r \in Scopes, scope'[r].phase = "entered" PROVE FALSE
    <3>1. r # s /\ scope[r].phase = "entered"
      BY <1>6, <2>3
    <3>2. r \in DOMAIN stores \cap Joined
      BY <3>1, <1>2 DEF Nesting, Joined
    <3>3. PICK tree \in SUBSET DOMAIN f :
            /\ root \in tree
            /\ \A q \in tree : f[q].completed /\ f[q].nested \subseteq tree
      BY <1>3, <1>9 DEF Tree!Completed
    <3>4. tree \in SUBSET DOMAIN stores /\ \A q \in tree : stores[q].nested \subseteq tree
      BY <3>3, <1>4
    <3>5. r \in tree
      BY <3>2, <3>3, <3>4, <1>2 DEF Reached, NestedIn
    <3>6. stores[r].exited
      BY <3>1, <3>2, <3>3, <3>5, <1>4, <1>5
    <3>7. QED
      BY <3>1, <3>2, <3>6, <1>2 DEF Nesting
  <2>4. Nesting'
    BY <2>1, <2>3 DEF Nesting
  <2>5. Reached' /\ Acyclic' /\ Prompt'
    BY <2>1 DEF Reached, Acyclic, Prompt
  <2>6. QED
    BY <2>2, <2>4, <2>5
<1>10. CASE ~reported
  <2>1. root' = root /\ stores' = f
    BY <1>3, <1>10
  <2>2. TreeTypes'
    BY <2>1, <1>4, <1>6, <1>7, <1>8 DEF TreeTypes
  <2>3. Nesting'
    <3>1. ASSUME NEW r \in DOMAIN stores
          PROVE  /\ scope'[r].phase # "new"
                 /\ scope'[r].phase = "left" <=> f[r].exited
                 /\ f[r].completed => f[r].exited
      <4>1. r \in Scopes /\ scope[r].phase # "new" /\ (scope[r].phase = "left" <=> stores[r].exited)
        BY <1>2, <1>8 DEF Nesting
      <4>2. CASE r = s
        BY <4>2, <1>1, <1>4, <1>5, <1>6
      <4>3. CASE r # s
        BY <4>1, <4>3, <1>4, <1>5, <1>6
      <4>4. QED
        BY <4>2, <4>3
    <3>2. ASSUME NEW r \in DOMAIN stores, NEW n \in f[r].nested
          PROVE  n \in DOMAIN f \cap Joined' /\ n # root /\ scope'[n].parent = r
      <4>1. n \in DOMAIN stores \cap Joined /\ n # root /\ scope[n].parent = r
        BY <3>2, <1>2, <1>4 DEF Nesting
      <4>2. n \in Scopes
        BY <4>1, <1>8
      <4>3. QED
        BY <4>1, <4>2, <1>4, <1>6, <1>7
    <3>3. \A r \in Scopes : scope'[r].phase = "entered" => r \in DOMAIN stores
      BY <1>2, <1>6 DEF Nesting
    <3>4. QED
      BY <2>1, <3>1, <3>2, <3>3, <1>4 DEF Nesting
  <2>4. Reached' /\ Acyclic'
    <3>1. DOMAIN stores' = DOMAIN stores /\ \A r \in DOMAIN stores : stores'[r].nested = stores[r].nested
      BY <2>1, <1>4
    <3>2. ASSUME NEW tree \in SUBSET DOMAIN stores', root \in tree,
                 \A r \in tree : stores'[r].nested \subseteq tree
          PROVE  DOMAIN stores' \cap Joined' \subseteq tree
      <4>1. tree \in SUBSET DOMAIN stores /\ \A r \in tree : stores[r].nested \subseteq tree
        BY <3>1, <3>2
      <4>2. QED
        BY <3>1, <3>2, <4>1, <1>2, <1>7 DEF Reached, NestedIn
    <3>3. ASSUME NEW some \in SUBSET DOMAIN stores', some # {}
          PROVE  \E r \in some : stores'[r].nested \cap some = {}
      <4>1. some \in SUBSET DOMAIN stores
        BY <3>1
      <4>2. PICK r \in some : stores[r].nested \cap some = {}
        BY <4>1, <3>3, <1>2 DEF Acyclic
      <4>3. QED
        BY <4>1, <4>2, <3>1
    <3>4. Reached'
      BY <2>1, <3>2 DEF Reached, NestedIn
    <3>5. QED
      BY <3>3, <3>4 DEF Acyclic
  <2>5. ASSUME late' = {} PROVE Prompt'
    <3>1. late = {} /\ Prompt
      BY <1>1, <1>2, <2>5
    <3>2. ~f[root].completed
      <4>1. ASSUME f[root].completed PROVE FALSE
        <5>1. root \in done
          BY <4>1, <3>1, <1>4, <1>8 DEF Prompt
        <5>2. \A r \in DOMAIN f : f[r].completed =>
                  \A m \in f[r].nested : m \in DOMAIN f /\ f[m].completed
          BY <3>1, <1>2, <1>4, <1>5 DEF Nesting
        <5>3. Tree!Completed(f, root)
          BY <4>1, <5>2, <1>4, <1>8, CompletedByFlag
        <5>4. QED
          BY <5>1, <5>3, <1>3, <1>10
      <4>2. QED
        BY <4>1
    <3>3. QED
      BY <2>1, <3>1, <3>2, <1>4, <1>5 DEF Prompt
  <2>6. QED
    BY <2>2, <2>3, <2>4, <2>5
<1>11. QED
  BY <1>9, <1>10

LEMMA TreeKept == TreeInv /\ [Tree!Next]_treeVars => TreeInv'
<1> SUFFICES ASSUME TreeInv, [Tree!Next]_treeVars PROVE TreeInv'
  OBVIOUS
<1>1. CASE Tree!Configure \/ UNCHANGED treeVars
  <2>1. UNCHANGED <<root, stores, scope, late, second>>
    BY <1>1 DEF Tree!Configure, treeVars
  <2>2. QED
    BY <2>1 DEF TreeInv, TreeTypes, Nesting, Reached, Acyclic, Prompt, NestedIn, Joined
<1>2. ASSUME NEW s \in Scopes, Tree!Enter(s) PROVE TreeInv'
  <2>1. PICK parent \in Scopes :
          /\ scope[s].phase = "new"
          /\ parent # s => scope[parent].phase \in {"entered", "left"}
          /\ Tree!EnterFirst(s, parent) \/ Tree!EnterNested(s, parent) \/ Tree!EnterRaises(s, parent)
    BY <1>2 DEF Tree!Enter
  <2>2. QED
    BY <2>1, EnterFirstKeeps, EnterNestedKeeps, EnterRaisesKeeps
<1>3. ASSUME NEW s \in Scopes, Tree!ExitRaises(s) PROVE TreeInv'
  BY <1>3 DEF Tree!ExitRaises, TreeInv, Nesting
<1>4. QED
  BY <1>1, <1>2, <1>3, ExitKeeps DEF Tree!Next

LEMMA TreeBegins == Tree!Init => TreeInv
<1> SUFFICES ASSUME Tree!Init PROVE TreeInv
  OBVIOUS
<1>1. /\ root = "none" /\ DOMAIN stores = {} /\ stores \in [DOMAIN stores -> StoreRecords]
      /\ scope = [s \in Scopes |-> [phase |-> "new", parent |-> "none"]]
  BY DEF Tree!Init, Tree!NoScope
<1>2. TreeTypes /\ Nesting
  BY <1>1 DEF TreeTypes, Nesting, ScopeRecords
<1>3. Reached /\ Acyclic /\ Prompt
  BY <1>1 DEF Reached, Acyclic, Prompt
<1>4. QED
  BY <1>2, <1>3 DEF TreeInv

\* With nobody in a tree whose scopes completed as soon as they could, every
\* scope of it, and so its root, is complete.
LEMMA NobodyIsIn ==
    ASSUME TreeTypes, Nesting, Acyclic, Prompt, root # "none",
           \A s \in Scopes : scope[s].phase # "entered"
    PROVE  FALSE
<1> DEFINE running == {r \in DOMAIN stores \cap Joined : ~stores[r].completed}
<1>1. running \in SUBSET DOMAIN stores /\ root \in running
  BY DEF TreeTypes, Prompt
<1>2. PICK r \in running : stores[r].nested \cap running = {}
  BY <1>1 DEF Acyclic
<1>3. r \in DOMAIN stores \cap Joined /\ ~stores[r].completed
  OBVIOUS
<1>4. stores[r].exited
  BY <1>3 DEF Nesting, Joined
<1>5. \A n \in stores[r].nested : stores[n].completed
  BY <1>2, <1>3 DEF Nesting
<1>6. QED
  BY <1>3, <1>4, <1>5 DEF Prompt

\* A tree of scopes is reported and forgotten when the last of them is left: not
\* while one is open, and not later, unless a scope was entered beneath one that
\* had completed or another root came in between (scope_entering and
\* scope_exiting of LoggerObservability and of the OpenTelemetry bridge).
THEOREM TreesAreReported == ServicesSpec => []ReportedWhenDone
<1>1. ServicesInit => TreeInv
  BY TreeBegins DEF ServicesInit
<1>2. [ServicesNext]_allVars => [Tree!Next]_treeVars
  BY DEF ServicesNext, allVars, treeVars
<1>3. TreeInv => ReportedWhenDone
  <2>1. ASSUME TreeInv, second = {}, root = "none" PROVE \A s \in Scopes : scope[s].phase # "entered"
    BY <2>1 DEF TreeInv, TreeTypes, Nesting
  <2>2. ASSUME TreeInv, second = {}, late = {}, root # "none",
               \A s \in Scopes : scope[s].phase # "entered"
        PROVE  FALSE
    BY <2>2, NobodyIsIn DEF TreeInv
  <2>3. QED
    BY <2>1, <2>2 DEF ReportedWhenDone, Tree!ReportedWhenDone, Tree!Entered, Tree!NoScope
<1>4. QED
  BY <1>1, <1>2, <1>3, TreeKept, PTL DEF ServicesSpec
-----------------------------------------------------------------------------
(* What is completed when a scope is left.                                 *)

\* The stores are stores, whatever was entered where and reported when.
LEMMA StoresKept == StoresTyped /\ [Tree!Next]_treeVars => StoresTyped'
<1> SUFFICES ASSUME StoresTyped, [Tree!Next]_treeVars PROVE StoresTyped'
  OBVIOUS
<1>1. CASE UNCHANGED stores
  BY <1>1 DEF StoresTyped
<1>2. Tree!NewStore \in StoreRecords
  BY DEF Tree!NewStore, StoreRecords
<1>3. ASSUME NEW s \in Scopes, NEW f, f = Tree!WithStore(stores, s)
      PROVE  f \in [DOMAIN stores \cup {s} -> StoreRecords]
  BY <1>2, <1>3 DEF Tree!WithStore, StoresTyped
<1>4. ASSUME NEW s \in Scopes, NEW parent \in Scopes, Tree!EnterNested(s, parent)
      PROVE  StoresTyped'
  <2>1. PICK f : f = Tree!WithStore(stores, s)
    OBVIOUS
  <2>2. f \in [DOMAIN stores \cup {s} -> StoreRecords]
    BY <2>1, <1>3
  <2>3. stores' = [f EXCEPT ![parent] = [f[parent] EXCEPT !.nested = f[parent].nested \cup {s}]]
    BY <2>1, <1>4 DEF Tree!EnterNested
  <2>4. \A store \in StoreRecords : [store EXCEPT !.nested = store.nested \cup {s}] \in StoreRecords
    BY DEF StoreRecords
  <2>5. parent \in DOMAIN f
    BY <2>2, <1>4 DEF Tree!EnterNested
  <2>6. [f[parent] EXCEPT !.nested = f[parent].nested \cup {s}] \in StoreRecords
    BY <2>2, <2>4, <2>5
  <2>7. stores' \in [DOMAIN stores \cup {s} -> StoreRecords]
    BY <2>2, <2>3, <2>6
  <2>8. QED
    BY <2>7 DEF StoresTyped
<1>5. ASSUME NEW s \in Scopes, Tree!Enter(s) PROVE StoresTyped'
  <2>1. PICK parent \in Scopes :
          Tree!EnterFirst(s, parent) \/ Tree!EnterNested(s, parent) \/ Tree!EnterRaises(s, parent)
    BY <1>5 DEF Tree!Enter
  <2>2. CASE stores' = Tree!WithStore(stores, s)
    BY <2>2, <1>3 DEF StoresTyped
  <2>3. QED
    BY <2>1, <2>2, <1>1, <1>4 DEF Tree!EnterFirst, Tree!EnterRaises
<1>6. ASSUME NEW s \in Scopes, Tree!Exit(s) PROVE StoresTyped'
  <2>1. PICK done, f : f = Tree!Complete(Tree!Left(s), done) /\ stores' \in {[r \in {} |-> r], f}
    BY <1>6 DEF Tree!Exit
  <2>2. s \in DOMAIN stores
    BY <1>6 DEF Tree!Exit
  <2>3. f \in [DOMAIN stores -> StoreRecords]
    BY <2>1, <2>2, TypedAfterLeaving
  <2>4. QED
    BY <2>1, <2>3 DEF StoresTyped
<1>7. QED
  BY <1>1, <1>5, <1>6 DEF Tree!Next, Tree!Configure, Tree!ExitRaises, treeVars

\* A function on the subsets of a set that preserves their order has a fixed point.
LEMMA FixedPoint ==
    ASSUME NEW S, NEW F \in [SUBSET S -> SUBSET S],
           \A X, Y \in SUBSET S : X \subseteq Y => F[X] \subseteq F[Y]
    PROVE  \E X \in SUBSET S : F[X] = X
<1> DEFINE least == {r \in S : \A X \in SUBSET S : F[X] \subseteq X => r \in X}
<1>1. least \in SUBSET S /\ F[least] \in SUBSET S
  OBVIOUS
<1>2. \A X \in SUBSET S : F[X] \subseteq X => least \subseteq X
  OBVIOUS
<1>3. \A r \in S : (\A X \in SUBSET S : F[X] \subseteq X => r \in X) => r \in least
  OBVIOUS
<1> HIDE DEF least
<1>4. F[least] \subseteq least
  <2>1. ASSUME NEW r \in F[least], NEW X \in SUBSET S, F[X] \subseteq X PROVE r \in X
    <3>1. least \subseteq X
      BY <1>2, <2>1
    <3>2. F[least] \subseteq F[X]
      BY <1>1, <3>1
    <3>3. QED
      BY <2>1, <3>2
  <2>2. QED
    BY <1>1, <1>3, <2>1
<1>5. F[F[least]] \subseteq F[least]
  BY <1>1, <1>4
<1>6. least \subseteq F[least]
  BY <1>1, <1>2, <1>5
<1>7. QED
  BY <1>1, <1>4, <1>6

\* The more scopes are completed, the more can be.
LEMMA MoreCompletes ==
    ASSUME StoresTyped, NEW s \in DOMAIN stores, NEW r \in DOMAIN stores, NEW done, NEW more,
           done \subseteq more,
           Tree!Completable(Tree!Complete(Tree!Left(s), done \ {r}), r)
    PROVE  Tree!Completable(Tree!Complete(Tree!Left(s), more \ {r}), r)
<1>1. PICK f : f = Tree!Complete(Tree!Left(s), done \ {r})
  OBVIOUS
<1>2. PICK g : g = Tree!Complete(Tree!Left(s), more \ {r})
  OBVIOUS
<1>3. /\ DOMAIN f = DOMAIN stores
      /\ \A q \in DOMAIN stores :
           /\ f[q].nested = stores[q].nested
           /\ f[q].exited <=> stores[q].exited \/ q = s
           /\ f[q].completed <=> stores[q].completed \/ q \in done \ {r}
  BY <1>1, TypedAfterLeaving
<1>4. /\ DOMAIN g = DOMAIN stores
      /\ \A q \in DOMAIN stores :
           /\ g[q].nested = stores[q].nested
           /\ g[q].exited <=> stores[q].exited \/ q = s
           /\ g[q].completed <=> stores[q].completed \/ q \in more \ {r}
  BY <1>2, TypedAfterLeaving
<1>5. /\ f[r].exited /\ ~f[r].completed
      /\ \A n \in stores[r].nested : Tree!Completed(f, n)
  BY <1>1, <1>3 DEF Tree!Completable
<1>6. ASSUME NEW n, Tree!Completed(f, n) PROVE Tree!Completed(g, n)
  <2>1. PICK tree \in SUBSET DOMAIN stores :
          /\ n \in tree
          /\ \A q \in tree : f[q].completed /\ f[q].nested \subseteq tree
    BY <1>3, <1>6 DEF Tree!Completed
  <2>2. \A q \in tree : g[q].completed /\ g[q].nested \subseteq tree
    BY <2>1, <1>3, <1>4
  <2>3. QED
    BY <2>1, <2>2, <1>4 DEF Tree!Completed
<1>7. /\ g[r].exited /\ ~g[r].completed
      /\ \A n \in g[r].nested : Tree!Completed(g, n)
  BY <1>3, <1>4, <1>5, <1>6
<1>8. QED
  BY <1>2, <1>7 DEF Tree!Completable

\* So there is a set of scopes that a scope completes by being left.
LEMMA SomeAreCompleted ==
    ASSUME StoresTyped, NEW s \in DOMAIN stores
    PROVE  \E done \in SUBSET DOMAIN stores : Tree!Completes(Tree!Left(s), s, done)
<1> DEFINE tried(X) == {s} \cup {scope[n].parent : n \in X \ {root}}
           able(X) == {r \in DOMAIN stores : Tree!Completable(Tree!Complete(Tree!Left(s), X \ {r}), r)}
           next == [X \in SUBSET DOMAIN stores |-> tried(X) \cap able(X)]
<1>1. \A X, Y \in SUBSET DOMAIN stores : X \subseteq Y => tried(X) \subseteq tried(Y)
  OBVIOUS
<1>2. \A X, Y \in SUBSET DOMAIN stores : X \subseteq Y => able(X) \subseteq able(Y)
  BY MoreCompletes
<1>3. \A X : able(X) \subseteq DOMAIN stores
  OBVIOUS
<1>4. ASSUME NEW done \in SUBSET DOMAIN stores, tried(done) \cap able(done) = done
      PROVE  Tree!Completes(Tree!Left(s), s, done)
  <2>1. DOMAIN Tree!Left(s) = DOMAIN stores
    BY DEF Tree!Left
  <2>2. QED
    BY <2>1, <1>4 DEF Tree!Completes
<1> HIDE DEF tried, able
<1>5. next \in [SUBSET DOMAIN stores -> SUBSET DOMAIN stores]
  BY <1>3
<1>6. \A X, Y \in SUBSET DOMAIN stores : X \subseteq Y => next[X] \subseteq next[Y]
  BY <1>1, <1>2
<1>7. \A X \in SUBSET DOMAIN stores : next[X] = tried(X) \cap able(X)
  OBVIOUS
<1> HIDE DEF next
<1>8. PICK done \in SUBSET DOMAIN stores : next[done] = done
  BY <1>5, <1>6, FixedPoint
<1>9. QED
  BY <1>4, <1>7, <1>8

\* What is beneath a scope, which it is itself.
Beneath(r) ==
    {n \in DOMAIN stores : \A tree \in SUBSET DOMAIN stores : r \in tree /\ NestedIn(tree) => n \in tree}

LEMMA BeneathIsNested ==
    ASSUME Nesting, NEW r \in DOMAIN stores
    PROVE  /\ r \in Beneath(r) /\ Beneath(r) \subseteq DOMAIN stores /\ NestedIn(Beneath(r))
           /\ \A n \in Beneath(r) : n # r => \E m \in stores[r].nested : n \in Beneath(m)
<1>1. \A q \in DOMAIN stores : stores[q].nested \subseteq DOMAIN stores
  BY DEF Nesting
<1>2. ASSUME NEW q \in DOMAIN stores
      PROVE  q \in Beneath(q) /\ Beneath(q) \subseteq DOMAIN stores /\ NestedIn(Beneath(q))
  <2>1. q \in Beneath(q) /\ Beneath(q) \subseteq DOMAIN stores
    BY DEF Beneath
  <2>2. ASSUME NEW n \in Beneath(q), NEW m \in stores[n].nested PROVE m \in Beneath(q)
    <3>1. n \in DOMAIN stores /\ m \in DOMAIN stores
      BY <2>1, <2>2, <1>1
    <3>2. ASSUME NEW tree \in SUBSET DOMAIN stores, q \in tree, NestedIn(tree) PROVE m \in tree
      <4>1. n \in tree
        BY <2>2, <3>2 DEF Beneath
      <4>2. QED
        BY <4>1, <2>2, <3>2 DEF NestedIn
    <3>3. QED
      BY <3>1, <3>2 DEF Beneath
  <2>3. QED
    BY <2>1, <2>2 DEF NestedIn
<1>3. ASSUME NEW n \in Beneath(r), n # r PROVE \E m \in stores[r].nested : n \in Beneath(m)
  <2> DEFINE tree == {r} \cup UNION {Beneath(m) : m \in stores[r].nested}
  <2>1. tree \in SUBSET DOMAIN stores /\ r \in tree
    BY <1>1, <1>2
  <2>2. ASSUME NEW q \in tree, NEW m \in stores[q].nested PROVE m \in tree
    <3>1. CASE q = r
      BY <3>1, <2>2, <1>1, <1>2
    <3>2. CASE q # r
      <4>1. PICK k \in stores[r].nested : q \in Beneath(k)
        BY <3>2, <2>2
      <4>2. k \in DOMAIN stores
        BY <1>1
      <4>3. m \in Beneath(k)
        BY <4>1, <4>2, <2>2, <1>2 DEF NestedIn
      <4>4. QED
        BY <4>3
    <3>3. QED
      BY <3>1, <3>2
  <2>3. \A m \in tree : m # r => \E k \in stores[r].nested : m \in Beneath(k)
    OBVIOUS
  <2> HIDE DEF tree
  <2>4. n \in tree
    BY <1>3, <2>1, <2>2 DEF Beneath, NestedIn
  <2>5. QED
    BY <1>3, <2>3, <2>4
<1>4. QED
  BY <1>2, <1>3

\* A scope that was let in is nested in its parent.
LEMMA ParentNests ==
    ASSUME TreeTypes, Nesting, Reached, NEW n \in DOMAIN stores \cap Joined, n # root
    PROVE  n \in stores[scope[n].parent].nested
<1>1. root \in DOMAIN stores
  BY DEF TreeTypes
<1>2. PICK tree : tree = DOMAIN stores \ {n}
  OBVIOUS
<1>3. tree \in SUBSET DOMAIN stores /\ root \in tree /\ n \notin tree
  BY <1>1, <1>2
<1>4. ~NestedIn(tree)
  BY <1>3 DEF Reached
<1>5. PICK r \in DOMAIN stores : n \in stores[r].nested
  BY <1>2, <1>4 DEF NestedIn, Nesting
<1>6. scope[n].parent = r
  BY <1>5 DEF Nesting
<1>7. QED
  BY <1>5, <1>6

\* What a scope completes beneath another settles whether it completes that one.
LEMMA SettledBeneath ==
    ASSUME TreeTypes, Nesting, Reached,
           NEW s \in DOMAIN stores, scope[s].phase = "entered",
           NEW done \in SUBSET DOMAIN stores, Tree!Completes(Tree!Left(s), s, done),
           NEW other \in SUBSET DOMAIN stores, Tree!Completes(Tree!Left(s), s, other),
           NEW r \in done,
           \A n \in stores[r].nested : \A m \in Beneath(n) : m \in done <=> m \in other
    PROVE  r \in other
<1>1. DOMAIN Tree!Left(s) = DOMAIN stores /\ StoresTyped
  BY DEF Tree!Left, StoresTyped, TreeTypes
<1>2. /\ r \in {s} \cup {scope[n].parent : n \in done \ {root}} /\ r \in DOMAIN stores
      /\ \A n \in done : Tree!Completable(Tree!Complete(Tree!Left(s), done \ {n}), n)
  BY <1>1 DEF Tree!Completes
<1>3. r \in {s} \cup {scope[n].parent : n \in other \ {root}}
  <2>1. ASSUME NEW n \in done, n # root, r = scope[n].parent PROVE n \in other
    <3>1. PICK f : f = Tree!Complete(Tree!Left(s), done \ {n})
      OBVIOUS
    <3>2. f[n].exited /\ n \in DOMAIN stores
      BY <3>1, <1>2, <2>1 DEF Tree!Completable
    <3>3. stores[n].exited \/ n = s
      BY <3>1, <3>2, <1>1, TypedAfterLeaving
    <3>4. n \in Joined /\ n \in Scopes
      BY <3>2, <3>3 DEF Nesting, Joined, TreeTypes
    <3>5. n \in stores[r].nested
      BY <2>1, <3>2, <3>4, ParentNests
    <3>6. n \in Beneath(n)
      BY <3>2, BeneathIsNested
    <3>7. QED
      BY <2>1, <3>5, <3>6
  <2>2. QED
    BY <1>2, <2>1
<1>4. PICK f : f = Tree!Complete(Tree!Left(s), done \ {r})
  OBVIOUS
<1>5. PICK g : g = Tree!Complete(Tree!Left(s), other \ {r})
  OBVIOUS
<1>6. /\ DOMAIN f = DOMAIN stores
      /\ \A q \in DOMAIN stores :
           /\ f[q].nested = stores[q].nested
           /\ f[q].exited <=> stores[q].exited \/ q = s
           /\ f[q].completed <=> stores[q].completed \/ q \in done \ {r}
  BY <1>1, <1>4, TypedAfterLeaving
<1>7. /\ DOMAIN g = DOMAIN stores
      /\ \A q \in DOMAIN stores :
           /\ g[q].nested = stores[q].nested
           /\ g[q].exited <=> stores[q].exited \/ q = s
           /\ g[q].completed <=> stores[q].completed \/ q \in other \ {r}
  BY <1>1, <1>5, TypedAfterLeaving
<1>8. /\ f[r].exited /\ ~f[r].completed
      /\ \A n \in stores[r].nested : Tree!Completed(f, n)
  BY <1>2, <1>4, <1>6 DEF Tree!Completable
<1>9. ASSUME NEW n \in stores[r].nested PROVE Tree!Completed(g, n)
  <2>1. PICK tree \in SUBSET DOMAIN stores :
          /\ n \in tree
          /\ \A q \in tree : f[q].completed /\ f[q].nested \subseteq tree
    BY <1>6, <1>8, <1>9 DEF Tree!Completed
  <2>2. n \in Beneath(n) /\ Beneath(n) \subseteq DOMAIN stores /\ NestedIn(Beneath(n))
    BY <2>1, BeneathIsNested
  <2>3. PICK both : both = tree \cap Beneath(n)
    OBVIOUS
  <2>4. both \in SUBSET DOMAIN stores /\ n \in both
    BY <2>1, <2>2, <2>3
  <2>5. ASSUME NEW q \in both PROVE g[q].completed /\ g[q].nested \subseteq both
    <3>1. q \in tree /\ q \in Beneath(n) /\ q \in DOMAIN stores
      BY <2>3, <2>4, <2>5
    <3>2. q \in done <=> q \in other
      BY <3>1, <1>9
    <3>3. g[q].completed
      BY <3>1, <3>2, <2>1, <1>6, <1>7
    <3>4. g[q].nested \subseteq both
      BY <3>1, <2>1, <2>2, <2>3, <1>6, <1>7 DEF NestedIn
    <3>5. QED
      BY <3>3, <3>4
  <2>6. QED
    BY <2>4, <2>5, <1>7 DEF Tree!Completed
<1>10. Tree!Completable(g, r)
  BY <1>2, <1>6, <1>7, <1>8, <1>9 DEF Tree!Completable
<1>11. QED
  BY <1>1, <1>2, <1>3, <1>5, <1>10 DEF Tree!Completes

\* So, in a tree without cycles, what a scope completes is settled from below.
LEMMA CompletedOneWay ==
    ASSUME TreeTypes, Nesting, Reached, Acyclic,
           NEW s \in DOMAIN stores, scope[s].phase = "entered",
           NEW done \in SUBSET DOMAIN stores, Tree!Completes(Tree!Left(s), s, done),
           NEW other \in SUBSET DOMAIN stores, Tree!Completes(Tree!Left(s), s, other)
    PROVE  done = other
<1> DEFINE differ == (done \ other) \cup (other \ done)
           above == {r \in DOMAIN stores : Beneath(r) \cap differ # {}}
<1> SUFFICES ASSUME differ # {} PROVE FALSE
  OBVIOUS
<1>1. PICK d : d \in differ
  OBVIOUS
<1>2. d \in DOMAIN stores /\ d \in Beneath(d)
  BY <1>1, BeneathIsNested
<1>3. above \in SUBSET DOMAIN stores /\ above # {}
  BY <1>1, <1>2
<1>4. PICK r \in above : stores[r].nested \cap above = {}
  <2> HIDE DEF above
  <2> QED
    BY <1>3 DEF Acyclic
<1>5. r \in DOMAIN stores /\ \A n \in stores[r].nested : n \in DOMAIN stores
  BY <1>4 DEF Nesting
<1>6. \A n \in stores[r].nested : Beneath(n) \cap differ = {}
  BY <1>4, <1>5
<1>7. PICK m : m \in Beneath(r) /\ m \in differ
  BY <1>4
<1>8. m = r
  BY <1>5, <1>6, <1>7, BeneathIsNested
<1>9. \A n \in stores[r].nested : \A k \in Beneath(n) : k \in done <=> k \in other
  BY <1>6
<1>10. CASE r \in done
  BY <1>7, <1>8, <1>9, <1>10, SettledBeneath
<1>11. CASE r \in other
  BY <1>7, <1>8, <1>9, <1>11, SettledBeneath
<1>12. QED
  BY <1>7, <1>8, <1>10, <1>11

\* A scope that is left completes itself and the scopes around it in one way: there
\* is always a set of scopes that it completes, and no other while one root is
\* around (try_complete in scope_exiting, helpers/observability.py and
\* opentelemetry/observability.py).
THEOREM LeavingIsDetermined == ServicesSpec => []Tree!LeavingDetermined
<1>1. ServicesInit => TreeInv /\ StoresTyped
  BY TreeBegins DEF ServicesInit, Tree!Init, StoresTyped
<1>2. [ServicesNext]_allVars => [Tree!Next]_treeVars
  BY DEF ServicesNext, allVars, treeVars
<1>3. TreeInv /\ StoresTyped => Tree!LeavingDetermined
  <2> SUFFICES ASSUME TreeInv, StoresTyped,
                      NEW s \in DOMAIN stores, scope[s].phase = "entered"
               PROVE  /\ \E done \in SUBSET DOMAIN stores : Tree!Completes(Tree!Left(s), s, done)
                      /\ second = {} =>
                          \A done, other \in SUBSET DOMAIN stores :
                            Tree!Completes(Tree!Left(s), s, done)
                              /\ Tree!Completes(Tree!Left(s), s, other) => done = other
    BY DEF Tree!LeavingDetermined, Tree!Entered
  <2>1. \E done \in SUBSET DOMAIN stores : Tree!Completes(Tree!Left(s), s, done)
    BY SomeAreCompleted
  <2>2. ASSUME second = {} PROVE TreeTypes /\ Nesting /\ Reached /\ Acyclic
    BY <2>2 DEF TreeInv
  <2>3. QED
    BY <2>1, <2>2, CompletedOneWay
<1>4. QED
  BY <1>1, <1>2, <1>3, TreeKept, StoresKept, PTL DEF ServicesSpec
-----------------------------------------------------------------------------
(* Files: for every set of contexts, tasks and contents.                   *)

\* What the file can hold: the blocks that tasks write, and those never written.
Blocks == {Files!Zero} \cup UNION {{Content[t][i] : i \in 1..Len(Content[t])} : t \in Readers}
HandleRecords == [offset : Nat, locked : BOOLEAN]
AccessRecords ==
    [phase : {"new", "opening", "locking", "open", "closing", "unlocked", "released", "closed"},
     handle : Nat, fd : Nat, awaited : BOOLEAN, exclusive : BOOLEAN]
WorkRecords ==
    [at : {"idle", "waiting", "running"}, context : Contexts \cup {0}, op : {"none", "read", "write"}]
JobRecords ==
    [by : Readers, context : Contexts, op : {"read", "write"}, handle : Nat \ {0},
     step : {"queued", "moving"}, done : Seq(Blocks), awaited : BOOLEAN, alone : BOOLEAN]

FileTypes ==
    /\ file \in Seq(Blocks)
    /\ DOMAIN handles \subseteq Nat \ {0} /\ IsFiniteSet(DOMAIN handles)
    /\ handles \in [DOMAIN handles -> HandleRecords]
    /\ access \in [Contexts -> AccessRecords]
    /\ working \in [Readers -> WorkRecords]
    /\ IsFiniteSet(DOMAIN jobs) /\ jobs \in [DOMAIN jobs -> JobRecords]

\* A context has a descriptor of its own until its thread has closed it, and the
\* lock of the file, when it asked for it, until its thread has released it.  The
\* number of the descriptor stays with it longer, and may be another's by then.
HasDescriptor(a) == a.phase \in {"locking", "open", "closing", "unlocked"}
HasLock(a) == a.phase \in {"open", "closing"}
UsedPhases == {"open", "closing", "unlocked", "released", "closed"}

Descriptors ==
    /\ \A c \in Contexts :
        /\ HasDescriptor(access[c]) => access[c].fd \in DOMAIN handles
        /\ access[c].phase \in {"new", "opening", "closed"} => access[c].fd = 0
        /\ access[c].handle # 0 =>
               access[c].handle = access[c].fd /\ access[c].phase \in UsedPhases \ {"closed"}
        /\ access[c].exclusive /\ HasLock(access[c]) => handles[access[c].fd].locked
    /\ \A c, d \in Contexts : c # d =>
        /\ HasDescriptor(access[c]) /\ HasDescriptor(access[d]) => access[c].fd # access[d].fd
        /\ access[c].exclusive /\ access[d].exclusive => ~(HasLock(access[c]) /\ HasLock(access[d]))

\* A job that is waited for is that of the task which has the lock of its context.
Serialised ==
    /\ \A t \in Readers : working[t].at # "idle" =>
           working[t].context \in Contexts /\ working[t].op # "none"
    /\ \A t, u \in Readers : working[t].at = "running" /\ working[u].at = "running"
           /\ working[t].context = working[u].context => t = u
    /\ \A n \in DOMAIN jobs : jobs[n].awaited =>
           working[jobs[n].by].at = "running" /\ working[jobs[n].by].context = jobs[n].context
    /\ \A n \in DOMAIN jobs : access[jobs[n].context].phase \in UsedPhases
    /\ \A m, n \in DOMAIN jobs :
           jobs[m].awaited /\ jobs[n].awaited /\ jobs[m].by = jobs[n].by => m = n

\* What a job that nothing interfered with has done: it is where its descriptor
\* is, and the file holds it.
Follows(done, whole) == Len(done) <= Len(whole) /\ \A i \in 1..Len(done) : done[i] = whole[i]
Progress ==
    \A n \in DOMAIN jobs :
        /\ jobs[n].step = "queued" => jobs[n].done = <<>>
        /\ jobs[n].op = "write" => Follows(jobs[n].done, Content[jobs[n].by])
        /\ jobs[n].step = "moving" /\ jobs[n].alone /\ Files!Proper(n) =>
               /\ handles[jobs[n].handle].offset = Len(jobs[n].done)
               /\ Follows(jobs[n].done, file)

FileInv == FileTypes /\ Descriptors /\ Serialised /\ Progress /\ UndisturbedAccess
-----------------------------------------------------------------------------
\* A finite set leaves one of the numbers up to its size and one free.
LEMMA FreeNumber ==
    ASSUME NEW S, IsFiniteSet(S)
    PROVE  \E n \in 1..(Cardinality(S) + 1) : n \notin S
<1>1. Cardinality(S) \in Nat
  BY FS_CardinalityType
<1>2. ASSUME 1..(Cardinality(S) + 1) \subseteq S PROVE FALSE
  <2>1. Cardinality(1..(Cardinality(S) + 1)) = Cardinality(S) + 1
    BY <1>1, FS_Interval
  <2>2. Cardinality(1..(Cardinality(S) + 1)) <= Cardinality(S)
    BY <1>2, FS_Subset
  <2>3. QED
    BY <1>1, <2>1, <2>2
<1>3. QED
  BY <1>2

\* FileAccess has the definition of Cardinality under a name of its own.
LEMMA SameCardinality ==
    ASSUME NEW S
    PROVE  Files!Cardinality(S) = Cardinality(S)
BY Zenon DEF Files!Cardinality, Cardinality

\* The descriptor that os.open gives is one that is not open.
LEMMA FreeDescriptor ==
    ASSUME NEW S \in SUBSET Nat, IsFiniteSet(S)
    PROVE  \E h \in 1..(Cardinality(S) + 1) : h \notin S /\ \A g \in 1..(h - 1) : g \in S
<1> DEFINE free == {h \in 1..(Cardinality(S) + 1) : h \notin S}
<1>1. Cardinality(S) \in Nat
  BY FS_CardinalityType
<1>2. free \subseteq Nat /\ free # {}
  BY <1>1, FreeNumber
<1>3. PICK h \in free : \A g \in free : h <= g
  BY <1>2, LeastNatural
<1>4. h \in 1..(Cardinality(S) + 1) /\ h \notin S
  OBVIOUS
<1>5. ASSUME NEW g \in 1..(h - 1), g \notin S PROVE FALSE
  <2>1. g \in 1..(Cardinality(S) + 1) /\ ~(h <= g)
    BY <1>1, <1>4
  <2>2. g \in free
    BY <2>1, <1>5
  <2>3. QED
    BY <1>3, <2>1, <2>2
<1>6. QED
  BY <1>4, <1>5

\* No two jobs are kept apart by a lock: there is at most one that both is
\* waited for and has its descriptor, of a context or of those with the lock of
\* the file.
LEMMA NoTwoApart ==
    ASSUME FileTypes, Descriptors, Serialised, NEW m \in DOMAIN jobs, NEW n \in DOMAIN jobs, m # n
    PROVE  ~Files!Apart(m, n)
<1> SUFFICES ASSUME Files!Apart(m, n) PROVE FALSE
  OBVIOUS
<1>1. /\ jobs[m].awaited /\ HasLock(access[jobs[m].context])
      /\ jobs[n].awaited /\ HasLock(access[jobs[n].context])
      /\ jobs[m].context \in Contexts /\ jobs[n].context \in Contexts
      /\ jobs[m].by \in Readers /\ jobs[n].by \in Readers
  BY DEF Files!Apart, Files!Proper, FileTypes, JobRecords, HasLock
<1>2. CASE jobs[m].context = jobs[n].context
  BY <1>1, <1>2 DEF Serialised
<1>3. CASE jobs[m].context # jobs[n].context
  BY <1>1, <1>3 DEF Files!Apart, Descriptors
<1>4. QED
  BY <1>2, <1>3

LEMMA SteppedTyped ==
    ASSUME FileTypes, Descriptors, Serialised, NEW n \in DOMAIN jobs, NEW job \in JobRecords, NEW f,
           f = Files!Stepped(n, job)
    PROVE  /\ DOMAIN f = DOMAIN jobs /\ f \in [DOMAIN jobs -> JobRecords]
           /\ f[n] \in {[job EXCEPT !.alone = FALSE], job}
           /\ f[n].alone => job.alone /\ Files!Proper(n)
           /\ \A m \in DOMAIN jobs : m # n => f[m] = [jobs[m] EXCEPT !.alone = FALSE]
<1>1. \A m \in DOMAIN jobs : m # n => m \in Files!Others(n)
  BY NoTwoApart DEF Files!Others
<1>2. PICK alone \in BOOLEAN : alone <=> job.alone /\ Files!Proper(n) /\ Files!Others(n) = {}
  OBVIOUS
<1>3. [job EXCEPT !.alone = job.alone /\ Files!Proper(n) /\ Files!Others(n) = {}] =
      [job EXCEPT !.alone = alone]
  BY <1>2
<1>4. PICK own : own = [job EXCEPT !.alone = alone]
  OBVIOUS
<1>5. own \in JobRecords /\ own.alone = alone /\ own \in {[job EXCEPT !.alone = FALSE], job}
  <2>1. own \in JobRecords /\ own.alone = alone
    BY <1>4 DEF JobRecords
  <2>2. CASE alone = FALSE
    <3>1. own = [job EXCEPT !.alone = FALSE]
      BY <2>2, <1>4, Zenon
    <3>2. QED
      BY <2>1, <3>1
  <2>3. CASE alone = TRUE
    <3>1. job.alone = TRUE
      BY <2>3, <1>2 DEF JobRecords
    <3>2. own = job
      BY <2>3, <3>1, <1>4 DEF JobRecords
    <3>3. QED
      BY <2>1, <3>2
  <2>4. QED
    BY <2>1, <2>2, <2>3
<1>6. \A m \in DOMAIN jobs : [jobs[m] EXCEPT !.alone = FALSE] \in JobRecords
  BY DEF FileTypes, JobRecords
<1>7. /\ DOMAIN f = DOMAIN jobs /\ f = [m \in DOMAIN f |-> f[m]]
      /\ \A m \in DOMAIN jobs : m # n => f[m] = [jobs[m] EXCEPT !.alone = FALSE]
  BY <1>1 DEF Files!Stepped
<1>8. f[n] = own
  BY <1>3, <1>4 DEF Files!Stepped
<1>9. f \in [DOMAIN jobs -> JobRecords]
  BY <1>5, <1>6, <1>7, <1>8
<1>10. QED
  BY <1>2, <1>5, <1>7, <1>8, <1>9

\* A job that goes on, or fails: no other job was alone beside it.
LEMMA JobKeeps ==
    ASSUME FileInv, NEW n \in DOMAIN jobs, NEW job \in JobRecords,
           jobs' = Files!Stepped(n, job), UNCHANGED <<access, working>>,
           job.by = jobs[n].by, job.context = jobs[n].context, job.op = jobs[n].op,
           job.handle = jobs[n].handle, job.awaited = jobs[n].awaited, job.alone = jobs[n].alone,
           job.step = "moving", job.op = "write" => Follows(job.done, Content[job.by]),
           file' \in Seq(Blocks), NEW offset \in Nat,
           handles' = [handles EXCEPT ![job.handle].offset = offset],
           job.handle \in DOMAIN handles,
           job.alone /\ Files!Proper(n) => offset = Len(job.done) /\ Follows(job.done, file)',
           UndisturbedAccess'
    PROVE  FileInv'
<1>1. FileTypes /\ Descriptors /\ Serialised /\ Progress
  BY DEF FileInv
<1>2. /\ DOMAIN jobs' = DOMAIN jobs /\ jobs' \in [DOMAIN jobs -> JobRecords]
      /\ jobs'[n] \in {[job EXCEPT !.alone = FALSE], job}
      /\ jobs'[n].alone => job.alone /\ Files!Proper(n)
      /\ \A m \in DOMAIN jobs : m # n => jobs'[m] = [jobs[m] EXCEPT !.alone = FALSE]
  BY <1>1, SteppedTyped
<1>3. /\ DOMAIN handles' = DOMAIN handles /\ handles' \in [DOMAIN handles -> HandleRecords]
      /\ handles'[job.handle].offset = offset
      /\ \A h \in DOMAIN handles : handles'[h].locked = handles[h].locked
  BY <1>1 DEF FileTypes, HandleRecords
<1>4. FileTypes'
  BY <1>1, <1>2, <1>3 DEF FileTypes
<1>5. Descriptors'
  <2>1. \A c \in Contexts : HasLock(access[c]) => access[c].fd \in DOMAIN handles
    BY <1>1 DEF Descriptors, HasLock, HasDescriptor
  <2>2. QED
    BY <1>1, <1>3, <2>1 DEF Descriptors, HasLock, HasDescriptor
<1>6. /\ jobs'[n].by = job.by /\ jobs'[n].context = job.context /\ jobs'[n].op = job.op
      /\ jobs'[n].handle = job.handle /\ jobs'[n].awaited = job.awaited
      /\ jobs'[n].step = job.step /\ jobs'[n].done = job.done
  BY <1>2 DEF JobRecords
<1>7. \A m \in DOMAIN jobs : m # n =>
        /\ jobs'[m].by = jobs[m].by /\ jobs'[m].context = jobs[m].context
        /\ jobs'[m].op = jobs[m].op /\ jobs'[m].awaited = jobs[m].awaited
        /\ jobs'[m].step = jobs[m].step /\ jobs'[m].done = jobs[m].done /\ jobs'[m].alone = FALSE
  BY <1>1, <1>2 DEF FileTypes, JobRecords
<1>8. \A m \in DOMAIN jobs : /\ jobs'[m].by = jobs[m].by /\ jobs'[m].context = jobs[m].context
                             /\ jobs'[m].awaited = jobs[m].awaited
  BY <1>6, <1>7
<1>9. Serialised'
  BY <1>1, <1>2, <1>8 DEF Serialised
<1>10. Progress'
  <2>1. ASSUME NEW m \in DOMAIN jobs, m # n
        PROVE  /\ jobs'[m].step = "queued" => jobs'[m].done = <<>>
               /\ jobs'[m].op = "write" => Follows(jobs'[m].done, Content[jobs'[m].by])
               /\ ~jobs'[m].alone
    BY <1>1, <1>7, <2>1 DEF Progress
  <2>2. /\ jobs'[n].step # "queued"
        /\ jobs'[n].op = "write" => Follows(jobs'[n].done, Content[jobs'[n].by])
    BY <1>6
  <2>3. ASSUME jobs'[n].alone
        PROVE  /\ handles'[jobs'[n].handle].offset = Len(jobs'[n].done)
               /\ Follows(jobs'[n].done, file')
    <3>1. Follows(job.done, file)'
      BY <2>3, <1>2
    <3>2. QED
      BY <2>3, <3>1, <1>2, <1>3, <1>6 DEF Follows
  <2>4. QED
    BY <2>1, <2>2, <2>3, <1>2 DEF Progress, Follows
<1>11. QED
  BY <1>4, <1>5, <1>9, <1>10 DEF FileInv

LEMMA JobEnds ==
    ASSUME FileInv, NEW n \in DOMAIN jobs, jobs' = Files!Removed(n), working' = Files!Resumed(n),
           UNCHANGED <<access, handles>>, file' \in Seq(Blocks), UndisturbedAccess'
    PROVE  FileInv'
<1>1. FileTypes /\ Descriptors /\ Serialised /\ Progress
  BY DEF FileInv
<1>2. PICK f : f = Files!Stepped(n, jobs[n])
  OBVIOUS
<1>3. jobs[n] \in JobRecords
  BY <1>1 DEF FileTypes
<1>4. /\ DOMAIN f = DOMAIN jobs /\ f \in [DOMAIN jobs -> JobRecords]
      /\ \A m \in DOMAIN jobs : m # n => f[m] = [jobs[m] EXCEPT !.alone = FALSE]
  BY <1>1, <1>2, <1>3, SteppedTyped
<1>5. jobs' = [m \in DOMAIN jobs \ {n} |-> f[m]]
  BY <1>2 DEF Files!Removed
<1>6. /\ DOMAIN jobs' = DOMAIN jobs \ {n} /\ jobs' \in [DOMAIN jobs' -> JobRecords]
      /\ IsFiniteSet(DOMAIN jobs')
      /\ \A m \in DOMAIN jobs' :
           /\ m \in DOMAIN jobs /\ m # n
           /\ jobs'[m].by = jobs[m].by /\ jobs'[m].context = jobs[m].context
           /\ jobs'[m].op = jobs[m].op /\ jobs'[m].awaited = jobs[m].awaited
           /\ jobs'[m].step = jobs[m].step /\ jobs'[m].done = jobs[m].done /\ jobs'[m].alone = FALSE
  <2>1. DOMAIN jobs' = DOMAIN jobs \ {n} /\ jobs' \in [DOMAIN jobs' -> JobRecords]
    BY <1>4, <1>5
  <2>2. IsFiniteSet(DOMAIN jobs \ {n})
    BY <1>1, FS_Subset DEF FileTypes
  <2>3. ASSUME NEW m \in DOMAIN jobs'
        PROVE  /\ m \in DOMAIN jobs /\ m # n /\ jobs[m] \in JobRecords
               /\ jobs'[m] = [jobs[m] EXCEPT !.alone = FALSE]
    BY <1>1, <1>4, <1>5, <2>1, <2>3 DEF FileTypes
  <2>4. QED
    BY <2>1, <2>2, <2>3 DEF JobRecords
<1>7. /\ working' \in [Readers -> WorkRecords]
      /\ \A t \in Readers : working'[t] = working[t] \/ working'[t] = Files!Idle
      /\ \A t \in Readers : working'[t] # working[t] => jobs[n].awaited /\ t = jobs[n].by
  <2>1. Files!Idle \in WorkRecords /\ jobs[n].by \in Readers
    BY <1>3 DEF Files!Idle, Files!NoHandle, WorkRecords, JobRecords
  <2>2. QED
    BY <1>1, <2>1 DEF Files!Resumed, FileTypes
<1>8. FileTypes'
  BY <1>1, <1>6, <1>7 DEF FileTypes
<1>9. Descriptors'
  BY <1>1 DEF Descriptors
<1>10. Serialised'
  <2>1. \A t \in Readers : working'[t].at # "idle" => working'[t] = working[t]
    BY <1>7 DEF Files!Idle
  <2>2. \A m \in DOMAIN jobs' : jobs'[m].awaited => working'[jobs'[m].by] = working[jobs[m].by]
    <3>1. ASSUME NEW m \in DOMAIN jobs', jobs'[m].awaited
          PROVE  working'[jobs'[m].by] = working[jobs[m].by]
      <4>1. m \in DOMAIN jobs /\ m # n /\ jobs[m].awaited /\ jobs'[m].by = jobs[m].by
        BY <1>6, <3>1
      <4>2. jobs[m].by \in Readers /\ ~(jobs[n].awaited /\ jobs[m].by = jobs[n].by)
        BY <1>1, <4>1 DEF Serialised, FileTypes, JobRecords
      <4>3. QED
        BY <1>7, <4>1, <4>2
    <3>2. QED
      BY <3>1
  <2>3. QED
    BY <1>1, <1>6, <2>1, <2>2 DEF Serialised
<1>11. Progress'
  BY <1>1, <1>6 DEF Progress
<1>12. QED
  BY <1>8, <1>9, <1>10, <1>11 DEF FileInv

LEMMA ContentTyped ==
    ASSUME NEW t \in Readers
    PROVE  Content[t] \in Seq(Blocks)
<1>1. PICK whole \in Seq(STRING) : whole = Content[t]
  BY ServicesAssumption
<1>2. whole = [i \in 1..Len(whole) |-> whole[i]] /\ Len(whole) \in Nat
  OBVIOUS
<1>3. \A i \in 1..Len(whole) : whole[i] \in Blocks
  BY <1>1 DEF Blocks
<1>4. QED
  BY <1>1, <1>2, <1>3

LEMMA PutTyped ==
    ASSUME NEW blocks \in Seq(Blocks), NEW offset \in Nat, NEW b \in Blocks
    PROVE  \E p : /\ p = Files!Put(blocks, offset, b) /\ p \in Seq(Blocks)
                  /\ offset < Len(p) /\ p[offset + 1] = b
                  /\ \A i \in 1..offset : i <= Len(blocks) => p[i] = blocks[i]
<1>0. PICK p : p = Files!Put(blocks, offset, b)
  OBVIOUS
<1>1. PICK zero \in Blocks : zero = Files!Zero
  BY DEF Blocks
<1>2. PICK size \in Nat : /\ size = IF offset < Len(blocks) THEN Len(blocks) ELSE offset + 1
                         /\ offset < size /\ Len(blocks) <= size
  OBVIOUS
<1>3. p = [i \in 1..size |->
              IF i = offset + 1 THEN b ELSE IF i <= Len(blocks) THEN blocks[i] ELSE zero]
  BY <1>0, <1>1, <1>2, Zenon DEF Files!Put
<1>4. p \in [1..size -> Blocks]
  BY <1>2, <1>3
<1>5. p \in Seq(Blocks) /\ Len(p) = size
  BY <1>2, <1>4
<1>6. p[offset + 1] = b
  BY <1>2, <1>3
<1>7. \A i \in 1..offset : i <= Len(blocks) => p[i] = blocks[i]
  BY <1>2, <1>3
<1>8. QED
  BY <1>0, <1>2, <1>5, <1>6, <1>7

LEMMA SeekKeeps ==
    ASSUME FileInv, NEW n \in DOMAIN jobs, Files!Seek(n)
    PROVE  FileInv'
<1> DEFINE job == [jobs[n] EXCEPT !.step = "moving"]
<1>1. FileTypes /\ Progress /\ UndisturbedAccess /\ Serialised
  BY DEF FileInv
<1>2. /\ n \in DOMAIN jobs /\ jobs[n].handle \in DOMAIN handles /\ jobs[n].step = "queued"
      /\ handles' = [handles EXCEPT ![jobs[n].handle].offset = 0]
      /\ jobs' = Files!Stepped(n, job)
      /\ UNCHANGED <<file, access, working, expected, answer>>
      /\ trusted' => trusted
  BY DEF Files!Seek, Files!Usable
<1>3. jobs[n] \in JobRecords
  BY <1>1, <1>2 DEF FileTypes
<1>4. /\ job \in JobRecords /\ job.step = "moving" /\ job.by = jobs[n].by
      /\ job.context = jobs[n].context /\ job.op = jobs[n].op /\ job.handle = jobs[n].handle
      /\ job.awaited = jobs[n].awaited /\ job.alone = jobs[n].alone /\ job.done = jobs[n].done
  BY <1>3 DEF JobRecords
<1>5. /\ job.done = <<>>
      /\ job.op = "write" => Follows(job.done, Content[job.by])
  BY <1>1, <1>2, <1>4 DEF Progress
<1>6. PICK r : r = job
  OBVIOUS
<1> HIDE DEF job
<1>7. 0 = Len(r.done) /\ Follows(r.done, file)'
  BY <1>1, <1>2, <1>5, <1>6 DEF Follows, FileTypes
<1>8. UndisturbedAccess'
  BY <1>1, <1>2 DEF UndisturbedAccess, Files!UndisturbedAccess
<1>9. file' \in Seq(Blocks)
  BY <1>1, <1>2 DEF FileTypes
<1>10. QED
  BY <1>2, <1>4, <1>5, <1>6, <1>7, <1>8, <1>9, JobKeeps

LEMMA MoveKeeps ==
    ASSUME FileInv, NEW n \in DOMAIN jobs, Files!Move(n)
    PROVE  FileInv'
<1>1. FileTypes /\ Progress /\ UndisturbedAccess /\ Serialised
  BY DEF FileInv
<1>2. /\ n \in DOMAIN jobs /\ jobs[n].handle \in DOMAIN handles /\ jobs[n].step = "moving"
      /\ handles' = [handles EXCEPT ![jobs[n].handle].offset = @ + 1]
      /\ UNCHANGED <<access, working, expected, answer>>
  BY DEF Files!Move, Files!Usable
<1>3. jobs[n] \in JobRecords /\ handles[jobs[n].handle] \in HandleRecords
  BY <1>1, <1>2 DEF FileTypes
<1>4. PICK at \in Nat : at = handles[jobs[n].handle].offset
  BY <1>3 DEF HandleRecords
<1>5. handles' = [handles EXCEPT ![jobs[n].handle].offset = at + 1]
  BY <1>2, <1>4
<1>6. /\ jobs[n].done \in Seq(Blocks) /\ Len(jobs[n].done) \in Nat
      /\ jobs[n].op = "write" => Follows(jobs[n].done, Content[jobs[n].by])
      /\ jobs[n].alone /\ Files!Proper(n) => at = Len(jobs[n].done) /\ Follows(jobs[n].done, file)
  BY <1>1, <1>2, <1>3, <1>4 DEF Progress, JobRecords
<1>7. ASSUME NEW b \in Blocks, jobs' = Files!Stepped(n, [jobs[n] EXCEPT !.done = Append(@, b)]),
             jobs[n].op = "write" => Follows(Append(jobs[n].done, b), Content[jobs[n].by]),
             file' \in Seq(Blocks), at < Len(file'), file'[at + 1] = b,
             \A i \in 1..at : i <= Len(file) => file'[i] = file[i],
             UndisturbedAccess'
      PROVE  FileInv'
  <2>1. PICK r : r = [jobs[n] EXCEPT !.done = Append(@, b)]
    OBVIOUS
  <2>2. /\ r \in JobRecords /\ r.step = "moving" /\ r.by = jobs[n].by
        /\ r.context = jobs[n].context /\ r.op = jobs[n].op /\ r.handle = jobs[n].handle
        /\ r.awaited = jobs[n].awaited /\ r.alone = jobs[n].alone
        /\ r.done = Append(jobs[n].done, b)
    <3>1. PICK old \in Seq(Blocks) : old = jobs[n].done
      BY <1>6
    <3>2. Append(old, b) \in Seq(Blocks)
      OBVIOUS
    <3>3. PICK done \in Seq(Blocks) : done = Append(jobs[n].done, b)
      BY <3>1, <3>2
    <3>4. r = [jobs[n] EXCEPT !.done = done]
      BY <2>1, <3>3
    <3>5. QED
      BY <1>2, <1>3, <3>3, <3>4 DEF JobRecords
  <2>3. ASSUME r.alone, Files!Proper(n)
        PROVE  at + 1 = Len(r.done) /\ Follows(r.done, file)'
    <3>1. at = Len(jobs[n].done) /\ Follows(jobs[n].done, file)
      BY <1>6, <2>2, <2>3
    <3>2. \A i \in 1..at : r.done[i] = jobs[n].done[i] /\ jobs[n].done[i] = file[i] /\ i <= Len(file)
      BY <1>1, <1>6, <2>2, <3>1 DEF Follows, FileTypes
    <3>3. Len(r.done) = at + 1 /\ r.done[at + 1] = b
      BY <1>6, <2>2, <3>1
    <3>4. \A i \in 1..(at + 1) : r.done[i] = file'[i]
      BY <1>7, <3>2, <3>3
    <3>5. Len(r.done) <= Len(file')
      BY <1>7, <3>3
    <3>6. QED
      BY <3>3, <3>4, <3>5 DEF Follows
  <2>4. at + 1 \in Nat
    OBVIOUS
  <2>5. jobs' = Files!Stepped(n, r) /\ (r.op = "write" => Follows(r.done, Content[r.by]))
    BY <1>7, <2>1, <2>2
  <2>6. handles' = [handles EXCEPT ![r.handle].offset = at + 1]
    BY <1>5, <2>2
  <2>7. r.handle \in DOMAIN handles /\ UNCHANGED <<access, working>>
    BY <1>2, <2>2
  <2>8. QED
    BY <1>2, <1>7, <2>2, <2>3, <2>4, <2>5, <2>6, <2>7, JobKeeps
<1>8. CASE /\ jobs[n].op = "write" /\ Len(jobs[n].done) < Len(Content[jobs[n].by])
           /\ file' = Files!Put(file, at, Content[jobs[n].by][Len(jobs[n].done) + 1])
           /\ jobs' = Files!Stepped(n, [jobs[n] EXCEPT
                          !.done = Append(@, Content[jobs[n].by][Len(jobs[n].done) + 1])])
           /\ trusted' = FALSE
  <2>1. Content[jobs[n].by] \in Seq(Blocks)
    BY <1>3, ContentTyped DEF JobRecords
  <2>2. PICK b \in Blocks : b = Content[jobs[n].by][Len(jobs[n].done) + 1]
    BY <1>6, <1>8, <2>1
  <2>3. /\ file' \in Seq(Blocks) /\ at < Len(file') /\ file'[at + 1] = b
        /\ \A i \in 1..at : i <= Len(file) => file'[i] = file[i]
    <3>1. file \in Seq(Blocks) /\ file' = Files!Put(file, at, b)
      BY <1>1, <1>8, <2>2 DEF FileTypes
    <3>2. PICK blocks \in Seq(Blocks) : blocks = file
      BY <3>1
    <3>3. PICK p : /\ p = Files!Put(blocks, at, b) /\ p \in Seq(Blocks)
                   /\ at < Len(p) /\ p[at + 1] = b
                   /\ \A i \in 1..at : i <= Len(blocks) => p[i] = blocks[i]
      BY PutTyped
    <3>4. QED
      BY <3>1, <3>2, <3>3
  <2>4. Follows(Append(jobs[n].done, b), Content[jobs[n].by])
    <3>1. PICK done \in Seq(Blocks) : done = jobs[n].done
      BY <1>6
    <3>2. PICK whole \in Seq(Blocks) : whole = Content[jobs[n].by]
      BY <2>1
    <3>3. Follows(done, whole) /\ Len(done) < Len(whole) /\ b = whole[Len(done) + 1]
      BY <1>6, <1>8, <2>2, <3>1, <3>2
    <3>4. Follows(Append(done, b), whole)
      BY <3>3 DEF Follows
    <3>5. QED
      BY <3>1, <3>2, <3>4
  <2>5. UndisturbedAccess'
    BY <1>1, <1>2, <1>8 DEF UndisturbedAccess, Files!UndisturbedAccess
  <2>6. jobs' = Files!Stepped(n, [jobs[n] EXCEPT !.done = Append(@, b)])
    BY <1>8, <2>2
  <2>7. QED
    BY <1>7, <2>3, <2>4, <2>5, <2>6
<1>9. CASE /\ jobs[n].op = "read" /\ at < Len(file)
           /\ jobs' = Files!Stepped(n, [jobs[n] EXCEPT !.done = Append(@, file[at + 1])])
           /\ UNCHANGED <<file, trusted>>
  <2>1. file \in Seq(Blocks)
    BY <1>1 DEF FileTypes
  <2>2. PICK b \in Blocks : b = file[at + 1]
    BY <1>9, <2>1
  <2>3. /\ file' \in Seq(Blocks) /\ at < Len(file') /\ file'[at + 1] = b
        /\ \A i \in 1..at : i <= Len(file) => file'[i] = file[i]
    BY <1>9, <2>1, <2>2
  <2>4. UndisturbedAccess'
    BY <1>1, <1>2, <1>9 DEF UndisturbedAccess, Files!UndisturbedAccess
  <2>5. jobs' = Files!Stepped(n, [jobs[n] EXCEPT !.done = Append(@, b)])
    BY <1>9, <2>2
  <2>6. QED
    BY <1>7, <1>9, <2>3, <2>4, <2>5
<1>10. QED
  BY <1>4, <1>8, <1>9 DEF Files!Move

LEMMA WrittenEnds ==
    ASSUME FileInv, NEW n \in DOMAIN jobs, Files!Written(n)
    PROVE  FileInv'
<1>1. FileTypes /\ Progress /\ UndisturbedAccess /\ Serialised
  BY DEF FileInv
<1>2. /\ n \in DOMAIN jobs /\ jobs[n].step = "moving" /\ jobs[n].op = "write"
      /\ Len(jobs[n].done) = Len(Content[jobs[n].by])
      /\ file' = [i \in 1..Len(Content[jobs[n].by]) |->
                     IF i <= Len(file) THEN file[i] ELSE Files!Zero]
      /\ trusted' = Files!Alone(n)
      /\ expected' = IF Files!Alone(n) THEN Content[jobs[n].by] ELSE expected
      /\ jobs' = Files!Removed(n) /\ working' = Files!Resumed(n)
      /\ UNCHANGED <<access, handles, answer>>
  BY DEF Files!Written, Files!Usable
<1>3. jobs[n] \in JobRecords
  BY <1>1, <1>2 DEF FileTypes
<1>4. PICK content \in Seq(Blocks) : content = Content[jobs[n].by]
  BY <1>3, ContentTyped DEF JobRecords
<1>5. PICK zero \in Blocks : zero = Files!Zero
  BY DEF Blocks
<1>6. PICK p : p = file'
  OBVIOUS
<1>7. p = [i \in 1..Len(content) |-> IF i <= Len(file) THEN file[i] ELSE zero]
  BY <1>2, <1>4, <1>5, <1>6
<1>8. PICK blocks \in Seq(Blocks) : blocks = file
  BY <1>1 DEF FileTypes
<1>9. p \in Seq(Blocks) /\ Len(p) = Len(content)
  <2>1. p \in [1..Len(content) -> Blocks] /\ Len(content) \in Nat
    BY <1>7, <1>8
  <2>2. QED
    BY <2>1
<1>10. ASSUME Files!Alone(n) PROVE p = content
  <2>1. PICK done \in Seq(Blocks) : done = jobs[n].done
    BY <1>3 DEF JobRecords
  <2>2. jobs[n].alone /\ Files!Proper(n)
    BY <1>10 DEF Files!Alone
  <2>3. Follows(done, content) /\ Follows(done, blocks) /\ Len(done) = Len(content)
    BY <1>1, <1>2, <1>4, <1>8, <2>1, <2>2 DEF Progress
  <2>4. \A i \in 1..Len(content) : content[i] = blocks[i] /\ i <= Len(blocks)
    BY <2>3 DEF Follows
  <2>5. \A i \in 1..Len(content) : p[i] = content[i]
    BY <1>7, <1>8, <2>4
  <2>6. QED
    BY <1>9, <2>5, SeqEqual
<1>11. UndisturbedAccess'
  <2>1. trusted' => file' = expected'
    BY <1>2, <1>4, <1>6, <1>10
  <2>2. QED
    BY <1>1, <1>2, <2>1 DEF UndisturbedAccess, Files!UndisturbedAccess
<1>12. file' \in Seq(Blocks)
  BY <1>6, <1>9
<1>13. QED
  BY <1>2, <1>11, <1>12, JobEnds

LEMMA ReadEnds ==
    ASSUME FileInv, NEW n \in DOMAIN jobs, Files!Read(n)
    PROVE  FileInv'
<1>1. FileTypes /\ Progress /\ UndisturbedAccess /\ Serialised
  BY DEF FileInv
<1>2. /\ n \in DOMAIN jobs /\ jobs[n].handle \in DOMAIN handles /\ jobs[n].step = "moving"
      /\ handles[jobs[n].handle].offset >= Len(file)
      /\ answer' = IF trusted /\ Files!Alone(n)
                   THEN [due |-> TRUE, value |-> jobs[n].done, expected |-> expected]
                   ELSE Files!NoAnswer
      /\ jobs' = Files!Removed(n) /\ working' = Files!Resumed(n)
      /\ UNCHANGED <<file, access, handles, trusted, expected>>
  BY DEF Files!Read, Files!Usable
<1>3. jobs[n] \in JobRecords
  BY <1>1, <1>2 DEF FileTypes
<1>4. PICK blocks \in Seq(Blocks), done \in Seq(Blocks) : blocks = file /\ done = jobs[n].done
  BY <1>1, <1>3 DEF FileTypes, JobRecords
<1>5. ASSUME trusted, Files!Alone(n) PROVE jobs[n].done = expected
  <2>1. jobs[n].alone /\ Files!Proper(n)
    BY <1>5 DEF Files!Alone
  <2>2. Follows(done, blocks) /\ Len(done) >= Len(blocks)
    BY <1>1, <1>2, <1>4, <2>1 DEF Progress
  <2>3. Len(done) = Len(blocks) /\ \A i \in 1..Len(done) : done[i] = blocks[i]
    BY <2>2 DEF Follows
  <2>4. done = blocks
    BY <2>3, SeqEqual
  <2>5. file = expected
    BY <1>1, <1>5 DEF UndisturbedAccess, Files!UndisturbedAccess
  <2>6. QED
    BY <1>4, <2>4, <2>5
<1>6. UndisturbedAccess'
  <2>1. CASE trusted /\ Files!Alone(n)
    BY <1>1, <1>2, <1>5, <2>1 DEF UndisturbedAccess, Files!UndisturbedAccess
  <2>2. CASE ~(trusted /\ Files!Alone(n))
    BY <1>1, <1>2, <2>2 DEF UndisturbedAccess, Files!UndisturbedAccess, Files!NoAnswer
  <2>3. QED
    BY <2>1, <2>2
<1>7. file' \in Seq(Blocks)
  BY <1>1, <1>2 DEF FileTypes
<1>8. QED
  BY <1>2, <1>6, <1>7, JobEnds

LEMMA RaisedEnds ==
    ASSUME FileInv, NEW n \in DOMAIN jobs, Files!JobRaises(n)
    PROVE  FileInv'
<1>1. FileTypes /\ UndisturbedAccess
  BY DEF FileInv
<1>2. /\ n \in DOMAIN jobs /\ jobs' = Files!Removed(n) /\ working' = Files!Resumed(n)
      /\ UNCHANGED <<file, access, handles, expected, answer>>
      /\ trusted' => trusted
  BY DEF Files!JobRaises
<1>3. UndisturbedAccess' /\ file' \in Seq(Blocks)
  BY <1>1, <1>2 DEF UndisturbedAccess, Files!UndisturbedAccess, FileTypes
<1>4. QED
  BY <1>2, <1>3, JobEnds
-----------------------------------------------------------------------------
\* A context becomes a, and the descriptors hs: its descriptor stays or is new,
\* its lock is the only one, and the other descriptors stay.
AccessStep(c, a, hs) ==
    /\ hs \in [DOMAIN hs -> HandleRecords] /\ DOMAIN hs \subseteq Nat \ {0} /\ IsFiniteSet(DOMAIN hs)
    /\ \A h \in DOMAIN handles :
           ~(HasDescriptor(access[c]) /\ h = access[c].fd) => h \in DOMAIN hs /\ hs[h] = handles[h]
    /\ HasDescriptor(a) =>
           /\ a.fd \in DOMAIN hs
           /\ (HasDescriptor(access[c]) /\ a.fd = access[c].fd) \/ a.fd \notin DOMAIN handles
    /\ a.phase \in {"new", "opening", "closed"} => a.fd = 0
    /\ a.handle # 0 => a.handle = a.fd /\ a.phase \in UsedPhases \ {"closed"}
    /\ a.exclusive /\ HasLock(a) =>
           /\ hs[a.fd].locked
           /\ \/ access[c].exclusive /\ HasLock(access[c])
              \/ \A h \in DOMAIN handles : ~handles[h].locked
    /\ access[c].phase \in UsedPhases =>
           /\ a.phase \in UsedPhases
           /\ HasLock(a) => /\ HasLock(access[c]) /\ hs = handles
                         /\ a.handle \in {0, access[c].handle}

LEMMA AccessKeeps ==
    ASSUME FileInv, NEW c \in Contexts, NEW a \in AccessRecords, NEW hs, AccessStep(c, a, hs),
           access' = [access EXCEPT ![c] = a], handles' = hs,
           UNCHANGED <<file, working, jobs, trusted, expected, answer>>
    PROVE  FileInv'
<1>1. FileTypes /\ Descriptors /\ Serialised /\ Progress /\ UndisturbedAccess
  BY DEF FileInv
<1>0. /\ handles' = hs /\ hs \in [DOMAIN hs -> HandleRecords]
      /\ DOMAIN hs \subseteq Nat \ {0} /\ IsFiniteSet(DOMAIN hs)
  BY DEF AccessStep
<1>2. /\ access' \in [Contexts -> AccessRecords] /\ access'[c] = a
      /\ \A d \in Contexts : d # c => access'[d] = access[d]
  BY <1>1 DEF FileTypes
<1>3. FileTypes'
  BY <1>0, <1>1, <1>2 DEF FileTypes
<1>4. \A d \in Contexts : /\ access[d] \in AccessRecords
                          /\ HasLock(access[d]) => HasDescriptor(access[d])
                          /\ HasDescriptor(access[d]) => access[d].fd \in DOMAIN handles
  BY <1>1 DEF Descriptors, FileTypes, HasLock, HasDescriptor
<1>5. ASSUME NEW d \in Contexts, d # c, HasDescriptor(access[d])
      PROVE  /\ HasDescriptor(a) => access[d].fd # a.fd
             /\ access[d].fd \in DOMAIN hs /\ hs[access[d].fd] = handles[access[d].fd]
  <2>1. access[d].fd \in DOMAIN handles
    BY <1>4, <1>5
  <2>2. ~(HasDescriptor(access[c]) /\ access[d].fd = access[c].fd)
    BY <1>1, <1>5 DEF Descriptors
  <2>3. QED
    BY <2>1, <2>2 DEF AccessStep
<1>6. ASSUME NEW d \in Contexts, d # c, access[d].exclusive, a.exclusive, HasLock(a)
      PROVE  ~HasLock(access[d])
  <2>1. SUFFICES ASSUME HasLock(access[d]) PROVE FALSE
    OBVIOUS
  <2>2. access[d].fd \in DOMAIN handles /\ handles[access[d].fd].locked
    BY <1>1, <1>4, <1>6, <2>1 DEF Descriptors
  <2>3. access[c].exclusive /\ HasLock(access[c])
    BY <1>6, <2>2 DEF AccessStep
  <2>4. QED
    BY <1>1, <1>6, <2>1, <2>3 DEF Descriptors
<1>7. Descriptors'
  <2>1. ASSUME NEW d \in Contexts
        PROVE  /\ HasDescriptor(access'[d]) => access'[d].fd \in DOMAIN hs
               /\ access'[d].phase \in {"new", "opening", "closed"} => access'[d].fd = 0
               /\ access'[d].handle # 0 =>
                      access'[d].handle = access'[d].fd /\ access'[d].phase \in UsedPhases \ {"closed"}
               /\ access'[d].exclusive /\ HasLock(access'[d]) => hs[access'[d].fd].locked
    <3>1. CASE d = c
      BY <1>2, <3>1 DEF AccessStep
    <3>2. CASE d # c
      BY <1>1, <1>2, <1>4, <1>5, <3>2 DEF Descriptors
    <3>3. QED
      BY <3>1, <3>2
  <2>2. ASSUME NEW d \in Contexts, NEW e \in Contexts, d # e
        PROVE  /\ HasDescriptor(access'[d]) /\ HasDescriptor(access'[e]) =>
                      access'[d].fd # access'[e].fd
               /\ access'[d].exclusive /\ access'[e].exclusive =>
                      ~(HasLock(access'[d]) /\ HasLock(access'[e]))
    <3>1. CASE d # c /\ e # c
      BY <1>1, <1>2, <2>2, <3>1 DEF Descriptors
    <3>2. CASE d = c
      BY <1>2, <1>5, <1>6, <2>2, <3>2
    <3>3. CASE e = c
      BY <1>2, <1>5, <1>6, <2>2, <3>3
    <3>4. QED
      BY <3>1, <3>2, <3>3
  <2>3. QED
    BY <1>0, <2>1, <2>2 DEF Descriptors, HasDescriptor, HasLock
<1>8. Serialised'
  <2>1. \A d \in Contexts : access[d].phase \in UsedPhases => access'[d].phase \in UsedPhases
    BY <1>2 DEF AccessStep
  <2>2. \A n \in DOMAIN jobs : jobs[n].context \in Contexts
    BY <1>1 DEF FileTypes, JobRecords
  <2>3. QED
    BY <1>1, <2>1, <2>2 DEF Serialised
<1>9. Progress'
  <2>1. ASSUME NEW n \in DOMAIN jobs, Files!Proper(n)'
        PROVE  Files!Proper(n) /\ handles'[jobs[n].handle] = handles[jobs[n].handle]
    <3>1. /\ jobs[n].context \in Contexts /\ jobs[n].handle # 0 /\ jobs[n].awaited
          /\ access'[jobs[n].context].handle = jobs[n].handle
          /\ HasLock(access'[jobs[n].context])
          /\ access[jobs[n].context].phase \in UsedPhases
      BY <1>1, <2>1 DEF Serialised, FileTypes, JobRecords, Files!Proper, HasLock
    <3>2. CASE jobs[n].context = c
      <4>1. /\ HasLock(access[c]) /\ hs = handles /\ access[c].handle = jobs[n].handle
        BY <1>2, <3>1, <3>2 DEF AccessStep
      <4>2. QED
        BY <1>0, <3>1, <3>2, <4>1 DEF Files!Proper, HasLock
    <3>3. CASE jobs[n].context # c
      <4>1. access[jobs[n].context].handle = jobs[n].handle /\ HasLock(access[jobs[n].context])
        BY <1>2, <3>1, <3>3
      <4>2. access[jobs[n].context].fd = jobs[n].handle /\ HasDescriptor(access[jobs[n].context])
        BY <1>1, <1>4, <3>1, <4>1 DEF Descriptors
      <4>3. QED
        BY <1>0, <1>5, <3>1, <3>3, <4>1, <4>2 DEF Files!Proper, HasLock
    <3>4. QED
      BY <3>2, <3>3
  <2>2. QED
    BY <1>1, <2>1 DEF Progress
<1>10. UndisturbedAccess'
  BY <1>1 DEF UndisturbedAccess, Files!UndisturbedAccess
<1>11. QED
  BY <1>3, <1>7, <1>8, <1>9, <1>10 DEF FileInv

LEMMA EnterKeeps ==
    ASSUME FileInv, NEW c \in Contexts, Files!Enter(c)
    PROVE  FileInv'
<1>1. FileTypes /\ Descriptors
  BY DEF FileInv
<1>2. access[c] \in AccessRecords /\ access[c].phase = "new" /\ access[c].fd = 0 /\ access[c].handle = 0
  BY <1>1 DEF Files!Enter, FileTypes, Descriptors, UsedPhases
<1>3. PICK exclusive \in BOOLEAN :
          access' = [access EXCEPT ![c] = [access[c] EXCEPT !.phase = "opening", !.awaited = TRUE,
                                                            !.exclusive = exclusive]]
  BY DEF Files!Enter
<1>4. PICK a \in AccessRecords : a = [access[c] EXCEPT !.phase = "opening", !.awaited = TRUE,
                                                       !.exclusive = exclusive]
  BY <1>2 DEF AccessRecords
<1>5. a.phase = "opening" /\ a.fd = 0 /\ a.handle = 0
  BY <1>2, <1>4 DEF AccessRecords
<1>6. UNCHANGED <<file, handles, working, jobs, trusted, expected, answer>>
  BY DEF Files!Enter
<1>7. PICK hs : hs = handles /\ hs = handles'
  BY <1>6
<1>8. access' = [access EXCEPT ![c] = a]
  BY <1>3, <1>4
<1>9. AccessStep(c, a, hs)
  BY <1>1, <1>2, <1>5, <1>7 DEF AccessStep, FileTypes, HasDescriptor, HasLock, UsedPhases
<1>10. QED
  BY <1>6, <1>7, <1>8, <1>9, AccessKeeps

\* What becomes of a context whose descriptor was given.
LEMMA OpenedTyped ==
    ASSUME NEW c \in Contexts, NEW a \in AccessRecords, NEW fd \in Nat \ {0}
    PROVE  \E b \in AccessRecords :
               /\ b = Files!Opened(c, a, fd)
               /\ b.exclusive => a.exclusive
               /\ \/ b.phase = "open" /\ b.fd = fd /\ b.handle = fd
                  \/ b.phase = "closed" /\ b.fd = 0 /\ b.handle = 0
<1>1. PICK b : b = Files!Opened(c, a, fd)
  OBVIOUS
<1>2. /\ b \in AccessRecords
      /\ b.exclusive => a.exclusive
      /\ \/ b.phase = "open" /\ b.fd = fd /\ b.handle = fd
         \/ b.phase = "closed" /\ b.fd = 0 /\ b.handle = 0
  <2>1. CASE a.awaited
    <3>1. b = [a EXCEPT !.phase = "open", !.handle = fd, !.fd = fd]
      BY <1>1, <2>1, Zenon DEF Files!Opened
    <3>2. QED
      BY <3>1 DEF AccessRecords
  <2>2. CASE ~a.awaited
    <3>1. b = Files!Unused("closed")
      BY <1>1, <2>2, Zenon DEF Files!Opened
    <3>2. QED
      BY <3>1 DEF Files!Unused, Files!NoHandle, AccessRecords
  <2>3. QED
    BY <2>1, <2>2
<1>3. QED
  BY <1>1, <1>2

LEMMA OpenKeeps ==
    ASSUME FileInv, NEW c \in Contexts, Files!Open(c)
    PROVE  FileInv'
<1>1. FileTypes /\ Descriptors
  BY DEF FileInv
<1>2. access[c] \in AccessRecords /\ access[c].phase = "opening" /\ access[c].fd = 0 /\ access[c].handle = 0
  BY <1>1 DEF Files!Open, FileTypes, Descriptors, UsedPhases
<1> DEFINE fd == CHOOSE h \in 1..(Files!Cardinality(DOMAIN handles) + 1) :
                     h \notin DOMAIN handles /\ \A g \in 1..(h - 1) : g \in DOMAIN handles
<1>3. fd \in 1..(Files!Cardinality(DOMAIN handles) + 1) /\ fd \notin DOMAIN handles
  <2>1. DOMAIN handles \in SUBSET Nat /\ IsFiniteSet(DOMAIN handles)
    BY <1>1 DEF FileTypes
  <2>2. \E h \in 1..(Files!Cardinality(DOMAIN handles) + 1) :
            h \notin DOMAIN handles /\ \A g \in 1..(h - 1) : g \in DOMAIN handles
    BY <2>1, FreeDescriptor, SameCardinality
  <2>3. QED
    BY <2>2
<1>4. /\ handles' = [h \in DOMAIN handles \cup {fd} |->
                        IF h = fd THEN [offset |-> 0, locked |-> FALSE] ELSE handles[h]]
      /\ access' = [access EXCEPT ![c] =
                        IF access[c].exclusive THEN [access[c] EXCEPT !.phase = "locking", !.fd = fd]
                        ELSE Files!Opened(c, access[c], fd)]
      /\ UNCHANGED <<file, working, jobs, trusted, expected, answer>>
  <2>1. handles' = [h \in DOMAIN handles \cup {fd} |->
                        IF h = fd THEN [offset |-> 0, locked |-> FALSE] ELSE handles[h]]
    BY Zenon DEF Files!Open
  <2>2. access' = [access EXCEPT ![c] =
                        IF access[c].exclusive THEN [access[c] EXCEPT !.phase = "locking", !.fd = fd]
                        ELSE Files!Opened(c, access[c], fd)]
    BY Zenon DEF Files!Open
  <2>3. UNCHANGED <<file, working, jobs, trusted, expected, answer>>
    BY DEF Files!Open
  <2>4. QED
    BY <2>1, <2>2, <2>3
<1>5. PICK d : d = fd
  OBVIOUS
<1> HIDE DEF fd
<1>6. d \in Nat \ {0} /\ d \notin DOMAIN handles
  BY <1>3, <1>5
<1>7. PICK hs : hs = handles'
  OBVIOUS
<1>8. /\ hs = [h \in DOMAIN handles \cup {d} |->
                  IF h = d THEN [offset |-> 0, locked |-> FALSE] ELSE handles[h]]
      /\ DOMAIN hs = DOMAIN handles \cup {d} /\ hs \in [DOMAIN hs -> HandleRecords]
      /\ \A h \in DOMAIN handles : hs[h] = handles[h]
  <2>1. hs = [h \in DOMAIN handles \cup {d} |->
                  IF h = d THEN [offset |-> 0, locked |-> FALSE] ELSE handles[h]]
    BY <1>4, <1>5, <1>7
  <2>2. [offset |-> 0, locked |-> FALSE] \in HandleRecords
    BY DEF HandleRecords
  <2>3. QED
    BY <1>1, <1>6, <2>1, <2>2 DEF FileTypes
<1>9. DOMAIN hs \subseteq Nat \ {0} /\ IsFiniteSet(DOMAIN hs)
  BY <1>1, <1>6, <1>8, FS_AddElement DEF FileTypes
<1>10. CASE access[c].exclusive
  <2>1. PICK a \in AccessRecords : a = [access[c] EXCEPT !.phase = "locking", !.fd = d]
    BY <1>2, <1>6 DEF AccessRecords
  <2>2. a.phase = "locking" /\ a.fd = d /\ a.handle = 0
    BY <1>2, <2>1 DEF AccessRecords
  <2>3. access' = [access EXCEPT ![c] = a]
    BY <1>4, <1>5, <1>10, <2>1
  <2>4. AccessStep(c, a, hs)
    BY <1>2, <1>6, <1>8, <1>9, <2>2 DEF AccessStep, HasDescriptor, HasLock, UsedPhases
  <2>5. QED
    BY <1>4, <1>7, <2>3, <2>4, AccessKeeps
<1>11. CASE ~access[c].exclusive
  <2>1. PICK a \in AccessRecords :
            /\ a = Files!Opened(c, access[c], d)
            /\ a.exclusive => access[c].exclusive
            /\ \/ a.phase = "open" /\ a.fd = d /\ a.handle = d
               \/ a.phase = "closed" /\ a.fd = 0 /\ a.handle = 0
    BY <1>2, <1>6, OpenedTyped
  <2>2. ~a.exclusive
    BY <1>11, <2>1
  <2>3. access' = [access EXCEPT ![c] = a]
    BY <1>4, <1>5, <1>11, <2>1
  <2>4. AccessStep(c, a, hs)
    BY <1>2, <1>6, <1>8, <1>9, <2>1, <2>2 DEF AccessStep, HasDescriptor, HasLock, UsedPhases
  <2>5. QED
    BY <1>4, <1>7, <2>3, <2>4, AccessKeeps
<1>12. QED
  BY <1>10, <1>11

LEMMA FlockKeeps ==
    ASSUME FileInv, NEW c \in Contexts, Files!Flock(c)
    PROVE  FileInv'
<1>1. FileTypes /\ Descriptors
  BY DEF FileInv
<1>2. /\ access[c] \in AccessRecords /\ access[c].phase = "locking"
      /\ access[c].fd \in DOMAIN handles /\ access[c].handle = 0
  BY <1>1 DEF Files!Flock, FileTypes, Descriptors, HasDescriptor, UsedPhases
<1>3. PICK d : d = access[c].fd
  OBVIOUS
<1>4. d \in Nat \ {0} /\ d \in DOMAIN handles
  BY <1>1, <1>2, <1>3 DEF FileTypes
<1>5. /\ \A h \in DOMAIN handles : ~handles[h].locked
      /\ handles' = [handles EXCEPT ![d].locked = TRUE]
      /\ access' = [access EXCEPT ![c] = Files!Opened(c, access[c], access[c].fd)]
      /\ UNCHANGED <<file, working, jobs, trusted, expected, answer>>
  BY <1>3 DEF Files!Flock
<1>6. PICK hs : hs = handles'
  OBVIOUS
<1>7. /\ DOMAIN hs = DOMAIN handles /\ hs \in [DOMAIN hs -> HandleRecords] /\ hs[d].locked
      /\ \A h \in DOMAIN handles : h # d => hs[h] = handles[h]
  BY <1>1, <1>4, <1>5, <1>6 DEF FileTypes, HandleRecords
<1>8. DOMAIN hs \subseteq Nat \ {0} /\ IsFiniteSet(DOMAIN hs)
  BY <1>1, <1>7 DEF FileTypes
<1>9. PICK a \in AccessRecords :
          /\ a = Files!Opened(c, access[c], d)
          /\ \/ a.phase = "open" /\ a.fd = d /\ a.handle = d
             \/ a.phase = "closed" /\ a.fd = 0 /\ a.handle = 0
  BY <1>2, <1>4, OpenedTyped
<1>10. access' = [access EXCEPT ![c] = a]
  BY <1>3, <1>5, <1>9
<1>11. AccessStep(c, a, hs)
  BY <1>2, <1>3, <1>4, <1>5, <1>7, <1>8, <1>9 DEF AccessStep, HasDescriptor, HasLock, UsedPhases
<1>12. QED
  BY <1>5, <1>6, <1>10, <1>11, AccessKeeps

\* A context that is done with its descriptor, which is closed or stays open.
LEMMA ClosedKeeps ==
    ASSUME FileInv, NEW c \in Contexts, access' = [access EXCEPT ![c] = Files!Unused("closed")],
           \/ handles' = handles
           \/ /\ access[c].phase # "released"
              /\ handles' = [h \in DOMAIN handles \ {access[c].fd} |-> handles[h]],
           UNCHANGED <<file, working, jobs, trusted, expected, answer>>
    PROVE  FileInv'
<1>1. FileTypes /\ Descriptors
  BY DEF FileInv
<1>2. PICK a : a = Files!Unused("closed")
  OBVIOUS
<1>3. a \in AccessRecords /\ a.phase = "closed" /\ a.fd = 0 /\ a.handle = 0
  BY <1>2 DEF Files!Unused, Files!NoHandle, AccessRecords
<1>4. PICK hs : hs = handles'
  OBVIOUS
<1>5. /\ DOMAIN hs \subseteq DOMAIN handles /\ hs \in [DOMAIN hs -> HandleRecords]
      /\ \A h \in DOMAIN handles :
             ~(HasDescriptor(access[c]) /\ h = access[c].fd) => h \in DOMAIN hs /\ hs[h] = handles[h]
  <2>1. CASE handles' = handles
    BY <1>1, <1>4, <2>1 DEF FileTypes
  <2>2. CASE /\ access[c].phase # "released"
             /\ handles' = [h \in DOMAIN handles \ {access[c].fd} |-> handles[h]]
    <3>1. access[c] \in AccessRecords /\ 0 \notin DOMAIN handles
      BY <1>1 DEF FileTypes
    <3>2. \A h \in DOMAIN handles : h = access[c].fd => HasDescriptor(access[c])
      BY <1>1, <2>2, <3>1 DEF Descriptors, AccessRecords, HasDescriptor
    <3>3. QED
      BY <1>1, <1>4, <2>2, <3>2 DEF FileTypes
  <2>3. QED
    BY <2>1, <2>2
<1>6. DOMAIN hs \subseteq Nat \ {0} /\ IsFiniteSet(DOMAIN hs)
  BY <1>1, <1>5, FS_Subset DEF FileTypes
<1>7. access' = [access EXCEPT ![c] = a]
  BY <1>2
<1>8. AccessStep(c, a, hs)
  BY <1>3, <1>5, <1>6 DEF AccessStep, HasDescriptor, HasLock, UsedPhases
<1>9. QED
  BY <1>3, <1>4, <1>7, <1>8, AccessKeeps

\* What is known of a context that has a descriptor.
LEMMA DescriptorTyped ==
    ASSUME FileInv, NEW c \in Contexts, HasDescriptor(access[c])
    PROVE  /\ access[c] \in AccessRecords /\ access[c].fd \in DOMAIN handles
           /\ access[c].fd \in Nat \ {0} /\ access[c].handle \in {0, access[c].fd}
           /\ access[c].handle # 0 => access[c].phase \in UsedPhases \ {"closed"}
           /\ access[c].exclusive /\ HasLock(access[c]) => handles[access[c].fd].locked
BY DEF FileInv, FileTypes, Descriptors, AccessRecords

LEMMA LeaveKeeps ==
    ASSUME FileInv, NEW c \in Contexts, Files!Leave(c)
    PROVE  FileInv'
<1>1. access[c].phase = "open" /\ HasDescriptor(access[c]) /\ HasLock(access[c])
  BY DEF Files!Leave, HasDescriptor, HasLock
<1>2. /\ access[c] \in AccessRecords /\ access[c].fd \in DOMAIN handles
      /\ access[c].handle \in {0, access[c].fd}
      /\ access[c].exclusive => handles[access[c].fd].locked
  BY <1>1, DescriptorTyped
<1>3. /\ access' = [access EXCEPT ![c] = [access[c] EXCEPT !.phase = "closing"]]
      /\ UNCHANGED <<file, handles, working, jobs, trusted, expected, answer>>
  <2>1. access' = [access EXCEPT ![c].phase = "closing"]
    BY DEF Files!Leave
  <2>2. QED
    BY <2>1 DEF Files!Leave
<1>4. PICK a \in AccessRecords : a = [access[c] EXCEPT !.phase = "closing"]
  BY <1>2 DEF AccessRecords
<1>5. /\ a.phase = "closing" /\ a.fd = access[c].fd /\ a.handle = access[c].handle
      /\ a.exclusive <=> access[c].exclusive
  BY <1>2, <1>4 DEF AccessRecords
<1>6. PICK hs : hs = handles' /\ hs = handles
  BY <1>3
<1>7. /\ hs \in [DOMAIN hs -> HandleRecords] /\ DOMAIN hs \subseteq Nat \ {0} /\ IsFiniteSet(DOMAIN hs)
  BY <1>6 DEF FileInv, FileTypes
<1>8. access' = [access EXCEPT ![c] = a]
  BY <1>3, <1>4
<1>9. AccessStep(c, a, hs)
  BY <1>1, <1>2, <1>5, <1>6, <1>7 DEF AccessStep, HasDescriptor, HasLock, UsedPhases
<1>10. QED
  BY <1>3, <1>6, <1>8, <1>9, AccessKeeps

LEMMA UnlockKeeps ==
    ASSUME FileInv, NEW c \in Contexts, Files!Unlock(c)
    PROVE  FileInv'
<1>1. access[c].phase = "closing" /\ HasDescriptor(access[c])
  BY DEF Files!Unlock, HasDescriptor
<1>2. PICK d : d = access[c].fd
  OBVIOUS
<1>3. /\ access[c] \in AccessRecords /\ d \in DOMAIN handles /\ access[c].handle \in {0, d}
      /\ d \in Nat \ {0}
  BY <1>1, <1>2, DescriptorTyped
<1>4. /\ handles' = [handles EXCEPT ![d].locked = FALSE]
      /\ access' = [access EXCEPT ![c] = [access[c] EXCEPT !.phase = "unlocked"]]
      /\ UNCHANGED <<file, working, jobs, trusted, expected, answer>>
  <2>1. access' = [access EXCEPT ![c].phase = "unlocked"]
    BY DEF Files!Unlock
  <2>2. QED
    BY <1>2, <2>1 DEF Files!Unlock
<1>5. PICK a \in AccessRecords : a = [access[c] EXCEPT !.phase = "unlocked"]
  BY <1>3 DEF AccessRecords
<1>6. a.phase = "unlocked" /\ a.fd = d /\ a.handle = access[c].handle
  BY <1>2, <1>3, <1>5 DEF AccessRecords
<1>7. PICK hs : hs = handles'
  OBVIOUS
<1>8. /\ DOMAIN hs = DOMAIN handles /\ hs \in [DOMAIN hs -> HandleRecords]
      /\ \A h \in DOMAIN handles : h # d => hs[h] = handles[h]
  BY <1>3, <1>4, <1>7 DEF FileInv, FileTypes, HandleRecords
<1>9. DOMAIN hs \subseteq Nat \ {0} /\ IsFiniteSet(DOMAIN hs)
  BY <1>8 DEF FileInv, FileTypes
<1>10. access' = [access EXCEPT ![c] = a]
  BY <1>4, <1>5
<1>11. AccessStep(c, a, hs)
  BY <1>1, <1>2, <1>3, <1>6, <1>8, <1>9 DEF AccessStep, HasDescriptor, HasLock, UsedPhases
<1>12. QED
  BY <1>4, <1>7, <1>10, <1>11, AccessKeeps

LEMMA CloseKeeps ==
    ASSUME FileInv, NEW c \in Contexts, Files!Close(c)
    PROVE  FileInv'
<1>1. access[c].phase \in {"closing", "unlocked"} /\ HasDescriptor(access[c])
  BY DEF Files!Close, HasDescriptor
<1>2. PICK d : d = access[c].fd
  OBVIOUS
<1>3. access[c] \in AccessRecords /\ access[c].handle \in {0, d} /\ d \in DOMAIN handles
  BY <1>1, <1>2, DescriptorTyped
<1>4. /\ handles' = [h \in DOMAIN handles \ {d} |-> handles[h]]
      /\ UNCHANGED <<file, working, jobs, trusted, expected, answer>>
  BY <1>2 DEF Files!Close
<1>5. CASE ~access[c].awaited
  <2>1. access' = [access EXCEPT ![c] = Files!Unused("closed")]
    BY <1>5, Zenon DEF Files!Close
  <2>2. QED
    BY <1>1, <1>2, <1>4, <2>1, ClosedKeeps
<1>6. CASE access[c].awaited
  <2>1. access' = [access EXCEPT ![c] = [access[c] EXCEPT !.phase = "released"]]
    BY <1>6, Zenon DEF Files!Close
  <2>2. PICK a \in AccessRecords : a = [access[c] EXCEPT !.phase = "released"]
    BY <1>3 DEF AccessRecords
  <2>3. a.phase = "released" /\ a.fd = d /\ a.handle = access[c].handle
    BY <1>2, <1>3, <2>2 DEF AccessRecords
  <2>4. PICK hs : hs = handles'
    OBVIOUS
  <2>5. /\ DOMAIN hs = DOMAIN handles \ {d} /\ hs \in [DOMAIN hs -> HandleRecords]
        /\ \A h \in DOMAIN handles : h # d => h \in DOMAIN hs /\ hs[h] = handles[h]
    BY <1>3, <1>4, <2>4 DEF FileInv, FileTypes
  <2>6. DOMAIN hs \subseteq Nat \ {0} /\ IsFiniteSet(DOMAIN hs)
    BY <2>5, FS_Subset DEF FileInv, FileTypes
  <2>7. access' = [access EXCEPT ![c] = a]
    BY <2>1, <2>2
  <2>8. AccessStep(c, a, hs)
    BY <1>1, <1>2, <1>3, <2>3, <2>5, <2>6 DEF AccessStep, HasDescriptor, HasLock, UsedPhases
  <2>9. QED
    BY <1>4, <2>4, <2>7, <2>8, AccessKeeps
<1>7. QED
  BY <1>5, <1>6

LEMMA ExitedKeeps ==
    ASSUME FileInv, NEW c \in Contexts, Files!Exited(c)
    PROVE  FileInv'
BY ClosedKeeps DEF Files!Exited

LEMMA InterruptKeeps ==
    ASSUME FileInv, NEW c \in Contexts, Files!Interrupt(c)
    PROVE  FileInv'
<1>1. UNCHANGED <<file, handles, working, jobs, trusted, expected, answer>>
  BY DEF Files!Interrupt
<1>2. CASE access' = [access EXCEPT ![c] = Files!Unused("closed")]
  BY <1>1, <1>2, ClosedKeeps
<1>3. CASE /\ access[c].phase \in {"opening", "locking", "closing", "unlocked"}
           /\ access' = [access EXCEPT ![c] = [access[c] EXCEPT !.awaited = FALSE,
                                                                !.handle = Files!NoHandle]]
  <2>1. FileTypes /\ Descriptors
    BY DEF FileInv
  <2>2. access[c] \in AccessRecords
    BY <2>1 DEF FileTypes
  <2>3. PICK a \in AccessRecords : a = [access[c] EXCEPT !.awaited = FALSE, !.handle = Files!NoHandle]
    BY <2>2 DEF AccessRecords, Files!NoHandle
  <2>4. /\ a.phase = access[c].phase /\ a.fd = access[c].fd /\ a.handle = 0
        /\ a.exclusive <=> access[c].exclusive
    BY <2>2, <2>3 DEF AccessRecords, Files!NoHandle
  <2>5. PICK hs : hs = handles' /\ hs = handles
    BY <1>1
  <2>6. /\ hs \in [DOMAIN hs -> HandleRecords] /\ DOMAIN hs \subseteq Nat \ {0} /\ IsFiniteSet(DOMAIN hs)
    BY <2>1, <2>5 DEF FileTypes
  <2>7. access' = [access EXCEPT ![c] = a]
    BY <1>3, <2>3
  <2>8. /\ HasDescriptor(access[c]) => access[c].fd \in DOMAIN hs
        /\ access[c].phase \in {"new", "opening", "closed"} => access[c].fd = 0
        /\ access[c].exclusive /\ HasLock(access[c]) => hs[access[c].fd].locked
    BY <2>1, <2>5 DEF Descriptors
  <2>9. AccessStep(c, a, hs)
    BY <1>3, <2>4, <2>5, <2>6, <2>8 DEF AccessStep, HasDescriptor, HasLock, UsedPhases
  <2>10. QED
    BY <1>1, <2>5, <2>7, <2>9, AccessKeeps
<1>4. QED
  BY <1>2, <1>3 DEF Files!Interrupt

LEMMA OpenRaisesKeeps ==
    ASSUME FileInv, NEW c \in Contexts, Files!OpenRaises(c)
    PROVE  FileInv'
BY ClosedKeeps DEF Files!OpenRaises
-----------------------------------------------------------------------------
LEMMA CallKeeps ==
    ASSUME FileInv, NEW t \in Readers, NEW c \in Contexts, NEW op \in {"read", "write"},
           Files!Call(t, c, op)
    PROVE  FileInv'
<1>1. FileTypes /\ Descriptors /\ Serialised /\ Progress /\ UndisturbedAccess
  BY DEF FileInv
<1>2. PICK w : w = [at |-> "waiting", context |-> c, op |-> op]
  OBVIOUS
<1>3. w \in WorkRecords /\ w.at = "waiting" /\ w.context = c /\ w.op = op
  BY <1>2 DEF WorkRecords
<1>4. /\ working[t].at = "idle" /\ working' = [working EXCEPT ![t] = w]
      /\ UNCHANGED <<file, handles, access, jobs, trusted, expected, answer>>
  BY <1>2 DEF Files!Call
<1>5. FileTypes'
  BY <1>1, <1>3, <1>4 DEF FileTypes
<1>6. Descriptors' /\ Progress' /\ UndisturbedAccess'
  BY <1>1, <1>4 DEF Descriptors, Progress, Files!Proper, UndisturbedAccess, Files!UndisturbedAccess
<1>7. working'[t] = w /\ \A u \in Readers : u # t => working'[u] = working[u]
  BY <1>1, <1>4 DEF FileTypes
<1>8. \A n \in DOMAIN jobs : jobs[n].by \in Readers
  BY <1>1 DEF FileTypes, JobRecords
<1>9. Serialised'
  BY <1>1, <1>3, <1>4, <1>7, <1>8 DEF Serialised
<1>10. QED
  BY <1>5, <1>6, <1>9 DEF FileInv

LEMMA AcquireKeeps ==
    ASSUME FileInv, NEW t \in Readers, Files!Acquire(t)
    PROVE  FileInv'
<1>1. FileTypes /\ Descriptors /\ Serialised /\ Progress /\ UndisturbedAccess
  BY DEF FileInv
<1>2. /\ working[t].at = "waiting" /\ Files!LockFree(working[t].context)
      /\ UNCHANGED <<file, handles, access, trusted, expected, answer>>
  BY DEF Files!Acquire, Files!Acquirable
<1>3. PICK c \in Contexts : c = working[t].context
  BY <1>1, <1>2 DEF Serialised
<1>4. working[t] \in WorkRecords /\ working[t].op \in {"read", "write"} /\ access[c] \in AccessRecords
  BY <1>1, <1>2 DEF Serialised, FileTypes, WorkRecords
<1>5. Descriptors' /\ UndisturbedAccess'
  BY <1>1, <1>2 DEF Descriptors, UndisturbedAccess, Files!UndisturbedAccess
<1>6. \A m \in DOMAIN jobs : jobs[m] \in JobRecords /\ jobs[m].by \in Readers
  BY <1>1 DEF FileTypes, JobRecords
<1>7. \A m \in DOMAIN jobs : jobs[m].awaited => jobs[m].by # t
  BY <1>1, <1>2 DEF Serialised
<1>8. CASE access[c].handle = 0
  <2>1. PICK w : w = Files!Idle
    OBVIOUS
  <2>2. w \in WorkRecords /\ w.at = "idle"
    BY <2>1 DEF Files!Idle, Files!NoHandle, WorkRecords
  <2>3. working' = [working EXCEPT ![t] = w] /\ jobs' = jobs
    BY <1>3, <1>8, <2>1 DEF Files!Acquire, Files!NoHandle
  <2>4. FileTypes' /\ Progress'
    BY <1>1, <1>2, <2>2, <2>3 DEF FileTypes, Progress, Files!Proper
  <2>5. working'[t] = w /\ \A u \in Readers : u # t => working'[u] = working[u]
    BY <1>1, <2>3 DEF FileTypes
  <2>6. Serialised'
    BY <1>1, <1>2, <1>6, <1>7, <2>2, <2>3, <2>5 DEF Serialised
  <2>7. QED
    BY <1>5, <2>4, <2>6 DEF FileInv
<1>9. CASE access[c].handle # 0
  <2>1. PICK job : job = [by |-> t, context |-> c, op |-> working[t].op, handle |-> access[c].handle,
                          step |-> "queued", done |-> <<>>, awaited |-> TRUE, alone |-> TRUE]
    OBVIOUS
  <2>2. /\ job \in JobRecords /\ job.by = t /\ job.context = c /\ job.step = "queued"
        /\ job.done = <<>> /\ job.awaited
    BY <1>4, <1>9, <2>1 DEF JobRecords, AccessRecords
  <2> DEFINE free == CHOOSE m \in 1..(Files!Cardinality(DOMAIN jobs) + 1) : m \notin DOMAIN jobs
  <2>3. free \notin DOMAIN jobs
    BY <1>1, FreeNumber, SameCardinality DEF FileTypes
  <2>4. jobs' = [m \in DOMAIN jobs \cup {free} |->
                    IF m = free THEN [by |-> t, context |-> working[t].context, op |-> working[t].op,
                                      handle |-> access[working[t].context].handle,
                                      step |-> "queued", done |-> <<>>, awaited |-> TRUE, alone |-> TRUE]
                    ELSE jobs[m]]
    BY <1>3, <1>9, Zenon DEF Files!Acquire, Files!NoHandle
  <2>5. PICK n : n = free
    OBVIOUS
  <2> HIDE DEF free
  <2>6. n \notin DOMAIN jobs /\ jobs' = [m \in DOMAIN jobs \cup {n} |-> IF m = n THEN job ELSE jobs[m]]
    BY <1>3, <2>1, <2>3, <2>4, <2>5
  <2>7. /\ DOMAIN jobs' = DOMAIN jobs \cup {n} /\ jobs'[n] = job
        /\ jobs' \in [DOMAIN jobs' -> JobRecords] /\ IsFiniteSet(DOMAIN jobs')
        /\ \A m \in DOMAIN jobs : jobs'[m] = jobs[m]
    BY <1>1, <1>6, <2>2, <2>6, FS_AddElement DEF FileTypes
  <2>8. PICK w : w = [working[t] EXCEPT !.at = "running"]
    OBVIOUS
  <2>9. w \in WorkRecords /\ w.at = "running" /\ w.context = c /\ w.op # "none"
    BY <1>3, <1>4, <2>8 DEF WorkRecords
  <2>10. working' = [working EXCEPT ![t] = w]
    <3>1. working' = [working EXCEPT ![t].at = "running"]
      BY <1>3, <1>9, Zenon DEF Files!Acquire, Files!NoHandle
    <3>2. QED
      BY <2>8, <3>1
  <2>11. working'[t] = w /\ \A u \in Readers : u # t => working'[u] = working[u]
    BY <1>1, <2>10 DEF FileTypes
  <2>12. FileTypes'
    BY <1>1, <1>2, <2>7, <2>9, <2>10 DEF FileTypes
  <2>13. Progress'
    <3>1. job.op = "write" => Follows(<<>>, Content[t])
      BY ContentTyped DEF Follows
    <3>2. \A m \in DOMAIN jobs : Files!Proper(m)' => Files!Proper(m)
      BY <1>2, <2>7 DEF Files!Proper
    <3>3. \A m \in DOMAIN jobs' : m = n \/ m \in DOMAIN jobs
      BY <2>7
    <3>4. \A m \in DOMAIN jobs' : /\ jobs'[m].step = "queued" => jobs'[m].done = <<>>
                                  /\ jobs'[m].op = "write" => Follows(jobs'[m].done, Content[jobs'[m].by])
      BY <1>1, <2>2, <2>7, <3>1, <3>3 DEF Progress
    <3>5. ASSUME NEW m \in DOMAIN jobs', jobs'[m].step = "moving", jobs'[m].alone, Files!Proper(m)'
          PROVE  handles'[jobs'[m].handle].offset = Len(jobs'[m].done) /\ Follows(jobs'[m].done, file')
      BY <1>1, <1>2, <2>2, <2>7, <3>2, <3>3, <3>5 DEF Progress
    <3>6. QED
      BY <3>4, <3>5 DEF Progress, Follows
  <2>14. Serialised'
    <3>1. \A u \in Readers : working'[u].at # "idle" =>
              working'[u].context \in Contexts /\ working'[u].op # "none"
      BY <1>1, <2>9, <2>11 DEF Serialised
    <3>2. ASSUME NEW u \in Readers, working'[u].at = "running", working'[u].context = c
          PROVE  u = t
      BY <1>2, <1>3, <2>11, <3>2 DEF Files!LockFree
    <3>3. \A u, v \in Readers : working'[u].at = "running" /\ working'[v].at = "running"
              /\ working'[u].context = working'[v].context => u = v
      BY <1>1, <2>9, <2>11, <3>2 DEF Serialised
    <3>4. \A m \in DOMAIN jobs' : m = n \/ m \in DOMAIN jobs
      BY <2>7
    <3>5. \A m \in DOMAIN jobs' : jobs'[m].awaited =>
              working'[jobs'[m].by].at = "running" /\ working'[jobs'[m].by].context = jobs'[m].context
      BY <1>1, <1>6, <1>7, <2>2, <2>7, <2>9, <2>11, <3>4 DEF Serialised
    <3>6. access[c].phase \in UsedPhases
      BY <1>1, <1>9 DEF Descriptors
    <3>7. \A m \in DOMAIN jobs' : access'[jobs'[m].context].phase \in UsedPhases
      BY <1>1, <1>2, <2>2, <2>7, <3>4, <3>6 DEF Serialised
    <3>8. \A k, m \in DOMAIN jobs' :
              jobs'[k].awaited /\ jobs'[m].awaited /\ jobs'[k].by = jobs'[m].by => k = m
      BY <1>1, <1>7, <2>2, <2>7, <3>4 DEF Serialised
    <3>9. QED
      BY <3>1, <3>3, <3>5, <3>7, <3>8 DEF Serialised
  <2>15. QED
    BY <1>5, <2>12, <2>13, <2>14 DEF FileInv
<1>10. QED
  BY <1>8, <1>9

LEMMA CancelKeeps ==
    ASSUME FileInv, NEW t \in Readers, Files!Cancel(t)
    PROVE  FileInv'
<1>1. FileTypes /\ Descriptors /\ Serialised /\ Progress /\ UndisturbedAccess
  BY DEF FileInv
<1>2. PICK w : w = Files!Idle
  OBVIOUS
<1>3. w \in WorkRecords /\ w.at = "idle"
  BY <1>2 DEF Files!Idle, Files!NoHandle, WorkRecords
<1>4. /\ working' = [working EXCEPT ![t] = w]
      /\ UNCHANGED <<file, handles, access, trusted, expected, answer>>
  BY <1>2 DEF Files!Cancel
<1>5. PICK kept : kept = {m \in DOMAIN jobs : jobs[m].by # t \/ ~jobs[m].awaited \/ jobs[m].step # "queued"}
  OBVIOUS
<1>6. jobs' = [n \in kept |-> IF jobs[n].by = t THEN [jobs[n] EXCEPT !.awaited = FALSE] ELSE jobs[n]]
  BY <1>5 DEF Files!Cancel
<1>7. kept \subseteq DOMAIN jobs /\ IsFiniteSet(kept)
  BY <1>1, <1>5, FS_Subset DEF FileTypes
<1>8. \A n \in DOMAIN jobs : jobs[n] \in JobRecords /\ jobs[n].by \in Readers
  BY <1>1 DEF FileTypes, JobRecords
<1>9. DOMAIN jobs' = kept /\ jobs' \in [kept -> JobRecords]
  <2>1. \A n \in kept : [jobs[n] EXCEPT !.awaited = FALSE] \in JobRecords
    BY <1>7, <1>8 DEF JobRecords
  <2>2. QED
    BY <1>6, <1>7, <1>8, <2>1
<1>10. \A n \in kept : /\ jobs'[n].by = jobs[n].by /\ jobs'[n].context = jobs[n].context
                       /\ jobs'[n].op = jobs[n].op /\ jobs'[n].handle = jobs[n].handle
                       /\ jobs'[n].step = jobs[n].step /\ jobs'[n].done = jobs[n].done
                       /\ jobs'[n].alone = jobs[n].alone
                       /\ jobs'[n].awaited => jobs[n].awaited /\ jobs[n].by # t
  <2>1. ASSUME NEW n \in kept
        PROVE  /\ jobs'[n].by = jobs[n].by /\ jobs'[n].context = jobs[n].context
               /\ jobs'[n].op = jobs[n].op /\ jobs'[n].handle = jobs[n].handle
               /\ jobs'[n].step = jobs[n].step /\ jobs'[n].done = jobs[n].done
               /\ jobs'[n].alone = jobs[n].alone
               /\ jobs'[n].awaited => jobs[n].awaited /\ jobs[n].by # t
    <3>1. CASE jobs[n].by = t
      <4>1. jobs'[n] = [jobs[n] EXCEPT !.awaited = FALSE]
        BY <1>6, <3>1
      <4>2. QED
        BY <1>7, <1>8, <4>1 DEF JobRecords
    <3>2. CASE jobs[n].by # t
      BY <1>6, <3>2
    <3>3. QED
      BY <3>1, <3>2
  <2>2. QED
    BY <2>1
<1>11. FileTypes'
  BY <1>1, <1>3, <1>4, <1>7, <1>9 DEF FileTypes
<1>12. Descriptors' /\ UndisturbedAccess'
  BY <1>1, <1>4 DEF Descriptors, UndisturbedAccess, Files!UndisturbedAccess
<1>13. working'[t] = w /\ \A u \in Readers : u # t => working'[u] = working[u]
  BY <1>1, <1>4 DEF FileTypes
<1>14. Serialised'
  <2>1. \A n \in kept : jobs'[n].awaited => working'[jobs'[n].by] = working[jobs[n].by]
    BY <1>7, <1>8, <1>10, <1>13
  <2>2. \A n \in kept : jobs'[n].awaited =>
            working'[jobs'[n].by].at = "running" /\ working'[jobs'[n].by].context = jobs'[n].context
    BY <1>1, <1>7, <1>10, <2>1 DEF Serialised
  <2>3. \A u, v \in Readers : working'[u].at = "running" /\ working'[v].at = "running"
            /\ working'[u].context = working'[v].context => u = v
    BY <1>1, <1>3, <1>13 DEF Serialised
  <2>4. \A u \in Readers : working'[u].at # "idle" =>
            working'[u].context \in Contexts /\ working'[u].op # "none"
    BY <1>1, <1>3, <1>13 DEF Serialised
  <2>5. \A n \in kept : access'[jobs'[n].context].phase \in UsedPhases
    BY <1>1, <1>4, <1>7, <1>10 DEF Serialised
  <2>6. \A m, n \in kept :
            jobs'[m].awaited /\ jobs'[n].awaited /\ jobs'[m].by = jobs'[n].by => m = n
    BY <1>1, <1>7, <1>10 DEF Serialised
  <2>7. QED
    BY <1>9, <2>2, <2>3, <2>4, <2>5, <2>6 DEF Serialised
<1>15. Progress'
  <2>1. ASSUME NEW n \in kept, Files!Proper(n)' PROVE Files!Proper(n)
    BY <1>4, <1>10, <2>1 DEF Files!Proper
  <2>2. ASSUME NEW n \in kept
        PROVE  /\ jobs'[n].step = "queued" => jobs'[n].done = <<>>
               /\ jobs'[n].op = "write" => Follows(jobs'[n].done, Content[jobs'[n].by])
               /\ jobs'[n].step = "moving" /\ jobs'[n].alone /\ Files!Proper(n)' =>
                      /\ handles'[jobs'[n].handle].offset = Len(jobs'[n].done)
                      /\ Follows(jobs'[n].done, file')
    BY <1>1, <1>4, <1>7, <1>10, <2>1 DEF Progress
  <2>3. QED
    BY <1>9, <2>2 DEF Progress, Follows
<1>16. QED
  BY <1>11, <1>12, <1>14, <1>15 DEF FileInv
-----------------------------------------------------------------------------
LEMMA FileBegins ==
    ASSUME ServicesInit
    PROVE  FileInv
<1>1. Files!Init
  BY DEF ServicesInit
<1>2. file = <<>> /\ handles = [h \in {} |-> h] /\ jobs = [n \in {} |-> n] /\ expected = <<>>
  BY <1>1 DEF Files!Init
<1>3. /\ access = [c \in Contexts |-> Files!Unused("new")]
      /\ working = [t \in Readers |-> Files!Idle]
      /\ answer = Files!NoAnswer
  BY <1>1 DEF Files!Init
<1>4. /\ Files!Unused("new") \in AccessRecords
      /\ Files!Unused("new").phase = "new" /\ Files!Unused("new").fd = 0
      /\ Files!Unused("new").handle = 0
      /\ Files!Idle \in WorkRecords /\ Files!Idle.at = "idle" /\ ~Files!NoAnswer.due
  BY DEF Files!Unused, Files!NoHandle, Files!Idle, Files!NoAnswer, AccessRecords, WorkRecords
<1>5. DOMAIN handles = {} /\ DOMAIN jobs = {}
  BY <1>2
<1>6. FileTypes
  <2>1. IsFiniteSet({})
    BY FS_EmptySet
  <2>2. handles \in [DOMAIN handles -> HandleRecords] /\ jobs \in [DOMAIN jobs -> JobRecords]
    BY <1>2
  <2>3. access \in [Contexts -> AccessRecords] /\ working \in [Readers -> WorkRecords]
    BY <1>3, <1>4
  <2>4. file \in Seq(Blocks)
    BY <1>2
  <2>5. QED
    BY <1>5, <2>1, <2>2, <2>3, <2>4 DEF FileTypes
<1>7. Descriptors
  BY <1>3, <1>4 DEF Descriptors, HasDescriptor, HasLock
<1>8. Serialised
  BY <1>3, <1>4, <1>5 DEF Serialised
<1>9. Progress
  BY <1>5 DEF Progress
<1>10. UndisturbedAccess
  BY <1>2, <1>3, <1>4 DEF UndisturbedAccess, Files!UndisturbedAccess
<1>11. QED
  BY <1>6, <1>7, <1>8, <1>9, <1>10 DEF FileInv

LEMMA FileKept ==
    ASSUME FileInv, [Files!Next]_fileVars
    PROVE  FileInv'
<1>1. CASE UNCHANGED fileVars
  <2>1. UNCHANGED <<file, handles, access, working, jobs, trusted, expected, answer>>
    BY <1>1 DEF fileVars
  <2>2. FileTypes' /\ Descriptors'
    BY <2>1 DEF FileInv, FileTypes, Descriptors
  <2>3. Serialised' /\ Progress'
    BY <2>1 DEF FileInv, Serialised, Progress, Files!Proper
  <2>4. UndisturbedAccess'
    BY <2>1 DEF FileInv, UndisturbedAccess, Files!UndisturbedAccess
  <2>5. QED
    BY <2>2, <2>3, <2>4 DEF FileInv
<1>2. ASSUME NEW c \in Contexts,
             \/ Files!Enter(c) \/ Files!Open(c) \/ Files!Flock(c) \/ Files!OpenRaises(c)
             \/ Files!Leave(c) \/ Files!Unlock(c) \/ Files!Close(c) \/ Files!Exited(c)
             \/ Files!Interrupt(c)
      PROVE  FileInv'
  BY <1>2, EnterKeeps, OpenKeeps, FlockKeeps, OpenRaisesKeeps, LeaveKeeps, UnlockKeeps, CloseKeeps,
     ExitedKeeps, InterruptKeeps
<1>3. ASSUME NEW t \in Readers,
             \/ \E c \in Contexts, op \in {"read", "write"} : Files!Call(t, c, op)
             \/ Files!Acquire(t) \/ Files!Cancel(t)
      PROVE  FileInv'
  BY <1>3, CallKeeps, AcquireKeeps, CancelKeeps
<1>4. ASSUME NEW n \in DOMAIN jobs,
             \/ Files!Seek(n) \/ Files!Move(n) \/ Files!Written(n) \/ Files!Read(n)
             \/ Files!JobRaises(n)
      PROVE  FileInv'
  BY <1>4, SeekKeeps, MoveKeeps, WrittenEnds, ReadEnds, RaisedEnds
<1>5. QED
  BY <1>1, <1>2, <1>3, <1>4 DEF Files!Next

\* A write that ended well is what the file holds, and a read that ended well
\* returned it, unless a job whose waiter is gone, whose descriptor was unlocked
\* or closed, or whose context has no lock of the file, moved beside it
\* (_write_file_contents and _read_file_contents of helpers/files.py, in threads
\* that go on when the task that waits for them is cancelled).
THEOREM AccessIsUndisturbed == ServicesSpec => []UndisturbedAccess
<1>1. ServicesInit => FileInv
  BY FileBegins
<1>2. FileInv /\ [ServicesNext]_allVars => FileInv'
  <2>1. [ServicesNext]_allVars => [Files!Next]_fileVars
    BY DEF ServicesNext, allVars, fileVars
  <2>2. QED
    BY <2>1, FileKept
<1>3. FileInv => UndisturbedAccess
  BY DEF FileInv
<1>4. QED
  BY <1>1, <1>2, <1>3, PTL DEF ServicesSpec
==============================================================================
