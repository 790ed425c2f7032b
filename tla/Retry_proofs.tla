---------------------------- MODULE Retry_proofs ----------------------------
(* Proofs about Retry, for every limit, predicate and kind of function.     *)
EXTENDS Retry, FiniteSetTheorems, TLAPS

\* What a call went through is consistent: it was made, its callbacks are those
\* of a task that ended and of a future that is done, and a future is only
\* cancelled when its caller was.
CallStates ==
    \A k \in Calls :
        /\ task[k] = "new" <=> future[k] = "none"
        /\ task[k] = "new" <=> timer[k] = "unset"
        /\ k \in ended => task[k] \in {"value", "error", "cancelled"}
        /\ k \in settled => Done(k)
        /\ future[k] = "cancelled" => interrupted

\* Where the caller is fits what its attempts went through.
OwnerState ==
    /\ owner = "new" <=> attempt = 0
    /\ owner = "sleeping" => coroutine /\ attempt < Limit + 1 /\ future[attempt] \in catching
    /\ owner = "returned" => Done(attempt)
    /\ owner # "returned" <=> outcome = "none"
    /\ owner = "new" => ~interrupted

\* The inductive invariant.
RInv == CallInv /\ AttemptsJustified /\ CallStates /\ OwnerState

LEMMA RInvInit == Init => RInv
<1> SUFFICES ASSUME Init PROVE RInv
  OBVIOUS
<1> USE DEF Init, TimeoutInit
<1>1. TypeOK
  <2>1. TimeoutTypeOK
    BY DEF TimeoutTypeOK
  <2>2. 0 \in 0..(Limit + 1)
    BY RetryAssumption
  <2> QED
    BY <2>1, <2>2 DEF TypeOK
<1> USE RetryAssumption
<1>2. AbandonedIsStopped /\ AnswersJustified
  BY DEF AbandonedIsStopped, AnswersJustified, Done
<1>3. AttemptsJustified
  BY DEF AttemptsJustified
<1>4. CallStates /\ OwnerState
  BY DEF CallStates, OwnerState
<1> QED
  BY <1>1, <1>2, <1>3, <1>4 DEF RInv, CallInv

\* Once the call began its latest attempt was made.
LEMMA LatestAttempt ==
  ASSUME RInv, owner # "new"
  PROVE  /\ attempt \in Calls
         /\ future[attempt] \in {"pending", "value", "error", "timeout", "cancelled"}
         /\ timer[attempt] # "unset"
<1>1. attempt \in Calls
  BY RetryAssumption DEF RInv, CallInv, TypeOK, OwnerState
<1>2. task[attempt] # "new"
  BY <1>1, RetryAssumption DEF RInv, AttemptsJustified
<1> QED
  BY <1>1, <1>2 DEF RInv, CallInv, TypeOK, TimeoutTypeOK, CallStates

\* A step of the caller that leaves the calls alone.
LEMMA OwnerSteps ==
  ASSUME RInv, UNCHANGED <<timeoutVars, attempt, coroutine, catching, delayed, interrupted>>,
         TypeOK', OwnerState',
         owner' = "returned" => outcome' \in {future[attempt], "cancelled"},
         outcome' = "cancelled" <=> interrupted /\ owner' = "returned"
  PROVE  RInv'
<1> USE DEF timeoutVars
<1>1. AbandonedIsStopped' /\ AnswersJustified'
  BY DEF RInv, CallInv, AbandonedIsStopped, AnswersJustified, Done
<1>2. CallStates'
  BY DEF RInv, CallStates, Done
<1>3. AttemptsJustified'
  BY DEF RInv, AttemptsJustified
<1> QED
  BY <1>1, <1>2, <1>3 DEF RInv, CallInv

\* Making the next attempt keeps the invariant.
LEMMA AttemptKeeps ==
  ASSUME RInv, Attempt, attempt < Limit + 1, ~interrupted,
         owner \in {"new", "waiting", "sleeping"},
         attempt > 0 => coroutine /\ future[attempt] \in catching,
         UNCHANGED <<coroutine, catching, delayed, interrupted>>
  PROVE  RInv'
<1> DEFINE n == attempt + 1
<1>1. n \in Calls /\ task[n] = "new" /\ attempt \in Nat
  BY RetryAssumption DEF RInv, CallInv, TypeOK, AttemptsJustified
<1>2. /\ task' = [task EXCEPT ![n] = "running"]
      /\ future' = [future EXCEPT ![n] = "pending"]
      /\ timer' = [timer EXCEPT ![n] = "set"]
      /\ attempt' = n /\ owner' = "waiting"
      /\ UNCHANGED <<ended, settled, outcome, coroutine, catching, delayed, interrupted>>
  BY DEF Attempt, Call
<1> HIDE DEF n
<1>3. TypeOK'
  BY <1>1, <1>2, RetryAssumption DEF RInv, CallInv, TypeOK, TimeoutTypeOK, n
<1>4. \A k \in Calls : k # n =>
          task'[k] = task[k] /\ future'[k] = future[k] /\ timer'[k] = timer[k]
  BY <1>2 DEF RInv, CallInv, TypeOK, TimeoutTypeOK
<1>5. task'[n] = "running" /\ future'[n] = "pending" /\ timer'[n] = "set"
  BY <1>1, <1>2 DEF RInv, CallInv, TypeOK, TimeoutTypeOK
<1>6. n \notin ended /\ n \notin settled
  BY <1>1 DEF RInv, CallStates, Done
<1>7. AbandonedIsStopped' /\ AnswersJustified'
  BY <1>2, <1>4, <1>5 DEF RInv, CallInv, AbandonedIsStopped, AnswersJustified, Done
<1>8. CallStates'
  BY <1>2, <1>4, <1>5, <1>6 DEF RInv, CallStates, Done
<1>9. AttemptsJustified'
  <2>1. \A k \in 1..(attempt' - 1) : future'[k] \in catching'
    BY <1>1, <1>2, <1>4, RetryAssumption DEF RInv, CallInv, TypeOK, AttemptsJustified, n
  <2>2. \A k \in Calls : k > attempt' <=> task'[k] = "new"
    BY <1>1, <1>2, <1>4, <1>5, RetryAssumption DEF RInv, AttemptsJustified, n
  <2> QED
    BY <1>1, <1>2, <2>1, <2>2 DEF RInv, OwnerState, AttemptsJustified, n
<1>10. OwnerState'
  BY <1>1, <1>2 DEF RInv, OwnerState, n
<1> QED
  BY <1>3, <1>7, <1>8, <1>9, <1>10 DEF RInv, CallInv

\* Completing the future of an answered or unanswered call keeps the invariant,
\* when the outcome is one its task or its timer justifies.
LEMMA SettleKeeps ==
  ASSUME RInv, NEW k \in Calls, NEW outc \in {"value", "error", "timeout", "cancelled"},
         Settle(k, outc), future[k] # "none",
         UNCHANGED <<task, coroutine, catching, delayed, owner, attempt, outcome>>,
         interrupted => interrupted', interrupted' \in BOOLEAN,
         owner \in {"new", "returned"} => interrupted' = interrupted,
         ended' \subseteq ended,
         \A j \in Calls : j # k => timer'[j] = timer[j] /\ (j \in ended => j \in ended'),
         timer' \in [Calls -> {"unset", "set", "over"}],
         timer'[k] # "unset",
         outc \in {"value", "error"} => task[k] = outc,
         outc = "timeout" => timer'[k] = "over",
         timer[k] = "over" => timer'[k] = "over",
         outc = "cancelled" => interrupted'
  PROVE  RInv'
<1> USE DEF Done
<1>1. /\ settled' \subseteq settled \cup {k}
      /\ settled \subseteq settled'
      /\ \A j \in Calls : j # k => future'[j] = future[j]
      /\ future' \in [Calls -> {"none", "pending", "value", "error", "timeout", "cancelled"}]
      /\ Done(k) => future' = future /\ settled' = settled
      /\ ~Done(k) => future'[k] = outc /\ k \in settled'
  BY DEF Settle, Settled, RInv, CallInv, TypeOK, TimeoutTypeOK
<1>2. TypeOK'
  BY <1>1 DEF RInv, CallInv, TypeOK, TimeoutTypeOK
<1>3. AbandonedIsStopped'
  BY <1>1 DEF RInv, CallInv, AbandonedIsStopped
<1>4. AnswersJustified'
  BY <1>1 DEF RInv, CallInv, AnswersJustified
<1>5. CallStates'
  BY <1>1 DEF RInv, CallStates
<1>6. \A j \in Calls : future[j] \in {"value", "error", "timeout"} => future'[j] = future[j]
  BY <1>1
<1>7. attempt \in 0..(Limit + 1) /\ catching \subseteq {"error", "timeout"}
  BY DEF RInv, CallInv, TypeOK
<1>8. AttemptsJustified'
  <2>1. ASSUME NEW j \in 1..(attempt - 1) PROVE future'[j] \in catching
    <3>1. j \in Calls
      BY <1>7, RetryAssumption
    <3>2. future[j] \in catching
      BY DEF RInv, AttemptsJustified
    <3> QED
      BY <1>6, <1>7, <3>1, <3>2
  <2>2. owner = "returned" => future'[attempt] = future[attempt] /\ attempt \in Calls
    BY <1>1, <1>7, RetryAssumption DEF RInv, OwnerState
  <2> QED
    BY <2>1, <2>2 DEF RInv, AttemptsJustified, OwnerState
<1>9. OwnerState'
  <2>1. owner = "sleeping" => attempt < Limit + 1 /\ future'[attempt] \in catching
    BY <1>6, <1>7, LatestAttempt DEF RInv, OwnerState
  <2>2. owner = "returned" => Done(attempt)'
    BY <1>1, LatestAttempt DEF RInv, OwnerState
  <2> QED
    BY <2>1, <2>2 DEF RInv, OwnerState
<1> QED
  BY <1>2, <1>3, <1>4, <1>5, <1>8, <1>9 DEF RInv, CallInv

LEMMA RInvStep == RInv /\ [Next]_vars => RInv'
<1> SUFFICES ASSUME RInv, [Next]_vars PROVE RInv'
  OBVIOUS
<1> USE DEF Done
<1>1. CASE Begin
  BY <1>1, AttemptKeeps, RetryAssumption DEF Begin, RInv, OwnerState
<1>2. CASE Resume
  <2>1. Done(attempt) /\ owner = "waiting" /\ UNCHANGED <<coroutine, catching, delayed, interrupted>>
    BY <1>2 DEF Resume
  <2>2. /\ Answer \in {"value", "error", "timeout", "cancelled"}
        /\ Answer = "cancelled" <=> interrupted
        /\ Answer \in {future[attempt], "cancelled"}
    BY <2>1, LatestAttempt DEF Answer, RInv, CallStates
  <2>3. CASE ~Retried(Answer)
    <3>1. owner' = "returned" /\ outcome' = Answer /\ UNCHANGED <<attempt, timeoutVars>>
      BY <1>2, <2>3 DEF Resume, Return
    <3>2. TypeOK'
      BY <2>1, <2>2, <3>1 DEF RInv, CallInv, TypeOK, TimeoutTypeOK, timeoutVars
    <3>3. OwnerState'
      BY <2>1, <2>2, <3>1 DEF RInv, OwnerState, timeoutVars
    <3> QED
      BY <2>1, <2>2, <3>1, <3>2, <3>3, OwnerSteps
  <2>4. CASE Retried(Answer)
    <3>1. coroutine /\ attempt < Limit + 1 /\ future[attempt] \in catching /\ ~interrupted
      BY <2>2, <2>4 DEF Retried, RInv, CallInv, TypeOK
    <3>2. CASE delayed
      <4>1. owner' = "sleeping" /\ UNCHANGED <<attempt, outcome, timeoutVars>>
        BY <1>2, <2>4, <3>2 DEF Resume
      <4>2. TypeOK' /\ OwnerState'
        BY <2>1, <3>1, <4>1 DEF RInv, CallInv, TypeOK, TimeoutTypeOK, timeoutVars, OwnerState
      <4> QED
        BY <2>1, <3>1, <4>1, <4>2, OwnerSteps DEF RInv, OwnerState
    <3>3. CASE ~delayed
      BY <1>2, <2>1, <2>4, <3>1, <3>3, AttemptKeeps DEF Resume
    <3> QED
      BY <3>2, <3>3
  <2> QED
    BY <2>3, <2>4
<1>3. CASE WakeUp
  <2>1. CASE interrupted
    <3>1. /\ owner = "sleeping" /\ owner' = "returned" /\ outcome' = "cancelled"
          /\ UNCHANGED <<attempt, timeoutVars, coroutine, catching, delayed, interrupted>>
      BY <1>3, <2>1 DEF WakeUp, Return
    <3>2. TypeOK'
      BY <3>1 DEF RInv, CallInv, TypeOK, TimeoutTypeOK, timeoutVars
    <3>3. Done(attempt)
      BY <3>1, LatestAttempt DEF RInv, CallInv, TypeOK, OwnerState
    <3>4. OwnerState'
      BY <3>1, <3>3 DEF RInv, OwnerState, timeoutVars
    <3> QED
      BY <2>1, <3>1, <3>2, <3>4, OwnerSteps
  <2>2. CASE ~interrupted
    BY <1>3, <2>2, AttemptKeeps DEF WakeUp, RInv, OwnerState
  <2> QED
    BY <2>1, <2>2
<1>4. CASE CancelOwner
  <2>1. CASE owner = "waiting"
    <3> QED
      BY <1>4, <2>1, LatestAttempt, SettleKeeps DEF CancelOwner, RInv, CallInv, TypeOK, TimeoutTypeOK
  <2>2. CASE owner # "waiting"
    BY <1>4, <2>2
    DEF CancelOwner, RInv, CallInv, TypeOK, TimeoutTypeOK, timeoutVars, AbandonedIsStopped,
        AnswersJustified, AttemptsJustified, CallStates, OwnerState
  <2> QED
    BY <2>1, <2>2
<1>5. CASE TimeoutNext /\ UNCHANGED retryVars
  <2> USE DEF retryVars
  <2>1. PICK k \in Calls :
          \/ \E how \in {"value", "error", "cancelled"} : TaskEnds(k, how)
          \/ OnCompletion(k)
          \/ OnTimeout(k)
          \/ OnResult(k)
    BY <1>5 DEF TimeoutNext
  <2>2. ASSUME NEW how \in {"value", "error", "cancelled"}, TaskEnds(k, how) PROVE RInv'
    BY <1>5, <2>2, RetryAssumption
    DEF TaskEnds, Running, RInv, CallInv, TypeOK, TimeoutTypeOK, AbandonedIsStopped,
        AnswersJustified, AttemptsJustified, CallStates, OwnerState
  <2>3. CASE OnCompletion(k)
    <3>1. future[k] # "none" /\ task[k] \in {"value", "error", "cancelled"}
      BY <2>3 DEF OnCompletion, RInv, CallStates
    <3>2. CASE task[k] = "cancelled"
      BY <1>5, <2>3, <3>1, <3>2
      DEF OnCompletion, RInv, CallInv, TypeOK, TimeoutTypeOK, AbandonedIsStopped,
          AnswersJustified, AttemptsJustified, CallStates, OwnerState
    <3>3. CASE task[k] # "cancelled"
      BY <1>5, <2>3, <3>1, <3>3, SettleKeeps
      DEF OnCompletion, RInv, CallInv, TypeOK, TimeoutTypeOK
    <3> QED
      BY <3>2, <3>3
  <2>4. CASE OnTimeout(k)
    <3>1. future[k] # "none"
      BY <2>4 DEF OnTimeout, RInv, CallStates
    <3> QED
      BY <1>5, <2>4, <3>1, SettleKeeps DEF OnTimeout, RInv, CallInv, TypeOK, TimeoutTypeOK
  <2>5. CASE OnResult(k)
    BY <1>5, <2>5
    DEF OnResult, RInv, CallInv, TypeOK, TimeoutTypeOK, AbandonedIsStopped,
        AnswersJustified, AttemptsJustified, CallStates, OwnerState
  <2> QED
    BY <2>1, <2>2, <2>3, <2>4, <2>5
<1>6. CASE UNCHANGED vars
  BY <1>6
  DEF vars, timeoutVars, retryVars, RInv, CallInv, TypeOK, TimeoutTypeOK, AbandonedIsStopped,
      AnswersJustified, AttemptsJustified, CallStates, OwnerState
<1> QED
  BY <1>1, <1>2, <1>3, <1>4, <1>5, <1>6 DEF Next

THEOREM Invariance == Spec => []RInv
  BY RInvInit, RInvStep, PTL DEF Spec

\* An answered call has its cause in its task, its timer or its caller, and
\* leaves no task running that nobody told to stop.
THEOREM CallInvHolds == Spec => []CallInv
<1>1. RInv => CallInv
  BY DEF RInv
<1> QED
  BY <1>1, Invariance, PTL

\* Every attempt but the last failed with something that is caught, and the
\* outcome is that of the last one or the cancellation of the caller.
THEOREM AttemptsJustifiedHolds == Spec => []AttemptsJustified
<1>1. RInv => AttemptsJustified
  BY DEF RInv
<1> QED
  BY <1>1, Invariance, PTL

\* A cancelled caller never makes another attempt.
THEOREM CancelledNeverRetriedHolds == Spec => CancelledNeverRetried
<1>1. RInv /\ [Next]_vars => [interrupted => attempt' = attempt]_vars
  <2> SUFFICES ASSUME RInv, Next, interrupted PROVE attempt' = attempt
    BY DEF vars, timeoutVars, retryVars
  <2>1. CASE Begin
    BY <2>1 DEF Begin, RInv, OwnerState
  <2>2. CASE Resume
    BY <2>2 DEF Resume, Answer, Retried, Return, RInv, CallInv, TypeOK
  <2>3. CASE WakeUp
    BY <2>3 DEF WakeUp, Return
  <2> QED
    BY <2>1, <2>2, <2>3 DEF Next, CancelOwner, retryVars
<1> QED
  BY <1>1, Invariance, PTL DEF Spec, CancelledNeverRetried
-----------------------------------------------------------------------------
\* What is counted: calls that were not made, tasks that run, timers that are set.
NotMade == {k \in Calls : task[k] = "new"}
Tasks == {k \in Calls : Running(k)}
Timers == {k \in Calls : timer[k] = "set"}
OwnerLeft ==
    CASE owner = "new" -> 3 [] owner = "waiting" -> 2 [] owner = "sleeping" -> 1
      [] owner = "returned" -> 0
CancelLeft == IF interrupted THEN 0 ELSE 2

\* Sets of calls are finite and counted by naturals.
LEMMA CallsCounted ==
  ASSUME NEW S \in SUBSET Calls
  PROVE  IsFiniteSet(S) /\ Cardinality(S) \in Nat
<1>1. IsFiniteSet(Calls)
  BY RetryAssumption, FS_Interval
<1> QED
  BY <1>1, FS_Subset, FS_CardinalityType

\* One call less, one call more, or at most one more.
LEMMA OneLess ==
  ASSUME NEW S \in SUBSET Calls, NEW k \in S
  PROVE  Cardinality(S \ {k}) = Cardinality(S) - 1
BY CallsCounted, FS_RemoveElement

LEMMA AtMostOneMore ==
  ASSUME NEW S \in SUBSET Calls, NEW k \in Calls, NEW R \in SUBSET Calls, R \subseteq S \cup {k}
  PROVE  Cardinality(R) <= Cardinality(S) + 1
<1>1. Cardinality(S \cup {k}) <= Cardinality(S) + 1
  BY CallsCounted, FS_AddElement
<1>2. Cardinality(R) <= Cardinality(S \cup {k})
  BY CallsCounted, FS_Subset
<1> QED
  BY <1>1, <1>2, CallsCounted

LEMMA NoMore ==
  ASSUME NEW S \in SUBSET Calls, NEW R \in SUBSET S
  PROVE  Cardinality(R) <= Cardinality(S)
BY CallsCounted, FS_Subset

\* The bounds of what is counted, and the sum.
Counted ==
    /\ NotMade \in SUBSET Calls /\ Tasks \in SUBSET Calls /\ Timers \in SUBSET Calls
    /\ ended \in SUBSET Calls /\ settled \in SUBSET Calls
    /\ Cardinality(NotMade) \in Nat /\ Cardinality(Tasks) \in Nat
    /\ Cardinality(Timers) \in Nat /\ Cardinality(ended) \in Nat
    /\ Cardinality(settled) \in Nat
    /\ CancelLeft \in {0, 2} /\ OwnerLeft \in {0, 1, 2, 3}
    /\ StepsLeft = 7 * Cardinality(NotMade) + 3 * Cardinality(Tasks) + 2 * Cardinality(ended)
                    + 2 * Cardinality(Timers) + Cardinality(settled) + CancelLeft + OwnerLeft

LEMMA CountsTyped == RInv => Counted
<1> SUFFICES ASSUME RInv PROVE Counted
  OBVIOUS
<1>1. /\ NotMade \in SUBSET Calls /\ Tasks \in SUBSET Calls /\ Timers \in SUBSET Calls
      /\ ended \in SUBSET Calls /\ settled \in SUBSET Calls
  BY DEF RInv, CallInv, TypeOK, TimeoutTypeOK, NotMade, Tasks, Timers
<1>2. CancelLeft \in {0, 2} /\ OwnerLeft \in {0, 1, 2, 3}
  BY DEF RInv, CallInv, TypeOK, CancelLeft, OwnerLeft
<1>3. StepsLeft = 7 * Cardinality(NotMade) + 3 * Cardinality(Tasks) + 2 * Cardinality(ended)
                  + 2 * Cardinality(Timers) + Cardinality(settled) + CancelLeft + OwnerLeft
  BY DEF StepsLeft, NotMade, Tasks, Timers, OwnerLeft, CancelLeft
<1> QED
  BY <1>1, <1>2, <1>3, CallsCounted DEF Counted

\* Making an attempt costs its call.
LEMMA AttemptCounts ==
  ASSUME RInv, Counted, Counted', Attempt, attempt < Limit + 1, OwnerLeft \in {1, 2, 3},
         UNCHANGED interrupted
  PROVE  StepsLeft' < StepsLeft
<1>1. PICK n \in Calls : n = attempt + 1
  BY RetryAssumption DEF RInv, CallInv, TypeOK
<1>2. n \in NotMade /\ n \notin Tasks
  BY <1>1, RetryAssumption DEF RInv, CallInv, TypeOK, AttemptsJustified, NotMade, Tasks, Running
<1>3. /\ task' = [task EXCEPT ![n] = "running"]
      /\ timer' = [timer EXCEPT ![n] = "set"]
      /\ owner' = "waiting"
      /\ UNCHANGED <<ended, settled>>
  BY <1>1 DEF Attempt, Call
<1>4. NotMade' = NotMade \ {n} /\ Tasks' \subseteq Tasks \cup {n} /\ Timers' \subseteq Timers \cup {n}
  BY <1>3 DEF RInv, CallInv, TypeOK, TimeoutTypeOK, NotMade, Tasks, Timers, Running
<1>5. /\ Cardinality(NotMade') = Cardinality(NotMade) - 1
      /\ Cardinality(Tasks') <= Cardinality(Tasks) + 1
      /\ Cardinality(Timers') <= Cardinality(Timers) + 1
  BY <1>2, <1>4, OneLess, AtMostOneMore DEF Counted
<1>6. OwnerLeft' = 2 /\ CancelLeft' = CancelLeft
  BY <1>3 DEF OwnerLeft, CancelLeft
<1> QED
  BY <1>3, <1>5, <1>6 DEF Counted

\* Completing the future of a call schedules one callback at most.
LEMMA SettleCounts ==
  ASSUME RInv, Counted, Counted', NEW k \in Calls, NEW outc, Settle(k, outc)
  PROVE  Cardinality(settled') <= Cardinality(settled) + 1
<1>1. settled' \subseteq settled \cup {k}
  BY DEF Settle, Settled
<1> QED
  BY <1>1, AtMostOneMore DEF Counted

LEMMA OwnerCounts ==
  ASSUME RInv, Counted, Counted', UNCHANGED <<timeoutVars, interrupted>>, OwnerLeft' < OwnerLeft
  PROVE  StepsLeft' < StepsLeft
<1>1. UNCHANGED <<NotMade, Tasks, Timers, ended, settled, CancelLeft>>
  BY DEF NotMade, Tasks, Timers, CancelLeft, timeoutVars, Running
<1> QED
  BY <1>1 DEF Counted

LEMMA EveryStepLeavesLess ==
  ASSUME RInv, Counted, Counted', Next
  PROVE  StepsLeft' < StepsLeft
<1>1. CASE Begin
  BY <1>1, AttemptCounts, RetryAssumption DEF Begin, RInv, OwnerState, OwnerLeft
<1>2. CASE Resume
  <2>1. owner = "waiting" /\ OwnerLeft = 2 /\ UNCHANGED interrupted
    BY <1>2 DEF Resume, OwnerLeft
  <2>2. CASE Retried(Answer) /\ ~delayed
    BY <1>2, <2>1, <2>2, AttemptCounts DEF Resume, Retried
  <2>3. CASE ~(Retried(Answer) /\ ~delayed)
    <3>1. owner' \in {"sleeping", "returned"} /\ UNCHANGED timeoutVars
      BY <1>2, <2>3 DEF Resume, Return
    <3>2. OwnerLeft' < OwnerLeft
      BY <2>1, <3>1 DEF OwnerLeft
    <3> QED
      BY <2>1, <3>1, <3>2, OwnerCounts
  <2> QED
    BY <2>2, <2>3
<1>3. CASE WakeUp
  <2>1. owner = "sleeping" /\ OwnerLeft = 1 /\ UNCHANGED interrupted
    BY <1>3 DEF WakeUp, OwnerLeft
  <2>2. CASE interrupted
    <3>1. owner' = "returned" /\ UNCHANGED timeoutVars
      BY <1>3, <2>2 DEF WakeUp, Return
    <3>2. OwnerLeft' < OwnerLeft
      BY <2>1, <3>1 DEF OwnerLeft
    <3> QED
      BY <2>1, <3>1, <3>2, OwnerCounts
  <2>3. CASE ~interrupted
    BY <1>3, <2>1, <2>3, AttemptCounts DEF WakeUp, RInv, OwnerState
  <2> QED
    BY <2>2, <2>3
<1>4. CASE CancelOwner
  <2>1. CancelLeft = 2 /\ CancelLeft' = 0 /\ UNCHANGED <<NotMade, Tasks, Timers, ended, OwnerLeft>>
    BY <1>4 DEF CancelOwner, CancelLeft, NotMade, Tasks, Timers, OwnerLeft, timeoutVars, Running
  <2>2. Cardinality(settled') <= Cardinality(settled) + 1
    <3>1. attempt \in Calls
      BY <1>4, LatestAttempt DEF CancelOwner
    <3>2. CASE owner = "waiting"
      BY <1>4, <3>1, <3>2, SettleCounts DEF CancelOwner
    <3>3. CASE owner # "waiting"
      BY <1>4, <3>3 DEF CancelOwner, timeoutVars, Counted
    <3> QED
      BY <3>2, <3>3
  <2> QED
    BY <2>1, <2>2 DEF Counted
<1>5. CASE TimeoutNext /\ UNCHANGED retryVars
  <2>1. PICK k \in Calls :
          \/ \E how \in {"value", "error", "cancelled"} : TaskEnds(k, how)
          \/ OnCompletion(k)
          \/ OnTimeout(k)
          \/ OnResult(k)
    BY <1>5 DEF TimeoutNext
  <2>2. UNCHANGED <<CancelLeft, OwnerLeft>>
    BY <1>5 DEF CancelLeft, OwnerLeft, retryVars
  <2>3. ASSUME NEW how \in {"value", "error", "cancelled"}, TaskEnds(k, how)
        PROVE  StepsLeft' < StepsLeft
    <3>1. /\ k \in Tasks /\ Tasks' = Tasks \ {k} /\ ended' \subseteq ended \cup {k}
          /\ UNCHANGED <<NotMade, Timers, settled>>
      BY <2>3 DEF TaskEnds, Running, RInv, CallInv, TypeOK, TimeoutTypeOK, NotMade, Tasks, Timers
    <3>2. /\ Cardinality(Tasks') = Cardinality(Tasks) - 1
          /\ Cardinality(ended') <= Cardinality(ended) + 1
      BY <3>1, OneLess, AtMostOneMore DEF Counted
    <3> QED
      BY <2>2, <3>1, <3>2 DEF Counted
  <2>4. CASE OnCompletion(k)
    <3>1. /\ k \in ended /\ ended' = ended \ {k} /\ Timers' \subseteq Timers
          /\ UNCHANGED <<NotMade, Tasks>>
      BY <2>4 DEF OnCompletion, Running, RInv, CallInv, TypeOK, TimeoutTypeOK, NotMade, Tasks, Timers
    <3>2. Cardinality(settled') <= Cardinality(settled) + 1
      <4>1. CASE task[k] = "cancelled"
        BY <2>4, <4>1 DEF OnCompletion, Counted
      <4>2. CASE task[k] # "cancelled"
        BY <2>4, <4>2, SettleCounts DEF OnCompletion
      <4> QED
        BY <4>1, <4>2
    <3>3. /\ Cardinality(ended') = Cardinality(ended) - 1
          /\ Cardinality(Timers') <= Cardinality(Timers)
      BY <3>1, OneLess, NoMore DEF Counted
    <3> QED
      BY <2>2, <3>1, <3>2, <3>3 DEF Counted
  <2>5. CASE OnTimeout(k)
    <3>1. k \in Timers /\ Timers' = Timers \ {k} /\ UNCHANGED <<NotMade, Tasks, ended>>
      BY <2>5 DEF OnTimeout, Running, RInv, CallInv, TypeOK, TimeoutTypeOK, NotMade, Tasks, Timers
    <3>2. Cardinality(settled') <= Cardinality(settled) + 1
      BY <2>5, SettleCounts DEF OnTimeout
    <3>3. Cardinality(Timers') = Cardinality(Timers) - 1
      BY <3>1, OneLess DEF Counted
    <3> QED
      BY <2>2, <3>1, <3>2, <3>3 DEF Counted
  <2>6. CASE OnResult(k)
    <3>1. k \in settled /\ settled' = settled \ {k} /\ UNCHANGED <<NotMade, Tasks, Timers, ended>>
      BY <2>6 DEF OnResult, Running, RInv, CallInv, TypeOK, TimeoutTypeOK, NotMade, Tasks, Timers
    <3>2. Cardinality(settled') = Cardinality(settled) - 1
      BY <3>1, OneLess DEF Counted
    <3> QED
      BY <2>2, <3>1, <3>2 DEF Counted
  <2> QED
    BY <2>1, <2>3, <2>4, <2>5, <2>6
<1> QED
  BY <1>1, <1>2, <1>3, <1>4, <1>5 DEF Next

\* Retries come to an end, whoever is cancelled and whatever ends late: what is
\* left to happen is a natural number that every step of the call, of its tasks,
\* timers and callbacks makes smaller.
THEOREM RetriesEnd == Spec => [](StepsLeft \in Nat) /\ EveryStepCounts
<1>1. RInv => StepsLeft \in Nat
  BY CountsTyped DEF Counted
<1>2. RInv /\ Counted /\ Counted' /\ [Next]_vars => [StepsLeft' < StepsLeft]_vars
  BY EveryStepLeavesLess
<1> QED
  BY <1>1, <1>2, CountsTyped, Invariance, PTL DEF Spec, EveryStepCounts

\* A caller of retry around timeout never waits for an answer that nothing gives: its
\* attempt was answered, or the timer of that attempt is set, unless the
\* function raised CancelledError by itself.
THEOREM WaitsGoOn == Spec => []WaitGoesOn
<1>1. RInv => WaitGoesOn
  <2> SUFFICES ASSUME RInv, owner = "waiting", ~Done(attempt)
               PROVE  \/ timer[attempt] = "set"
                      \/ task[attempt] = "cancelled" /\ future[attempt] = "pending"
    BY DEF WaitGoesOn
  <2>1. attempt \in Calls
    BY RetryAssumption DEF RInv, CallInv, TypeOK, OwnerState
  <2>2. attempt \in Nat
    BY RetryAssumption DEF RInv, CallInv, TypeOK
  <2>3. task[attempt] # "new"
    BY <2>1, <2>2 DEF RInv, AttemptsJustified
  <2>4. future[attempt] = "pending"
    BY <2>1, <2>3 DEF RInv, CallStates, Done
  <2>5. QED
    BY <2>1, <2>4 DEF RInv, CallInv, AnswersJustified
<1>2. QED
  BY <1>1, Invariance, PTL
=============================================================================
