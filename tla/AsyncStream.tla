----------------------------- MODULE AsyncStream -----------------------------
(***************************************************************************)
(* haiway.utils.stream.AsyncStream: producers that wait until the single   *)
(* consumer takes their element, on one event loop.  Elements are numbered *)
(* in the order in which they are sent.                                    *)
(*                                                                         *)
(* As in AsyncQueue, a task resumes in a later callback than the one that  *)
(* completed its future; cancelling it cancels a pending future and marks  *)
(* the task when the future is already done.  Completing a cancelled       *)
(* future raises InvalidStateError.                                        *)
(***************************************************************************)
EXTENDS Integers, Sequences, FiniteSets

CONSTANTS
    Producers,      \* tasks that send
    Cancellable,    \* producers whose task may be cancelled while sending
    MaxSent         \* bound: most elements ever sent

ASSUME StreamAssumption ==
    /\ Cancellable \subseteq Producers
    /\ MaxSent \in Nat

VARIABLES
    pending,          \* _pending: elements waiting to be taken, oldest first
    consumed,         \* the future paired with each element
    sending,          \* the element each producer is sending, 0 when idle
    producerCancel,   \* producers cancelled after their future was done
    waiting,          \* state of the future in _waiting, "none" without one
    handed,           \* its result, 0 when it has none
    finished,         \* _finish_reason is not None
    consumer,         \* what the consumer is doing
    consumerCancel,   \* it was cancelled after its future was done
    sent,             \* history: number of elements sent
    offered,          \* history: elements not discarded on arrival
    taken,            \* history: elements that left the stream, in order
    received,         \* history: elements the consumer obtained
    released,         \* history: elements whose send returned normally
    invalidState      \* history: who met an InvalidStateError

vars == <<pending, consumed, sending, producerCancel, waiting, handed, finished, consumer,
          consumerCancel, sent, offered, taken, received, released, invalidState>>

Elements == 1..MaxSent

TypeOK ==
    /\ pending \in Seq(Elements)
    /\ \A i \in DOMAIN pending : consumed[pending[i]] \in {"pending", "cancelled"}
    /\ consumed \in [Elements -> {"none", "pending", "done", "cancelled"}]
    /\ sending \in [Producers -> 0..MaxSent]
    /\ producerCancel \in SUBSET Producers
    /\ waiting \in {"none", "pending", "element", "failed", "cancelled"}
    /\ handed \in 0..MaxSent
    /\ finished \in BOOLEAN
    /\ consumer \in {"idle", "waiting", "ended", "cancelled"}
    /\ consumerCancel \in BOOLEAN
    /\ sent \in 0..MaxSent
    /\ offered \in Seq(Elements)
    /\ taken \in Seq(Elements)
    /\ received \in Seq(Elements)
    /\ released \in SUBSET Elements
    /\ invalidState \in SUBSET {"consumer", "finisher"}

Init ==
    /\ pending = <<>>
    /\ consumed = [e \in Elements |-> "none"]
    /\ sending = [p \in Producers |-> 0]
    /\ producerCancel = {}
    /\ waiting = "none"
    /\ handed = 0
    /\ finished = FALSE
    /\ consumer = "idle"
    /\ consumerCancel = FALSE
    /\ sent = 0
    /\ offered = <<>>
    /\ taken = <<>>
    /\ received = <<>>
    /\ released = {}
    /\ invalidState = {}
-----------------------------------------------------------------------------
\* Mutant: a consumer that waits is not looked for.
WaiterOpen_Ignored == FALSE

\* Mutant: the done() check of the waiting future is left out.
WaiterOpen_DoneUnchecked == waiting # "none"

\* The consumer waits and nothing has completed its future yet.
WaiterOpen == waiting = "pending"

\* send, up to its first suspension.
Send(p) ==
    /\ sending[p] = 0
    /\ sent < MaxSent
    /\ sent' = sent + 1
    /\ \/ /\ finished
          /\ released' = released \cup {sent + 1}
          /\ UNCHANGED <<pending, consumed, sending, waiting, handed, offered, taken>>
       \/ /\ ~finished
          /\ WaiterOpen
          /\ waiting' = "element"
          /\ handed' = sent + 1
          /\ offered' = Append(offered, sent + 1)
          /\ taken' = Append(taken, sent + 1)
          /\ released' = released \cup {sent + 1}
          /\ UNCHANGED <<pending, consumed, sending>>
       \/ /\ ~finished
          /\ ~WaiterOpen
          /\ pending' = Append(pending, sent + 1)
          /\ consumed' = [consumed EXCEPT ![sent + 1] = "pending"]
          /\ offered' = Append(offered, sent + 1)
          /\ sending' = [sending EXCEPT ![p] = sent + 1]
          /\ UNCHANGED <<waiting, handed, taken, released>>
    /\ UNCHANGED <<producerCancel, finished, consumer, consumerCancel, received, invalidState>>

\* The producer resumes after its future completed or was cancelled.
SendReturns(p) ==
    /\ sending[p] # 0
    /\ consumed[sending[p]] # "pending"
    /\ released' = IF p \in producerCancel \/ consumed[sending[p]] = "cancelled"
                   THEN released
                   ELSE released \cup {sending[p]}
    /\ sending' = [sending EXCEPT ![p] = 0]
    /\ producerCancel' = producerCancel \ {p}
    /\ UNCHANGED <<pending, consumed, waiting, handed, finished, consumer, consumerCancel,
                   sent, offered, taken, received, invalidState>>

\* Task.cancel on a producer; its element stays in _pending either way.
CancelProducer(p) ==
    /\ p \in Cancellable
    /\ sending[p] # 0
    /\ \/ /\ consumed[sending[p]] = "pending"
          /\ consumed' = [consumed EXCEPT ![sending[p]] = "cancelled"]
          /\ UNCHANGED producerCancel
       \/ /\ consumed[sending[p]] = "done"
          /\ producerCancel' = producerCancel \cup {p}
          /\ UNCHANGED consumed
    /\ UNCHANGED <<pending, sending, waiting, handed, finished, consumer, consumerCancel,
                   sent, offered, taken, received, released, invalidState>>
-----------------------------------------------------------------------------
\* The entries finish completes before the first one it cannot complete.
Completable == {i \in DOMAIN pending : \A j \in 1..i : consumed[pending[j]] # "cancelled"}

FinishCompletes == Cardinality(Completable) = Len(pending)

\* The loop of finish on an open stream pops and completes the entries in
\* order; the entry of a cancelled producer is popped too, but ends the loop
\* and the call with InvalidStateError.
ReleaseProducers ==
    /\ finished' = TRUE
    /\ consumed' = [e \in Elements |->
                      IF \E i \in Completable : pending[i] = e THEN "done" ELSE consumed[e]]
    /\ pending' = SubSeq(pending, Cardinality(Completable) + 2, Len(pending))
    /\ invalidState' = IF FinishCompletes THEN invalidState
                       ELSE invalidState \cup {"finisher"}

\* finish and cancel called by whoever owns the stream.
Finish ==
    /\ ~finished
    /\ ReleaseProducers
    /\ waiting' = IF FinishCompletes /\ WaiterOpen THEN "failed" ELSE waiting
    /\ UNCHANGED <<sending, producerCancel, handed, consumer, consumerCancel, sent, offered,
                   taken, received, released>>

\* __anext__ on a finished stream.
NextEnded ==
    /\ consumer = "idle"
    /\ finished
    /\ consumer' = "ended"
    /\ UNCHANGED <<pending, consumed, sending, producerCancel, waiting, handed, finished,
                   consumerCancel, sent, offered, taken, received, released, invalidState>>

\* Mutant: the newest pending element is taken first.
Position_Newest == Len(pending)

\* The entry __anext__ takes out of _pending.
Position == 1

\* What __anext__ leaves in _pending.
Remaining == SubSeq(pending, 1, Position - 1) \o SubSeq(pending, Position + 1, Len(pending))

\* __anext__ takes a pending element and wakes its producer, or meets the
\* entry of a cancelled producer and raises with the element already popped.
NextPending ==
    /\ consumer = "idle"
    /\ ~finished
    /\ pending # <<>>
    /\ LET e == pending[Position]
       IN  /\ pending' = Remaining
           /\ \/ /\ consumed[e] = "pending"
                 /\ consumed' = [consumed EXCEPT ![e] = "done"]
                 /\ taken' = Append(taken, e)
                 /\ received' = Append(received, e)
                 /\ UNCHANGED invalidState
              \/ /\ consumed[e] = "cancelled"
                 /\ invalidState' = invalidState \cup {"consumer"}
                 /\ UNCHANGED <<consumed, taken, received>>
    /\ UNCHANGED <<sending, producerCancel, waiting, handed, finished, consumer,
                   consumerCancel, sent, offered, released>>

\* __anext__ on an open, empty stream.
NextWaits ==
    /\ consumer = "idle"
    /\ ~finished
    /\ pending = <<>>
    /\ waiting' = "pending"
    /\ consumer' = "waiting"
    /\ UNCHANGED <<pending, consumed, sending, producerCancel, handed, finished,
                   consumerCancel, sent, offered, taken, received, released, invalidState>>

\* Task.cancel on the waiting consumer.
CancelConsumer ==
    /\ consumer = "waiting"
    /\ ~consumerCancel
    /\ waiting # "cancelled"
    /\ IF WaiterOpen
       THEN waiting' = "cancelled" /\ UNCHANGED consumerCancel
       ELSE consumerCancel' = TRUE /\ UNCHANGED waiting
    /\ UNCHANGED <<pending, consumed, sending, producerCancel, handed, finished, consumer,
                   sent, offered, taken, received, released, invalidState>>

\* The waiting consumer resumes with an element or with the finish reason.
NextReturns ==
    /\ consumer = "waiting"
    /\ ~consumerCancel
    /\ waiting \in {"element", "failed"}
    /\ consumer' = IF waiting = "element" THEN "idle" ELSE "ended"
    /\ received' = IF waiting = "element" THEN Append(received, handed) ELSE received
    /\ waiting' = "none"
    /\ handed' = 0
    /\ UNCHANGED <<pending, consumed, sending, producerCancel, finished, consumerCancel,
                   sent, offered, taken, released, invalidState>>

\* Mutant: the cancelled consumer leaves the stream open.
CancelsStream_Never == FALSE

\* A cancelled consumer cancels the stream, unless that was done before.
CancelsStream == ~finished

\* The waiting consumer resumes with CancelledError.
NextCancelled ==
    /\ consumer = "waiting"
    /\ consumerCancel \/ waiting = "cancelled"
    /\ IF CancelsStream
       THEN ReleaseProducers
       ELSE UNCHANGED <<finished, pending, consumed, invalidState>>
    /\ consumer' = "cancelled"
    /\ waiting' = "none"
    /\ handed' = 0
    /\ consumerCancel' = FALSE
    /\ UNCHANGED <<sending, producerCancel, sent, offered, taken, received, released>>

Next ==
    \/ \E p \in Producers : Send(p) \/ SendReturns(p) \/ CancelProducer(p)
    \/ Finish
    \/ NextEnded
    \/ NextPending
    \/ NextWaits
    \/ NextReturns
    \/ NextCancelled
    \/ CancelConsumer

Spec == Init /\ [][Next]_vars

\* The event loop resumes every task whose future is done.
FairSpec == Spec /\ WF_vars(NextReturns) /\ WF_vars(NextCancelled)
                 /\ \A p \in Producers : WF_vars(SendReturns(p))
-----------------------------------------------------------------------------
\* No order of send, finish and __anext__ leaves the consumer waiting while
\* there is an element or an end of the stream for it.
NoLostWakeup == TypeOK /\ (waiting = "pending" => pending = <<>> /\ ~finished)

\* What the consumer received is what left the stream, in that order: nothing
\* taken is lost but the one element handed to a consumer that was cancelled
\* before it resumed.
OnlyHandedLost ==
    \/ taken = IF waiting = "element" THEN Append(received, handed) ELSE received
    \/ consumer = "cancelled" /\ \E e \in Elements : taken = Append(received, e)

\* The stream is a hand-off of elements, with `taken` counting an element as
\* soon as it is handed to the consumer's future, and an element withdrawn
\* once the future of its producer was cancelled: elements reach the consumer
\* in order and once each, whatever else is cancelled.
Abstract == INSTANCE Handoff WITH
                closed <- finished,
                withdrawn <- {e \in Elements : consumed[e] = "cancelled"}

ImplementsHandoff == Abstract!Spec

AllReleased == consumer # "waiting" /\ \A p \in Producers : sending[p] = 0

\* Once the stream is finished every producer and the consumer get control.
FinishReleasesAll == finished ~> AllReleased

\* They do whenever finish, or the consumer whose cancellation has to finish
\* the stream, was not itself interrupted by the entry of a cancelled producer.
CompletedFinishReleasesAll ==
    (finished \/ consumer = "cancelled") /\ "finisher" \notin invalidState ~> AllReleased
\* In the states from which CompletedFinishReleasesAll promises it, each of them can
\* be resumed: the future it waits for is done.
FinishedCanReturn ==
    (finished \/ consumer = "cancelled") /\ "finisher" \notin invalidState =>
        /\ finished
        /\ consumer = "waiting" => consumerCancel \/ waiting \in {"element", "failed", "cancelled"}
        /\ \A p \in Producers : sending[p] # 0 => consumed[sending[p]] # "pending"

\* And nobody starts to wait on a finished stream, which stays finished and does
\* not interrupt the one that finished it any more.
FinishedForGood ==
    [][finished =>
        /\ finished'
        /\ "finisher" \in invalidState' => "finisher" \in invalidState
        /\ consumer' = "waiting" => consumer = "waiting"
        /\ \A p \in Producers : sending'[p] # 0 => sending'[p] = sending[p]]_vars
=============================================================================
