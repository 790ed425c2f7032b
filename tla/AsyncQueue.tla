----------------------------- MODULE AsyncQueue -----------------------------
(***************************************************************************)
(* haiway.utils.queue.AsyncQueue: an unbounded or limited buffer with one  *)
(* consumer that iterates it, any caller that enqueues, clears, finishes   *)
(* or polls it, all on one event loop.  Elements are numbered in the order *)
(* in which they are enqueued.                                             *)
(*                                                                         *)
(* The asyncio part of the model: a consumer that awaits the future kept   *)
(* in _waiting resumes in a later callback than the one that completed the *)
(* future.  Cancelling the consumer's task cancels the future when it is   *)
(* still pending; when the future is already done the task is only marked  *)
(* and CancelledError is raised on resumption in place of the result.      *)
(***************************************************************************)
EXTENDS Integers, Sequences, FiniteSets

CONSTANTS
    Consumers,    \* tasks that may iterate the queue
    Limit,        \* maxlen of the buffer; at least MaxSent stands for None
    MaxInitial,   \* bound: most elements given to the constructor
    MaxSent       \* bound: most elements ever put in the queue

Poller == "poller"    \* any caller of pending_next, whose task iterates nothing

ASSUME QueueAssumption ==
    /\ Poller \notin Consumers
    /\ Limit \in Nat \ {0}
    /\ MaxInitial \in Nat
    /\ MaxSent \in Nat

VARIABLES
    queue,        \* _queue, oldest element first
    waiting,      \* state of the future in _waiting, "none" when there is none
    handed,       \* the result of that future, 0 when it has none
    finished,     \* _finish_reason is not None
    pc,           \* what each consumer is doing
    mustCancel,   \* consumers cancelled after their future was done
    sent,         \* history: number of elements put in the queue
    received,     \* history: elements each reader obtained, in order
    dropped       \* history: elements nobody obtained, by cause

vars == <<queue, waiting, handed, finished, pc, mustCancel, sent, received, dropped>>

Readers == Consumers \cup {Poller}
Causes == {"evicted", "cleared", "cancelled"}

TypeOK ==
    /\ queue \in Seq(Nat) /\ Len(queue) <= Limit
    /\ waiting \in {"none", "pending", "element", "failed", "cancelled"}
    /\ handed \in Nat
    /\ finished \in BOOLEAN
    /\ pc \in [Consumers -> {"idle", "waiting", "ended"}]
    /\ mustCancel \in SUBSET Consumers
    /\ sent \in Nat
    /\ received \in [Readers -> Seq(Nat)]
    /\ dropped \in [Causes -> SUBSET Nat]

\* The newest elements that fit in the buffer when n were put in it at once.
Newest(n) == LET kept == IF n <= Limit THEN n ELSE Limit
             IN  [i \in 1..kept |-> n - kept + i]

Init ==
    /\ sent \in {n \in 0..MaxInitial : n <= MaxSent}
    /\ queue = Newest(sent)
    /\ waiting = "none"
    /\ handed = 0
    /\ finished = FALSE
    /\ pc = [c \in Consumers |-> "idle"]
    /\ mustCancel = {}
    /\ received = [r \in Readers |-> <<>>]
    /\ dropped = [cause \in Causes |->
                    IF cause = "evicted" THEN 1..(sent - Len(queue)) ELSE {}]
-----------------------------------------------------------------------------
\* Mutant: the done() check of the waiting future is left out.
WaiterOpen_DoneUnchecked == waiting # "none"

\* A consumer waits and nothing has completed its future yet.
WaiterOpen == waiting = "pending"

\* Mutant: the full buffer refuses the new element instead of the oldest one.
Buffer_DropNewest(e) ==
    IF Len(queue) < Limit
    THEN queue' = Append(queue, e) /\ UNCHANGED dropped
    ELSE UNCHANGED queue /\ dropped' = [dropped EXCEPT !["evicted"] = @ \cup {e}]

\* deque(maxlen=limit).append: a full buffer loses its oldest element.
Buffer(e) ==
    IF Len(queue) < Limit
    THEN queue' = Append(queue, e) /\ UNCHANGED dropped
    ELSE /\ queue' = Append(Tail(queue), e)
         /\ dropped' = [dropped EXCEPT !["evicted"] = @ \cup {Head(queue)}]

\* enqueue raises once the queue is finished: nothing changes then.
Enqueue ==
    /\ ~finished
    /\ sent < MaxSent
    /\ sent' = sent + 1
    /\ IF WaiterOpen
       THEN waiting' = "element" /\ handed' = sent + 1 /\ UNCHANGED <<queue, dropped>>
       ELSE Buffer(sent + 1) /\ UNCHANGED <<waiting, handed>>
    /\ UNCHANGED <<finished, pc, mustCancel, received>>

\* Mutant: finishing forgets the consumer that already waits.
Finish_NoWakeup ==
    /\ ~finished
    /\ finished' = TRUE
    /\ UNCHANGED <<queue, waiting, handed, pc, mustCancel, sent, received, dropped>>

\* finish and cancel: buffered elements stay, a waiting consumer is failed.
Finish ==
    /\ ~finished
    /\ finished' = TRUE
    /\ waiting' = IF WaiterOpen THEN "failed" ELSE waiting
    /\ UNCHANGED <<queue, handed, pc, mustCancel, sent, received, dropped>>

\* pending_next by any caller; it raises, changing nothing, on an empty buffer.
PendingNext ==
    /\ queue # <<>>
    /\ queue' = Tail(queue)
    /\ received' = [received EXCEPT ![Poller] = Append(@, Head(queue))]
    /\ UNCHANGED <<waiting, handed, finished, pc, mustCancel, sent, dropped>>

\* clear does nothing while a consumer waits on an open future.
Clear ==
    /\ ~WaiterOpen
    /\ queue # <<>>
    /\ dropped' = [dropped EXCEPT !["cleared"] = @ \cup {queue[i] : i \in DOMAIN queue}]
    /\ queue' = <<>>
    /\ UNCHANGED <<waiting, handed, finished, pc, mustCancel, sent, received>>
-----------------------------------------------------------------------------
\* Mutant: the assertion that allows a single consumer is gone.
MayIterate_AnyConsumer(c) == pc[c] = "idle"

\* __anext__ asserts that no other consumer's future is in _waiting.
MayIterate(c) == pc[c] = "idle" /\ waiting = "none"

\* __anext__ with something buffered returns it without waiting.
NextBuffered(c) ==
    /\ MayIterate(c)
    /\ queue # <<>>
    /\ queue' = Tail(queue)
    /\ received' = [received EXCEPT ![c] = Append(@, Head(queue))]
    /\ UNCHANGED <<waiting, handed, finished, pc, mustCancel, sent, dropped>>

\* __anext__ on a finished, drained queue raises the finish reason.
NextEnded(c) ==
    /\ MayIterate(c)
    /\ queue = <<>>
    /\ finished
    /\ pc' = [pc EXCEPT ![c] = "ended"]
    /\ UNCHANGED <<queue, waiting, handed, finished, mustCancel, sent, received, dropped>>

\* __anext__ on an open, empty queue stores a new future and awaits it.
NextWaits(c) ==
    /\ MayIterate(c)
    /\ queue = <<>>
    /\ ~finished
    /\ waiting' = "pending"
    /\ pc' = [pc EXCEPT ![c] = "waiting"]
    /\ UNCHANGED <<queue, handed, finished, mustCancel, sent, received, dropped>>

\* Task.cancel on the consumer.
CancelConsumer(c) ==
    /\ pc[c] = "waiting"
    /\ c \notin mustCancel
    /\ waiting # "cancelled"
    /\ IF waiting = "pending"
       THEN waiting' = "cancelled" /\ UNCHANGED mustCancel
       ELSE mustCancel' = mustCancel \cup {c} /\ UNCHANGED waiting
    /\ UNCHANGED <<queue, handed, finished, pc, sent, received, dropped>>

Interrupted(c) == c \in mustCancel \/ waiting = "cancelled"

\* The consumer's task runs again: the finally clause drops the future
\* whatever the outcome, and an interrupted consumer may iterate again later.
Resume(c) ==
    /\ pc[c] = "waiting"
    /\ waiting \in {"element", "failed", "cancelled"}
    /\ waiting' = "none"
    /\ handed' = 0
    /\ mustCancel' = mustCancel \ {c}
    /\ pc' = [pc EXCEPT ![c] =
                IF ~Interrupted(c) /\ waiting = "failed" THEN "ended" ELSE "idle"]
    /\ received' = IF ~Interrupted(c) /\ waiting = "element"
                   THEN [received EXCEPT ![c] = Append(@, handed)]
                   ELSE received
    /\ dropped' = IF Interrupted(c) /\ waiting = "element"
                  THEN [dropped EXCEPT !["cancelled"] = @ \cup {handed}]
                  ELSE dropped
    /\ UNCHANGED <<queue, finished, sent>>

Consumer(c) == NextBuffered(c) \/ NextEnded(c) \/ NextWaits(c) \/ CancelConsumer(c) \/ Resume(c)

Next ==
    \/ Enqueue
    \/ Finish
    \/ PendingNext
    \/ Clear
    \/ \E c \in Consumers : Consumer(c)

Spec == Init /\ [][Next]_vars

\* The event loop always runs the callback of a completed future.
FairSpec == Spec /\ \A c \in Consumers : WF_vars(Resume(c))
-----------------------------------------------------------------------------
\* A consumer never waits on an open future while an element is buffered or
\* the queue is finished: no order of enqueue, finish and __anext__ loses the
\* wake-up, and the single future is the one its only waiting consumer awaits.
NoLostWakeup ==
    /\ waiting = "pending" => queue = <<>> /\ ~finished
    /\ waiting = "none" <=> \A c \in Consumers : pc[c] # "waiting"
    /\ \A c, d \in Consumers : pc[c] = "waiting" /\ pc[d] = "waiting" => c = d

\* The buffer holds exactly the newest elements that nobody has taken yet, in
\* order, and a handed element is older than all of them.
BufferIsNewest ==
    /\ Len(queue) <= sent
    /\ \A i \in DOMAIN queue : queue[i] = sent - Len(queue) + i
    /\ handed <= sent - Len(queue)

Got(r, e) == \E i \in DOMAIN received[r] : received[r][i] = e

Buffered(e) == \E i \in DOMAIN queue : queue[i] = e

\* Where an element is or what became of it.
Holders(e) ==
    {<<"received", r>> : r \in {r \in Readers : Got(r, e)}}
        \cup {<<"dropped", cause>> : cause \in {cause \in Causes : e \in dropped[cause]}}
        \cup {place \in {<<"buffer">>} : Buffered(e)}
        \cup {place \in {<<"future">>} : handed = e}

\* Every element is in exactly one place: buffered, handed to the waiting
\* consumer, received by one reader or dropped for one cause; and each reader
\* obtains elements in the order in which they were enqueued.  In particular
\* nothing is delivered twice and nothing vanishes without a recorded cause.
Accounting ==
    /\ \A e \in 1..MaxSent : Cardinality(Holders(e)) = IF e <= sent THEN 1 ELSE 0
    /\ \A r \in Readers : \A i, j \in DOMAIN received[r] :
        i < j => received[r][i] < received[r][j]

\* Iteration ends only after everything buffered at finish was taken.
EndedOnlyWhenDrained ==
    (\E c \in Consumers : pc[c] = "ended") => finished /\ queue = <<>>

\* Only the oldest element of a full buffer is ever evicted, and never while
\* a consumer could have been given the new one.
EvictsOldestWhenFull ==
    [][\A e \in dropped'["evicted"] \ dropped["evicted"] :
          Len(queue) = Limit /\ e = Head(queue) /\ waiting # "pending"]_vars

\* Finishing the queue always releases the consumer that waits on it.
FinishReleasesConsumer ==
    finished ~> \A c \in Consumers : pc[c] # "waiting"
\* Once the queue is finished, a consumer that waits can be resumed: its future
\* is done.
FinishedCanResume ==
    finished => \A c \in Consumers :
        pc[c] = "waiting" => waiting \in {"element", "failed", "cancelled"}

\* And no consumer starts to wait, nor is the queue ever open again.
FinishedForGood ==
    [][finished => finished' /\ \A c \in Consumers : pc'[c] = "waiting" => pc[c] = "waiting"]_vars
=============================================================================
