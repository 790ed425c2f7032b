---------------------------- MODULE ContextEvents ----------------------------
(***************************************************************************)
(* haiway.context.events: the event bus of an isolated scope.  For each    *)
(* event type the bus keeps one future, the head; sending completes the    *)
(* head with an event that carries the next future, so the events of a     *)
(* type form a linked chain that every subscription walks on its own.      *)
(* The module includes the part of haiway.context.scope that decides when  *)
(* the bus closes: on scope exit it closes first and only then does the    *)
(* scope wait for the tasks of its group.                                  *)
(*                                                                         *)
(* Subscribers are tasks that make one subscription each.  Those in Group  *)
(* belong to the scope's task group; the others run in the background with *)
(* a copy of the context and still see the bus after it closed.            *)
(***************************************************************************)
EXTENDS Integers, Sequences, FiniteSets

CONSTANTS
    Types,          \* event types
    Subscribers,    \* tasks that subscribe
    Group,          \* those the scope waits for when it exits
    Cancellable,    \* those whose task may be cancelled
    LateSubscribe,  \* a subscription may be made after the bus closed
    MaxSent         \* bound: events sent of each type

ASSUME EventsAssumption ==
    /\ Group \subseteq Subscribers
    /\ Cancellable \subseteq Subscribers
    /\ LateSubscribe \in BOOLEAN
    /\ MaxSent \in Nat

VARIABLES
    chain,       \* every future created for a type, in order of creation
    head,        \* _threads: position of the head of a type, 0 when absent
    phase,       \* of the scope
    pc,          \* what each subscriber is doing
    topic,       \* the type a subscriber subscribed to
    cursor,      \* _future_event: position of the future it awaits next
    mustCancel,  \* subscribers cancelled after their future was done
    sent,        \* history: events of a type sent so far
    joined,      \* history: sent when the subscription was made
    received,    \* history: events each subscriber obtained
    closedAt,    \* history: sent when the bus closed
    cancelled,   \* history: subscribers whose task was cancelled
    sendFailed   \* history: the assertion in _send failed

vars == <<chain, head, phase, pc, topic, cursor, mustCancel, sent, joined,
          received, closedAt, cancelled, sendFailed>>

Open == [state |-> "pending", event |-> 0]
Future == [state : {"pending", "event", "stopped", "cancelled"}, event : Nat]
Gone == {"ended", "cancelled", "left"}

TypeOK ==
    /\ chain \in [Types -> Seq(Future)]
    /\ \A t \in Types : head[t] \in 0..Len(chain[t])
    /\ phase \in {"open", "closing", "exited"}
    /\ pc \in [Subscribers -> {"new", "ready", "waiting"} \cup Gone]
    /\ topic \in [Subscribers -> Types]
    /\ \A s \in Subscribers : cursor[s] \in 0..Len(chain[topic[s]])
    /\ mustCancel \in SUBSET Subscribers
    /\ sent \in [Types -> Nat]
    /\ joined \in [Subscribers -> Nat]
    /\ received \in [Subscribers -> Seq(Nat)]
    /\ closedAt \in [Types -> Nat]
    /\ cancelled \in SUBSET Subscribers
    /\ sendFailed \in BOOLEAN

Init ==
    /\ chain = [t \in Types |-> <<>>]
    /\ head = [t \in Types |-> 0]
    /\ phase = "open"
    /\ pc = [s \in Subscribers |-> "new"]
    /\ topic \in [Subscribers -> Types]
    /\ cursor = [s \in Subscribers |-> 0]
    /\ mustCancel = {}
    /\ sent = [t \in Types |-> 0]
    /\ joined = [s \in Subscribers |-> 0]
    /\ received = [s \in Subscribers |-> <<>>]
    /\ closedAt = [t \in Types |-> 0]
    /\ cancelled = {}
    /\ sendFailed = FALSE

\* The future a subscriber awaits next.
Awaited(s) == chain[topic[s]][cursor[s]]
-----------------------------------------------------------------------------
\* Mutant: the event is delivered but the head stays where it was.
Extended_HeadStays(t) ==
    [chain EXCEPT ![t] = [@ EXCEPT ![head[t]] = [state |-> "event", event |-> sent[t] + 1]]]

\* The chain of a type after its head is completed with the next event.
Extended(t) ==
    [chain EXCEPT ![t] =
        Append([@ EXCEPT ![head[t]] = [state |-> "event", event |-> sent[t] + 1]], Open)]

\* _send of the next event of type t: dropped when nobody ever subscribed,
\* refused by the assertion when the head is already done.
Send(t) ==
    /\ sent[t] < MaxSent
    /\ \/ /\ head[t] = 0
          /\ sent' = [sent EXCEPT ![t] = @ + 1]
          /\ UNCHANGED <<chain, head, sendFailed>>
       \/ /\ head[t] # 0
          /\ chain[t][head[t]].state # "pending"
          /\ sendFailed' = TRUE
          /\ UNCHANGED <<chain, head, sent>>
       \/ /\ head[t] # 0
          /\ chain[t][head[t]].state = "pending"
          /\ chain' = Extended(t)
          /\ head' = [head EXCEPT ![t] = Len(chain'[t])]
          /\ sent' = [sent EXCEPT ![t] = @ + 1]
          /\ UNCHANGED sendFailed
    /\ UNCHANGED <<phase, pc, topic, cursor, mustCancel, joined, received, closedAt, cancelled>>

\* Mutant: the subscription starts at the oldest event still in the chain.
StartingPoint_Oldest(t) == 1

\* A subscription starts at the head.
StartingPoint(t) == IF head[t] = 0 THEN Len(chain[t]) + 1 ELSE head[t]

\* _subscribe: joins the head of the type, creating it for the first one.
Subscribe(s) ==
    LET t == topic[s]
    IN  /\ pc[s] = "new"
        /\ phase = "open" \/ LateSubscribe
        /\ s \in Group => phase # "exited"
        /\ IF head[t] = 0
           THEN /\ chain' = [chain EXCEPT ![t] = Append(@, Open)]
                /\ head' = [head EXCEPT ![t] = Len(chain[t]) + 1]
           ELSE UNCHANGED <<chain, head>>
        /\ cursor' = [cursor EXCEPT ![s] = StartingPoint(t)]
        /\ joined' = [joined EXCEPT ![s] = sent[t]]
        /\ pc' = [pc EXCEPT ![s] = "ready"]
        /\ UNCHANGED <<phase, topic, mustCancel, sent, received, closedAt, cancelled, sendFailed>>

\* __anext__ suspends on the shared future while it is pending.
Await(s) ==
    /\ pc[s] = "ready"
    /\ Awaited(s).state = "pending"
    /\ pc' = [pc EXCEPT ![s] = "waiting"]
    /\ UNCHANGED <<chain, head, phase, topic, cursor, mustCancel, sent, joined,
                   received, closedAt, cancelled, sendFailed>>

\* __anext__ returns or raises, at once or in the callback that resumes it.
Take(s) ==
    /\ pc[s] \in {"ready", "waiting"}
    /\ Awaited(s).state # "pending"
    /\ \/ /\ s \notin mustCancel
          /\ Awaited(s).state = "event"
          /\ cursor' = [cursor EXCEPT ![s] = @ + 1]
          /\ received' = [received EXCEPT ![s] = Append(@, Awaited(s).event)]
          /\ pc' = [pc EXCEPT ![s] = "ready"]
       \/ /\ s \notin mustCancel
          /\ Awaited(s).state = "stopped"
          /\ pc' = [pc EXCEPT ![s] = "ended"]
          /\ UNCHANGED <<cursor, received>>
       \/ /\ s \in mustCancel \/ Awaited(s).state = "cancelled"
          /\ pc' = [pc EXCEPT ![s] = "cancelled"]
          /\ UNCHANGED <<cursor, received>>
    /\ mustCancel' = mustCancel \ {s}
    /\ UNCHANGED <<chain, head, phase, topic, sent, joined, closedAt, cancelled, sendFailed>>

\* Task.cancel on a subscriber: a pending future it awaits is cancelled, and
\* that future is the one every other waiting subscriber of the type awaits.
Cancel(s) ==
    /\ s \in Cancellable \ cancelled
    /\ \/ /\ pc[s] = "ready"
          /\ pc' = [pc EXCEPT ![s] = "cancelled"]
          /\ UNCHANGED <<chain, mustCancel>>
       \/ /\ pc[s] = "waiting"
          /\ Awaited(s).state = "pending"
          /\ chain' = [chain EXCEPT ![topic[s]][cursor[s]].state = "cancelled"]
          /\ UNCHANGED <<pc, mustCancel>>
       \/ /\ pc[s] = "waiting"
          /\ Awaited(s).state # "pending"
          /\ mustCancel' = mustCancel \cup {s}
          /\ UNCHANGED <<chain, pc>>
    /\ cancelled' = cancelled \cup {s}
    /\ UNCHANGED <<head, phase, topic, cursor, sent, joined, received, closedAt, sendFailed>>

\* A subscriber leaves its loop on its own.
Leave(s) ==
    /\ pc[s] = "ready"
    /\ pc' = [pc EXCEPT ![s] = "left"]
    /\ UNCHANGED <<chain, head, phase, topic, cursor, mustCancel, sent, joined,
                   received, closedAt, cancelled, sendFailed>>

\* Mutant: closing only forgets the heads.
Stopped_Forgotten(t) == chain[t]

\* The chain of a type once its pending head is failed with StopAsyncIteration.
Stopped(t) ==
    IF head[t] # 0 /\ chain[t][head[t]].state = "pending"
    THEN [chain[t] EXCEPT ![head[t]].state = "stopped"]
    ELSE chain[t]

\* The scope exits its bus first: _close ends every pending head.
Close ==
    /\ phase = "open"
    /\ phase' = "closing"
    /\ chain' = [t \in Types |-> Stopped(t)]
    /\ head' = [t \in Types |-> 0]
    /\ closedAt' = sent
    /\ UNCHANGED <<pc, topic, cursor, mustCancel, sent, joined, received, cancelled, sendFailed>>

\* Then the task group is left, once its tasks are done.
Exit ==
    /\ phase = "closing"
    /\ \A s \in Group : pc[s] \in Gone \cup {"new"}
    /\ phase' = "exited"
    /\ UNCHANGED <<chain, head, pc, topic, cursor, mustCancel, sent, joined, received,
                   closedAt, cancelled, sendFailed>>

Subscriber(s) == Subscribe(s) \/ Await(s) \/ Take(s) \/ Cancel(s) \/ Leave(s)

Next ==
    \/ \E t \in Types : Send(t)
    \/ \E s \in Subscribers : Subscriber(s)
    \/ Close
    \/ Exit

Spec == Init /\ [][Next]_vars

\* Subscribers that can go on do, and the scope leaves when it can.
FairSpec == Spec /\ WF_vars(Exit)
                 /\ \A s \in Subscribers : WF_vars(Await(s)) /\ WF_vars(Take(s))
-----------------------------------------------------------------------------
Subscribed == {s \in Subscribers : pc[s] # "new"}

\* Each subscriber receives exactly the events of its type sent after it
\* subscribed, without gaps, repetitions or reordering, however slowly it
\* iterates and whoever else joins, leaves or is cancelled meanwhile; it is
\* told that the stream ended only after it received all that was sent before
\* the bus closed.
FullStream ==
    \A s \in Subscribed :
        /\ \A i \in DOMAIN received[s] : received[s][i] = joined[s] + i
        /\ pc[s] = "ended" => joined[s] + Len(received[s]) = closedAt[topic[s]]

\* Only a subscriber whose own task was cancelled ends with CancelledError.
IndependentSubscribers ==
    \A s \in Subscribers : pc[s] = "cancelled" => s \in cancelled

\* A subscription keeps the events after it reachable: what a live subscriber
\* awaits next is the first event it has not received, or still pending.
NextEventReachable ==
    /\ TypeOK
    /\ \A s \in Subscribed : pc[s] \notin Gone =>
        /\ cursor[s] \in DOMAIN chain[topic[s]]
        /\ Awaited(s).state = "event" => Awaited(s).event = joined[s] + Len(received[s]) + 1
        /\ Awaited(s).state = "pending" => sent[topic[s]] = joined[s] + Len(received[s])

\* Closing the bus ends every subscription, inside the scope's group and out
\* of it, so the scope's wait for its own group cannot hang on a subscriber.
CloseReleasesAll ==
    phase # "open" ~>
        phase = "exited" /\ \A s \in Subscribers : pc[s] \notin {"ready", "waiting"}
InLoop(s) == pc[s] \in {"ready", "waiting"}

\* The futures that a subscriber has yet to see, the one it awaits included.
FuturesLeft(s) == IF InLoop(s) THEN Len(chain[topic[s]]) - cursor[s] + 1 ELSE 0

\* On a closed bus a subscriber finds the future it awaits done.
ClosedGoesOn ==
    phase # "open" /\ ~LateSubscribe =>
        \A s \in Subscribers : InLoop(s) => Awaited(s).state # "pending"

\* And each one that it takes brings it nearer to its end, from which nothing
\* that anybody does leads it away.
EveryTakeCounts ==
    [][phase # "open" /\ ~LateSubscribe =>
        /\ phase' # "open"
        /\ \A s \in Subscribers :
            /\ FuturesLeft(s)' <= FuturesLeft(s)
            /\ Take(s) => FuturesLeft(s)' < FuturesLeft(s)]_vars
=============================================================================
