------------------------- MODULE RabbitMQConnection -------------------------
(***************************************************************************)
(* haiway.rabbitmq: a client entered by one task, which accesses a queue   *)
(* and consumes its messages, while another publishes through the same     *)
(* access, and declares and purges queues.  The broker and pika are        *)
(* external: they open what is asked for, close it, or lose it, and call   *)
(* back whoever is still there.  Delivery tags count the deliveries of one *)
(* channel, and what a closed channel had not settled goes back to the     *)
(* queue.  Deleting a queue is not modelled: what becomes of its users is  *)
(* up to the broker.                                                       *)
(***************************************************************************)
EXTENDS Integers, Sequences, FiniteSets, SequencesExt

CONSTANTS
    MaxMessages,     \* bound: messages published
    MaxConnections,  \* bound: connections made
    MaxChannels,     \* bound: channels made
    MaxCalls,        \* bound: calls that the helper makes
    MaxDeliveries,   \* bound: deliveries on one channel
    MaxLosses        \* bound: connections and channels lost

Tasks == {"owner", "helper"}

VARIABLES
    connection,   \* _connection, by its number
    connections,  \* the state of every connection made
    channels,     \* the connection, state and deliveries of every channel made, and
                  \* what the broker was asked to do to the queue through it
    consuming,    \* the channels with a consumer
    queued,       \* the messages that the broker has to deliver
    buffer,       \* messages_queue of the queue access
    block,        \* the queue access: its phase and its channel
    call,         \* what each task has called, and what it waits for
    held,         \* deliveries that the consumer has taken and not settled
    published, calls, losses,  \* how many messages, calls and losses there were
    abandoned,    \* history: connections and channels that a task gave up
    gone,         \* history: messages the broker has dropped
    released,     \* history: messages the consumer has let go
    purged        \* history: messages that waited in the queue when it was purged

mqVars == <<connection, connections, channels, consuming, queued, buffer, block, call, held,
            published, calls, losses, abandoned, gone, released, purged>>

NoCall == [op |-> "none", at |-> "idle", of |-> 0]

Init ==
    /\ connection = 0 /\ connections = <<>> /\ channels = <<>> /\ consuming = {}
    /\ queued = <<>> /\ buffer = <<>> /\ held = {}
    /\ block = [phase |-> "out", channel |-> 0]
    /\ call = [t \in Tasks |-> NoCall]
    /\ published = 0 /\ calls = 0 /\ losses = 0
    /\ abandoned = [connections |-> {}, channels |-> {}]
    /\ gone = {} /\ released = {} /\ purged = {}

Calling(t, op, at, of) == call' = [call EXCEPT ![t] = [op |-> op, at |-> at, of |-> of]]
Returned(t) == call' = [call EXCEPT ![t] = NoCall]
ChannelOpen(ch) == ch # 0 /\ channels[ch].state = "open"

brokerVars == <<connections, channels, consuming, queued>>
counts == <<published, calls, losses>>
historyVars == <<abandoned, gone, released, purged>>
-----------------------------------------------------------------------------
(* What the broker does.                                                   *)

Unsettled(chs) ==
    FlattenSeq([ch \in 1..Len(channels) |->
        IF ch \in chs THEN SelectSeq(channels[ch].deliveries, LAMBDA m : m # 0) ELSE <<>>])

\* Channels close: what they did not settle is delivered again, first.
Closed(chs) ==
    /\ channels' = [ch \in DOMAIN channels |->
           IF ch \in chs THEN [channels[ch] EXCEPT !.state = "closed", !.deliveries = <<>>, !.asked = "none"]
           ELSE channels[ch]]
    /\ consuming' = consuming \ chs
    /\ queued' = Unsettled(chs) \o queued

ChannelsOf(c) == {ch \in DOMAIN channels : channels[ch].of = c}

\* A connection opens, and whoever waits for it may go on.
Opens(c) ==
    /\ connections[c] = "opening"
    /\ connections' = [connections EXCEPT ![c] = "open"]
    /\ IF \E t \in Tasks : call[t].at = "connected" /\ call[t].of = c
       THEN LET t == CHOOSE t \in Tasks : call[t].at = "connected" /\ call[t].of = c
            IN Calling(t, call[t].op, "opened", c)
       ELSE UNCHANGED call
    /\ UNCHANGED <<connection, channels, consuming, queued, buffer, block, held, counts, historyVars>>

\* A connection is lost or never opens: nobody who waits is told.
LoseConnection(c) ==
    /\ connections[c] # "closed"
    /\ losses < MaxLosses /\ losses' = losses + 1
    /\ connections' = [connections EXCEPT ![c] = "closed"]
    /\ Closed(ChannelsOf(c))
    /\ UNCHANGED <<connection, buffer, block, call, held, published, calls, historyVars>>

LoseChannel(ch) ==
    /\ channels[ch].state = "open"
    /\ losses < MaxLosses /\ losses' = losses + 1
    /\ Closed({ch})
    /\ UNCHANGED <<connection, connections, buffer, block, call, held, published, calls,
                   historyVars>>

\* A delivery, and consume_message: what cannot be decoded is rejected, back to
\* the queue or not.
Deliver(ch) ==
    /\ ch \in consuming /\ queued # <<>>
    /\ Len(channels[ch].deliveries) < MaxDeliveries
    /\ LET message == Head(queued)
           Delivered(what) == channels' = [channels EXCEPT ![ch].deliveries = Append(@, what)]
       IN \/ /\ Delivered(message)
             /\ buffer' = Append(buffer, [message |-> message, channel |-> ch,
                                          tag |-> Len(channels[ch].deliveries) + 1])
             /\ queued' = Tail(queued)
             /\ UNCHANGED <<gone, released>>
          \/ /\ Delivered(0)
             /\ \/ UNCHANGED <<queued, gone, released>>
                \/ /\ queued' = Tail(queued)
                   /\ gone' = gone \cup {message} /\ released' = released \cup {message}
             /\ UNCHANGED buffer
    /\ UNCHANGED <<connection, connections, consuming, block, call, held, counts, abandoned,
                   purged>>

\* The broker does what it was asked to do to the queue, whoever still waits for
\* its reply: a purge drops the messages that wait to be delivered.
Serve(ch) ==
    /\ channels[ch].state = "open" /\ channels[ch].asked # "none"
    /\ channels' = [channels EXCEPT ![ch].asked = "none"]
    /\ IF channels[ch].asked = "purge"
       THEN /\ queued' = <<>>
            /\ gone' = gone \cup ToSet(queued) /\ purged' = purged \cup ToSet(queued)
       ELSE UNCHANGED <<queued, gone, purged>>
    /\ UNCHANGED <<connection, connections, consuming, buffer, block, call, held, counts,
                   abandoned, released>>
-----------------------------------------------------------------------------
(* _ensure_connection and _open_channel.                                   *)

NewChannel(c) == [of |-> c, state |-> "opening", deliveries |-> <<>>, asked |-> "none"]

\* Mutant: the lock is not taken.
LockFree_Always == TRUE

LockFree == \A t \in Tasks : call[t].at \notin {"connected", "opened"}

\* What the helper asks the broker to do to the queue, through a channel of its own.
Administration == {"declare", "purge"}

\* With its connection the client is entered, or a channel is asked for; on a
\* connection that was lost meanwhile pika refuses.
GoOn(t, c) ==
    IF call[t].op = "enter"
    THEN block' = [block EXCEPT !.phase = "entered"] /\ Returned(t) /\ UNCHANGED channels
    ELSE IF connections[c] # "open"
    THEN Returned(t) /\ UNCHANGED <<block, channels>>
    ELSE /\ Len(channels) < MaxChannels
         /\ channels' = Append(channels, NewChannel(c))
         /\ Calling(t, call[t].op, "ready", Len(channels) + 1)
         /\ UNCHANGED block

\* The lock is acquired.  A connection that is not open, though it may be opening
\* still, is replaced.
Connect(t) ==
    /\ call[t].at = "lock" /\ call[t].op # "leave" /\ LockFree
    /\ IF connection # 0 /\ connections[connection] = "open"
       THEN GoOn(t, connection) /\ UNCHANGED <<connection, connections, abandoned>>
       ELSE /\ Len(connections) < MaxConnections
            /\ connections' = Append(connections, "opening")
            /\ connection' = Len(connections) + 1
            /\ Calling(t, call[t].op, "connected", Len(connections) + 1)
            /\ abandoned' = IF block.phase = "left"
                   THEN [abandoned EXCEPT !.connections = @ \cup {Len(connections) + 1}]
                   ELSE abandoned
            /\ UNCHANGED <<channels, block>>
    /\ UNCHANGED <<consuming, queued, buffer, held, counts, gone, released, purged>>

\* The connection opened and its task goes on.
Connected(t) ==
    /\ call[t].at = "opened"
    /\ GoOn(t, call[t].of)
    /\ UNCHANGED <<connection, connections, consuming, queued, buffer, held, counts,
                   historyVars>>

\* The message is sent, or the consumer registered.
Done(t, op, ch) ==
    IF op = "publish" /\ published < MaxMessages
    THEN queued' = Append(queued, published + 1) /\ published' = published + 1 /\ UNCHANGED consuming
    ELSE IF op = "consume"
    THEN consuming' = consuming \cup {ch} /\ UNCHANGED <<queued, published>>
    ELSE UNCHANGED <<queued, published, consuming>>

\* Both replies of the broker: the channel is open, and its quality of service
\* is set.  Whoever waits for it goes on: the queue access has its channel, the
\* broker is asked to declare or to purge.
Ready(ch) ==
    /\ channels[ch].state = "opening"
    /\ IF \E t \in Tasks : call[t].at = "ready" /\ call[t].of = ch
       THEN LET t == CHOOSE t \in Tasks : call[t].at = "ready" /\ call[t].of = ch
            IN IF call[t].op \in Administration
               THEN /\ channels' = [channels EXCEPT ![ch].state = "open", ![ch].asked = call[t].op]
                    /\ Calling(t, call[t].op, "reply", ch)
                    /\ UNCHANGED <<block, queued, published, consuming, abandoned>>
               ELSE /\ channels' = [channels EXCEPT ![ch].state = "open"]
                    /\ Returned(t)
                    /\ block' = [phase |-> IF call[t].op = "queue" THEN "in" ELSE block.phase,
                                 channel |-> ch]
                    /\ Done(t, call[t].op, ch)
                    /\ abandoned' = IF block.phase \in {"done", "left"}
                           THEN [abandoned EXCEPT !.channels = @ \cup {ch}] ELSE abandoned
       ELSE /\ channels' = [channels EXCEPT ![ch].state = "open"]
            /\ UNCHANGED <<call, block, queued, published, consuming, abandoned>>
    /\ UNCHANGED <<connection, connections, buffer, held, calls, losses, gone, released, purged>>

\* A timeout or a cancellation, wherever a task waits.  One that waits to close
\* the connection has left the client without closing it.
Interrupt(t) ==
    /\ call[t].at \in {"lock", "connected", "opened", "ready", "reply", "reopen"}
    /\ Returned(t)
    /\ abandoned' =
           IF call[t].op = "leave"
           THEN [abandoned EXCEPT !.connections = @ \cup {connection}]
           ELSE IF call[t].at \in {"connected", "opened"}
           THEN [abandoned EXCEPT !.connections = @ \cup {call[t].of}]
           ELSE IF call[t].at \in {"ready", "reply"}
           THEN [abandoned EXCEPT !.channels = @ \cup {call[t].of}] ELSE abandoned
    /\ block' = IF call[t].op = "leave" THEN [block EXCEPT !.phase = "left"] ELSE block
    /\ UNCHANGED <<connection, brokerVars, buffer, held, counts, gone, released, purged>>
-----------------------------------------------------------------------------
(* The client, the queue access, publishing and administration.            *)

EnterClient ==
    /\ block.phase = "out" /\ call["owner"] = NoCall
    /\ Calling("owner", "enter", "lock", 0)
    /\ UNCHANGED <<connection, brokerVars, buffer, block, held, counts, historyVars>>

AccessQueue ==
    /\ block.phase = "entered" /\ call["owner"] = NoCall
    /\ Calling("owner", "queue", "lock", 0)
    /\ UNCHANGED <<connection, brokerVars, buffer, block, held, counts, historyVars>>

\* The queue is to be declared or purged.
Administer(op) ==
    /\ block.phase # "out" /\ call["helper"] = NoCall
    /\ calls < MaxCalls /\ calls' = calls + 1
    /\ Calling("helper", op, "lock", 0)
    /\ UNCHANGED <<connection, brokerVars, buffer, block, held, published, losses, historyVars>>

\* The broker has replied that it did, and the channel is closed.
Administered ==
    /\ call["helper"].at = "reply" /\ ChannelOpen(call["helper"].of)
    /\ channels[call["helper"].of].asked = "none"
    /\ Closed({call["helper"].of})
    /\ Returned("helper")
    /\ UNCHANGED <<connection, connections, buffer, block, held, counts, historyVars>>

\* publish, by the helper, or consume, by the owner: ensure_open comes first.
Use(t, op) ==
    /\ call[t] = NoCall
    /\ IF op = "publish" THEN block.channel # 0 /\ calls < MaxCalls /\ calls' = calls + 1
       ELSE block.phase = "in" /\ block.channel \notin consuming /\ UNCHANGED calls
    /\ IF ChannelOpen(block.channel) THEN UNCHANGED call /\ Done(t, op, block.channel)
       ELSE Calling(t, op, "reopen", 0) /\ UNCHANGED <<queued, published, consuming>>
    /\ UNCHANGED <<connection, connections, channels, buffer, block, held, losses, historyVars>>

\* ensure_open has its lock; the channel may have been opened by another.
Reopen(t) ==
    /\ call[t].at = "reopen"
    /\ \A u \in Tasks : call[u].op \in {"publish", "consume"} =>
           call[u].at \notin {"lock", "connected", "opened", "ready"}
    /\ IF ChannelOpen(block.channel) THEN Returned(t) /\ Done(t, call[t].op, block.channel)
       ELSE Calling(t, call[t].op, "lock", 0) /\ UNCHANGED <<queued, published, consuming>>
    /\ UNCHANGED <<connection, connections, channels, buffer, block, held, calls, losses,
                   historyVars>>

\* The access is left: after an exception nothing is closed.
LeaveQueue ==
    /\ block.phase = "in" /\ call["owner"] = NoCall
    /\ block' = [block EXCEPT !.phase = "done"]
    /\ \/ /\ Closed(IF ChannelOpen(block.channel) THEN {block.channel} ELSE {})
          /\ UNCHANGED abandoned
       \/ /\ abandoned' = [abandoned EXCEPT !.channels = @ \cup {block.channel}]
          /\ UNCHANGED <<channels, consuming, queued>>
    /\ UNCHANGED <<connection, connections, buffer, call, held, counts, gone, released, purged>>

\* _disconnect has the lock; closing a connection that is closed raises and leaves
\* it in place.
Disconnect ==
    /\ LockFree
    /\ block' = [block EXCEPT !.phase = "left"]
    /\ IF connection # 0 /\ connections[connection] # "closed"
       THEN /\ connections' = [connections EXCEPT ![connection] = "closed"]
            /\ Closed(ChannelsOf(connection))
            /\ connection' = 0
       ELSE UNCHANGED <<connection, brokerVars>>

\* The client is left: its connection is closed at once, or when whoever connects
\* has released the lock.
LeaveClient ==
    /\ block.phase \in {"entered", "done"} /\ call["owner"] = NoCall
    /\ \/ Disconnect /\ UNCHANGED call
       \/ /\ \E t \in Tasks : call[t].at \in {"lock", "connected", "opened"}
          /\ Calling("owner", "leave", "lock", 0)
          /\ UNCHANGED <<connection, brokerVars, block>>
    /\ UNCHANGED <<buffer, held, counts, historyVars>>

Left ==
    /\ call["owner"].op = "leave"
    /\ Disconnect
    /\ Returned("owner")
    /\ UNCHANGED <<buffer, held, counts, historyVars>>
-----------------------------------------------------------------------------
(* The consumer and its messages.                                          *)

Take ==
    /\ buffer # <<>>
    /\ held' = held \cup {Head(buffer)}
    /\ buffer' = Tail(buffer)
    /\ UNCHANGED <<connection, brokerVars, block, call, counts, historyVars>>

\* Mutant: a message is settled on the channel that the access has now.
SettledOn_Current(delivery) == block.channel

SettledOn(delivery) == delivery.channel

\* acknowledge, or reject, which puts the message back or not: on a channel that
\* is closed both raise.
Settle(delivery) ==
    /\ delivery \in held
    /\ held' = held \ {delivery}
    /\ \E requeue \in BOOLEAN :
        LET ch == SettledOn(delivery)
            known == ChannelOpen(ch) /\ delivery.tag \in DOMAIN channels[ch].deliveries
            message == channels[ch].deliveries[delivery.tag]
        IN /\ released' = IF requeue THEN released ELSE released \cup {delivery.message}
           /\ IF known
              THEN /\ channels' = [channels EXCEPT ![ch].deliveries[delivery.tag] = 0]
                   /\ queued' = IF requeue THEN <<message>> \o queued ELSE queued
                   /\ gone' = IF requeue THEN gone ELSE gone \cup {message}
              ELSE UNCHANGED <<channels, queued, gone>>
    /\ UNCHANGED <<connection, connections, consuming, buffer, block, call, counts,
                   abandoned, purged>>

Next ==
    \/ \E c \in DOMAIN connections : Opens(c) \/ LoseConnection(c)
    \/ \E ch \in DOMAIN channels : Ready(ch) \/ LoseChannel(ch) \/ Deliver(ch) \/ Serve(ch)
    \/ \E t \in Tasks : Connect(t) \/ Connected(t) \/ Interrupt(t) \/ Reopen(t)
    \/ EnterClient \/ AccessQueue \/ (\E op \in Administration : Administer(op)) \/ Administered
    \/ Use("helper", "publish") \/ Use("owner", "consume")
    \/ LeaveQueue \/ LeaveClient \/ Left \/ Take
    \/ \E delivery \in held : Settle(delivery)

Spec == Init /\ [][Next]_mqVars
-----------------------------------------------------------------------------
\* Whatever is lost, reopened and delivered again, the broker drops a message
\* only when its consumer has acknowledged that very message or refused it for
\* good, or could not decode it, or when the queue was purged while the message
\* waited in it.
NoMessageLost == gone \subseteq released \cup purged

\* What is open at the broker is in use, or was given up: by a task that was
\* interrupted, while it opened it or while it waited to close it, by an access
\* that was left with an exception, or by a call that opened it when the access
\* or the client had been left.
OpenIsAccounted ==
    /\ \A c \in DOMAIN connections :
           connections[c] # "closed" =>
               \/ c \in abandoned.connections
               \/ c = connection /\ block.phase # "left"
    /\ \A ch \in DOMAIN channels :
           channels[ch].state # "closed" =>
               \/ ch \in abandoned.channels
               \/ ch = block.channel /\ block.phase = "in"
               \/ \E t \in Tasks : call[t].at \in {"ready", "reply"} /\ call[t].of = ch
=============================================================================
