------------------------- MODULE ContextEvents_proofs -------------------------
(***************************************************************************)
(* Proofs about ContextEvents, for every set of event types and of         *)
(* subscribers, whichever may be cancelled and whether or not they may     *)
(* subscribe to a closed bus.  The invariant EInv says how the futures of  *)
(* a type are linked and where in that chain each subscription stands.     *)
(***************************************************************************)
EXTENDS ContextEvents, SequenceTheorems, TLAPS

\* The future at place i of a chain is the one that comes after n events of
\* the type: it carries the next event, waits for it, or ended instead.
Follows(t, i, n) ==
    /\ i \in DOMAIN chain[t]
    /\ chain[t][i].state = "event" => chain[t][i].event = n + 1
    /\ chain[t][i].state = "pending" => sent[t] = n
    /\ chain[t][i].state = "stopped" => closedAt[t] = n

\* The head is the last future of its type, not completed unless a subscriber
\* cancelled it, and no other future is pending.
Heads ==
    \A t \in Types :
        /\ head[t] # 0 => /\ head[t] = Len(chain[t])
                          /\ chain[t][head[t]].state \in {"pending", "cancelled"}
        /\ \A i \in DOMAIN chain[t] : chain[t][i].state = "pending" => i = head[t]

\* Every event leads to the future of the event after it.
Links ==
    \A t \in Types : \A i \in DOMAIN chain[t] :
        chain[t][i].state = "event" => Follows(t, i + 1, chain[t][i].event)

\* Nothing ends by StopAsyncIteration before the bus closes.
StoppedByClose ==
    phase = "open" =>
        /\ \A t \in Types : \A i \in DOMAIN chain[t] : chain[t][i].state # "stopped"
        /\ \A s \in Subscribers : pc[s] # "ended"

\* A subscription stands right after the last event it received.
Reads ==
    \A s \in Subscribers :
        IF pc[s] = "new" THEN received[s] = <<>>
        ELSE Follows(topic[s], cursor[s], joined[s] + Len(received[s]))

EInv ==
    /\ TypeOK
    /\ head \in [Types -> Nat]
    /\ cursor \in [Subscribers -> Nat]
    /\ Heads
    /\ Links
    /\ StoppedByClose
    /\ Reads
    /\ FullStream
-----------------------------------------------------------------------------
\* What the proof of each step starts from.
LEMMA Typed ==
    ASSUME EInv
    PROVE  /\ \A t \in Types : /\ chain[t] \in Seq(Future)
                               /\ Len(chain[t]) \in Nat
                               /\ DOMAIN chain[t] = 1..Len(chain[t])
                               /\ head[t] \in 0..Len(chain[t])
                               /\ sent[t] \in Nat /\ closedAt[t] \in Nat
           /\ \A s \in Subscribers : /\ topic[s] \in Types
                                     /\ cursor[s] \in Nat /\ joined[s] \in Nat
                                     /\ received[s] \in Seq(Nat)
                                     /\ Len(received[s]) \in Nat
<1>1. TypeOK
  BY DEF EInv
<1>2. \A t \in Types : chain[t] \in Seq(Future) /\ head[t] \in 0..Len(chain[t])
                       /\ sent[t] \in Nat /\ closedAt[t] \in Nat
  BY <1>1 DEF TypeOK
<1>3. \A s \in Subscribers : topic[s] \in Types /\ joined[s] \in Nat /\ received[s] \in Seq(Nat)
                             /\ cursor[s] \in Nat
  BY <1>1 DEF TypeOK, EInv
<1>4. QED
  BY <1>2, <1>3, LenProperties

LEMMA OpenIsFuture == Open \in Future /\ Open.state = "pending"
BY DEF Open, Future

\* Replacing one future of one chain.
LEMMA ReplacedFuture ==
    ASSUME EInv, NEW t \in Types, NEW h \in DOMAIN chain[t], NEW f \in Future
    PROVE  /\ [chain[t] EXCEPT ![h] = f] \in Seq(Future)
           /\ DOMAIN [chain[t] EXCEPT ![h] = f] = DOMAIN chain[t]
           /\ Len([chain[t] EXCEPT ![h] = f]) = Len(chain[t])
           /\ \A i \in DOMAIN chain[t] :
                [chain[t] EXCEPT ![h] = f][i] = IF i = h THEN f ELSE chain[t][i]
<1>1. chain[t] \in Seq(Future) /\ DOMAIN chain[t] = 1..Len(chain[t]) /\ h \in 1..Len(chain[t])
  BY Typed
<1>2. /\ [chain[t] EXCEPT ![h] = f] \in Seq(Future)
      /\ Len([chain[t] EXCEPT ![h] = f]) = Len(chain[t])
  BY <1>1, ExceptSeq
<1>3. QED
  BY <1>1, <1>2, LenProperties

LEMMA AppendedFuture ==
    ASSUME NEW c \in Seq(Future)
    PROVE  /\ Append(c, Open) \in Seq(Future)
           /\ Len(c) \in Nat /\ DOMAIN c = 1..Len(c)
           /\ Len(Append(c, Open)) = Len(c) + 1
           /\ DOMAIN Append(c, Open) = 1..(Len(c) + 1)
           /\ \A i \in 1..Len(c) : Append(c, Open)[i] = c[i]
           /\ Append(c, Open)[Len(c) + 1] = Open
<1>1. Append(c, Open) \in Seq(Future)
  BY OpenIsFuture, AppendProperties
<1>2. QED
  BY <1>1, OpenIsFuture, AppendProperties, LenProperties
-----------------------------------------------------------------------------
LEMMA InitEInv == Init => EInv
<1> SUFFICES ASSUME Init PROVE EInv
  OBVIOUS
<1>1. <<>> \in Seq(Future) /\ <<>> \in Seq(Nat) /\ Len(<<>>) = 0 /\ DOMAIN <<>> = {}
  BY EmptySeq
<1>2. TypeOK /\ head \in [Types -> Nat] /\ cursor \in [Subscribers -> Nat]
  <2>1. \A t \in Types : chain[t] = <<>> /\ head[t] = 0
    BY DEF Init
  <2>2. \A t \in Types : head[t] \in 0..Len(chain[t])
    BY <1>1, <2>1
  <2>3. \A s \in Subscribers : topic[s] \in Types /\ cursor[s] = 0
    BY DEF Init
  <2>4. \A s \in Subscribers : cursor[s] \in 0..Len(chain[topic[s]])
    BY <1>1, <2>1, <2>3
  <2>5. QED
    BY <1>1, <2>2, <2>4 DEF Init, TypeOK, Gone
<1>3. Heads /\ Links /\ StoppedByClose
  BY <1>1 DEF Init, Heads, Links, StoppedByClose
<1>4. Reads /\ FullStream
  BY <1>1 DEF Init, Reads, FullStream, Subscribed
<1>5. QED
  BY <1>2, <1>3, <1>4 DEF EInv

\* A step that keeps the place of every future keeps that of a subscription
\* it does not move.
LEMMA UnmovedReads ==
    ASSUME EInv, NEW s \in Subscribers, pc[s] # "new", topic' = topic,
           cursor'[s] = cursor[s], joined'[s] = joined[s], received'[s] = received[s],
           \A t \in Types : \A i, n : Follows(t, i, n) => Follows(t, i, n)'
    PROVE  Follows(topic[s], cursor[s], joined[s] + Len(received[s]))'
<1>1. Follows(topic[s], cursor[s], joined[s] + Len(received[s]))
  BY DEF EInv, Reads
<1>2. PICK t \in Types, i \in Nat, n \in Nat :
          t = topic[s] /\ i = cursor[s] /\ n = joined[s] + Len(received[s])
  BY Typed
<1>3. Follows(t, i, n)'
  BY <1>1, <1>2
<1>4. QED
  BY <1>2, <1>3 DEF Follows

LEMMA QuietReads ==
    ASSUME EInv, UNCHANGED <<cursor, topic, joined, received>>,
           \A s \in Subscribers : pc[s] = "new" <=> pc'[s] = "new",
           \A t \in Types : \A i, n : Follows(t, i, n) => Follows(t, i, n)'
    PROVE  Reads'
<1>1. ASSUME NEW s \in Subscribers, pc'[s] # "new"
      PROVE  Follows(topic[s], cursor[s], joined[s] + Len(received[s]))'
  BY <1>1, UnmovedReads
<1>2. QED
  BY <1>1 DEF EInv, Reads

\* Steps that leave the chains alone say the same of their futures.
LEMMA QuietChains ==
    ASSUME EInv, UNCHANGED <<chain, head, sent, closedAt>>
    PROVE  /\ (Heads /\ Links)'
           /\ \A t \in Types : \A i, n : Follows(t, i, n) => Follows(t, i, n)'
<1>1. \A t \in Types : \A i, n : Follows(t, i, n)' <=> Follows(t, i, n)
  BY DEF Follows
<1>2. Heads'
  BY DEF EInv, Heads
<1>3. Links'
  BY DEF EInv, Links, Follows
<1>4. QED
  BY <1>1, <1>2, <1>3

\* Steps of the scope and of the tasks that touch neither the bus nor a
\* subscription.
LEMMA IdleKeeps ==
    ASSUME EInv, UNCHANGED <<chain, head, topic, cursor, sent, joined, received, closedAt>>,
           pc' \in [Subscribers -> {"new", "ready", "waiting"} \cup Gone],
           \A s \in Subscribers : pc[s] = "new" <=> pc'[s] = "new",
           \A s \in Subscribers : pc'[s] = "ended" => pc[s] = "ended",
           phase' \in {"open", "closing", "exited"}, phase' = "open" => phase = "open",
           mustCancel' \in SUBSET Subscribers, cancelled' \in SUBSET Subscribers,
           sendFailed' \in BOOLEAN
    PROVE  EInv'
<1>1. TypeOK' /\ (head \in [Types -> Nat])' /\ (cursor \in [Subscribers -> Nat])'
  BY DEF EInv, TypeOK
<1>2. (Heads /\ Links)' /\ Reads'
  BY QuietChains, QuietReads
<1>3. StoppedByClose'
  BY DEF EInv, StoppedByClose
<1>4. FullStream'
  BY DEF EInv, FullStream, Subscribed
<1>5. QED
  BY <1>1, <1>2, <1>3, <1>4 DEF EInv

LEMMA AwaitLeaveExitKeeps ==
    ASSUME EInv, UNCHANGED vars \/ Exit \/ \E s \in Subscribers : Await(s) \/ Leave(s)
    PROVE  EInv'
<1>1. TypeOK
  BY DEF EInv
<1>2. CASE UNCHANGED vars
  BY <1>1, <1>2, IdleKeeps DEF vars, TypeOK
<1>3. CASE Exit
  BY <1>1, <1>3, IdleKeeps DEF Exit, TypeOK
<1>4. ASSUME NEW s \in Subscribers, Await(s) PROVE EInv'
  <2>1. /\ pc' \in [Subscribers -> {"new", "ready", "waiting"} \cup Gone]
        /\ \A x \in Subscribers : pc[x] = "new" <=> pc'[x] = "new"
        /\ \A x \in Subscribers : pc'[x] = "ended" => pc[x] = "ended"
    BY <1>1, <1>4 DEF Await, TypeOK
  <2>2. QED
    BY <1>1, <1>4, <2>1, IdleKeeps DEF Await, TypeOK
<1>5. ASSUME NEW s \in Subscribers, Leave(s) PROVE EInv'
  <2>1. /\ pc' \in [Subscribers -> {"new", "ready", "waiting"} \cup Gone]
        /\ \A x \in Subscribers : pc[x] = "new" <=> pc'[x] = "new"
        /\ \A x \in Subscribers : pc'[x] = "ended" => pc[x] = "ended"
    BY <1>1, <1>5 DEF Leave, TypeOK, Gone
  <2>2. QED
    BY <1>1, <1>5, <2>1, IdleKeeps DEF Leave, TypeOK
<1>6. QED
  BY <1>2, <1>3, <1>4, <1>5

LEMMA TakeKeeps == ASSUME EInv, NEW s \in Subscribers, Take(s) PROVE EInv'
<1> DEFINE t == topic[s]
           c == cursor[s]
           n == joined[s] + Len(received[s])
<1>1. /\ TypeOK /\ pc[s] \in {"ready", "waiting"} /\ mustCancel' = mustCancel \ {s}
      /\ UNCHANGED <<chain, head, phase, topic, sent, joined, closedAt, cancelled, sendFailed>>
  BY DEF Take, EInv
<1>2. /\ t \in Types /\ c \in Nat /\ joined[s] \in Nat /\ n \in Nat
      /\ chain[t] \in Seq(Future) /\ DOMAIN chain[t] = 1..Len(chain[t]) /\ Len(chain[t]) \in Nat
      /\ received[s] \in Seq(Nat) /\ Len(received[s]) \in Nat
  BY Typed
<1>3. Follows(t, c, n)
  BY <1>1 DEF EInv, Reads
<1>4. (Heads /\ Links)' /\ \A u \in Types : \A i, m : Follows(u, i, m) => Follows(u, i, m)'
  BY <1>1, QuietChains
<1>5. ASSUME /\ s \notin mustCancel
             /\ Awaited(s).state = "event"
             /\ cursor' = [cursor EXCEPT ![s] = @ + 1]
             /\ received' = [received EXCEPT ![s] = Append(@, Awaited(s).event)]
             /\ pc' = [pc EXCEPT ![s] = "ready"]
      PROVE  EInv'
  <2>1. Awaited(s).event = n + 1 /\ Follows(t, c + 1, n + 1)
    BY <1>2, <1>3, <1>5 DEF EInv, Links, Follows, Awaited
  <2>2. /\ received' = [received EXCEPT ![s] = Append(received[s], n + 1)]
        /\ received'[s] = Append(received[s], n + 1)
        /\ \A x \in Subscribers \ {s} : received'[x] = received[x]
    BY <1>1, <1>5, <2>1 DEF TypeOK
  <2>3. /\ received'[s] \in Seq(Nat) /\ Len(received'[s]) = Len(received[s]) + 1
        /\ DOMAIN received'[s] = 1..(Len(received[s]) + 1)
        /\ \A i \in 1..Len(received[s]) : received'[s][i] = received[s][i]
        /\ received'[s][Len(received[s]) + 1] = n + 1
    BY <1>2, <2>2, AppendProperties, LenProperties
  <2>4. joined[s] + Len(received'[s]) = n + 1
    BY <1>2, <2>3
  <2>5. /\ cursor' \in [Subscribers -> Nat] /\ cursor'[s] = c + 1
        /\ \A x \in Subscribers \ {s} : cursor'[x] = cursor[x]
        /\ pc' \in [Subscribers -> {"new", "ready", "waiting"} \cup Gone] /\ pc'[s] = "ready"
        /\ \A x \in Subscribers \ {s} : pc'[x] = pc[x]
    BY <1>1, <1>2, <1>5 DEF TypeOK, EInv
  <2>6. TypeOK' /\ (head \in [Types -> Nat])' /\ (cursor \in [Subscribers -> Nat])'
    <3>1. received' \in [Subscribers -> Seq(Nat)]
      BY <1>1, <2>2, <2>3 DEF TypeOK
    <3>2. \A x \in Subscribers : cursor'[x] \in 0..Len(chain[topic[x]])
      <4>1. c + 1 \in 0..Len(chain[t])
        BY <1>2, <2>1 DEF Follows
      <4>2. QED
        BY <1>1, <2>5, <4>1 DEF TypeOK
    <3>3. QED
      BY <1>1, <2>5, <3>1, <3>2 DEF TypeOK, EInv
  <2>7. Reads'
    <3>1. ASSUME NEW x \in Subscribers, x # s
          PROVE  IF pc'[x] = "new" THEN received'[x] = <<>>
                 ELSE Follows(topic[x], cursor[x], joined[x] + Len(received[x]))
      BY <2>2, <2>5, <3>1 DEF EInv, Reads
    <3>2. QED
      BY <1>1, <2>1, <2>2, <2>4, <2>5, <3>1 DEF Reads, Follows
  <2>8. StoppedByClose'
    BY <1>1, <2>5 DEF EInv, StoppedByClose
  <2>9. FullStream'
    <3>1. ASSUME NEW i \in DOMAIN received'[s] PROVE received'[s][i] = joined[s] + i
      <4>1. CASE i \in 1..Len(received[s])
        <5>1. received[s][i] = joined[s] + i
          BY <1>1, <1>2, <4>1, LenProperties DEF EInv, FullStream, Subscribed
        <5>2. QED
          BY <2>3, <4>1, <5>1
      <4>2. CASE i = Len(received[s]) + 1
        <5>1. joined[s] + i = n + 1
          BY <1>2, <4>2
        <5>2. QED
          BY <2>3, <4>2, <5>1
      <4>3. QED
        BY <1>2, <2>3, <4>1, <4>2
    <3>2. ASSUME NEW x \in Subscribers, x # s, pc'[x] # "new"
          PROVE  /\ \A i \in DOMAIN received'[x] : received'[x][i] = joined[x] + i
                 /\ pc'[x] = "ended" => joined[x] + Len(received'[x]) = closedAt[topic[x]]
      BY <2>2, <2>5, <3>2 DEF EInv, FullStream, Subscribed
    <3>3. QED
      BY <1>1, <2>5, <3>1, <3>2 DEF FullStream, Subscribed
  <2>10. QED
    BY <1>4, <2>6, <2>7, <2>8, <2>9 DEF EInv
<1>6. ASSUME /\ s \notin mustCancel
             /\ Awaited(s).state = "stopped"
             /\ pc' = [pc EXCEPT ![s] = "ended"]
             /\ UNCHANGED <<cursor, received>>
      PROVE  EInv'
  <2>1. joined[s] + Len(received[s]) = closedAt[t] /\ phase # "open"
    BY <1>2, <1>3, <1>6 DEF EInv, StoppedByClose, Follows, Awaited
  <2>2. /\ pc' \in [Subscribers -> {"new", "ready", "waiting"} \cup Gone] /\ pc'[s] = "ended"
        /\ \A x \in Subscribers \ {s} : pc'[x] = pc[x]
    BY <1>1, <1>6 DEF TypeOK, Gone
  <2>3. TypeOK' /\ (head \in [Types -> Nat])' /\ (cursor \in [Subscribers -> Nat])'
    BY <1>1, <1>6, <2>2 DEF TypeOK, EInv
  <2>4. \A x \in Subscribers : pc[x] = "new" <=> pc'[x] = "new"
    BY <1>1, <2>2
  <2>5. Reads'
    BY <1>1, <1>4, <1>6, <2>4, QuietReads
  <2>6. StoppedByClose' /\ FullStream'
    BY <1>1, <1>6, <2>1, <2>2 DEF EInv, StoppedByClose, FullStream, Subscribed
  <2>7. QED
    BY <1>4, <2>3, <2>5, <2>6 DEF EInv
<1>7. ASSUME pc' = [pc EXCEPT ![s] = "cancelled"], UNCHANGED <<cursor, received>> PROVE EInv'
  <2>1. /\ pc' \in [Subscribers -> {"new", "ready", "waiting"} \cup Gone]
        /\ \A x \in Subscribers : pc[x] = "new" <=> pc'[x] = "new"
        /\ \A x \in Subscribers : pc'[x] = "ended" => pc[x] = "ended"
    BY <1>1, <1>7 DEF TypeOK, Gone
  <2>2. QED
    BY <1>1, <1>7, <2>1, IdleKeeps DEF TypeOK
<1>8. QED
  BY <1>5, <1>6, <1>7 DEF Take

\* Steps of the bus and of subscribers that make no progress in a subscription:
\* what is left to show is that every future keeps its place in the order.
LEMMA BusKeeps ==
    ASSUME EInv, UNCHANGED <<phase, pc, topic, cursor, joined, received, closedAt>>,
           chain' \in [Types -> Seq(Future)], head' \in [Types -> Nat],
           \A t \in Types : head'[t] \in 0..Len(chain'[t]),
           \A t \in Types : DOMAIN chain[t] \subseteq DOMAIN chain'[t],
           mustCancel' \in SUBSET Subscribers, sent' \in [Types -> Nat],
           cancelled' \in SUBSET Subscribers, sendFailed' \in BOOLEAN,
           Heads', Links',
           \A t \in Types : \A i \in DOMAIN chain'[t] :
                chain'[t][i].state = "stopped" => \E j \in DOMAIN chain[t] : chain[t][j].state = "stopped",
           \A t \in Types : \A i, n : Follows(t, i, n) => Follows(t, i, n)'
    PROVE  EInv'
<1>1. TypeOK'
  <2>1. ASSUME NEW s \in Subscribers PROVE cursor[s] \in 0..Len(chain'[topic[s]])
    <3>1. CASE cursor[s] = 0
      <4>1. chain'[topic[s]] \in Seq(Future)
        BY Typed
      <4>2. Len(chain'[topic[s]]) \in Nat
        BY <4>1, LenProperties
      <4>3. QED
        BY <3>1, <4>2
    <3>2. CASE cursor[s] # 0
      <4>1. cursor[s] \in DOMAIN chain[topic[s]] /\ topic[s] \in Types
        BY <3>2, Typed DEF EInv, TypeOK
      <4>2. cursor[s] \in DOMAIN chain'[topic[s]] /\ chain'[topic[s]] \in Seq(Future)
        BY <4>1
      <4>3. cursor[s] \in 1..Len(chain'[topic[s]]) /\ Len(chain'[topic[s]]) \in Nat
        BY <4>2, LenProperties
      <4>4. QED
        BY <4>3
    <3>3. QED
      BY <3>1, <3>2
  <2>2. QED
    BY <2>1 DEF EInv, TypeOK
<1>2. Reads'
  BY QuietReads
<1>3. StoppedByClose' /\ FullStream'
  BY DEF EInv, StoppedByClose, FullStream, Subscribed
<1>4. QED
  BY <1>1, <1>2, <1>3 DEF EInv

LEMMA SendKeeps == ASSUME EInv, NEW t \in Types, Send(t) PROVE EInv'
<1> PICK L \in Nat, m \in Nat : L = Len(chain[t]) /\ m = sent[t] + 1
  BY Typed
<1>1. /\ TypeOK
      /\ UNCHANGED <<phase, pc, topic, cursor, mustCancel, joined, received, closedAt, cancelled>>
  BY DEF Send, EInv
<1>2. /\ chain[t] \in Seq(Future) /\ DOMAIN chain[t] = 1..L /\ L \in Nat
      /\ head[t] \in 0..L /\ sent[t] \in Nat /\ sent[t] + 1 \in Nat
  BY Typed
<1>3. CASE /\ head[t] = 0
           /\ sent' = [sent EXCEPT ![t] = @ + 1]
           /\ UNCHANGED <<chain, head, sendFailed>>
  <2>1. sent' \in [Types -> Nat] /\ \A u \in Types : u # t => sent'[u] = sent[u]
    BY <1>1, <1>2, <1>3 DEF TypeOK
  <2>2. \A i \in DOMAIN chain[t] : chain[t][i].state # "pending"
    BY <1>2, <1>3 DEF EInv, Heads
  <2>3. ASSUME NEW u \in Types, NEW i, NEW n, Follows(u, i, n) PROVE Follows(u, i, n)'
    BY <1>1, <1>3, <2>1, <2>2, <2>3 DEF Follows
  <2>4. Heads' /\ Links'
    BY <1>1, <1>3, <2>3 DEF EInv, Heads, Links
  <2>5. (TypeOK /\ head \in [Types -> Nat])'
    BY <1>1, <1>3, <2>1 DEF TypeOK, EInv
  <2>6. QED
    BY <1>1, <1>3, <2>1, <2>3, <2>4, <2>5, BusKeeps DEF TypeOK
<1>4. CASE UNCHANGED <<chain, head, sent>> /\ sendFailed' = TRUE
  BY <1>1, <1>4, IdleKeeps DEF TypeOK
<1>5. CASE /\ head[t] # 0
           /\ chain[t][head[t]].state = "pending"
           /\ chain' = Extended(t)
           /\ head' = [head EXCEPT ![t] = Len(chain'[t])]
           /\ sent' = [sent EXCEPT ![t] = @ + 1]
           /\ UNCHANGED sendFailed
  <2> DEFINE event == [state |-> "event", event |-> m]
             filled == [chain[t] EXCEPT ![L] = event]
  <2>1. head[t] = L /\ L \in DOMAIN chain[t]
    BY <1>2, <1>5 DEF EInv, Heads
  <2>2. event \in Future /\ event.state = "event" /\ event.event = m
    BY <1>2 DEF Future
  <2>3. chain' = [chain EXCEPT ![t] = Append(filled, Open)]
    BY <1>5, <2>1 DEF Extended
  <2>4. sent' \in [Types -> Nat] /\ sent'[t] = m
        /\ \A u \in Types : u # t => sent'[u] = sent[u]
    BY <1>1, <1>2, <1>5 DEF TypeOK
  <2> HIDE DEF event
  <2>5. /\ filled \in Seq(Future) /\ Len(filled) = L
        /\ \A i \in 1..L : filled[i] = IF i = L THEN event ELSE chain[t][i]
    BY <1>2, <2>1, <2>2, ReplacedFuture
  <2> HIDE DEF filled
  <2>6. /\ chain'[t] = Append(filled, Open)
        /\ \A u \in Types : u # t => chain'[u] = chain[u]
    BY <1>1, <2>3 DEF TypeOK
  <2>7. /\ chain'[t] \in Seq(Future) /\ Len(chain'[t]) = L + 1 /\ DOMAIN chain'[t] = 1..(L + 1)
        /\ chain'[t][L + 1] = Open
        /\ \A i \in 1..L : chain'[t][i] = filled[i]
    BY <2>5, <2>6, AppendedFuture
  <2>8. /\ chain'[t][L] = event
        /\ \A i \in 1..L : i # L => chain'[t][i] = chain[t][i]
    BY <1>2, <2>1, <2>5, <2>7
  <2>9. chain' \in [Types -> Seq(Future)]
    BY <1>1, <2>3, <2>6, <2>7 DEF TypeOK
  <2>10. /\ head' \in [Types -> Nat] /\ head'[t] = L + 1
         /\ \A u \in Types : u # t => head'[u] = head[u]
    BY <1>2, <1>5, <2>7 DEF EInv
  <2>11. \A i \in DOMAIN chain'[t] : i \in 1..L \/ i = L + 1
    BY <1>2, <2>7
  <2>12. /\ \A i \in 1..L : i # L => chain[t][i].state # "pending"
         /\ 1..L \subseteq 1..(L + 1) /\ L + 1 # 0 /\ L + 1 \in 0..(L + 1)
    BY <1>2, <2>1 DEF EInv, Heads
  <2>13. ASSUME NEW u \in Types, NEW i, NEW n, Follows(u, i, n) PROVE Follows(u, i, n)'
    <3>1. CASE u # t
      BY <1>1, <2>4, <2>6, <2>13, <3>1 DEF Follows
    <3>2. CASE u = t /\ i = L
      BY <1>5, <2>1, <2>2, <2>7, <2>8, <2>12, <2>13, <3>2, <1>2 DEF Follows
    <3>3. CASE u = t /\ i # L
      BY <1>1, <1>2, <2>7, <2>8, <2>12, <2>13, <3>3 DEF Follows
    <3>4. QED
      BY <3>1, <3>2, <3>3
  <2>14. Heads'
    <3>1. ASSUME NEW i \in DOMAIN chain'[t], chain'[t][i].state = "pending" PROVE i = L + 1
      BY <2>2, <2>8, <2>11, <2>12, <3>1
    <3>2. QED
      BY <2>6, <2>7, <2>10, <3>1, OpenIsFuture DEF EInv, Heads
  <2>15. Links'
    <3>1. ASSUME NEW u \in Types, NEW i \in DOMAIN chain[u], chain[u][i].state = "event",
                 chain'[u][i] = chain[u][i]
          PROVE  Follows(u, i + 1, chain[u][i].event)'
      <4>1. PICK n : n = chain[u][i].event
        OBVIOUS
      <4>2. Follows(u, i + 1, n)
        BY <3>1, <4>1 DEF EInv, Links
      <4>3. Follows(u, i + 1, n)'
        BY <2>13, <4>2
      <4>4. QED
        BY <3>1, <4>1, <4>3 DEF Follows
    <3>2. Follows(t, L + 1, m)'
      BY <2>4, <2>7, <2>12, OpenIsFuture DEF Follows
    <3>3. Follows(t, L + 1, chain[t][L].event)'
      BY <2>2, <2>8, <3>2 DEF Follows
    <3>4. ASSUME NEW u \in Types, NEW i \in DOMAIN chain'[u], chain'[u][i].state = "event"
          PROVE  Follows(u, i + 1, chain[u][i].event)'
      <4>1. CASE u = t /\ i = L + 1
        BY <2>7, <3>4, <4>1, OpenIsFuture
      <4>2. CASE u = t /\ i = L
        BY <3>3, <4>2
      <4>3. CASE u # t \/ i \notin {L, L + 1}
        <5>1. i \in DOMAIN chain[u] /\ chain'[u][i] = chain[u][i]
          BY <1>2, <2>6, <2>8, <2>11, <3>4, <4>3
        <5>2. QED
          BY <3>1, <3>4, <5>1
      <4>4. QED
        BY <4>1, <4>2, <4>3
    <3>5. QED
      BY <3>4 DEF Links
  <2>16. /\ \A u \in Types : head'[u] \in 0..Len(chain'[u])
         /\ \A u \in Types : DOMAIN chain[u] \subseteq DOMAIN chain'[u]
         /\ \A u \in Types : \A i \in DOMAIN chain'[u] :
                chain'[u][i].state = "stopped" => \E j \in DOMAIN chain[u] : chain[u][j].state = "stopped"
    <3>1. ASSUME NEW u \in Types, u # t
          PROVE  head'[u] \in 0..Len(chain'[u]) /\ DOMAIN chain[u] \subseteq DOMAIN chain'[u]
      BY <1>1, <2>6, <2>10, <3>1 DEF TypeOK
    <3>2. ASSUME NEW i \in DOMAIN chain'[t], chain'[t][i].state = "stopped"
          PROVE  \E j \in DOMAIN chain[t] : chain[t][j].state = "stopped"
      BY <1>2, <2>2, <2>7, <2>8, <2>11, <3>2, OpenIsFuture
    <3>3. QED
      BY <1>2, <2>6, <2>7, <2>10, <2>12, <3>1, <3>2
  <2>17. QED
    BY <1>1, <1>5, <2>4, <2>9, <2>10, <2>13, <2>14, <2>15, <2>16, BusKeeps DEF TypeOK
<1>6. QED
  BY <1>3, <1>4, <1>5 DEF Send

LEMMA CancelKeeps == ASSUME EInv, NEW s \in Subscribers, Cancel(s) PROVE EInv'
<1>1. /\ TypeOK /\ cancelled' = cancelled \cup {s}
      /\ UNCHANGED <<head, phase, topic, cursor, sent, joined, received, closedAt, sendFailed>>
  BY DEF Cancel, EInv
<1>2. CASE /\ pc' = [pc EXCEPT ![s] = "cancelled"]
           /\ pc[s] = "ready"
           /\ UNCHANGED <<chain, mustCancel>>
  <2>1. /\ pc' \in [Subscribers -> {"new", "ready", "waiting"} \cup Gone]
        /\ \A x \in Subscribers : pc[x] = "new" <=> pc'[x] = "new"
        /\ \A x \in Subscribers : pc'[x] = "ended" => pc[x] = "ended"
    BY <1>1, <1>2 DEF TypeOK, Gone
  <2>2. QED
    BY <1>1, <1>2, <2>1, IdleKeeps DEF TypeOK
<1>3. CASE mustCancel' = mustCancel \cup {s} /\ UNCHANGED <<chain, pc>>
  BY <1>1, <1>3, IdleKeeps DEF TypeOK
<1>4. CASE /\ pc[s] = "waiting"
           /\ Awaited(s).state = "pending"
           /\ chain' = [chain EXCEPT ![topic[s]][cursor[s]].state = "cancelled"]
           /\ UNCHANGED <<pc, mustCancel>>
  <2> PICK t \in Types, c \in Nat : t = topic[s] /\ c = cursor[s]
    BY Typed
  <2> DEFINE f == [state |-> "cancelled", event |-> chain[t][c].event]
             changed == [chain[t] EXCEPT ![c] = f]
  <2>1. /\ c \in DOMAIN chain[t] /\ chain[t][c].state = "pending" /\ c = head[t]
        /\ chain[t][c] \in Future
    <3>1. c \in DOMAIN chain[t] /\ chain[t][c].state = "pending"
      BY <1>4 DEF EInv, Reads, Follows, Awaited
    <3>2. chain[t][c] \in Future
      BY <3>1, Typed, ElementOfSeq
    <3>3. QED
      BY <3>1, <3>2 DEF EInv, Heads
  <2>2. f \in Future /\ f.state = "cancelled" /\ f = [chain[t][c] EXCEPT !.state = "cancelled"]
    BY <2>1 DEF Future
  <2>3. chain' = [chain EXCEPT ![t] = changed]
    BY <1>4, <2>2
  <2> HIDE DEF f
  <2>4. /\ changed \in Seq(Future) /\ DOMAIN changed = DOMAIN chain[t]
        /\ Len(changed) = Len(chain[t])
        /\ \A i \in DOMAIN chain[t] : changed[i] = IF i = c THEN f ELSE chain[t][i]
    BY <2>1, <2>2, ReplacedFuture
  <2> HIDE DEF changed
  <2>5. /\ chain' \in [Types -> Seq(Future)] /\ chain'[t] = changed
        /\ \A u \in Types : u # t => chain'[u] = chain[u]
    BY <1>1, <2>3, <2>4 DEF TypeOK
  <2>6. ASSUME NEW u \in Types
        PROVE  /\ DOMAIN chain'[u] = DOMAIN chain[u] /\ Len(chain'[u]) = Len(chain[u])
               /\ \A i \in DOMAIN chain[u] : \/ chain'[u][i] = chain[u][i]
                                             \/ /\ u = t /\ i = head[t]
                                                /\ chain'[u][i].state = "cancelled"
    <3>1. CASE u = t
      <4>1. chain'[u] = changed
        BY <2>5, <3>1
      <4>2. QED
        BY <2>1, <2>2, <2>4, <3>1, <4>1
    <3>2. CASE u # t
      BY <2>5, <3>2
    <3>3. QED
      BY <3>1, <3>2
  <2>7. ASSUME NEW u \in Types, NEW i, NEW n, Follows(u, i, n) PROVE Follows(u, i, n)'
    BY <1>1, <2>6, <2>7 DEF Follows
  <2>8. Heads'
    BY <1>1, <2>6 DEF EInv, Heads
  <2>9. Links'
    <3>1. ASSUME NEW u \in Types, NEW i \in DOMAIN chain'[u], chain'[u][i].state = "event"
          PROVE  Follows(u, i + 1, chain[u][i].event)'
      <4>1. PICK n : n = chain[u][i].event
        OBVIOUS
      <4>2. i \in DOMAIN chain[u] /\ chain'[u][i] = chain[u][i]
        BY <2>6, <3>1
      <4>3. Follows(u, i + 1, n)
        BY <3>1, <4>1, <4>2 DEF EInv, Links
      <4>4. Follows(u, i + 1, n)'
        BY <2>7, <4>3
      <4>5. QED
        BY <4>1, <4>2, <4>4 DEF Follows
    <3>2. QED
      BY <3>1 DEF Links
  <2>10. /\ \A u \in Types : head'[u] \in 0..Len(chain'[u])
         /\ \A u \in Types : DOMAIN chain[u] \subseteq DOMAIN chain'[u]
         /\ \A u \in Types : \A i \in DOMAIN chain'[u] :
                chain'[u][i].state = "stopped" => \E j \in DOMAIN chain[u] : chain[u][j].state = "stopped"
    BY <1>1, <2>6 DEF TypeOK
  <2>11. (head \in [Types -> Nat])'
    BY <1>1 DEF EInv
  <2>12. QED
    BY <1>1, <1>4, <2>5, <2>7, <2>8, <2>9, <2>10, <2>11, BusKeeps DEF TypeOK
<1>5. QED
  BY <1>2, <1>3, <1>4 DEF Cancel

LEMMA CloseKeeps == ASSUME EInv, Close PROVE EInv'
<1>1. /\ TypeOK /\ phase = "open" /\ phase' = "closing" /\ closedAt' = sent
      /\ chain' = [t \in Types |-> Stopped(t)] /\ head' = [t \in Types |-> 0]
      /\ UNCHANGED <<pc, topic, cursor, mustCancel, sent, joined, received, cancelled, sendFailed>>
  BY DEF Close, EInv
<1>2. ASSUME NEW t \in Types
      PROVE  /\ chain'[t] \in Seq(Future) /\ Len(chain'[t]) = Len(chain[t])
             /\ DOMAIN chain'[t] = DOMAIN chain[t]
             /\ \A i \in DOMAIN chain[t] :
                  IF chain[t][i].state = "pending" THEN chain'[t][i].state = "stopped"
                  ELSE chain'[t][i] = chain[t][i]
  <2>1. chain'[t] = Stopped(t) /\ chain[t] \in Seq(Future)
    BY <1>1, Typed
  <2>2. CASE head[t] # 0 /\ chain[t][head[t]].state = "pending"
    <3> PICK h : h = head[t]
      OBVIOUS
    <3> DEFINE f == [state |-> "stopped", event |-> chain[t][h].event]
               changed == [chain[t] EXCEPT ![h] = f]
    <3>1. h \in DOMAIN chain[t] /\ chain[t][h] \in Future
      <4>1. h \in DOMAIN chain[t]
        BY <2>2, Typed
      <4>2. QED
        BY <4>1, Typed, ElementOfSeq
    <3>2. f \in Future /\ f.state = "stopped" /\ f = [chain[t][h] EXCEPT !.state = "stopped"]
      BY <3>1 DEF Future
    <3>3. Stopped(t) = changed
      BY <2>2, <3>2 DEF Stopped
    <3> HIDE DEF f
    <3>4. /\ changed \in Seq(Future) /\ DOMAIN changed = DOMAIN chain[t]
          /\ Len(changed) = Len(chain[t])
          /\ \A i \in DOMAIN chain[t] : changed[i] = IF i = h THEN f ELSE chain[t][i]
      BY <3>1, <3>2, ReplacedFuture
    <3>5. QED
      BY <2>1, <2>2, <3>1, <3>2, <3>3, <3>4 DEF EInv, Heads
  <2>3. CASE ~(head[t] # 0 /\ chain[t][head[t]].state = "pending")
    <3>1. chain'[t] = chain[t]
      BY <2>1, <2>3 DEF Stopped
    <3>2. \A i \in DOMAIN chain[t] : i # 0
      BY Typed
    <3>3. QED
      BY <2>1, <2>3, <3>1, <3>2 DEF EInv, Heads
  <2>4. QED
    BY <2>2, <2>3
<1>3. \A t \in Types : \A i \in DOMAIN chain[t] : chain[t][i].state # "stopped"
  BY <1>1 DEF EInv, StoppedByClose
<1>4. ASSUME NEW t \in Types, NEW i, NEW n, Follows(t, i, n) PROVE Follows(t, i, n)'
  BY <1>1, <1>2, <1>3, <1>4 DEF Follows
<1>5. TypeOK' /\ (head \in [Types -> Nat])' /\ (cursor \in [Subscribers -> Nat])'
  <2>1. chain' \in [Types -> Seq(Future)]
    BY <1>1, <1>2
  <2>2. \A t \in Types : head'[t] \in 0..Len(chain'[t])
    BY <1>1, <1>2, Typed
  <2>3. \A s \in Subscribers : cursor'[s] \in 0..Len(chain'[topic'[s]])
    BY <1>1, <1>2, Typed DEF TypeOK
  <2>4. QED
    BY <1>1, <2>1, <2>2, <2>3 DEF TypeOK, EInv
<1>6. Heads'
  BY <1>1, <1>2 DEF Heads
<1>7. Links'
  <2>1. ASSUME NEW t \in Types, NEW i \in DOMAIN chain'[t], chain'[t][i].state = "event"
        PROVE  Follows(t, i + 1, chain[t][i].event)'
    <3>1. PICK n : n = chain[t][i].event
      OBVIOUS
    <3>2. i \in DOMAIN chain[t] /\ chain'[t][i] = chain[t][i]
      BY <1>2, <2>1
    <3>3. Follows(t, i + 1, n)
      BY <2>1, <3>1, <3>2 DEF EInv, Links
    <3>4. Follows(t, i + 1, n)'
      BY <1>4, <3>3
    <3>5. QED
      BY <3>1, <3>2, <3>4 DEF Follows
  <2>2. QED
    BY <2>1 DEF Links
<1>8. Reads'
  BY <1>1, <1>4, QuietReads
<1>9. StoppedByClose' /\ FullStream'
  BY <1>1 DEF EInv, StoppedByClose, FullStream, Subscribed
<1>10. QED
  BY <1>5, <1>6, <1>7, <1>8, <1>9 DEF EInv

LEMMA SubscribeKeeps == ASSUME EInv, NEW s \in Subscribers, Subscribe(s) PROVE EInv'
<1> PICK t \in Types, L \in Nat, n \in Nat : t = topic[s] /\ L = Len(chain[t]) /\ n = sent[t]
  BY Typed
<1>1. /\ TypeOK /\ pc[s] = "new" /\ received[s] = <<>>
      /\ cursor' = [cursor EXCEPT ![s] = StartingPoint(t)]
      /\ joined' = [joined EXCEPT ![s] = n]
      /\ pc' = [pc EXCEPT ![s] = "ready"]
      /\ UNCHANGED <<phase, topic, mustCancel, sent, received, closedAt, cancelled, sendFailed>>
  BY DEF Subscribe, EInv, Reads
<1>2. /\ chain[t] \in Seq(Future) /\ DOMAIN chain[t] = 1..L /\ head[t] \in 0..L
      /\ L + 1 # 0 /\ L + 1 \in 1..(L + 1) /\ 1..L \subseteq 1..(L + 1) /\ L + 1 \notin 1..L
      /\ L + 1 \in Nat
  BY Typed
<1>3. /\ chain' \in [Types -> Seq(Future)] /\ head' \in [Types -> Nat]
      /\ \A u \in Types : head'[u] \in 0..Len(chain'[u]) /\ DOMAIN chain[u] \subseteq DOMAIN chain'[u]
      /\ \A u \in Types : \A i \in DOMAIN chain[u] : chain'[u][i] = chain[u][i]
      /\ \A u \in Types : \A i \in DOMAIN chain'[u] :
            i \in DOMAIN chain[u] \/ (chain'[u][i] = Open /\ i = head'[u])
      /\ Heads'
      /\ StartingPoint(t) = head'[t] /\ head'[t] \in DOMAIN chain'[t]
      /\ chain'[t][head'[t]].state \in {"pending", "cancelled"}
  <2>1. CASE head[t] # 0
    <3>1. UNCHANGED <<chain, head>> /\ StartingPoint(t) = head[t] /\ head[t] \in DOMAIN chain[t]
      BY <1>2, <2>1 DEF Subscribe, StartingPoint
    <3>2. Heads' /\ chain[t][head[t]].state \in {"pending", "cancelled"}
      BY <2>1, <3>1 DEF EInv, Heads
    <3>3. chain \in [Types -> Seq(Future)] /\ head \in [Types -> Nat]
      BY <1>1 DEF TypeOK, EInv
    <3>4. \A u \in Types : head[u] \in 0..Len(chain[u])
      BY <1>1 DEF TypeOK
    <3>5. QED
      BY <3>1, <3>2, <3>3, <3>4
  <2>2. CASE head[t] = 0
    <3>1. /\ chain' = [chain EXCEPT ![t] = Append(chain[t], Open)]
          /\ head' = [head EXCEPT ![t] = L + 1] /\ StartingPoint(t) = L + 1
      BY <2>2 DEF Subscribe, StartingPoint
    <3>2. /\ chain'[t] = Append(chain[t], Open) /\ \A u \in Types : u # t => chain'[u] = chain[u]
          /\ head' \in [Types -> Nat] /\ head'[t] = L + 1
          /\ \A u \in Types : u # t => head'[u] = head[u]
      BY <1>1, <1>2, <3>1 DEF TypeOK, EInv
    <3>3. /\ chain'[t] \in Seq(Future) /\ Len(chain'[t]) = L + 1 /\ DOMAIN chain'[t] = 1..(L + 1)
          /\ chain'[t][L + 1] = Open
          /\ \A i \in 1..L : chain'[t][i] = chain[t][i]
      BY <1>2, <3>2, AppendedFuture
    <3>4. \A i \in 1..(L + 1) : i \in 1..L \/ i = L + 1
      OBVIOUS
    <3>5. \A i \in 1..L : chain[t][i].state # "pending"
      BY <1>2, <2>2 DEF EInv, Heads
    <3>6. Heads'
      <4>1. \A i \in DOMAIN chain'[t] : chain'[t][i].state = "pending" => i = L + 1
        BY <3>3, <3>4, <3>5
      <4>2. chain'[t][head'[t]].state = "pending" /\ head'[t] = Len(chain'[t])
        BY <3>2, <3>3, OpenIsFuture
      <4>3. ASSUME NEW u \in Types, u # t
            PROVE  /\ head'[u] # 0 => /\ head'[u] = Len(chain'[u])
                                      /\ chain'[u][head'[u]].state \in {"pending", "cancelled"}
                   /\ \A i \in DOMAIN chain'[u] : chain'[u][i].state = "pending" => i = head'[u]
        BY <3>2, <4>3 DEF EInv, Heads
      <4>4. QED
        BY <3>2, <4>1, <4>2, <4>3 DEF Heads
    <3>7. chain' \in [Types -> Seq(Future)]
      BY <1>1, <3>1, <3>2, <3>3 DEF TypeOK
    <3>8. ASSUME NEW u \in Types
          PROVE  /\ head'[u] \in 0..Len(chain'[u]) /\ DOMAIN chain[u] \subseteq DOMAIN chain'[u]
                 /\ \A i \in DOMAIN chain[u] : chain'[u][i] = chain[u][i]
                 /\ \A i \in DOMAIN chain'[u] :
                        i \in DOMAIN chain[u] \/ (chain'[u][i] = Open /\ i = head'[u])
      <4>1. CASE u = t
        <5>1. L + 1 \in 0..(L + 1)
          BY <1>2
        <5>2. head'[u] \in 0..Len(chain'[u]) /\ DOMAIN chain[u] \subseteq DOMAIN chain'[u]
          BY <1>2, <3>2, <3>3, <4>1, <5>1
        <5>3. \A i \in DOMAIN chain[u] : chain'[u][i] = chain[u][i]
          BY <1>2, <3>3, <4>1
        <5>4. \A i \in DOMAIN chain'[u] :
                  i \in DOMAIN chain[u] \/ (chain'[u][i] = Open /\ i = head'[u])
          BY <1>2, <3>2, <3>3, <3>4, <4>1
        <5>5. QED
          BY <5>2, <5>3, <5>4
      <4>2. CASE u # t
        <5>1. head[u] \in 0..Len(chain[u])
          BY <1>1 DEF TypeOK
        <5>2. chain'[u] = chain[u] /\ head'[u] = head[u]
          BY <3>2, <4>2
        <5>3. QED
          BY <5>1, <5>2
      <4>3. QED
        BY <4>1, <4>2
    <3>9. QED
      BY <1>2, <3>1, <3>2, <3>3, <3>6, <3>7, <3>8, OpenIsFuture
  <2>3. QED
    BY <2>1, <2>2
<1>4. ASSUME NEW u \in Types, NEW i, NEW m, Follows(u, i, m) PROVE Follows(u, i, m)'
  BY <1>1, <1>3, <1>4 DEF Follows
<1>5. /\ cursor' \in [Subscribers -> Nat] /\ cursor'[s] = head'[t]
      /\ \A x \in Subscribers \ {s} : cursor'[x] = cursor[x]
      /\ joined' \in [Subscribers -> Nat] /\ joined'[s] = n
      /\ \A x \in Subscribers \ {s} : joined'[x] = joined[x]
      /\ pc' \in [Subscribers -> {"new", "ready", "waiting"} \cup Gone] /\ pc'[s] = "ready"
      /\ \A x \in Subscribers \ {s} : pc'[x] = pc[x]
  BY <1>1, <1>3 DEF TypeOK, EInv
<1>6. Links'
  <2>1. ASSUME NEW u \in Types, NEW i \in DOMAIN chain'[u], chain'[u][i].state = "event"
        PROVE  Follows(u, i + 1, chain[u][i].event)'
    <3>1. PICK m : m = chain[u][i].event
      OBVIOUS
    <3>2. i \in DOMAIN chain[u] /\ chain'[u][i] = chain[u][i]
      BY <1>3, <2>1, OpenIsFuture
    <3>3. Follows(u, i + 1, m)
      BY <2>1, <3>1, <3>2 DEF EInv, Links
    <3>4. Follows(u, i + 1, m)'
      BY <1>4, <3>3
    <3>5. QED
      BY <3>1, <3>2, <3>4 DEF Follows
  <2>2. QED
    BY <2>1 DEF Links
<1>7. Reads'
  <2>1. joined'[s] + Len(received'[s]) = n
    <3>1. Len(received'[s]) = 0
      BY <1>1, EmptySeq
    <3>2. QED
      BY <1>5, <3>1
  <2>2. Follows(topic[s], cursor[s], joined[s] + Len(received[s]))'
    BY <1>1, <1>3, <1>5, <2>1 DEF Follows
  <2>3. ASSUME NEW x \in Subscribers, x # s, pc'[x] # "new"
        PROVE  Follows(topic[x], cursor[x], joined[x] + Len(received[x]))'
    BY <1>1, <1>4, <1>5, <2>3, UnmovedReads
  <2>4. QED
    BY <1>1, <1>5, <2>2, <2>3 DEF EInv, Reads
<1>8. TypeOK'
  <2>1. ASSUME NEW x \in Subscribers PROVE cursor'[x] \in 0..Len(chain'[topic[x]])
    <3> PICK u \in Types : u = topic[x]
      BY Typed
    <3>1. chain'[u] \in Seq(Future) /\ Len(chain'[u]) \in Nat
          /\ DOMAIN chain'[u] = 1..Len(chain'[u])
      BY <1>3, LenProperties
    <3>2. cursor'[x] = 0 \/ cursor'[x] \in DOMAIN chain'[u]
      <4>1. CASE x = s
        BY <1>3, <1>5, <4>1
      <4>2. CASE x # s
        <5>1. cursor[x] = 0 \/ cursor[x] \in DOMAIN chain[u]
          BY <1>1, Typed DEF TypeOK
        <5>2. QED
          BY <1>3, <1>5, <4>2, <5>1
      <4>3. QED
        BY <4>1, <4>2
    <3>3. QED
      BY <3>1, <3>2
  <2>2. QED
    BY <1>1, <1>3, <1>5, <2>1 DEF TypeOK
<1>9. StoppedByClose' /\ FullStream'
  <2>1. StoppedByClose'
    <3>1. ASSUME phase = "open", NEW u \in Types, NEW i \in DOMAIN chain'[u]
          PROVE  chain'[u][i].state # "stopped"
      <4>1. CASE i \in DOMAIN chain[u]
        <5>1. chain'[u][i] = chain[u][i]
          BY <1>3, <4>1
        <5>2. QED
          BY <3>1, <4>1, <5>1 DEF EInv, StoppedByClose
      <4>2. CASE i \notin DOMAIN chain[u]
        BY <1>3, <4>2, OpenIsFuture
      <4>3. QED
        BY <4>1, <4>2
    <3>2. QED
      BY <1>1, <1>5, <3>1 DEF EInv, StoppedByClose
  <2>2. DOMAIN received[s] = {}
    BY <1>1
  <2>3. FullStream'
    BY <1>1, <1>5, <2>2 DEF EInv, FullStream, Subscribed
  <2>4. QED
    BY <2>1, <2>3
<1>10. QED
  BY <1>3, <1>5, <1>6, <1>7, <1>8, <1>9 DEF EInv

LEMMA NextEInv == EInv /\ [Next]_vars => EInv'
BY SendKeeps, SubscribeKeeps, AwaitLeaveExitKeeps, TakeKeeps, CancelKeeps, CloseKeeps
   DEF Next, Subscriber

LEMMA EInvHolds == Spec => []EInv
BY InitEInv, NextEInv, PTL DEF Spec

\* However many subscribers there are and whoever of them joins late, lags,
\* leaves or is cancelled, each receives every event of its type sent after
\* its subscription, in order, and sees the end only after all those sent
\* before the bus closed.
THEOREM EveryStreamIsFull == Spec => []FullStream
BY EInvHolds, PTL DEF EInv

LEMMA EInvReaches == EInv => NextEventReachable
BY DEF EInv, Reads, NextEventReachable, Follows, Subscribed, Awaited

\* What a live subscriber awaits next is the first event it has not received,
\* or is still pending: the shared heads and the links between the futures
\* never let an event slip past a slow subscriber.
THEOREM NoEventSlipsPast == Spec => []NextEventReachable
BY EInvHolds, EInvReaches, PTL
-----------------------------------------------------------------------------
\* A closed bus has no heads, unless somebody subscribes to it.
ClosedHeads == phase # "open" /\ ~LateSubscribe => \A t \in Types : head[t] = 0

LEMMA ClosedHeadsKept == EInv /\ ClosedHeads /\ [Next]_vars => ClosedHeads'
<1> SUFFICES ASSUME EInv, ClosedHeads, [Next]_vars, phase' # "open", ~LateSubscribe, NEW t \in Types
             PROVE  head'[t] = 0
  BY DEF ClosedHeads
<1>1. CASE Close
  BY <1>1 DEF Close
<1>2. CASE ~Close
  <2>1. phase # "open" /\ head[t] = 0
    BY <1>2 DEF Next, Subscriber, Send, Subscribe, Await, Take, Cancel, Leave, Exit, ClosedHeads, vars
  <2>2. ASSUME NEW u \in Types, Send(u) PROVE UNCHANGED head
    BY <2>1, <2>2 DEF Send, ClosedHeads
  <2>3. \A s \in Subscribers : ~Subscribe(s)
    BY <2>1 DEF Subscribe
  <2>4. UNCHANGED head
    BY <1>2, <2>2, <2>3 DEF Next, Subscriber, Await, Take, Cancel, Leave, Exit, vars
  <2>5. QED
    BY <2>1, <2>4
<1>3. QED
  BY <1>1, <1>2

LEMMA ClosedIsDone == EInv /\ ClosedHeads => ClosedGoesOn
<1> SUFFICES ASSUME EInv, ClosedHeads, phase # "open", ~LateSubscribe, NEW s \in Subscribers,
                    InLoop(s), Awaited(s).state = "pending"
             PROVE  FALSE
  BY DEF ClosedGoesOn
<1>1. topic[s] \in Types /\ cursor[s] \in DOMAIN chain[topic[s]]
  BY DEF EInv, TypeOK, Reads, Follows, InLoop
<1>2. cursor[s] = head[topic[s]]
  BY <1>1 DEF EInv, Heads, Awaited
<1>3. QED
  BY <1>1, <1>2, Typed DEF ClosedHeads

\* What a subscriber has before it on a closed bus is a number, which only it changes.
LEMMA ClosedStep ==
    ASSUME EInv, ClosedHeads, phase # "open", ~LateSubscribe, [Next]_vars
    PROVE  /\ phase' # "open"
           /\ \A s \in Subscribers :
                /\ FuturesLeft(s)' <= FuturesLeft(s)
                /\ Take(s) => FuturesLeft(s)' < FuturesLeft(s)
<1>1. phase' # "open" /\ UNCHANGED topic
  BY DEF Next, Subscriber, Send, Subscribe, Await, Take, Cancel, Leave, Close, Exit, vars
<1>2. ~Close /\ \A s \in Subscribers : ~Subscribe(s) /\ ~Await(s)
  BY ClosedIsDone DEF Close, Subscribe, Await, ClosedGoesOn, InLoop
<1>3. UNCHANGED chain
  <2>1. ASSUME NEW u \in Types, Send(u) PROVE UNCHANGED chain
    BY <2>1 DEF Send, ClosedHeads
  <2>2. ASSUME NEW s \in Subscribers, Cancel(s) PROVE UNCHANGED chain
    BY <2>2, ClosedIsDone DEF Cancel, ClosedGoesOn, InLoop
  <2>3. QED
    BY <1>2, <2>1, <2>2 DEF Next, Subscriber, Take, Leave, Exit, vars
<1>4. ASSUME NEW s \in Subscribers
      PROVE  /\ InLoop(s) => Len(chain[topic[s]]) \in Nat /\ cursor[s] \in 1..Len(chain[topic[s]])
             /\ FuturesLeft(s) \in Nat /\ (InLoop(s) => FuturesLeft(s) > 0)
  <2>1. topic[s] \in Types
    BY DEF EInv, TypeOK
  <2>2. Len(chain[topic[s]]) \in Nat /\ DOMAIN chain[topic[s]] = 1..Len(chain[topic[s]])
    BY <2>1, Typed
  <2>3. InLoop(s) => cursor[s] \in DOMAIN chain[topic[s]]
    BY DEF EInv, Reads, Follows, InLoop
  <2>4. QED
    BY <2>2, <2>3 DEF FuturesLeft
<1>5. /\ pc \in [Subscribers -> {"new", "ready", "waiting"} \cup Gone]
      /\ cursor \in [Subscribers -> Nat]
  BY DEF EInv, TypeOK
<1>6. ASSUME NEW s \in Subscribers, Take(s)
      PROVE  /\ FuturesLeft(s)' < FuturesLeft(s) /\ FuturesLeft(s)' <= FuturesLeft(s)
             /\ \A r \in Subscribers : r # s => FuturesLeft(r)' = FuturesLeft(r)
  <2>1. InLoop(s)
    BY <1>6 DEF Take, InLoop
  <2>2. CASE pc' = [pc EXCEPT ![s] = "ready"] /\ cursor' = [cursor EXCEPT ![s] = @ + 1]
    <3>1. InLoop(s)' /\ cursor'[s] = cursor[s] + 1 /\ \A r \in Subscribers : r # s =>
            cursor'[r] = cursor[r] /\ pc'[r] = pc[r]
      BY <2>2, <1>5 DEF InLoop
    <3>2. FuturesLeft(s)' = Len(chain[topic[s]]) - (cursor[s] + 1) + 1
      BY <3>1, <1>1, <1>3 DEF FuturesLeft
    <3>3. FuturesLeft(s) = Len(chain[topic[s]]) - cursor[s] + 1
      BY <2>1 DEF FuturesLeft
    <3>4. FuturesLeft(s)' < FuturesLeft(s) /\ FuturesLeft(s)' <= FuturesLeft(s)
      BY <3>2, <3>3, <2>1, <1>4
    <3>5. QED
      BY <3>1, <3>4, <1>1, <1>3 DEF FuturesLeft, InLoop
  <2>3. CASE pc'[s] \in Gone /\ (\A r \in Subscribers : r # s => pc'[r] = pc[r]) /\ UNCHANGED cursor
    <3>1. FuturesLeft(s)' = 0
      BY <2>3 DEF FuturesLeft, InLoop, Gone
    <3>2. QED
      BY <3>1, <2>1, <2>3, <1>1, <1>3, <1>4 DEF FuturesLeft, InLoop
  <2>4. QED
    BY <2>2, <2>3, <1>5, <1>6 DEF Take, Gone
<1>7. ASSUME NEW s \in Subscribers, Cancel(s) \/ Leave(s)
      PROVE  \A r \in Subscribers : FuturesLeft(r)' <= FuturesLeft(r)
  <2>1. /\ UNCHANGED cursor
        /\ \A r \in Subscribers : pc'[r] = pc[r] \/ pc'[r] \in Gone
    BY <1>5, <1>7 DEF Cancel, Leave, Gone
  <2>2. TAKE r \in Subscribers
  <2>3. CASE pc'[r] = pc[r]
    BY <2>1, <2>3, <1>1, <1>3, <1>4 DEF FuturesLeft, InLoop
  <2>4. CASE pc'[r] \in Gone
    <3>1. FuturesLeft(r)' = 0
      BY <2>4 DEF FuturesLeft, InLoop, Gone
    <3>2. QED
      BY <3>1, <1>4
  <2>5. QED
    BY <2>1, <2>3, <2>4
<1>8. CASE UNCHANGED <<pc, cursor>>
  <2>1. \A s \in Subscribers : FuturesLeft(s)' = FuturesLeft(s)
    BY <1>8, <1>1, <1>3 DEF FuturesLeft, InLoop
  <2>2. \A s \in Subscribers : ~Take(s)
    <3>1. ASSUME NEW s \in Subscribers, Take(s) PROVE FALSE
      BY <3>1, <1>4, <1>6, <2>1
    <3>2. QED
      BY <3>1
  <2>3. QED
    BY <2>1, <2>2, <1>1, <1>4
<1>9. ASSUME NEW r \in Subscribers PROVE FuturesLeft(r)' <= FuturesLeft(r)
  <2>1. CASE \E s \in Subscribers : Take(s)
    <3>1. PICK s \in Subscribers : Take(s)
      BY <2>1
    <3>2. FuturesLeft(s)' <= FuturesLeft(s) /\ (r # s => FuturesLeft(r)' = FuturesLeft(r))
      BY <3>1, <1>6
    <3>3. QED
      BY <3>2, <1>4
  <2>2. CASE ~\E s \in Subscribers : Take(s)
    BY <2>2, <1>2, <1>4, <1>7, <1>8
       DEF Next, Subscriber, Send, Exit, vars
  <2>3. QED
    BY <2>1, <2>2
<1>10. QED
  BY <1>1, <1>6, <1>9

\* Once the bus is closed, a subscription is never suspended on a future that nobody
\* completes, and has only as many steps before it as there are futures: so the
\* scope, which closes the bus first, does not wait for a subscriber for ever (_close,
\* _subscribe and __anext__ of the subscription).
THEOREM ClosedSubscribersGoOn == Spec => []ClosedGoesOn /\ EveryTakeCounts
<1>1. Init => ClosedHeads
  BY DEF Init, ClosedHeads
<1>2. ASSUME EInv, ClosedHeads, [Next]_vars
      PROVE  phase # "open" /\ ~LateSubscribe =>
                /\ phase' # "open"
                /\ \A s \in Subscribers :
                    /\ FuturesLeft(s)' <= FuturesLeft(s)
                    /\ Take(s) => FuturesLeft(s)' < FuturesLeft(s)
  BY <1>2, ClosedStep
<1>3. QED
  BY <1>1, <1>2, ClosedHeadsKept, ClosedIsDone, EInvHolds, PTL DEF Spec, EveryTakeCounts
=============================================================================
