-------------------------- MODULE AsyncQueue_proofs --------------------------
(***************************************************************************)
(* Proofs about AsyncQueue, for every set of consumers and every limit.    *)
(* QInv strengthens the checked invariants with the one fact they need     *)
(* from each other: a future is only failed on a finished, empty queue.    *)
(***************************************************************************)
EXTENDS AsyncQueue, SequenceTheorems, FiniteSetTheorems, TLAPS

FailedMeansDrained == waiting = "failed" => finished /\ queue = <<>>

QInv ==
    /\ TypeOK
    /\ NoLostWakeup
    /\ BufferIsNewest
    /\ EndedOnlyWhenDrained
    /\ FailedMeansDrained

\* Appending element n + 1 to the newest elements out of n leaves the newest
\* elements out of n + 1; taking the oldest away leaves the newest, too.
LEMMA AppendKeepsNewest ==
    ASSUME NEW q \in Seq(Nat), NEW n \in Nat, Len(q) <= n,
           \A i \in DOMAIN q : q[i] = n - Len(q) + i
    PROVE  /\ Append(q, n + 1) \in Seq(Nat)
           /\ Len(Append(q, n + 1)) = Len(q) + 1
           /\ \A i \in DOMAIN Append(q, n + 1) :
                Append(q, n + 1)[i] = (n + 1) - (Len(q) + 1) + i
<1>1. /\ Append(q, n + 1) \in Seq(Nat)
      /\ Len(Append(q, n + 1)) = Len(q) + 1
      /\ \A i \in 1..Len(q) : Append(q, n + 1)[i] = q[i]
      /\ Append(q, n + 1)[Len(q) + 1] = n + 1
  BY AppendProperties
<1>2. DOMAIN q = 1..Len(q) /\ DOMAIN Append(q, n + 1) = 1..(Len(q) + 1)
  BY <1>1, LenProperties
<1>3. QED
  BY <1>1, <1>2

LEMMA TailKeepsNewest ==
    ASSUME NEW q \in Seq(Nat), NEW n \in Nat, Len(q) <= n, q # <<>>,
           \A i \in DOMAIN q : q[i] = n - Len(q) + i
    PROVE  /\ Tail(q) \in Seq(Nat) /\ Len(Tail(q)) = Len(q) - 1
           /\ Len(q) \in Nat \ {0} /\ Len(Tail(q)) <= n
           /\ \A i \in DOMAIN Tail(q) : Tail(q)[i] = n - Len(Tail(q)) + i
<1> DEFINE t == Tail(q)
<1>1. /\ t \in Seq(Nat)
      /\ Len(t) = Len(q) - 1
      /\ \A i \in 1..Len(t) : t[i] = q[i + 1]
  BY HeadTailProperties
<1>2. DOMAIN q = 1..Len(q) /\ Len(q) \in Nat
      /\ DOMAIN t = 1..Len(t) /\ Len(t) \in Nat
  BY <1>1, LenProperties
<1> HIDE DEF t
<1>3. ASSUME NEW i \in DOMAIN t PROVE t[i] = n - Len(t) + i
  <2>1. i \in 1..Len(t) /\ i + 1 \in DOMAIN q
    BY <1>1, <1>2
  <2>2. t[i] = q[i + 1] /\ q[i + 1] = n - Len(q) + (i + 1)
    BY <1>1, <2>1
  <2>3. QED
    BY <1>1, <1>2, <2>1, <2>2
<1>4. Len(t) <= n /\ Len(q) # 0
  BY <1>1, <1>2
<1>5. QED
  BY <1>1, <1>2, <1>3, <1>4 DEF t

LEMMA EvictKeepsNewest ==
    ASSUME NEW q \in Seq(Nat), NEW n \in Nat, Len(q) <= n, q # <<>>,
           \A i \in DOMAIN q : q[i] = n - Len(q) + i
    PROVE  /\ Append(Tail(q), n + 1) \in Seq(Nat)
           /\ Len(Append(Tail(q), n + 1)) = Len(q)
           /\ \A i \in DOMAIN Append(Tail(q), n + 1) :
                Append(Tail(q), n + 1)[i] = (n + 1) - Len(q) + i
<1> DEFINE t == Tail(q)
<1>1. /\ t \in Seq(Nat) /\ Len(t) = Len(q) - 1 /\ Len(q) \in Nat /\ Len(t) <= n
      /\ \A i \in DOMAIN t : t[i] = n - Len(t) + i
  BY TailKeepsNewest
<1> HIDE DEF t
<1>2. /\ Append(t, n + 1) \in Seq(Nat)
      /\ Len(Append(t, n + 1)) = Len(t) + 1
      /\ \A i \in DOMAIN Append(t, n + 1) :
            Append(t, n + 1)[i] = (n + 1) - (Len(t) + 1) + i
  BY <1>1, AppendKeepsNewest
<1>3. Len(t) + 1 = Len(q)
  BY <1>1
<1>4. /\ Append(t, n + 1) \in Seq(Nat)
      /\ Len(Append(t, n + 1)) = Len(q)
      /\ \A i \in DOMAIN Append(t, n + 1) :
            Append(t, n + 1)[i] = (n + 1) - Len(q) + i
  BY <1>2, <1>3
<1>5. QED
  BY <1>4, Zenon DEF t

LEMMA InitQInv == Init => QInv
<1> SUFFICES ASSUME Init PROVE QInv
  OBVIOUS
<1> USE QueueAssumption
<1>1. sent \in Nat
  BY DEF Init
<1>2. PICK kept \in Nat : /\ kept <= sent /\ kept <= Limit
                          /\ queue = [i \in 1..kept |-> sent - kept + i]
  <2>1. CASE sent <= Limit
    BY <1>1, <2>1 DEF Init, Newest
  <2>2. CASE ~(sent <= Limit)
    BY <1>1, <2>2 DEF Init, Newest
  <2>3. QED
    BY <2>1, <2>2
<1>3. queue \in Seq(Nat) /\ Len(queue) = kept
  BY <1>1, <1>2
<1>4. TypeOK
  <2>1. dropped \in [Causes -> SUBSET Nat]
    BY <1>1, <1>3 DEF Init, Causes
  <2>2. received \in [Readers -> Seq(Nat)]
    BY DEF Init
  <2>3. QED
    BY <1>1, <1>2, <1>3, <2>1, <2>2 DEF Init, TypeOK
<1>5. BufferIsNewest
  BY <1>1, <1>2, <1>3 DEF Init, BufferIsNewest
<1>6. NoLostWakeup /\ EndedOnlyWhenDrained /\ FailedMeansDrained
  BY DEF Init, NoLostWakeup, EndedOnlyWhenDrained, FailedMeansDrained
<1>7. QED
  BY <1>4, <1>5, <1>6 DEF QInv

LEMMA NextQInv == QInv /\ [Next]_vars => QInv'
<1> SUFFICES ASSUME QInv, [Next]_vars PROVE QInv'
  OBVIOUS
<1> USE QueueAssumption
<1> USE DEF QInv
<1>1. CASE Enqueue
  <2> USE <1>1 DEF Enqueue
  <2>1. CASE WaiterOpen
    <3>1. queue = <<>>
      BY <2>1 DEF WaiterOpen, NoLostWakeup
    <3>2. QED
      BY <2>1, <3>1 DEF WaiterOpen, TypeOK, NoLostWakeup, BufferIsNewest,
                        EndedOnlyWhenDrained, FailedMeansDrained
  <2>2. CASE ~WaiterOpen
    <3>1. Buffer(sent + 1)
      BY <2>2
    <3>2. /\ queue' \in Seq(Nat)
          /\ Len(queue') <= Limit
          /\ Len(queue') <= sent'
          /\ \A i \in DOMAIN queue' : queue'[i] = sent' - Len(queue') + i
          /\ handed' <= sent' - Len(queue')
          /\ dropped' \in [Causes -> SUBSET Nat]
      <4>1. CASE Len(queue) < Limit
        <5>1. queue' = Append(queue, sent + 1) /\ dropped' = dropped
          BY <3>1, <4>1 DEF Buffer
        <5>2. /\ queue \in Seq(Nat) /\ sent \in Nat /\ Len(queue) <= sent
              /\ \A i \in DOMAIN queue : queue[i] = sent - Len(queue) + i
          BY DEF TypeOK, BufferIsNewest
        <5>3. /\ queue' \in Seq(Nat)
              /\ Len(queue') = Len(queue) + 1
              /\ \A i \in DOMAIN queue' : queue'[i] = (sent + 1) - (Len(queue) + 1) + i
          BY <5>1, <5>2, AppendKeepsNewest
        <5>4. QED
          BY <2>2, <4>1, <5>1, <5>2, <5>3 DEF TypeOK, BufferIsNewest
      <4>2. CASE ~(Len(queue) < Limit)
        <5>1. queue # <<>> /\ Head(queue) \in Nat
          BY <4>2 DEF TypeOK
        <5>2. /\ queue' = Append(Tail(queue), sent + 1)
              /\ dropped' = [dropped EXCEPT !["evicted"] = @ \cup {Head(queue)}]
          BY <3>1, <4>2 DEF Buffer
        <5>3. dropped' \in [Causes -> SUBSET Nat]
          BY <5>1, <5>2 DEF TypeOK, Causes
        <5>4. /\ queue' \in Seq(Nat)
              /\ Len(queue') = Len(queue)
              /\ \A i \in DOMAIN queue' : queue'[i] = (sent + 1) - Len(queue) + i
          BY <5>1, <5>2, EvictKeepsNewest DEF TypeOK, BufferIsNewest
        <5>5. QED
          BY <2>2, <5>3, <5>4 DEF TypeOK, BufferIsNewest
      <4>3. QED
        BY <4>1, <4>2
    <3>3. TypeOK' /\ BufferIsNewest'
      BY <2>2, <3>2 DEF TypeOK, BufferIsNewest
    <3>4. (NoLostWakeup /\ EndedOnlyWhenDrained /\ FailedMeansDrained)'
      BY <2>2 DEF WaiterOpen, TypeOK, NoLostWakeup, EndedOnlyWhenDrained, FailedMeansDrained
    <3>5. QED
      BY <3>3, <3>4
  <2>3. QED
    BY <2>1, <2>2
<1>2. CASE Finish
  BY <1>2 DEF Finish, WaiterOpen, TypeOK, NoLostWakeup, BufferIsNewest,
              EndedOnlyWhenDrained, FailedMeansDrained
<1>3. CASE PendingNext
  <2>1. Head(queue) \in Nat /\ Poller \in Readers
    BY <1>3 DEF PendingNext, TypeOK, Readers
  <2>2. TypeOK'
    BY <1>3, <2>1 DEF PendingNext, TypeOK
  <2>3. BufferIsNewest'
    <3>1. /\ queue \in Seq(Nat) /\ sent \in Nat /\ handed \in Nat /\ queue # <<>>
          /\ queue' = Tail(queue) /\ UNCHANGED <<sent, handed>>
      BY <1>3 DEF PendingNext, TypeOK
    <3>2. /\ Len(queue) \in Nat \ {0} /\ Len(queue') = Len(queue) - 1 /\ Len(queue') <= sent
          /\ \A i \in DOMAIN queue' : queue'[i] = sent - Len(queue') + i
      BY <3>1, TailKeepsNewest DEF BufferIsNewest
    <3>3. handed <= sent - Len(queue')
      BY <3>1, <3>2 DEF BufferIsNewest
    <3>4. QED
      BY <3>1, <3>2, <3>3 DEF BufferIsNewest
  <2>4. (NoLostWakeup /\ EndedOnlyWhenDrained /\ FailedMeansDrained)'
    BY <1>3 DEF PendingNext, NoLostWakeup, EndedOnlyWhenDrained, FailedMeansDrained
  <2>5. QED
    BY <2>2, <2>3, <2>4
<1>4. CASE Clear
  <2>1. dropped' \in [Causes -> SUBSET Nat]
    BY <1>4 DEF Clear, TypeOK, Causes
  <2>2. QED
    BY <1>4, <2>1 DEF Clear, WaiterOpen, TypeOK, NoLostWakeup, BufferIsNewest,
                      EndedOnlyWhenDrained, FailedMeansDrained
<1>5. ASSUME NEW c \in Consumers, NextBuffered(c) PROVE QInv'
  <2>1. Head(queue) \in Nat /\ c \in Readers
    BY <1>5 DEF NextBuffered, TypeOK, Readers
  <2>2. TypeOK'
    BY <1>5, <2>1 DEF NextBuffered, TypeOK
  <2>3. BufferIsNewest'
    <3>1. /\ queue \in Seq(Nat) /\ sent \in Nat /\ handed \in Nat /\ queue # <<>>
          /\ queue' = Tail(queue) /\ UNCHANGED <<sent, handed>>
      BY <1>5 DEF NextBuffered, TypeOK
    <3>2. /\ Len(queue) \in Nat \ {0} /\ Len(queue') = Len(queue) - 1 /\ Len(queue') <= sent
          /\ \A i \in DOMAIN queue' : queue'[i] = sent - Len(queue') + i
      BY <3>1, TailKeepsNewest DEF BufferIsNewest
    <3>3. handed <= sent - Len(queue')
      BY <3>1, <3>2 DEF BufferIsNewest
    <3>4. QED
      BY <3>1, <3>2, <3>3 DEF BufferIsNewest
  <2>4. (NoLostWakeup /\ EndedOnlyWhenDrained /\ FailedMeansDrained)'
    BY <1>5 DEF NextBuffered, NoLostWakeup, EndedOnlyWhenDrained, FailedMeansDrained
  <2>5. QED
    BY <2>2, <2>3, <2>4
<1>6. ASSUME NEW c \in Consumers, NextEnded(c) PROVE QInv'
  BY <1>6 DEF NextEnded, MayIterate, TypeOK, NoLostWakeup, BufferIsNewest,
              EndedOnlyWhenDrained, FailedMeansDrained
<1>7. ASSUME NEW c \in Consumers, NextWaits(c) PROVE QInv'
  BY <1>7 DEF NextWaits, MayIterate, TypeOK, NoLostWakeup, BufferIsNewest,
              EndedOnlyWhenDrained, FailedMeansDrained
<1>8. ASSUME NEW c \in Consumers, CancelConsumer(c) PROVE QInv'
  BY <1>8 DEF CancelConsumer, TypeOK, NoLostWakeup, BufferIsNewest,
              EndedOnlyWhenDrained, FailedMeansDrained
<1>9. ASSUME NEW c \in Consumers, Resume(c) PROVE QInv'
  <2>1. TypeOK'
    <3>1. c \in Readers /\ "cancelled" \in Causes
      BY DEF Readers, Causes
    <3>2. received' \in [Readers -> Seq(Nat)] /\ dropped' \in [Causes -> SUBSET Nat]
      BY <1>9, <3>1 DEF Resume, TypeOK
    <3>3. QED
      BY <1>9, <3>2 DEF Resume, TypeOK
  <2>2. NoLostWakeup' /\ BufferIsNewest'
    BY <1>9 DEF Resume, TypeOK, NoLostWakeup, BufferIsNewest
  <2>3. EndedOnlyWhenDrained' /\ FailedMeansDrained'
    BY <1>9 DEF Resume, TypeOK, EndedOnlyWhenDrained, FailedMeansDrained
  <2>4. QED
    BY <2>1, <2>2, <2>3
<1>10. CASE UNCHANGED vars
  BY <1>10 DEF vars, TypeOK, NoLostWakeup, BufferIsNewest,
               EndedOnlyWhenDrained, FailedMeansDrained
<1>11. QED
  BY <1>1, <1>2, <1>3, <1>4, <1>5, <1>6, <1>7, <1>8, <1>9, <1>10 DEF Next, Consumer

THEOREM QInvHolds == Spec => []QInv
BY InitQInv, NextQInv, PTL DEF Spec

\* The variables of AsyncQueue keep their types.
THEOREM TypeCorrect == Spec => []TypeOK
<1>1. QInv => TypeOK
  BY DEF QInv
<1>2. QED
  BY <1>1, QInvHolds, PTL

\* However enqueue, finish, cancel and __anext__ interleave, no consumer of
\* AsyncQueue waits while there is something for it to receive.
THEOREM WakeupSafety == Spec => []NoLostWakeup
<1>1. QInv => NoLostWakeup
  BY DEF QInv
<1>2. QED
  BY <1>1, QInvHolds, PTL

\* The buffer is always the newest untaken elements, in order, within limit.
THEOREM BufferSafety == Spec => []BufferIsNewest
<1>1. QInv => BufferIsNewest
  BY DEF QInv
<1>2. QED
  BY <1>1, QInvHolds, PTL

\* The end of iteration is never signalled ahead of a buffered element.
THEOREM EndSafety == Spec => []EndedOnlyWhenDrained
<1>1. QInv => EndedOnlyWhenDrained
  BY DEF QInv
<1>2. QED
  BY <1>1, QInvHolds, PTL

\* Only a full buffer loses an element to a newer one, and only its oldest.
THEOREM EvictionSafety == Spec => EvictsOldestWhenFull
<1>1. ASSUME QInv, [Next]_vars
      PROVE  [\A e \in dropped'["evicted"] \ dropped["evicted"] :
                Len(queue) = Limit /\ e = Head(queue) /\ waiting # "pending"]_vars
  <2> SUFFICES ASSUME NEW e \in dropped'["evicted"] \ dropped["evicted"], Next
               PROVE  Len(queue) = Limit /\ e = Head(queue) /\ waiting # "pending"
    BY <1>1 DEF vars
  <2> USE QueueAssumption
  <2>1. /\ dropped \in [Causes -> SUBSET Nat] /\ "evicted" \in Causes
        /\ queue \in Seq(Nat) /\ Len(queue) <= Limit
    BY <1>1 DEF QInv, TypeOK, Causes
  <2>2. Enqueue
    BY <2>1 DEF Next, Consumer, Finish, PendingNext, Clear, NextBuffered, NextEnded,
                NextWaits, CancelConsumer, Resume
  <2>3. ~WaiterOpen /\ ~(Len(queue) < Limit)
    BY <2>1, <2>2 DEF Enqueue, Buffer
  <2>4. e = Head(queue)
    BY <2>1, <2>2, <2>3 DEF Enqueue, Buffer
  <2>5. QED
    BY <2>1, <2>3, <2>4 DEF WaiterOpen
<1>2. QED
  BY <1>1, QInvHolds, PTL DEF Spec, EvictsOldestWhenFull
-----------------------------------------------------------------------------
\* Accounting says that the sets of holders have one member; its proof speaks
\* of the holders themselves.
Unplaced(e) ==
    /\ \A r \in Readers : ~Got(r, e)
    /\ \A cause \in Causes : e \notin dropped[cause]
    /\ ~Buffered(e)
    /\ handed # e

Placed(e) ==
    \/ \E r \in Readers : Got(r, e)
    \/ \E cause \in Causes : e \in dropped[cause]
    \/ Buffered(e)
    \/ handed = e

PlacedOnce(e) ==
    /\ \A r, q \in Readers : Got(r, e) /\ Got(q, e) => r = q
    /\ \A k, l \in Causes : e \in dropped[k] /\ e \in dropped[l] => k = l
    /\ \A r \in Readers : Got(r, e) =>
            ~Buffered(e) /\ handed # e /\ \A k \in Causes : e \notin dropped[k]
    /\ \A k \in Causes : e \in dropped[k] => ~Buffered(e) /\ handed # e
    /\ Buffered(e) => handed # e

Places ==
    \A e \in 1..MaxSent : IF e <= sent THEN Placed(e) /\ PlacedOnce(e) ELSE Unplaced(e)

\* What was received is older than the buffer, and what a consumer received is
\* older than what waits for the consumer.
InOrder ==
    /\ \A r \in Readers : \A i \in DOMAIN received[r] : received[r][i] <= sent - Len(queue)
    /\ \A c \in Consumers : \A i \in DOMAIN received[c] :
            waiting = "element" => received[c][i] < handed
    /\ \A r \in Readers : \A i, j \in DOMAIN received[r] :
            i < j => received[r][i] < received[r][j]

HandedOnce ==
    /\ sent <= MaxSent
    /\ waiting = "element" => handed \in 1..sent
    /\ waiting # "element" => handed = 0

AInv ==
    /\ QInv
    /\ Places
    /\ InOrder
    /\ HandedOnce

LEMMA OneHolder ==
    ASSUME NEW e, Placed(e), PlacedOnce(e)
    PROVE  Cardinality(Holders(e)) = 1
<1>1. CASE \E r \in Readers : Got(r, e)
  <2>1. PICK r \in Readers : Got(r, e)
    BY <1>1
  <2>2. Holders(e) = {<<"received", r>>}
    BY <2>1 DEF PlacedOnce, Holders
  <2>3. QED
    BY <2>2, FS_Singleton
<1>2. CASE \E cause \in Causes : e \in dropped[cause]
  <2>1. PICK cause \in Causes : e \in dropped[cause]
    BY <1>2
  <2>2. Holders(e) = {<<"dropped", cause>>}
    BY <2>1 DEF PlacedOnce, Holders
  <2>3. QED
    BY <2>2, FS_Singleton
<1>3. CASE Buffered(e)
  <2>1. Holders(e) = {<<"buffer">>}
    BY <1>3 DEF PlacedOnce, Holders
  <2>2. QED
    BY <2>1, FS_Singleton
<1>4. CASE handed = e
  <2>1. Holders(e) = {<<"future">>}
    BY <1>4 DEF PlacedOnce, Holders
  <2>2. QED
    BY <2>1, FS_Singleton
<1>5. QED
  BY <1>1, <1>2, <1>3, <1>4 DEF Placed

LEMMA NoHolder ==
    ASSUME NEW e, Unplaced(e)
    PROVE  Cardinality(Holders(e)) = 0
<1>1. Holders(e) = {}
  BY DEF Unplaced, Holders
<1>2. QED
  BY <1>1, FS_EmptySet

LEMMA PlacesAccount == AInv => Accounting
<1> SUFFICES ASSUME AInv PROVE Accounting
  OBVIOUS
<1>1. ASSUME NEW e \in 1..MaxSent PROVE Cardinality(Holders(e)) = IF e <= sent THEN 1 ELSE 0
  BY OneHolder, NoHolder DEF AInv, Places
<1>2. QED
  BY <1>1 DEF AInv, InOrder, Accounting

\* The types of what the proofs below speak of.
LEMMA QueueTyped ==
    ASSUME QInv
    PROVE  /\ queue \in Seq(Nat) /\ Len(queue) \in Nat /\ DOMAIN queue = 1..Len(queue)
           /\ sent \in Nat /\ Len(queue) <= sent
           /\ handed \in Nat /\ handed <= sent - Len(queue)
           /\ dropped \in [Causes -> SUBSET Nat] /\ received \in [Readers -> Seq(Nat)]
           /\ \A r \in Readers : /\ received[r] \in Seq(Nat) /\ Len(received[r]) \in Nat
                                 /\ DOMAIN received[r] = 1..Len(received[r])
                                 /\ \A i \in DOMAIN received[r] : received[r][i] \in Nat
           /\ Poller \in Readers /\ Consumers \subseteq Readers
           /\ \A c \in Consumers : c # Poller
<1>1. TypeOK /\ BufferIsNewest
  BY DEF QInv
<1>2. \A r \in Readers : received[r] \in Seq(Nat)
  BY <1>1 DEF TypeOK
<1>3. queue \in Seq(Nat)
  BY <1>1 DEF TypeOK
<1>4. QED
  BY <1>1, <1>2, <1>3, LenProperties, ElementOfSeq, QueueAssumption
  DEF TypeOK, BufferIsNewest, Readers

\* The buffer holds what lies above its bound and nothing else.
LEMMA BufferRange == QInv => \A e \in Nat : Buffered(e) <=> sent - Len(queue) < e /\ e <= sent
<1> SUFFICES ASSUME QInv
             PROVE  \A e \in Nat : Buffered(e) <=> sent - Len(queue) < e /\ e <= sent
  OBVIOUS
<1>1. /\ Len(queue) \in Nat /\ DOMAIN queue = 1..Len(queue) /\ sent \in Nat
      /\ \A i \in DOMAIN queue : queue[i] = sent - Len(queue) + i
  BY QueueTyped DEF QInv, BufferIsNewest
<1>2. ASSUME NEW e \in Nat, Buffered(e) PROVE sent - Len(queue) < e /\ e <= sent
  BY <1>1, <1>2 DEF Buffered
<1>3. ASSUME NEW e \in Nat, sent - Len(queue) < e, e <= sent PROVE Buffered(e)
  <2>1. e - (sent - Len(queue)) \in 1..Len(queue)
    BY <1>1, <1>3
  <2>2. queue[e - (sent - Len(queue))] = e
    BY <1>1, <1>3, <2>1
  <2>3. QED
    BY <1>1, <2>1, <2>2 DEF Buffered
<1>4. QED
  BY <1>2, <1>3

LEMMA BufferRangeAfter ==
    QInv' => \A e \in Nat : Buffered(e)' <=> sent' - Len(queue') < e /\ e <= sent'
<1>1. QInv' => (\A e \in Nat : Buffered(e) <=> sent - Len(queue) < e /\ e <= sent)'
  BY BufferRange, PTL
<1>2. QED
  BY <1>1

\* An element that is taken goes to the end of what its reader received.
LEMMA GotAppend ==
    ASSUME NEW s \in Seq(Nat), NEW x \in Nat
    PROVE  /\ DOMAIN s = 1..Len(s) /\ Len(s) \in Nat
           /\ DOMAIN Append(s, x) = 1..(Len(s) + 1)
           /\ \A i \in 1..Len(s) : Append(s, x)[i] = s[i]
           /\ Append(s, x)[Len(s) + 1] = x
           /\ \A e : (\E i \in DOMAIN Append(s, x) : Append(s, x)[i] = e)
                        <=> (\E i \in DOMAIN s : s[i] = e) \/ e = x
<1>1. /\ DOMAIN s = 1..Len(s) /\ Len(s) \in Nat
      /\ DOMAIN Append(s, x) = 1..(Len(s) + 1)
      /\ \A i \in 1..Len(s) : Append(s, x)[i] = s[i]
      /\ Append(s, x)[Len(s) + 1] = x
  BY AppendProperties, LenProperties
<1>2. \A i \in 1..(Len(s) + 1) : i \in 1..Len(s) \/ i = Len(s) + 1
  BY <1>1
<1>3. 1..Len(s) \subseteq 1..(Len(s) + 1) /\ Len(s) + 1 \in 1..(Len(s) + 1)
  BY <1>1
<1>4. QED
  BY <1>1, <1>2, <1>3

LEMMA InitAInv == Init => AInv
<1> SUFFICES ASSUME Init PROVE AInv
  OBVIOUS
<1>1. QInv
  BY InitQInv
<1>2. /\ sent \in Nat /\ Len(queue) \in Nat /\ Len(queue) <= sent /\ MaxSent \in Nat
      /\ \A e \in Nat : Buffered(e) <=> sent - Len(queue) < e /\ e <= sent
  BY <1>1, QueueTyped, BufferRange, QueueAssumption
<1>3. /\ handed = 0 /\ waiting = "none" /\ sent <= MaxSent
      /\ \A r \in Readers : received[r] = <<>>
      /\ \A e : \A cause \in Causes :
            e \in dropped[cause] <=> cause = "evicted" /\ e \in 1..(sent - Len(queue))
      /\ "evicted" \in Causes
  BY DEF Init, Causes
<1>4. \A r \in Readers : DOMAIN received[r] = {}
  BY <1>3
<1>5. \A e : \A r \in Readers : ~Got(r, e)
  BY <1>4 DEF Got
<1>6. ASSUME NEW e \in 1..MaxSent
      PROVE  IF e <= sent THEN Placed(e) /\ PlacedOnce(e) ELSE Unplaced(e)
  <2>1. e \in Nat /\ e # 0
    BY <1>2
  <2>2. e \in 1..(sent - Len(queue)) <=> ~(sent - Len(queue) < e)
    BY <1>2, <2>1
  <2>3. CASE e <= sent
    BY <1>2, <1>3, <1>5, <2>1, <2>2, <2>3 DEF Placed, PlacedOnce
  <2>4. CASE ~(e <= sent)
    <3>1. sent - Len(queue) < e
      BY <1>2, <2>1, <2>4
    <3>2. QED
      BY <1>2, <1>3, <1>5, <2>1, <2>2, <2>4, <3>1 DEF Unplaced
  <2>5. QED
    BY <2>3, <2>4
<1>7. InOrder /\ HandedOnce
  <2>1. Consumers \subseteq Readers
    BY DEF Readers
  <2>2. QED
    BY <1>3, <1>4, <2>1 DEF InOrder, HandedOnce
<1>8. QED
  BY <1>1, <1>6, <1>7 DEF AInv, Places

\* The oldest buffered element goes to a reader.
LEMMA TakeKeepsPlaces ==
    ASSUME AInv, QInv', NEW reader \in Readers, queue # <<>>, queue' = Tail(queue),
           received' = [received EXCEPT ![reader] = Append(@, Head(queue))],
           UNCHANGED <<waiting, handed, sent, dropped>>,
           reader = Poller \/ waiting = "none"
    PROVE  AInv'
<1> PICK L \in Nat : L = Len(queue)
  BY QueueTyped DEF AInv
<1> PICK h : h = Head(queue)
  OBVIOUS
<1>1. QInv /\ sent <= MaxSent /\ sent \in Nat /\ handed \in Nat /\ L <= sent
      /\ handed <= sent - L
  BY QueueTyped DEF AInv, HandedOnce
<1>2. h \in Nat /\ h = sent - L + 1 /\ Len(queue') = L - 1 /\ L # 0
  <2>1. /\ queue \in Seq(Nat) /\ \A i \in DOMAIN queue : queue[i] = sent - L + i
        /\ DOMAIN queue = 1..L
    BY <1>1, QueueTyped DEF QInv, BufferIsNewest
  <2>2. Len(queue') = L - 1 /\ L # 0
    BY <1>1, <2>1, TailKeepsNewest
  <2>3. h = queue[1] /\ 1 \in 1..L
    BY <2>1, <2>2, HeadTailProperties
  <2>4. h = sent - L + 1
    BY <2>1, <2>3
  <2>5. QED
    BY <1>1, <2>2, <2>4
<1>3. \A e \in Nat : /\ Buffered(e) <=> sent - L < e /\ e <= sent
                     /\ Buffered(e)' <=> sent - (L - 1) < e /\ e <= sent
  BY <1>1, <1>2, BufferRange, BufferRangeAfter
<1>4. /\ \A e \in Nat : Buffered(e)' <=> Buffered(e) /\ e # h
      /\ Buffered(h) /\ h <= sent /\ handed < h
  BY <1>1, <1>2, <1>3
<1>5. /\ received'[reader] = Append(received[reader], h)
      /\ \A r \in Readers : r # reader => received'[r] = received[r]
  BY <1>1, QueueTyped
<1>6. /\ received[reader] \in Seq(Nat)
      /\ \A r \in Readers : \A i \in DOMAIN received[r] :
            received[r][i] \in Nat /\ received[r][i] <= sent - L
  BY <1>1, QueueTyped DEF AInv, InOrder
<1>7. /\ DOMAIN received'[reader] = 1..(Len(received[reader]) + 1)
      /\ DOMAIN received[reader] = 1..Len(received[reader]) /\ Len(received[reader]) \in Nat
      /\ \A i \in 1..Len(received[reader]) : received'[reader][i] = received[reader][i]
      /\ received'[reader][Len(received[reader]) + 1] = h
      /\ \A e : Got(reader, e)' <=> Got(reader, e) \/ e = h
  <2>1. received[reader] \in Seq(Nat) /\ h \in Nat
    BY <1>2, <1>6
  <2> DEFINE longer == Append(received[reader], h)
  <2>2. /\ DOMAIN longer = 1..(Len(received[reader]) + 1)
        /\ DOMAIN received[reader] = 1..Len(received[reader]) /\ Len(received[reader]) \in Nat
        /\ \A i \in 1..Len(received[reader]) : longer[i] = received[reader][i]
        /\ longer[Len(received[reader]) + 1] = h
        /\ \A e : (\E i \in DOMAIN longer : longer[i] = e)
                    <=> (\E i \in DOMAIN received[reader] : received[reader][i] = e) \/ e = h
    BY <2>1, GotAppend
  <2>3. received'[reader] = longer
    BY <1>5
  <2> HIDE DEF longer
  <2>4. QED
    BY <2>2, <2>3 DEF Got
<1>8. \A r \in Readers : \A e : Got(r, e)' <=> Got(r, e) \/ (r = reader /\ e = h)
  BY <1>5, <1>7 DEF Got
<1>9. Places'
  <2>1. ASSUME NEW e \in 1..MaxSent
        PROVE  IF e <= sent THEN Placed(e)' /\ PlacedOnce(e)' ELSE Unplaced(e)'
    <3>1. e \in Nat /\ (IF e <= sent THEN Placed(e) /\ PlacedOnce(e) ELSE Unplaced(e))
      BY QueueAssumption DEF AInv, Places
    <3>2. CASE e = h
      BY <1>4, <1>8, <3>1, <3>2 DEF Placed, PlacedOnce
    <3>3. CASE e # h
      BY <1>4, <1>8, <3>1, <3>3 DEF Placed, PlacedOnce, Unplaced
    <3>4. QED
      BY <3>2, <3>3
  <2>2. QED
    BY <2>1 DEF Places
<1>10. InOrder'
  <2>1. ASSUME NEW i \in DOMAIN received'[reader]
        PROVE  \/ i \in DOMAIN received[reader] /\ received'[reader][i] = received[reader][i]
               \/ i = Len(received[reader]) + 1 /\ received'[reader][i] = h
    BY <1>7
  <2>2. ASSUME NEW i \in DOMAIN received'[reader]
        PROVE  received'[reader][i] <= sent - (L - 1)
    <3>1. received'[reader][i] = h \/ (received'[reader][i] \in Nat /\ received'[reader][i] <= sent - L)
      BY <1>6, <2>1
    <3>2. QED
      BY <1>1, <1>2, <3>1
  <2>3. ASSUME NEW i \in DOMAIN received'[reader], NEW j \in DOMAIN received'[reader], i < j
        PROVE  received'[reader][i] < received'[reader][j]
    <3>1. i \in DOMAIN received[reader] /\ received'[reader][i] = received[reader][i]
      BY <1>7, <2>1, <2>3
    <3>2. CASE j \in DOMAIN received[reader] /\ received'[reader][j] = received[reader][j]
      BY <2>3, <3>1, <3>2 DEF AInv, InOrder
    <3>3. CASE received'[reader][j] = h
      <4>1. received[reader][i] \in Nat /\ received[reader][i] <= sent - L
        BY <1>6, <3>1
      <4>2. received[reader][i] < h
        BY <1>1, <1>2, <4>1
      <4>3. QED
        BY <3>1, <3>3, <4>2
    <3>4. QED
      BY <2>1, <3>2, <3>3
  <2>4. ASSUME NEW r \in Readers, r # reader, NEW i \in DOMAIN received'[r]
        PROVE  received'[r][i] <= sent - (L - 1)
    <3>1. received'[r][i] \in Nat /\ received'[r][i] <= sent - L
      BY <1>5, <1>6, <2>4
    <3>2. QED
      BY <1>1, <3>1
  <2>5. ASSUME NEW c \in Consumers, NEW i \in DOMAIN received'[c], waiting = "element"
        PROVE  received'[c][i] < handed
    <3>1. c \in Readers /\ c # reader
      BY <1>1, <2>5, QueueTyped
    <3>2. QED
      BY <1>5, <2>5, <3>1 DEF AInv, InOrder
  <2>6. ASSUME NEW r \in Readers, r # reader,
               NEW i \in DOMAIN received'[r], NEW j \in DOMAIN received'[r], i < j
        PROVE  received'[r][i] < received'[r][j]
    BY <1>5, <2>6 DEF AInv, InOrder
  <2>7. QED
    BY <1>2, <2>2, <2>3, <2>4, <2>5, <2>6 DEF InOrder
<1>11. QED
  BY <1>9, <1>10 DEF AInv, HandedOnce

\* Steps that move no element.
LEMMA QuietKeepsPlaces ==
    ASSUME AInv, QInv', UNCHANGED <<queue, handed, sent, received, dropped>>,
           waiting' = "element" <=> waiting = "element"
    PROVE  AInv'
<1>1. Places'
  BY DEF AInv, Places, Placed, PlacedOnce, Unplaced, Got, Buffered
<1>2. InOrder' /\ HandedOnce'
  BY DEF AInv, InOrder, HandedOnce
<1>3. QED
  BY <1>1, <1>2 DEF AInv

\* The element handed to a consumer is received when its task resumes, or
\* dropped when it was cancelled in between.
LEMMA ResumeKeepsPlaces ==
    ASSUME AInv, QInv', NEW c \in Consumers, Resume(c) PROVE AInv'
<1>1. QInv /\ sent \in Nat /\ c \in Readers /\ received[c] \in Seq(Nat) /\ "cancelled" \in Causes
  BY QueueTyped DEF AInv, Causes
<1>2. waiting' = "none" /\ handed' = 0 /\ UNCHANGED <<queue, sent>>
  BY DEF Resume
<1>3. CASE waiting # "element"
  <2>1. handed = 0 /\ UNCHANGED <<received, dropped>>
    BY <1>3 DEF Resume, AInv, HandedOnce
  <2>2. QED
    BY <1>2, <1>3, <2>1, QuietKeepsPlaces
<1>4. CASE waiting = "element"
  <2> PICK h : h = handed
    OBVIOUS
  <2>1. h \in Nat /\ 1 <= h /\ h <= sent /\ h <= sent - Len(queue) /\ Len(queue) \in Nat
    BY <1>1, <1>4, QueueTyped DEF AInv, HandedOnce
  <2>2. \A e : Buffered(e)' <=> Buffered(e)
    BY <1>2 DEF Buffered
  <2>3. HandedOnce'
    BY <1>2 DEF AInv, HandedOnce
  <2>4. CASE Interrupted(c)
    <3>1. received' = received /\ dropped' = [dropped EXCEPT !["cancelled"] = @ \cup {h}]
      BY <1>4, <2>4 DEF Resume
    <3>2. \A e : \A cause \in Causes :
            e \in dropped'[cause] <=> e \in dropped[cause] \/ (cause = "cancelled" /\ e = h)
      BY <1>1, <3>1, QueueTyped
    <3>3. \A r \in Readers : \A e : Got(r, e)' <=> Got(r, e)
      BY <3>1 DEF Got
    <3>4. Places'
      <4>1. ASSUME NEW e \in 1..MaxSent
            PROVE  IF e <= sent THEN Placed(e)' /\ PlacedOnce(e)' ELSE Unplaced(e)'
        <5>1. e # 0 /\ IF e <= sent THEN Placed(e) /\ PlacedOnce(e) ELSE Unplaced(e)
          BY QueueAssumption DEF AInv, Places
        <5>2. CASE e = h
          BY <1>1, <1>2, <2>1, <2>2, <3>2, <3>3, <5>1, <5>2 DEF Placed, PlacedOnce
        <5>3. CASE e # h
          BY <1>2, <2>2, <3>2, <3>3, <5>1, <5>3 DEF Placed, PlacedOnce, Unplaced
        <5>4. QED
          BY <5>2, <5>3
      <4>2. QED
        BY <1>2, <4>1 DEF Places
    <3>5. InOrder'
      BY <1>2, <3>1 DEF AInv, InOrder
    <3>6. QED
      BY <2>3, <3>4, <3>5 DEF AInv
  <2>5. CASE ~Interrupted(c)
    <3>1. dropped' = dropped /\ received' = [received EXCEPT ![c] = Append(received[c], h)]
      BY <1>4, <2>5 DEF Resume
    <3> DEFINE longer == Append(received[c], h)
    <3>2. /\ received'[c] = longer
          /\ \A r \in Readers : r # c => received'[r] = received[r]
      BY <1>1, <3>1, QueueTyped
    <3>3. /\ DOMAIN longer = 1..(Len(received[c]) + 1)
          /\ DOMAIN received[c] = 1..Len(received[c]) /\ Len(received[c]) \in Nat
          /\ \A i \in 1..Len(received[c]) : longer[i] = received[c][i]
          /\ longer[Len(received[c]) + 1] = h
          /\ \A e : (\E i \in DOMAIN longer : longer[i] = e)
                      <=> (\E i \in DOMAIN received[c] : received[c][i] = e) \/ e = h
      BY <1>1, <2>1, GotAppend
    <3> HIDE DEF longer
    <3>4. \A r \in Readers : \A e : Got(r, e)' <=> Got(r, e) \/ (r = c /\ e = h)
      BY <3>2, <3>3 DEF Got
    <3>5. Places'
      <4>1. ASSUME NEW e \in 1..MaxSent
            PROVE  IF e <= sent THEN Placed(e)' /\ PlacedOnce(e)' ELSE Unplaced(e)'
        <5>1. e # 0 /\ IF e <= sent THEN Placed(e) /\ PlacedOnce(e) ELSE Unplaced(e)
          BY QueueAssumption DEF AInv, Places
        <5>2. CASE e = h
          BY <1>1, <1>2, <2>1, <2>2, <3>1, <3>4, <5>1, <5>2 DEF Placed, PlacedOnce
        <5>3. CASE e # h
          BY <1>2, <2>2, <3>1, <3>4, <5>1, <5>3 DEF Placed, PlacedOnce, Unplaced
        <5>4. QED
          BY <5>2, <5>3
      <4>2. QED
        BY <1>2, <4>1 DEF Places
    <3>6. InOrder'
      <4>1. ASSUME NEW i \in DOMAIN received'[c]
            PROVE  \/ i \in DOMAIN received[c] /\ received'[c][i] = received[c][i]
                   \/ i = Len(received[c]) + 1 /\ received'[c][i] = h
        BY <3>2, <3>3
      <4>2. ASSUME NEW i \in DOMAIN received'[c] PROVE received'[c][i] <= sent - Len(queue)
        BY <1>1, <2>1, <4>1 DEF AInv, InOrder
      <4>3. ASSUME NEW i \in DOMAIN received'[c], NEW j \in DOMAIN received'[c], i < j
            PROVE  received'[c][i] < received'[c][j]
        <5>1. i \in DOMAIN received[c] /\ received'[c][i] = received[c][i]
          BY <3>2, <3>3, <4>1, <4>3
        <5>2. CASE j \in DOMAIN received[c] /\ received'[c][j] = received[c][j]
          BY <1>1, <4>3, <5>1, <5>2 DEF AInv, InOrder
        <5>3. CASE received'[c][j] = h
          BY <1>4, <5>1, <5>3 DEF AInv, InOrder
        <5>4. QED
          BY <4>1, <5>2, <5>3
      <4>4. QED
        BY <1>2, <3>2, <4>2, <4>3 DEF AInv, InOrder
    <3>7. QED
      BY <2>3, <3>5, <3>6 DEF AInv
  <2>6. QED
    BY <2>4, <2>5
<1>5. QED
  BY <1>3, <1>4

\* clear drops what is buffered.
LEMMA ClearKeepsPlaces == ASSUME AInv, QInv', Clear PROVE AInv'
<1>1. /\ QInv /\ "cleared" \in Causes /\ queue' = <<>>
      /\ dropped' = [dropped EXCEPT !["cleared"] = @ \cup {queue[i] : i \in DOMAIN queue}]
      /\ UNCHANGED <<waiting, handed, sent, received>>
  BY DEF Clear, AInv, Causes
<1>2. \A e : ~Buffered(e)'
  BY <1>1 DEF Buffered
<1>3. \A e : \A cause \in Causes :
        e \in dropped'[cause] <=> e \in dropped[cause] \/ (cause = "cleared" /\ Buffered(e))
  BY <1>1, QueueTyped DEF Buffered
<1>4. \A r \in Readers : \A e : Got(r, e)' <=> Got(r, e)
  BY <1>1 DEF Got
<1>5. Places'
  <2>1. ASSUME NEW e \in 1..MaxSent
        PROVE  IF e <= sent THEN Placed(e)' /\ PlacedOnce(e)' ELSE Unplaced(e)'
    <3>1. IF e <= sent THEN Placed(e) /\ PlacedOnce(e) ELSE Unplaced(e)
      BY DEF AInv, Places
    <3>2. QED
      BY <1>1, <1>2, <1>3, <1>4, <3>1 DEF Placed, PlacedOnce, Unplaced
  <2>2. QED
    BY <1>1, <2>1 DEF Places
<1>6. InOrder'
  <2>1. Len(queue') = 0 /\ Len(queue) \in Nat /\ sent \in Nat
    BY <1>1, EmptySeq, QueueTyped
  <2>2. ASSUME NEW r \in Readers, NEW i \in DOMAIN received[r] PROVE received[r][i] <= sent
    <3>1. received[r][i] \in Nat /\ received[r][i] <= sent - Len(queue)
      BY <1>1, QueueTyped DEF AInv, InOrder
    <3>2. QED
      BY <2>1, <3>1
  <2>3. sent' - Len(queue') = sent
    BY <1>1, <2>1
  <2>4. QED
    BY <1>1, <2>2, <2>3 DEF AInv, InOrder
<1>7. QED
  BY <1>1, <1>5, <1>6 DEF AInv, HandedOnce

\* A new element goes to the waiting consumer or to the buffer.
LEMMA EnqueueKeepsPlaces == ASSUME AInv, QInv', Enqueue PROVE AInv'
<1> PICK L \in Nat : L = Len(queue)
  BY QueueTyped DEF AInv
<1>1. /\ QInv /\ sent < MaxSent /\ sent' = sent + 1 /\ received' = received
      /\ sent \in Nat /\ L <= sent /\ MaxSent \in Nat /\ handed \in Nat /\ handed <= sent - L
      /\ "evicted" \in Causes
  BY QueueTyped, QueueAssumption DEF Enqueue, AInv, Causes
<1>2. ASSUME NEW e \in 1..MaxSent
      PROVE  /\ e \in Nat /\ e # 0
             /\ IF e <= sent THEN Placed(e) /\ PlacedOnce(e) ELSE Unplaced(e)
             /\ e <= sent + 1 <=> e <= sent \/ e = sent + 1
             /\ ~(sent + 1 <= sent) /\ handed # sent + 1
  BY <1>1 DEF AInv, Places
<1>3. \A r \in Readers : \A e : Got(r, e)' <=> Got(r, e)
  BY <1>1 DEF Got
<1>4. \A e \in Nat : /\ Buffered(e) <=> sent - L < e /\ e <= sent
                     /\ Buffered(e)' <=> (sent + 1) - Len(queue') < e /\ e <= sent + 1
  BY <1>1, BufferRange, BufferRangeAfter
<1>5. CASE WaiterOpen
  <2>1. waiting' = "element" /\ handed' = sent + 1 /\ UNCHANGED <<queue, dropped>>
    BY <1>5 DEF Enqueue
  <2>2. handed = 0 /\ L = 0
    BY <1>1, <1>5, EmptySeq DEF AInv, HandedOnce, QInv, NoLostWakeup, WaiterOpen
  <2>3. \A e : Buffered(e)' <=> Buffered(e)
    BY <2>1 DEF Buffered
  <2>4. Places'
    <3>1. ASSUME NEW e \in 1..MaxSent
          PROVE  IF e <= sent + 1 THEN Placed(e)' /\ PlacedOnce(e)' ELSE Unplaced(e)'
      <4>1. CASE e = sent + 1
        BY <1>2, <1>3, <2>1, <2>3, <4>1 DEF Placed, PlacedOnce, Unplaced
      <4>2. CASE e # sent + 1
        BY <1>2, <1>3, <2>1, <2>2, <2>3, <4>2 DEF Placed, PlacedOnce, Unplaced
      <4>3. QED
        BY <4>1, <4>2
    <3>2. QED
      BY <1>1, <3>1 DEF Places
  <2>5. ASSUME NEW r \in Readers, NEW i \in DOMAIN received[r]
        PROVE  received[r][i] <= sent + 1 - L /\ received[r][i] < sent + 1
    <3>1. received[r][i] \in Nat /\ received[r][i] <= sent - L
      BY <1>1, QueueTyped DEF AInv, InOrder
    <3>2. QED
      BY <1>1, <2>2, <3>1
  <2>6. InOrder'
    <3>1. Consumers \subseteq Readers
      BY DEF Readers
    <3>2. QED
      BY <1>1, <2>1, <2>5, <3>1 DEF AInv, InOrder
  <2>7. HandedOnce'
    BY <1>1, <2>1 DEF HandedOnce
  <2>8. QED
    BY <2>4, <2>6, <2>7 DEF AInv
<1>6. CASE ~WaiterOpen
  <2>1. Buffer(sent + 1) /\ UNCHANGED <<waiting, handed>>
    BY <1>6 DEF Enqueue
  <2>2. HandedOnce'
    BY <1>1, <2>1 DEF AInv, HandedOnce
  <2>3. Places' /\ Len(queue') \in {L, L + 1}
    <3>1. CASE L < Limit
      <4>1. queue' = Append(queue, sent + 1) /\ dropped' = dropped
        BY <2>1, <3>1 DEF Buffer
      <4>2. Len(queue') = L + 1
        BY <1>1, <4>1, QueueTyped, AppendProperties
      <4>3. \A e \in Nat : Buffered(e)' <=> Buffered(e) \/ e = sent + 1
        <5>1. \A e \in Nat : sent - L < e /\ e <= sent + 1 <=> (sent - L < e /\ e <= sent) \/ e = sent + 1
          BY <1>1
        <5>2. (sent + 1) - Len(queue') = sent - L
          BY <1>1, <4>2
        <5>3. QED
          BY <1>4, <5>1, <5>2
      <4>4. ASSUME NEW e \in 1..MaxSent
            PROVE  IF e <= sent + 1 THEN Placed(e)' /\ PlacedOnce(e)' ELSE Unplaced(e)'
        BY <1>2, <1>3, <2>1, <4>1, <4>3 DEF Placed, PlacedOnce, Unplaced
      <4>5. QED
        BY <1>1, <4>2, <4>4 DEF Places
    <3>2. CASE ~(L < Limit)
      <4> PICK h : h = Head(queue)
        OBVIOUS
      <4>1. queue # <<>>
        BY <1>1, <3>2, EmptySeq, QueueAssumption
      <4>2. /\ queue' = Append(Tail(queue), sent + 1)
            /\ dropped' = [dropped EXCEPT !["evicted"] = @ \cup {h}]
        BY <2>1, <3>2 DEF Buffer
      <4>3. queue \in Seq(Nat) /\ \A i \in DOMAIN queue : queue[i] = sent - L + i
        BY <1>1, QueueTyped DEF QInv, BufferIsNewest
      <4>4. Len(queue') = L /\ L # 0
        BY <1>1, <4>1, <4>2, <4>3, EvictKeepsNewest, TailKeepsNewest
      <4>5. h = sent - L + 1
        <5>1. h = queue[1] /\ 1 \in DOMAIN queue
          BY <4>1, <4>3, <4>4, HeadTailProperties, LenProperties
        <5>2. QED
          BY <4>3, <5>1
      <4>6. h \in Nat /\ h <= sent /\ h # sent + 1 /\ handed < h
        BY <1>1, <4>4, <4>5
      <4>7. /\ \A e \in Nat : Buffered(e)' <=> (Buffered(e) /\ e # h) \/ e = sent + 1
            /\ Buffered(h)
        <5>1. \A e \in Nat : (sent + 1) - L < e /\ e <= sent + 1
                                <=> (sent - L < e /\ e <= sent /\ e # h) \/ e = sent + 1
          BY <1>1, <4>4, <4>5
        <5>2. sent - L < h
          BY <1>1, <4>5
        <5>3. QED
          BY <1>4, <4>4, <4>6, <5>1, <5>2
      <4>8. \A e : \A cause \in Causes :
                e \in dropped'[cause] <=> e \in dropped[cause] \/ (cause = "evicted" /\ e = h)
        BY <1>1, <4>2, QueueTyped
      <4>9. ASSUME NEW e \in 1..MaxSent
            PROVE  IF e <= sent + 1 THEN Placed(e)' /\ PlacedOnce(e)' ELSE Unplaced(e)'
        <5>1. CASE e = h
          BY <1>1, <1>2, <1>3, <2>1, <4>6, <4>7, <4>8, <5>1 DEF Placed, PlacedOnce, Unplaced
        <5>2. CASE e # h
          BY <1>2, <1>3, <2>1, <4>7, <4>8, <5>2 DEF Placed, PlacedOnce, Unplaced
        <5>3. QED
          BY <5>1, <5>2
      <4>10. QED
        BY <1>1, <4>4, <4>9 DEF Places
    <3>3. QED
      BY <3>1, <3>2
  <2>4. ASSUME NEW r \in Readers, NEW i \in DOMAIN received[r]
        PROVE  received[r][i] <= sent + 1 - Len(queue')
    <3>1. received[r][i] \in Nat /\ received[r][i] <= sent - L
      BY <1>1, QueueTyped DEF AInv, InOrder
    <3>2. QED
      BY <1>1, <2>3, <3>1
  <2>5. InOrder'
    BY <1>1, <2>1, <2>4 DEF AInv, InOrder
  <2>6. QED
    BY <2>2, <2>3, <2>5 DEF AInv
<1>7. QED
  BY <1>5, <1>6

LEMMA NextAInv == AInv /\ QInv' /\ [Next]_vars => AInv'
<1> SUFFICES ASSUME AInv, QInv', [Next]_vars PROVE AInv'
  OBVIOUS
<1>1. CASE Finish
  BY <1>1, QuietKeepsPlaces DEF Finish, WaiterOpen
<1>2. CASE PendingNext
  BY <1>2, TakeKeepsPlaces DEF PendingNext, Readers
<1>3. ASSUME NEW c \in Consumers, NextBuffered(c) PROVE AInv'
  BY <1>3, TakeKeepsPlaces DEF NextBuffered, MayIterate, Readers
<1>4. ASSUME NEW c \in Consumers, NextEnded(c) \/ NextWaits(c) \/ CancelConsumer(c) PROVE AInv'
  BY <1>4, QuietKeepsPlaces DEF NextEnded, NextWaits, CancelConsumer, MayIterate
<1>5. CASE UNCHANGED vars
  BY <1>5, QuietKeepsPlaces DEF vars
<1>6. QED
  BY <1>1, <1>2, <1>3, <1>4, <1>5, EnqueueKeepsPlaces, ClearKeepsPlaces, ResumeKeepsPlaces
  DEF Next, Consumer

\* No element is delivered twice and none vanishes without a recorded cause:
\* each is in exactly one place, and every reader obtains what it receives in
\* the order of the enqueues, whoever else polls, clears, finishes or cancels.
THEOREM EveryElementAccounted == Spec => []Accounting
<1>1. Spec => []AInv
  BY InitAInv, NextAInv, QInvHolds, PTL DEF Spec
<1>2. QED
  BY <1>1, PlacesAccount, PTL
-----------------------------------------------------------------------------
\* Once the queue is finished, whoever waits has a future that is done, so that
\* nothing but its next turn is between it and the end of its wait, and nobody starts
\* to wait (finish, cancel and __anext__ of AsyncQueue).
THEOREM FinishedConsumersGoOn == Spec => []FinishedCanResume /\ FinishedForGood
<1>1. QInv => FinishedCanResume
  BY DEF QInv, NoLostWakeup, TypeOK, FinishedCanResume
<1>2. ASSUME QInv, [Next]_vars
      PROVE  finished => finished' /\ \A c \in Consumers : pc'[c] = "waiting" => pc[c] = "waiting"
  <2> SUFFICES ASSUME finished
               PROVE  finished' /\ \A c \in Consumers : pc'[c] = "waiting" => pc[c] = "waiting"
    OBVIOUS
  <2>1. pc \in [Consumers -> {"idle", "waiting", "ended"}]
    BY <1>2 DEF QInv, TypeOK
  <2>2. CASE \E c \in Consumers : NextEnded(c) \/ Resume(c)
    BY <2>1, <2>2 DEF NextEnded, Resume
  <2>3. CASE UNCHANGED <<finished, pc>>
    BY <2>3
  <2>4. QED
    BY <1>2, <2>2, <2>3 DEF Next, Consumer, Enqueue, Finish, PendingNext, Clear, NextBuffered,
                            NextWaits, CancelConsumer, vars
<1>3. QED
  BY <1>1, <1>2, QInvHolds, PTL DEF Spec, FinishedForGood
=============================================================================
