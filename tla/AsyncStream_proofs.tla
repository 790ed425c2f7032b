-------------------------- MODULE AsyncStream_proofs --------------------------
(***************************************************************************)
(* Proofs about AsyncStream, for every set of producers, whichever of them *)
(* may be cancelled: its safety and that it implements Handoff.  SInv ties *)
(* the futures of the producers to the histories that Handoff speaks of.   *)
(***************************************************************************)
EXTENDS AsyncStream, SequenceTheorems, FiniteSetTheorems, TLAPS

In(e, s) == Abstract!In(e, s)

Increasing(s) == \A i, j \in DOMAIN s : i < j => s[i] < s[j]

\* The future in _waiting is that of the consumer, and exists as long as it
\* waits; only finishing fails it.
ConsumerWaits ==
    /\ consumer = "waiting" <=> waiting # "none"
    /\ consumerCancel => waiting \in {"element", "failed"}
    /\ waiting = "failed" => finished
    /\ waiting = "element" => handed \in Elements

\* Elements are offered once each, in the order in which they are sent, and
\* before they are taken.
OfferedInOrder ==
    /\ Increasing(offered)
    /\ \A i \in DOMAIN offered : offered[i] <= sent
    /\ \A i \in DOMAIN taken : In(taken[i], offered)

\* What the future of an element says about it.
Futures ==
    \A e \in Elements :
        /\ consumed[e] # "none" => In(e, offered)
        /\ consumed[e] = "pending" => In(e, pending)
        /\ consumed[e] = "done" => In(e, taken) \/ finished
        /\ e \in released => consumed[e] \in {"none", "done"} /\ e <= sent

\* What is pending was offered and has not left the stream, and on an open
\* stream nothing else is left in it but what was withdrawn.
PendingWaits ==
    /\ Increasing(pending)
    /\ \A i \in DOMAIN pending : In(pending[i], offered) /\ ~In(pending[i], taken)
    /\ ~finished => \A i \in DOMAIN offered :
            In(offered[i], taken) \/ In(offered[i], pending) \/ consumed[offered[i]] = "cancelled"

SendersHaveFutures == \A p \in Producers : sending[p] # 0 => consumed[sending[p]] # "none"

SInv ==
    /\ NoLostWakeup
    /\ OnlyHandedLost
    /\ ConsumerWaits
    /\ OfferedInOrder
    /\ Futures
    /\ PendingWaits
    /\ SendersHaveFutures
-----------------------------------------------------------------------------
\* Helpers on sequences.
LEMMA InDomain == \A s : \A i \in DOMAIN s : In(s[i], s)
BY DEF In, Abstract!In

LEMMA InAppend ==
    ASSUME NEW S, NEW s \in Seq(S), NEW x \in S
    PROVE  \A e : In(e, Append(s, x)) <=> In(e, s) \/ e = x
<1>1. /\ DOMAIN s = 1..Len(s) /\ Len(s) \in Nat
      /\ DOMAIN Append(s, x) = 1..(Len(s) + 1)
      /\ \A i \in 1..Len(s) : Append(s, x)[i] = s[i]
      /\ Append(s, x)[Len(s) + 1] = x
  BY AppendProperties, LenProperties
<1>2. TAKE e
<1>3. ASSUME In(e, s) PROVE In(e, Append(s, x))
  BY <1>1, <1>3 DEF In, Abstract!In
<1>4. ASSUME e = x PROVE In(e, Append(s, x))
  BY <1>1, <1>4 DEF In, Abstract!In
<1>5. ASSUME In(e, Append(s, x)), e # x PROVE In(e, s)
  BY <1>1, <1>5 DEF In, Abstract!In
<1>6. QED
  BY <1>3, <1>4, <1>5

LEMMA IncreasingAppend ==
    ASSUME NEW s \in Seq(Int), NEW x \in Int, Increasing(s), \A i \in DOMAIN s : s[i] < x
    PROVE  Increasing(Append(s, x))
<1>1. /\ DOMAIN s = 1..Len(s) /\ Len(s) \in Nat
      /\ DOMAIN Append(s, x) = 1..(Len(s) + 1)
      /\ \A i \in 1..Len(s) : Append(s, x)[i] = s[i]
      /\ Append(s, x)[Len(s) + 1] = x
  BY AppendProperties, LenProperties
<1>2. SUFFICES ASSUME NEW i \in 1..(Len(s) + 1), NEW j \in 1..(Len(s) + 1), i < j
               PROVE  Append(s, x)[i] < Append(s, x)[j]
  BY <1>1 DEF Increasing
<1>3. i \in 1..Len(s)
  BY <1>1, <1>2
<1>4. CASE j \in 1..Len(s)
  BY <1>1, <1>2, <1>3, <1>4 DEF Increasing
<1>5. CASE j = Len(s) + 1
  BY <1>1, <1>3, <1>5
<1>6. QED
  BY <1>1, <1>4, <1>5

\* A suffix of an increasing sequence: what is left of _pending after some of
\* its entries were popped.
LEMMA SuffixProperties ==
    ASSUME NEW S, NEW s \in Seq(S), NEW k \in 1..(Len(s) + 1)
    PROVE  LET t == SubSeq(s, k, Len(s))
           IN  /\ t \in Seq(S)
               /\ Len(t) = Len(s) - k + 1
               /\ DOMAIN t = 1..(Len(s) - k + 1)
               /\ \A i \in DOMAIN t : k - 1 + i \in DOMAIN s /\ t[i] = s[k - 1 + i]
               /\ \A e : In(e, t) <=> \E i \in DOMAIN s : k <= i /\ s[i] = e
<1> DEFINE t == SubSeq(s, k, Len(s))
<1>1. Len(s) \in Nat /\ DOMAIN s = 1..Len(s) /\ \A i \in k..Len(s) : s[i] \in S
  BY LenProperties, ElementOfSeq
<1>2. /\ t \in Seq(S)
      /\ Len(t) = IF k <= Len(s) THEN Len(s) - k + 1 ELSE 0
      /\ \A i \in 1..(Len(s) - k + 1) : t[i] = s[k + i - 1]
  BY <1>1, SubSeqProperties
<1>3. Len(t) = Len(s) - k + 1 /\ DOMAIN t = 1..(Len(s) - k + 1)
  BY <1>1, <1>2, LenProperties
<1> HIDE DEF t
<1>4. \A i \in DOMAIN t : k - 1 + i \in DOMAIN s /\ t[i] = s[k - 1 + i]
  BY <1>1, <1>2, <1>3
<1>5. ASSUME NEW e PROVE In(e, t) <=> \E i \in DOMAIN s : k <= i /\ s[i] = e
  <2>1. ASSUME NEW i \in DOMAIN s, k <= i, s[i] = e PROVE In(e, t)
    <3>1. i - k + 1 \in DOMAIN t /\ k - 1 + (i - k + 1) = i
      BY <1>1, <1>3, <2>1
    <3>2. QED
      BY <1>4, <2>1, <3>1 DEF In, Abstract!In
  <2>2. ASSUME In(e, t) PROVE \E i \in DOMAIN s : k <= i /\ s[i] = e
    <3>1. PICK i \in DOMAIN t : t[i] = e
      BY <2>2 DEF In, Abstract!In
    <3>2. k - 1 + i \in DOMAIN s /\ k <= k - 1 + i
      BY <1>1, <1>3, <1>4, <3>1
    <3>3. QED
      BY <1>4, <3>1, <3>2
  <2>3. QED
    BY <2>1, <2>2
<1>6. QED
  BY <1>2, <1>3, <1>4, <1>5 DEF t

\* finish completes a prefix of the entries, up to one that was cancelled.
LEMMA CompletablePrefix ==
    ASSUME pending \in Seq(Elements)
    PROVE  /\ Cardinality(Completable) \in 0..Len(pending)
           /\ Completable = 1..Cardinality(Completable)
           /\ \A i \in Completable : consumed[pending[i]] # "cancelled"
           /\ Cardinality(Completable) < Len(pending) =>
                consumed[pending[Cardinality(Completable) + 1]] = "cancelled"
<1> DEFINE k == Cardinality(Completable)
<1>1. Len(pending) \in Nat /\ DOMAIN pending = 1..Len(pending)
  BY LenProperties
<1>2. IsFiniteSet(1..Len(pending)) /\ Cardinality(1..Len(pending)) = Len(pending)
  BY <1>1, FS_Interval
<1>3. Completable \subseteq 1..Len(pending)
  BY <1>1 DEF Completable
<1>4. IsFiniteSet(Completable) /\ k <= Len(pending) /\ k \in Nat
  BY <1>2, <1>3, FS_Subset, FS_CardinalityType
<1>5. ASSUME NEW i \in Completable PROVE i \in 1..k
  <2>1. i \in 1..Len(pending) /\ 1..i \subseteq Completable
    BY <1>1, <1>3 DEF Completable
  <2>2. IsFiniteSet(1..i) /\ Cardinality(1..i) = i
    BY <2>1, FS_Interval
  <2>3. i <= k
    BY <1>4, <2>1, <2>2, FS_Subset
  <2>4. QED
    BY <1>4, <2>1, <2>3
<1>6. Completable = 1..k
  <2>1. IsFiniteSet(1..k) /\ Cardinality(1..k) = k
    BY <1>4, FS_Interval
  <2>2. Completable \in SUBSET (1..k)
    BY <1>5
  <2>3. QED
    BY <2>1, <2>2, FS_Subset
<1> HIDE DEF k
<1>7. \A i \in Completable : consumed[pending[i]] # "cancelled"
  BY <1>1, <1>3 DEF Completable
<1>8. ASSUME k < Len(pending) PROVE consumed[pending[k + 1]] = "cancelled"
  <2>1. k + 1 \in DOMAIN pending /\ k + 1 \notin Completable
    BY <1>1, <1>4, <1>6, <1>8
  <2>2. PICK j \in 1..(k + 1) : consumed[pending[j]] = "cancelled"
    BY <2>1 DEF Completable
  <2>3. j \notin 1..k
    BY <1>6, <1>7, <2>2
  <2>4. QED
    BY <1>4, <2>2, <2>3
<1>9. QED
  BY <1>1, <1>4, <1>6, <1>7, <1>8 DEF k
-----------------------------------------------------------------------------
LEMMA InitSInv == Init => SInv
<1> SUFFICES ASSUME Init PROVE SInv
  OBVIOUS
<1> USE StreamAssumption DEF Init
<1>1. TypeOK
  <2>1. <<>> \in Seq(Elements) /\ DOMAIN pending = {}
    BY EmptySeq
  <2>2. /\ sending \in [Producers -> 0..MaxSent] /\ handed \in 0..MaxSent /\ sent \in 0..MaxSent
        /\ consumed \in [Elements -> {"none", "pending", "done", "cancelled"}]
    OBVIOUS
  <2>3. QED
    BY <2>1, <2>2 DEF TypeOK
<1>2. NoLostWakeup /\ OnlyHandedLost /\ ConsumerWaits
  BY <1>1 DEF NoLostWakeup, OnlyHandedLost, ConsumerWaits
<1>3. OfferedInOrder /\ PendingWaits
  BY DEF OfferedInOrder, PendingWaits, Increasing
<1>4. Futures /\ SendersHaveFutures
  BY DEF Futures, SendersHaveFutures
<1>5. QED
  BY <1>2, <1>3, <1>4 DEF SInv

\* What the proof of each step starts from.
LEMMA Typed ==
    ASSUME SInv
    PROVE  /\ TypeOK /\ Elements \subseteq Int /\ MaxSent \in Nat
           /\ pending \in Seq(Elements) /\ offered \in Seq(Elements)
           /\ taken \in Seq(Elements) /\ received \in Seq(Elements)
           /\ pending \in Seq(Int) /\ offered \in Seq(Int)
           /\ DOMAIN pending = 1..Len(pending) /\ Len(pending) \in Nat
           /\ DOMAIN offered = 1..Len(offered) /\ Len(offered) \in Nat
           /\ \A i \in DOMAIN pending : pending[i] \in Elements
           /\ \A i \in DOMAIN offered : offered[i] \in Elements
<1>1. TypeOK /\ Elements \subseteq Int /\ MaxSent \in Nat
  BY StreamAssumption DEF SInv, NoLostWakeup, Elements
<1>2. /\ pending \in Seq(Elements) /\ offered \in Seq(Elements)
      /\ taken \in Seq(Elements) /\ received \in Seq(Elements)
  BY <1>1 DEF TypeOK
<1>3. pending \in Seq(Int) /\ offered \in Seq(Int)
  BY <1>1, <1>2, SeqMonotonic
<1>4. QED
  BY <1>1, <1>2, <1>3, LenProperties, ElementOfSeq

\* The next element to be sent is not known to any part of the stream.
LEMMA NextIsNew ==
    ASSUME SInv, sent < MaxSent
    PROVE  /\ sent + 1 \in Elements
           /\ consumed[sent + 1] = "none"
           /\ sent + 1 \notin released
           /\ ~In(sent + 1, offered) /\ ~In(sent + 1, taken) /\ ~In(sent + 1, pending)
<1> DEFINE e == sent + 1
<1>1. e \in Elements /\ sent \in Nat /\ Elements \subseteq Int /\ ~(e <= sent)
  BY Typed DEF TypeOK, Elements
<1> HIDE DEF e
<1>2. ~In(e, offered)
  BY <1>1, Typed DEF SInv, OfferedInOrder, In, Abstract!In
<1>3. ~In(e, taken) /\ ~In(e, pending)
  BY <1>2 DEF SInv, OfferedInOrder, PendingWaits, In, Abstract!In
<1>4. consumed[e] = "none" /\ e \notin released
  BY <1>1, <1>2, Typed DEF SInv, Futures
<1>5. QED
  BY <1>1, <1>2, <1>3, <1>4 DEF e

LEMMA SendKeeps == ASSUME SInv, NEW p \in Producers, Send(p) PROVE SInv'
<1> DEFINE e == sent + 1
<1>1. /\ TypeOK /\ Elements \subseteq Int
      /\ pending \in Seq(Elements) /\ offered \in Seq(Elements) /\ taken \in Seq(Elements)
      /\ pending \in Seq(Int) /\ offered \in Seq(Int)
      /\ sent' = e /\ sent < MaxSent /\ e \in 0..MaxSent /\ sent \in Nat /\ e > sent
  BY Typed DEF Send, TypeOK, Elements
<1>2. /\ e \in Elements
      /\ consumed[e] = "none" /\ e \notin released
      /\ ~In(e, offered) /\ ~In(e, taken) /\ ~In(e, pending)
  BY <1>1, NextIsNew
<1>3. UNCHANGED <<producerCancel, finished, consumer, consumerCancel, received, invalidState>>
  BY DEF Send
<1>4. CASE finished
  <2>1. /\ released' = released \cup {e}
        /\ UNCHANGED <<pending, consumed, sending, waiting, handed, offered, taken>>
    BY <1>4 DEF Send
  <2>. HIDE DEF e
  <2>2. TypeOK'
    BY <1>1, <1>2, <1>3, <2>1 DEF TypeOK
  <2>3. (NoLostWakeup /\ OnlyHandedLost /\ ConsumerWaits /\ SendersHaveFutures)'
    BY <1>3, <1>4, <2>1, <2>2
    DEF SInv, NoLostWakeup, OnlyHandedLost, ConsumerWaits, SendersHaveFutures
  <2>4. (OfferedInOrder /\ PendingWaits)'
    BY <1>1, <1>3, <2>1, Typed
    DEF SInv, OfferedInOrder, PendingWaits, Increasing, In, Abstract!In
  <2>5. Futures'
    BY <1>1, <1>2, <1>3, <2>1, Typed DEF SInv, Futures, In, Abstract!In
  <2>6. QED
    BY <2>3, <2>4, <2>5 DEF SInv
<1>5. CASE ~finished /\ WaiterOpen
  <2>1. /\ waiting' = "element" /\ handed' = e
        /\ offered' = Append(offered, e) /\ taken' = Append(taken, e)
        /\ released' = released \cup {e}
        /\ UNCHANGED <<pending, consumed, sending>>
    BY <1>5 DEF Send
  <2>. HIDE DEF e
  <2>2. pending = <<>> /\ consumer = "waiting" /\ ~consumerCancel /\ taken = received
    BY <1>5 DEF SInv, NoLostWakeup, ConsumerWaits, OnlyHandedLost, WaiterOpen
  <2>3. /\ \A x : In(x, offered') <=> In(x, offered) \/ x = e
        /\ \A x : In(x, taken') <=> In(x, taken) \/ x = e
    BY <1>1, <1>2, <2>1, InAppend
  <2>4. /\ offered' \in Seq(Elements) /\ taken' \in Seq(Elements)
        /\ \A i \in DOMAIN offered' : offered'[i] \in Elements /\ In(offered'[i], offered')
        /\ \A i \in DOMAIN taken' : In(taken'[i], taken')
    <3>1. offered' \in Seq(Elements) /\ taken' \in Seq(Elements)
      BY <1>1, <1>2, <2>1, AppendProperties
    <3>2. \A i \in DOMAIN offered' : offered'[i] \in Elements
      BY <3>1, ElementOfSeq, LenProperties
    <3>3. QED
      BY <3>1, <3>2, InDomain
  <2>5. TypeOK'
    BY <1>1, <1>2, <1>3, <2>1, <2>2, <2>4 DEF TypeOK
  <2>6. OfferedInOrder'
    <3>1. \A x \in Elements : In(x, offered) => x <= sent
      BY Typed DEF SInv, OfferedInOrder, In, Abstract!In
    <3>2. Increasing(offered')
      BY <1>1, <1>2, <2>1, IncreasingAppend DEF SInv, OfferedInOrder, e
    <3>3. ASSUME NEW i \in DOMAIN offered' PROVE offered'[i] <= sent'
      <4>1. In(offered'[i], offered) \/ offered'[i] = e
        BY <2>3, <2>4
      <4>2. offered'[i] \in Elements /\ offered'[i] \in Int
        BY <1>1, <2>4
      <4>3. offered'[i] <= sent \/ offered'[i] = e
        BY <3>1, <4>1, <4>2
      <4>4. sent' = e /\ e \in Int /\ sent \in Int /\ sent < e
        BY <1>1
      <4>5. QED
        BY <4>2, <4>3, <4>4
    <3>4. \A x : In(x, taken) => In(x, offered)
      BY DEF SInv, OfferedInOrder, In, Abstract!In
    <3>5. QED
      BY <2>3, <2>4, <3>2, <3>3, <3>4 DEF OfferedInOrder
  <2>7. Futures'
    BY <1>1, <1>2, <1>3, <2>1, <2>3, Typed DEF SInv, Futures
  <2>8. PendingWaits'
    <3>1. pending' = <<>> /\ DOMAIN pending = {}
      BY <2>1, <2>2
    <3>2. \A x : In(x, offered) => In(x, taken) \/ consumed[x] = "cancelled"
      BY <1>5, <2>2, <3>1 DEF SInv, PendingWaits, In, Abstract!In
    <3>3. ASSUME NEW i \in DOMAIN offered'
          PROVE  In(offered'[i], taken') \/ consumed'[offered'[i]] = "cancelled"
      BY <2>1, <2>3, <2>4, <3>2
    <3>4. QED
      BY <2>1, <3>1, <3>3 DEF PendingWaits, Increasing
  <2>9. NoLostWakeup' /\ OnlyHandedLost' /\ ConsumerWaits' /\ SendersHaveFutures'
    BY <1>1, <1>2, <1>3, <2>1, <2>2, <2>5
    DEF SInv, NoLostWakeup, OnlyHandedLost, ConsumerWaits, SendersHaveFutures
  <2>10. QED
    BY <2>6, <2>7, <2>8, <2>9 DEF SInv
<1>6. CASE ~finished /\ ~WaiterOpen
  <2>1. /\ pending' = Append(pending, e)
        /\ consumed' = [consumed EXCEPT ![e] = "pending"]
        /\ offered' = Append(offered, e)
        /\ sending' = [sending EXCEPT ![p] = e]
        /\ UNCHANGED <<waiting, handed, taken, released>>
    BY <1>6 DEF Send
  <2>. HIDE DEF e
  <2>2. /\ \A x : In(x, offered') <=> In(x, offered) \/ x = e
        /\ \A x : In(x, pending') <=> In(x, pending) \/ x = e
    BY <1>1, <1>2, <2>1, InAppend
  <2>3. /\ offered' \in Seq(Elements) /\ pending' \in Seq(Elements)
        /\ \A i \in DOMAIN offered' : offered'[i] \in Elements /\ In(offered'[i], offered')
        /\ \A i \in DOMAIN pending' : pending'[i] \in Elements /\ In(pending'[i], pending')
    <3>1. offered' \in Seq(Elements) /\ pending' \in Seq(Elements)
      BY <1>1, <1>2, <2>1, AppendProperties
    <3>2. /\ \A i \in DOMAIN offered' : offered'[i] \in Elements
          /\ \A i \in DOMAIN pending' : pending'[i] \in Elements
      BY <3>1, ElementOfSeq, LenProperties
    <3>3. QED
      BY <3>1, <3>2, InDomain
  <2>4. /\ consumed' \in [Elements -> {"none", "pending", "done", "cancelled"}]
        /\ consumed'[e] = "pending"
        /\ \A x \in Elements \ {e} : consumed'[x] = consumed[x]
    BY <1>1, <1>2, <2>1 DEF TypeOK
  <2>5. /\ \A x \in Elements : In(x, offered) => x <= sent
        /\ \A x \in Elements : In(x, pending) => In(x, offered) /\ ~In(x, taken)
                                                 /\ consumed[x] \in {"pending", "cancelled"}
    BY <1>1, Typed DEF SInv, OfferedInOrder, PendingWaits, TypeOK, In, Abstract!In
  <2>6. TypeOK'
    <3>1. \A i \in DOMAIN pending' : consumed'[pending'[i]] \in {"pending", "cancelled"}
      BY <2>2, <2>3, <2>4, <2>5
    <3>2. QED
      BY <1>1, <1>2, <1>3, <2>1, <2>3, <2>4, <3>1 DEF TypeOK
  <2>7. OfferedInOrder'
    <3>1. Increasing(offered')
      BY <1>1, <1>2, <2>1, IncreasingAppend DEF SInv, OfferedInOrder, e
    <3>2. ASSUME NEW i \in DOMAIN offered' PROVE offered'[i] <= sent'
      <4>1. In(offered'[i], offered) \/ offered'[i] = e
        BY <2>2, <2>3
      <4>2. offered'[i] \in Elements /\ offered'[i] \in Int
        BY <1>1, <2>3
      <4>3. offered'[i] <= sent \/ offered'[i] = e
        BY <2>5, <4>1, <4>2
      <4>4. sent' = e /\ e \in Int /\ sent \in Int /\ sent < e
        BY <1>1
      <4>5. QED
        BY <4>2, <4>3, <4>4
    <3>3. QED
      BY <2>1, <2>2, <3>1, <3>2 DEF SInv, OfferedInOrder
  <2>8. Futures'
    BY <1>1, <1>2, <1>3, <2>1, <2>2, <2>4 DEF SInv, Futures
  <2>9. PendingWaits'
    <3>1. Increasing(pending')
      <4>1. \A i \in DOMAIN pending : pending[i] < e
        BY <1>1, <2>5, Typed DEF SInv, PendingWaits, In, Abstract!In, e
      <4>2. QED
        BY <1>1, <1>2, <2>1, <4>1, IncreasingAppend DEF SInv, PendingWaits
    <3>2. \A i \in DOMAIN pending' : In(pending'[i], offered') /\ ~In(pending'[i], taken')
      BY <1>2, <2>1, <2>2, <2>3, <2>5
    <3>3. ASSUME NEW i \in DOMAIN offered'
          PROVE  \/ In(offered'[i], taken') \/ In(offered'[i], pending')
                 \/ consumed'[offered'[i]] = "cancelled"
      <4>1. CASE offered'[i] = e
        BY <2>2, <4>1
      <4>2. CASE offered'[i] # e
        <5>1. In(offered'[i], offered) /\ offered'[i] \in Elements
          BY <2>2, <2>3, <4>2
        <5>2. PICK j \in DOMAIN offered : offered[j] = offered'[i]
          BY <5>1 DEF In, Abstract!In
        <5>3. \/ In(offered[j], taken) \/ In(offered[j], pending)
              \/ consumed[offered[j]] = "cancelled"
          BY <1>6 DEF SInv, PendingWaits
        <5>4. QED
          BY <2>1, <2>2, <2>4, <4>2, <5>1, <5>2, <5>3
      <4>3. QED
        BY <4>1, <4>2
    <3>4. QED
      BY <3>1, <3>2, <3>3 DEF PendingWaits
  <2>10. NoLostWakeup' /\ OnlyHandedLost' /\ ConsumerWaits'
    BY <1>3, <1>6, <2>1, <2>6
    DEF SInv, NoLostWakeup, OnlyHandedLost, ConsumerWaits, WaiterOpen
  <2>11. SendersHaveFutures'
    BY <1>1, <1>2, <2>1, <2>4 DEF SInv, SendersHaveFutures, TypeOK, Elements
  <2>12. QED
    BY <2>7, <2>8, <2>9, <2>10, <2>11 DEF SInv
<1>7. QED
  BY <1>4, <1>5, <1>6

\* What finish does to the producers, on behalf of whoever runs it: those it
\* does not reach keep their futures, and no withdrawn element is completed.
LEMMA ReleaseKeeps ==
    ASSUME SInv, ReleaseProducers, UNCHANGED <<sent, offered, taken, released, sending>>
    PROVE  /\ pending' \in Seq(Elements)
           /\ \A i \in DOMAIN pending' : consumed'[pending'[i]] \in {"pending", "cancelled"}
           /\ consumed' \in [Elements -> {"none", "pending", "done", "cancelled"}]
           /\ invalidState' \in SUBSET {"consumer", "finisher"}
           /\ finished'
           /\ \A e \in Elements : consumed'[e] = "cancelled" <=> consumed[e] = "cancelled"
           /\ (OfferedInOrder /\ Futures /\ PendingWaits /\ SendersHaveFutures)'
<1> DEFINE k == Cardinality(Completable)
<1>1. TypeOK /\ pending \in Seq(Elements)
  BY Typed
<1>2. /\ DOMAIN pending = 1..Len(pending) /\ Len(pending) \in Nat
      /\ \A i \in DOMAIN pending : i \in Nat /\ pending[i] \in Elements /\ pending[i] \in Int
  BY Typed
<1>3. Len(pending) \in Nat
  BY <1>2
<1>4. k \in 0..Len(pending)
  BY <1>1, CompletablePrefix
<1>5. /\ k \in Nat /\ k <= Len(pending)
      /\ k < Len(pending) \/ k = Len(pending)
  BY <1>3, <1>4
<1>6. \A i \in Completable : consumed[pending[i]] # "cancelled"
  BY <1>1, CompletablePrefix
<1>7. k < Len(pending) => consumed[pending[k + 1]] = "cancelled"
  BY <1>1, CompletablePrefix
<1>8. Completable = 1..k
  BY <1>1, CompletablePrefix
<1>9. /\ finished' = TRUE
      /\ consumed' = [e \in Elements |->
                        IF \E i \in Completable : pending[i] = e THEN "done" ELSE consumed[e]]
      /\ pending' = SubSeq(pending, k + 2, Len(pending))
      /\ invalidState' = invalidState \/ invalidState' = invalidState \cup {"finisher"}
  BY DEF ReleaseProducers
<1> HIDE DEF k
<1>10. \A i, j \in DOMAIN pending : pending[i] = pending[j] => i = j
  <2>1. \A i \in DOMAIN pending : pending[i] \in Int /\ i \in Int
    BY <1>2
  <2>2. \A i, j \in DOMAIN pending : i < j => pending[i] < pending[j]
    BY DEF SInv, PendingWaits, Increasing
  <2>3. QED
    BY <2>1, <2>2
<1>11. /\ pending' \in Seq(Elements)
       /\ \A i, j \in DOMAIN pending' : i < j => pending'[i] < pending'[j]
       /\ \A e : In(e, pending') <=> \E i \in DOMAIN pending : k + 2 <= i /\ pending[i] = e
  <2>1. CASE k < Len(pending)
    <3> DEFINE d == k + 2
    <3>1. d \in 1..(Len(pending) + 1) /\ d \in Int
      BY <1>3, <1>5, <2>1
    <3>2. pending' = SubSeq(pending, d, Len(pending))
      BY <1>9
    <3> HIDE DEF d
    <3>3. /\ pending' \in Seq(Elements)
          /\ DOMAIN pending' = 1..(Len(pending) - d + 1)
          /\ \A i \in DOMAIN pending' : d - 1 + i \in DOMAIN pending
                                        /\ pending'[i] = pending[d - 1 + i]
          /\ \A e : In(e, pending') <=> \E i \in DOMAIN pending : d <= i /\ pending[i] = e
      BY <1>1, <3>1, <3>2, SuffixProperties
    <3>4. ASSUME NEW i \in DOMAIN pending', NEW j \in DOMAIN pending', i < j
          PROVE  pending'[i] < pending'[j]
      <4>1. i \in Int /\ j \in Int
        BY <3>3
      <4>2. d - 1 + i < d - 1 + j
        BY <3>1, <3>4, <4>1
      <4>3. QED
        BY <3>3, <4>2 DEF SInv, PendingWaits, Increasing
    <3>5. QED
      BY <3>3, <3>4 DEF d
  <2>2. CASE k = Len(pending)
    <3>1. pending' = <<>>
      BY <1>1, <1>9, <2>2, SubSeqEmpty
    <3>2. pending' \in Seq(Elements) /\ DOMAIN pending' = {}
      BY <3>1, EmptySeq
    <3>3. \A e : ~In(e, pending')
      BY <3>2 DEF In, Abstract!In
    <3>4. ~\E i \in DOMAIN pending : k + 2 <= i
      BY <1>1, <2>2
    <3>5. QED
      BY <3>2, <3>3, <3>4
  <2>3. QED
    BY <1>5, <2>1, <2>2
<1>12. \A e : In(e, pending') <=> \E i \in DOMAIN pending : k + 2 <= i /\ pending[i] = e
  BY <1>11
<1>13. ASSUME NEW e \in Elements
      PROVE  /\ consumed'[e] = consumed[e] \/ (consumed[e] = "pending" /\ consumed'[e] = "done")
             /\ In(e, pending') => In(e, pending) /\ consumed'[e] = consumed[e]
             /\ consumed'[e] = "pending" => In(e, pending')
  <2>1. \/ consumed'[e] = consumed[e] /\ ~(\E i \in Completable : pending[i] = e)
        \/ consumed'[e] = "done" /\ (\E i \in Completable : pending[i] = e)
    BY <1>9
  <2>2. \A i \in Completable : i \in DOMAIN pending /\ consumed[pending[i]] = "pending"
    <3>1. \A i \in Completable : i \in DOMAIN pending
      <4>1. 1..k \subseteq 1..Len(pending)
        BY <1>3, <1>5
      <4>2. QED
        BY <1>2, <1>8, <4>1
    <3>2. \A i \in DOMAIN pending : consumed[pending[i]] \in {"pending", "cancelled"}
      BY <1>1 DEF TypeOK
    <3>3. QED
      BY <1>6, <3>1, <3>2
  <2>3. ASSUME In(e, pending') PROVE In(e, pending) /\ consumed'[e] = consumed[e]
    <3>1. PICK i \in DOMAIN pending : k + 2 <= i /\ pending[i] = e
      BY <1>12, <2>3
    <3>2. \A j \in Completable : pending[j] # e
      <4>1. ASSUME NEW j \in Completable, pending[j] = e PROVE FALSE
        <5>1. i = j
          BY <1>10, <2>2, <3>1, <4>1
        <5>2. i \in 1..k
          BY <1>8, <4>1, <5>1
        <5>3. QED
          BY <1>5, <3>1, <5>2
      <4>2. QED
        BY <4>1
    <3>3. QED
      BY <2>1, <3>1, <3>2, InDomain
  <2>4. ASSUME consumed'[e] = "pending" PROVE In(e, pending')
    <3>1. consumed[e] = "pending" /\ ~(\E i \in Completable : pending[i] = e)
      BY <2>1, <2>4
    <3>2. PICK i \in DOMAIN pending : pending[i] = e
      BY <3>1 DEF SInv, Futures, In, Abstract!In
    <3>3. i # k + 1 /\ i \notin 1..k
      <4>1. i \notin 1..k
        BY <1>8, <3>1, <3>2
      <4>2. ASSUME i = k + 1 PROVE FALSE
        <5>1. i \in 1..Len(pending)
          BY <1>2, <3>2
        <5>2. k < Len(pending)
          BY <1>5, <4>2, <5>1
        <5>3. consumed[pending[k + 1]] = "cancelled"
          BY <1>7, <5>2
        <5>4. QED
          BY <3>1, <3>2, <4>2, <5>3
      <4>3. QED
        BY <4>1, <4>2
    <3>4. k + 2 <= i
      <4>1. i \in 1..Len(pending)
        BY <1>2, <3>2
      <4>2. QED
        BY <1>3, <1>5, <3>3, <4>1
    <3>5. QED
      BY <1>12, <3>2, <3>4
  <2>5. QED
    BY <2>1, <2>2, <2>3, <2>4
<1>14. consumed' \in [Elements -> {"none", "pending", "done", "cancelled"}]
  BY <1>1, <1>9 DEF TypeOK
<1>15. \A i \in DOMAIN pending' : pending'[i] \in Elements /\ In(pending'[i], pending')
  BY <1>11, InDomain, ElementOfSeq, LenProperties
<1>16. \A i \in DOMAIN pending' : consumed'[pending'[i]] \in {"pending", "cancelled"}
  <2>1. \A e \in Elements : In(e, pending) => consumed[e] \in {"pending", "cancelled"}
    BY <1>1 DEF TypeOK, In, Abstract!In
  <2>2. QED
    BY <1>13, <1>15, <2>1
<1>17. OfferedInOrder'
  BY DEF SInv, OfferedInOrder, Increasing, In, Abstract!In
<1>18. Futures'
  <2>1. ASSUME NEW e \in Elements
        PROVE  /\ consumed'[e] # "none" => In(e, offered')
               /\ consumed'[e] = "pending" => In(e, pending')
               /\ e \in released' => consumed'[e] \in {"none", "done"} /\ e <= sent'
    BY <1>13 DEF SInv, Futures
  <2>2. QED
    BY <1>9, <2>1 DEF Futures
<1>19. PendingWaits'
  <2>1. \A e : In(e, pending) => In(e, offered) /\ ~In(e, taken)
    BY DEF SInv, PendingWaits, In, Abstract!In
  <2>2. \A i \in DOMAIN pending' : In(pending'[i], offered') /\ ~In(pending'[i], taken')
    BY <1>13, <1>15, <2>1
  <2>3. QED
    BY <1>9, <1>11, <2>2 DEF PendingWaits, Increasing
<1>20. SendersHaveFutures'
  <2>1. \A p \in Producers : sending[p] # 0 => sending[p] \in Elements
    BY <1>1 DEF TypeOK, Elements
  <2>2. QED
    BY <1>13, <2>1 DEF SInv, SendersHaveFutures
<1>21. invalidState' \in SUBSET {"consumer", "finisher"}
  BY <1>1, <1>9 DEF TypeOK
<1>22. QED
  BY <1>9, <1>11, <1>13, <1>14, <1>16, <1>17, <1>18, <1>19, <1>20, <1>21

\* Steps that leave what is in the stream alone, and their futures.
LEMMA QuietKeeps ==
    ASSUME SInv, UNCHANGED <<pending, consumed, sending, finished, sent, offered, taken, released>>
    PROVE  (OfferedInOrder /\ Futures /\ PendingWaits /\ SendersHaveFutures)'
<1>1. OfferedInOrder'
  BY DEF SInv, OfferedInOrder, Increasing, In, Abstract!In
<1>2. Futures'
  BY DEF SInv, Futures, In, Abstract!In
<1>3. PendingWaits'
  BY DEF SInv, PendingWaits, Increasing, In, Abstract!In
<1>4. SendersHaveFutures'
  BY DEF SInv, SendersHaveFutures
<1>5. QED
  BY <1>1, <1>2, <1>3, <1>4

LEMMA SendReturnsKeeps == ASSUME SInv, NEW p \in Producers, SendReturns(p) PROVE SInv'
<1> DEFINE e == sending[p]
<1>1. /\ TypeOK /\ e \in Elements /\ consumed[e] \in {"done", "cancelled"}
      /\ Elements \subseteq Int
  BY Typed DEF SendReturns, SInv, SendersHaveFutures, TypeOK, Elements
<1>2. /\ sending' = [sending EXCEPT ![p] = 0] /\ producerCancel' = producerCancel \ {p}
      /\ released' = released \/ (released' = released \cup {e} /\ consumed[e] = "done")
      /\ UNCHANGED <<pending, consumed, waiting, handed, finished, consumer, consumerCancel,
                     sent, offered, taken, received, invalidState>>
  BY <1>1 DEF SendReturns
<1> HIDE DEF e
<1>3. e <= sent
  BY <1>1, Typed DEF SInv, Futures, OfferedInOrder, In, Abstract!In
<1>4. TypeOK'
  <2>1. sending' \in [Producers -> 0..MaxSent] /\ producerCancel' \in SUBSET Producers
    BY <1>1, <1>2, StreamAssumption DEF TypeOK
  <2>2. released' \in SUBSET Elements
    BY <1>1, <1>2 DEF TypeOK
  <2>3. QED
    BY <1>1, <1>2, <2>1, <2>2 DEF TypeOK
<1>5. (NoLostWakeup /\ OnlyHandedLost /\ ConsumerWaits)'
  BY <1>2, <1>4 DEF SInv, NoLostWakeup, OnlyHandedLost, ConsumerWaits
<1>6. (OfferedInOrder /\ PendingWaits)'
  BY <1>2 DEF SInv, OfferedInOrder, PendingWaits, Increasing, In, Abstract!In
<1>7. Futures'
  BY <1>1, <1>2, <1>3 DEF SInv, Futures, In, Abstract!In
<1>8. SendersHaveFutures'
  BY <1>1, <1>2 DEF SInv, SendersHaveFutures, TypeOK
<1>9. QED
  BY <1>5, <1>6, <1>7, <1>8 DEF SInv

LEMMA CancelProducerKeeps == ASSUME SInv, NEW p \in Producers, CancelProducer(p) PROVE SInv'
<1> DEFINE e == sending[p]
<1>1. TypeOK /\ e \in Elements
  BY Typed DEF CancelProducer, TypeOK, Elements
<1>2. /\ producerCancel' \in {producerCancel, producerCancel \cup {p}}
      /\ \/ consumed[e] = "pending" /\ consumed' = [consumed EXCEPT ![e] = "cancelled"]
         \/ consumed' = consumed
      /\ UNCHANGED <<pending, sending, waiting, handed, finished, consumer, consumerCancel,
                     sent, offered, taken, received, released, invalidState>>
  BY DEF CancelProducer
<1> HIDE DEF e
<1>3. \A x \in Elements : \/ consumed'[x] = consumed[x]
                          \/ consumed[x] = "pending" /\ consumed'[x] = "cancelled"
  BY <1>1, <1>2 DEF TypeOK
<1>4. TypeOK'
  <2>1. consumed' \in [Elements -> {"none", "pending", "done", "cancelled"}]
    BY <1>1, <1>2 DEF TypeOK
  <2>2. \A i \in DOMAIN pending : consumed'[pending[i]] \in {"pending", "cancelled"}
    BY <1>1, <1>3, Typed DEF TypeOK
  <2>3. QED
    BY <1>1, <1>2, <2>1, <2>2 DEF TypeOK
<1>5. (NoLostWakeup /\ OnlyHandedLost /\ ConsumerWaits)'
  BY <1>2, <1>4 DEF SInv, NoLostWakeup, OnlyHandedLost, ConsumerWaits
<1>6. OfferedInOrder'
  BY <1>2 DEF SInv, OfferedInOrder, Increasing, In, Abstract!In
<1>7. Futures'
  BY <1>2, <1>3 DEF SInv, Futures, In, Abstract!In
<1>8. PendingWaits'
  BY <1>2, <1>3, Typed DEF SInv, PendingWaits, Increasing, In, Abstract!In
<1>9. SendersHaveFutures'
  BY <1>1, <1>2, <1>3 DEF SInv, SendersHaveFutures, TypeOK, Elements
<1>10. QED
  BY <1>5, <1>6, <1>7, <1>8, <1>9 DEF SInv

LEMMA FinishKeeps == ASSUME SInv, Finish PROVE SInv'
<1>1. /\ TypeOK /\ ~finished /\ ReleaseProducers
      /\ waiting' = waiting \/ (waiting = "pending" /\ waiting' = "failed")
      /\ waiting = "pending" => waiting' = "failed"
      /\ UNCHANGED <<sending, producerCancel, handed, consumer, consumerCancel, sent, offered,
                     taken, received, released>>
  <2>1. waiting = "pending" => FinishCompletes
    <3>1. ASSUME waiting = "pending" PROVE pending = <<>>
      BY <3>1 DEF SInv, NoLostWakeup
    <3>2. ASSUME waiting = "pending" PROVE Completable = {}
      BY <3>1, <3>2 DEF Completable
    <3>3. QED
      BY <3>1, <3>2, FS_EmptySet DEF FinishCompletes
  <2>2. QED
    BY <2>1, Typed DEF Finish, WaiterOpen
<1>2. /\ pending' \in Seq(Elements)
      /\ \A i \in DOMAIN pending' : consumed'[pending'[i]] \in {"pending", "cancelled"}
      /\ consumed' \in [Elements -> {"none", "pending", "done", "cancelled"}]
      /\ invalidState' \in SUBSET {"consumer", "finisher"}
      /\ finished'
      /\ (OfferedInOrder /\ Futures /\ PendingWaits /\ SendersHaveFutures)'
  BY <1>1, ReleaseKeeps
<1>3. TypeOK'
  BY <1>1, <1>2 DEF TypeOK, ReleaseProducers
<1>4. (NoLostWakeup /\ OnlyHandedLost /\ ConsumerWaits)'
  BY <1>1, <1>2, <1>3 DEF SInv, NoLostWakeup, OnlyHandedLost, ConsumerWaits
<1>5. QED
  BY <1>2, <1>4 DEF SInv

LEMMA NextCancelledKeeps == ASSUME SInv, NextCancelled PROVE SInv'
<1>1. /\ TypeOK /\ consumer = "waiting"
      /\ consumerCancel \/ waiting = "cancelled"
      /\ consumer' = "cancelled" /\ waiting' = "none" /\ handed' = 0 /\ consumerCancel' = FALSE
      /\ UNCHANGED <<sending, producerCancel, sent, offered, taken, received, released>>
  BY Typed DEF NextCancelled
<1>2. /\ pending' \in Seq(Elements)
      /\ \A i \in DOMAIN pending' : consumed'[pending'[i]] \in {"pending", "cancelled"}
      /\ consumed' \in [Elements -> {"none", "pending", "done", "cancelled"}]
      /\ invalidState' \in SUBSET {"consumer", "finisher"}
      /\ finished' \in BOOLEAN
      /\ (OfferedInOrder /\ Futures /\ PendingWaits /\ SendersHaveFutures)'
  <2>1. CASE finished
    <3>1. UNCHANGED <<finished, pending, consumed, invalidState>>
      BY <2>1 DEF NextCancelled, CancelsStream
    <3>2. (OfferedInOrder /\ Futures /\ PendingWaits /\ SendersHaveFutures)'
      BY <1>1, <3>1, QuietKeeps
    <3>3. QED
      BY <1>1, <3>1, <3>2 DEF TypeOK
  <2>2. CASE ~finished
    <3>1. ReleaseProducers
      BY <2>2 DEF NextCancelled, CancelsStream
    <3>2. QED
      BY <1>1, <3>1, ReleaseKeeps
  <2>3. QED
    BY <2>1, <2>2
<1>3. TypeOK'
  <2>1. 0 \in 0..MaxSent
    BY StreamAssumption
  <2>2. QED
    BY <1>1, <1>2, <2>1 DEF TypeOK
<1>4. OnlyHandedLost'
  <2>1. CASE waiting = "element"
    BY <1>1, <2>1 DEF SInv, OnlyHandedLost, ConsumerWaits
  <2>2. CASE waiting # "element"
    BY <1>1, <2>2 DEF SInv, OnlyHandedLost
  <2>3. QED
    BY <2>1, <2>2
<1>5. (NoLostWakeup /\ ConsumerWaits)'
  BY <1>1, <1>3 DEF NoLostWakeup, ConsumerWaits
<1>6. QED
  BY <1>2, <1>4, <1>5 DEF SInv

\* The steps of the consumer that neither take nor release anything.
LEMMA ConsumerKeeps ==
    ASSUME SInv, NextEnded \/ NextWaits \/ CancelConsumer \/ NextReturns
    PROVE  SInv'
<1>1. /\ TypeOK
      /\ UNCHANGED <<pending, consumed, sending, producerCancel, finished, sent, offered, taken,
                     released, invalidState>>
  BY Typed DEF NextEnded, NextWaits, CancelConsumer, NextReturns
<1>2. (OfferedInOrder /\ Futures /\ PendingWaits /\ SendersHaveFutures)'
  BY <1>1, QuietKeeps
<1>3. CASE NextEnded
  <2>1. TypeOK'
    BY <1>1, <1>3 DEF TypeOK, NextEnded
  <2>2. (NoLostWakeup /\ OnlyHandedLost /\ ConsumerWaits)'
    BY <1>1, <1>3, <2>1
    DEF SInv, NoLostWakeup, OnlyHandedLost, ConsumerWaits, NextEnded
  <2>3. QED
    BY <1>2, <2>2 DEF SInv
<1>4. CASE NextWaits
  <2>1. TypeOK'
    BY <1>1, <1>4 DEF TypeOK, NextWaits
  <2>2. (NoLostWakeup /\ OnlyHandedLost /\ ConsumerWaits)'
    BY <1>1, <1>4, <2>1
    DEF SInv, NoLostWakeup, OnlyHandedLost, ConsumerWaits, NextWaits
  <2>3. QED
    BY <1>2, <2>2 DEF SInv
<1>5. CASE CancelConsumer
  <2>1. TypeOK'
    BY <1>1, <1>5 DEF TypeOK, CancelConsumer
  <2>2. (NoLostWakeup /\ OnlyHandedLost /\ ConsumerWaits)'
    BY <1>1, <1>5, <2>1
    DEF SInv, NoLostWakeup, OnlyHandedLost, ConsumerWaits, CancelConsumer, WaiterOpen, TypeOK
  <2>3. QED
    BY <1>2, <2>2 DEF SInv
<1>6. CASE NextReturns
  <2>1. received' \in Seq(Elements)
    BY <1>1, <1>6, AppendProperties DEF NextReturns, SInv, ConsumerWaits, TypeOK
  <2>2. TypeOK'
    BY <1>1, <1>6, <2>1, StreamAssumption DEF TypeOK, NextReturns
  <2>3. (NoLostWakeup /\ OnlyHandedLost /\ ConsumerWaits)'
    BY <1>1, <1>6, <2>2
    DEF SInv, NoLostWakeup, OnlyHandedLost, ConsumerWaits, NextReturns
  <2>4. QED
    BY <1>2, <2>3 DEF SInv
<1>7. QED
  BY <1>3, <1>4, <1>5, <1>6

\* The oldest pending element and what remains without it.
LEMMA Oldest ==
    ASSUME SInv, pending # <<>>
    PROVE  /\ pending[1] \in Elements
           /\ consumed[pending[1]] \in {"pending", "cancelled"}
           /\ Remaining \in Seq(Elements)
           /\ Increasing(Remaining)
           /\ \A x : In(x, pending) <=> x = pending[1] \/ In(x, Remaining)
           /\ \A x \in Elements : In(x, Remaining) => pending[1] < x
<1>1. /\ TypeOK /\ pending \in Seq(Elements) /\ Len(pending) \in Nat
      /\ DOMAIN pending = 1..Len(pending)
      /\ \A i \in DOMAIN pending : pending[i] \in Elements
  BY Typed
<1>2. Len(pending) # 0
  BY <1>1, EmptySeq
<1> DEFINE second == 2
           t == SubSeq(pending, second, Len(pending))
<1>3. 1 \in DOMAIN pending /\ second \in 1..(Len(pending) + 1)
  BY <1>1, <1>2
<1>4. t = SubSeq(pending, second, Len(pending))
  OBVIOUS
<1> HIDE DEF second, t
<1>5. pending \in Seq(Elements) /\ second \in 1..(Len(pending) + 1)
  BY <1>1, <1>3
<1>6. /\ t \in Seq(Elements)
      /\ DOMAIN t = 1..(Len(pending) - second + 1)
      /\ \A i \in DOMAIN t : second - 1 + i \in DOMAIN pending /\ t[i] = pending[second - 1 + i]
      /\ \A e : In(e, t) <=> \E i \in DOMAIN pending : second <= i /\ pending[i] = e
  BY <1>5, <1>4, SuffixProperties
<1> USE DEF second
<1>7. Remaining = t
  <2>1. SubSeq(pending, 1, 0) = <<>>
    BY SubSeqEmpty
  <2>2. QED
    BY <1>4, <1>6, <2>1, ConcatEmptySeq DEF Remaining, Position
<1>8. Increasing(t)
  <2>1. ASSUME NEW i \in DOMAIN t, NEW j \in DOMAIN t, i < j PROVE t[i] < t[j]
    <3>1. i \in Int /\ j \in Int
      BY <1>6
    <3>2. 2 - 1 + i < 2 - 1 + j
      BY <2>1, <3>1
    <3>3. QED
      BY <1>6, <3>2 DEF SInv, PendingWaits, Increasing
  <2>2. QED
    BY <2>1 DEF Increasing
<1>9. ASSUME NEW x PROVE In(x, pending) <=> x = pending[1] \/ In(x, t)
  <2>1. ASSUME NEW i \in DOMAIN pending PROVE i = 1 \/ 2 <= i
    BY <1>1
  <2>2. QED
    BY <1>3, <1>6, <2>1 DEF In, Abstract!In
<1>10. ASSUME NEW x \in Elements, In(x, t) PROVE pending[1] < x
  <2>1. PICK i \in DOMAIN pending : 2 <= i /\ pending[i] = x
    BY <1>6, <1>10
  <2>2. i \in Int /\ 1 < i
    BY <1>1, <2>1
  <2>3. QED
    BY <1>3, <2>1, <2>2 DEF SInv, PendingWaits, Increasing
<1>11. pending[1] \in Elements /\ consumed[pending[1]] \in {"pending", "cancelled"}
  BY <1>1, <1>3 DEF TypeOK
<1>12. QED
  BY <1>6, <1>7, <1>8, <1>9, <1>10, <1>11

LEMMA NextPendingKeeps == ASSUME SInv, NextPending PROVE SInv'
<1> DEFINE e == pending[1]
<1>1. /\ TypeOK /\ Elements \subseteq Int /\ pending # <<>> /\ ~finished /\ consumer = "idle"
      /\ pending' = Remaining
      /\ UNCHANGED <<sending, producerCancel, waiting, handed, finished, consumer,
                     consumerCancel, sent, offered, released>>
  BY Typed DEF NextPending
<1>2. \/ /\ consumed[e] = "pending"
         /\ consumed' = [consumed EXCEPT ![e] = "done"]
         /\ taken' = Append(taken, e)
         /\ received' = Append(received, e)
         /\ UNCHANGED invalidState
      \/ /\ consumed[e] = "cancelled"
         /\ invalidState' = invalidState \cup {"consumer"}
         /\ UNCHANGED <<consumed, taken, received>>
  BY DEF NextPending, Position
<1>3. /\ e \in Elements
      /\ pending' \in Seq(Elements) /\ Increasing(pending')
      /\ \A x : In(x, pending) <=> x = e \/ In(x, pending')
      /\ \A x \in Elements : In(x, pending') => e < x
      /\ ~In(e, pending')
  <2>1. \A x \in Elements : In(x, pending') => e < x
    BY <1>1, Oldest
  <2>2. e \in Elements /\ e \in Int
    BY <1>1, Oldest
  <2>3. ~(e < e)
    BY <2>2
  <2>4. ~In(e, pending')
    BY <2>1, <2>2, <2>3
  <2>5. QED
    BY <1>1, <2>1, <2>4, Oldest
<1> HIDE DEF e
<1>4. /\ taken' \in Seq(Elements) /\ received' \in Seq(Elements)
      /\ \A x : In(x, taken) => In(x, taken')
      /\ \A x : In(x, taken') => In(x, taken) \/ x = e
      /\ In(e, taken') \/ consumed'[e] = "cancelled"
  <2>1. taken \in Seq(Elements) /\ received \in Seq(Elements)
    BY Typed
  <2>2. /\ \A x : In(x, Append(taken, e)) <=> In(x, taken) \/ x = e
        /\ Append(taken, e) \in Seq(Elements) /\ Append(received, e) \in Seq(Elements)
    <3>1. e \in Elements
      BY <1>3
    <3>2. QED
      BY <2>1, <3>1, InAppend, AppendProperties
  <2>3. QED
    BY <1>2, <2>1, <2>2
<1>5. \A x \in Elements : \/ consumed'[x] = consumed[x] /\ (x = e => consumed[x] = "cancelled")
                          \/ x = e /\ consumed[x] = "pending" /\ consumed'[x] = "done"
                                   /\ In(x, taken')
  <2>1. taken \in Seq(Elements) /\ e \in Elements
    BY <1>3, Typed
  <2>2. In(e, Append(taken, e))
    BY <2>1, InAppend
  <2>3. consumed[e] = "pending" => In(e, taken')
    BY <1>2, <2>2
  <2>4. QED
    BY <1>1, <1>2, <1>3, <2>3 DEF TypeOK
<1>6. \A i \in DOMAIN pending' : pending'[i] \in Elements /\ In(pending'[i], pending')
  BY <1>3, InDomain, ElementOfSeq, LenProperties
<1>7. \A x : In(x, pending) => In(x, offered) /\ ~In(x, taken)
  BY DEF SInv, PendingWaits, In, Abstract!In
<1>8. TypeOK'
  <2>1. consumed' \in [Elements -> {"none", "pending", "done", "cancelled"}]
    BY <1>1, <1>2, <1>3 DEF TypeOK
  <2>2. \A x \in Elements : In(x, pending) => consumed[x] \in {"pending", "cancelled"}
    BY <1>1 DEF TypeOK, In, Abstract!In
  <2>3. \A i \in DOMAIN pending' : consumed'[pending'[i]] \in {"pending", "cancelled"}
    BY <1>3, <1>5, <1>6, <2>2
  <2>4. invalidState' \in SUBSET {"consumer", "finisher"}
    BY <1>1, <1>2 DEF TypeOK
  <2>5. QED
    BY <1>1, <1>3, <1>4, <2>1, <2>3, <2>4 DEF TypeOK
<1>9. OnlyHandedLost'
  BY <1>1, <1>2 DEF SInv, OnlyHandedLost, ConsumerWaits
<1>10. (NoLostWakeup /\ ConsumerWaits)'
  BY <1>1, <1>8 DEF SInv, NoLostWakeup, ConsumerWaits
<1>11. OfferedInOrder'
  <2>1. \A i \in DOMAIN taken' : In(taken'[i], taken')
    BY InDomain
  <2>2. \A x : In(x, taken) => In(x, offered)
    BY DEF SInv, OfferedInOrder, In, Abstract!In
  <2>3. \A i \in DOMAIN taken' : In(taken'[i], offered)
    BY <1>3, <1>4, <1>7, <2>1, <2>2
  <2>4. QED
    BY <1>1, <2>3 DEF SInv, OfferedInOrder, Increasing, In, Abstract!In
<1>12. Futures'
  <2>1. ASSUME NEW x \in Elements
        PROVE  /\ consumed'[x] # "none" => In(x, offered)
               /\ consumed'[x] = "pending" => In(x, pending')
               /\ consumed'[x] = "done" => In(x, taken') \/ finished
               /\ x \in released => consumed'[x] \in {"none", "done"} /\ x <= sent
    BY <1>3, <1>4, <1>5 DEF SInv, Futures
  <2>2. \A x : In(x, offered)' <=> In(x, offered)
    BY <1>1 DEF In, Abstract!In
  <2>3. QED
    BY <1>1, <2>1, <2>2 DEF Futures
<1>13. PendingWaits'
  <2>1. \A i \in DOMAIN pending' : In(pending'[i], offered) /\ ~In(pending'[i], taken')
    BY <1>3, <1>4, <1>6, <1>7
  <2>2. \A i \in DOMAIN offered : \/ In(offered[i], taken') \/ In(offered[i], pending')
                                  \/ consumed'[offered[i]] = "cancelled"
    BY <1>1, <1>3, <1>4, <1>5, Typed DEF SInv, PendingWaits
  <2>3. QED
    BY <1>1, <1>3, <2>1, <2>2 DEF PendingWaits
<1>14. SendersHaveFutures'
  BY <1>1, <1>5 DEF SInv, SendersHaveFutures, TypeOK, Elements
<1>15. QED
  BY <1>9, <1>10, <1>11, <1>12, <1>13, <1>14 DEF SInv

LEMMA NextSInv == SInv /\ [Next]_vars => SInv'
<1>1. ASSUME SInv, Next PROVE SInv'
  BY <1>1, SendKeeps, SendReturnsKeeps, CancelProducerKeeps, FinishKeeps, NextPendingKeeps,
     NextCancelledKeeps, ConsumerKeeps DEF Next
<1>2. ASSUME SInv, UNCHANGED vars PROVE SInv'
  <2>1. (OfferedInOrder /\ Futures /\ PendingWaits /\ SendersHaveFutures)'
    BY <1>2, QuietKeeps DEF vars
  <2>2. (NoLostWakeup /\ OnlyHandedLost /\ ConsumerWaits)'
    BY <1>2 DEF SInv, NoLostWakeup, OnlyHandedLost, ConsumerWaits, TypeOK, vars
  <2>3. QED
    BY <2>1, <2>2 DEF SInv
<1>3. QED
  BY <1>1, <1>2

LEMMA SInvHolds == Spec => []SInv
BY InitSInv, NextSInv, PTL DEF Spec

\* In no order of send, finish, __anext__ and cancellations does the consumer
\* stay suspended while there is an element or an end of the stream for it.
THEOREM NoWakeupIsLost == Spec => []NoLostWakeup
BY SInvHolds, PTL DEF SInv

\* The consumer receives what leaves the stream, in that order, and of all
\* that leaves it only the one element handed to a consumer that is cancelled
\* before it resumes is ever missing.
THEOREM NothingElseIsLost == Spec => []OnlyHandedLost
BY SInvHolds, PTL DEF SInv
-----------------------------------------------------------------------------
\* What Handoff calls withdrawn.
Withdrawn == {e \in Elements : consumed[e] = "cancelled"}

LEMMA SendRefines ==
    ASSUME SInv, NEW p \in Producers, Send(p)
    PROVE  \E e \in Elements : Abstract!Discard(e) \/ Abstract!Pass(e) \/ Abstract!Offer(e)
<1> DEFINE e == sent + 1
<1>1. e \in Elements /\ consumed[e] = "none" /\ ~In(e, offered) /\ TypeOK
  BY NextIsNew, Typed DEF Send
<1>2. finished' = finished
  BY DEF Send
<1>3. CASE finished
  <2>1. released' = released \cup {e} /\ UNCHANGED <<offered, taken, consumed>>
    BY <1>3 DEF Send
  <2>2. Abstract!Discard(e)
    BY <1>1, <1>2, <1>3, <2>1 DEF Abstract!Discard, In
  <2>3. QED
    BY <1>1, <2>2
<1>4. CASE ~finished /\ WaiterOpen
  <2>1. /\ offered' = Append(offered, e) /\ taken' = Append(taken, e)
        /\ released' = released \cup {e} /\ UNCHANGED consumed
    BY <1>4 DEF Send
  <2>2. ASSUME NEW i \in Abstract!Waiting PROVE FALSE
    <3>1. /\ i \in DOMAIN offered /\ ~In(offered[i], taken)
          /\ ~(offered[i] \in Elements /\ consumed[offered[i]] = "cancelled")
      BY <2>2 DEF Abstract!Waiting, In
    <3>2. In(offered[i], pending)
      BY <1>4, <3>1, Typed DEF SInv, PendingWaits
    <3>3. pending = <<>>
      BY <1>4 DEF SInv, NoLostWakeup, WaiterOpen
    <3>4. QED
      BY <3>2, <3>3 DEF In, Abstract!In
  <2>3. Abstract!Waiting = {}
    BY <2>2
  <2>4. Abstract!Pass(e)
    BY <1>1, <1>2, <1>4, <2>1, <2>3 DEF Abstract!Pass, In
  <2>5. QED
    BY <1>1, <2>4
<1>5. CASE ~finished /\ ~WaiterOpen
  <2>1. /\ offered' = Append(offered, e) /\ UNCHANGED <<taken, released>>
        /\ consumed' = [consumed EXCEPT ![e] = "pending"]
    BY <1>5 DEF Send
  <2> HIDE DEF e
  <2>2. Withdrawn' = Withdrawn
    BY <1>1, <2>1 DEF Withdrawn, TypeOK
  <2>3. Abstract!Offer(e)
    BY <1>1, <1>2, <1>5, <2>1, <2>2 DEF Abstract!Offer, In, Withdrawn
  <2>4. QED
    BY <1>1, <2>3
<1>6. QED
  BY <1>3, <1>4, <1>5

LEMMA SendReturnsRefines ==
    ASSUME SInv, NEW p \in Producers, SendReturns(p)
    PROVE  UNCHANGED Abstract!vars \/ \E e \in Elements : Abstract!Release(e)
<1> DEFINE e == sending[p]
<1>1. e \in Elements /\ consumed[e] \in {"done", "cancelled"}
  BY Typed DEF SendReturns, SInv, SendersHaveFutures, TypeOK, Elements
<1>2. /\ released' = released \/ (released' = released \cup {e} /\ consumed[e] = "done")
      /\ UNCHANGED <<consumed, finished, offered, taken>>
  BY <1>1 DEF SendReturns
<1> HIDE DEF e
<1>3. CASE released' = released
  BY <1>2, <1>3 DEF Abstract!vars
<1>4. CASE released' = released \cup {e} /\ consumed[e] = "done"
  <2>1. In(e, offered) /\ (In(e, taken) \/ finished)
    BY <1>1, <1>4 DEF SInv, Futures
  <2>2. Abstract!Release(e)
    BY <1>2, <1>4, <2>1 DEF Abstract!Release, In
  <2>3. QED
    BY <1>1, <2>2
<1>5. QED
  BY <1>2, <1>3, <1>4

LEMMA CancelProducerRefines ==
    ASSUME SInv, NEW p \in Producers, CancelProducer(p)
    PROVE  UNCHANGED Abstract!vars \/ \E e \in Elements : Abstract!Withdraw(e)
<1>1. TypeOK
  BY Typed
<1> PICK e \in Elements : e = sending[p]
  BY <1>1 DEF CancelProducer, TypeOK, Elements
<1>2. /\ \/ consumed[e] = "pending" /\ consumed' = [consumed EXCEPT ![e] = "cancelled"]
         \/ consumed' = consumed
      /\ UNCHANGED <<finished, offered, taken, released>>
  BY DEF CancelProducer
<1>3. CASE consumed' = consumed
  BY <1>2, <1>3 DEF Abstract!vars
<1>4. CASE consumed[e] = "pending" /\ consumed' = [consumed EXCEPT ![e] = "cancelled"]
  <2>1. In(e, offered) /\ In(e, pending) /\ e \notin released
    BY <1>1, <1>4 DEF SInv, Futures
  <2>2. ~In(e, taken)
    BY <2>1 DEF SInv, PendingWaits, In, Abstract!In
  <2>3. \E i \in Abstract!Waiting : offered[i] = e
    BY <1>4, <2>1, <2>2 DEF Abstract!Waiting, In, Abstract!In
  <2>4. Withdrawn' = Withdrawn \cup {e}
    BY <1>1, <1>4 DEF Withdrawn, TypeOK
  <2>5. Abstract!Withdraw(e)
    BY <1>2, <2>1, <2>3, <2>4 DEF Abstract!Withdraw, Withdrawn
  <2>6. QED
    BY <1>1, <2>5
<1>5. QED
  BY <1>2, <1>3, <1>4

\* Finishing closes the stream and withdraws nothing.
LEMMA ReleaseRefines ==
    ASSUME SInv, ~finished, ReleaseProducers, UNCHANGED <<sent, offered, taken, released, sending>>
    PROVE  Abstract!Close
<1>1. finished' = TRUE
  BY DEF ReleaseProducers
<1>2. Withdrawn' = Withdrawn
  BY ReleaseKeeps DEF Withdrawn
<1>3. QED
  BY <1>1, <1>2 DEF Abstract!Close, Withdrawn

LEMMA NextPendingRefines ==
    ASSUME SInv, NextPending
    PROVE  UNCHANGED Abstract!vars \/ Abstract!Take
<1> DEFINE e == pending[1]
<1>1. /\ ~finished /\ pending # <<>> /\ TypeOK /\ e \in Elements /\ Elements \subseteq Int
      /\ UNCHANGED <<finished, offered, released>>
  BY Oldest, Typed DEF NextPending
<1>2. \/ /\ consumed[e] = "pending"
         /\ consumed' = [consumed EXCEPT ![e] = "done"]
         /\ taken' = Append(taken, e)
      \/ UNCHANGED <<consumed, taken>>
  BY DEF NextPending, Position
<1>3. /\ In(e, pending)
      /\ \A x \in Elements : In(x, pending) => x = e \/ e < x
  BY <1>1, Oldest
<1> HIDE DEF e
<1>4. CASE UNCHANGED <<consumed, taken>>
  BY <1>1, <1>4 DEF Abstract!vars
<1>5. CASE /\ consumed[e] = "pending"
           /\ consumed' = [consumed EXCEPT ![e] = "done"]
           /\ taken' = Append(taken, e)
  <2>1. In(e, offered) /\ ~In(e, taken)
    BY <1>3 DEF SInv, PendingWaits, In, Abstract!In
  <2>2. PICK i \in DOMAIN offered : offered[i] = e
    BY <2>1 DEF In, Abstract!In
  <2>3. i \in Abstract!Waiting
    BY <1>5, <2>1, <2>2 DEF Abstract!Waiting, In
  <2>4. ASSUME NEW j \in Abstract!Waiting PROVE i <= j
    <3>1. /\ j \in DOMAIN offered /\ ~In(offered[j], taken)
          /\ ~(offered[j] \in Elements /\ consumed[offered[j]] = "cancelled")
      BY DEF Abstract!Waiting, In
    <3>2. offered[j] \in Elements /\ In(offered[j], pending)
      BY <1>1, <3>1, Typed DEF SInv, PendingWaits
    <3>3. ~(offered[j] < offered[i])
      <4>1. offered[j] = e \/ e < offered[j]
        BY <1>3, <3>2
      <4>2. offered[j] \in Int /\ e \in Int
        BY <1>1, <3>2
      <4>3. QED
        BY <2>2, <4>1, <4>2
    <3>4. ~(j < i)
      BY <3>1, <3>3 DEF SInv, OfferedInOrder, Increasing
    <3>5. i \in Int /\ j \in Int
      BY <3>1, Typed
    <3>6. QED
      BY <3>4, <3>5
  <2>5. Withdrawn' = Withdrawn
    BY <1>1, <1>5 DEF Withdrawn, TypeOK
  <2>6. Abstract!Take
    BY <1>1, <1>5, <2>2, <2>3, <2>4, <2>5 DEF Abstract!Take, Withdrawn
  <2>7. QED
    BY <2>6
<1>6. QED
  BY <1>2, <1>4, <1>5

LEMMA StepRefines == SInv /\ [Next]_vars => [Abstract!Next]_(Abstract!vars)
<1> SUFFICES ASSUME SInv, [Next]_vars PROVE [Abstract!Next]_(Abstract!vars)
  OBVIOUS
<1>1. CASE UNCHANGED vars
  BY <1>1 DEF vars, Abstract!vars
<1>2. ASSUME NEW p \in Producers, Send(p) PROVE Abstract!Next
  BY <1>2, SendRefines DEF Abstract!Next
<1>3. ASSUME NEW p \in Producers, SendReturns(p) PROVE [Abstract!Next]_(Abstract!vars)
  BY <1>3, SendReturnsRefines DEF Abstract!Next
<1>4. ASSUME NEW p \in Producers, CancelProducer(p) PROVE [Abstract!Next]_(Abstract!vars)
  BY <1>4, CancelProducerRefines DEF Abstract!Next
<1>5. CASE Finish
  BY <1>5, ReleaseRefines DEF Finish, Abstract!Next
<1>6. CASE NextPending
  BY <1>6, NextPendingRefines DEF Abstract!Next
<1>7. CASE NextCancelled
  <2>1. CASE finished
    BY <1>7, <2>1 DEF NextCancelled, CancelsStream, Abstract!vars
  <2>2. CASE ~finished
    BY <1>7, <2>2, ReleaseRefines DEF NextCancelled, CancelsStream, Abstract!Next
  <2>3. QED
    BY <2>1, <2>2
<1>8. CASE NextEnded \/ NextWaits \/ NextReturns \/ CancelConsumer
  BY <1>8 DEF NextEnded, NextWaits, NextReturns, CancelConsumer, Abstract!vars
<1>9. QED
  BY <1>1, <1>2, <1>3, <1>4, <1>5, <1>6, <1>7, <1>8 DEF Next

\* The stream implements the hand-off: with futures, cancellations and the
\* interrupted finish of the code, elements still reach the consumer in the
\* order of their sends and once each, producers get control back only when
\* their element left the stream or the stream is finished.
THEOREM StreamImplementsHandoff == Spec => ImplementsHandoff
<1>1. Init => Abstract!Init
  BY DEF Init, Abstract!Init
<1>2. QED
  BY <1>1, SInvHolds, StepRefines, PTL DEF Spec, ImplementsHandoff, Abstract!Spec
-----------------------------------------------------------------------------
\* A finish that was not interrupted has completed every entry, and a consumer
\* that was cancelled has seen to it that the stream is finished.
Finishes ==
    /\ finished /\ "finisher" \notin invalidState => pending = <<>>
    /\ consumer = "cancelled" => finished

LEMMA FinishCompletesAll ==
    ASSUME pending \in Seq(Elements), ReleaseProducers, "finisher" \notin invalidState'
    PROVE  pending' = <<>>
<1>1. FinishCompletes
  BY DEF ReleaseProducers
<1>2. PICK n \in Nat : n = Len(pending) /\ Cardinality(Completable) = n
  BY <1>1, LenProperties DEF FinishCompletes
<1>3. pending' = SubSeq(pending, n + 2, n)
  BY <1>2 DEF ReleaseProducers
<1>4. QED
  BY <1>2, <1>3, SubSeqEmpty, EmptySeq

LEMMA FinishesKept == SInv /\ Finishes /\ [Next]_vars => Finishes'
<1> SUFFICES ASSUME SInv, Finishes, [Next]_vars PROVE Finishes'
  OBVIOUS
<1>1. pending \in Seq(Elements)
  BY DEF SInv, NoLostWakeup, TypeOK
<1>2. CASE UNCHANGED vars
  BY <1>2 DEF Finishes, vars
<1>3. ASSUME NEW p \in Producers, Send(p) \/ SendReturns(p) \/ CancelProducer(p) PROVE Finishes'
  BY <1>3 DEF Send, SendReturns, CancelProducer, Finishes
<1>4. CASE Finish
  BY <1>1, <1>4, FinishCompletesAll DEF Finish, ReleaseProducers, Finishes
<1>5. CASE NextEnded \/ NextPending \/ NextWaits \/ NextReturns \/ CancelConsumer
  BY <1>5 DEF NextEnded, NextPending, NextWaits, NextReturns, CancelConsumer, Finishes
<1>6. CASE NextCancelled
  <2>1. CASE finished
    BY <1>6, <2>1 DEF NextCancelled, CancelsStream, Finishes
  <2>2. CASE ~finished
    BY <1>1, <1>6, <2>2, FinishCompletesAll
       DEF NextCancelled, CancelsStream, ReleaseProducers, Finishes
  <2>3. QED
    BY <2>1, <2>2
<1>7. QED
  BY <1>2, <1>3, <1>4, <1>5, <1>6 DEF Next

\* Once a stream is finished and its finisher was not interrupted, everybody who
\* waits has a future that is done, so that nothing but their next turns are between
\* them and the end of their waits, and nobody starts to wait (finish, cancel, send and
\* __anext__ of AsyncStream).
THEOREM FinishedSendersGoOn == Spec => []FinishedCanReturn /\ FinishedForGood
<1>1. Init => Finishes
  BY DEF Init, Finishes
<1>2. SInv /\ Finishes => FinishedCanReturn
  <2> SUFFICES ASSUME SInv, Finishes, finished \/ consumer = "cancelled",
                      "finisher" \notin invalidState
               PROVE  /\ finished
                      /\ consumer = "waiting" =>
                            consumerCancel \/ waiting \in {"element", "failed", "cancelled"}
                      /\ \A p \in Producers : sending[p] # 0 => consumed[sending[p]] # "pending"
    BY DEF FinishedCanReturn
  <2>1. finished /\ pending = <<>>
    BY DEF Finishes
  <2>2. consumer = "waiting" => consumerCancel \/ waiting \in {"element", "failed", "cancelled"}
    BY <2>1 DEF SInv, NoLostWakeup, TypeOK, ConsumerWaits
  <2>3. ASSUME NEW p \in Producers, sending[p] # 0, consumed[sending[p]] = "pending" PROVE FALSE
    <3>1. sending[p] \in Elements
      BY <2>3, StreamAssumption DEF SInv, NoLostWakeup, TypeOK, Elements
    <3>2. In(sending[p], pending)
      BY <2>3, <3>1 DEF SInv, Futures
    <3>3. DOMAIN pending = {}
      BY <2>1
    <3>4. QED
      BY <3>2, <3>3 DEF In, Abstract!In
  <2>4. QED
    BY <2>1, <2>2, <2>3
<1>3. ASSUME SInv, [Next]_vars
      PROVE  finished =>
                /\ finished'
                /\ "finisher" \in invalidState' => "finisher" \in invalidState
                /\ consumer' = "waiting" => consumer = "waiting"
                /\ \A p \in Producers : sending'[p] # 0 => sending'[p] = sending[p]
  <2> SUFFICES ASSUME finished
               PROVE  /\ finished'
                      /\ "finisher" \in invalidState' => "finisher" \in invalidState
                      /\ consumer' = "waiting" => consumer = "waiting"
                      /\ \A p \in Producers : sending'[p] # 0 => sending'[p] = sending[p]
    OBVIOUS
  <2>1. sending \in [Producers -> 0..MaxSent]
    BY <1>3 DEF SInv, NoLostWakeup, TypeOK
  <2>2. CASE UNCHANGED vars
    BY <2>2 DEF vars
  <2>3. ASSUME NEW q \in Producers, SendReturns(q)
        PROVE  /\ UNCHANGED <<finished, invalidState, consumer>>
               /\ \A p \in Producers : sending'[p] # 0 => sending'[p] = sending[p]
    BY <2>1, <2>3 DEF SendReturns
  <2>4. ASSUME NEW q \in Producers, Send(q) \/ CancelProducer(q)
        PROVE  UNCHANGED <<finished, invalidState, consumer, sending>>
    BY <2>4 DEF Send, CancelProducer
  <2>5. CASE NextEnded \/ NextReturns \/ NextCancelled \/ CancelConsumer
    BY <2>5 DEF NextEnded, NextReturns, NextCancelled, CancelConsumer, CancelsStream
  <2>6. CASE Finish \/ NextPending \/ NextWaits
    BY <2>6 DEF Finish, NextPending, NextWaits
  <2>7. QED
    BY <1>3, <2>2, <2>3, <2>4, <2>5, <2>6 DEF Next
<1>4. QED
  BY <1>1, <1>2, <1>3, FinishesKept, SInvHolds, PTL DEF Spec, FinishedForGood
=============================================================================
