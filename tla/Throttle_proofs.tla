--------------------------- MODULE Throttle_proofs ---------------------------
(***************************************************************************)
(* Proofs about Throttle for every limit, period and set of callers.  The  *)
(* inductive invariant TInv relates the deque to the history of starts:    *)
(* the deque is a suffix of the history, everything before it has expired, *)
(* and a deque above the limit has an expired head.  QInv is about the     *)
(* line for the lock: who is in it, and where.                             *)
(***************************************************************************)
EXTENDS Throttle, SequenceTheorems, TLAPS

Inside == {"admitting", "sleeping"}
Shift == Len(starts) - Len(entries)

\* The deque is the end of the history of starts.
DequeIsSuffix ==
    /\ Len(entries) <= Len(starts)
    /\ \A i \in 1..Len(entries) : entries[i] = starts[Shift + i]

\* What was popped from the deque is at least a period old.
PoppedExpired == \A i \in 1..Shift : starts[i] + Period <= now

StartsInPast == \A i \in 1..Len(starts) : starts[i] <= now

\* The deque exceeds the limit by one entry at most, and then by an old one.
OverfullExpired ==
    /\ Len(entries) <= Limit + 1
    /\ Len(entries) = Limit + 1 => entries[1] + Period <= now

\* What the caller inside the lock established when it entered.
InsideKnows ==
    \A c \in Callers :
        /\ pc[c] = "admitting" => Len(entries) < Limit
        /\ pc[c] = "sleeping" => Len(entries) = Limit /\ wakeAt[c] = entries[1] + Period

TInv ==
    /\ TypeOK
    /\ OneInside
    /\ DequeIsSuffix
    /\ PoppedExpired
    /\ StartsInPast
    /\ OverfullExpired
    /\ InsideKnows
    /\ WindowRespected

LEMMA InitTInv == Init => TInv
<1> SUFFICES ASSUME Init PROVE TInv
  OBVIOUS
<1> USE ThrottleAssumption
<1>1. TypeOK
  <2>1. entries \in Seq(Nat) /\ starts \in Seq(Nat) /\ line \in Seq(Callers)
    BY EmptySeq DEF Init
  <2>2. pc \in [Callers -> {"idle", "queued", "admitting", "sleeping"}]
        /\ wakeAt \in [Callers -> 0..(now + Period)]
    BY DEF Init
  <2>3. QED
    BY <2>1, <2>2 DEF Init, TypeOK
<1>2. Len(entries) = 0 /\ Len(starts) = 0 /\ Shift = 0
  BY DEF Init, Shift
<1>3. DequeIsSuffix /\ PoppedExpired /\ StartsInPast /\ OverfullExpired /\ WindowRespected
  BY <1>2 DEF DequeIsSuffix, PoppedExpired, StartsInPast, OverfullExpired, WindowRespected
<1>4. OneInside /\ InsideKnows
  BY DEF Init, OneInside, InsideKnows
<1>5. QED
  BY <1>1, <1>3, <1>4 DEF TInv

\* Steps that leave the deque and the history alone keep everything but the
\* types and the facts about who is inside the lock.
LEMMA HistoryKept ==
    ASSUME TInv, UNCHANGED <<entries, starts>>, now' \in Nat, now <= now'
    PROVE  /\ DequeIsSuffix' /\ PoppedExpired' /\ StartsInPast'
           /\ OverfullExpired' /\ WindowRespected'
<1> USE ThrottleAssumption
<1>1. /\ starts \in Seq(Nat) /\ entries \in Seq(Nat) /\ now \in Nat
      /\ Shift \in Nat /\ Shift <= Len(starts)
  BY DEF TInv, TypeOK, DequeIsSuffix, Shift
<1>2. DequeIsSuffix' /\ WindowRespected'
  BY DEF TInv, DequeIsSuffix, WindowRespected, Shift
<1>3. PoppedExpired'
  <2> SUFFICES ASSUME NEW i \in 1..Shift PROVE starts[i] + Period <= now'
    BY DEF PoppedExpired, Shift
  <2>1. starts[i] + Period <= now /\ starts[i] \in Nat
    BY <1>1 DEF TInv, PoppedExpired
  <2>2. QED
    BY <2>1, <1>1
<1>4. StartsInPast'
  <2> SUFFICES ASSUME NEW i \in 1..Len(starts) PROVE starts[i] <= now'
    BY DEF StartsInPast
  <2>1. starts[i] <= now /\ starts[i] \in Nat
    BY <1>1 DEF TInv, StartsInPast
  <2>2. QED
    BY <2>1, <1>1
<1>5. OverfullExpired'
  <2> SUFFICES ASSUME Len(entries) = Limit + 1 PROVE entries[1] + Period <= now'
    BY DEF TInv, OverfullExpired
  <2>1. entries[1] + Period <= now /\ entries[1] \in Nat
    BY <1>1 DEF TInv, OverfullExpired
  <2>2. QED
    BY <2>1, <1>1
<1>6. QED
  BY <1>2, <1>3, <1>4, <1>5

LEMMA TickTInv == TInv /\ Tick => TInv'
<1> SUFFICES ASSUME TInv, Tick PROVE TInv'
  OBVIOUS
<1>1. now' \in Nat /\ now <= now' /\ UNCHANGED <<entries, locked, line, pc, wakeAt, starts>>
  BY DEF TInv, TypeOK, Tick
<1>2. wakeAt \in [Callers -> 0..(now' + Period)]
  <2>1. \A c \in Callers : wakeAt[c] \in 0..(now' + Period)
    BY <1>1, ThrottleAssumption DEF TInv, TypeOK
  <2>2. QED
    BY <2>1 DEF TInv, TypeOK
<1>3. TypeOK' /\ OneInside' /\ InsideKnows'
  BY <1>1, <1>2 DEF TInv, TypeOK, OneInside, InsideKnows
<1>4. QED
  BY <1>1, <1>3, HistoryKept DEF TInv

LEMMA CallTInv == ASSUME NEW c \in Callers, TInv, Call(c) PROVE TInv'
<1>1. TypeOK'
  <2>1. Append(line, c) \in Seq(Callers)
    BY AppendProperties DEF TInv, TypeOK
  <2>2. QED
    BY <2>1 DEF TInv, TypeOK, Call
<1>2. OneInside' /\ InsideKnows'
  BY DEF TInv, TypeOK, OneInside, InsideKnows, Call
<1>3. now' \in Nat /\ now <= now' /\ UNCHANGED <<entries, starts>>
  BY DEF TInv, TypeOK, Call
<1>4. QED
  BY <1>1, <1>2, <1>3, HistoryKept DEF TInv

LEMMA CancelTInv ==
    ASSUME NEW c \in Callers, TInv, CancelSleep(c) \/ CancelQueued(c) PROVE TInv'
<1>1. TypeOK'
  <2>1. CASE CancelSleep(c)
    BY <2>1 DEF TInv, TypeOK, CancelSleep
  <2>2. CASE CancelQueued(c)
    <3>1. line \in Seq(Callers)
      BY DEF TInv, TypeOK
    <3>2. PICK place \in 1..Len(line) :
            line' = SubSeq(line, 1, place - 1) \o SubSeq(line, place + 1, Len(line))
      BY <2>2, <3>1, LenProperties DEF CancelQueued
    <3>3. SubSeq(line, 1, place - 1) \in Seq(Callers)
      BY <3>1, SubSeqProperties, Len(line) \in Nat
    <3>4. SubSeq(line, place + 1, Len(line)) \in Seq(Callers)
      BY <3>1, SubSeqProperties, Len(line) \in Nat
    <3>5. line' \in Seq(Callers)
      BY <3>2, <3>3, <3>4, ConcatProperties
    <3>6. QED
      BY <2>2, <3>5 DEF TInv, TypeOK, CancelQueued
  <2>3. QED
    BY <2>1, <2>2
<1>2. OneInside' /\ InsideKnows'
  <2>1. CASE CancelSleep(c)
    BY <2>1 DEF TInv, TypeOK, OneInside, InsideKnows, CancelSleep
  <2>2. CASE CancelQueued(c)
    <3>1. /\ pc' = [pc EXCEPT ![c] = "idle"] /\ pc[c] = "queued"
          /\ UNCHANGED <<now, entries, locked, wakeAt, starts>>
      BY <2>2 DEF CancelQueued
    <3>2. QED
      BY <3>1 DEF TInv, TypeOK, OneInside, InsideKnows
  <2>3. QED
    BY <2>1, <2>2
<1>3. now' \in Nat /\ now <= now' /\ UNCHANGED <<entries, starts>>
  BY DEF TInv, TypeOK, CancelSleep, CancelQueued
<1>4. QED
  BY <1>1, <1>2, <1>3, HistoryKept DEF TInv

\* Entering the lock pops expired entries from the head of the deque only.
LEMMA EnterTInv == ASSUME NEW c \in Callers, TInv, Enter(c) PROVE TInv'
<1> USE ThrottleAssumption
<1>1. PICK popped \in 0..Len(entries) :
        /\ \A i \in 1..popped : Expired(entries[i])
        /\ popped < Len(entries) => ~Expired(entries[popped + 1])
        /\ entries' = SubSeq(entries, popped + 1, Len(entries))
        /\ IF WindowFull(Len(entries) - popped)
           THEN /\ pc' = [pc EXCEPT ![c] = "sleeping"]
                /\ wakeAt' = [wakeAt EXCEPT ![c] = WakeTime(entries[popped + 1])]
           ELSE pc' = [pc EXCEPT ![c] = "admitting"] /\ UNCHANGED wakeAt
  BY DEF Enter
<1>2. /\ starts \in Seq(Nat) /\ entries \in Seq(Nat) /\ now \in Nat
      /\ Len(entries) \in Nat /\ Len(starts) \in Nat /\ popped \in Nat
      /\ popped <= Len(entries) /\ Len(entries) <= Len(starts)
      /\ UNCHANGED <<now, starts>>
  <2>1. UNCHANGED <<now, starts>>
    BY DEF Enter
  <2>2. starts \in Seq(Nat) /\ entries \in Seq(Nat) /\ now \in Nat /\ Len(entries) <= Len(starts)
    BY DEF TInv, TypeOK, DequeIsSuffix
  <2>3. Len(entries) \in Nat /\ Len(starts) \in Nat
    BY <2>2, LenProperties
  <2>4. QED
    BY <2>1, <2>2, <2>3
<1>3. /\ entries' \in Seq(Nat)
      /\ Len(entries') = Len(entries) - popped
      /\ \A i \in 1..Len(entries') : entries'[i] = entries[popped + i]
  <2>1. CASE popped < Len(entries)
    <3>1. /\ entries' \in Seq(Nat)
          /\ Len(entries') = Len(entries) - popped
      BY <1>1, <1>2, <2>1
    <3>2. ASSUME NEW i \in 1..Len(entries') PROVE entries'[i] = entries[popped + i]
      BY <1>1, <1>2, <2>1, <3>1
    <3>3. QED
      BY <3>1, <3>2
  <2>2. CASE popped = Len(entries)
    BY <1>1, <1>2, <2>2, SubSeqEmpty
  <2>3. QED
    BY <1>2, <2>1, <2>2
<1>4. Shift' = Shift + popped /\ Shift \in Nat
  BY <1>2, <1>3 DEF Shift
<1>5. DequeIsSuffix'
  <2>1. ASSUME NEW i \in 1..Len(entries') PROVE entries'[i] = starts[Shift' + i]
    <3>1. entries'[i] = entries[popped + i] /\ popped + i \in 1..Len(entries)
      BY <1>2, <1>3
    <3>2. entries[popped + i] = starts[Shift + (popped + i)]
      BY <3>1 DEF TInv, DequeIsSuffix
    <3>3. Shift + (popped + i) = Shift' + i
      BY <1>2, <1>3, <1>4
    <3>4. QED
      BY <3>1, <3>2, <3>3
  <2>2. QED
    BY <2>1, <1>2, <1>3 DEF DequeIsSuffix
<1>6. PoppedExpired'
  <2> SUFFICES ASSUME NEW i \in 1..Shift' PROVE starts[i] + Period <= now
    BY <1>2 DEF PoppedExpired
  <2>1. CASE i <= Shift
    BY <2>1, <1>2, <1>4 DEF TInv, PoppedExpired
  <2>2. CASE i > Shift
    <3> DEFINE j == i - Shift
    <3>1. j \in 1..popped /\ j \in 1..Len(entries) /\ Shift + j = i
      BY <2>2, <1>2, <1>4
    <3>2. entries[j] = starts[i]
      BY <3>1 DEF TInv, DequeIsSuffix
    <3>3. QED
      BY <1>1, <3>1, <3>2 DEF Expired
  <2>3. QED
    BY <2>1, <2>2, <1>4
<1>7. Len(entries') <= Limit
  <2>1. CASE Len(entries) <= Limit
    BY <2>1, <1>2, <1>3
  <2>2. CASE ~(Len(entries) <= Limit)
    <3>1. Len(entries) = Limit + 1 /\ Expired(entries[1])
      BY <2>2, <1>2 DEF TInv, OverfullExpired, Expired
    <3>2. popped > 0
      BY <1>1, <1>2, <3>1
    <3>3. QED
      BY <3>1, <3>2, <1>2, <1>3
  <2>3. QED
    BY <2>1, <2>2
<1>8. OverfullExpired'
  BY <1>2, <1>3, <1>7 DEF OverfullExpired
<1>9. StartsInPast' /\ WindowRespected'
  BY <1>2 DEF TInv, StartsInPast, WindowRespected
<1>10. c \in Callers /\ (\A d \in Callers : pc[d] \notin Inside)
  BY DEF TInv, OneInside, Enter, LockFree, Inside
<1>11. pc' \in [Callers -> {"idle", "queued", "admitting", "sleeping"}]
       /\ (\A d \in Callers : d # c => pc'[d] = pc[d])
  BY <1>1 DEF TInv, TypeOK
<1>12. OneInside'
  BY <1>10, <1>11 DEF OneInside, Inside, Enter
<1>13. InsideKnows' /\ wakeAt' \in [Callers -> 0..(now' + Period)]
  <2>1. CASE Len(entries) - popped >= Limit
    <3>1. pc'[c] = "sleeping" /\ wakeAt' = [wakeAt EXCEPT ![c] = WakeTime(entries[popped + 1])]
      <4>1. /\ pc' = [pc EXCEPT ![c] = "sleeping"]
            /\ wakeAt' = [wakeAt EXCEPT ![c] = WakeTime(entries[popped + 1])]
        BY <1>1, <2>1 DEF WindowFull
      <4>2. QED
        BY <4>1 DEF TInv, TypeOK
    <3>2. Len(entries') = Limit /\ 1 \in 1..Len(entries')
      <4>1. Len(entries') >= Limit /\ Len(entries') \in Nat
        BY <1>2, <1>3, <2>1
      <4>2. QED
        BY <4>1, <1>7
    <3>3. entries'[1] = entries[popped + 1] /\ entries'[1] \in Nat
      BY <1>3, <3>2
    <3>4. entries'[1] <= now
      <4>1. popped + 1 \in 1..Len(entries)
        BY <1>2, <1>3, <3>2
      <4>2. entries[popped + 1] = starts[Shift + (popped + 1)]
        BY <4>1 DEF TInv, DequeIsSuffix
      <4>3. Shift + (popped + 1) \in 1..Len(starts)
        BY <1>2, <1>4, <4>1 DEF Shift
      <4>4. QED
        BY <3>3, <4>2, <4>3 DEF TInv, StartsInPast
    <3>5. entries'[1] + Period \in 0..(now + Period)
      BY <3>3, <3>4, <1>2
    <3>6. wakeAt'[c] = entries'[1] + Period /\ wakeAt' \in [Callers -> 0..(now' + Period)]
      BY <1>2, <3>1, <3>3, <3>5 DEF TInv, TypeOK, WakeTime
    <3>7. QED
      BY <3>1, <3>2, <3>6, <1>10, <1>11 DEF InsideKnows, Inside
  <2>2. CASE ~(Len(entries) - popped >= Limit)
    <3>1. pc'[c] = "admitting" /\ wakeAt' = wakeAt
      <4>1. pc' = [pc EXCEPT ![c] = "admitting"] /\ wakeAt' = wakeAt
        BY <1>1, <2>2 DEF WindowFull
      <4>2. QED
        BY <4>1 DEF TInv, TypeOK
    <3>2. Len(entries') < Limit
      BY <1>2, <1>3, <2>2
    <3>3. QED
      BY <1>2, <3>1, <3>2, <1>10, <1>11 DEF InsideKnows, Inside, TInv, TypeOK
  <2>3. QED
    BY <2>1, <2>2
<1>14. TypeOK'
  <2>1. Tail(line) \in Seq(Callers)
    BY HeadTailProperties DEF TInv, TypeOK, Enter
  <2>2. QED
    BY <2>1, <1>2, <1>3, <1>11, <1>13 DEF TInv, TypeOK, Enter
<1>15. QED
  BY <1>5, <1>6, <1>8, <1>9, <1>12, <1>13, <1>14 DEF TInv

\* The start recorded Limit starts ago is a period old when a caller is
\* admitted: it was popped, or it is the head the caller slept for.
LEMMA AdmitTInv ==
    ASSUME TimerSlack = 0, NEW c \in Callers, TInv, Admit(c) PROVE TInv'
<1> USE ThrottleAssumption
<1> DEFINE n == Len(starts)
           k == Len(entries)
<1>1. /\ starts \in Seq(Nat) /\ entries \in Seq(Nat) /\ now \in Nat
      /\ n \in Nat /\ k \in Nat /\ k <= n
      /\ now' = now /\ line' = line /\ wakeAt' = wakeAt
  BY DEF TInv, TypeOK, DequeIsSuffix, Admit
<1>2. /\ entries' \in Seq(Nat)
      /\ Len(entries') = k + 1
      /\ \A i \in 1..k : entries'[i] = entries[i]
      /\ entries'[k + 1] = now
  BY <1>1, AppendProperties DEF Admit, StartTime
<1>3. /\ starts' \in Seq(Nat)
      /\ Len(starts') = n + 1
      /\ \A i \in 1..n : starts'[i] = starts[i]
      /\ starts'[n + 1] = now
  BY <1>1, AppendProperties DEF Admit
<1> HIDE DEF n, k
<1>4. Shift = n - k /\ Shift' = Shift /\ Shift \in Nat /\ Shift <= n
  BY <1>1, <1>2, <1>3 DEF Shift, n, k
<1>5. \/ k < Limit
      \/ k = Limit /\ entries[1] + Period <= now
  BY <1>1 DEF TInv, TypeOK, InsideKnows, Admit, k
<1>6. DequeIsSuffix'
  <2>1. ASSUME NEW i \in 1..(k + 1) PROVE entries'[i] = starts'[Shift + i]
    <3>1. CASE i = k + 1
      BY <3>1, <1>1, <1>2, <1>3, <1>4
    <3>2. CASE i # k + 1
      <4>1. i \in 1..k /\ Shift + i \in 1..n
        BY <3>2, <1>1, <1>4
      <4>2. entries[i] = starts[Shift + i]
        BY <4>1 DEF TInv, DequeIsSuffix, k
      <4>3. QED
        BY <4>1, <4>2, <1>2, <1>3
    <3>3. QED
      BY <3>1, <3>2
  <2>2. QED
    BY <2>1, <1>1, <1>2, <1>3, <1>4 DEF DequeIsSuffix
<1>7. PoppedExpired'
  <2> SUFFICES ASSUME NEW i \in 1..Shift PROVE starts'[i] + Period <= now
    BY <1>1, <1>4 DEF PoppedExpired
  <2>1. i \in 1..n
    BY <1>1, <1>4
  <2>2. QED
    BY <2>1, <1>3 DEF TInv, PoppedExpired
<1>8. StartsInPast'
  <2> SUFFICES ASSUME NEW i \in 1..(n + 1) PROVE starts'[i] <= now
    BY <1>1, <1>3 DEF StartsInPast
  <2>1. CASE i = n + 1
    BY <2>1, <1>1, <1>3
  <2>2. CASE i # n + 1
    <3>1. i \in 1..n
      BY <2>2, <1>1
    <3>2. QED
      BY <3>1, <1>3 DEF TInv, StartsInPast, n
  <2>3. QED
    BY <2>1, <2>2
<1>9. OverfullExpired'
  <2>1. k = Limit => entries'[1] = entries[1]
    BY <1>1, <1>2
  <2>2. QED
    BY <2>1, <1>1, <1>2, <1>5 DEF OverfullExpired
<1>10. WindowRespected'
  <2> SUFFICES ASSUME NEW i \in 1..(n + 1), i + Limit <= n + 1
               PROVE  starts'[i] + Period <= starts'[i + Limit]
    BY <1>3 DEF WindowRespected
  <2>1. i \in 1..n /\ i + Limit \in 1..(n + 1)
    BY <1>1
  <2>2. CASE i + Limit <= n
    <3>1. i + Limit \in 1..n
      BY <2>1, <2>2
    <3>2. starts[i] + Period <= starts[i + Limit]
      BY <2>1, <2>2 DEF TInv, WindowRespected, n
    <3>3. QED
      BY <2>1, <3>1, <3>2, <1>3
  <2>3. CASE i + Limit = n + 1
    <3>1. starts[i] + Period <= now
      <4>1. CASE k < Limit
        <5>1. i \in 1..Shift
          BY <4>1, <2>1, <2>3, <1>1, <1>4
        <5>2. QED
          BY <5>1 DEF TInv, PoppedExpired
      <4>2. CASE k = Limit /\ entries[1] + Period <= now
        <5>1. 1 \in 1..k /\ i = Shift + 1
          BY <4>2, <2>1, <2>3, <1>1, <1>4
        <5>2. entries[1] = starts[i]
          BY <5>1 DEF TInv, DequeIsSuffix, k
        <5>3. QED
          BY <4>2, <5>2
      <4>3. QED
        BY <1>5, <4>1, <4>2
    <3>2. QED
      BY <2>1, <2>3, <3>1, <1>3
  <2>4. QED
    BY <2>2, <2>3, <2>1, <1>1
<1>11. /\ pc' \in [Callers -> {"idle", "queued", "admitting", "sleeping"}]
       /\ \A d \in Callers : pc'[d] \notin Inside
  BY DEF TInv, TypeOK, OneInside, Admit, Inside
<1>12. TypeOK'
  BY <1>1, <1>2, <1>3, <1>11 DEF TInv, TypeOK, Admit
<1>13. OneInside' /\ InsideKnows'
  BY <1>11 DEF OneInside, InsideKnows, Inside
<1>14. QED
  BY <1>6, <1>7, <1>8, <1>9, <1>10, <1>12, <1>13 DEF TInv

LEMMA NextTInv == ASSUME TimerSlack = 0 PROVE TInv /\ [Next]_vars => TInv'
<1> SUFFICES ASSUME TInv, [Next]_vars PROVE TInv'
  OBVIOUS
<1>1. CASE Tick
  BY <1>1, TickTInv
<1>2. ASSUME NEW c \in Callers, Caller(c) PROVE TInv'
  BY <1>2, CallTInv, EnterTInv, AdmitTInv, CancelTInv DEF Caller
<1>3. CASE UNCHANGED vars
  <2>1. now' \in Nat /\ now <= now' /\ UNCHANGED <<entries, starts>>
    BY <1>3 DEF vars, TInv, TypeOK
  <2>2. TypeOK' /\ OneInside' /\ InsideKnows'
    BY <1>3 DEF vars, TInv, TypeOK, OneInside, InsideKnows
  <2>3. QED
    BY <2>1, <2>2, HistoryKept DEF TInv
<1>4. QED
  BY <1>1, <1>2, <1>3 DEF Next

THEOREM TInvHolds == ASSUME TimerSlack = 0 PROVE Spec => []TInv
BY InitTInv, NextTInv, PTL DEF Spec

\* When no sleep ends early, no period ever sees more than Limit starts.
THEOREM WindowSafety == ASSUME TimerSlack = 0 PROVE Spec => []WindowRespected
<1>1. TInv => WindowRespected
  BY DEF TInv
<1>2. QED
  BY <1>1, TInvHolds, PTL

\* The deque holds at most one entry more than the limit.
THEOREM DequeBound == ASSUME TimerSlack = 0 PROVE Spec => []EntriesBounded
<1>1. TInv => EntriesBounded
  BY DEF TInv, OverfullExpired, EntriesBounded
<1>2. QED
  BY <1>1, TInvHolds, PTL
-----------------------------------------------------------------------------
(* The line for the lock, for every timer slack.                           *)

\* Every caller that waits stands in line, once, and nobody else does.
Lined ==
    /\ \A i \in 1..Len(line) : pc[line[i]] = "queued"
    /\ \A i, j \in 1..Len(line) : line[i] = line[j] => i = j
    /\ \A c \in Callers : pc[c] = "queued" => \E i \in 1..Len(line) : line[i] = c

\* The lock is taken by somebody who is inside.
LockIsHeld == locked => \E c \in Callers : pc[c] \in Inside

EntriesInPast == \A i \in 1..Len(entries) : entries[i] <= now

QInv == TypeOK /\ Lined /\ OneInside /\ LockIsHeld /\ EntriesInPast

LEMMA PlaceFound ==
    ASSUME NEW queue \in Seq(Callers), NEW i \in 1..Len(queue),
           \A k, j \in 1..Len(queue) : queue[k] = queue[j] => k = j
    PROVE  Place(queue, queue[i]) = i
<1>1. DOMAIN queue = 1..Len(queue)
  OBVIOUS
<1>2. Place(queue, queue[i]) \in 1..Len(queue) /\ queue[Place(queue, queue[i])] = queue[i]
  BY <1>1 DEF Place
<1>3. QED
  BY <1>2

\* The line without the caller at a place.
Without(queue, place, rest) ==
    /\ rest \in Seq(Callers)
    /\ Len(rest) = Len(queue) - 1
    /\ \A i \in 1..Len(rest) : rest[i] = IF i < place THEN queue[i] ELSE queue[i + 1]

LEMMA TailWithout ==
    ASSUME NEW queue \in Seq(Callers), queue # <<>>
    PROVE  Without(queue, 1, Tail(queue))
<1>1. /\ Tail(queue) \in Seq(Callers) /\ Len(Tail(queue)) = Len(queue) - 1
      /\ \A i \in 1..Len(Tail(queue)) : Tail(queue)[i] = queue[i + 1]
  BY HeadTailProperties
<1>2. QED
  BY <1>1 DEF Without

LEMMA RemovedWithout ==
    ASSUME NEW queue \in Seq(Callers), NEW place \in 1..Len(queue)
    PROVE  Without(queue, place,
                   SubSeq(queue, 1, place - 1) \o SubSeq(queue, place + 1, Len(queue)))
<1> DEFINE front == SubSeq(queue, 1, place - 1)  back == SubSeq(queue, place + 1, Len(queue))
<1>1. Len(queue) \in Nat /\ place \in Nat /\ 1 <= place /\ place <= Len(queue)
  OBVIOUS
<1>2. /\ front \in Seq(Callers) /\ Len(front) = place - 1
      /\ \A i \in 1..(place - 1) : front[i] = queue[i]
  <2>1. /\ 1 \in Int /\ place - 1 \in Int
        /\ \A i \in 1..(place - 1) : queue[i] \in Callers
    BY <1>1
  <2>2. /\ front \in Seq(Callers)
        /\ Len(front) = IF 1 <= place - 1 THEN (place - 1) - 1 + 1 ELSE 0
        /\ \A i \in 1..((place - 1) - 1 + 1) : front[i] = queue[1 + i - 1]
    BY <2>1, SubSeqProperties
  <2> HIDE DEF front
  <2>3. (place - 1) - 1 + 1 = place - 1 /\ \A i \in 1..(place - 1) : 1 + i - 1 = i
    BY <1>1
  <2>4. QED
    BY <1>1, <2>2, <2>3
<1>3. /\ back \in Seq(Callers) /\ Len(back) = Len(queue) - place
      /\ \A i \in 1..(Len(queue) - place) : back[i] = queue[place + i]
  <2>1. /\ place + 1 \in Int /\ Len(queue) \in Int
        /\ \A i \in (place + 1)..Len(queue) : queue[i] \in Callers
    BY <1>1
  <2>2. /\ back \in Seq(Callers)
        /\ Len(back) = IF place + 1 <= Len(queue) THEN Len(queue) - (place + 1) + 1 ELSE 0
        /\ \A i \in 1..(Len(queue) - (place + 1) + 1) : back[i] = queue[place + 1 + i - 1]
    BY <2>1, SubSeqProperties
  <2> HIDE DEF back
  <2>3. /\ Len(queue) - (place + 1) + 1 = Len(queue) - place
        /\ \A i \in 1..(Len(queue) - place) : place + 1 + i - 1 = place + i
    BY <1>1
  <2>4. Len(back) = Len(queue) - place
    <3>1. CASE place + 1 <= Len(queue)
      BY <2>2, <2>3, <3>1
    <3>2. CASE ~(place + 1 <= Len(queue))
      <4>1. Len(back) = 0
        BY <2>2, <3>2
      <4>2. Len(queue) - place = 0
        BY <1>1, <3>2
      <4>3. QED
        BY <4>1, <4>2
    <3>3. QED
      BY <3>1, <3>2
  <2>5. \A i \in 1..(Len(queue) - place) : back[i] = queue[place + 1 + i - 1]
    BY <2>2, <2>3
  <2>6. QED
    BY <2>2, <2>3, <2>4, <2>5
<1> HIDE DEF front, back
<1>4. /\ front \o back \in Seq(Callers) /\ Len(front \o back) = Len(front) + Len(back)
      /\ \A i \in 1..(Len(front) + Len(back)) :
            (front \o back)[i] = IF i <= Len(front) THEN front[i] ELSE back[i - Len(front)]
  BY <1>2, <1>3, ConcatProperties
<1>5. ASSUME NEW i \in 1..(Len(queue) - 1)
      PROVE  (front \o back)[i] = IF i < place THEN queue[i] ELSE queue[i + 1]
  <2>1. CASE i < place
    BY <1>1, <1>2, <1>3, <1>4, <2>1
  <2>2. CASE ~(i < place)
    <3>1. i - (place - 1) \in 1..(Len(queue) - place) /\ place + (i - (place - 1)) = i + 1
      BY <1>1, <2>2
    <3>2. (front \o back)[i] = back[i - (place - 1)]
      BY <1>1, <1>2, <1>3, <1>4, <2>2
    <3>3. QED
      BY <1>3, <2>2, <3>1, <3>2
  <2>3. QED
    BY <2>1, <2>2
<1>6. Len(front \o back) = Len(queue) - 1
  BY <1>1, <1>2, <1>3, <1>4
<1>7. Without(queue, place, front \o back)
  BY <1>4, <1>5, <1>6 DEF Without
<1>8. QED
  BY <1>7 DEF front, back

\* One caller leaves the line: those behind it move up by one place.
LEMMA LineShrinks ==
    ASSUME QInv, NEW place \in 1..Len(line), Without(line, place, line'),
           NEW where \in {"idle", "admitting", "sleeping"},
           pc' = [pc EXCEPT ![line[place]] = where]
    PROVE  /\ Lined'
           /\ \A c \in Callers : pc'[c] = "queued" =>
                /\ Place(line, c) \in 1..Len(line)
                /\ Place(line', c) = IF Place(line, c) < place THEN Place(line, c)
                                     ELSE Place(line, c) - 1
<1>1. /\ line \in Seq(Callers) /\ Len(line) \in Nat /\ line[place] \in Callers
      /\ \A c \in Callers : pc'[c] = IF c = line[place] THEN where ELSE pc[c]
  BY DEF QInv, TypeOK
<1>2. /\ line' \in Seq(Callers) /\ Len(line') = Len(line) - 1
      /\ \A i \in 1..Len(line') : line'[i] = IF i < place THEN line[i] ELSE line[i + 1]
  BY DEF Without
<1>3. /\ \A i \in 1..Len(line) : line[i] \in Callers /\ pc[line[i]] = "queued"
      /\ \A i, j \in 1..Len(line) : line[i] = line[j] => i = j
      /\ \A c \in Callers : pc[c] = "queued" => \E i \in 1..Len(line) : line[i] = c
  BY <1>1 DEF QInv, Lined
<1>4. \A i \in 1..Len(line') : \E k \in 1..Len(line) :
          k # place /\ line'[i] = line[k] /\ k = IF i < place THEN i ELSE i + 1
  BY <1>1, <1>2
<1>5. \A i \in 1..Len(line') : pc'[line'[i]] = "queued"
  <2> SUFFICES ASSUME NEW i \in 1..Len(line') PROVE pc'[line'[i]] = "queued"
    OBVIOUS
  <2>1. PICK k \in 1..Len(line) : k # place /\ line'[i] = line[k]
    BY <1>4
  <2>2. line[k] # line[place]
    BY <1>3, <2>1
  <2>3. QED
    BY <1>1, <1>3, <2>1, <2>2
<1>6. \A i, j \in 1..Len(line') : line'[i] = line'[j] => i = j
  <2> SUFFICES ASSUME NEW i \in 1..Len(line'), NEW j \in 1..Len(line'), line'[i] = line'[j]
               PROVE  i = j
    OBVIOUS
  <2>1. PICK k \in 1..Len(line) : line'[i] = line[k] /\ k = IF i < place THEN i ELSE i + 1
    BY <1>4
  <2>2. PICK l \in 1..Len(line) : line'[j] = line[l] /\ l = IF j < place THEN j ELSE j + 1
    BY <1>4
  <2>3. k = l
    <3>1. line[k] = line[l]
      BY <2>1, <2>2
    <3>2. QED
      BY <1>3, <3>1
  <2>4. QED
    BY <1>1, <1>2, <2>1, <2>2, <2>3
<1>7. ASSUME NEW c \in Callers, pc'[c] = "queued"
      PROVE  \E i \in 1..Len(line), k \in 1..Len(line') :
                /\ line[i] = c /\ line'[k] = c
                /\ k = IF i < place THEN i ELSE i - 1
  <2>1. pc[c] = "queued" /\ c # line[place]
    BY <1>1, <1>7
  <2>2. PICK i \in 1..Len(line) : line[i] = c
    BY <1>3, <2>1
  <2>3. i # place
    BY <2>1, <2>2
  <2>4. CASE i < place
    <3>1. i \in 1..Len(line')
      BY <1>1, <1>2, <2>4
    <3>2. QED
      BY <1>2, <2>2, <2>4, <3>1
  <2>5. CASE i > place
    <3>1. i - 1 \in 1..Len(line') /\ ~(i - 1 < place) /\ (i - 1) + 1 = i /\ ~(i < place)
      BY <1>1, <1>2, <2>5
    <3>2. line'[i - 1] = c
      BY <1>2, <2>2, <3>1
    <3>3. QED
      BY <2>2, <3>1, <3>2
  <2>6. QED
    BY <2>3, <2>4, <2>5
<1>8. Lined'
  BY <1>5, <1>6, <1>7 DEF Lined
<1>9. ASSUME NEW c \in Callers, pc'[c] = "queued"
      PROVE  /\ Place(line, c) \in 1..Len(line)
             /\ Place(line', c) = IF Place(line, c) < place THEN Place(line, c)
                                  ELSE Place(line, c) - 1
  <2>1. PICK i \in 1..Len(line), k \in 1..Len(line') :
            line[i] = c /\ line'[k] = c /\ k = IF i < place THEN i ELSE i - 1
    BY <1>7, <1>9
  <2>2. Place(line, line[i]) = i
    BY <1>1, <1>3, PlaceFound
  <2>3. Place(line', line'[k]) = k
    BY <1>2, <1>6, PlaceFound
  <2>4. QED
    BY <2>1, <2>2, <2>3
<1>10. QED
  BY <1>8, <1>9

\* The step of a caller that calls leaves the others where they are.
LEMMA LineGrows ==
    ASSUME QInv, NEW c \in Callers, Call(c)
    PROVE  /\ Lined' /\ line' \in Seq(Callers)
           /\ \A d \in Callers : pc[d] = "queued" => Place(line', d) = Place(line, d)
<1>1. /\ line \in Seq(Callers) /\ Len(line) \in Nat /\ line' = Append(line, c)
      /\ pc[c] = "idle" /\ pc' = [pc EXCEPT ![c] = "queued"]
  BY DEF QInv, TypeOK, Call
<1>2. /\ line' \in Seq(Callers) /\ Len(line') = Len(line) + 1 /\ line'[Len(line) + 1] = c
      /\ \A i \in 1..Len(line) : line'[i] = line[i]
  BY <1>1, AppendProperties
<1>3. \A d \in Callers : pc'[d] = IF d = c THEN "queued" ELSE pc[d]
  BY <1>1 DEF QInv, TypeOK
<1>4. /\ \A i \in 1..Len(line) : line[i] \in Callers /\ pc[line[i]] = "queued"
      /\ \A i, j \in 1..Len(line) : line[i] = line[j] => i = j
      /\ \A d \in Callers : pc[d] = "queued" => \E i \in 1..Len(line) : line[i] = d
  BY <1>1 DEF QInv, Lined
<1>5. \A i \in 1..Len(line') : i \in 1..Len(line) \/ i = Len(line) + 1
  BY <1>1, <1>2
<1>6. \A i, j \in 1..Len(line') : line'[i] = line'[j] => i = j
  BY <1>1, <1>2, <1>4, <1>5
<1>7. Lined'
  <2>1. \A i \in 1..Len(line') : pc'[line'[i]] = "queued"
    BY <1>2, <1>3, <1>4, <1>5
  <2>2. \A d \in Callers : pc'[d] = "queued" => \E i \in 1..Len(line') : line'[i] = d
    <3> SUFFICES ASSUME NEW d \in Callers, pc'[d] = "queued"
                 PROVE  \E i \in 1..Len(line') : line'[i] = d
      OBVIOUS
    <3>1. CASE d = c
      BY <1>1, <1>2, <3>1
    <3>2. CASE d # c
      <4>1. PICK i \in 1..Len(line) : line[i] = d
        BY <1>3, <1>4, <3>2
      <4>2. i \in 1..Len(line') /\ line'[i] = d
        BY <1>1, <1>2, <4>1
      <4>3. QED
        BY <4>2
    <3>3. QED
      BY <3>1, <3>2
  <2>3. QED
    BY <1>6, <2>1, <2>2 DEF Lined
<1>8. ASSUME NEW d \in Callers, pc[d] = "queued" PROVE Place(line', d) = Place(line, d)
  <2>1. PICK i \in 1..Len(line) : line[i] = d
    BY <1>4, <1>8
  <2>2. i \in 1..Len(line') /\ line'[i] = d
    BY <1>1, <1>2, <2>1
  <2>3. Place(line, line[i]) = i /\ Place(line', line'[i]) = i
    BY <1>1, <1>2, <1>4, <1>6, <2>2, PlaceFound
  <2>4. QED
    BY <2>1, <2>2, <2>3
<1>9. QED
  BY <1>2, <1>7, <1>8

\* Entering the lock, seen from the line.
LEMMA EnterLine ==
    ASSUME QInv, NEW c \in Callers, Enter(c)
    PROVE  /\ ~locked /\ locked' /\ line # <<>> /\ c = line[1]
           /\ \E where \in {"admitting", "sleeping"} : pc' = [pc EXCEPT ![c] = where]
           /\ Without(line, 1, line') /\ 1 \in 1..Len(line)
           /\ entries' \in Seq(Nat) /\ EntriesInPast'
           /\ wakeAt' \in [Callers -> 0..(now + Period)]
           /\ UNCHANGED <<now, starts>>
<1> USE ThrottleAssumption
<1>1. /\ line \in Seq(Callers) /\ entries \in Seq(Nat) /\ now \in Nat
      /\ \A i \in 1..Len(entries) : entries[i] <= now
      /\ wakeAt \in [Callers -> 0..(now + Period)]
  BY DEF QInv, TypeOK, EntriesInPast
<1>2. /\ ~locked /\ locked' /\ line # <<>> /\ c = Head(line) /\ line' = Tail(line)
      /\ UNCHANGED <<now, starts>>
  BY DEF Enter, LockFree
<1>3. Head(line) = line[1] /\ 1 \in 1..Len(line) /\ Without(line, 1, line')
  BY <1>1, <1>2, TailWithout
<1>4. PICK popped \in 0..Len(entries) :
        /\ entries' = SubSeq(entries, popped + 1, Len(entries))
        /\ IF WindowFull(Len(entries) - popped)
           THEN /\ pc' = [pc EXCEPT ![c] = "sleeping"]
                /\ wakeAt' = [wakeAt EXCEPT ![c] = WakeTime(entries[popped + 1])]
           ELSE pc' = [pc EXCEPT ![c] = "admitting"] /\ UNCHANGED wakeAt
  BY DEF Enter
<1>5. entries' \in Seq(Nat) /\ EntriesInPast'
  <2>1. Len(entries) \in Nat /\ popped \in Nat /\ popped <= Len(entries)
    BY <1>1
  <2>2. /\ popped + 1 \in Int /\ Len(entries) \in Int
        /\ \A i \in (popped + 1)..Len(entries) : entries[i] \in Nat
    BY <1>1, <2>1
  <2>3. /\ entries' \in Seq(Nat)
        /\ Len(entries') = IF popped + 1 <= Len(entries)
                           THEN Len(entries) - (popped + 1) + 1 ELSE 0
        /\ \A i \in 1..(Len(entries) - (popped + 1) + 1) : entries'[i] = entries[popped + 1 + i - 1]
    BY <1>4, <2>2, SubSeqProperties
  <2>4. ASSUME NEW i \in 1..Len(entries') PROVE entries'[i] <= now'
    <3>1. popped + 1 <= Len(entries)
      BY <2>1, <2>3
    <3>2. i \in 1..(Len(entries) - (popped + 1) + 1) /\ popped + 1 + i - 1 \in 1..Len(entries)
      BY <2>1, <2>3, <3>1
    <3>3. QED
      BY <1>1, <1>2, <2>3, <3>2
  <2>5. QED
    BY <2>3, <2>4 DEF EntriesInPast
<1>6. wakeAt' \in [Callers -> 0..(now + Period)]
  <2>1. CASE WindowFull(Len(entries) - popped)
    <3>1. Len(entries) - popped >= 1 /\ popped + 1 \in 1..Len(entries)
      BY <1>1, <2>1 DEF WindowFull
    <3>2. WakeTime(entries[popped + 1]) \in 0..(now + Period)
      BY <1>1, <3>1 DEF WakeTime
    <3>3. QED
      BY <1>1, <1>4, <2>1, <3>2
  <2>2. CASE ~WindowFull(Len(entries) - popped)
    BY <1>1, <1>4, <2>2
  <2>3. QED
    BY <2>1, <2>2
<1>7. \E where \in {"admitting", "sleeping"} : pc' = [pc EXCEPT ![c] = where]
  BY <1>4
<1>8. QED
  BY <1>2, <1>3, <1>5, <1>6, <1>7

\* Giving up a place, seen from the line.
LEMMA CancelLine ==
    ASSUME QInv, NEW c \in Callers, CancelQueued(c)
    PROVE  \E place \in 1..Len(line) : line[place] = c /\ Without(line, place, line')
<1>1. line \in Seq(Callers) /\ DOMAIN line = 1..Len(line)
  BY DEF QInv, TypeOK
<1>2. PICK place \in 1..Len(line) :
        /\ line[place] = c
        /\ line' = SubSeq(line, 1, place - 1) \o SubSeq(line, place + 1, Len(line))
  BY <1>1 DEF CancelQueued
<1>3. QED
  BY <1>1, <1>2, RemovedWithout

\* Leaving the lock, with an entry or without.
LEMMA LeaveLock ==
    ASSUME QInv, NEW c \in Callers, Admit(c) \/ CancelSleep(c)
    PROVE  /\ pc[c] \in Inside /\ locked /\ ~locked' /\ pc' = [pc EXCEPT ![c] = "idle"]
           /\ \A d \in Callers : pc'[d] \notin Inside
           /\ UNCHANGED <<now, line, wakeAt>>
<1>1. /\ pc[c] \in Inside /\ ~locked' /\ pc' = [pc EXCEPT ![c] = "idle"]
      /\ UNCHANGED <<now, line, wakeAt>>
  BY DEF Admit, CancelSleep, Inside
<1>2. \A d \in Callers : pc'[d] = IF d = c THEN "idle" ELSE pc[d]
  BY <1>1 DEF QInv, TypeOK
<1>3. locked /\ \A d \in Callers : pc[d] \in Inside => d = c
  BY <1>1 DEF QInv, OneInside, Inside
<1>4. QED
  BY <1>1, <1>2, <1>3 DEF Inside

LEMMA QInvStep == QInv /\ [Next]_vars => QInv'
<1> SUFFICES ASSUME QInv, [Next]_vars PROVE QInv'
  OBVIOUS
<1> USE ThrottleAssumption
<1>1. CASE Tick
  <2>1. now' = now + 1 /\ UNCHANGED <<entries, locked, line, pc, wakeAt, starts>> /\ now \in Nat
    BY <1>1 DEF Tick, QInv, TypeOK
  <2>2. wakeAt \in [Callers -> 0..(now' + Period)]
    <3>1. \A c \in Callers : wakeAt[c] \in 0..(now' + Period)
      BY <2>1 DEF QInv, TypeOK
    <3>2. QED
      BY <3>1 DEF QInv, TypeOK
  <2>3. EntriesInPast'
    <3>1. entries \in Seq(Nat) /\ \A i \in 1..Len(entries) : entries[i] \in Nat /\ entries[i] <= now
      BY DEF QInv, TypeOK, EntriesInPast
    <3>2. QED
      BY <2>1, <3>1 DEF EntriesInPast
  <2>4. QED
    BY <2>1, <2>2, <2>3 DEF QInv, TypeOK, Lined, OneInside, LockIsHeld
<1>2. ASSUME NEW c \in Callers, Call(c) PROVE QInv'
  <2>1. /\ pc[c] = "idle" /\ pc' = [pc EXCEPT ![c] = "queued"]
        /\ UNCHANGED <<now, entries, locked, wakeAt, starts>>
    BY <1>2 DEF Call
  <2>2. Lined' /\ line' \in Seq(Callers)
    BY <1>2, LineGrows
  <2>3. TypeOK' /\ EntriesInPast'
    BY <2>1, <2>2 DEF QInv, TypeOK, EntriesInPast
  <2>4. OneInside' /\ LockIsHeld'
    BY <2>1 DEF QInv, TypeOK, OneInside, LockIsHeld, Inside
  <2>5. QED
    BY <2>2, <2>3, <2>4 DEF QInv
<1>3. ASSUME NEW c \in Callers, Enter(c) PROVE QInv'
  <2>1. /\ ~locked /\ locked' /\ c = line[1] /\ Without(line, 1, line') /\ 1 \in 1..Len(line)
        /\ entries' \in Seq(Nat) /\ EntriesInPast'
        /\ wakeAt' \in [Callers -> 0..(now + Period)] /\ UNCHANGED <<now, starts>>
    BY <1>3, EnterLine
  <2>2. PICK where \in {"admitting", "sleeping"} : pc' = [pc EXCEPT ![c] = where]
    BY <1>3, EnterLine
  <2>3. Lined'
    BY <2>1, <2>2, LineShrinks
  <2>4. TypeOK'
    <3>1. line' \in Seq(Callers) /\ locked' \in BOOLEAN
      BY <1>3, <2>1 DEF Without, Enter
    <3>2. QED
      BY <2>1, <2>2, <3>1 DEF QInv, TypeOK
  <2>5. OneInside' /\ LockIsHeld'
    <3>1. \A d \in Callers : pc[d] \notin Inside
      BY <2>1 DEF QInv, OneInside, Inside
    <3>2. \A d \in Callers : pc'[d] = IF d = c THEN where ELSE pc[d]
      BY <2>2 DEF QInv, TypeOK
    <3>3. QED
      BY <2>1, <3>1, <3>2 DEF OneInside, LockIsHeld, Inside
  <2>6. QED
    BY <2>1, <2>3, <2>4, <2>5 DEF QInv
<1>4. ASSUME NEW c \in Callers, Admit(c) \/ CancelSleep(c) PROVE QInv'
  <2>1. /\ pc[c] \in Inside /\ locked /\ ~locked' /\ pc' = [pc EXCEPT ![c] = "idle"]
        /\ \A d \in Callers : pc'[d] \notin Inside
        /\ UNCHANGED <<now, line, wakeAt>>
    BY <1>4, LeaveLock
  <2>2. \A d \in Callers : pc'[d] = IF d = c THEN "idle" ELSE pc[d]
    BY <2>1 DEF QInv, TypeOK
  <2>3. Lined'
    <3>1. \A i \in 1..Len(line) : line[i] # c /\ line[i] \in Callers
      BY <2>1 DEF QInv, Lined, TypeOK, Inside
    <3>2. QED
      BY <2>1, <2>2, <3>1 DEF QInv, Lined
  <2>4. OneInside' /\ LockIsHeld'
    BY <2>1 DEF OneInside, LockIsHeld, Inside
  <2>5. /\ entries' \in Seq(Nat) /\ EntriesInPast' /\ starts' \in Seq(Nat)
        /\ locked' \in BOOLEAN
    <3>1. CASE CancelSleep(c)
      BY <2>1, <3>1 DEF CancelSleep, QInv, TypeOK, EntriesInPast
    <3>2. CASE Admit(c)
      <4>1. /\ entries' = Append(entries, now) /\ starts' = Append(starts, now)
            /\ entries \in Seq(Nat) /\ starts \in Seq(Nat) /\ now \in Nat
            /\ \A i \in 1..Len(entries) : entries[i] <= now
            /\ locked' = FALSE
        BY <3>2 DEF Admit, StartTime, QInv, TypeOK, EntriesInPast
      <4>2. /\ entries' \in Seq(Nat) /\ Len(entries') = Len(entries) + 1
            /\ \A i \in 1..Len(entries) : entries'[i] = entries[i]
            /\ entries'[Len(entries) + 1] = now
            /\ starts' \in Seq(Nat)
        BY <4>1, AppendProperties
      <4>3. \A i \in 1..Len(entries') : i \in 1..Len(entries) \/ i = Len(entries) + 1
        BY <4>1, <4>2
      <4>4. \A i \in 1..Len(entries') : entries'[i] <= now
        BY <4>1, <4>2, <4>3
      <4>5. QED
        BY <2>1, <4>1, <4>2, <4>4 DEF EntriesInPast
    <3>3. QED
      BY <1>4, <3>1, <3>2
  <2>6. TypeOK'
    BY <2>1, <2>5 DEF QInv, TypeOK
  <2>7. QED
    BY <2>3, <2>4, <2>5, <2>6 DEF QInv
<1>5. ASSUME NEW c \in Callers, CancelQueued(c) PROVE QInv'
  <2>1. /\ pc[c] = "queued" /\ pc' = [pc EXCEPT ![c] = "idle"]
        /\ UNCHANGED <<now, entries, locked, wakeAt, starts>>
    BY <1>5 DEF CancelQueued
  <2>2. PICK place \in 1..Len(line) : line[place] = c /\ Without(line, place, line')
    BY <1>5, CancelLine
  <2>3. Lined' /\ line' \in Seq(Callers)
    BY <2>1, <2>2, LineShrinks DEF Without
  <2>4. TypeOK' /\ EntriesInPast'
    BY <2>1, <2>3 DEF QInv, TypeOK, EntriesInPast
  <2>5. OneInside' /\ LockIsHeld'
    BY <2>1 DEF QInv, TypeOK, OneInside, LockIsHeld, Inside
  <2>6. QED
    BY <2>3, <2>4, <2>5 DEF QInv
<1>6. CASE UNCHANGED vars
  BY <1>6 DEF vars, QInv, TypeOK, Lined, OneInside, LockIsHeld, EntriesInPast
<1>7. QED
  BY <1>1, <1>2, <1>3, <1>4, <1>5, <1>6 DEF Next, Caller

THEOREM LineInvariance == Spec => []QInv
<1>1. Init => QInv
  <2> SUFFICES ASSUME Init PROVE QInv
    OBVIOUS
  <2>1. TypeOK
    BY InitTInv DEF TInv
  <2>2. Len(line) = 0 /\ Len(entries) = 0
    BY DEF Init
  <2>3. Lined /\ EntriesInPast
    BY <2>2 DEF Init, Lined, EntriesInPast
  <2>4. QED
    BY <2>1, <2>3 DEF Init, QInv, OneInside, LockIsHeld
<1>2. QED
  BY <1>1, QInvStep, PTL DEF Spec

\* What NoSetback says of one caller.
NotSetBack(c) ==
    \/ Turns(c)' < Turns(c)
    \/ /\ Turns(c)' = Turns(c)
       /\ locked' = locked
       /\ now <= now'
       /\ \A d \in Callers : pc[d] \in {"admitting", "sleeping"} =>
            pc'[d] = pc[d] /\ wakeAt'[d] = wakeAt[d]

LEMMA TurnsTyped ==
    ASSUME QInv, NEW c \in Callers, pc[c] = "queued"
    PROVE  Place(line, c) \in 1..Len(line)
<1>1. line \in Seq(Callers)
  BY DEF QInv, TypeOK
<1>2. PICK i \in 1..Len(line) : line[i] = c
  BY DEF QInv, Lined
<1>3. Place(line, line[i]) = i
  BY <1>1, PlaceFound DEF QInv, Lined
<1>4. QED
  BY <1>2, <1>3

LEMMA NobodySetBack ==
    ASSUME QInv, Next, NEW c \in Callers, pc[c] = "queued", pc'[c] = "queued"
    PROVE  NotSetBack(c)
<1>1. PICK place \in Nat \ {0} : place = Place(line, c)
  BY TurnsTyped DEF QInv, TypeOK
<1>2. Turns(c) = 2 * place + (IF locked THEN 1 ELSE 0)
  BY <1>1 DEF Turns
<1>3. Turns(c)' = 2 * Place(line', c) + (IF locked' THEN 1 ELSE 0)
  BY DEF Turns
<1>4. now \in Nat
  BY DEF QInv, TypeOK
<1>5. CASE Tick
  BY <1>1, <1>2, <1>3, <1>4, <1>5 DEF Tick, NotSetBack
<1>6. ASSUME NEW d \in Callers, Call(d) PROVE NotSetBack(c)
  <2>1. Place(line', c) = place
    BY <1>1, <1>6, LineGrows
  <2>2. /\ pc[d] = "idle" /\ pc' = [pc EXCEPT ![d] = "queued"] /\ UNCHANGED <<now, locked, wakeAt>>
    BY <1>6 DEF Call
  <2>3. \A e \in Callers : pc[e] \in {"admitting", "sleeping"} => pc'[e] = pc[e]
    BY <2>2 DEF QInv, TypeOK
  <2>4. QED
    BY <1>2, <1>3, <1>4, <2>1, <2>2, <2>3 DEF NotSetBack
<1>7. ASSUME NEW d \in Callers, Enter(d) PROVE NotSetBack(c)
  <2>1. ~locked /\ locked' /\ d = line[1] /\ Without(line, 1, line') /\ 1 \in 1..Len(line)
    BY <1>7, EnterLine
  <2>2. PICK where \in {"admitting", "sleeping"} : pc' = [pc EXCEPT ![d] = where]
    BY <1>7, EnterLine
  <2>3. Place(line', c) = IF place < 1 THEN place ELSE place - 1
    BY <1>1, <2>1, <2>2, LineShrinks
  <2>4. Turns(c)' = 2 * (place - 1) + 1 /\ Turns(c) = 2 * place
    BY <1>1, <1>2, <1>3, <2>1, <2>3
  <2>5. QED
    BY <1>1, <2>4 DEF NotSetBack
<1>8. ASSUME NEW d \in Callers, Admit(d) \/ CancelSleep(d) PROVE NotSetBack(c)
  <2>1. locked /\ ~locked' /\ line' = line
    BY <1>8, LeaveLock
  <2>2. Turns(c)' = 2 * place /\ Turns(c) = 2 * place + 1
    BY <1>1, <1>2, <1>3, <2>1
  <2>3. QED
    BY <1>1, <2>2 DEF NotSetBack
<1>9. ASSUME NEW d \in Callers, CancelQueued(d) PROVE NotSetBack(c)
  <2>1. /\ pc[d] = "queued" /\ pc' = [pc EXCEPT ![d] = "idle"]
        /\ UNCHANGED <<now, locked, wakeAt>>
    BY <1>9 DEF CancelQueued
  <2>2. PICK gone \in 1..Len(line) : line[gone] = d /\ Without(line, gone, line')
    BY <1>9, CancelLine
  <2>3. Place(line', c) = IF place < gone THEN place ELSE place - 1
    BY <1>1, <2>1, <2>2, LineShrinks
  <2>4. \A e \in Callers : pc[e] \in {"admitting", "sleeping"} => pc'[e] = pc[e]
    BY <2>1 DEF QInv, TypeOK
  <2>5. PICK taken \in {0, 1} : taken = IF locked THEN 1 ELSE 0
    OBVIOUS
  <2>6. Turns(c) = 2 * place + taken /\ Turns(c)' = 2 * Place(line', c) + taken
    BY <1>2, <1>3, <2>1, <2>5
  <2>7. QED
    BY <1>1, <1>4, <2>1, <2>3, <2>4, <2>6 DEF NotSetBack
<1>10. QED
  BY <1>5, <1>6, <1>7, <1>8, <1>9 DEF Next, Caller

\* Callers pass first come, first served: whoever calls, gives up or is
\* interrupted, no caller in line is ever further from the lock than before, and
\* each time the lock is taken or given back it is nearer.
THEOREM NobodyIsSetBack == Spec => NoSetback
<1>1. QInv /\ [Next]_vars =>
        [\A c \in Callers : pc[c] = "queued" /\ pc'[c] = "queued" =>
            \/ Turns(c)' < Turns(c)
            \/ /\ Turns(c)' = Turns(c)
               /\ locked' = locked
               /\ now <= now'
               /\ \A d \in Callers : pc[d] \in {"admitting", "sleeping"} =>
                    pc'[d] = pc[d] /\ wakeAt'[d] = wakeAt[d]]_vars
  BY NobodySetBack DEF NotSetBack
<1>2. QED
  BY <1>1, LineInvariance, PTL DEF Spec, NoSetback

\* The line is never stuck: its first caller can take the lock, or one is inside
\* that can go on now or once it slept for another period at most.
THEOREM LineMovesOnHolds == Spec => []LineMovesOn
<1>1. QInv => LineMovesOn
  <2> SUFFICES ASSUME QInv, NEW c \in Callers, pc[c] = "queued"
               PROVE  \/ ~locked /\ line # <<>> /\ pc[Head(line)] = "queued"
                      \/ \E d \in Callers : pc[d] = "admitting"
                      \/ \E d \in Callers : pc[d] = "sleeping" /\ wakeAt[d] <= now + Period
    BY DEF LineMovesOn
  <2>1. CASE locked
    <3>1. PICK d \in Callers : pc[d] \in Inside
      BY <2>1 DEF QInv, LockIsHeld
    <3>2. wakeAt[d] <= now + Period
      BY ThrottleAssumption DEF QInv, TypeOK
    <3>3. QED
      BY <3>1, <3>2 DEF Inside
  <2>2. CASE ~locked
    <3>1. PICK i \in 1..Len(line) : line[i] = c
      BY DEF QInv, Lined
    <3>2. line \in Seq(Callers) /\ line # <<>> /\ 1 \in 1..Len(line) /\ Head(line) = line[1]
      BY <3>1 DEF QInv, TypeOK
    <3>3. QED
      BY <2>2, <3>2 DEF QInv, Lined
  <2>3. QED
    BY <2>1, <2>2
<1>2. QED
  BY <1>1, LineInvariance, PTL
=============================================================================
