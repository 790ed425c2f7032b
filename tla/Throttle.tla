------------------------------ MODULE Throttle ------------------------------
(***************************************************************************)
(* haiway.helpers.throttling.throttle: callers of one throttled coroutine  *)
(* pass one by one through an asyncio.Lock; the caller inside the lock     *)
(* drops expired entries, sleeps while the window is full, and records the *)
(* moment at which it lets the wrapped function run.                       *)
(*                                                                         *)
(* Time is a counter read by monotonic().  TimerSlack is how much earlier  *)
(* than requested the event loop may end a sleep: asyncio runs a timer     *)
(* that is due within its clock resolution.                                *)
(***************************************************************************)
EXTENDS Integers, Sequences, FiniteSets

CONSTANTS
    Callers,      \* tasks that call the throttled function
    Limit,        \* calls allowed per period
    Period,       \* length of the window
    TimerSlack,   \* how early a sleep may end
    MaxCalls,     \* bound: most calls that are started or in progress
    LastCall,     \* bound: no call is made later than this
    MaxTime       \* bound: later than this the clock only moves to end a sleep

ASSUME ThrottleAssumption ==
    /\ Limit \in Nat \ {0}
    /\ Period \in Nat
    /\ TimerSlack \in Nat
    /\ MaxCalls \in Nat
    /\ LastCall \in Nat
    /\ MaxTime \in Nat

VARIABLES
    now,       \* monotonic()
    entries,   \* the deque of start times
    locked,    \* the lock is taken
    line,      \* callers waiting for the lock, first come first served
    pc,        \* where each caller is
    wakeAt,    \* when the sleep of each caller is due
    starts     \* history: every time recorded as a start, in order

vars == <<now, entries, locked, line, pc, wakeAt, starts>>

TypeOK ==
    /\ now \in Nat
    /\ entries \in Seq(Nat)
    /\ locked \in BOOLEAN
    /\ line \in Seq(Callers)
    /\ pc \in [Callers -> {"idle", "queued", "admitting", "sleeping"}]
    /\ wakeAt \in [Callers -> 0..(now + Period)]
    /\ starts \in Seq(Nat)

Init ==
    /\ now = 0
    /\ entries = <<>>
    /\ locked = FALSE
    /\ line = <<>>
    /\ pc = [c \in Callers |-> "idle"]
    /\ wakeAt = [c \in Callers |-> 0]
    /\ starts = <<>>

Active == {c \in Callers : pc[c] # "idle"}
-----------------------------------------------------------------------------
Tick ==
    /\ now < MaxTime \/ \E c \in Callers : pc[c] = "sleeping" /\ now < wakeAt[c]
    /\ now' = now + 1
    /\ UNCHANGED <<entries, locked, line, pc, wakeAt, starts>>

\* The caller reaches `async with lock`.
Call(c) ==
    /\ pc[c] = "idle"
    /\ now <= LastCall
    /\ Len(starts) + Cardinality(Active) < MaxCalls
    /\ pc' = [pc EXCEPT ![c] = "queued"]
    /\ line' = Append(line, c)
    /\ UNCHANGED <<now, entries, locked, wakeAt, starts>>

Expired(entry) == entry + Period <= now

WindowFull(live) == live >= Limit

LockFree == ~locked

\* When a sleep that waits for an entry to expire is due.
WakeTime(entry) == entry + Period

\* The first caller in line takes the free lock.  It pops the leading expired
\* entries, and when the window is still full it sleeps until the oldest
\* remaining entry is a period old.
Enter(c) ==
    /\ LockFree
    /\ line # <<>>
    /\ c = Head(line)
    /\ locked' = TRUE
    /\ line' = Tail(line)
    /\ \E popped \in 0..Len(entries) :
        /\ \A i \in 1..popped : Expired(entries[i])
        /\ popped < Len(entries) => ~Expired(entries[popped + 1])
        /\ entries' = SubSeq(entries, popped + 1, Len(entries))
        /\ IF WindowFull(Len(entries) - popped)
           THEN /\ pc' = [pc EXCEPT ![c] = "sleeping"]
                /\ wakeAt' = [wakeAt EXCEPT ![c] = WakeTime(entries[popped + 1])]
           ELSE pc' = [pc EXCEPT ![c] = "admitting"] /\ UNCHANGED wakeAt
    /\ UNCHANGED <<now, starts>>

\* Mutant: the entry keeps the time read before the sleep.
StartTime_BeforeSleep(c) ==
    IF pc[c] = "sleeping" THEN entries[Len(entries)] ELSE now

\* The clock is read again when the entry is appended.
StartTime(c) == now

\* The caller appends its entry, leaves the lock and runs the function.
Admit(c) ==
    /\ \/ pc[c] = "admitting"
       \/ pc[c] = "sleeping" /\ now + TimerSlack >= wakeAt[c]
    /\ entries' = Append(entries, StartTime(c))
    /\ starts' = Append(starts, now)
    /\ locked' = FALSE
    /\ pc' = [pc EXCEPT ![c] = "idle"]
    /\ UNCHANGED <<now, line, wakeAt>>

\* Mutant: the interrupted sleeper does not give the lock back.
CancelSleep_KeepsLock(c) ==
    /\ pc[c] = "sleeping"
    /\ pc' = [pc EXCEPT ![c] = "idle"]
    /\ UNCHANGED <<now, entries, locked, line, wakeAt, starts>>

\* A caller cancelled in its sleep leaves the lock without an entry.
CancelSleep(c) ==
    /\ pc[c] = "sleeping"
    /\ pc' = [pc EXCEPT ![c] = "idle"]
    /\ locked' = FALSE
    /\ UNCHANGED <<now, entries, line, wakeAt, starts>>

\* A caller cancelled in line gives up its place.
CancelQueued(c) ==
    /\ pc[c] = "queued"
    /\ pc' = [pc EXCEPT ![c] = "idle"]
    /\ \E place \in DOMAIN line :
        /\ line[place] = c
        /\ line' = SubSeq(line, 1, place - 1) \o SubSeq(line, place + 1, Len(line))
    /\ UNCHANGED <<now, entries, locked, wakeAt, starts>>

Caller(c) == Call(c) \/ Enter(c) \/ Admit(c) \/ CancelSleep(c) \/ CancelQueued(c)

Next == Tick \/ \E c \in Callers : Caller(c)

Spec == Init /\ [][Next]_vars

\* Time passes and the loop resumes whoever holds the lock or is first in line.
FairSpec == Spec /\ WF_vars(Tick)
                 /\ \A c \in Callers : WF_vars(Enter(c)) /\ WF_vars(Admit(c))
-----------------------------------------------------------------------------
\* No period sees more than Limit starts: any Limit + 1 consecutive starts
\* span at least one period, whatever mix of immediate, delayed and cancelled
\* calls came in between.
WindowRespected ==
    \A i \in 1..Len(starts) :
        i + Limit <= Len(starts) => starts[i] + Period <= starts[i + Limit]

\* One caller at a time is between the cleanup and the recording of its entry.
OneInside ==
    \A c, d \in Callers :
        /\ pc[c] \in {"admitting", "sleeping"} => locked
        /\ {pc[c], pc[d]} \subseteq {"admitting", "sleeping"} => c = d

\* The deque never outgrows the limit by more than the one entry that expired
\* during a sleep, although that entry is not popped after the sleep.
EntriesBounded == Len(entries) <= Limit + 1

\* Where a caller stands in line, and how often the lock is taken and given back
\* before it has it, at most.
Place(queue, c) == CHOOSE place \in DOMAIN queue : queue[place] = c
Turns(c) == 2 * Place(line, c) + (IF locked THEN 1 ELSE 0)

\* First come, first served: no step sets a caller in line back, whoever calls,
\* gives up its place, or is interrupted in its sleep.  A step brings it nearer
\* to the lock, or the lock stays as it is, with the same caller inside and the
\* end of its sleep where it was.
NoSetback ==
    [][\A c \in Callers : pc[c] = "queued" /\ pc'[c] = "queued" =>
        \/ Turns(c)' < Turns(c)
        \/ /\ Turns(c)' = Turns(c)
           /\ locked' = locked
           /\ now <= now'
           /\ \A d \in Callers : pc[d] \in {"admitting", "sleeping"} =>
                pc'[d] = pc[d] /\ wakeAt'[d] = wakeAt[d]]_vars

\* While a caller is in line the first one can take the lock, or somebody inside
\* can record its entry or sleeps a period more at most.
LineMovesOn ==
    (\E c \in Callers : pc[c] = "queued") =>
        \/ ~locked /\ line # <<>> /\ pc[Head(line)] = "queued"
        \/ \E d \in Callers : pc[d] = "admitting"
        \/ \E d \in Callers : pc[d] = "sleeping" /\ wakeAt[d] <= now + Period

\* Every caller that reached the lock eventually starts or is cancelled.
EveryCallProceeds == \A c \in Callers : pc[c] = "queued" ~> pc[c] = "idle"
=============================================================================
