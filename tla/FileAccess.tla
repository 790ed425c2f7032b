----------------------------- MODULE FileAccess -----------------------------
(***************************************************************************)
(* haiway.helpers.files: FileAccessContext and the functions behind it.    *)
(*                                                                         *)
(* Opening, closing, reading and writing run in threads of an executor.    *)
(* Tasks of the loop wait for them, reads and writes of one context one at *)
(* a time under its lock.  A task that is cancelled releases the lock at   *)
(* once: a job that no thread has begun is dropped, one that runs goes on  *)
(* with nobody waiting for it.  All contexts access one file, which is a   *)
(* sequence of blocks; a descriptor has an offset, shared by whoever uses  *)
(* its number, and the number of a closed one is given to the next.        *)
(***************************************************************************)
EXTENDS Integers, Sequences, FiniteSets

CONSTANTS
    Contexts,       \* FileAccessContext objects, each entered once
    Locking,        \* those of them that are always exclusive
    Readers,        \* tasks that read and write through the open contexts
    Content,        \* what each task writes: a sequence of blocks
    MaxOperations   \* bound: reads and writes of each task

VARIABLES
    file,       \* the blocks of the file
    handles,    \* the open descriptors: offset, and whether it holds the file lock
    access,     \* what each context is doing, its descriptor and that of its job
    working,    \* what each task is doing, and through which context
    jobs,       \* reads and writes given to threads and not ended, by number
    operations, \* how many reads and writes each task has called
    trusted,    \* history: the last write ended well and nothing interfered since
    expected,   \* history: what the last write that ended well wrote
    answer      \* history: what the last read returned

fileVars == <<file, handles, access, working, jobs, operations, trusted, expected, answer>>

NoHandle == 0
Zero == "zero"
Unused(phase) == [phase |-> phase, handle |-> NoHandle, fd |-> NoHandle, awaited |-> FALSE,
                  exclusive |-> FALSE]
Idle == [at |-> "idle", context |-> NoHandle, op |-> "none"]
NoAnswer == [due |-> FALSE, value |-> <<>>, expected |-> <<>>]

Init ==
    /\ file = <<>>
    /\ handles = [h \in {} |-> h]
    /\ access = [c \in Contexts |-> Unused("new")]
    /\ working = [t \in Readers |-> Idle]
    /\ jobs = [n \in {} |-> n]
    /\ operations = [t \in Readers |-> 0]
    /\ trusted = TRUE
    /\ expected = <<>>
    /\ answer = NoAnswer
-----------------------------------------------------------------------------
(* Entering and leaving a context.                                         *)

Enter(c) ==
    /\ access[c].phase = "new"
    /\ \E exclusive \in BOOLEAN :
        /\ c \in Locking => exclusive
        /\ access' = [access EXCEPT ![c] = [@ EXCEPT !.phase = "opening", !.awaited = TRUE,
                                                     !.exclusive = exclusive]]
    /\ UNCHANGED <<file, handles, working, jobs, operations, trusted, expected, answer>>

\* What is left of an open job: a context with a descriptor, or a descriptor
\* that nobody will ever close.
Opened(c, a, fd) ==
    IF a.awaited THEN [a EXCEPT !.phase = "open", !.handle = fd, !.fd = fd]
    ELSE Unused("closed")

\* os.open gives the lowest free number; an exclusive context goes on to flock.
Open(c) ==
    /\ access[c].phase = "opening"
    /\ LET fd == CHOOSE h \in 1..(Cardinality(DOMAIN handles) + 1) :
                     h \notin DOMAIN handles /\ \A g \in 1..(h - 1) : g \in DOMAIN handles
       IN /\ handles' = [h \in DOMAIN handles \cup {fd} |->
                            IF h = fd THEN [offset |-> 0, locked |-> FALSE] ELSE handles[h]]
          /\ access' = [access EXCEPT ![c] = IF @.exclusive
                            THEN [@ EXCEPT !.phase = "locking", !.fd = fd] ELSE Opened(c, @, fd)]
    /\ UNCHANGED <<file, working, jobs, operations, trusted, expected, answer>>

\* The thread waits in flock until no other descriptor has the lock.
Flock(c) ==
    /\ access[c].phase = "locking"
    /\ \A h \in DOMAIN handles : ~handles[h].locked
    /\ handles' = [handles EXCEPT ![access[c].fd].locked = TRUE]
    /\ access' = [access EXCEPT ![c] = Opened(c, @, @.fd)]
    /\ UNCHANGED <<file, working, jobs, operations, trusted, expected, answer>>

\* os.open or flock raises: the descriptor, if any, is closed.
OpenRaises(c) ==
    /\ access[c].phase \in {"opening", "locking"}
    /\ handles' = [h \in DOMAIN handles \ {access[c].fd} |-> handles[h]]
    /\ access' = [access EXCEPT ![c] = Unused("closed")]
    /\ UNCHANGED <<file, working, jobs, operations, trusted, expected, answer>>

Leave(c) ==
    /\ access[c].phase = "open"
    /\ access' = [access EXCEPT ![c].phase = "closing"]
    /\ UNCHANGED <<file, handles, working, jobs, operations, trusted, expected, answer>>

\* The thread that closes releases the lock of the file first.
Unlock(c) ==
    /\ access[c].phase = "closing" /\ access[c].exclusive
    /\ handles' = [handles EXCEPT ![access[c].fd].locked = FALSE]
    /\ access' = [access EXCEPT ![c].phase = "unlocked"]
    /\ UNCHANGED <<file, working, jobs, operations, trusted, expected, answer>>

\* It closes the descriptor, also when it could not unlock it, whoever still uses
\* it.  The context keeps the number until its task resumes.
Close(c) ==
    /\ access[c].phase \in {"closing", "unlocked"}
    /\ handles' = [h \in DOMAIN handles \ {access[c].fd} |-> handles[h]]
    /\ access' = [access EXCEPT ![c] =
                     IF @.awaited THEN [@ EXCEPT !.phase = "released"] ELSE Unused("closed")]
    /\ UNCHANGED <<file, working, jobs, operations, trusted, expected, answer>>

Exited(c) ==
    /\ access[c].phase = "released"
    /\ access' = [access EXCEPT ![c] = Unused("closed")]
    /\ UNCHANGED <<file, handles, working, jobs, operations, trusted, expected, answer>>

\* The task that enters or leaves is cancelled, and has no descriptor any more.  A
\* job that has not begun is dropped, so a descriptor stays open; one that a
\* thread has begun goes on.
Interrupt(c) ==
    /\ access[c].awaited
    /\ \/ /\ access[c].phase \in {"opening", "closing", "released"}
          /\ access' = [access EXCEPT ![c] = Unused("closed")]
       \/ /\ access[c].phase \in {"opening", "locking", "closing", "unlocked"}
          /\ access' = [access EXCEPT ![c] = [@ EXCEPT !.awaited = FALSE, !.handle = NoHandle]]
    /\ UNCHANGED <<file, handles, working, jobs, operations, trusted, expected, answer>>
-----------------------------------------------------------------------------
(* Reading and writing.                                                    *)

\* read_file or write_file is called, and waits for the lock.
Call(t, c, op) ==
    /\ working[t].at = "idle"
    /\ access[c].handle # NoHandle
    /\ operations[t] < MaxOperations
    /\ operations' = [operations EXCEPT ![t] = @ + 1]
    /\ working' = [working EXCEPT ![t] = [at |-> "waiting", context |-> c, op |-> op]]
    /\ UNCHANGED <<file, handles, access, jobs, trusted, expected, answer>>

LockFree(c) == \A t \in Readers : ~(working[t].at = "running" /\ working[t].context = c)

\* Mutant: reads and writes of a context are not serialised.
Acquirable_Always(t) == working[t].at = "waiting"

Acquirable(t) == working[t].at = "waiting" /\ LockFree(working[t].context)

\* The lock is acquired and the job given to a thread, or, when the context was
\* left meanwhile, the call raises.
Acquire(t) ==
    /\ Acquirable(t)
    /\ LET c == working[t].context
           job == [by |-> t, context |-> c, op |-> working[t].op, handle |-> access[c].handle,
                   step |-> "queued", done |-> <<>>, awaited |-> TRUE, alone |-> TRUE]
           n == CHOOSE n \in 1..(Cardinality(DOMAIN jobs) + 1) : n \notin DOMAIN jobs
       IN IF access[c].handle = NoHandle
          THEN working' = [working EXCEPT ![t] = Idle] /\ UNCHANGED jobs
          ELSE /\ working' = [working EXCEPT ![t].at = "running"]
               /\ jobs' = [m \in DOMAIN jobs \cup {n} |-> IF m = n THEN job ELSE jobs[m]]
    /\ UNCHANGED <<file, handles, access, operations, trusted, expected, answer>>

\* Two jobs that the lock of a context, or the lock of the file, keeps apart: their
\* tasks wait for them, and no thread has unlocked or closed their descriptors.
Proper(n) ==
    /\ jobs[n].awaited
    /\ access[jobs[n].context].phase \in {"open", "closing"}
    /\ access[jobs[n].context].handle = jobs[n].handle
Apart(m, n) ==
    /\ Proper(m) /\ Proper(n)
    /\ \/ jobs[m].context = jobs[n].context
       \/ access[jobs[m].context].exclusive /\ access[jobs[n].context].exclusive

Others(n) == {m \in DOMAIN jobs \ {n} : ~Apart(m, n)}

\* Job n has done a step: whatever runs beside it is not alone any more.
Stepped(n, job) ==
    [m \in DOMAIN jobs |->
        IF m = n THEN [job EXCEPT !.alone = @ /\ Proper(n) /\ Others(n) = {}]
        ELSE IF m \in Others(n) THEN [jobs[m] EXCEPT !.alone = FALSE] ELSE jobs[m]]

\* Job n has ended.
Removed(n) == [m \in DOMAIN jobs \ {n} |-> Stepped(n, jobs[n])[m]]

Usable(n) == n \in DOMAIN jobs /\ jobs[n].handle \in DOMAIN handles

\* lseek to the start.
Seek(n) ==
    /\ Usable(n) /\ jobs[n].step = "queued"
    /\ handles' = [handles EXCEPT ![jobs[n].handle].offset = 0]
    /\ jobs' = Stepped(n, [jobs[n] EXCEPT !.step = "moving"])
    /\ trusted' = (trusted /\ jobs[n].op = "read" /\ Proper(n))
    /\ UNCHANGED <<file, access, working, operations, expected, answer>>

Put(blocks, offset, block) ==
    [i \in 1..(IF offset < Len(blocks) THEN Len(blocks) ELSE offset + 1) |->
        IF i = offset + 1 THEN block ELSE IF i <= Len(blocks) THEN blocks[i] ELSE Zero]

\* os.write of one block, or os.read of one.
Move(n) ==
    /\ Usable(n) /\ jobs[n].step = "moving"
    /\ LET at == handles[jobs[n].handle].offset
           written == Len(jobs[n].done)
       IN \/ /\ jobs[n].op = "write" /\ written < Len(Content[jobs[n].by])
             /\ file' = Put(file, at, Content[jobs[n].by][written + 1])
             /\ jobs' = Stepped(n, [jobs[n] EXCEPT !.done = Append(@, Content[jobs[n].by][written + 1])])
             /\ trusted' = FALSE
          \/ /\ jobs[n].op = "read" /\ at < Len(file)
             /\ jobs' = Stepped(n, [jobs[n] EXCEPT !.done = Append(@, file[at + 1])])
             /\ UNCHANGED <<file, trusted>>
    /\ handles' = [handles EXCEPT ![jobs[n].handle].offset = @ + 1]
    /\ UNCHANGED <<access, working, operations, expected, answer>>

\* Whoever waits for the job gets its result and releases the lock.
Resumed(n) == IF jobs[n].awaited THEN [working EXCEPT ![jobs[n].by] = Idle] ELSE working
Alone(n) == Proper(n) /\ jobs[n].alone /\ Others(n) = {}

\* ftruncate and fsync, the end of a write.
Written(n) ==
    /\ Usable(n) /\ jobs[n].step = "moving" /\ jobs[n].op = "write"
    /\ LET content == Content[jobs[n].by]
       IN /\ Len(jobs[n].done) = Len(content)
          /\ file' = [i \in 1..Len(content) |-> IF i <= Len(file) THEN file[i] ELSE Zero]
          /\ trusted' = Alone(n)
          /\ expected' = IF Alone(n) THEN content ELSE expected
    /\ jobs' = Removed(n)
    /\ working' = Resumed(n)
    /\ UNCHANGED <<handles, access, operations, answer>>

\* os.read returns nothing, the end of a read.
Read(n) ==
    /\ Usable(n) /\ jobs[n].step = "moving" /\ jobs[n].op = "read"
    /\ handles[jobs[n].handle].offset >= Len(file)
    /\ answer' = IF trusted /\ Alone(n)
                 THEN [due |-> TRUE, value |-> jobs[n].done, expected |-> expected]
                 ELSE NoAnswer
    /\ jobs' = Removed(n)
    /\ working' = Resumed(n)
    /\ UNCHANGED <<file, handles, access, operations, trusted, expected>>

\* A call of the operating system raises, on a closed descriptor always.
JobRaises(n) ==
    /\ n \in DOMAIN jobs
    /\ jobs' = Removed(n)
    /\ working' = Resumed(n)
    /\ trusted' = (trusted /\ jobs[n].op = "read")
    /\ UNCHANGED <<file, handles, access, operations, expected, answer>>

\* The task is cancelled: it leaves the line for the lock, or releases the lock
\* while its job goes on, if a thread has begun it.
Cancel(t) ==
    /\ working[t].at # "idle"
    /\ working' = [working EXCEPT ![t] = Idle]
    /\ jobs' = [n \in {m \in DOMAIN jobs : jobs[m].by # t \/ ~jobs[m].awaited \/ jobs[m].step # "queued"} |->
                   IF jobs[n].by = t THEN [jobs[n] EXCEPT !.awaited = FALSE] ELSE jobs[n]]
    /\ UNCHANGED <<file, handles, access, operations, trusted, expected, answer>>

Next ==
    \/ \E c \in Contexts :
        \/ Enter(c) \/ Open(c) \/ Flock(c) \/ OpenRaises(c)
        \/ Leave(c) \/ Unlock(c) \/ Close(c) \/ Exited(c) \/ Interrupt(c)
    \/ \E t \in Readers :
        \/ \E c \in Contexts, op \in {"read", "write"} : Call(t, c, op)
        \/ Acquire(t) \/ Cancel(t)
    \/ \E n \in DOMAIN jobs :
        Seek(n) \/ Move(n) \/ Written(n) \/ Read(n) \/ JobRaises(n)

Spec == Init /\ [][Next]_fileVars
-----------------------------------------------------------------------------
\* A write that ends well is what the file holds and what reads return, as long
\* as no job moves beside it whose waiter is gone, whose descriptor was unlocked
\* or closed, or whose context does not ask for the lock of the file.  What such
\* a job does to the file is over with the next write that ends well.
UndisturbedAccess ==
    /\ trusted => file = expected
    /\ answer.due => answer.value = answer.expected
=============================================================================
