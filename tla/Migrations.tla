----------------------------- MODULE Migrations -----------------------------
(***************************************************************************)
(* haiway.postgres: Postgres.execute_migrations, run by several processes  *)
(* against one database, each with the migrations of its own deployment.   *)
(*                                                                         *)
(* A step is one statement and its answer.  The database is external: its  *)
(* advisory lock belongs to the session of a connection, a transaction     *)
(* takes effect at its commit, and a session whose process is gone ends    *)
(* some time later, with its transaction rolled back, or committed when    *)
(* the COMMIT was already sent.  The pool resets a connection it gets back.*)
(***************************************************************************)
EXTENDS Integers, Sequences, FiniteSets

CONSTANTS
    Migrators,     \* processes
    Packages,      \* numbers of the migration_<n> modules, in the order of discovery
    MaxEvents      \* bound: crashes and new runs of the processes

ASSUME MigrationsAssumption ==
    /\ Packages \subseteq Seq(Nat)
    /\ MaxEvents \in Nat

NoOne == "no one"
ASSUME MigratorsAssumption == NoOne \notin Migrators

VARIABLES
    found,         \* the modules each process finds
    plan,          \* migration_sequence
    pc,            \* where each process is, or "lost" until its session ends
    base,          \* current_version
    next,          \* idx of the migration in the loop
    raised,        \* the exception on its way out
    outcome,       \* what the caller got
    lock,          \* the session that holds the advisory lock
    work,          \* what the transaction of each session did so far
    applied,       \* migrations in effect, in the order of their commits
    rows,          \* rows of the migrations table
    events         \* history: crashes and new runs so far

processes == <<found, plan, pc, base, next, raised, outcome>>
database == <<lock, work, applied, rows>>
vars == <<processes, database, events>>

NoWork == [applied |-> <<>>, rows |-> 0]

TypeOK ==
    /\ found \in [Migrators -> Packages]
    /\ plan \in [Migrators -> Seq(Nat)]
    /\ pc \in [Migrators -> {"new", "configuring", "locking", "versioning", "deciding", "migrating",
                             "completing", "committing", "unlocking", "resetting", "releasing",
                             "returned", "lost", "crashed"}]
    /\ base \in [Migrators -> Nat]
    /\ next \in [Migrators -> Nat]
    /\ raised \in [Migrators -> {"none", "error", "cancelled"}]
    /\ outcome \in [Migrators -> {"none", "success", "error", "cancelled"}]
    /\ lock \in Migrators \cup {NoOne}
    /\ work \in [Migrators -> [applied : Seq(Nat), rows : Nat]]
    /\ applied \in Seq(Nat)
    /\ rows \in Nat
    /\ events \in 0..MaxEvents

Init ==
    /\ found \in [Migrators -> Packages]
    /\ plan = [m \in Migrators |-> <<>>]
    /\ pc = [m \in Migrators |-> "new"]
    /\ base = [m \in Migrators |-> 0]
    /\ next = [m \in Migrators |-> 0]
    /\ raised = [m \in Migrators |-> "none"]
    /\ outcome = [m \in Migrators |-> "none"]
    /\ lock = NoOne
    /\ work = [m \in Migrators |-> NoWork]
    /\ applied = <<>>
    /\ rows = 0
    /\ events = 0
-----------------------------------------------------------------------------
Goto(m, place) == pc' = [pc EXCEPT ![m] = place]

\* Modules are numbered from 0 on, each number once.
Numbered(names) == {names[n] : n \in DOMAIN names} = 0..(Len(names) - 1)

\* The migrations in the order of their numbers.
Ordered(names) == [n \in DOMAIN names |-> n - 1]

\* The connection is acquired and the migrations are discovered, before the try.
Discover(m) ==
    /\ pc[m] = "new"
    /\ IF Numbered(found[m])
       THEN plan' = [plan EXCEPT ![m] = Ordered(found[m])] /\ Goto(m, "configuring")
                                                           /\ UNCHANGED raised
       ELSE raised' = [raised EXCEPT ![m] = "error"] /\ Goto(m, "releasing") /\ UNCHANGED plan
    /\ UNCHANGED <<found, base, next, outcome, database, events>>

\* No connection is acquired, or the package cannot be imported.
NotPrepared(m) ==
    /\ pc[m] = "new"
    /\ \E exc \in {"error", "cancelled"} : raised' = [raised EXCEPT ![m] = exc]
    /\ Goto(m, "releasing")
    /\ UNCHANGED <<found, plan, base, next, outcome, database, events>>

\* SET lock_timeout
Configure(m) ==
    /\ pc[m] = "configuring"
    /\ Goto(m, "locking")
    /\ UNCHANGED <<found, plan, base, next, raised, outcome, database, events>>

\* Mutant: the answer of pg_try_advisory_lock is not looked at.
LockFree_Tried == TRUE

LockFree == lock = NoOne

\* pg_advisory_lock
Lock(m) ==
    /\ pc[m] = "locking"
    /\ LockFree
    /\ lock' = m
    /\ Goto(m, "versioning")
    /\ UNCHANGED <<found, plan, base, next, raised, outcome, work, applied, rows, events>>

\* Mutant: any version will do.
Exceeds_Never(m) == FALSE

\* The database is ahead of the deployment.
Exceeds(m) == rows > Len(plan[m])

\* The table is created unless it exists, and its rows are counted.
Version(m) ==
    /\ pc[m] = "versioning"
    /\ base' = [base EXCEPT ![m] = rows]
    /\ next' = [next EXCEPT ![m] = 0]
    /\ IF Exceeds(m)
       THEN raised' = [raised EXCEPT ![m] = "error"] /\ Goto(m, "unlocking")
       ELSE Goto(m, "deciding") /\ UNCHANGED raised
    /\ UNCHANGED <<found, plan, outcome, database, events>>

\* BEGIN for the next migration, if any is left.
Decide(m) ==
    /\ pc[m] = "deciding"
    /\ Goto(m, IF base[m] + next[m] < Len(plan[m]) THEN "migrating" ELSE "unlocking")
    /\ UNCHANGED <<found, plan, base, next, raised, outcome, database, events>>

\* The migration itself.
Migrate(m) ==
    /\ pc[m] = "migrating"
    /\ work' = [work EXCEPT ![m].applied = Append(@, plan[m][base[m] + next[m] + 1])]
    /\ Goto(m, "completing")
    /\ UNCHANGED <<found, plan, base, next, raised, outcome, lock, applied, rows, events>>

\* The row that bumps the version.
Complete(m) ==
    /\ pc[m] = "completing"
    /\ work' = [work EXCEPT ![m].rows = @ + 1]
    /\ Goto(m, "committing")
    /\ UNCHANGED <<found, plan, base, next, raised, outcome, lock, applied, rows, events>>

\* A transaction takes effect.
Effect(m) ==
    /\ applied' = applied \o work[m].applied
    /\ rows' = rows + work[m].rows
    /\ work' = [work EXCEPT ![m] = NoWork]

\* COMMIT, and on to the next migration.
Commit(m) ==
    /\ pc[m] = "committing"
    /\ Effect(m)
    /\ next' = [next EXCEPT ![m] = @ + 1]
    /\ Goto(m, "deciding")
    /\ UNCHANGED <<found, plan, base, raised, outcome, lock, events>>

Trying == {"configuring", "locking", "versioning", "deciding", "migrating", "completing",
           "committing"}

\* A statement fails, the lock timeout included, or the task is cancelled: what
\* the transaction did is rolled back.  A statement that was interrupted may
\* have had its effect: the lock is granted or the transaction committed.
Fails(m) ==
    /\ pc[m] \in Trying
    /\ \E exc \in {"error", "cancelled"} : raised' = [raised EXCEPT ![m] = exc]
    /\ Goto(m, "unlocking")
    /\ \/ pc[m] = "committing" /\ Effect(m)
       \/ work' = [work EXCEPT ![m] = NoWork] /\ UNCHANGED <<applied, rows>>
    /\ \/ pc[m] = "locking" /\ LockFree /\ lock' = m
       \/ UNCHANGED lock
    /\ UNCHANGED <<found, plan, base, next, outcome, events>>

Unlocked(m) == IF lock = m THEN NoOne ELSE lock

\* pg_advisory_unlock: nothing happens when the session does not hold the lock.
Unlock(m) ==
    /\ pc[m] = "unlocking"
    /\ lock' = Unlocked(m)
    /\ Goto(m, "resetting")
    /\ UNCHANGED <<found, plan, base, next, raised, outcome, work, applied, rows, events>>

\* RESET lock_timeout
Reset(m) ==
    /\ pc[m] = "resetting"
    /\ Goto(m, "releasing")
    /\ UNCHANGED <<found, plan, base, next, raised, outcome, database, events>>

\* A statement of the finally clauses fails or is interrupted: the lock may be left to the pool.
FinallyFails(m) ==
    /\ pc[m] \in {"unlocking", "resetting"}
    /\ \E exc \in {"error", "cancelled"} : raised' = [raised EXCEPT ![m] = exc]
    /\ IF pc[m] = "unlocking"
       THEN Goto(m, "resetting") /\ lock' \in {lock, Unlocked(m)}
       ELSE Goto(m, "releasing") /\ UNCHANGED lock
    /\ UNCHANGED <<found, plan, base, next, outcome, work, applied, rows, events>>

\* Mutant: the scope ends and keeps the connection.
Release_Keeps(m) ==
    /\ pc[m] = "releasing"
    /\ outcome' = [outcome EXCEPT ![m] = IF raised[m] = "none" THEN "success" ELSE raised[m]]
    /\ Goto(m, "returned")
    /\ UNCHANGED <<found, plan, base, next, raised, database, events>>

\* The scope returns the connection, which the pool resets, and the call ends.
Release(m) ==
    /\ pc[m] = "releasing"
    /\ lock' = Unlocked(m)
    /\ outcome' = [outcome EXCEPT ![m] = IF raised[m] = "none" THEN "success" ELSE raised[m]]
    /\ Goto(m, "returned")
    /\ UNCHANGED <<found, plan, base, next, raised, work, applied, rows, events>>
-----------------------------------------------------------------------------
\* The process is gone and its session does not know yet.
Crash(m) ==
    /\ pc[m] \notin {"new", "returned", "lost", "crashed"}
    /\ events < MaxEvents
    /\ events' = events + 1
    /\ Goto(m, "lost")
    /\ UNCHANGED <<found, plan, base, next, raised, outcome, database>>

\* The session of a lost process ends.
SessionEnds(m) ==
    /\ pc[m] = "lost"
    /\ lock' = Unlocked(m)
    /\ \/ work[m].rows > 0 /\ Effect(m)
       \/ work' = [work EXCEPT ![m] = NoWork] /\ UNCHANGED <<applied, rows>>
    /\ Goto(m, "crashed")
    /\ UNCHANGED <<found, plan, base, next, raised, outcome, events>>

\* The process starts again, maybe with another deployment.
Restart(m) ==
    /\ pc[m] \in {"crashed", "returned"}
    /\ events < MaxEvents
    /\ events' = events + 1
    /\ found' \in {[found EXCEPT ![m] = names] : names \in Packages}
    /\ raised' = [raised EXCEPT ![m] = "none"]
    /\ outcome' = [outcome EXCEPT ![m] = "none"]
    /\ Goto(m, "new")
    /\ UNCHANGED <<plan, base, next, database>>

Statement(m) ==
    \/ Discover(m)
    \/ Configure(m)
    \/ Lock(m)
    \/ Version(m)
    \/ Decide(m)
    \/ Migrate(m)
    \/ Complete(m)
    \/ Commit(m)
    \/ Unlock(m)
    \/ Reset(m)
    \/ Release(m)

Next ==
    \E m \in Migrators :
        \/ Statement(m)
        \/ NotPrepared(m) \/ Fails(m) \/ FinallyFails(m)
        \/ Crash(m) \/ SessionEnds(m) \/ Restart(m)

Spec == Init /\ [][Next]_vars

\* The database answers, migrations end, and a session whose process is gone is
\* found out.
FairSpec ==
    /\ Spec
    /\ \A m \in Migrators : WF_vars(Statement(m)) /\ WF_vars(SessionEnds(m))
-----------------------------------------------------------------------------
\* Whatever crashes, is cancelled or races: every migration takes effect once,
\* in the order of the numbers, together with the row that counts it.
AppliedInOrder ==
    /\ TypeOK
    /\ rows = Len(applied)
    /\ \A n \in DOMAIN applied : applied[n] = n - 1

\* A run that succeeds leaves the database at the version of its deployment,
\* exactly while it holds the lock, and at least afterwards.
UpToDate ==
    \A m \in Migrators :
        /\ pc[m] = "unlocking" /\ raised[m] = "none" => rows = Len(found[m])
        /\ outcome[m] = "success" => Numbered(found[m]) /\ rows >= Len(found[m])

\* How far the run of a process is: the places it still comes through, the loop
\* over the migrations being one of them, and what is left of the loop.
StageLeft(m) ==
    CASE pc[m] = "new" -> 8
      [] pc[m] = "configuring" -> 7
      [] pc[m] = "locking" -> 6
      [] pc[m] = "versioning" -> 5
      [] pc[m] \in {"deciding", "migrating", "completing", "committing"} -> 4
      [] pc[m] = "unlocking" -> 3
      [] pc[m] = "resetting" -> 2
      [] pc[m] \in {"releasing", "lost"} -> 1
      [] pc[m] \in {"returned", "crashed"} -> 0
LoopLeft(m) ==
    CASE pc[m] = "deciding" -> 4 * (Len(plan[m]) - base[m] - next[m]) + 3
      [] pc[m] = "migrating" -> 4 * (Len(plan[m]) - base[m] - next[m]) + 2
      [] pc[m] = "completing" -> 4 * (Len(plan[m]) - base[m] - next[m]) + 1
      [] pc[m] = "committing" -> 4 * (Len(plan[m]) - base[m] - next[m])
      [] OTHER -> 0

\* Every step brings one run nearer to its end and sets no other run back, apart
\* from the crashes and new runs that are counted.
EveryStepCounts ==
    [][\E m \in Migrators :
        /\ \A j \in Migrators \ {m} : StageLeft(j)' = StageLeft(j) /\ LoopLeft(j)' = LoopLeft(j)
        /\ \/ events' > events
           \/ events' = events /\ StageLeft(m)' < StageLeft(m)
           \/ events' = events /\ StageLeft(m)' = StageLeft(m) /\ LoopLeft(m)' < LoopLeft(m)]_vars

\* Nobody waits for a lock that is stuck: its holder has its next statement to
\* make, the release of its connection at last, or is lost with its session
\* about to end.
LockMovesOn ==
    lock # NoOne =>
        pc[lock] \in {"versioning", "deciding", "migrating", "completing", "committing",
                     "unlocking", "resetting", "releasing", "lost"}

\* A process that waits for the lock gets it or fails, although others crash
\* with the lock or are cancelled before they release it.
EveryRunEnds == \A m \in Migrators : pc[m] = "locking" ~> pc[m] \in {"returned", "crashed"}
=============================================================================
