-------------------------- MODULE Migrations_proofs --------------------------
(* Proofs about Migrations, for every set of processes and deployments.     *)
EXTENDS Migrations, TLAPS

\* Where a process holds the lock, and where it is inside a transaction.
Holding == {"versioning", "deciding", "migrating", "completing", "committing"}
Inside == {"migrating", "completing", "committing"}

\* A transaction that applied the next migration, and bumped the version or not.
WorkOn(version, bump) == [applied |-> <<version>>, rows |-> bump]

\* What the session of a process holds fits the place of the process: the
\* version it read is the one of the database as long as it has the lock.
Session(m) ==
    /\ pc[m] \in Holding => lock = m
    /\ work[m] # NoWork => lock = m
    /\ \A n \in DOMAIN plan[m] : plan[m][n] = n - 1
    /\ pc[m] = "new" => raised[m] = "none"
    /\ pc[m] \in Trying =>
        raised[m] = "none" /\ Numbered(found[m]) /\ Len(plan[m]) = Len(found[m])
    /\ pc[m] \in Inside \cup {"deciding"} =>
        base[m] + next[m] = rows /\ rows <= Len(plan[m])
    /\ pc[m] \in Inside => rows < Len(plan[m])
    /\ pc[m] = "completing" => work[m] = WorkOn(rows, 0)
    /\ pc[m] = "committing" => work[m] = WorkOn(rows, 1)
    /\ pc[m] = "lost" => work[m] \in {NoWork, WorkOn(rows, 0), WorkOn(rows, 1)}
    /\ pc[m] \notin {"completing", "committing", "lost"} => work[m] = NoWork
    /\ pc[m] = "unlocking" /\ raised[m] = "none" =>
        lock = m /\ Numbered(found[m]) /\ rows = Len(found[m])
    /\ pc[m] \in {"resetting", "releasing"} /\ raised[m] = "none" =>
        Numbered(found[m]) /\ rows >= Len(found[m])
    /\ outcome[m] = "success" => Numbered(found[m]) /\ rows >= Len(found[m])

\* The inductive invariant.
MInv == AppliedInOrder /\ \A m \in Migrators : Session(m)

Own(j) == <<found[j], plan[j], pc[j], base[j], next[j], raised[j], outcome[j], work[j]>>

\* A step of one process keeps what holds of the others: it changes the table
\* only while it has the lock, and takes the lock only from no one.
LEMMA OthersKeep ==
  ASSUME MInv, NEW m \in Migrators, NEW j \in Migrators, j # m, UNCHANGED Own(j),
         rows' \in Nat, rows <= rows', rows' # rows => lock = m,
         lock' = lock \/ lock = m \/ lock = NoOne
  PROVE  Session(j)'
<1>1. j # NoOne /\ Session(j) /\ rows \in Nat /\ Len(found[j]) \in Nat
  BY MigrationsAssumption, MigratorsAssumption DEF MInv, AppliedInOrder, TypeOK
<1>2. lock = j => lock' = j /\ rows' = rows
  BY <1>1
<1>3. work'[j] = work[j] /\ pc'[j] = pc[j] /\ plan'[j] = plan[j] /\ found'[j] = found[j]
      /\ base'[j] = base[j] /\ next'[j] = next[j] /\ raised'[j] = raised[j]
      /\ outcome'[j] = outcome[j]
  BY DEF Own
<1>4. Numbered(found'[j]) <=> Numbered(found[j])
  BY <1>3
<1>5. pc[j] \in Holding \/ work[j] # NoWork => rows' = rows /\ lock' = j
  BY <1>1, <1>2 DEF Session
<1>6. pc[j] = "lost" => work'[j] \in {NoWork, WorkOn(rows, 0)', WorkOn(rows, 1)'}
  BY <1>1, <1>3, <1>5 DEF Session, WorkOn
<1>7. /\ pc[j] \in Inside \cup {"deciding"} => base'[j] + next'[j] = rows' /\ rows' <= Len(plan'[j])
      /\ pc[j] \in Inside => rows' < Len(plan'[j])
      /\ pc[j] = "completing" => work'[j] = WorkOn(rows, 0)'
      /\ pc[j] = "committing" => work'[j] = WorkOn(rows, 1)'
  BY <1>1, <1>3, <1>5 DEF Session, WorkOn, Inside, Holding
<1>8. /\ pc[j] = "unlocking" /\ raised[j] = "none" =>
          lock' = j /\ Numbered(found[j]) /\ rows' = Len(found[j])
      /\ pc[j] \in {"resetting", "releasing"} /\ raised[j] = "none" =>
          Numbered(found[j]) /\ rows' >= Len(found[j])
      /\ outcome[j] = "success" => Numbered(found[j]) /\ rows' >= Len(found[j])
  BY <1>1, <1>2 DEF Session
<1> QED
  BY <1>1, <1>3, <1>4, <1>5, <1>6, <1>7, <1>8 DEF Session

LEMMA MInvInit == Init => MInv
<1> SUFFICES ASSUME Init PROVE MInv
  OBVIOUS
<1> USE DEF Init
<1>1. TypeOK
  <2>1. 0 \in 0..MaxEvents /\ <<>> \in Seq(Nat) /\ NoWork \in [applied : Seq(Nat), rows : Nat]
    BY MigrationsAssumption DEF NoWork
  <2> QED
    BY <2>1 DEF TypeOK
<1>2. AppliedInOrder
  BY <1>1 DEF AppliedInOrder
<1>3. \A m \in Migrators : Session(m)
  BY DEF Session, Holding, Inside, Trying
<1> QED
  BY <1>2, <1>3 DEF MInv

\* The plan made from modules that are numbered without gaps.
LEMMA OrderedPlan ==
  ASSUME NEW names \in Seq(Nat)
  PROVE  /\ Ordered(names) \in Seq(Nat)
         /\ Len(Ordered(names)) = Len(names)
         /\ \A n \in DOMAIN Ordered(names) : Ordered(names)[n] = n - 1
<1>1. DOMAIN names = 1..Len(names) /\ Len(names) \in Nat
  OBVIOUS
<1>2. \A n \in 1..Len(names) : n - 1 \in Nat
  BY <1>1
<1>3. Ordered(names) = [n \in 1..Len(names) |-> n - 1]
  BY <1>1 DEF Ordered
<1>4. [n \in 1..Len(names) |-> n - 1] \in [1..Len(names) -> Nat]
  BY <1>2
<1> QED
  BY <1>1, <1>3, <1>4

\* The table keeps its order when a transaction that bumps it takes effect.
LEMMA EffectKeeps ==
  ASSUME MInv, NEW m \in Migrators, Effect(m), work[m] = WorkOn(rows, 1)
  PROVE  /\ applied' \in Seq(Nat) /\ rows' = rows + 1 /\ rows' = Len(applied')
         /\ \A n \in DOMAIN applied' : applied'[n] = n - 1
         /\ work' = [work EXCEPT ![m] = NoWork]
         /\ work' \in [Migrators -> [applied : Seq(Nat), rows : Nat]] /\ rows' \in Nat
         /\ rows <= rows'
<1>1. applied \in Seq(Nat) /\ rows \in Nat /\ rows = Len(applied)
      /\ \A n \in DOMAIN applied : applied[n] = n - 1
  BY DEF MInv, AppliedInOrder, TypeOK
<1>2. applied' = Append(applied, rows) /\ rows' = rows + 1
  BY <1>1 DEF Effect, WorkOn
<1>3. applied' \in Seq(Nat) /\ Len(applied') = rows + 1
  BY <1>1, <1>2
<1>4. \A n \in 1..(rows + 1) : applied'[n] = n - 1
  <2>1. \A n \in 1..Len(applied) : applied'[n] = applied[n]
    BY <1>1, <1>2
  <2>2. Append(applied, rows)[Len(applied) + 1] = rows
    BY <1>1
  <2>3. applied'[rows + 1] = rows
    BY <1>1, <1>2, <2>2, Zenon
  <2> SUFFICES ASSUME NEW n \in 1..(rows + 1) PROVE applied'[n] = n - 1
    OBVIOUS
  <2>4. CASE n \in 1..Len(applied)
    <3>1. applied'[n] = applied[n] /\ n \in DOMAIN applied
      BY <1>1, <2>1, <2>4
    <3> QED
      BY <1>1, <3>1
  <2>5. CASE n = rows + 1
    <3>1. n - 1 = rows
      BY <1>1, <2>5
    <3> QED
      BY <2>3, <2>5, <3>1
  <2> QED
    BY <1>1, <2>4, <2>5
<1>5. work' = [work EXCEPT ![m] = NoWork] /\ work \in [Migrators -> [applied : Seq(Nat), rows : Nat]]
  BY DEF Effect, MInv, AppliedInOrder, TypeOK
<1>6. NoWork \in [applied : Seq(Nat), rows : Nat]
  BY DEF NoWork
<1> QED
  BY <1>1, <1>2, <1>3, <1>4, <1>5, <1>6

\* A step that keeps the table in order and changes nothing of the others: it
\* is enough to look at the process that makes it.
LEMMA StepKeeps ==
  ASSUME MInv, NEW m \in Migrators, AppliedInOrder', Session(m)',
         \A j \in Migrators : j # m => UNCHANGED Own(j),
         rows <= rows', rows' # rows => lock = m,
         lock' = lock \/ lock = m \/ lock = NoOne
  PROVE  MInv'
<1>1. rows' \in Nat
  BY Zenon DEF AppliedInOrder, TypeOK
<1>2. ASSUME NEW j \in Migrators, j # m PROVE Session(j)'
  <2>1. UNCHANGED Own(j)
    BY <1>2
  <2> QED
    BY <1>1, <1>2, <2>1, OthersKeep
<1>3. \A j \in Migrators : Session(j)'
  BY <1>2
<1> QED
  BY <1>3 DEF MInv

\* Steps that leave the table alone.
LEMMA QuietKeeps ==
  ASSUME MInv, NEW m \in Migrators, TypeOK', Session(m)', applied' = applied, rows' = rows,
         \A j \in Migrators : j # m => UNCHANGED Own(j),
         lock' = lock \/ lock = m \/ lock = NoOne
  PROVE  MInv'
<1>1. AppliedInOrder'
  <2>1. AppliedInOrder
    BY DEF MInv
  <2> QED
    BY <2>1, Zenon DEF AppliedInOrder
<1>2. rows \in Nat
  BY DEF MInv, AppliedInOrder, TypeOK
<1>3. rows <= rows'
  BY <1>2
<1> QED
  BY <1>1, <1>3, StepKeeps

LEMMA DiscoverKeeps ==
  ASSUME MInv, NEW m \in Migrators, Discover(m)
  PROVE  MInv'
<1>1. /\ pc[m] = "new" /\ UNCHANGED <<found, base, next, outcome, lock, work, applied, rows, events>>
      /\ TypeOK /\ Session(m) /\ found[m] \in Seq(Nat)
  BY MigrationsAssumption DEF Discover, database, MInv, AppliedInOrder, TypeOK
<1>2. CASE Numbered(found[m])
  <2>1. /\ plan' = [plan EXCEPT ![m] = Ordered(found[m])]
        /\ pc' = [pc EXCEPT ![m] = "configuring"] /\ UNCHANGED raised
    BY <1>2 DEF Discover, Goto
  <2>2. /\ plan'[m] = Ordered(found[m]) /\ pc'[m] = "configuring"
        /\ \A j \in Migrators : j # m => plan'[j] = plan[j] /\ pc'[j] = pc[j]
    BY <1>1, <2>1 DEF TypeOK
  <2>3. TypeOK'
    BY <1>1, <2>1, OrderedPlan DEF TypeOK
  <2>4. Numbered(found[m])'
    BY <1>1, <1>2 DEF Numbered
  <2>5. Session(m)'
    BY <1>1, <1>2, <2>1, <2>2, <2>4, OrderedPlan DEF Session, Holding, Inside, Trying
  <2>6. \A j \in Migrators : j # m => UNCHANGED Own(j)
    BY <1>1, <2>1, <2>2 DEF Own
  <2> QED
    BY <1>1, <2>3, <2>5, <2>6, QuietKeeps
<1>3. CASE ~Numbered(found[m])
  <2>1. /\ raised' = [raised EXCEPT ![m] = "error"]
        /\ pc' = [pc EXCEPT ![m] = "releasing"] /\ UNCHANGED plan
    BY <1>3 DEF Discover, Goto
  <2>2. /\ raised'[m] = "error" /\ pc'[m] = "releasing"
        /\ \A j \in Migrators : j # m => raised'[j] = raised[j] /\ pc'[j] = pc[j]
    BY <1>1, <2>1 DEF TypeOK
  <2>3. TypeOK'
    BY <1>1, <2>1 DEF TypeOK
  <2>4. Numbered(found[m])' <=> Numbered(found[m])
    BY <1>1 DEF Numbered
  <2>5. Session(m)'
    BY <1>1, <1>3, <2>1, <2>2, <2>4 DEF Session, Holding, Inside, Trying
  <2>6. \A j \in Migrators : j # m => UNCHANGED Own(j)
    BY <1>1, <2>1, <2>2 DEF Own
  <2> QED
    BY <1>1, <2>3, <2>5, <2>6, QuietKeeps
<1> QED
  BY <1>2, <1>3

LEMMA NotPreparedKeeps ==
  ASSUME MInv, NEW m \in Migrators, NotPrepared(m)
  PROVE  MInv'
<1>1. TypeOK /\ Session(m)
  BY DEF MInv, AppliedInOrder
<1>2. PICK exc \in {"error", "cancelled"} : raised' = [raised EXCEPT ![m] = exc]
  BY DEF NotPrepared
<1>3. /\ pc[m] = "new" /\ pc' = [pc EXCEPT ![m] = "releasing"]
      /\ UNCHANGED <<found, plan, base, next, outcome, lock, work, applied, rows, events>>
  BY DEF NotPrepared, Goto, database
<1>4. /\ pc'[m] = "releasing" /\ raised'[m] = exc /\ exc # "none"
      /\ \A j \in Migrators : j # m => pc'[j] = pc[j] /\ raised'[j] = raised[j]
  BY <1>1, <1>2, <1>3 DEF TypeOK
<1>5. TypeOK'
  BY <1>1, <1>2, <1>3 DEF TypeOK
<1>6. Numbered(found[m])' <=> Numbered(found[m])
  BY <1>3 DEF Numbered
<1>7. Session(m)'
  BY <1>1, <1>3, <1>4, <1>6 DEF Session, Holding, Inside, Trying
<1>8. \A j \in Migrators : j # m => UNCHANGED Own(j)
  BY <1>3, <1>4 DEF Own
<1> QED
  BY <1>3, <1>5, <1>7, <1>8, QuietKeeps

LEMMA LockingKeeps ==
  ASSUME MInv, NEW m \in Migrators, Configure(m) \/ Lock(m)
  PROVE  MInv'
<1>1. TypeOK /\ Session(m) /\ m # NoOne
  BY MigratorsAssumption DEF MInv, AppliedInOrder
<1>2. UNCHANGED <<found, plan, base, next, raised, outcome, work, applied, rows, events>>
  BY DEF Configure, Lock, database
<1>3. Numbered(found[m])' <=> Numbered(found[m])
  BY <1>2 DEF Numbered
<1>4. CASE Configure(m)
  <2>1. pc[m] = "configuring" /\ pc' = [pc EXCEPT ![m] = "locking"] /\ UNCHANGED lock
    BY <1>4 DEF Configure, Goto, database
  <2>2. pc'[m] = "locking" /\ \A j \in Migrators : j # m => pc'[j] = pc[j]
    BY <1>1, <2>1 DEF TypeOK
  <2>3. TypeOK' /\ Session(m)'
    BY <1>1, <1>2, <1>3, <2>1, <2>2 DEF TypeOK, Session, Holding, Inside, Trying
  <2>4. \A j \in Migrators : j # m => UNCHANGED Own(j)
    BY <1>2, <2>2 DEF Own
  <2> QED
    BY <1>2, <2>1, <2>3, <2>4, QuietKeeps
<1>5. CASE Lock(m)
  <2>1. pc[m] = "locking" /\ pc' = [pc EXCEPT ![m] = "versioning"] /\ lock = NoOne /\ lock' = m
    BY <1>5 DEF Lock, Goto, LockFree
  <2>2. pc'[m] = "versioning" /\ \A j \in Migrators : j # m => pc'[j] = pc[j]
    BY <1>1, <2>1 DEF TypeOK
  <2>3. TypeOK' /\ Session(m)'
    BY <1>1, <1>2, <1>3, <2>1, <2>2 DEF TypeOK, Session, Holding, Inside, Trying
  <2>4. \A j \in Migrators : j # m => UNCHANGED Own(j)
    BY <1>2, <2>2 DEF Own
  <2> QED
    BY <1>2, <2>1, <2>3, <2>4, QuietKeeps
<1> QED
  BY <1>4, <1>5

LEMMA VersionKeeps ==
  ASSUME MInv, NEW m \in Migrators, Version(m)
  PROVE  MInv'
<1>1. TypeOK /\ Session(m) /\ m # NoOne /\ found[m] \in Seq(Nat)
  BY MigrationsAssumption, MigratorsAssumption DEF MInv, AppliedInOrder, TypeOK
<1>2. /\ pc[m] = "versioning" /\ UNCHANGED <<found, plan, outcome, lock, work, applied, rows, events>>
      /\ base' = [base EXCEPT ![m] = rows] /\ next' = [next EXCEPT ![m] = 0]
  BY DEF Version, database
<1>3. \/ /\ rows > Len(plan[m])
         /\ raised' = [raised EXCEPT ![m] = "error"] /\ pc' = [pc EXCEPT ![m] = "unlocking"]
      \/ /\ ~(rows > Len(plan[m]))
         /\ UNCHANGED raised /\ pc' = [pc EXCEPT ![m] = "deciding"]
  BY DEF Version, Exceeds, Goto
<1>4. /\ base'[m] = rows /\ next'[m] = 0
      /\ \/ raised'[m] = "error" /\ pc'[m] = "unlocking"
         \/ ~(rows > Len(plan[m])) /\ raised'[m] = raised[m] /\ pc'[m] = "deciding"
      /\ \A j \in Migrators : j # m =>
            base'[j] = base[j] /\ next'[j] = next[j] /\ raised'[j] = raised[j] /\ pc'[j] = pc[j]
  BY <1>1, <1>2, <1>3 DEF TypeOK
<1>5. TypeOK'
  BY <1>1, <1>2, <1>3 DEF TypeOK
<1>6. Numbered(found[m])' <=> Numbered(found[m])
  BY <1>2 DEF Numbered
<1>7. rows \in Nat /\ Len(plan[m]) \in Nat
  BY <1>1 DEF TypeOK
<1>8. Session(m)'
  BY <1>1, <1>2, <1>4, <1>6, <1>7 DEF Session, Holding, Inside, Trying
<1>9. \A j \in Migrators : j # m => UNCHANGED Own(j)
  BY <1>2, <1>4 DEF Own
<1> QED
  BY <1>2, <1>5, <1>8, <1>9, QuietKeeps

LEMMA DecideKeeps ==
  ASSUME MInv, NEW m \in Migrators, Decide(m)
  PROVE  MInv'
<1>1. TypeOK /\ Session(m) /\ m # NoOne /\ found[m] \in Seq(Nat)
  BY MigrationsAssumption, MigratorsAssumption DEF MInv, AppliedInOrder, TypeOK
<1>2. /\ pc[m] = "deciding"
      /\ UNCHANGED <<found, plan, base, next, raised, outcome, lock, work, applied, rows, events>>
      /\ \/ base[m] + next[m] < Len(plan[m]) /\ pc' = [pc EXCEPT ![m] = "migrating"]
         \/ ~(base[m] + next[m] < Len(plan[m])) /\ pc' = [pc EXCEPT ![m] = "unlocking"]
  BY DEF Decide, database, Goto
<1>3. /\ \/ base[m] + next[m] < Len(plan[m]) /\ pc'[m] = "migrating"
         \/ ~(base[m] + next[m] < Len(plan[m])) /\ pc'[m] = "unlocking"
      /\ \A j \in Migrators : j # m => pc'[j] = pc[j]
  BY <1>1, <1>2 DEF TypeOK
<1>4. TypeOK'
  BY <1>1, <1>2 DEF TypeOK
<1>5. Numbered(found[m])' <=> Numbered(found[m])
  BY <1>2 DEF Numbered
<1>6. rows \in Nat /\ Len(plan[m]) \in Nat /\ base[m] \in Nat /\ next[m] \in Nat
  BY <1>1 DEF TypeOK
<1>7. Session(m)'
  BY <1>1, <1>2, <1>3, <1>5, <1>6 DEF Session, Holding, Inside, Trying
<1>8. \A j \in Migrators : j # m => UNCHANGED Own(j)
  BY <1>2, <1>3 DEF Own
<1> QED
  BY <1>2, <1>4, <1>7, <1>8, QuietKeeps

LEMMA MigrateKeeps ==
  ASSUME MInv, NEW m \in Migrators, Migrate(m)
  PROVE  MInv'
<1>1. TypeOK /\ Session(m) /\ m # NoOne
  BY MigratorsAssumption DEF MInv, AppliedInOrder
<1>2. /\ pc[m] = "migrating" /\ pc' = [pc EXCEPT ![m] = "completing"]
      /\ work' = [work EXCEPT ![m].applied = Append(@, plan[m][base[m] + next[m] + 1])]
      /\ UNCHANGED <<found, plan, base, next, raised, outcome, lock, applied, rows, events>>
  BY DEF Migrate, Goto
<1>3. work[m] = NoWork /\ base[m] + next[m] = rows /\ rows < Len(plan[m]) /\ lock = m
  BY <1>1, <1>2 DEF Session, Holding, Inside
<1>4. rows \in Nat /\ Len(plan[m]) \in Nat /\ plan[m] \in Seq(Nat)
  BY <1>1 DEF TypeOK
<1>5. plan[m][base[m] + next[m] + 1] = rows
  <2>1. rows + 1 \in DOMAIN plan[m]
    BY <1>3, <1>4
  <2>2. plan[m][rows + 1] = (rows + 1) - 1
    BY <1>1, <2>1 DEF Session
  <2> QED
    BY <1>3, <1>4, <2>2
<1>6. work'[m] = WorkOn(rows, 0)
  <2>1. work'[m] = [work[m] EXCEPT !.applied = Append(work[m].applied, rows)]
    BY <1>1, <1>2, <1>5 DEF TypeOK
  <2>2. [NoWork EXCEPT !.applied = Append(NoWork.applied, rows)] = WorkOn(rows, 0)
    BY <1>4 DEF NoWork, WorkOn
  <2> QED
    BY <1>3, <2>1, <2>2
<1>7. /\ pc'[m] = "completing"
      /\ \A j \in Migrators : j # m => pc'[j] = pc[j] /\ work'[j] = work[j]
  BY <1>1, <1>2 DEF TypeOK
<1>8. TypeOK'
  <2>1. WorkOn(rows, 0) \in [applied : Seq(Nat), rows : Nat]
    BY <1>4 DEF WorkOn
  <2>2. work' = [work EXCEPT ![m] = WorkOn(rows, 0)]
    BY <1>1, <1>2, <1>6 DEF TypeOK
  <2>3. work' \in [Migrators -> [applied : Seq(Nat), rows : Nat]]
    BY <1>1, <2>1, <2>2 DEF TypeOK
  <2> QED
    BY <1>1, <1>2, <2>3 DEF TypeOK
<1>9. Numbered(found[m])' <=> Numbered(found[m])
  BY <1>2 DEF Numbered
<1>10. Session(m)'
  BY <1>1, <1>2, <1>3, <1>6, <1>7, <1>9 DEF Session, Holding, Inside, Trying, WorkOn
<1>11. \A j \in Migrators : j # m => UNCHANGED Own(j)
  BY <1>2, <1>7 DEF Own
<1> QED
  BY <1>2, <1>8, <1>10, <1>11, QuietKeeps

LEMMA CompleteKeeps ==
  ASSUME MInv, NEW m \in Migrators, Complete(m)
  PROVE  MInv'
<1>1. TypeOK /\ Session(m) /\ m # NoOne
  BY MigratorsAssumption DEF MInv, AppliedInOrder
<1>2. /\ pc[m] = "completing" /\ pc' = [pc EXCEPT ![m] = "committing"]
      /\ work' = [work EXCEPT ![m].rows = @ + 1]
      /\ UNCHANGED <<found, plan, base, next, raised, outcome, lock, applied, rows, events>>
  BY DEF Complete, Goto
<1>3. work[m] = WorkOn(rows, 0) /\ rows \in Nat /\ lock = m
  BY <1>1, <1>2 DEF Session, Holding, TypeOK
<1>4. work'[m] = WorkOn(rows, 1)
  <2>1. work'[m] = [work[m] EXCEPT !.rows = work[m].rows + 1]
    BY <1>1, <1>2 DEF TypeOK
  <2>2. [WorkOn(rows, 0) EXCEPT !.rows = WorkOn(rows, 0).rows + 1] = WorkOn(rows, 1)
    BY DEF WorkOn
  <2> QED
    BY <1>3, <2>1, <2>2
<1>5. /\ pc'[m] = "committing"
      /\ \A j \in Migrators : j # m => pc'[j] = pc[j] /\ work'[j] = work[j]
  BY <1>1, <1>2 DEF TypeOK
<1>6. TypeOK'
  <2>1. WorkOn(rows, 1) \in [applied : Seq(Nat), rows : Nat]
    BY <1>3 DEF WorkOn
  <2>2. work' = [work EXCEPT ![m] = WorkOn(rows, 1)]
    BY <1>1, <1>2, <1>4 DEF TypeOK
  <2>3. work' \in [Migrators -> [applied : Seq(Nat), rows : Nat]]
    BY <1>1, <2>1, <2>2 DEF TypeOK
  <2> QED
    BY <1>1, <1>2, <2>3 DEF TypeOK
<1>7. Numbered(found[m])' <=> Numbered(found[m])
  BY <1>2 DEF Numbered
<1>8. Session(m)'
  BY <1>1, <1>2, <1>3, <1>4, <1>5, <1>7 DEF Session, Holding, Inside, Trying, WorkOn
<1>9. \A j \in Migrators : j # m => UNCHANGED Own(j)
  BY <1>2, <1>5 DEF Own
<1> QED
  BY <1>2, <1>6, <1>8, <1>9, QuietKeeps

LEMMA CommitKeeps ==
  ASSUME MInv, NEW m \in Migrators, Commit(m)
  PROVE  MInv'
<1>1. TypeOK /\ Session(m) /\ m # NoOne
  BY MigratorsAssumption DEF MInv, AppliedInOrder
<1>2. /\ pc[m] = "committing" /\ pc' = [pc EXCEPT ![m] = "deciding"] /\ Effect(m)
      /\ next' = [next EXCEPT ![m] = @ + 1]
      /\ UNCHANGED <<found, plan, base, raised, outcome, lock, events>>
  BY DEF Commit, Goto
<1>3. /\ work[m] = WorkOn(rows, 1) /\ lock = m /\ base[m] + next[m] = rows /\ rows < Len(plan[m])
      /\ rows \in Nat /\ base[m] \in Nat /\ next[m] \in Nat /\ Len(plan[m]) \in Nat
  BY <1>1, <1>2 DEF Session, Holding, Inside, TypeOK
<1>4. AppliedInOrder' /\ rows' = rows + 1 /\ rows <= rows'
  <2>1. next' \in [Migrators -> Nat] /\ pc' \in [Migrators -> {"new", "configuring", "locking",
            "versioning", "deciding", "migrating", "completing", "committing", "unlocking",
            "resetting", "releasing", "returned", "lost", "crashed"}]
    BY <1>1, <1>2, <1>3 DEF TypeOK
  <2>2. /\ applied' \in Seq(Nat) /\ rows' \in Nat
        /\ work' \in [Migrators -> [applied : Seq(Nat), rows : Nat]]
    BY <1>2, <1>3, EffectKeeps
  <2>3. TypeOK'
    BY <1>1, <1>2, <2>1, <2>2 DEF TypeOK
  <2> QED
    BY <1>2, <1>3, <2>3, EffectKeeps DEF AppliedInOrder
<1>5. /\ pc'[m] = "deciding" /\ next'[m] = next[m] + 1 /\ work'[m] = NoWork
      /\ \A j \in Migrators : j # m => pc'[j] = pc[j] /\ next'[j] = next[j] /\ work'[j] = work[j]
  BY <1>1, <1>2 DEF TypeOK, Effect
<1>6. Numbered(found[m])' <=> Numbered(found[m])
  BY <1>2 DEF Numbered
<1>7. found[m] \in Seq(Nat) /\ Len(found[m]) \in Nat
  BY <1>1, MigrationsAssumption DEF TypeOK
<1>8. base'[m] + next'[m] = rows' /\ rows' <= Len(plan'[m]) /\ plan' = plan /\ outcome' = outcome
      /\ lock' = m /\ raised' = raised /\ found' = found
  BY <1>2, <1>3, <1>4, <1>5
<1>9. outcome[m] = "success" => Numbered(found[m]) /\ rows' >= Len(found[m])
  BY <1>1, <1>3, <1>4, <1>7 DEF Session
<1>10. raised[m] = "none" /\ Numbered(found[m]) /\ Len(plan[m]) = Len(found[m])
       /\ \A n \in DOMAIN plan[m] : plan[m][n] = n - 1
  BY <1>1, <1>2 DEF Session, Trying
<1>11. Session(m)'
  BY <1>5, <1>6, <1>8, <1>9, <1>10 DEF Session, Holding, Inside, Trying
<1>12. \A j \in Migrators : j # m => UNCHANGED Own(j)
  BY <1>2, <1>5 DEF Own
<1> QED
  BY <1>2, <1>3, <1>4, <1>11, <1>12, StepKeeps

LEMMA FailsKeeps ==
  ASSUME MInv, NEW m \in Migrators, Fails(m)
  PROVE  MInv'
<1>1. TypeOK /\ Session(m) /\ m # NoOne
  BY MigratorsAssumption DEF MInv, AppliedInOrder
<1>2. PICK exc \in {"error", "cancelled"} : raised' = [raised EXCEPT ![m] = exc]
  BY DEF Fails
<1>3. /\ pc[m] \in Trying /\ pc' = [pc EXCEPT ![m] = "unlocking"]
      /\ UNCHANGED <<found, plan, base, next, outcome, events>>
      /\ lock' = lock \/ (pc[m] = "locking" /\ lock = NoOne /\ lock' = m)
  BY DEF Fails, Goto, LockFree
<1>4. /\ work' = [work EXCEPT ![m] = NoWork]
      /\ (pc[m] = "committing" /\ Effect(m)) \/ (applied' = applied /\ rows' = rows)
  <2>1. CASE pc[m] = "committing" /\ Effect(m)
    <3>1. work' = [work EXCEPT ![m] = NoWork]
      BY <2>1 DEF Effect
    <3> QED
      BY <2>1, <3>1
  <2>2. CASE work' = [work EXCEPT ![m] = NoWork] /\ UNCHANGED <<applied, rows>>
    BY <2>2
  <2> QED
    BY <2>1, <2>2 DEF Fails
<1>5. /\ pc'[m] = "unlocking" /\ raised'[m] = exc /\ exc # "none" /\ work'[m] = NoWork
      /\ \A j \in Migrators : j # m => pc'[j] = pc[j] /\ raised'[j] = raised[j] /\ work'[j] = work[j]
  BY <1>1, <1>2, <1>3, <1>4 DEF TypeOK
<1>6. \A j \in Migrators : j # m => UNCHANGED Own(j)
  BY <1>3, <1>5 DEF Own
<1>7. Numbered(found[m])' <=> Numbered(found[m])
  BY <1>3 DEF Numbered
<1>8. rows \in Nat /\ found[m] \in Seq(Nat) /\ Len(found[m]) \in Nat
  BY <1>1, MigrationsAssumption DEF TypeOK
<1>9. CASE applied' = applied /\ rows' = rows
  <2>1. TypeOK'
    <3>1. NoWork \in [applied : Seq(Nat), rows : Nat]
      BY DEF NoWork
    <3> QED
      BY <1>1, <1>2, <1>3, <1>4, <1>9, <3>1 DEF TypeOK
  <2>2. Session(m)'
    BY <1>1, <1>3, <1>5, <1>7, <1>8, <1>9 DEF Session, Holding, Inside, Trying
  <2> QED
    BY <1>3, <1>6, <1>9, <2>1, <2>2, QuietKeeps
<1>10. CASE pc[m] = "committing" /\ Effect(m)
  <2>1. work[m] = WorkOn(rows, 1) /\ lock = m /\ lock' = m
    BY <1>1, <1>3, <1>10 DEF Session, Holding
  <2>2. AppliedInOrder' /\ rows' = rows + 1 /\ rows <= rows'
    <3>1. TypeOK'
      BY <1>1, <1>2, <1>3, <1>10, <2>1, EffectKeeps DEF TypeOK
    <3> QED
      BY <1>10, <2>1, <3>1, EffectKeeps DEF AppliedInOrder
  <2>3. Session(m)'
    BY <1>1, <1>3, <1>5, <1>7, <1>8, <2>1, <2>2 DEF Session, Holding, Inside, Trying
  <2> QED
    BY <1>3, <1>6, <2>1, <2>2, <2>3, StepKeeps
<1> QED
  BY <1>4, <1>9, <1>10

LEMMA UnlockKeeps ==
  ASSUME MInv, NEW m \in Migrators, Unlock(m) \/ Reset(m) \/ FinallyFails(m)
  PROVE  MInv'
<1>1. TypeOK /\ Session(m) /\ m # NoOne
  BY MigratorsAssumption DEF MInv, AppliedInOrder
<1>2. /\ UNCHANGED <<found, plan, base, next, outcome, work, applied, rows, events>>
      /\ raised' = raised \/ \E exc \in {"error", "cancelled"} : raised' = [raised EXCEPT ![m] = exc]
      /\ \/ /\ pc[m] = "unlocking" /\ pc' = [pc EXCEPT ![m] = "resetting"]
            /\ lock' = lock \/ lock' = Unlocked(m)
         \/ pc[m] = "resetting" /\ pc' = [pc EXCEPT ![m] = "releasing"] /\ lock' = lock
  BY DEF Unlock, Reset, FinallyFails, Goto, database
<1>3. lock' = lock \/ (lock = m /\ lock' = NoOne)
  BY <1>2 DEF Unlocked
<1>4. /\ raised'[m] \in {raised[m], "error", "cancelled"}
      /\ \/ pc[m] = "unlocking" /\ pc'[m] = "resetting"
         \/ pc[m] = "resetting" /\ pc'[m] = "releasing"
      /\ \A j \in Migrators : j # m => pc'[j] = pc[j] /\ raised'[j] = raised[j]
  BY <1>1, <1>2 DEF TypeOK
<1>5. TypeOK'
  BY <1>1, <1>2, <1>3 DEF TypeOK
<1>6. Numbered(found[m])' <=> Numbered(found[m])
  BY <1>2 DEF Numbered
<1>7. rows \in Nat /\ found[m] \in Seq(Nat) /\ Len(found[m]) \in Nat
  BY <1>1, MigrationsAssumption DEF TypeOK
<1>8. Session(m)'
  BY <1>1, <1>2, <1>4, <1>6, <1>7 DEF Session, Holding, Inside, Trying
<1>9. \A j \in Migrators : j # m => UNCHANGED Own(j)
  BY <1>2, <1>4 DEF Own
<1> QED
  BY <1>2, <1>3, <1>5, <1>8, <1>9, QuietKeeps

LEMMA ReleaseKeeps ==
  ASSUME MInv, NEW m \in Migrators, Release(m)
  PROVE  MInv'
<1>1. TypeOK /\ Session(m) /\ m # NoOne
  BY MigratorsAssumption DEF MInv, AppliedInOrder
<1>2. /\ UNCHANGED <<found, plan, base, next, raised, work, applied, rows, events>>
      /\ pc[m] = "releasing" /\ pc' = [pc EXCEPT ![m] = "returned"]
      /\ outcome' = [outcome EXCEPT ![m] = IF raised[m] = "none" THEN "success" ELSE raised[m]]
  BY DEF Release, Goto
<1>3. lock' = lock \/ (lock = m /\ lock' = NoOne)
  BY DEF Release, Unlocked
<1>4. /\ outcome'[m] = "success" => raised[m] = "none"
      /\ pc'[m] = "returned"
      /\ \A j \in Migrators : j # m => pc'[j] = pc[j] /\ outcome'[j] = outcome[j]
  BY <1>1, <1>2 DEF TypeOK
<1>5. TypeOK'
  BY <1>1, <1>2, <1>3 DEF TypeOK
<1>6. Numbered(found[m])' <=> Numbered(found[m])
  BY <1>2 DEF Numbered
<1>7. Session(m)'
  BY <1>1, <1>2, <1>4, <1>6 DEF Session, Holding, Inside, Trying
<1>8. \A j \in Migrators : j # m => UNCHANGED Own(j)
  BY <1>2, <1>4 DEF Own
<1> QED
  BY <1>2, <1>3, <1>5, <1>7, <1>8, QuietKeeps

LEMMA CrashKeeps ==
  ASSUME MInv, NEW m \in Migrators, Crash(m)
  PROVE  MInv'
<1>1. TypeOK /\ Session(m) /\ m # NoOne
  BY MigratorsAssumption DEF MInv, AppliedInOrder
<1>2. /\ UNCHANGED <<found, plan, base, next, raised, outcome, lock, work, applied, rows>>
      /\ pc' = [pc EXCEPT ![m] = "lost"] /\ pc[m] \notin {"new", "returned", "lost", "crashed"}
      /\ events' \in 0..MaxEvents
  BY <1>1, MigrationsAssumption DEF Crash, Goto, database, TypeOK
<1>3. pc'[m] = "lost" /\ \A j \in Migrators : j # m => pc'[j] = pc[j]
  BY <1>1, <1>2 DEF TypeOK
<1>4. TypeOK'
  BY <1>1, <1>2 DEF TypeOK
<1>5. Numbered(found[m])' <=> Numbered(found[m])
  BY <1>2 DEF Numbered
<1>6. work[m] \in {NoWork, WorkOn(rows, 0), WorkOn(rows, 1)}
  BY <1>1 DEF Session
<1>7. Session(m)'
  BY <1>1, <1>2, <1>3, <1>5, <1>6 DEF Session, Holding, Inside, Trying, WorkOn
<1>8. \A j \in Migrators : j # m => UNCHANGED Own(j)
  BY <1>2, <1>3 DEF Own
<1> QED
  BY <1>2, <1>4, <1>7, <1>8, QuietKeeps

LEMMA SessionEndsKeeps ==
  ASSUME MInv, NEW m \in Migrators, SessionEnds(m)
  PROVE  MInv'
<1>1. TypeOK /\ Session(m) /\ m # NoOne
  BY MigratorsAssumption DEF MInv, AppliedInOrder
<1>2. /\ pc[m] = "lost" /\ pc' = [pc EXCEPT ![m] = "crashed"]
      /\ UNCHANGED <<found, plan, base, next, raised, outcome, events>>
      /\ lock' = lock \/ (lock = m /\ lock' = NoOne)
  BY DEF SessionEnds, Goto, Unlocked
<1>3. /\ work' = [work EXCEPT ![m] = NoWork]
      /\ (work[m].rows > 0 /\ Effect(m)) \/ (applied' = applied /\ rows' = rows)
  <2>1. CASE work[m].rows > 0 /\ Effect(m)
    <3>1. work' = [work EXCEPT ![m] = NoWork]
      BY <2>1 DEF Effect
    <3> QED
      BY <2>1, <3>1
  <2>2. CASE work' = [work EXCEPT ![m] = NoWork] /\ UNCHANGED <<applied, rows>>
    BY <2>2
  <2> QED
    BY <2>1, <2>2 DEF SessionEnds
<1>4. /\ pc'[m] = "crashed" /\ work'[m] = NoWork
      /\ \A j \in Migrators : j # m => pc'[j] = pc[j] /\ work'[j] = work[j]
  BY <1>1, <1>2, <1>3 DEF TypeOK
<1>5. \A j \in Migrators : j # m => UNCHANGED Own(j)
  BY <1>2, <1>4 DEF Own
<1>6. Numbered(found[m])' <=> Numbered(found[m])
  BY <1>2 DEF Numbered
<1>7. rows \in Nat /\ found[m] \in Seq(Nat) /\ Len(found[m]) \in Nat
  BY <1>1, MigrationsAssumption DEF TypeOK
<1>8. CASE applied' = applied /\ rows' = rows
  <2>1. TypeOK'
    <3>1. NoWork \in [applied : Seq(Nat), rows : Nat]
      BY DEF NoWork
    <3> QED
      BY <1>1, <1>2, <1>3, <1>8, <3>1 DEF TypeOK
  <2>2. Session(m)'
    BY <1>1, <1>2, <1>4, <1>6, <1>7, <1>8 DEF Session, Holding, Inside, Trying
  <2> QED
    BY <1>2, <1>5, <1>8, <2>1, <2>2, QuietKeeps
<1>9. CASE work[m].rows > 0 /\ Effect(m)
  <2>1. NoWork.rows = 0 /\ WorkOn(rows, 0).rows = 0
    BY DEF NoWork, WorkOn
  <2>2. work[m] = WorkOn(rows, 1) /\ WorkOn(rows, 1).rows = 1
    BY <1>1, <1>2, <1>9, <2>1 DEF Session, WorkOn
  <2>3. lock = m
    BY <1>1, <2>1, <2>2 DEF Session
  <2>4. AppliedInOrder' /\ rows' = rows + 1 /\ rows <= rows'
    <3>1. TypeOK'
      BY <1>1, <1>2, <1>9, <2>2, EffectKeeps DEF TypeOK
    <3> QED
      BY <1>9, <2>2, <3>1, EffectKeeps DEF AppliedInOrder
  <2>5. Session(m)'
    BY <1>1, <1>2, <1>4, <1>6, <1>7, <2>4 DEF Session, Holding, Inside, Trying
  <2> QED
    BY <1>2, <1>5, <2>3, <2>4, <2>5, StepKeeps
<1> QED
  BY <1>3, <1>8, <1>9

LEMMA RestartKeeps ==
  ASSUME MInv, NEW m \in Migrators, Restart(m)
  PROVE  MInv'
<1>1. TypeOK /\ Session(m) /\ m # NoOne
  BY MigratorsAssumption DEF MInv, AppliedInOrder
<1>2. PICK names \in Packages : found' = [found EXCEPT ![m] = names]
  BY DEF Restart
<1>3. /\ UNCHANGED <<plan, base, next, lock, work, applied, rows>>
      /\ raised' = [raised EXCEPT ![m] = "none"] /\ outcome' = [outcome EXCEPT ![m] = "none"]
      /\ pc' = [pc EXCEPT ![m] = "new"] /\ pc[m] \in {"crashed", "returned"}
      /\ events' = events + 1 /\ events < MaxEvents
  BY DEF Restart, Goto, database
<1>4. /\ pc'[m] = "new" /\ raised'[m] = "none" /\ outcome'[m] = "none"
      /\ \A j \in Migrators : j # m => pc'[j] = pc[j] /\ raised'[j] = raised[j]
                                       /\ outcome'[j] = outcome[j] /\ found'[j] = found[j]
  BY <1>1, <1>2, <1>3 DEF TypeOK
<1>5. TypeOK'
  <2>1. events' \in 0..MaxEvents
    BY <1>1, <1>3, MigrationsAssumption DEF TypeOK
  <2> QED
    BY <1>1, <1>2, <1>3, <2>1 DEF TypeOK
<1>6. Session(m)'
  BY <1>1, <1>3, <1>4 DEF Session, Holding, Inside, Trying
<1>7. \A j \in Migrators : j # m => UNCHANGED Own(j)
  BY <1>3, <1>4 DEF Own
<1> QED
  BY <1>3, <1>5, <1>6, <1>7, QuietKeeps

LEMMA MInvStep == MInv /\ [Next]_vars => MInv'
<1> SUFFICES ASSUME MInv, [Next]_vars PROVE MInv'
  OBVIOUS
<1>1. ASSUME NEW m \in Migrators,
             \/ Statement(m) \/ NotPrepared(m) \/ Fails(m) \/ FinallyFails(m)
             \/ Crash(m) \/ SessionEnds(m) \/ Restart(m)
      PROVE  MInv'
  BY <1>1, DiscoverKeeps, NotPreparedKeeps, LockingKeeps, VersionKeeps, DecideKeeps, MigrateKeeps,
     CompleteKeeps, CommitKeeps, FailsKeeps, UnlockKeeps, ReleaseKeeps, CrashKeeps, SessionEndsKeeps, RestartKeeps
     DEF Statement
<1>2. CASE UNCHANGED vars
  <2>1. UNCHANGED <<found, plan, pc, base, next, raised, outcome, lock, work, applied, rows, events>>
    BY <1>2 DEF vars, processes, database
  <2>2. AppliedInOrder /\ \A m \in Migrators : Session(m)
    BY DEF MInv
  <2>3. AppliedInOrder'
    BY <2>1, <2>2, Zenon DEF AppliedInOrder, TypeOK
  <2>4. ASSUME NEW m \in Migrators PROVE Session(m)'
    <3>1. Session(m)
      BY <2>2
    <3> QED
      BY <2>1, <3>1 DEF Session, Numbered, WorkOn
  <2> QED
    BY <2>3, <2>4 DEF MInv
<1> QED
  BY <1>1, <1>2 DEF Next

LEMMA MInvHolds == Spec => []MInv
<1> QED
  BY MInvInit, MInvStep, PTL DEF Spec

\* Every migration takes effect once and in order, with the row that counts it,
\* whatever crashes, races or is cancelled in execute_migrations.
THEOREM AppliedInOrderHolds == Spec => []AppliedInOrder
<1>1. MInv => AppliedInOrder
  BY DEF MInv
<1> QED
  BY <1>1, MInvHolds, PTL

\* A run of execute_migrations that succeeds leaves the database at the version
\* of its deployment or, once others went on, ahead of it.
THEOREM UpToDateHolds == Spec => []UpToDate
<1>1. MInv => UpToDate
  BY DEF MInv, Session, UpToDate
<1> QED
  BY <1>1, MInvHolds, PTL
-----------------------------------------------------------------------------
\* What the distance of a run to its end depends on.
Place(j) == <<pc[j], plan[j], base[j], next[j]>>

LEMMA OthersStay ==
  ASSUME NEW j \in Migrators, UNCHANGED Place(j)
  PROVE  StageLeft(j)' = StageLeft(j) /\ LoopLeft(j)' = LoopLeft(j)
<1>1. /\ pc[j]' = pc[j] /\ base[j]' = base[j] /\ next[j]' = next[j]
      /\ plan[j]' = plan[j] /\ Len(plan[j])' = Len(plan[j])
  BY DEF Place
<1> QED
  BY <1>1 DEF StageLeft, LoopLeft

LEMMA LeftTyped ==
  ASSUME NEW m \in Migrators
  PROVE  MInv => StageLeft(m) \in 0..8 /\ LoopLeft(m) \in Nat
<1> SUFFICES ASSUME MInv PROVE StageLeft(m) \in 0..8 /\ LoopLeft(m) \in Nat
  OBVIOUS
<1>1. TypeOK /\ Session(m)
  BY DEF MInv, AppliedInOrder
<1>2. StageLeft(m) \in 0..8
  BY <1>1 DEF TypeOK, StageLeft
<1>3. pc[m] \in Inside \cup {"deciding"} => 4 * (Len(plan[m]) - base[m] - next[m]) \in Nat
  BY <1>1 DEF Session, TypeOK
<1>4. LoopLeft(m) \in Nat
  BY <1>3 DEF LoopLeft, Inside
<1> QED
  BY <1>2, <1>4

\* The steps that leave the loop alone come to a later place.
LEMMA StageGoesDown ==
  ASSUME MInv, NEW m \in Migrators,
         \/ Discover(m) \/ NotPrepared(m) \/ Configure(m) \/ Lock(m) \/ Version(m)
         \/ Fails(m) \/ Unlock(m) \/ Reset(m) \/ FinallyFails(m) \/ Release(m) \/ SessionEnds(m)
  PROVE  /\ StageLeft(m)' < StageLeft(m)
         /\ events' = events
         /\ \A j \in Migrators \ {m} : UNCHANGED Place(j)
<1>1. TypeOK
  BY DEF MInv, AppliedInOrder
<1>2. /\ events' = events
      /\ \/ pc[m] = "new" /\ \E to \in {"configuring", "releasing"} : Goto(m, to)
         \/ pc[m] = "configuring" /\ Goto(m, "locking")
         \/ pc[m] = "locking" /\ Goto(m, "versioning")
         \/ pc[m] = "versioning" /\ \E to \in {"deciding", "unlocking"} : Goto(m, to)
         \/ pc[m] \in Trying /\ Goto(m, "unlocking")
         \/ pc[m] = "unlocking" /\ Goto(m, "resetting")
         \/ pc[m] = "resetting" /\ Goto(m, "releasing")
         \/ pc[m] = "releasing" /\ Goto(m, "returned")
         \/ pc[m] = "lost" /\ Goto(m, "crashed")
  BY DEF Discover, NotPrepared, Configure, Lock, Version, Fails, Unlock, Reset, FinallyFails,
         Release, SessionEnds, database
<1>3. \A j \in Migrators \ {m} : pc'[j] = pc[j]
  BY <1>1, <1>2 DEF Goto, TypeOK
<1>4. \A j \in Migrators \ {m} : plan'[j] = plan[j] /\ base'[j] = base[j] /\ next'[j] = next[j]
  BY <1>1
  DEF Discover, NotPrepared, Configure, Lock, Version, Fails, Unlock, Reset, FinallyFails,
      Release, SessionEnds, TypeOK
<1>5. \/ pc[m] = "new" /\ pc'[m] \in {"configuring", "releasing"}
      \/ pc[m] = "configuring" /\ pc'[m] = "locking"
      \/ pc[m] = "locking" /\ pc'[m] = "versioning"
      \/ pc[m] = "versioning" /\ pc'[m] \in {"deciding", "unlocking"}
      \/ pc[m] \in Trying /\ pc'[m] = "unlocking"
      \/ pc[m] = "unlocking" /\ pc'[m] = "resetting"
      \/ pc[m] = "resetting" /\ pc'[m] = "releasing"
      \/ pc[m] = "releasing" /\ pc'[m] = "returned"
      \/ pc[m] = "lost" /\ pc'[m] = "crashed"
  BY <1>1, <1>2 DEF Goto, TypeOK
<1>6. StageLeft(m)' < StageLeft(m)
  BY <1>5 DEF StageLeft, Trying
<1> QED
  BY <1>2, <1>3, <1>4, <1>6 DEF Place

\* The steps of the loop: leaving it, or one statement further in it.
LEMMA LoopGoesDown ==
  ASSUME MInv, NEW m \in Migrators, Decide(m) \/ Migrate(m) \/ Complete(m) \/ Commit(m)
  PROVE  /\ \/ StageLeft(m)' < StageLeft(m)
            \/ StageLeft(m)' = StageLeft(m) /\ LoopLeft(m)' < LoopLeft(m)
         /\ events' = events
         /\ \A j \in Migrators \ {m} : UNCHANGED Place(j)
<1>1. TypeOK /\ Session(m)
  BY DEF MInv, AppliedInOrder
<1>2. /\ plan' = plan /\ base' = base /\ events' = events
      /\ \/ next' = next
         \/ pc[m] = "committing" /\ next' = [next EXCEPT ![m] = @ + 1]
  BY DEF Decide, Migrate, Complete, Commit, database
<1>3. \A j \in Migrators \ {m} : pc'[j] = pc[j] /\ next'[j] = next[j]
  BY <1>1, <1>2 DEF Decide, Migrate, Complete, Commit, Goto, TypeOK
<1>4. \/ pc[m] = "deciding" /\ pc'[m] \in {"migrating", "unlocking"} /\ next'[m] = next[m]
      \/ pc[m] = "migrating" /\ pc'[m] = "completing" /\ next'[m] = next[m]
      \/ pc[m] = "completing" /\ pc'[m] = "committing" /\ next'[m] = next[m]
      \/ pc[m] = "committing" /\ pc'[m] = "deciding" /\ next'[m] = next[m] + 1
  BY <1>1, <1>2 DEF Decide, Migrate, Complete, Commit, Goto, TypeOK, database
<1>5. PICK length \in Nat, from \in Nat, done \in Nat :
          length = Len(plan[m]) /\ from = base[m] /\ done = next[m]
  BY <1>1 DEF TypeOK
<1>6. Len(plan[m])' = length /\ base[m]' = from
  BY <1>2, <1>5
<1>7. CASE pc[m] = "deciding" /\ pc'[m] = "unlocking"
  BY <1>2, <1>3, <1>7 DEF StageLeft, Place
<1>8. CASE ~(pc[m] = "deciding" /\ pc'[m] = "unlocking")
  <2>1. StageLeft(m) = 4 /\ StageLeft(m)' = 4
    BY <1>4, <1>8 DEF StageLeft
  <2>2. LoopLeft(m)' < LoopLeft(m)
    <3>1. CASE pc[m] = "deciding"
      <4>1. LoopLeft(m) = 4 * (length - from - done) + 3
        BY <1>5, <3>1 DEF LoopLeft
      <4>2. pc'[m] = "migrating" /\ next'[m] = done
        BY <1>4, <1>8, <1>5, <3>1
      <4>3. LoopLeft(m)' = 4 * (length - from - done) + 2
        BY <1>6, <4>2 DEF LoopLeft
      <4>4. QED
        BY <4>1, <4>3
    <3>2. CASE pc[m] = "migrating"
      <4>1. LoopLeft(m) = 4 * (length - from - done) + 2
        BY <1>5, <3>2 DEF LoopLeft
      <4>2. pc'[m] = "completing" /\ next'[m] = done
        BY <1>4, <1>5, <3>2
      <4>3. LoopLeft(m)' = 4 * (length - from - done) + 1
        BY <1>6, <4>2 DEF LoopLeft
      <4>4. QED
        BY <4>1, <4>3
    <3>3. CASE pc[m] = "completing"
      <4>1. LoopLeft(m) = 4 * (length - from - done) + 1
        BY <1>5, <3>3 DEF LoopLeft
      <4>2. pc'[m] = "committing" /\ next'[m] = done
        BY <1>4, <1>5, <3>3
      <4>3. LoopLeft(m)' = 4 * (length - from - done)
        BY <1>6, <4>2 DEF LoopLeft
      <4>4. QED
        BY <4>1, <4>3
    <3>4. CASE pc[m] = "committing"
      <4>1. LoopLeft(m) = 4 * (length - from - done)
        BY <1>5, <3>4 DEF LoopLeft
      <4>2. pc'[m] = "deciding" /\ next'[m] = done + 1
        BY <1>4, <1>5, <3>4
      <4>3. LoopLeft(m)' = 4 * (length - from - (done + 1)) + 3
        BY <1>6, <4>2 DEF LoopLeft
      <4>4. QED
        BY <4>1, <4>3
    <3> QED
      BY <1>4, <3>1, <3>2, <3>3, <3>4
  <2> QED
    BY <1>2, <1>3, <2>1, <2>2 DEF Place
<1> QED
  BY <1>7, <1>8

LEMMA StartsCount ==
  ASSUME MInv, NEW m \in Migrators, Crash(m) \/ Restart(m)
  PROVE  events' > events /\ \A j \in Migrators \ {m} : UNCHANGED Place(j)
<1>1. TypeOK
  BY DEF MInv, AppliedInOrder
<1>2. events' > events
  BY <1>1, MigrationsAssumption DEF Crash, Restart, TypeOK
<1>3. \A j \in Migrators \ {m} : UNCHANGED Place(j)
  BY <1>1 DEF Crash, Restart, Goto, TypeOK, Place
<1> QED
  BY <1>2, <1>3

\* Runs come to an end, however processes crash, fail and start again: events
\* are bounded, what a run has left is a pair of natural numbers, and every step
\* makes the pair of one run smaller, in the order of pairs, and leaves the
\* others as they are.
THEOREM RunsEnd ==
  Spec => /\ [](\A m \in Migrators : StageLeft(m) \in 0..8 /\ LoopLeft(m) \in Nat)
          /\ EveryStepCounts
<1>1. MInv => \A m \in Migrators : StageLeft(m) \in 0..8 /\ LoopLeft(m) \in Nat
  BY LeftTyped
<1>2. MInv /\ [Next]_vars =>
        [\E m \in Migrators :
            /\ \A j \in Migrators \ {m} :
                StageLeft(j)' = StageLeft(j) /\ LoopLeft(j)' = LoopLeft(j)
            /\ \/ events' > events
               \/ events' = events /\ StageLeft(m)' < StageLeft(m)
               \/ events' = events /\ StageLeft(m)' = StageLeft(m) /\ LoopLeft(m)' < LoopLeft(m)]_vars
  <2> SUFFICES ASSUME MInv, NEW m \in Migrators,
                      \/ Statement(m) \/ NotPrepared(m) \/ Fails(m) \/ FinallyFails(m)
                      \/ Crash(m) \/ SessionEnds(m) \/ Restart(m)
               PROVE  /\ \A j \in Migrators \ {m} :
                          StageLeft(j)' = StageLeft(j) /\ LoopLeft(j)' = LoopLeft(j)
                      /\ \/ events' > events
                         \/ events' = events /\ StageLeft(m)' < StageLeft(m)
                         \/ /\ events' = events /\ StageLeft(m)' = StageLeft(m)
                            /\ LoopLeft(m)' < LoopLeft(m)
    BY DEF Next
  <2>1. \A j \in Migrators \ {m} : UNCHANGED Place(j)
    BY StageGoesDown, LoopGoesDown, StartsCount DEF Statement
  <2>2. \/ events' > events
        \/ events' = events /\ StageLeft(m)' < StageLeft(m)
        \/ events' = events /\ StageLeft(m)' = StageLeft(m) /\ LoopLeft(m)' < LoopLeft(m)
    BY StageGoesDown, LoopGoesDown, StartsCount DEF Statement
  <2> QED
    BY <2>1, <2>2, OthersStay
<1> QED
  BY <1>1, <1>2, MInvHolds, PTL DEF Spec, EveryStepCounts

\* The places where the lock may be held.
MayHold ==
    \A m \in Migrators :
        lock = m => pc[m] \notin {"new", "configuring", "locking", "returned", "crashed"}

LEMMA MayHoldStep == MInv /\ MayHold /\ [Next]_vars => MayHold'
<1> SUFFICES ASSUME MInv, MayHold, [Next]_vars PROVE MayHold'
  OBVIOUS
<1>1. TypeOK
  BY DEF MInv, AppliedInOrder
<1>2. ASSUME NEW m \in Migrators,
             \/ Statement(m) \/ NotPrepared(m) \/ Fails(m) \/ FinallyFails(m)
             \/ Crash(m) \/ SessionEnds(m) \/ Restart(m)
      PROVE  MayHold'
  <2>1. \A j \in Migrators : j # m => pc'[j] = pc[j]
    BY <1>1, <1>2
    DEF Statement, Discover, NotPrepared, Configure, Lock, Version, Decide, Migrate, Complete,
        Commit, Fails, Unlock, Reset, FinallyFails, Release, Crash, SessionEnds, Restart, Goto,
        TypeOK
  <2>2. lock' \in {lock, m, NoOne}
    BY <1>2
    DEF Statement, Discover, NotPrepared, Configure, Lock, Version, Decide, Migrate, Complete,
        Commit, Fails, Unlock, Reset, FinallyFails, Release, Crash, SessionEnds, Restart,
        Unlocked, database
  <2>3. lock' = m => pc'[m] \notin {"new", "configuring", "locking", "returned", "crashed"}
    <3>1. CASE Release(m) \/ SessionEnds(m)
      BY <3>1, MigratorsAssumption DEF Release, SessionEnds, Unlocked
    <3>2. CASE Lock(m) \/ Fails(m)
      BY <1>1, <3>2 DEF Lock, Fails, Goto, TypeOK
    <3>3. CASE \/ Discover(m) \/ NotPrepared(m) \/ Configure(m) \/ Restart(m)
      BY <1>1, <3>3, MigratorsAssumption
      DEF Discover, NotPrepared, Configure, Restart, database, MayHold, TypeOK
    <3>4. CASE \/ Version(m) \/ Decide(m) \/ Migrate(m) \/ Complete(m) \/ Commit(m)
               \/ Unlock(m) \/ Reset(m) \/ FinallyFails(m) \/ Crash(m)
      BY <1>1, <3>4
      DEF Version, Decide, Migrate, Complete, Commit, Unlock, Reset, FinallyFails, Crash, Goto,
          TypeOK
    <3> QED
      BY <1>2, <3>1, <3>2, <3>3, <3>4 DEF Statement
  <2>4. m # NoOne /\ \A j \in Migrators : j # NoOne
    BY MigratorsAssumption
  <2> QED
    BY <2>1, <2>2, <2>3, <2>4 DEF MayHold
<1>3. CASE UNCHANGED vars
  BY <1>3 DEF vars, processes, database, MayHold
<1> QED
  BY <1>2, <1>3 DEF Next

\* Whoever waits for the advisory lock waits for a process that has a statement
\* to make or whose session is about to end, never for one that is done with it,
\* although releases fail, are interrupted and crash.
THEOREM LockMovesOnHolds == Spec => []LockMovesOn
<1>1. Init => MayHold
  BY MigratorsAssumption DEF Init, MayHold
<1>2. MInv /\ MayHold => LockMovesOn
  BY DEF MInv, AppliedInOrder, TypeOK, MayHold, LockMovesOn
<1> QED
  BY <1>1, <1>2, MayHoldStep, MInvHolds, PTL DEF Spec
=============================================================================
