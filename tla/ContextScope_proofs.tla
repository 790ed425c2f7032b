------------------------ MODULE ContextScope_proofs ------------------------
(***************************************************************************)
(* Proofs about ContextScope, for every set of disposables and of tasks    *)
(* and any number of cancellations: ScopeInv is inductive, and with it no  *)
(* task outlives the resources it uses and no resource is forgotten.  What *)
(* is proved of its end is that every step leads there.                    *)
(***************************************************************************)
EXTENDS ContextScope, FiniteSetTheorems, TLAPS

LEMMA LayersShape ==
    ASSUME TypeOK
    PROVE  /\ Len(layers) \in {1, 2}
           /\ DOMAIN layers = 1..Len(layers)
           /\ \A n \in 1..Len(layers) : Layer(n) \subseteq Disposables
BY DEF TypeOK, Layer, Disposables

\* Going down the exit stack by one layer.
LEMMA FirstLayersStep ==
    ASSUME NEW n \in Nat \ {0}
    PROVE  FirstLayers(n) \subseteq FirstLayers(n - 1) \cup Layer(n)
<1> SUFFICES ASSUME NEW k \in 1..n, NEW d \in layers[k]
             PROVE  d \in FirstLayers(n - 1) \cup Layer(n)
  BY DEF FirstLayers
<1>1. CASE k = n
  BY <1>1 DEF Layer
<1>2. CASE k # n
  BY <1>2, k \in 1..(n - 1) DEF FirstLayers
<1>3. QED
  BY <1>1, <1>2

LEMMA NoLayersLeft == FirstLayers(0) = {}
BY DEF FirstLayers

LEMMA InitScopeInv == Init => ScopeInv
<1> SUFFICES ASSUME Init PROVE ScopeInv
  OBVIOUS
<1> USE ScopeAssumption
<1>1. TypeOK
  <2>1. layers \in {<<Own>>, <<Preset, Own>>} /\ Len(layers) \in Nat
    BY DEF Init
  <2>2. level \in 0..Len(layers) /\ pushed \in 0..Len(layers) /\ cancels \in 0..MaxCancels
    BY <2>1 DEF Init
  <2>3. /\ call \in [Disposables -> {"idle", "entering", "exiting"}]
        /\ failure \in [Disposables -> {"none", "error", "lookup", "cancelled"}]
        /\ child \in [Children -> {"new", "running", "stopping", "ended", "failed"}]
    BY DEF Init
  <2>4. QED
    BY <2>1, <2>2, <2>3 DEF Init, TypeOK
<1>2. Live = {}
  BY DEF Init, Live
<1>3. QED
  BY <1>1, <1>2 DEF Init, ScopeInv, TasksInScope, StackAccounts

\* What the exit stack does next: when everything held is still on the stack,
\* it goes on to deal with it.
LEMMA UnwindKeeps ==
    ASSUME TypeOK, UNCHANGED <<setup, held>>, NEW n \in 0..Len(layers), Unwind(n),
           spoiled' \in SUBSET Disposables,
           held \subseteq spoiled' \cup FirstLayers(n),
           \A d \in Disposables : call[d] = "idle",
           cancelled' => n # 0 /\ Layer(n) \subseteq spoiled'
    PROVE  /\ StackAccounts'
           /\ pc' \in {"leaving", "left"}
           /\ level' \in 0..Len(layers')
           /\ call' \in [Disposables -> {"idle", "entering", "exiting"}]
           /\ failure' \in [Disposables -> {"none", "error", "lookup", "cancelled"}]
<1>1. CASE n = 0
  BY <1>1, NoLayersLeft DEF Unwind, TypeOK, setup, StackAccounts
<1>2. CASE n # 0
  <2>1. n \in DOMAIN layers /\ n \in Nat \ {0} /\ Layer(n) \subseteq Disposables
    BY <1>2, LayersShape
  <2>2. /\ pc' = "leaving" /\ level' = n
        /\ call' = [d \in Disposables |-> IF d \in Layer(n) THEN "exiting" ELSE "idle"]
        /\ failure' = [d \in Disposables |-> "none"]
    BY <1>2 DEF Unwind, Gather
  <2>3. layers' = layers /\ Layer(level)' = Layer(n) /\ FirstLayers(level - 1)' = FirstLayers(n - 1)
    BY <2>2 DEF setup, Layer, FirstLayers
  <2>4. FirstLayers(n) \subseteq FirstLayers(n - 1) \cup Layer(n)
    BY <2>1, FirstLayersStep
  <2>5. Layer(n) = {d \in Layer(level) : call[d] = "exiting"}'
    BY <2>1, <2>2, <2>3
  <2>6. held' \subseteq (spoiled \cup FirstLayers(level - 1)
                        \cup {d \in Layer(level) : call[d] = "exiting"})'
    BY <2>3, <2>4, <2>5 DEF setup
  <2>7. StackAccounts'
    BY <2>1, <2>2, <2>3, <2>6 DEF StackAccounts
  <2>8. QED
    BY <2>1, <2>2, <2>3, <2>7
<1>3. QED
  BY <1>1, <1>2

LEMMA EnterKeeps == ScopeInv /\ Enter => ScopeInv'
<1> SUFFICES ASSUME ScopeInv, Enter PROVE ScopeInv'
  OBVIOUS
<1>1. TypeOK /\ layers' = layers /\ 1 \in DOMAIN layers /\ level' = 1 /\ pc' = "entering"
      /\ held = {} /\ held' = held /\ pushed' = 0 /\ ~cancelled' /\ Live = {}
  BY LayersShape DEF ScopeInv, TasksInScope, StackAccounts, Enter, Gather, setup
<1>2. /\ call' = [d \in Disposables |-> IF d \in Layer(1) THEN "entering" ELSE "idle"]
      /\ failure' = [d \in Disposables |-> "none"]
      /\ Layer(level)' = Layer(1)
  BY <1>1 DEF Enter, Gather, Layer
<1>3. TypeOK'
  BY <1>1, <1>2, LayersShape DEF TypeOK, Enter, group, setup
<1>4. TasksInScope'
  BY <1>1 DEF Enter, group, Live, TasksInScope
<1>5. StackAccounts'
  BY <1>1, <1>2 DEF StackAccounts
<1>6. QED
  BY <1>3, <1>4, <1>5 DEF ScopeInv

LEMMA EnterEndsKeeps == ASSUME NEW d \in Disposables, ScopeInv, EnterEnds(d) PROVE ScopeInv'
<1>1. TypeOK'
  BY DEF ScopeInv, TypeOK, EnterEnds, setup, group
<1>2. TasksInScope'
  BY DEF ScopeInv, TasksInScope, EnterEnds, Live, setup, group
<1>3. /\ UNCHANGED <<layers, pc, level, pushed, cancelled, spoiled>>
      /\ pc = "entering" /\ level \in DOMAIN layers /\ d \in Layer(level)
      /\ held' \subseteq held \cup {d}
      /\ call' = [call EXCEPT ![d] = "idle"]
      /\ call \in [Disposables -> {"idle", "entering", "exiting"}]
      /\ pushed = level - 1 /\ held \subseteq FirstLayers(level)
      /\ cancelled => Layer(level) \subseteq spoiled
      /\ \A e \in Disposables : call[e] = "entering" => e \in Layer(level)
      /\ \A e \in Disposables : call[e] # "exiting"
  BY DEF ScopeInv, TypeOK, StackAccounts, EnterEnds, setup
<1>4. Layer(level)' = Layer(level) /\ FirstLayers(level)' = FirstLayers(level)
  BY <1>3 DEF Layer, FirstLayers
<1>5. Layer(level) \subseteq FirstLayers(level)
  BY <1>3, LayersShape, level \in 1..level DEF Layer, FirstLayers, ScopeInv
<1>6. StackAccounts'
  <2>1. \A e \in Disposables : call'[e] # "exiting" /\ (call'[e] = "entering" => e \in Layer(level))
    BY <1>3
  <2>2. held' \subseteq FirstLayers(level)
    BY <1>3, <1>5
  <2>3. QED
    BY <1>3, <1>4, <2>1, <2>2 DEF StackAccounts
<1>7. QED
  BY <1>1, <1>2, <1>6 DEF ScopeInv

LEMMA LayerEnteredKeeps == ScopeInv /\ LayerEntered => ScopeInv'
<1> SUFFICES ASSUME ScopeInv, LayerEntered PROVE ScopeInv'
  OBVIOUS
<1>1. /\ TypeOK /\ UNCHANGED <<setup, held, spoiled, cancels>> /\ UNCHANGED group
      /\ ~cancelled' /\ cancelled' \in BOOLEAN
      /\ pc = "entering" /\ level \in DOMAIN layers /\ level \in 1..Len(layers)
      /\ pushed = level - 1 /\ held \subseteq FirstLayers(level)
      /\ cancelled => Layer(level) \subseteq spoiled
      /\ \A d \in Disposables : call[d] = "idle"
      /\ Live = {}
  BY LayersShape DEF ScopeInv, StackAccounts, TasksInScope, LayerEntered
<1>2. FirstLayers(level) \subseteq FirstLayers(level - 1) \cup Layer(level)
  BY <1>1, FirstLayersStep
<1>3. TasksInScope'
  BY <1>1 DEF TasksInScope, Live, group
<1>4. CASE cancelled
  <2>1. pushed' = pushed /\ raised' = "cancelled" /\ stateLost' = stateLost /\ Unwind(level - 1)
    BY <1>1, <1>4 DEF LayerEntered
  <2>2. level - 1 \in 0..Len(layers) /\ held \subseteq spoiled' \cup FirstLayers(level - 1)
    BY <1>1, <1>2, <1>4
  <2>3. /\ StackAccounts' /\ pc' \in {"leaving", "left"} /\ level' \in 0..Len(layers')
        /\ call' \in [Disposables -> {"idle", "entering", "exiting"}]
        /\ failure' \in [Disposables -> {"none", "error", "lookup", "cancelled"}]
    BY <1>1, <2>1, <2>2, UnwindKeeps DEF TypeOK
  <2>4. TypeOK'
    BY <1>1, <2>1, <2>3 DEF TypeOK, setup, group
  <2>5. QED
    BY <1>3, <2>3, <2>4 DEF ScopeInv
<1>5. CASE ~cancelled /\ Failures # {} /\ ~Swallowed
  <2>1. pushed' = level /\ raised' = "error" /\ stateLost' = stateLost /\ Unwind(level)
    BY <1>1, <1>5 DEF LayerEntered, Pushed
  <2>2. level \in 0..Len(layers) /\ held \subseteq spoiled' \cup FirstLayers(level)
    BY <1>1
  <2>3. /\ StackAccounts' /\ pc' \in {"leaving", "left"} /\ level' \in 0..Len(layers')
        /\ call' \in [Disposables -> {"idle", "entering", "exiting"}]
        /\ failure' \in [Disposables -> {"none", "error", "lookup", "cancelled"}]
    BY <1>1, <2>1, <2>2, UnwindKeeps DEF TypeOK
  <2>4. TypeOK'
    BY <1>1, <2>1, <2>2, <2>3 DEF TypeOK, setup, group
  <2>5. QED
    BY <1>3, <2>3, <2>4 DEF ScopeInv
<1>6. CASE ~cancelled /\ ~(Failures # {} /\ ~Swallowed) /\ level < Len(layers)
  <2>1. /\ pushed' = level /\ raised' = raised /\ Gather(level + 1, "entering")
        /\ pc' = pc /\ stateLost' = stateLost
    BY <1>1, <1>6 DEF LayerEntered, Pushed
  <2>2. /\ level + 1 \in DOMAIN layers /\ level' = level + 1
        /\ call' = [d \in Disposables |-> IF d \in Layer(level + 1) THEN "entering" ELSE "idle"]
        /\ failure' = [d \in Disposables |-> "none"]
        /\ Layer(level)' = Layer(level + 1) /\ layers' = layers
    BY <1>1, <1>6, <2>1, LayersShape DEF Gather, Layer, setup
  <2>3. FirstLayers(level) \subseteq FirstLayers(level)'
    BY <1>1, <2>2, \A k \in 1..level : k \in 1..(level + 1) DEF FirstLayers
  <2>4. TypeOK'
    BY <1>1, <2>1, <2>2, LayersShape DEF TypeOK, setup, group
  <2>5. StackAccounts'
    BY <1>1, <2>1, <2>2, <2>3 DEF StackAccounts
  <2>6. QED
    BY <1>3, <2>4, <2>5 DEF ScopeInv
<1>7. CASE ~cancelled /\ ~(Failures # {} /\ ~Swallowed) /\ ~(level < Len(layers))
  <2>1. /\ pushed' = level /\ raised' = raised /\ pc' = "body" /\ stateLost' = Swallowed
        /\ UNCHANGED <<level, call, failure>>
    BY <1>1, <1>7 DEF LayerEntered, Pushed
  <2>2. level = Len(layers) /\ layers' = layers /\ InUse' = FirstLayers(level)
    BY <1>1, <1>7, LayersShape DEF InUse, FirstLayers, setup
  <2>3. Swallowed \in BOOLEAN
    BY DEF Swallowed
  <2>4. TypeOK'
    BY <1>1, <2>1, <2>2, <2>3 DEF TypeOK, setup, group
  <2>5. StackAccounts'
    BY <1>1, <2>1, <2>2 DEF StackAccounts
  <2>6. QED
    BY <1>3, <2>4, <2>5 DEF ScopeInv
<1>8. QED
  BY <1>4, <1>5, <1>6, <1>7

\* Cancelling the running tasks of a group leaves the same tasks to wait for.
LEMMA AbortedType ==
    ASSUME NEW tasks \in [Children -> {"new", "running", "stopping", "ended", "failed"}]
    PROVE  /\ Aborted(tasks) \in [Children -> {"new", "running", "stopping", "ended", "failed"}]
           /\ \A c \in Children : Aborted(tasks)[c] \in {"running", "stopping"}
                                  => tasks[c] \in {"running", "stopping"}
BY DEF Aborted

\* Steps that touch nothing but the group and the interruption of its owner.
LEMMA GroupStepKeeps ==
    ASSUME ScopeInv, pc \in {"body", "joining"}, isolated, pc' \in {"body", "joining"},
           UNCHANGED <<setup, level, pushed, calls, stateLost, spoiled>>,
           child' \in [Children -> {"new", "running", "stopping", "ended", "failed"}],
           {aborting', cancelled', joinCancelled'} \subseteq BOOLEAN,
           raised' \in {"none", "error", "group", "cancelled"}, cancels' \in 0..MaxCancels
    PROVE  ScopeInv'
<1>1. TypeOK'
  BY DEF ScopeInv, TypeOK, setup, calls
<1>2. TasksInScope'
  BY DEF TasksInScope, setup
<1>3. StackAccounts'
  BY DEF ScopeInv, StackAccounts, setup, calls, Layer, InUse, FirstLayers
<1>4. QED
  BY <1>1, <1>2, <1>3 DEF ScopeInv

LEMMA SpawnKeeps == ASSUME NEW c \in Children, ScopeInv, Spawn(c) PROVE ScopeInv'
BY GroupStepKeeps DEF ScopeInv, TypeOK, Spawn

LEMMA ChildEndsKeeps == ASSUME NEW c \in Children, ScopeInv, ChildEnds(c) PROVE ScopeInv'
<1>1. isolated /\ pc \in {"body", "joining"}
  BY DEF ScopeInv, TasksInScope, ChildEnds
<1>2. QED
  BY <1>1, GroupStepKeeps DEF ScopeInv, TypeOK, ChildEnds

LEMMA ChildFailsKeeps == ASSUME NEW c \in Children, ScopeInv, ChildFails(c) PROVE ScopeInv'
<1>1. isolated /\ pc \in {"body", "joining"}
  BY DEF ScopeInv, TasksInScope, ChildFails
<1>2. [child EXCEPT ![c] = "failed"]
        \in [Children -> {"new", "running", "stopping", "ended", "failed"}]
  BY DEF ScopeInv, TypeOK
<1>3. child' \in [Children -> {"new", "running", "stopping", "ended", "failed"}]
  <2>1. CASE aborting
    BY <1>2, <2>1 DEF ChildFails
  <2>2. CASE ~aborting
    <3>1. child' = Aborted([child EXCEPT ![c] = "failed"])
      BY <2>2 DEF ChildFails
    <3>2. QED
      BY <1>2, <3>1, AbortedType
  <2>3. QED
    BY <2>1, <2>2
<1>4. {aborting', cancelled', joinCancelled'} \subseteq BOOLEAN
  BY DEF ScopeInv, TypeOK, ChildFails
<1>5. QED
  BY <1>1, <1>3, <1>4, GroupStepKeeps DEF ScopeInv, TypeOK, ChildFails

\* Leaving the group hands everything held to the exit stack.
LEMMA LeaveGroupKeeps ==
    ASSUME ScopeInv, pc \in {"body", "joining"}, Live = {},
           NEW exc \in {"none", "error", "group", "cancelled"}, LeaveGroup(exc),
           UNCHANGED <<setup, pushed, held, stateLost, group, cancels>>
    PROVE  ScopeInv'
<1>1. /\ TypeOK /\ pushed = Len(layers) /\ pushed # 0 /\ pushed \in 0..Len(layers)
      /\ held \subseteq FirstLayers(pushed)
      /\ Layer(pushed) \subseteq Disposables
  BY LayersShape DEF ScopeInv, StackAccounts, InUse
<1>2. \A d \in Disposables : call[d] = "idle"
  BY DEF ScopeInv, StackAccounts, TypeOK
<1>3. /\ cancelled' \in BOOLEAN
      /\ cancelled' => Layer(pushed) \subseteq spoiled'
      /\ spoiled' \in SUBSET Disposables /\ spoiled \subseteq spoiled'
  BY <1>1 DEF LeaveGroup, TypeOK
<1>4. raised' \in {"none", "error", "group", "cancelled"}
  BY DEF LeaveGroup, GroupRaises
<1>5. /\ StackAccounts' /\ pc' \in {"leaving", "left"} /\ level' \in 0..Len(layers')
      /\ call' \in [Disposables -> {"idle", "entering", "exiting"}]
      /\ failure' \in [Disposables -> {"none", "error", "lookup", "cancelled"}]
  <2>1. Unwind(pushed)
    BY DEF LeaveGroup
  <2>2. QED
    BY <1>1, <1>2, <1>3, <2>1, UnwindKeeps
<1>6. TypeOK'
  BY <1>1, <1>3, <1>4, <1>5 DEF TypeOK, setup, group
<1>7. TasksInScope'
  BY DEF TasksInScope, Live, group
<1>8. QED
  BY <1>5, <1>6, <1>7 DEF ScopeInv

LEMMA BodyEndsKeeps == ScopeInv /\ BodyEnds => ScopeInv'
<1> SUFFICES ASSUME ScopeInv, BodyEnds PROVE ScopeInv'
  OBVIOUS
<1>1. CASE MustJoin
  <2>1. child' \in [Children -> {"new", "running", "stopping", "ended", "failed"}]
    BY <1>1, AbortedType DEF BodyEnds, ScopeInv, TypeOK
  <2>2. {aborting', cancelled', joinCancelled'} \subseteq BOOLEAN
    BY <1>1 DEF BodyEnds, ScopeInv, TypeOK
  <2>3. raised' \in {"none", "error", "group", "cancelled"}
    BY <1>1 DEF BodyEnds
  <2>4. QED
    BY <1>1, <2>1, <2>2, <2>3, GroupStepKeeps DEF BodyEnds, MustJoin, ScopeInv, TypeOK, calls
<1>2. CASE ~MustJoin
  <2>1. Live = {}
    BY <1>2 DEF MustJoin, ScopeInv, TasksInScope
  <2>2. PICK exc \in {"none", "error", "group", "cancelled"} : LeaveGroup(exc)
    BY <1>2 DEF BodyEnds
  <2>3. UNCHANGED <<setup, pushed, held, stateLost, group, cancels>> /\ pc = "body"
    BY <1>2 DEF BodyEnds, group
  <2>4. QED
    BY <2>1, <2>2, <2>3, LeaveGroupKeeps
<1>3. QED
  BY <1>1, <1>2

LEMMA JoinInterruptedKeeps == ScopeInv /\ JoinInterrupted => ScopeInv'
<1> SUFFICES ASSUME ScopeInv, JoinInterrupted PROVE ScopeInv'
  OBVIOUS
<1>1. child' \in [Children -> {"new", "running", "stopping", "ended", "failed"}]
  BY AbortedType DEF JoinInterrupted, ScopeInv, TypeOK
<1>2. {aborting', cancelled', joinCancelled'} \subseteq BOOLEAN
  BY DEF JoinInterrupted, ScopeInv, TypeOK
<1>3. TypeOK'
  BY <1>1, <1>2 DEF JoinInterrupted, ScopeInv, TypeOK, setup, calls
<1>4. TasksInScope'
  <2>1. Live' \subseteq Live
    BY AbortedType DEF JoinInterrupted, Live, ScopeInv, TypeOK
  <2>2. QED
    BY <2>1 DEF JoinInterrupted, ScopeInv, TasksInScope, setup
<1>5. StackAccounts'
  BY DEF JoinInterrupted, ScopeInv, StackAccounts, setup, calls, Layer, InUse, FirstLayers
<1>6. QED
  BY <1>3, <1>4, <1>5 DEF ScopeInv

LEMMA JoinedKeeps == ScopeInv /\ Joined => ScopeInv'
BY LeaveGroupKeeps DEF Joined, ScopeInv, TypeOK

LEMMA ExitEndsKeeps == ASSUME NEW d \in Disposables, ScopeInv, ExitEnds(d) PROVE ScopeInv'
<1>1. TypeOK'
  BY DEF ScopeInv, TypeOK, ExitEnds, setup, group
<1>2. TasksInScope'
  BY DEF ScopeInv, TasksInScope, ExitEnds, Live, setup, group
<1>3. /\ UNCHANGED <<layers, pc, level, pushed, cancelled, spoiled>>
      /\ pc = "leaving" /\ level \in DOMAIN layers /\ d \in Layer(level)
      /\ call' = [call EXCEPT ![d] = "idle"]
      /\ call \in [Disposables -> {"idle", "entering", "exiting"}]
      /\ held \subseteq spoiled \cup FirstLayers(level - 1)
                      \cup {e \in Layer(level) : call[e] = "exiting"}
      /\ cancelled => Layer(level) \subseteq spoiled
      /\ \A e \in Disposables : call[e] = "exiting" => e \in Layer(level)
      /\ \A e \in Disposables : call[e] # "entering"
  BY DEF ScopeInv, TypeOK, StackAccounts, ExitEnds, setup
<1>4. Layer(level)' = Layer(level) /\ FirstLayers(level - 1)' = FirstLayers(level - 1)
  BY <1>3 DEF Layer, FirstLayers
<1>5. held' \subseteq held /\ (d \notin held' \/ d \in spoiled)
  BY <1>3 DEF ExitEnds
<1>6. held' \subseteq spoiled \cup FirstLayers(level - 1)
                    \cup {e \in Layer(level) : call'[e] = "exiting"}
  <2>1. \A e \in Layer(level) : e \in Disposables
    BY <1>3, LayersShape DEF ScopeInv
  <2>2. QED
    BY <1>3, <1>5, <2>1
<1>7. StackAccounts'
  <2>1. \A e \in Disposables : call'[e] # "entering" /\ (call'[e] = "exiting" => e \in Layer(level))
    BY <1>3
  <2>2. QED
    BY <1>3, <1>4, <1>6, <2>1 DEF StackAccounts
<1>8. QED
  BY <1>1, <1>2, <1>7 DEF ScopeInv

LEMMA LayerExitedKeeps == ScopeInv /\ LayerExited => ScopeInv'
<1> SUFFICES ASSUME ScopeInv, LayerExited PROVE ScopeInv'
  OBVIOUS
<1>1. /\ TypeOK /\ UNCHANGED <<setup, pushed, held, stateLost, group, cancels, spoiled>>
      /\ ~cancelled' /\ cancelled' \in BOOLEAN
      /\ \A d \in Disposables : call[d] = "idle"
      /\ Live = {} /\ Unwind(level - 1)
      /\ level \in DOMAIN layers
  BY DEF ScopeInv, StackAccounts, TasksInScope, LayerExited
<1>0. level - 1 \in 0..Len(layers)
  BY <1>1, LayersShape
<1>2. held \subseteq spoiled' \cup FirstLayers(level - 1)
  <2>1. level \in DOMAIN layers
        /\ held \subseteq spoiled \cup FirstLayers(level - 1)
                       \cup {d \in Layer(level) : call[d] = "exiting"}
    BY DEF ScopeInv, StackAccounts, LayerExited
  <2>2. \A d \in Layer(level) : call[d] # "exiting"
    BY <1>1, <2>1, LayersShape
  <2>3. QED
    BY <1>1, <2>1, <2>2
<1>3. /\ StackAccounts' /\ pc' \in {"leaving", "left"} /\ level' \in 0..Len(layers')
      /\ call' \in [Disposables -> {"idle", "entering", "exiting"}]
      /\ failure' \in [Disposables -> {"none", "error", "lookup", "cancelled"}]
  BY <1>0, <1>1, <1>2, UnwindKeeps DEF TypeOK
<1>4. TypeOK'
  BY <1>1, <1>3 DEF TypeOK, LayerExited, setup, group
<1>5. TasksInScope'
  BY <1>1 DEF TasksInScope, Live, group
<1>6. QED
  BY <1>3, <1>4, <1>5 DEF ScopeInv

LEMMA CancelOwnerKeeps == ScopeInv /\ CancelOwner => ScopeInv'
<1> SUFFICES ASSUME ScopeInv, CancelOwner PROVE ScopeInv'
  OBVIOUS
<1>1. /\ UNCHANGED <<setup, pc, level, pushed, calls, stateLost, group, raised>>
      /\ cancelled' = TRUE /\ pc # "new"
      /\ spoiled \subseteq spoiled'
      /\ pc \in {"entering", "leaving"} => Layer(level) \subseteq spoiled'
  BY DEF CancelOwner
<1>2. spoiled' \in SUBSET Disposables
  BY LayersShape DEF CancelOwner, ScopeInv, TypeOK, StackAccounts
<1>3. TypeOK'
  BY <1>1, <1>2, ScopeAssumption DEF CancelOwner, ScopeInv, TypeOK, setup, calls, group
<1>4. TasksInScope'
  BY <1>1 DEF ScopeInv, TasksInScope, Live, setup, group
<1>5. StackAccounts'
  BY <1>1 DEF ScopeInv, StackAccounts, setup, calls, Layer, InUse, FirstLayers
<1>6. QED
  BY <1>3, <1>4, <1>5 DEF ScopeInv

LEMMA NextScopeInv == ScopeInv /\ [Next]_vars => ScopeInv'
<1> SUFFICES ASSUME ScopeInv, [Next]_vars PROVE ScopeInv'
  OBVIOUS
<1>1. CASE Enter \/ LayerEntered \/ LayerExited
  BY <1>1, EnterKeeps, LayerEnteredKeeps, LayerExitedKeeps
<1>2. CASE BodyEnds \/ JoinInterrupted \/ Joined
  BY <1>2, BodyEndsKeeps, JoinInterruptedKeeps, JoinedKeeps
<1>3. CASE CancelOwner
  BY <1>3, CancelOwnerKeeps
<1>4. CASE \E d \in Disposables : EnterEnds(d) \/ ExitEnds(d)
  BY <1>4, EnterEndsKeeps, ExitEndsKeeps
<1>5. CASE \E c \in Children : Spawn(c) \/ ChildEnds(c) \/ ChildFails(c)
  BY <1>5, SpawnKeeps, ChildEndsKeeps, ChildFailsKeeps
<1>6. CASE UNCHANGED vars
  BY <1>6 DEF vars, setup, group, calls, ScopeInv, TypeOK, TasksInScope, StackAccounts, Live,
              Layer, FirstLayers, InUse
<1>7. QED
  BY <1>1, <1>2, <1>3, <1>4, <1>5, <1>6 DEF Next

\* In every reachable state what the scope holds is accounted for, and tasks
\* run nowhere but in its body or while it waits for them.
THEOREM ScopeInvHolds == Spec => []ScopeInv
<1>1. Init => ScopeInv
  BY InitScopeInv
<1>2. ScopeInv /\ [Next]_vars => ScopeInv'
  BY NextScopeInv
<1>3. QED
  BY <1>1, <1>2, PTL DEF Spec

\* Leaving a disposable never overlaps with a task of the scope.
THEOREM TasksEndFirstHolds == Spec => []TasksEndFirst
<1>1. ScopeInv => TasksEndFirst
  BY DEF ScopeInv, TasksInScope, TasksEndFirst
<1>2. QED
  BY <1>1, ScopeInvHolds, PTL

\* A scope that is over holds nothing but what a cancelled gather of enters or
\* exits was dealing with.
THEOREM ResourcesReleasedHolds == Spec => []ResourcesReleased
<1>1. ScopeInv => ResourcesReleased
  BY DEF ScopeInv, StackAccounts, ResourcesReleased
<1>2. QED
  BY <1>1, ScopeInvHolds, PTL
-----------------------------------------------------------------------------
LEMMA InitOutcomeInv == Init => OutcomeInv
BY DEF Init, OutcomeInv, Failed

\* Leaving the group with the exception that entered it.
LEMMA LeaveGroupTruthful ==
    ASSUME ScopeInv, OutcomeInv, pc \in {"body", "joining"}, NEW exc, LeaveGroup(exc),
           exc = "cancelled" => cancels > 0 \/ Failed # {},
           UNCHANGED <<setup, group, cancels>>
    PROVE  OutcomeInv'
<1>1. Failed' = Failed /\ pc' \in {"leaving", "left"}
  BY DEF LeaveGroup, Unwind, Failed, group
<1>2. raised' = (IF isolated THEN GroupRaises(exc) ELSE exc)
      /\ cancelled' = (isolated /\ CancelsAgain(exc))
  BY DEF LeaveGroup
<1>3. cancelled' => cancels > 0
  BY <1>2 DEF CancelsAgain
<1>4. raised' = "cancelled" => cancels > 0 \/ Failed # {}
  BY <1>2 DEF GroupRaises, OutcomeInv
<1>5. Failed # {} => raised' # "none"
  BY <1>2 DEF GroupRaises, OutcomeInv
<1>6. QED
  BY <1>1, <1>3, <1>4, <1>5 DEF OutcomeInv, group, setup

LEMMA NextOutcomeInv == ScopeInv /\ OutcomeInv /\ [Next]_vars => OutcomeInv'
<1> SUFFICES ASSUME ScopeInv, OutcomeInv, [Next]_vars PROVE OutcomeInv'
  OBVIOUS
<1> USE DEF OutcomeInv, setup, group, calls
<1>1. CASE Enter
  BY <1>1 DEF Enter, Failed
<1>2. CASE LayerEntered
  BY <1>2 DEF LayerEntered, Unwind, Gather, Failed
<1>3. CASE BodyEnds
  <2>1. CASE MustJoin
    <3>1. Failed' = Failed
      BY <1>3, <2>1 DEF BodyEnds, Aborted, Failed, ScopeInv, TypeOK
    <3>2. QED
      BY <1>3, <2>1, <3>1 DEF BodyEnds
  <2>2. CASE ~MustJoin
    <3>1. PICK exc : LeaveGroup(exc) /\ (exc = "cancelled" => cancelled)
      BY <1>3, <2>2 DEF BodyEnds
    <3>2. QED
      BY <1>3, <2>2, <3>1, LeaveGroupTruthful DEF BodyEnds
  <2>3. QED
    BY <2>1, <2>2
<1>4. CASE JoinInterrupted
  <2>1. Failed' = Failed
    BY <1>4 DEF JoinInterrupted, Aborted, Failed, ScopeInv, TypeOK
  <2>2. cancels \in Nat
    BY ScopeAssumption DEF ScopeInv, TypeOK
  <2>3. QED
    BY <1>4, <2>1, <2>2 DEF JoinInterrupted
<1>5. CASE Joined
  BY <1>5, LeaveGroupTruthful DEF Joined
<1>6. CASE LayerExited
  BY <1>6 DEF LayerExited, Unwind, Gather, Failed
<1>7. CASE CancelOwner
  <2>1. cancels' > 0 /\ cancels \in Nat
    BY <1>7, ScopeAssumption DEF CancelOwner, ScopeInv, TypeOK
  <2>2. QED
    BY <1>7, <2>1 DEF CancelOwner, Failed
<1>8. CASE \E d \in Disposables : EnterEnds(d) \/ ExitEnds(d)
  BY <1>8 DEF EnterEnds, ExitEnds, Failed
<1>9. ASSUME NEW c \in Children, Spawn(c) PROVE OutcomeInv'
  <2>1. Failed' = Failed
    BY <1>9 DEF Spawn, Failed, ScopeInv, TypeOK
  <2>2. QED
    BY <1>9, <2>1 DEF Spawn
<1>10. ASSUME NEW c \in Children, ChildEnds(c) PROVE OutcomeInv'
  <2>1. Failed' = Failed
    BY <1>10 DEF ChildEnds, Live, Failed, ScopeInv, TypeOK
  <2>2. QED
    BY <1>10, <2>1 DEF ChildEnds
<1>11. ASSUME NEW c \in Children, ChildFails(c) PROVE OutcomeInv'
  <2>1. isolated /\ pc \in {"body", "joining"}
    BY <1>11 DEF ChildFails, ScopeInv, TasksInScope
  <2>2. child'[c] = "failed"
    BY <1>11 DEF ChildFails, Aborted, ScopeInv, TypeOK
  <2>3. Failed' # {} /\ aborting'
    BY <1>11, <2>2 DEF ChildFails, Failed
  <2>4. QED
    BY <1>11, <2>1, <2>3 DEF ChildFails
<1>12. CASE UNCHANGED vars
  BY <1>12 DEF vars, Failed
<1>13. QED
  BY <1>1, <1>2, <1>3, <1>4, <1>5, <1>6, <1>7, <1>8, <1>9, <1>10, <1>11, <1>12 DEF Next

\* The failure of a task never leaves the scope unnoticed, and a CancelledError
\* that leaves it has a cause.
THEOREM OutcomeTruthfulHolds == Spec => []OutcomeTruthful
<1>1. Init => OutcomeInv
  BY InitOutcomeInv
<1>2. ScopeInv /\ OutcomeInv /\ [Next]_vars => OutcomeInv'
  BY NextOutcomeInv
<1>3. OutcomeInv => OutcomeTruthful
  BY DEF OutcomeInv, OutcomeTruthful
<1>4. QED
  BY <1>1, <1>2, <1>3, ScopeInvHolds, PTL DEF Spec
-----------------------------------------------------------------------------
\* The step from one layer to the next, or to the body.
LEMMA LayerEnteredEntryInv == ScopeInv /\ EntryInv /\ LayerEntered => EntryInv'
<1> SUFFICES ASSUME ScopeInv, EntryInv, LayerEntered PROVE EntryInv'
  OBVIOUS
<1>1. /\ pc = "entering" /\ layers' = layers /\ held' = held
      /\ level \in 1..Len(layers) /\ Len(layers) \in {1, 2} /\ Layer(level) \subseteq Disposables
      /\ \A d \in Disposables : call[d] = "idle"
      /\ FirstLayers(level - 1) \subseteq held
      /\ held \subseteq FirstLayers(level)
  BY LayersShape DEF ScopeInv, StackAccounts, EntryInv, LayerEntered, setup
<1>2. FirstLayers(level) \subseteq FirstLayers(level - 1) \cup Layer(level)
  BY <1>1, FirstLayersStep
<1>3. Failures = {} => FirstLayers(level) = held
  BY <1>1, <1>2 DEF EntryInv, Failures
<1>4. CASE pc' = "body"
  <2>1. level = Len(layers) /\ stateLost' = Swallowed
        /\ (Failures = {} \/ Swallowed)
    BY <1>1, <1>4 DEF LayerEntered, Unwind
  <2>2. InUse' = FirstLayers(level)
    BY <1>1, <2>1 DEF InUse, FirstLayers
  <2>3. QED
    BY <1>1, <1>3, <1>4, <2>1, <2>2 DEF EntryInv, BodyHasResources
<1>5. CASE pc' = "entering"
  <2>1. level < Len(layers) /\ Gather(level + 1, "entering") /\ (Failures = {} \/ Swallowed)
    BY <1>1, <1>5 DEF LayerEntered, Unwind
  <2>2. Failures = {}
    <3>1. Swallowed => Len(layers) = 1
      BY DEF Swallowed
    <3>2. ASSUME Len(layers) = 1 PROVE FALSE
      <4>1. level \in 1..1 /\ level < 1
        BY <1>1, <2>1, <3>2
      <4>2. QED
        BY <4>1
    <3>3. QED
      BY <2>1, <3>1, <3>2
  <2>3. level' = level + 1 /\ FirstLayers(level - 1)' = FirstLayers(level)
    BY <1>1, <2>1 DEF Gather, FirstLayers
  <2>4. \A d \in Disposables : d \in Layer(level)' => call'[d] = "entering"
    BY <1>1, <2>1, <2>3 DEF Gather, Layer
  <2>5. Layer(level)' \subseteq Disposables
    BY <1>1, <2>1, <2>3, LayersShape DEF Layer, ScopeInv
  <2>6. QED
    BY <1>1, <1>3, <1>5, <2>2, <2>3, <2>4, <2>5 DEF EntryInv, BodyHasResources
<1>6. CASE pc' \in {"leaving", "left"}
  BY <1>6 DEF EntryInv, BodyHasResources
<1>7. QED
  BY <1>1, <1>4, <1>5, <1>6 DEF LayerEntered, Unwind

LEMMA NextEntryInv == ScopeInv /\ EntryInv /\ [Next]_vars => EntryInv'
<1> SUFFICES ASSUME ScopeInv, EntryInv, [Next]_vars PROVE EntryInv'
  OBVIOUS
<1>1. CASE Enter
  <2>1. pc' = "entering" /\ level' = 1 /\ layers' = layers /\ Layer(1) \subseteq Disposables
        /\ call' = [d \in Disposables |-> IF d \in Layer(1) THEN "entering" ELSE "idle"]
    BY <1>1, LayersShape DEF Enter, Gather, setup, ScopeInv
  <2>2. FirstLayers(level - 1)' = {} /\ Layer(level)' = Layer(1)
    BY <2>1 DEF FirstLayers, Layer
  <2>3. QED
    BY <2>1, <2>2 DEF EntryInv, BodyHasResources
<1>2. CASE LayerEntered
  BY <1>2, LayerEnteredEntryInv
<1>3. CASE BodyEnds \/ JoinInterrupted \/ Joined \/ LayerExited
  BY <1>3 DEF BodyEnds, LeaveGroup, Unwind, JoinInterrupted, Joined, LayerExited, EntryInv,
              BodyHasResources, InUse, FirstLayers, setup, calls
<1>4. ASSUME NEW d \in Disposables, EnterEnds(d) PROVE EntryInv'
  <2>1. /\ UNCHANGED <<layers, level, pc>> /\ pc = "entering"
        /\ call' = [call EXCEPT ![d] = "idle"]
        /\ held \subseteq held'
    BY <1>4 DEF EnterEnds, setup, ScopeInv, StackAccounts
  <2>2. failure'[d] = "none" => d \in held'
    BY <1>4 DEF EnterEnds, ScopeInv, TypeOK
  <2>3. \A e \in Disposables \ {d} : call'[e] = call[e] /\ failure'[e] = failure[e]
    BY <1>4 DEF EnterEnds, ScopeInv, TypeOK
  <2>4. Layer(level)' = Layer(level) /\ FirstLayers(level - 1)' = FirstLayers(level - 1)
    BY <2>1 DEF Layer, FirstLayers
  <2>5. Layer(level) \subseteq Disposables
    BY <2>1, LayersShape DEF ScopeInv, StackAccounts
  <2>6. QED
    BY <2>1, <2>2, <2>3, <2>4, <2>5 DEF EntryInv, BodyHasResources
<1>5. ASSUME NEW d \in Disposables, ExitEnds(d) PROVE EntryInv'
  BY <1>5 DEF ExitEnds, ScopeInv, StackAccounts, EntryInv, BodyHasResources
<1>6. CASE CancelOwner \/ \E c \in Children : Spawn(c) \/ ChildEnds(c) \/ ChildFails(c)
  BY <1>6 DEF CancelOwner, Spawn, ChildEnds, ChildFails, EntryInv, BodyHasResources, InUse,
              FirstLayers, Layer, setup, calls
<1>7. CASE UNCHANGED vars
  BY <1>7 DEF vars, EntryInv, BodyHasResources, InUse, FirstLayers, Layer, setup, calls
<1>8. QED
  BY <1>1, <1>2, <1>3, <1>4, <1>5, <1>6, <1>7 DEF Next

\* The body runs with every resource entered, or with an empty state after a
\* LookupError of a single disposable was taken for a missing context.
THEOREM BodyHasResourcesHolds == Spec => []BodyHasResources
<1>1. Init => EntryInv
  BY DEF Init, EntryInv, BodyHasResources
<1>2. ScopeInv /\ EntryInv /\ [Next]_vars => EntryInv'
  BY NextEntryInv
<1>3. EntryInv => BodyHasResources
  BY DEF EntryInv
<1>4. QED
  BY <1>1, <1>2, <1>3, ScopeInvHolds, PTL DEF Spec
-----------------------------------------------------------------------------
\* How far a scope is: what is counted, and the shares of the owner.
InFlight == {d \in Disposables : call[d] # "idle"}
NotSpawned == {c \in Children : child[c] = "new"}
CancelledLeft == IF cancelled THEN 1 ELSE 0
AbortLeft == IF aborting THEN 0 ELSE 1

\* A scope has finitely many disposables, and finitely many tasks are spawned in it.
FiniteScope == IsFiniteSet(Disposables) /\ IsFiniteSet(Children)

Counted ==
    /\ Len(layers) \in {1, 2} /\ StageLeft \in Nat
    /\ InFlight \in SUBSET Disposables /\ NotSpawned \in SUBSET Children /\ Live \in SUBSET Children
    /\ Cardinality(InFlight) \in Nat /\ Cardinality(NotSpawned) \in Nat /\ Cardinality(Live) \in Nat
    /\ MaxCancels \in Nat /\ cancels \in Nat /\ cancels <= MaxCancels
    /\ CancelledLeft \in {0, 1} /\ AbortLeft \in {0, 1}
    /\ StepsLeft = Cardinality(InFlight) + 3 * Cardinality(NotSpawned) + 2 * Cardinality(Live)
                    + 2 * (MaxCancels - cancels) + CancelledLeft + AbortLeft

LEMMA CountsTyped ==
    ASSUME FiniteScope
    PROVE  ScopeInv => Counted
<1> SUFFICES ASSUME ScopeInv PROVE Counted
  OBVIOUS
<1>1. Len(layers) \in {1, 2} /\ level \in 0..Len(layers)
  BY LayersShape DEF ScopeInv, TypeOK
<1>2. StageLeft \in Nat
  BY <1>1 DEF StageLeft, ScopeInv, TypeOK
<1>3. /\ InFlight \in SUBSET Disposables /\ NotSpawned \in SUBSET Children
      /\ Live \in SUBSET Children
  BY DEF InFlight, NotSpawned, Live
<1>4. /\ Cardinality(InFlight) \in Nat /\ Cardinality(NotSpawned) \in Nat
      /\ Cardinality(Live) \in Nat
  BY <1>3, FS_Subset, FS_CardinalityType DEF FiniteScope
<1>5. /\ MaxCancels \in Nat /\ cancels \in Nat /\ cancels <= MaxCancels
      /\ CancelledLeft \in {0, 1} /\ AbortLeft \in {0, 1}
  BY ScopeAssumption DEF ScopeInv, TypeOK, CancelledLeft, AbortLeft
<1>6. StepsLeft = Cardinality(InFlight) + 3 * Cardinality(NotSpawned) + 2 * Cardinality(Live)
                    + 2 * (MaxCancels - cancels) + CancelledLeft + AbortLeft
  BY DEF StepsLeft, InFlight, NotSpawned, CancelledLeft, AbortLeft
<1>7. QED
  BY <1>1, <1>2, <1>3, <1>4, <1>5, <1>6 DEF Counted

\* The next layer on the exit stack is a stage of its own, the lower the later.
LEMMA UnwindAt ==
    ASSUME NEW n \in Nat, Unwind(n)
    PROVE  StageLeft' = n
BY DEF Unwind, Gather, StageLeft

\* The owner's steps from one stage to the next.
LEMMA StagesGoDown ==
    ASSUME ScopeInv, Enter \/ LayerEntered \/ BodyEnds \/ Joined \/ LayerExited
    PROVE  StageLeft' < StageLeft
<1>1. Len(layers) \in {1, 2} /\ level \in 0..Len(layers) /\ pushed \in 0..Len(layers)
  BY LayersShape DEF ScopeInv, TypeOK
<1>2. CASE Enter
  BY <1>1, <1>2 DEF Enter, Gather, StageLeft, setup
<1>3. CASE LayerEntered
  <2>1. StageLeft = 2 * Len(layers) + 3 - level /\ pushed = level - 1 /\ level \in 1..Len(layers)
        /\ layers' = layers
    BY <1>1, <1>3 DEF LayerEntered, StageLeft, ScopeInv, StackAccounts, setup
  <2>2. \/ \E n \in {level - 1, level} : Unwind(n)
        \/ level < Len(layers) /\ Gather(level + 1, "entering") /\ pc' = pc /\ pc = "entering"
        \/ pc' = "body"
    BY <1>3, <2>1 DEF LayerEntered, Pushed
  <2>3. CASE \E n \in {level - 1, level} : Unwind(n)
    <3>1. PICK n \in {level - 1, level} : Unwind(n)
      BY <2>3
    <3>2. n \in Nat /\ n <= Len(layers)
      BY <1>1, <2>1
    <3>3. QED
      BY <1>1, <2>1, <3>1, <3>2, UnwindAt
  <2>4. CASE Gather(level + 1, "entering") /\ pc' = pc /\ pc = "entering"
    BY <1>1, <2>1, <2>4 DEF Gather, StageLeft
  <2>5. CASE pc' = "body"
    <3>1. StageLeft' = Len(layers) + 2
      BY <2>1, <2>5 DEF StageLeft
    <3>2. QED
      BY <1>1, <2>1, <3>1
  <2>6. QED
    BY <2>2, <2>3, <2>4, <2>5
<1>4. CASE BodyEnds
  <2>1. StageLeft = Len(layers) + 2 /\ pushed \in Nat /\ layers' = layers
    BY <1>1, <1>4 DEF BodyEnds, StageLeft, setup
  <2>2. Unwind(pushed) \/ pc' = "joining"
    BY <1>4 DEF BodyEnds, LeaveGroup
  <2>3. CASE Unwind(pushed)
    <3>1. StageLeft' = pushed
      BY <2>1, <2>3, UnwindAt
    <3>2. QED
      BY <1>1, <2>1, <3>1
  <2>4. CASE pc' = "joining"
    <3>1. StageLeft' = Len(layers) + 1
      BY <2>1, <2>4 DEF StageLeft
    <3>2. QED
      BY <1>1, <2>1, <3>1
  <2>5. QED
    BY <2>2, <2>3, <2>4
<1>5. CASE Joined
  <2>1. StageLeft = Len(layers) + 1 /\ pushed \in Nat /\ Unwind(pushed)
    BY <1>1, <1>5 DEF Joined, LeaveGroup, StageLeft
  <2>2. StageLeft' = pushed
    BY <2>1, UnwindAt
  <2>3. QED
    BY <1>1, <2>1, <2>2
<1>6. CASE LayerExited
  <2>1. StageLeft = level /\ level \in 1..Len(layers) /\ Unwind(level - 1)
    BY <1>1, <1>6 DEF LayerExited, StageLeft, ScopeInv, StackAccounts
  <2>2. QED
    BY <1>1, <2>1, UnwindAt
<1>7. QED
  BY <1>2, <1>3, <1>4, <1>5, <1>6

\* The steps within a stage.
LEMMA CallsGoDown ==
    ASSUME FiniteScope, ScopeInv, Counted, Counted',
           NEW d \in Disposables, EnterEnds(d) \/ ExitEnds(d)
    PROVE  StageLeft' = StageLeft /\ StepsLeft' < StepsLeft
<1>1. /\ call[d] # "idle" /\ call' = [call EXCEPT ![d] = "idle"]
      /\ UNCHANGED <<layers, pc, level, child, aborting, cancelled, cancels>>
  BY DEF EnterEnds, ExitEnds, setup, group
<1>2. UNCHANGED <<StageLeft, NotSpawned, Live, CancelledLeft, AbortLeft>>
  BY <1>1 DEF StageLeft, NotSpawned, Live, CancelledLeft, AbortLeft
<1>3. d \in InFlight /\ InFlight' = InFlight \ {d}
  BY <1>1 DEF InFlight, ScopeInv, TypeOK
<1>4. Cardinality(InFlight') = Cardinality(InFlight) - 1
  BY <1>3, FS_Subset, FS_RemoveElement DEF Counted, FiniteScope
<1>5. QED
  BY <1>1, <1>2, <1>4 DEF Counted

LEMMA ChildrenGoDown ==
    ASSUME FiniteScope, ScopeInv, Counted, Counted',
           NEW c \in Children, Spawn(c) \/ ChildEnds(c) \/ ChildFails(c)
    PROVE  StageLeft' = StageLeft /\ StepsLeft' < StepsLeft
<1>1. UNCHANGED <<layers, pc, level, call, cancels>>
  BY DEF Spawn, ChildEnds, ChildFails, setup, calls
<1>2. UNCHANGED <<StageLeft, InFlight>>
  BY <1>1 DEF StageLeft, InFlight
<1>3. IsFiniteSet(Live) /\ IsFiniteSet(NotSpawned)
  BY FS_Subset DEF Counted, FiniteScope
<1>4. CASE Spawn(c)
  <2>1. /\ c \in NotSpawned /\ NotSpawned' = NotSpawned \ {c}
        /\ Live' = Live \cup {c} /\ c \notin Live
        /\ UNCHANGED <<CancelledLeft, AbortLeft>>
    BY <1>4 DEF Spawn, NotSpawned, Live, ScopeInv, TypeOK, CancelledLeft, AbortLeft
  <2>2. /\ Cardinality(NotSpawned') = Cardinality(NotSpawned) - 1
        /\ Cardinality(Live') = Cardinality(Live) + 1
    BY <1>3, <2>1, FS_RemoveElement, FS_AddElement
  <2>3. QED
    BY <1>1, <1>2, <2>1, <2>2 DEF Counted
<1>5. CASE ChildEnds(c) \/ ChildFails(c)
  <2>1. c \in Live /\ Live' = Live \ {c} /\ NotSpawned' = NotSpawned
    <3>1. CASE ChildEnds(c)
      BY <3>1 DEF ChildEnds, NotSpawned, Live, ScopeInv, TypeOK
    <3>2. CASE ChildFails(c) /\ aborting
      BY <3>2 DEF ChildFails, NotSpawned, Live, ScopeInv, TypeOK
    <3>3. CASE ChildFails(c) /\ ~aborting
      <4>1. child' = Aborted([child EXCEPT ![c] = "failed"]) /\ c \in Live
        BY <3>3 DEF ChildFails
      <4>2. \A e \in Children : child'[e] = IF e = c THEN "failed"
                                            ELSE IF child[e] = "running" THEN "stopping"
                                            ELSE child[e]
        BY <4>1 DEF Aborted, ScopeInv, TypeOK
      <4>3. QED
        BY <4>1, <4>2 DEF NotSpawned, Live
    <3>4. QED
      BY <1>5, <3>1, <3>2, <3>3
  <2>2. Cardinality(Live') = Cardinality(Live) - 1
    BY <1>3, <2>1, FS_RemoveElement
  <2>3. CancelledLeft' + AbortLeft' <= CancelledLeft + AbortLeft
    <3>1. \/ AbortLeft = 1 /\ AbortLeft' = 0
          \/ AbortLeft' = AbortLeft /\ CancelledLeft' = CancelledLeft
      BY <1>5 DEF ChildEnds, ChildFails, CancelledLeft, AbortLeft
    <3>2. {CancelledLeft, CancelledLeft', AbortLeft, AbortLeft'} \subseteq {0, 1}
      BY DEF Counted
    <3>3. QED
      BY <3>1, <3>2
  <2>4. StepsLeft' - (CancelledLeft' + AbortLeft') < StepsLeft - (CancelledLeft + AbortLeft)
    BY <1>1, <1>2, <2>1, <2>2 DEF Counted
  <2>5. /\ StepsLeft \in Int /\ StepsLeft' \in Int
        /\ CancelledLeft + AbortLeft \in Int /\ CancelledLeft' + AbortLeft' \in Int
    BY DEF Counted
  <2>6. QED
    BY <1>2, <2>3, <2>4, <2>5
<1>6. QED
  BY <1>4, <1>5

LEMMA InterruptionsGoDown ==
    ASSUME ScopeInv, Counted, Counted', JoinInterrupted \/ CancelOwner
    PROVE  StageLeft' = StageLeft /\ StepsLeft' < StepsLeft
<1>1. CASE JoinInterrupted
  <2>1. /\ UNCHANGED <<layers, pc, level, call, cancels>>
        /\ child' = child \/ child' = Aborted(child)
    BY <1>1 DEF JoinInterrupted, setup, calls
  <2>2. UNCHANGED <<StageLeft, InFlight, NotSpawned, Live>>
    BY <2>1 DEF StageLeft, InFlight, NotSpawned, Live, Aborted
  <2>3. CancelledLeft = 1 /\ CancelledLeft' = 0 /\ AbortLeft' <= AbortLeft
    BY <1>1 DEF JoinInterrupted, CancelledLeft, AbortLeft
  <2>4. QED
    BY <2>1, <2>2, <2>3 DEF Counted
<1>2. CASE CancelOwner
  <2>1. /\ UNCHANGED <<layers, pc, level, call, child, aborting>> /\ cancels' = cancels + 1
    BY <1>2 DEF CancelOwner, setup, calls, group
  <2>2. UNCHANGED <<StageLeft, InFlight, NotSpawned, Live, AbortLeft>>
    BY <2>1 DEF StageLeft, InFlight, NotSpawned, Live, AbortLeft
  <2>3. QED
    BY <2>1, <2>2 DEF Counted
<1>3. QED
  BY <1>1, <1>2

\* A scope only goes forward: the pair of the stage and of what is left to happen
\* before the next is one of natural numbers, and every step makes it smaller in
\* the order of pairs.  So a scope of finitely many disposables and tasks takes
\* finitely many steps, whatever fails and whoever is cancelled.
THEOREM ScopesGoForward ==
    ASSUME IsFiniteSet(Disposables), IsFiniteSet(Children)
    PROVE  Spec => [](StageLeft \in Nat /\ StepsLeft \in Nat) /\ EveryStepCounts
<1>1. FiniteScope
  BY DEF FiniteScope
<1>2. ScopeInv => Counted
  BY <1>1, CountsTyped
<1>3. Counted => StageLeft \in Nat /\ StepsLeft \in Nat
  BY DEF Counted
<1>4. ScopeInv /\ Counted /\ Counted' /\ [Next]_vars =>
          [\/ StageLeft' < StageLeft
           \/ StageLeft' = StageLeft /\ StepsLeft' < StepsLeft]_vars
  BY <1>1, StagesGoDown, CallsGoDown, ChildrenGoDown, InterruptionsGoDown DEF Next
<1>5. QED
  BY <1>2, <1>3, <1>4, ScopeInvHolds, PTL DEF Spec, EveryStepCounts

\* What keeps an interrupted scope going: no exception is there before the body
\* ended, and whoever waits for the group of a failed body has told its tasks to
\* stop.
InterruptionInv ==
    /\ pc \in {"new", "entering", "body"} => raised = "none"
    /\ pc \in {"new", "entering"} => ~aborting
    /\ pc = "joining" /\ raised # "none" => aborting
    /\ aborting => \A c \in Children : child[c] # "running"

LEMMA NextInterruptionInv == ScopeInv /\ InterruptionInv /\ [Next]_vars => InterruptionInv'
<1> SUFFICES ASSUME ScopeInv, InterruptionInv, [Next]_vars PROVE InterruptionInv'
  OBVIOUS
<1> USE DEF InterruptionInv
<1>1. CASE Enter
  BY <1>1 DEF Enter, group
<1>2. CASE LayerEntered
  BY <1>2 DEF LayerEntered, Unwind, Gather, group
<1>3. CASE BodyEnds
  <2>1. pc' \in {"joining", "leaving", "left"} /\ pc = "body"
    BY <1>3 DEF BodyEnds, LeaveGroup, Unwind
  <2>2. (aborting' = aborting /\ child' = child) \/ child' = Aborted(child)
    BY <1>3 DEF BodyEnds
  <2>3. pc' = "joining" /\ raised' # "none" => aborting'
    BY <1>3 DEF BodyEnds, LeaveGroup, Unwind, StopsTasks
  <2>4. QED
    BY <2>1, <2>2, <2>3 DEF Aborted
<1>4. CASE JoinInterrupted
  BY <1>4 DEF JoinInterrupted, Aborted
<1>5. CASE Joined
  BY <1>5 DEF Joined, LeaveGroup, Unwind, group
<1>6. CASE LayerExited
  BY <1>6 DEF LayerExited, Unwind, Gather, group
<1>7. CASE CancelOwner \/ \E d \in Disposables : EnterEnds(d) \/ ExitEnds(d)
  BY <1>7 DEF CancelOwner, EnterEnds, ExitEnds, group
<1>8. ASSUME NEW c \in Children, Spawn(c) PROVE InterruptionInv'
  BY <1>8 DEF Spawn
<1>9. ASSUME NEW c \in Children, ChildEnds(c) \/ ChildFails(c) PROVE InterruptionInv'
  <2>1. pc' = pc /\ pc \in {"body", "joining"} /\ raised' = raised
    BY <1>9 DEF ChildEnds, ChildFails, ScopeInv, TasksInScope
  <2>2. aborting => aborting'
    BY <1>9 DEF ChildEnds, ChildFails
  <2>3. aborting' => \A e \in Children : child'[e] # "running"
    BY <1>9 DEF ChildEnds, ChildFails, Aborted, ScopeInv, TypeOK
  <2>4. QED
    BY <2>1, <2>2, <2>3
<1>10. CASE UNCHANGED vars
  BY <1>10 DEF vars, group
<1>11. QED
  BY <1>1, <1>2, <1>3, <1>4, <1>5, <1>6, <1>7, <1>8, <1>9, <1>10 DEF Next

LEMMA InterruptionStays ==
    ASSUME ScopeInv, InterruptionInv, Interrupted, Next
    PROVE  Interrupted'
<1> USE DEF Interrupted
<1>1. CASE Enter
  BY <1>1 DEF Enter, group, ScopeInv, StackAccounts, InterruptionInv
<1>2. CASE LayerEntered
  BY <1>2 DEF LayerEntered, InterruptionInv
<1>3. CASE BodyEnds
  BY <1>3 DEF BodyEnds, InterruptionInv
<1>4. CASE JoinInterrupted
  BY <1>4 DEF JoinInterrupted
<1>5. CASE Joined
  BY <1>5 DEF Joined, LeaveGroup, GroupRaises, group
<1>6. CASE LayerExited
  BY <1>6 DEF LayerExited, group
<1>7. CASE CancelOwner \/ \E d \in Disposables : EnterEnds(d) \/ ExitEnds(d)
  BY <1>7 DEF CancelOwner, EnterEnds, ExitEnds, group
<1>8. CASE \E c \in Children : Spawn(c) \/ ChildEnds(c) \/ ChildFails(c)
  BY <1>8 DEF Spawn, ChildEnds, ChildFails
<1>9. QED
  BY <1>1, <1>2, <1>3, <1>4, <1>5, <1>6, <1>7, <1>8 DEF Next

\* Once an exception is on its way out, a task failed, or an await of the owner
\* was cancelled, this is so until the scope was left, and it never gets stuck on
\* the way: it waits for calls of one layer, or for tasks that were told to stop.
THEOREM InterruptedScopesGoOn == Spec => []InterruptedGoesOn /\ StaysInterrupted
<1>1. Init => InterruptionInv
  BY DEF Init, InterruptionInv
<1>2. ScopeInv /\ InterruptionInv /\ [Next]_vars => InterruptionInv'
  BY NextInterruptionInv
<1>3. ScopeInv /\ InterruptionInv => InterruptedGoesOn
  <2> SUFFICES ASSUME ScopeInv, InterruptionInv, Interrupted PROVE InterruptedGoesOn
    BY DEF InterruptedGoesOn
  <2>1. pc # "new"
    BY DEF Interrupted, InterruptionInv, ScopeInv, StackAccounts
  <2>2. pc = "body" => aborting
    BY DEF Interrupted, InterruptionInv
  <2>3. ASSUME pc = "joining", ~cancelled, Live # {}
        PROVE  \E c \in Children : child[c] = "stopping"
    BY <2>3 DEF Interrupted, InterruptionInv, Live
  <2>4. /\ pc = "entering" => GatherGoesOn("entering")
        /\ pc = "leaving" => GatherGoesOn("exiting")
    BY DEF ScopeInv, StackAccounts, TypeOK, GatherGoesOn
  <2>5. pc \in {"new", "entering", "body", "joining", "leaving", "left"}
    BY DEF ScopeInv, TypeOK
  <2>6. QED
    BY <2>1, <2>2, <2>3, <2>4, <2>5 DEF InterruptedGoesOn
<1>4. ScopeInv /\ InterruptionInv /\ [Next]_vars => [Interrupted => Interrupted']_vars
  BY InterruptionStays
<1>5. QED
  BY <1>1, <1>2, <1>3, <1>4, ScopeInvHolds, PTL DEF Spec, StaysInterrupted
=============================================================================
