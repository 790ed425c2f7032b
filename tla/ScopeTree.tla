----------------------------- MODULE ScopeTree -----------------------------
(***************************************************************************)
(* The trees of scope stores that LoggerObservability                      *)
(* (helpers/observability.py) and OpenTelemetry.observability              *)
(* (opentelemetry/observability.py) keep: when a scope is complete, when   *)
(* its parents are, and when the tree is reported and forgotten.           *)
(*                                                                         *)
(* The parent of a scope is the scope in whose context it was prepared; a  *)
(* stream, a spawned task or a background task may enter it long after     *)
(* that parent was left.  Several root scopes may share one Observability. *)
(***************************************************************************)
EXTENDS Integers, FiniteSets

CONSTANT Scopes   \* the scopes that are entered, each once

VARIABLES
    bridge,   \* which of the two implementations it is
    root,     \* root_scope
    stores,   \* scopes: the store of each scope that is known
    scope,    \* what became of each scope, and its parent
    late,     \* history: the scopes entered beneath one that was complete
    second    \* history: the root scopes entered while there was another

treeVars == <<bridge, root, stores, scope, late, second>>

NoScope == "none"
Entered == {s \in Scopes : scope[s].phase = "entered"}

Init ==
    /\ bridge = NoScope
    /\ root = NoScope
    /\ stores = [s \in {} |-> s]
    /\ scope = [s \in Scopes |-> [phase |-> "new", parent |-> NoScope]]
    /\ late = {}
    /\ second = {}

\* Which Observability the first scope is given.
Configure ==
    /\ bridge = NoScope
    /\ bridge' \in {"logger", "spans"}
    /\ UNCHANGED <<root, stores, scope, late, second>>
-----------------------------------------------------------------------------
(* ScopeStore.                                                             *)

NewStore == [nested |-> {}, exited |-> FALSE, completed |-> FALSE]
WithStore(known, s) == [r \in DOMAIN known \cup {s} |-> IF r = s THEN NewStore ELSE known[r]]

\* Mutant: what was entered beneath a complete scope is not looked at.
Completed_Flag(known, s) == known[s].completed

\* The scope, what is nested in it, and so on, are all completed.
Completed(known, s) ==
    \E tree \in SUBSET DOMAIN known :
        /\ s \in tree
        /\ \A r \in tree : known[r].completed /\ known[r].nested \subseteq tree

Completable(known, s) ==
    /\ known[s].exited
    /\ ~known[s].completed
    /\ \A n \in known[s].nested : Completed(known, n)

Complete(known, done) ==
    [r \in DOMAIN known |-> [known[r] EXCEPT !.completed = @ \/ r \in done]]

\* try_complete of a scope, then of its parents up to the root as long as it
\* succeeds, completes those in `done`.
Completes(known, s, done) ==
    LET Tried == {s} \cup {scope[n].parent : n \in done \ {root}}
        Succeeds(r) == r \in DOMAIN known /\ Completable(Complete(known, done \ {r}), r)
    IN  done = {r \in Tried : Succeeds(r)}
-----------------------------------------------------------------------------
(* scope_entering and scope_exiting.                                       *)

Prepared(s, parent) == [scope EXCEPT ![s] = [phase |-> "entered", parent |-> parent]]

EnterFirst(s, parent) ==
    /\ root = NoScope
    /\ root' = s
    /\ stores' = WithStore(stores, s)
    /\ scope' = Prepared(s, parent)
    /\ UNCHANGED <<bridge, late, second>>

\* A root scope is its own parent, so with the logger it is nested in itself.
EnterNested(s, parent) ==
    /\ root # NoScope
    /\ parent \in DOMAIN stores \/ (parent = s /\ bridge = "logger")
    /\ stores' = [WithStore(stores, s) EXCEPT ![parent].nested = @ \cup {s}]
    /\ scope' = Prepared(s, parent)
    /\ late' = IF parent # s /\ stores[parent].completed THEN late \cup {s} ELSE late
    /\ second' = IF parent = s THEN second \cup {s} ELSE second
    /\ UNCHANGED <<bridge, root>>

\* The store of the parent is gone: KeyError leaves the scope.  The logger has
\* added a store for it by then.
EnterRaises(s, parent) ==
    /\ root # NoScope
    /\ parent \notin DOMAIN stores
    /\ parent = s => bridge = "spans"
    /\ stores' = IF bridge = "logger" THEN WithStore(stores, s) ELSE stores
    /\ scope' = [scope EXCEPT ![s].phase = "refused"]
    /\ UNCHANGED <<bridge, root, late, second>>

\* A scope is entered in the context of another, or of none.
Enter(s) ==
    /\ bridge # NoScope
    /\ scope[s].phase = "new"
    /\ \E parent \in {p \in Scopes : scope[p].phase \in {"entered", "left"}} \cup {s} :
        EnterFirst(s, parent) \/ EnterNested(s, parent) \/ EnterRaises(s, parent)

Left(s) == [stores EXCEPT ![s].exited = TRUE]

\* The scope is complete or not, its parents are, and with the root complete
\* the tree is reported and everything is forgotten.
Exit(s) ==
    /\ scope[s].phase = "entered"
    /\ s \in DOMAIN stores
    /\ \E done \in SUBSET DOMAIN stores :
        LET reported == done # {} /\ Completed(Complete(Left(s), done), root)
        IN  /\ Completes(Left(s), s, done)
            /\ root' = IF reported THEN NoScope ELSE root
            /\ stores' = IF reported THEN [r \in {} |-> r] ELSE Complete(Left(s), done)
    /\ scope' = [scope EXCEPT ![s].phase = "left"]
    /\ UNCHANGED <<bridge, late, second>>

\* Its store was forgotten: the assertion fails, which is logged and no more.
ExitRaises(s) ==
    /\ scope[s].phase = "entered"
    /\ s \notin DOMAIN stores
    /\ scope' = [scope EXCEPT ![s].phase = "left"]
    /\ UNCHANGED <<bridge, root, stores, late, second>>

Next == Configure \/ \E s \in Scopes : Enter(s) \/ Exit(s) \/ ExitRaises(s)

Spec == Init /\ [][Next]_treeVars
-----------------------------------------------------------------------------
\* The tree is reported when, and only when, every scope of it was left: not
\* while a scope, unless it is beneath a second root, is still open, and with
\* the last of them, unless a scope was entered beneath one that was complete.
ReportedWhenDone ==
    /\ second = {} /\ root = NoScope => Entered = {}
    /\ late = {} /\ second = {} /\ root # NoScope => Entered # {}

\* A scope that is left completes itself and its parents in one way: whatever is
\* open, late or forgotten around it, there is a set of scopes that it completes,
\* and, while all scopes are beneath one root, no other.
LeavingDetermined ==
    \A s \in Entered \cap DOMAIN stores :
        /\ \E done \in SUBSET DOMAIN stores : Completes(Left(s), s, done)
        /\ second = {} =>
            \A done, other \in SUBSET DOMAIN stores :
                Completes(Left(s), s, done) /\ Completes(Left(s), s, other) => done = other
=============================================================================
