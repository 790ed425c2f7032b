----------------------------- MODULE MCServices -----------------------------
(***************************************************************************)
(* Five components that share nothing, checked side by side: `subject`     *)
(* says which of them a behaviour is about, and the others stay as they    *)
(* began.                                                                  *)
(***************************************************************************)
EXTENDS Concurrent, Sequences

CONSTANTS
    Clients, Transacting, Identifiers, MaxWrites, MaxTransacted, MaxTime, Latency, Limit, Expiration,
    Contexts, Locking, Readers, Content, MaxOperations,
    Scopes,
    MaxMessages, MaxConnections, MaxChannels, MaxCalls, MaxDeliveries, MaxLosses

\* Times are natural numbers; an entry that never expires is not modelled.  What
\* is written is a sequence of blocks.  No scope is the one that stands for None.
ASSUME ServicesAssumption ==
    /\ Latency \in Nat /\ Expiration \in Nat
    /\ \A t \in Readers : Content[t] \in Seq(STRING)
    /\ "none" \notin Scopes

MCContent == [t |-> <<"a", "b">>, u |-> <<"c">>]

VARIABLES
    subject,
    now, writes, cache, client, open, pending, skipped,
    file, handles, access, working, jobs, operations, trusted, expected, answer,
    bridge, root, stores, scope, late, second,
    connection, connections, channels, consuming, queued, buffer, block, call, held, published,
    calls, losses, abandoned, gone, released, purged

Cache == INSTANCE ConfigurationCache
Files == INSTANCE FileAccess
Tree == INSTANCE ScopeTree
Broker == INSTANCE RabbitMQConnection

cacheVars == <<now, writes, cache, client, open, pending, skipped>>
fileVars == <<file, handles, access, working, jobs, operations, trusted, expected, answer>>
treeVars == <<bridge, root, stores, scope, late, second>>
mqVars == <<connection, connections, channels, consuming, queued, buffer, block, call, held,
            published, calls, losses, abandoned, gone, released, purged>>
allVars == <<subject, vars, cacheVars, fileVars, treeVars, mqVars>>

ServicesInit ==
    /\ subject \in {"concurrent", "configuration", "files", "tree", "broker"}
    /\ Init
    /\ subject # "concurrent" => mode = [async |-> FALSE, keep |-> FALSE, collect |-> FALSE]
    /\ Cache!Init
    /\ Files!Init
    /\ Tree!Init
    /\ Broker!Init

ServicesNext ==
    \/ /\ subject = "concurrent" /\ Next
       /\ UNCHANGED <<subject, cacheVars, fileVars, treeVars, mqVars>>
    \/ /\ subject = "configuration" /\ Cache!Next
       /\ UNCHANGED <<subject, vars, fileVars, treeVars, mqVars>>
    \/ /\ subject = "files" /\ Files!Next
       /\ UNCHANGED <<subject, vars, cacheVars, treeVars, mqVars>>
    \/ /\ subject = "tree" /\ Tree!Next
       /\ UNCHANGED <<subject, vars, cacheVars, fileVars, mqVars>>
    \/ /\ subject = "broker" /\ Broker!Next
       /\ UNCHANGED <<subject, vars, cacheVars, fileVars, treeVars>>

ServicesSpec == ServicesInit /\ [][ServicesNext]_allVars
-----------------------------------------------------------------------------
\* ConfigurationCache: what a confirmed write replaced is served no longer,
\* unless it was being read while the write took effect, or a transaction wrote it.
StaleExplained == Cache!StaleExplained

\* ConfigurationCache: no answer was replaced longer ago than a read may take
\* and a cached entry may be served.
StalenessBounded == Cache!StalenessBounded

\* FileAccess: a write that ends well is what the file holds and what reads
\* return, whatever was cancelled or closed before.
UndisturbedAccess == Files!UndisturbedAccess

\* ScopeTree: a tree of scopes is reported with the last scope that was left.
ReportedWhenDone == Tree!ReportedWhenDone

\* RabbitMQConnection: a message is dropped only when its consumer let it
\* go, or when the queue that it waited in was purged.
NoMessageLost == Broker!NoMessageLost

\* RabbitMQConnection: nothing stays open at the broker that is neither in use
\* nor given up.
OpenIsAccounted == Broker!OpenIsAccounted
=============================================================================
