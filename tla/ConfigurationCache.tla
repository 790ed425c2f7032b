------------------------- MODULE ConfigurationCache -------------------------
(***************************************************************************)
(* haiway.postgres.configuration: the configuration repository kept in     *)
(* PostgreSQL, read through two local caches.                              *)
(*                                                                         *)
(* Tasks of one process load, list, define and remove configurations.  A   *)
(* statement is sent, takes effect in the database, and its result reaches *)
(* the task in a later step; anything may happen in between, also the      *)
(* cancellation of the task.  The database is external and each statement  *)
(* is atomic there.  The table is the history of its commits, and what is  *)
(* read is the number of the last commit to what was asked for.            *)
(*                                                                         *)
(* A task may have opened a transaction, which its statements then use: it *)
(* reads its own writes, and others see them when it commits.              *)
(***************************************************************************)
EXTENDS LocalCache, FiniteSets

CONSTANTS
    Clients,       \* tasks using the repository
    Transacting,   \* those of them that open transactions
    Identifiers,   \* identifiers of configurations
    MaxWrites,     \* bound: commits that change the table
    MaxTransacted, \* bound: those of them that end a transaction
    MaxTime,       \* bound: the clock
    Latency        \* the longest time from a miss to the storing of its result

VARIABLES
    now,           \* monotonic()
    writes,        \* the commits to the table in their order, with their time
    cache,         \* the caches of loading and listing
    client,        \* what each task waits for
    open,          \* the tasks that are inside a transaction
    pending,       \* the identifiers that the transaction of each task has changed
    skipped        \* history: a writer was cancelled after its write, no clear since

vars == <<now, writes, cache, client, open, pending, skipped>>

\* A listing reads every identifier, a load one.
All == "all"
Keys == Identifiers \cup {All}
Covers(key) == IF key = All THEN Identifiers ELSE {key}
CacheOf(key) == IF key = All THEN "listing" ELSE "loading"

Writes(key) == {n \in DOMAIN writes : writes[n].keys \cap Covers(key) # {}}
Newest(key) == IF Writes(key) = {} THEN 0
               ELSE CHOOSE n \in Writes(key) : \A m \in Writes(key) : m <= n

Idle == [op |-> "idle", key |-> All, seen |-> 0, since |-> 0, own |-> FALSE]

Init ==
    /\ now = 0
    /\ writes = <<>>
    /\ cache = [which \in {"loading", "listing"} |-> Cleared]
    /\ client = [c \in Clients |-> Idle]
    /\ open = {}
    /\ pending = [c \in Clients |-> {}]
    /\ skipped = FALSE
-----------------------------------------------------------------------------
Hit(key) ==
    /\ Cached(cache[CacheOf(key)], key)
    /\ Fresh(EntryFor(cache[CacheOf(key)], key), now)

\* A load or listing answered by the cache.
ReadHit(c, key) ==
    /\ client[c].op = "idle"
    /\ Hit(key)
    /\ cache' = [cache EXCEPT ![CacheOf(key)] = Touched(@, key)]
    /\ UNCHANGED <<now, writes, client, open, pending, skipped>>

\* A load or listing that is not: an expired entry is deleted, and the
\* statement is sent.
ReadMiss(c, key) ==
    /\ client[c].op = "idle"
    /\ ~Hit(key)
    /\ cache' = [cache EXCEPT ![CacheOf(key)] = Without(@, key)]
    /\ client' = [client EXCEPT ![c] = [Idle EXCEPT !.op = "reading", !.key = key,
                                                     !.since = now]]
    /\ UNCHANGED <<now, writes, open, pending, skipped>>

\* The database executes the SELECT, which may read what its transaction wrote.
Select(c) ==
    /\ client[c].op = "reading"
    /\ client' = [client EXCEPT ![c].op = "read", ![c].seen = Newest(client[c].key),
                                ![c].own = pending[c] \cap Covers(client[c].key) # {}]
    /\ UNCHANGED <<now, writes, cache, open, pending, skipped>>

\* The result reaches the task, which stores it whatever was cleared since.
ReadStored(c) ==
    /\ client[c].op = "read"
    /\ LET key == client[c].key
           entry == [key |-> key, seen |-> client[c].seen, expire |-> now + Expiration,
                     current |-> client[c].seen = Newest(key) /\ ~client[c].own]
       IN  cache' = [cache EXCEPT ![CacheOf(key)] = Stored(@, entry)]
    /\ client' = [client EXCEPT ![c] = Idle]
    /\ UNCHANGED <<now, writes, open, pending, skipped>>

\* defining or removing: the INSERT or DELETE is sent.
Write(c, key) ==
    /\ client[c].op = "idle"
    /\ client' = [client EXCEPT ![c] = [Idle EXCEPT !.op = "writing", !.key = key]]
    /\ UNCHANGED <<now, writes, cache, open, pending, skipped>>

Committed(keys, transacted) ==
    writes' = Append(writes, [keys |-> keys, at |-> now, transacted |-> transacted])

\* The database executes it, and commits: it is no part of a transaction.
Commit(c) ==
    /\ client[c].op = "writing" /\ c \notin open
    /\ Len(writes) < MaxWrites
    /\ Committed({client[c].key}, FALSE)
    /\ client' = [client EXCEPT ![c].op = "written"]
    /\ UNCHANGED <<now, cache, open, pending, skipped>>

\* The database executes it as a part of the transaction of the task.
Execute(c) ==
    /\ client[c].op = "writing" /\ c \in open
    /\ pending' = [pending EXCEPT ![c] = @ \cup {client[c].key}]
    /\ client' = [client EXCEPT ![c].op = "written"]
    /\ UNCHANGED <<now, writes, cache, open, skipped>>

\* Mutant: only the documents are dropped after a write.
ClearCaches_LoadingOnly == [cache EXCEPT !["loading"] = Cleared]

\* clear_cache of both; neither of them waits.
ClearCaches == [which \in {"loading", "listing"} |-> Cleared]

\* The write is confirmed and the caches are cleared, also when the transaction
\* has not committed it.
Written(c) ==
    /\ client[c].op = "written"
    /\ cache' = ClearCaches
    /\ skipped' = FALSE
    /\ client' = [client EXCEPT ![c] = Idle]
    /\ UNCHANGED <<now, writes, open, pending>>

\* The statement raises or the task is cancelled: nothing is stored, and the
\* caches stay as they are even if the write took effect.  A transaction whose
\* statement did not end is rolled back.
Abandon(c) ==
    /\ client[c].op # "idle"
    /\ client' = [client EXCEPT ![c] = Idle]
    /\ IF c \in open
       THEN /\ IF client[c].op \in {"reading", "writing"}
               THEN open' = open \ {c} /\ pending' = [pending EXCEPT ![c] = {}]
               ELSE UNCHANGED <<open, pending>>
            /\ UNCHANGED skipped
       ELSE /\ skipped' = (skipped \/ client[c].op = "written")
            /\ UNCHANGED <<open, pending>>
    /\ UNCHANGED <<now, writes, cache>>

Begin(c) ==
    /\ c \in Transacting /\ client[c].op = "idle" /\ c \notin open
    /\ Cardinality({n \in DOMAIN writes : writes[n].transacted}) < MaxTransacted
    /\ open' = open \cup {c}
    /\ UNCHANGED <<now, writes, cache, client, pending, skipped>>

\* The transaction ends: what it changed is there for all, and no cache is
\* cleared, or all of it is undone.
End(c) ==
    /\ client[c].op = "idle" /\ c \in open
    /\ \/ UNCHANGED writes
       \/ pending[c] # {} /\ Len(writes) < MaxWrites /\ Committed(pending[c], TRUE)
    /\ open' = open \ {c}
    /\ pending' = [pending EXCEPT ![c] = {}]
    /\ UNCHANGED <<now, cache, client, skipped>>

\* Time passes; no read takes longer than Latency.
Tick ==
    /\ now < MaxTime
    /\ \A c \in Clients : client[c].op \in {"reading", "read"} => now < client[c].since + Latency
    /\ now' = now + 1
    /\ UNCHANGED <<writes, cache, client, open, pending, skipped>>

Next ==
    \/ Tick
    \/ \E c \in Clients :
        \/ \E key \in Keys : ReadHit(c, key) \/ ReadMiss(c, key)
        \/ \E key \in Identifiers : Write(c, key)
        \/ Select(c) \/ ReadStored(c) \/ Commit(c) \/ Execute(c) \/ Written(c) \/ Abandon(c)
        \/ Begin(c) \/ End(c)

Spec == Init /\ [][Next]_vars
-----------------------------------------------------------------------------
\* What a confirmed write replaced is served no longer, from either cache, unless
\* it was not what the table held when it was stored, because it was being read
\* while the write took effect or by the transaction that had not committed it,
\* or the write took effect with a transaction, which commits after the caches
\* were cleared.
StaleExplained ==
    \A which \in {"loading", "listing"} : \A n \in DOMAIN cache[which] :
        LET entry == cache[which][n]
        IN  \/ \A m \in Writes(entry.key) : m > entry.seen => writes[m].transacted
            \/ ~entry.current
            \/ skipped
            \/ \E c \in Clients \ open :
                   client[c].op = "written" /\ client[c].key \in Covers(entry.key)

\* When what was read as `seen` was replaced, if it was.
ReplacedFor(key, seen) ==
    LET later == {n \in Writes(key) : n > seen}
    IN  IF later = {} THEN 0
        ELSE now - writes[CHOOSE n \in later : \A m \in later : n <= m].at

\* Races and cancelled writers notwithstanding, no answer was replaced longer
\* ago than a read may take and a cached entry may be served: an answer is
\* replaced when the first write after it is committed.
StalenessBounded ==
    /\ \A key \in Keys :
        Hit(key) =>
            ReplacedFor(key, EntryFor(cache[CacheOf(key)], key).seen) <= Expiration + Latency
    /\ \A c \in Clients :
        client[c].op = "read" => ReplacedFor(client[c].key, client[c].seen) <= Latency
=============================================================================
