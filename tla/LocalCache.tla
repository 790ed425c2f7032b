----------------------------- MODULE LocalCache -----------------------------
(***************************************************************************)
(* haiway.helpers.caching._LocalCache: the operations on its OrderedDict.  *)
(*                                                                         *)
(* A cache is a sequence of entries, the least recently used first.  The   *)
(* module has operators only; what happens between a miss and the storing  *)
(* of the result is up to the callers.                                     *)
(***************************************************************************)
EXTENDS Integers, Sequences, SequencesExt

CONSTANTS
    Limit,         \* entries kept
    Expiration     \* time an entry is served

Positions(cache, key) == {n \in DOMAIN cache : cache[n].key = key}
Cached(cache, key) == Positions(cache, key) # {}
Position(cache, key) == CHOOSE n \in Positions(cache, key) : TRUE
EntryFor(cache, key) == cache[Position(cache, key)]

Without(cache, key) ==
    IF Cached(cache, key) THEN RemoveAt(cache, Position(cache, key)) ELSE cache

\* move_to_end
Touched(cache, key) == Append(Without(cache, key), EntryFor(cache, key))

\* Mutant: an entry is served however old it is.
Fresh_Always(entry, now) == TRUE

Fresh(entry, now) == entry.expire >= now

\* Assigning to a key that is present keeps its place; otherwise the entry is
\* appended, and the first one is popped when there are too many.
Stored(cache, entry) ==
    LET longer == Append(cache, entry)
    IN  IF Cached(cache, entry.key) THEN [cache EXCEPT ![Position(cache, entry.key)] = entry]
        ELSE IF Len(longer) > Limit THEN Tail(longer) ELSE longer

Cleared == <<>>
=============================================================================
