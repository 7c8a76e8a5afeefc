------------------------------ MODULE ResultCache ------------------------------
(***************************************************************************)
(* ResultCache of cache.py: one dictionary, _cache, holds two kinds of     *)
(* entries, query results (keys of make_key) and pagination handles (keys  *)
(* "_paginate:<handle>"); a second dictionary, _pagination, holds the      *)
(* PaginationState of each handle. Every method runs under one asyncio     *)
(* lock without suspending, so every method is one action.                 *)
(*                                                                         *)
(* expires_at - time.monotonic() is modelled by the entry's remaining life;*)
(* a life below zero is expired and counts no further down.                *)
(* Among entries that expire equally soon min() takes the one inserted     *)
(* first; the model lets it be any of them.                                *)
(***************************************************************************)
EXTENDS Integers, FiniteSets, Functions

CONSTANTS
    QueryKeys,      \* keys of cached query results
    Handles,        \* pagination handles
    Values,         \* cached payloads
    NoValue,        \* payload of a handle's entry
    DefaultTtl,     \* default_ttl (60 s)
    PaginationTtl,  \* life of a stored handle (1800 s)
    MaxEntries      \* max_entries (256)

ASSUME CacheAssumption ==
    /\ QueryKeys \intersect Handles = {}
    /\ DefaultTtl \in Nat
    /\ PaginationTtl \in Nat
    /\ MaxEntries \in Nat

VARIABLES
    entries,        \* _cache: stored keys to [value, life]
    pagination      \* DOMAIN _pagination

cacheVars == <<entries, pagination>>

CacheKeys == QueryKeys \union Handles
Entry(v, ttl) == [value |-> v, life |-> ttl]
Lives == -1 .. (IF DefaultTtl > PaginationTtl THEN DefaultTtl ELSE PaginationTtl)
Entries == [value : Values \union {NoValue}, life : Lives]

CacheTypeOK ==
    /\ DOMAIN entries \subseteq CacheKeys
    /\ entries \in [DOMAIN entries -> Entries]
    /\ pagination \subseteq Handles

-------------------------------------------------------------------------------
(* Helpers *)

Without(f, k) == Restrict(f, DOMAIN f \ {k})

With(f, k, e) == [j \in DOMAIN f \union {k} |-> IF j = k THEN e ELSE f[j]]

SoonestReversed(f) == {k \in DOMAIN f : \A j \in DOMAIN f : f[j].life <= f[k].life}  \* mutant: max for min

\* The entries min(..., key=expires_at) may return.
Soonest(f) == {k \in DOMAIN f : \A j \in DOMAIN f : f[k].life <= f[j].life}

Overfull(f) == Cardinality(DOMAIN f) > MaxEntries

\* What _cache[k] = e followed by _evict_if_full may make of _cache: at most one
\* entry is dropped, and _pagination is left alone.
PutOutcomes(k, e) ==
    LET f == With(entries, k, e)
    IN  IF Overfull(f) THEN {Without(f, victim) : victim \in Soonest(f)} ELSE {f}

Live(k) == k \in DOMAIN entries /\ entries[k].life >= 0

-------------------------------------------------------------------------------
(* Methods *)

CacheInit == entries = << >> /\ pagination = {}

\* get: an expired entry is removed, a missing or live one changes nothing.
Get(k) ==
    /\ entries' = IF Live(k) THEN entries ELSE Without(entries, k)
    /\ UNCHANGED pagination

\* set
Set(k, v) == entries' \in PutOutcomes(k, Entry(v, DefaultTtl)) /\ UNCHANGED pagination

\* clear
Clear == entries' = << >> /\ pagination' = {}

StorePaginationShort(h) ==                 \* mutant: handles get default_ttl
    /\ pagination' = pagination \union {h}
    /\ entries' \in PutOutcomes(h, Entry(NoValue, DefaultTtl))

\* store_pagination
StorePagination(h) ==
    /\ pagination' = pagination \union {h}
    /\ entries' \in PutOutcomes(h, Entry(NoValue, PaginationTtl))

\* get_pagination: a missing or expired entry also drops the state.
GetPagination(h) ==
    IF Live(h) THEN UNCHANGED cacheVars
    ELSE /\ entries' = Without(entries, h)
         /\ pagination' = pagination \ {h}

\* drop_pagination
DropPagination(h) ==
    /\ pagination' = pagination \ {h}
    /\ entries' = Without(entries, h)

Age(e) == [e EXCEPT !.life = IF @ >= 0 THEN @ - 1 ELSE @]

CacheTick ==
    /\ entries' = [k \in DOMAIN entries |-> Age(entries[k])]
    /\ UNCHANGED pagination

CacheNext ==
    \/ \E k \in QueryKeys : Get(k) \/ \E v \in Values : Set(k, v)
    \/ \E h \in Handles : StorePagination(h) \/ GetPagination(h) \/ DropPagination(h)
    \/ Clear
    \/ CacheTick

CacheSpec == CacheInit /\ [][CacheNext]_cacheVars

-------------------------------------------------------------------------------
(* Properties *)

SizeBound == Cardinality(DOMAIN entries) <= MaxEntries
HandlesHaveState == DOMAIN entries \intersect Handles \subseteq pagination

\* However stores of results and of handles interleave, evicting one entry per
\* insertion keeps _cache within max_entries, and the two dictionaries agree where it
\* matters: a handle whose entry is alive has its PaginationState, so get_pagination
\* never returns None for a handle it has just found unexpired. (_pagination itself is
\* not bounded: eviction takes a handle's entry and leaves its state behind.)
CacheConsistent == SizeBound /\ HandlesHaveState

\* A cached result pushes a live handle out only if the handle would have expired
\* no later than everything that stays: a long session loses its place last.
SetSparesHandles ==
    [][\A h \in Handles :
          (Live(h) /\ h \notin DOMAIN entries' /\ h \in pagination')
             => \A k \in DOMAIN entries' : entries'[k].life >= entries[h].life]_cacheVars
===============================================================================
