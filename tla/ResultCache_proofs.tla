-------------------------- MODULE ResultCache_proofs --------------------------
(***************************************************************************)
(* Proofs about ResultCache for every max_entries, every pair of lives and *)
(* any number of keys: what each method keeps, whoever calls it. The       *)
(* modules that use the cache cite these lemmas.                           *)
(***************************************************************************)
EXTENDS ResultCache, FiniteSetTheorems, TLAPS

\* The inductive invariant. That the cache is finite is what lets its size be counted.
CacheInv ==
    /\ CacheTypeOK
    /\ IsFiniteSet(DOMAIN entries)
    /\ SizeBound
    /\ HandlesHaveState

-------------------------------------------------------------------------------
(* Entries *)

LEMMA EntryType ==
    ASSUME NEW v \in Values \union {NoValue}, NEW ttl \in {DefaultTtl, PaginationTtl}
    PROVE  Entry(v, ttl) \in Entries
  <1>1. ttl \in Lives
    BY CacheAssumption DEF Lives
  <1> QED BY <1>1 DEF Entry, Entries

LEMMA AgeType ==
    ASSUME NEW e \in Entries
    PROVE  Age(e) \in Entries
  <1>1. e.life \in Lives /\ e.value \in Values \union {NoValue} /\ e = [value |-> e.value, life |-> e.life]
    BY DEF Entries
  <1>2. (IF e.life >= 0 THEN e.life - 1 ELSE e.life) \in Lives
    BY <1>1, CacheAssumption DEF Lives
  <1>3. Age(e) = [value |-> e.value, life |-> IF e.life >= 0 THEN e.life - 1 ELSE e.life]
    BY <1>1 DEF Age
  <1> QED BY <1>1, <1>2, <1>3 DEF Entries

\* Taking an entry out keeps the cache well formed and no larger.
LEMMA WithoutInv ==
    ASSUME NEW f, f \in [DOMAIN f -> Entries], IsFiniteSet(DOMAIN f), NEW k
    PROVE  /\ Without(f, k) \in [DOMAIN Without(f, k) -> Entries]
           /\ DOMAIN Without(f, k) = DOMAIN f \ {k}
           /\ IsFiniteSet(DOMAIN Without(f, k))
           /\ Cardinality(DOMAIN Without(f, k)) = IF k \in DOMAIN f THEN Cardinality(DOMAIN f) - 1
                                                  ELSE Cardinality(DOMAIN f)
  <1>1. DOMAIN Without(f, k) = DOMAIN f \ {k}
    BY DEF Without, Restrict
  <1>2. Without(f, k) \in [DOMAIN f \ {k} -> Entries]
    BY DEF Without, Restrict
  <1>3. /\ IsFiniteSet(DOMAIN f \ {k})
        /\ Cardinality(DOMAIN f \ {k}) = IF k \in DOMAIN f THEN Cardinality(DOMAIN f) - 1
                                         ELSE Cardinality(DOMAIN f)
    BY FS_RemoveElement
  <1> QED BY <1>1, <1>2, <1>3

\* An insertion with its eviction: one entry in, at most one out, never too many.
LEMMA PutInv ==
    ASSUME CacheInv, NEW k \in CacheKeys, NEW e \in Entries, NEW g \in PutOutcomes(k, e)
    PROVE  /\ g \in [DOMAIN g -> Entries]
           /\ DOMAIN g \subseteq DOMAIN entries \union {k}
           /\ IsFiniteSet(DOMAIN g)
           /\ Cardinality(DOMAIN g) <= MaxEntries
  <1> DEFINE f == With(entries, k, e)
  <1>1. DOMAIN f = DOMAIN entries \union {k}
    BY DEF With
  <1>2. f \in [DOMAIN f -> Entries]
    BY <1>1 DEF With, CacheInv, CacheTypeOK
  <1>3. /\ IsFiniteSet(DOMAIN f)
        /\ Cardinality(DOMAIN f) \in Nat
        /\ Cardinality(DOMAIN f) <= MaxEntries + 1
    <2>1. IsFiniteSet(DOMAIN entries) /\ Cardinality(DOMAIN entries) <= MaxEntries
      BY DEF CacheInv, SizeBound
    <2>2. Cardinality(DOMAIN entries) \in Nat
      BY <2>1, FS_CardinalityType
    <2>3. IsFiniteSet(DOMAIN entries \union {k})
      BY <2>1, FS_AddElement
    <2>4. Cardinality(DOMAIN entries \union {k}) =
            IF k \in DOMAIN entries THEN Cardinality(DOMAIN entries)
            ELSE Cardinality(DOMAIN entries) + 1
      BY <2>1, FS_AddElement
    <2> QED BY <1>1, <2>1, <2>2, <2>3, <2>4, CacheAssumption
  <1>4. CASE Overfull(f)
    <2>1. PICK victim \in Soonest(f) : g = Without(f, victim)
      BY <1>4 DEF PutOutcomes
    <2>2. victim \in DOMAIN f
      BY DEF Soonest
    <2> HIDE DEF f
    <2>3. /\ g \in [DOMAIN g -> Entries]
          /\ DOMAIN g = DOMAIN f \ {victim}
          /\ IsFiniteSet(DOMAIN g)
          /\ Cardinality(DOMAIN g) = Cardinality(DOMAIN f) - 1
      BY <1>2, <1>3, <2>1, <2>2, WithoutInv
    <2> QED BY <1>1, <1>3, <2>3, CacheAssumption
  <1>5. CASE ~Overfull(f)
    <2>1. g = f
      BY <1>5 DEF PutOutcomes
    <2> HIDE DEF f
    <2>2. Cardinality(DOMAIN f) <= MaxEntries
      BY <1>3, <1>5, CacheAssumption DEF Overfull
    <2> QED BY <1>1, <1>2, <1>3, <2>1, <2>2
  <1> QED BY <1>4, <1>5

-------------------------------------------------------------------------------
(* Methods *)

LEMMA CacheInitInv == CacheInit => CacheInv
  <1> SUFFICES ASSUME CacheInit PROVE CacheInv
    OBVIOUS
  <1>1. DOMAIN entries = {} /\ entries \in [DOMAIN entries -> Entries]
    BY DEF CacheInit
  <1>2. IsFiniteSet(DOMAIN entries) /\ Cardinality(DOMAIN entries) = 0
    BY <1>1, FS_EmptySet
  <1> QED BY <1>1, <1>2, CacheAssumption
      DEF CacheInit, CacheInv, CacheTypeOK, SizeBound, HandlesHaveState

\* What removing k, and possibly its state when k is a handle, keeps.
LEMMA RemoveInv ==
    ASSUME CacheInv, NEW k, entries' = Without(entries, k), pagination' \subseteq Handles,
           pagination \ {k} \subseteq pagination'
    PROVE  CacheInv'
  <1>1. /\ entries' \in [DOMAIN entries' -> Entries]
        /\ DOMAIN entries' = DOMAIN entries \ {k}
        /\ IsFiniteSet(DOMAIN entries')
        /\ Cardinality(DOMAIN entries') = IF k \in DOMAIN entries THEN Cardinality(DOMAIN entries) - 1
                                          ELSE Cardinality(DOMAIN entries)
    BY WithoutInv DEF CacheInv, CacheTypeOK
  <1>2. Cardinality(DOMAIN entries) \in Nat
    BY FS_CardinalityType DEF CacheInv
  <1>3. SizeBound'
    BY <1>1, <1>2, CacheAssumption DEF CacheInv, SizeBound
  <1> QED BY <1>1, <1>3 DEF CacheInv, CacheTypeOK, HandlesHaveState

LEMMA GetInv ==
    ASSUME CacheInv, NEW k \in QueryKeys, Get(k)
    PROVE  CacheInv'
  <1>1. CASE Live(k)
    BY <1>1 DEF Get, CacheInv, CacheTypeOK, SizeBound, HandlesHaveState
  <1>2. CASE ~Live(k)
    <2>1. entries' = Without(entries, k) /\ pagination' = pagination
      BY <1>2 DEF Get
    <2> QED BY <2>1, RemoveInv DEF CacheInv, CacheTypeOK
  <1> QED BY <1>1, <1>2

LEMMA SetInv ==
    ASSUME CacheInv, NEW k \in QueryKeys, NEW v \in Values, Set(k, v)
    PROVE  CacheInv'
  <1>1. entries' \in PutOutcomes(k, Entry(v, DefaultTtl)) /\ pagination' = pagination
    BY DEF Set
  <1>2. k \in CacheKeys /\ k \notin Handles
    BY CacheAssumption DEF CacheKeys
  <1>3. Entry(v, DefaultTtl) \in Entries
    BY EntryType
  <1>4. /\ entries' \in [DOMAIN entries' -> Entries]
        /\ DOMAIN entries' \subseteq DOMAIN entries \union {k}
        /\ IsFiniteSet(DOMAIN entries')
        /\ Cardinality(DOMAIN entries') <= MaxEntries
    BY <1>1, <1>2, <1>3, PutInv
  <1> QED BY <1>1, <1>2, <1>4 DEF CacheInv, CacheTypeOK, SizeBound, HandlesHaveState

\* What storing h's entry gives, of which both ways to end a page make use.
LEMMA StoreOutcome ==
    ASSUME CacheInv, NEW h \in Handles, NEW g \in PutOutcomes(h, Entry(NoValue, PaginationTtl))
    PROVE  /\ g \in [DOMAIN g -> Entries]
           /\ DOMAIN g \subseteq DOMAIN entries \union {h}
           /\ IsFiniteSet(DOMAIN g)
           /\ Cardinality(DOMAIN g) <= MaxEntries
  <1>1. h \in CacheKeys /\ Entry(NoValue, PaginationTtl) \in Entries
    BY EntryType DEF CacheKeys
  <1> QED BY <1>1, PutInv

LEMMA StorePaginationInv ==
    ASSUME CacheInv, NEW h \in Handles, StorePagination(h)
    PROVE  CacheInv'
  <1>1. /\ entries' \in [DOMAIN entries' -> Entries]
        /\ DOMAIN entries' \subseteq DOMAIN entries \union {h}
        /\ IsFiniteSet(DOMAIN entries')
        /\ Cardinality(DOMAIN entries') <= MaxEntries
        /\ pagination' = pagination \union {h}
    BY StoreOutcome DEF StorePagination
  <1>2. h \in CacheKeys
    BY DEF CacheKeys
  <1> QED BY <1>1, <1>2 DEF CacheInv, CacheTypeOK, SizeBound, HandlesHaveState

LEMMA GetPaginationInv ==
    ASSUME CacheInv, NEW h \in Handles, GetPagination(h)
    PROVE  CacheInv'
  <1>1. CASE Live(h)
    BY <1>1 DEF GetPagination, cacheVars, CacheInv, CacheTypeOK, SizeBound, HandlesHaveState
  <1>2. CASE ~Live(h)
    <2>1. entries' = Without(entries, h) /\ pagination' = pagination \ {h}
      BY <1>2 DEF GetPagination
    <2> QED BY <2>1, RemoveInv DEF CacheInv, CacheTypeOK
  <1> QED BY <1>1, <1>2

LEMMA DropPaginationInv ==
    ASSUME CacheInv, NEW h \in Handles, DropPagination(h)
    PROVE  CacheInv'
  BY RemoveInv DEF DropPagination, CacheInv, CacheTypeOK

LEMMA CacheTickInv ==
    ASSUME CacheInv, CacheTick
    PROVE  CacheInv'
  <1>1. DOMAIN entries' = DOMAIN entries /\ pagination' = pagination
    BY DEF CacheTick
  <1>2. entries' \in [DOMAIN entries -> Entries]
    BY AgeType DEF CacheTick, CacheInv, CacheTypeOK
  <1> QED BY <1>1, <1>2 DEF CacheInv, CacheTypeOK, SizeBound, HandlesHaveState

LEMMA ClearInv ==
    ASSUME CacheInv, Clear
    PROVE  CacheInv'
  <1>1. DOMAIN entries' = {} /\ entries' \in [DOMAIN entries' -> Entries]
    BY DEF Clear
  <1>2. IsFiniteSet(DOMAIN entries') /\ Cardinality(DOMAIN entries') = 0
    BY <1>1, FS_EmptySet
  <1> QED BY <1>1, <1>2, CacheAssumption
      DEF Clear, CacheInv, CacheTypeOK, SizeBound, HandlesHaveState

LEMMA CacheNextInv == CacheInv /\ [CacheNext]_cacheVars => CacheInv'
  <1> SUFFICES ASSUME CacheInv, [CacheNext]_cacheVars PROVE CacheInv'
    OBVIOUS
  <1>1. ASSUME NEW k \in QueryKeys, Get(k) PROVE CacheInv'
    BY <1>1, GetInv
  <1>2. ASSUME NEW k \in QueryKeys, NEW v \in Values, Set(k, v) PROVE CacheInv'
    BY <1>2, SetInv
  <1>3. ASSUME NEW h \in Handles, StorePagination(h) PROVE CacheInv'
    BY <1>3, StorePaginationInv
  <1>4. ASSUME NEW h \in Handles, GetPagination(h) PROVE CacheInv'
    BY <1>4, GetPaginationInv
  <1>5. ASSUME NEW h \in Handles, DropPagination(h) PROVE CacheInv'
    BY <1>5, DropPaginationInv
  <1>6. CASE UNCHANGED cacheVars
    BY <1>6 DEF cacheVars, CacheInv, CacheTypeOK, SizeBound, HandlesHaveState
  <1> QED BY <1>1, <1>2, <1>3, <1>4, <1>5, <1>6, ClearInv, CacheTickInv DEF CacheNext

\* However the cache's methods are called, it stays within max_entries, and a handle
\* that is stored has its state.
THEOREM Consistency == CacheSpec => []CacheConsistent
  <1>1. CacheInv => CacheConsistent
    BY DEF CacheInv, CacheConsistent
  <1> QED BY CacheInitInv, CacheNextInv, <1>1, PTL DEF CacheSpec
-------------------------------------------------------------------------------
(* Who is evicted *)

\* g came about by dropping j from a full cache, and nothing in g expires sooner than
\* j would have.
DroppedForRoom(g, j) ==
    /\ j \notin DOMAIN g
    /\ Cardinality(DOMAIN entries) = MaxEntries
    /\ \A i \in DOMAIN g : g[i].life >= entries[j].life

\* An insertion leaves an entry stored before it alone, replaces it when it has the
\* same key, or drops it to make room.
LEMMA PutSpares ==
    ASSUME CacheInv, NEW k \in CacheKeys, NEW e \in Entries, NEW g \in PutOutcomes(k, e),
           NEW j \in DOMAIN entries
    PROVE  \/ j \in DOMAIN g /\ g[j] = IF j = k THEN e ELSE entries[j]
           \/ j # k /\ DroppedForRoom(g, j)
  <1> DEFINE f == With(entries, k, e)
  <1>1. /\ DOMAIN f = DOMAIN entries \union {k}
        /\ f[j] = IF j = k THEN e ELSE entries[j]
        /\ f \in [DOMAIN f -> Entries]
    BY DEF With, CacheInv, CacheTypeOK
  <1>2. /\ Cardinality(DOMAIN entries) \in Nat
        /\ Cardinality(DOMAIN entries) <= MaxEntries
        /\ Cardinality(DOMAIN f) = IF k \in DOMAIN entries THEN Cardinality(DOMAIN entries)
                                   ELSE Cardinality(DOMAIN entries) + 1
    BY <1>1, FS_CardinalityType, FS_AddElement DEF CacheInv, SizeBound
  <1>3. CASE Overfull(f)
    <2>1. k \notin DOMAIN entries /\ Cardinality(DOMAIN entries) = MaxEntries
      BY <1>2, <1>3, CacheAssumption DEF Overfull
    <2>2. PICK victim \in Soonest(f) : g = Without(f, victim)
      BY <1>3 DEF PutOutcomes
    <2>3. victim \in DOMAIN f /\ \A i \in DOMAIN f : f[victim].life <= f[i].life
      BY <2>2 DEF Soonest
    <2> HIDE DEF f
    <2>4. DOMAIN g = DOMAIN f \ {victim} /\ \A i \in DOMAIN g : g[i] = f[i]
      BY <2>2 DEF Without, Restrict
    <2>5. CASE victim = j
      <3>1. j # k /\ j \notin DOMAIN g /\ f[victim] = entries[j]
        BY <1>1, <2>1, <2>4, <2>5
      <3>2. \A i \in DOMAIN g : g[i].life >= entries[j].life
        <4>1. \A i \in DOMAIN f : f[i].life \in Int
          BY <1>1, CacheAssumption DEF Entries, Lives
        <4>2. \A i \in DOMAIN g : i \in DOMAIN f /\ g[i] = f[i]
          BY <2>4
        <4> QED BY <2>3, <3>1, <4>1, <4>2
      <3> QED BY <2>1, <3>1, <3>2 DEF DroppedForRoom
    <2>6. CASE victim # j
      BY <1>1, <2>4, <2>6
    <2> QED BY <2>5, <2>6
  <1>4. CASE ~Overfull(f)
    <2>1. g = f
      BY <1>4 DEF PutOutcomes
    <2> HIDE DEF f
    <2> QED BY <1>1, <2>1
  <1> QED BY <1>3, <1>4

\* What is stored under the key of an insertion, if anything is.
LEMMA EntryInserted ==
    ASSUME CacheInv, NEW k \in CacheKeys, NEW e \in Entries, NEW g \in PutOutcomes(k, e),
           k \in DOMAIN g
    PROVE  g[k] = e
  <1> DEFINE f == With(entries, k, e)
  <1>1. f[k] = e
    BY DEF With
  <1>2. CASE Overfull(f)
    <2>1. PICK victim \in Soonest(f) : g = Without(f, victim)
      BY <1>2 DEF PutOutcomes
    <2> HIDE DEF f
    <2> QED BY <1>1, <2>1 DEF Without, Restrict
  <1>3. CASE ~Overfull(f)
    BY <1>1, <1>3 DEF PutOutcomes
  <1> QED BY <1>2, <1>3

\* What SetSparesHandles asks of a step, for one handle.
Spared(h) ==
    (Live(h) /\ h \notin DOMAIN entries' /\ h \in pagination')
       => \A k \in DOMAIN entries' : entries'[k].life >= entries[h].life

LEMMA PutIsSparing ==
    ASSUME CacheInv, NEW k \in CacheKeys, NEW e \in Entries, entries' \in PutOutcomes(k, e),
           NEW h \in Handles
    PROVE  Spared(h)
  BY PutSpares DEF Spared, Live, DroppedForRoom

LEMMA StoreIsSparing ==
    ASSUME CacheInv, NEW g \in Handles, StorePagination(g), NEW h \in Handles
    PROVE  Spared(h)
  <1>1. g \in CacheKeys /\ Entry(NoValue, PaginationTtl) \in Entries
    BY EntryType DEF CacheKeys
  <1> QED BY <1>1, PutIsSparing DEF StorePagination

LEMMA SetIsSparing ==
    ASSUME CacheInv, NEW k \in QueryKeys, NEW v \in Values, Set(k, v), NEW h \in Handles
    PROVE  Spared(h)
  <1>1. k \in CacheKeys /\ Entry(v, DefaultTtl) \in Entries
    BY EntryType DEF CacheKeys
  <1> QED BY <1>1, PutIsSparing DEF Set

\* get and get_pagination remove what is expired only.
LEMMA GetIsSparing ==
    ASSUME NEW h \in Handles,
           \/ \E k \in QueryKeys : Get(k)
           \/ \E g \in Handles : GetPagination(g)
    PROVE  Live(h) => h \in DOMAIN entries' /\ entries'[h] = entries[h]
  <1>1. ASSUME NEW k \in QueryKeys \union Handles,
               entries' = entries \/ (~Live(k) /\ entries' = Without(entries, k)), Live(h)
        PROVE  h \in DOMAIN entries' /\ entries'[h] = entries[h]
    BY <1>1 DEF Live, Without, Restrict
  <1> QED BY <1>1 DEF Get, GetPagination, cacheVars

\* However the cache's methods are called, an insertion pushes a live handle out only
\* if the handle would have expired no later than everything that stays.
THEOREM HandlesSpared == CacheSpec => SetSparesHandles
  <1>1. ASSUME CacheInv, [CacheNext]_cacheVars, NEW h \in Handles
        PROVE  Spared(h)
    <2>1. ASSUME NEW k \in QueryKeys, Get(k) \/ \E v \in Values : Set(k, v) PROVE Spared(h)
      BY <1>1, <2>1, GetIsSparing, SetIsSparing DEF Spared
    <2>2. ASSUME NEW g \in Handles, StorePagination(g) \/ GetPagination(g) PROVE Spared(h)
      BY <1>1, <2>2, GetIsSparing, StoreIsSparing DEF Spared
    <2>3. ASSUME NEW g \in Handles, DropPagination(g) PROVE Spared(h)
      BY <2>3 DEF DropPagination, Spared, Live, Without, Restrict
    <2>4. CASE Clear
      BY <2>4 DEF Clear, Spared
    <2>5. CASE CacheTick \/ UNCHANGED cacheVars
      BY <2>5 DEF CacheTick, cacheVars, Spared, Live
    <2> QED BY <1>1, <2>1, <2>2, <2>3, <2>4, <2>5 DEF CacheNext
  <1>2. CacheInv /\ [CacheNext]_cacheVars
           => [\A h \in Handles :
                  (Live(h) /\ h \notin DOMAIN entries' /\ h \in pagination')
                     => \A k \in DOMAIN entries' : entries'[k].life >= entries[h].life]_cacheVars
    BY <1>1 DEF Spared
  <1> QED BY CacheInitInv, CacheNextInv, <1>2, PTL DEF CacheSpec, SetSparesHandles
===============================================================================
