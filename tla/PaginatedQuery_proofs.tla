------------------------- MODULE PaginatedQuery_proofs -------------------------
(***************************************************************************)
(* Proofs about PaginatedQuery for any number of clients and handles, any  *)
(* result and page size and any room in the cache: the cache stays bounded *)
(* and in agreement with itself, and a walk whose fetches do not overlap   *)
(* gives its clients the rows of the result in order, each once, to the    *)
(* end.                                                                    *)
(***************************************************************************)
EXTENDS PaginatedQuery, ResultCache_proofs, SequenceTheorems

-------------------------------------------------------------------------------
(* Pages *)

LEMMA PageLengthBounds ==
    ASSUME NEW h \in Handles, NEW o \in Nat, size[h] \in Nat
    PROVE  /\ PageLength(h, o) \in Nat
           /\ o <= size[h] => o + PageLength(h, o) <= size[h]
           /\ o <= size[h] /\ PageLength(h, o) # PageSize => o + PageLength(h, o) = size[h]
  BY PagingAssumption DEF PageLength

LEMMA PageType ==
    ASSUME NEW h \in Handles, NEW o \in Nat, size[h] \in Nat
    PROVE  /\ Page(h, o) \in Seq(Nat)
           /\ Len(Page(h, o)) = PageLength(h, o)
           /\ \A i \in 1 .. PageLength(h, o) : Page(h, o)[i] = o + i
  <1>1. PageLength(h, o) \in Nat
    BY PageLengthBounds
  <1> DEFINE n == PageLength(h, o)
  <1> HIDE DEF n
  <1>2. Page(h, o) = [i \in 1 .. n |-> o + i]
    BY DEF Page, n
  <1>3. n \in Nat
    BY <1>1 DEF n
  <1>4. [i \in 1 .. n |-> o + i] \in Seq(Nat)
    BY <1>3
  <1>5. Len([i \in 1 .. n |-> o + i]) = n
    BY <1>3
  <1>6. Page(h, o) \in Seq(Nat) /\ Len(Page(h, o)) = n /\ \A i \in 1 .. n : Page(h, o)[i] = o + i
    BY <1>2, <1>4, <1>5
  <1> QED BY <1>6 DEF n

\* The rows are 1, 2, ... n.
Counts(rows, n) == Len(rows) = n /\ \A i \in 1 .. n : rows[i] = i

\* The rows are in order, and none is behind n.
Ordered(rows, n) ==
    /\ \A i \in 1 .. Len(rows) : rows[i] <= n
    /\ \A i, j \in 1 .. Len(rows) : i < j => rows[i] < rows[j]

\* The page at o continues the rows 1 .. o, and keeps any rows up to o in order.
LEMMA PageAppended ==
    ASSUME NEW h \in Handles, NEW o \in Nat, size[h] \in Nat, NEW rows \in Seq(Nat)
    PROVE  /\ rows \o Page(h, o) \in Seq(Nat)
           /\ Len(rows \o Page(h, o)) = Len(rows) + PageLength(h, o)
           /\ Counts(rows, o) => Counts(rows \o Page(h, o), o + PageLength(h, o))
           /\ Ordered(rows, o) => Ordered(rows \o Page(h, o), o + PageLength(h, o))
  <1> DEFINE page == Page(h, o)
             n == PageLength(h, o)
             m == Len(rows)
             all == rows \o page
  <1>1. n \in Nat
    BY PageLengthBounds
  <1>2. page \in Seq(Nat) /\ Len(page) = n /\ \A i \in 1 .. n : page[i] = o + i
    BY PageType
  <1>3. m \in Nat /\ \A i \in 1 .. m : rows[i] \in Nat
    BY LenProperties, ElementOfSeq
  <1> HIDE DEF page, n
  <1>4. /\ all \in Seq(Nat)
        /\ Len(all) = m + n
        /\ \A i \in 1 .. m + n : all[i] = IF i <= m THEN rows[i] ELSE page[i - m]
    BY <1>2, ConcatProperties
  <1> HIDE DEF m, all
  <1>5. \A i \in 1 .. m + n : all[i] = IF i <= m THEN rows[i] ELSE o + (i - m)
    BY <1>1, <1>2, <1>3, <1>4
  <1>6. Counts(rows, o) => Counts(all, o + n)
    BY <1>1, <1>3, <1>4, <1>5 DEF Counts, m
  <1>7. ASSUME Ordered(rows, o) PROVE Ordered(all, o + n)
    <2>1. /\ \A i \in 1 .. m : rows[i] <= o
          /\ \A i, j \in 1 .. m : i < j => rows[i] < rows[j]
      BY <1>7 DEF Ordered, m
    <2>2. \A i \in 1 .. m + n : all[i] <= o + n
      BY <1>1, <1>3, <1>5, <2>1
    <2>3. ASSUME NEW i \in 1 .. m + n, NEW j \in 1 .. m + n, i < j
          PROVE  all[i] < all[j]
      <3>1. CASE j <= m
        BY <1>1, <1>3, <1>5, <2>1, <2>3, <3>1
      <3>2. CASE i <= m /\ j > m
        BY <1>1, <1>3, <1>5, <2>1, <2>3, <3>2
      <3>3. CASE i > m
        BY <1>1, <1>3, <1>5, <2>3, <3>3
      <3> QED BY <1>1, <1>3, <3>1, <3>2, <3>3
    <2> QED BY <1>4, <2>2, <2>3 DEF Ordered
  <1> QED BY <1>4, <1>6, <1>7 DEF page, n, m, all

-------------------------------------------------------------------------------
(* The cache, and types *)

LEMMA WalkInit == Init => CacheInv /\ TypeOK
  <1> SUFFICES ASSUME Init PROVE CacheInv /\ TypeOK
    OBVIOUS
  <1>1. CacheInv
    BY CacheInitInv DEF Init
  <1>2. << >> \in Seq(Nat)
    BY EmptySeq
  <1> QED BY <1>1, <1>2, CacheAssumption
      DEF Init, TypeOK, CacheInv, Unborn, NotWalked, Walks, Calls

\* What the end of a page does to the cache, whichever way it ends.
LEMMA StoreOrDropInv ==
    ASSUME CacheInv, NEW h \in Handles, NEW n, StoreOrDrop(h, n)
    PROVE  CacheInv'
  <1>1. CASE StorePagination(h)
    BY <1>1, StorePaginationInv
  <1>2. ASSUME NEW f \in PutOutcomes(h, Entry(NoValue, PaginationTtl)),
               entries' = Without(f, h), pagination' = pagination \ {h}
        PROVE  CacheInv'
    <2>1. /\ f \in [DOMAIN f -> Entries]
          /\ DOMAIN f \subseteq DOMAIN entries \union {h}
          /\ IsFiniteSet(DOMAIN f)
          /\ Cardinality(DOMAIN f) <= MaxEntries
      BY <1>2, StoreOutcome
    <2>2. Cardinality(DOMAIN f) \in Nat
      BY <2>1, FS_CardinalityType
    <2>3. /\ entries' \in [DOMAIN entries' -> Entries]
          /\ DOMAIN entries' = DOMAIN f \ {h}
          /\ IsFiniteSet(DOMAIN entries')
          /\ Cardinality(DOMAIN entries') = IF h \in DOMAIN f THEN Cardinality(DOMAIN f) - 1
                                            ELSE Cardinality(DOMAIN f)
      BY <1>2, <2>1, WithoutInv
    <2>4. Cardinality(DOMAIN entries') <= MaxEntries
      BY <2>1, <2>2, <2>3, CacheAssumption
    <2> QED BY <1>2, <2>1, <2>3, <2>4 DEF CacheInv, CacheTypeOK, SizeBound, HandlesHaveState
  <1> QED BY <1>1, <1>2 DEF StoreOrDrop

\* The variables that are not the cache's.
WalkTypeOK ==
    /\ pstate \in [Handles -> [next : Nat, total : Nat]]
    /\ size \in [Handles -> Sizes]
    /\ call \in [Clients -> Calls]
    /\ walk \in [Handles -> Walks]
    /\ idle \in [Handles -> 0 .. PaginationTtl]

LEMMA TypeParts == TypeOK <=> CacheTypeOK /\ WalkTypeOK
  BY DEF TypeOK, WalkTypeOK

LEMMA SizeType == WalkTypeOK => \A h \in Handles : size[h] \in Nat
  BY PagingAssumption DEF WalkTypeOK

\* A client in a fetch has a handle and an offset.
LEMMA CallType ==
    ASSUME WalkTypeOK, NEW c \in Clients, call[c].tool = "fetch_next_page"
    PROVE  call[c].handle \in Handles /\ call[c].offset \in Nat
  BY DEF WalkTypeOK, Calls, Idle, First

\* What a reply makes of the walk it belongs to.
LEMMA ReplyWalk ==
    ASSUME WalkTypeOK, NEW h \in Handles, NEW o \in Nat, NEW said, Reply(h, o, said)
    PROVE  /\ walk' \in [Handles -> Walks]
           /\ walk'[h].rows = walk[h].rows \o Page(h, o)
           /\ walk'[h].told = Told(PageLength(h, o))
           /\ walk'[h].offsetRight = (walk[h].offsetRight /\ (PageLength(h, o) > 0 => said = o))
           /\ walk'[h].overlapped = walk[h].overlapped
           /\ walk'[h].lost = walk[h].lost
           /\ \A j \in Handles : j # h => walk'[j] = walk[j]
  <1>1. walk[h] \in Walks
    BY DEF WalkTypeOK
  <1>2. walk[h].rows \o Page(h, o) \in Seq(Nat)
    BY <1>1, SizeType, PageAppended DEF Walks
  <1>3. Told(PageLength(h, o)) \in {"more", "exhausted"}
    BY DEF Told
  <1> DEFINE rows == walk[h].rows \o Page(h, o)
             told == Told(PageLength(h, o))
             right == walk[h].offsetRight /\ (PageLength(h, o) > 0 => said = o)
  <1>4. walk' = [walk EXCEPT ![h].rows = rows, ![h].told = told, ![h].offsetRight = right]
    BY DEF Reply
  <1>5. rows \in Seq(Nat) /\ told \in {"nothing", "more", "exhausted"} /\ right \in BOOLEAN
    BY <1>2, <1>3
  <1> HIDE DEF rows, told, right
  <1>6. /\ walk[h] = [rows        |-> walk[h].rows,
                     told        |-> walk[h].told,
                     offsetRight |-> walk[h].offsetRight,
                     overlapped  |-> walk[h].overlapped,
                     lost        |-> walk[h].lost]
        /\ walk \in [Handles -> Walks]
    BY <1>1 DEF WalkTypeOK, Walks
  <1>7. /\ walk' \in [Handles -> Walks]
        /\ walk'[h].rows = rows
        /\ walk'[h].told = told
        /\ walk'[h].offsetRight = right
        /\ walk'[h].overlapped = walk[h].overlapped
        /\ walk'[h].lost = walk[h].lost
        /\ \A j \in Handles : j # h => walk'[j] = walk[j]
    BY <1>1, <1>4, <1>5, <1>6 DEF Walks
  <1> QED BY <1>7 DEF rows, told, right

\* Counting a fetch as overlapping changes that flag of its walk only.
LEMMA FetchWalk ==
    ASSUME WalkTypeOK, NEW h \in Handles, NEW flag \in BOOLEAN,
           walk' = [walk EXCEPT ![h].overlapped = @ \/ flag]
    PROVE  /\ walk' \in [Handles -> Walks]
           /\ walk'[h].rows = walk[h].rows
           /\ walk'[h].told = walk[h].told
           /\ walk'[h].offsetRight = walk[h].offsetRight
           /\ walk'[h].overlapped = (walk[h].overlapped \/ flag)
           /\ walk'[h].lost = walk[h].lost
           /\ \A j \in Handles : j # h => walk'[j] = walk[j]
  <1> DEFINE b == walk[h].overlapped \/ flag
  <1>1. walk' = [walk EXCEPT ![h].overlapped = b] /\ b \in BOOLEAN
    OBVIOUS
  <1> HIDE DEF b
  <1>2. walk \in [Handles -> Walks] /\ walk[h] \in Walks
    BY DEF WalkTypeOK
  <1>3. /\ walk' \in [Handles -> Walks]
        /\ walk'[h].rows = walk[h].rows
        /\ walk'[h].told = walk[h].told
        /\ walk'[h].offsetRight = walk[h].offsetRight
        /\ walk'[h].overlapped = b
        /\ walk'[h].lost = walk[h].lost
        /\ \A j \in Handles : j # h => walk'[j] = walk[j]
    BY <1>1, <1>2 DEF Walks
  <1> QED BY <1>3 DEF b

\* Losing a reply changes that flag of its walk only.
LEMMA LostWalk ==
    ASSUME WalkTypeOK, NEW h \in Handles, walk' = [walk EXCEPT ![h].lost = TRUE]
    PROVE  /\ walk' \in [Handles -> Walks]
           /\ walk'[h].rows = walk[h].rows
           /\ walk'[h].told = walk[h].told
           /\ walk'[h].offsetRight = walk[h].offsetRight
           /\ walk'[h].overlapped = walk[h].overlapped
           /\ walk'[h].lost
           /\ \A j \in Handles : j # h => walk'[j] = walk[j]
  <1>1. walk \in [Handles -> Walks] /\ walk[h] \in Walks
    BY DEF WalkTypeOK
  <1> QED BY <1>1 DEF Walks

\* A client moves to a state of a tool call.
LEMMA BecomesType ==
    ASSUME WalkTypeOK, NEW c \in Clients, NEW s \in Calls, Becomes(c, s)
    PROVE  /\ call' \in [Clients -> Calls]
           /\ call'[c] = s
           /\ \A d \in Clients : d # c => call'[d] = call[d]
  BY DEF WalkTypeOK, Becomes

LEMMA CallStates ==
    /\ Idle \in Calls
    /\ First \in Calls
    /\ \A h \in Handles, o \in Nat : Fetching(h, o) \in Calls
  BY DEF Calls, Fetching

\* Advancing h's offset by n.
LEMMA AdvanceType ==
    ASSUME WalkTypeOK, NEW h \in Handles, NEW n \in Nat, Advance(h, n)
    PROVE  /\ pstate' \in [Handles -> [next : Nat, total : Nat]]
           /\ pstate'[h].next = pstate[h].next + n
           /\ pstate'[h].total = pstate[h].total + n
           /\ \A j \in Handles : j # h => pstate'[j] = pstate[j]
  <1>1. pstate[h].next \in Nat /\ pstate[h].total \in Nat
    BY DEF WalkTypeOK
  <1>2. pstate[h].next + n \in Nat /\ pstate[h].total + n \in Nat
    BY <1>1
  <1>3. pstate' = [pstate EXCEPT ![h] = [next  |-> pstate[h].next + n,
                                         total |-> pstate[h].total + n]]
    BY DEF Advance
  <1> QED BY <1>2, <1>3 DEF WalkTypeOK

\* The actions of one client keep the types.
LEMMA ClientType ==
    ASSUME CacheInv, WalkTypeOK, NEW c \in Clients,
           \/ StartWalk(c) \/ NextPage(c) \/ Abort(c)
           \/ \E h \in Handles : FirstPage(c, h) \/ Fetch(c, h) \/ FetchUnknown(c, h)
    PROVE  CacheInv' /\ WalkTypeOK'
  <1> USE CallStates
  <1>1. CASE StartWalk(c) \/ Abort(c)
    <2>1. call' \in [Clients -> Calls]
      BY <1>1, BecomesType DEF StartWalk, Abort
    <2> QED BY <1>1, <2>1
        DEF StartWalk, Abort, CacheInv, CacheTypeOK, SizeBound, HandlesHaveState, WalkTypeOK
  <1>2. ASSUME NEW h \in Handles, FirstPage(c, h) PROVE CacheInv' /\ WalkTypeOK'
    <2>1. CacheInv'
      BY <1>2, StorePaginationInv DEF FirstPage
    <2>2. call' \in [Clients -> Calls]
      BY <1>2, BecomesType DEF FirstPage
    <2>3. walk' \in [Handles -> Walks]
      BY <1>2, ReplyWalk DEF FirstPage
    <2>4. PageLength(h, 0) \in Nat
      BY SizeType, PageLengthBounds
    <2>5. pstate' \in [Handles -> [next : Nat, total : Nat]]
      BY <1>2, <2>4 DEF FirstPage, WalkTypeOK
    <2>6. idle' \in [Handles -> 0 .. PaginationTtl] /\ size' = size
      BY <1>2, CacheAssumption DEF FirstPage, WalkTypeOK
    <2> QED BY <2>1, <2>2, <2>3, <2>5, <2>6 DEF WalkTypeOK
  <1>3. ASSUME NEW h \in Handles, Fetch(c, h) PROVE CacheInv' /\ WalkTypeOK'
    <2>1. CacheInv'
      BY <1>3, GetPaginationInv DEF Fetch
    <2>2. pstate[h].next \in Nat
      BY DEF WalkTypeOK
    <2>3. call' \in [Clients -> Calls]
      BY <1>3, <2>2, BecomesType DEF Fetch
    <2>4. walk' \in [Handles -> Walks]
      BY <1>3, FetchWalk DEF Fetch, InFlight
    <2> QED BY <1>3, <2>1, <2>3, <2>4 DEF Fetch, WalkTypeOK
  <1>4. ASSUME NEW h \in Handles, FetchUnknown(c, h) PROVE CacheInv' /\ WalkTypeOK'
    <2>1. CacheInv'
      BY <1>4, GetPaginationInv DEF FetchUnknown
    <2> QED BY <1>4, <2>1 DEF FetchUnknown, walkVars, WalkTypeOK
  <1>5. CASE NextPage(c)
    <2> DEFINE h == call[c].handle
               o == call[c].offset
    <2>1. h \in Handles /\ o \in Nat
      BY <1>5, CallType DEF NextPage
    <2> DEFINE n == PageLength(h, o)
    <2>2. n \in Nat
      BY <2>1, SizeType, PageLengthBounds
    <2>3. /\ Advance(h, n)
          /\ StoreOrDrop(h, n)
          /\ Deliver(h, o, pstate[h].next)
          /\ idle' = [idle EXCEPT ![h] = 0]
          /\ Becomes(c, Idle)
          /\ size' = size
      BY <1>5 DEF NextPage
    <2> HIDE DEF h, o, n
    <2>4. CacheInv'
      BY <2>1, <2>3, StoreOrDropInv
    <2>5. call' \in [Clients -> Calls]
      BY <2>3, BecomesType
    <2>6. walk' \in [Handles -> Walks]
      BY <2>1, <2>3, ReplyWalk, LostWalk DEF Deliver
    <2>7. pstate' \in [Handles -> [next : Nat, total : Nat]]
      BY <2>1, <2>2, <2>3, AdvanceType
    <2>8. idle' \in [Handles -> 0 .. PaginationTtl]
      <3>1. idle' = [idle EXCEPT ![h] = 0] /\ 0 \in 0 .. PaginationTtl
        BY <2>3, CacheAssumption
      <3> QED BY <3>1 DEF WalkTypeOK
    <2> QED BY <2>3, <2>4, <2>5, <2>6, <2>7, <2>8 DEF WalkTypeOK
  <1> QED BY <1>1, <1>2, <1>3, <1>4, <1>5

LEMMA TypeStep == CacheInv /\ WalkTypeOK /\ [Next]_vars => CacheInv' /\ WalkTypeOK'
  <1> SUFFICES ASSUME CacheInv, WalkTypeOK, [Next]_vars PROVE CacheInv' /\ WalkTypeOK'
    OBVIOUS
  <1>1. ASSUME NEW c \in Clients,
               \/ StartWalk(c) \/ NextPage(c) \/ Abort(c)
               \/ \E h \in Handles : FirstPage(c, h) \/ Fetch(c, h) \/ FetchUnknown(c, h)
        PROVE  CacheInv' /\ WalkTypeOK'
    BY <1>1, ClientType
  <1>2. ASSUME NEW k \in QueryKeys, NEW v \in Values, OtherQuery(k, v)
        PROVE  CacheInv' /\ WalkTypeOK'
    BY <1>2, SetInv DEF OtherQuery, walkVars, WalkTypeOK
  <1>3. CASE Tick
    <2>1. CacheInv'
      BY <1>3, CacheTickInv DEF Tick
    <2>2. idle' \in [Handles -> 0 .. PaginationTtl]
      BY <1>3, CacheAssumption DEF Tick, WalkTypeOK
    <2> QED BY <1>3, <2>1, <2>2 DEF Tick, WalkTypeOK
  <1>4. CASE UNCHANGED vars
    BY <1>4 DEF vars, CacheInv, CacheTypeOK, SizeBound, HandlesHaveState, WalkTypeOK
  <1> QED BY <1>1, <1>2, <1>3, <1>4 DEF Next

\* The variables keep their types, and the cache what its methods keep.
THEOREM TypeCorrect == Spec => [](CacheInv /\ TypeOK)
  <1>1. Init => CacheInv /\ WalkTypeOK
    BY WalkInit, TypeParts
  <1>2. CacheInv /\ WalkTypeOK => CacheInv /\ TypeOK
    BY TypeParts DEF CacheInv
  <1> QED BY <1>1, <1>2, TypeStep, PTL DEF Spec

\* Walks and cached results together never exceed max_entries, and a handle that
\* get_pagination finds unexpired always has its PaginationState.
THEOREM Agreement == Spec => []CacheConsistent
  <1>1. CacheInv /\ TypeOK => CacheConsistent
    BY DEF CacheInv, CacheConsistent
  <1> QED BY TypeCorrect, <1>1, PTL

-------------------------------------------------------------------------------
(* Walks *)

\* One fetch at a time: whoever is in a fetch of h sent the present next_offset and
\* is alone.
SoleFetch(h) ==
    \A c \in Clients :
        On(c, h) => /\ call[c].offset = pstate[h].next
                    /\ \A d \in Clients : On(d, h) => d = c

\* The walk of h was told of its end by a fetch.
Ended(h) == walk[h].told = "exhausted" /\ Len(walk[h].rows) > PageLength(h, 0)

\* The inductive invariant of one walk. The rows given are tied to next_offset, the
\* offset a fetch in flight has sent to next_offset too, and the end of the walk to
\* there being no fetch and no trace of the handle any more.
HandleOK(h) ==
    /\ ~Issued(h) => pstate[h] = Unborn /\ walk[h] = NotWalked /\ ~InFlight(h)
    /\ Sequential(h) =>
          /\ SoleFetch(h)
          /\ pstate[h].next = pstate[h].total
          /\ pstate[h].next <= size[h]
          /\ walk[h].offsetRight
          /\ Ordered(walk[h].rows, pstate[h].next)
    /\ Undisturbed(h) => Counts(walk[h].rows, pstate[h].next)
    /\ Undisturbed(h) /\ walk[h].told = "exhausted" => pstate[h].next = size[h]
    /\ Sequential(h) /\ Ended(h) => ~InFlight(h) /\ h \notin DOMAIN entries /\ h \notin pagination

\* A step that leaves h's walk alone, starts no fetch of h and stores nothing under h.
LEMMA OtherStep ==
    ASSUME NEW h \in Handles, HandleOK(h),
           pstate'[h] = pstate[h], walk'[h] = walk[h], size' = size,
           \A c \in Clients : On(c, h)' => On(c, h) /\ call'[c].offset = call[c].offset,
           h \in DOMAIN entries' => h \in DOMAIN entries,
           h \in pagination' => h \in pagination
    PROVE  HandleOK(h)'
  <1>1. Issued(h)' = Issued(h) /\ Sequential(h)' = Sequential(h) /\ Undisturbed(h)' = Undisturbed(h)
    BY DEF Issued, Sequential, Undisturbed
  <1>2. Ended(h)' = Ended(h)
    BY DEF Ended, PageLength
  <1>3. InFlight(h)' => InFlight(h)
    BY DEF InFlight
  <1>4. SoleFetch(h) => SoleFetch(h)'
    BY DEF SoleFetch
  <1>5. /\ Ordered(walk[h].rows, pstate[h].next) => Ordered(walk[h].rows, pstate[h].next)'
        /\ Counts(walk[h].rows, pstate[h].next) => Counts(walk[h].rows, pstate[h].next)'
    BY DEF Ordered, Counts
  <1> QED BY <1>1, <1>2, <1>3, <1>4, <1>5 DEF HandleOK

\* Which keys a store may add.
LEMMA PutDomain ==
    ASSUME NEW k, NEW e, NEW g \in PutOutcomes(k, e)
    PROVE  DOMAIN g \subseteq DOMAIN entries \union {k}
  BY DEF PutOutcomes, With, Without, Restrict, Soonest

\* A page can only add its own handle to the cache and to the states.
LEMMA StoreDomain ==
    ASSUME NEW h \in Handles, NEW n, StorePagination(h) \/ StoreOrDrop(h, n)
    PROVE  \A j \in Handles : j # h =>
              /\ j \in DOMAIN entries' => j \in DOMAIN entries
              /\ j \in pagination' => j \in pagination
  <1>1. ASSUME NEW f \in PutOutcomes(h, Entry(NoValue, PaginationTtl)),
               entries' = f \/ entries' = Without(f, h)
        PROVE  DOMAIN entries' \subseteq DOMAIN entries \union {h}
    <2>1. DOMAIN f \subseteq DOMAIN entries \union {h}
      BY PutDomain
    <2> QED BY <1>1, <2>1 DEF Without, Restrict
  <1>2. DOMAIN entries' \subseteq DOMAIN entries \union {h}
    BY <1>1 DEF StorePagination, StoreOrDrop
  <1>3. pagination' \subseteq pagination \union {h}
    BY DEF StorePagination, StoreOrDrop
  <1> QED BY <1>2, <1>3

\* get_pagination adds nothing.
LEMMA GetDomain ==
    ASSUME NEW h \in Handles, GetPagination(h)
    PROVE  \A j \in Handles :
              /\ j \in DOMAIN entries' => j \in DOMAIN entries
              /\ j \in pagination' => j \in pagination
  BY DEF GetPagination, cacheVars, Without, Restrict

\* Who is in a fetch once c has moved to s.
LEMMA OnAfter ==
    ASSUME WalkTypeOK, NEW c \in Clients, NEW s \in Calls, Becomes(c, s), NEW h \in Handles
    PROVE  /\ s \in {Idle, First} => ~On(c, h)'
           /\ \A d \in Clients : d # c => /\ On(d, h)' = On(d, h)
                                          /\ call'[d] = call[d]
  BY BecomesType DEF On, Idle, First

\* A new handle begins its walk with the first page.
LEMMA FirstPageOK ==
    ASSUME CacheInv, WalkTypeOK, NEW c \in Clients, NEW h \in Handles, FirstPage(c, h),
           HandleOK(h)
    PROVE  HandleOK(h)'
  <1> DEFINE n == PageLength(h, 0)
  <1>1. pstate[h] = Unborn /\ walk[h] = NotWalked /\ ~InFlight(h)
    BY DEF FirstPage, HandleOK
  <1>2. size[h] \in Nat
    BY SizeType
  <1>3. n \in Nat /\ n <= size[h] /\ (n # PageSize => n = size[h])
    BY <1>2, PageLengthBounds
  <1>4. /\ walk'[h].rows = walk[h].rows \o Page(h, 0)
        /\ walk'[h].told = Told(n)
        /\ walk'[h].offsetRight = (walk[h].offsetRight /\ (n > 0 => 0 = 0))
        /\ walk'[h].overlapped = walk[h].overlapped
        /\ walk'[h].lost = walk[h].lost
    BY ReplyWalk DEF FirstPage
  <1>5. pstate'[h] = [next |-> n, total |-> n] /\ size' = size
    BY DEF FirstPage, WalkTypeOK
  <1>6. /\ walk[h].rows = << >> /\ walk[h].offsetRight
        /\ ~walk[h].overlapped /\ ~walk[h].lost
    BY <1>1 DEF NotWalked
  <1>7. \A d \in Clients : ~On(d, h)'
    BY <1>1, CallStates, OnAfter DEF FirstPage, InFlight
  <1>8. Counts(<< >>, 0) /\ Ordered(<< >>, 0) /\ << >> \in Seq(Nat) /\ Len(<< >>) = 0
    BY EmptySeq DEF Counts, Ordered
  <1>9. /\ Counts(walk'[h].rows, n)
        /\ Ordered(walk'[h].rows, n)
        /\ Len(walk'[h].rows) = n
    <2>1. /\ Counts(<< >> \o Page(h, 0), 0 + n)
          /\ Ordered(<< >> \o Page(h, 0), 0 + n)
          /\ Len(<< >> \o Page(h, 0)) = 0 + n
      BY <1>2, <1>8, PageAppended
    <2> HIDE DEF n
    <2> QED BY <1>3, <1>4, <1>6, <2>1
  <1>10. PageLength(h, 0)' = n
    BY <1>5 DEF PageLength
  <1> HIDE DEF n
  <1>11. Issued(h)'
    BY <1>4 DEF Issued, Told
  <1>12. SoleFetch(h)' /\ ~InFlight(h)'
    BY <1>7 DEF SoleFetch, InFlight
  <1>13. ~Ended(h)'
    BY <1>3, <1>9, <1>10 DEF Ended
  <1>14. walk'[h].told = "exhausted" => n = size[h]
    BY <1>3, <1>4 DEF Told
  <1>15. /\ Counts(walk[h].rows, pstate[h].next)'
         /\ Ordered(walk[h].rows, pstate[h].next)'
    BY <1>5, <1>9 DEF Counts, Ordered
  <1>16. pstate'[h].next = n /\ pstate'[h].total = n
    BY <1>5
  <1>17. walk'[h].offsetRight
    BY <1>4, <1>6
  <1>18. pstate'[h].next = pstate'[h].total /\ pstate'[h].next <= size'[h]
    BY <1>3, <1>5, <1>16
  <1>19. walk'[h].told = "exhausted" => pstate'[h].next = size'[h]
    BY <1>5, <1>14, <1>16
  <1> QED BY <1>11, <1>12, <1>13, <1>15, <1>17, <1>18, <1>19 DEF HandleOK

\* A fetch that begins while none is in flight sends next_offset; one that begins
\* beside another makes the walk an overlapped one.
LEMMA FetchOK ==
    ASSUME CacheInv, WalkTypeOK, NEW c \in Clients, NEW h \in Handles, Fetch(c, h),
           HandleOK(h)
    PROVE  HandleOK(h)'
  <1>1. /\ walk'[h].rows = walk[h].rows
        /\ walk'[h].told = walk[h].told
        /\ walk'[h].offsetRight = walk[h].offsetRight
        /\ walk'[h].overlapped = (walk[h].overlapped \/ InFlight(h))
        /\ walk'[h].lost = walk[h].lost
    <2>1. InFlight(h) \in BOOLEAN
      BY DEF InFlight
    <2> QED BY <2>1, FetchWalk DEF Fetch
  <1>2. pstate' = pstate /\ size' = size /\ Issued(h) /\ Live(h)
    BY DEF Fetch
  <1>3. pstate[h].next \in Nat
    BY DEF WalkTypeOK
  <1>4. /\ call'[c] = Fetching(h, pstate[h].next)
        /\ \A d \in Clients : d # c => On(d, h)' = On(d, h) /\ call'[d] = call[d]
    BY <1>3, CallStates, BecomesType, OnAfter DEF Fetch
  <1>5. Sequential(h)' => Sequential(h) /\ ~InFlight(h)
    BY <1>1 DEF Sequential
  <1>6. Sequential(h)' => SoleFetch(h)'
    <2>1. ~InFlight(h) => \A d \in Clients : On(d, h)' => d = c
      BY <1>4 DEF InFlight
    <2>2. call'[c].offset = pstate[h].next
      BY <1>4 DEF Fetching
    <2> QED BY <1>2, <1>5, <2>1, <2>2 DEF SoleFetch
  <1>7. Undisturbed(h)' => Undisturbed(h)
    BY <1>1, <1>5 DEF Undisturbed
  <1>8. Issued(h)'
    BY <1>1, <1>2 DEF Issued
  <1>9. ~(Sequential(h)' /\ Ended(h)')
    <2>1. Ended(h)' = Ended(h)
      BY <1>1, <1>2 DEF Ended, PageLength
    <2>2. ~(Sequential(h) /\ Ended(h))
      BY <1>2 DEF HandleOK, Live
    <2> QED BY <1>5, <2>1, <2>2
  <1>10. /\ Ordered(walk[h].rows, pstate[h].next) => Ordered(walk[h].rows, pstate[h].next)'
         /\ Counts(walk[h].rows, pstate[h].next) => Counts(walk[h].rows, pstate[h].next)'
    BY <1>1, <1>2 DEF Ordered, Counts
  <1> QED BY <1>1, <1>2, <1>5, <1>6, <1>7, <1>8, <1>9, <1>10 DEF HandleOK

\* A page arrives. In a sequential walk it was fetched at the present next_offset, by
\* the only fetch there is.
LEMMA NextPageOK ==
    ASSUME CacheInv, WalkTypeOK, NEW c \in Clients, NextPage(c),
           NEW h \in Handles, h = call[c].handle, HandleOK(h)
    PROVE  HandleOK(h)'
  <1> DEFINE o == call[c].offset
             n == PageLength(h, o)
  <1>1. /\ o \in Nat
        /\ On(c, h)
        /\ size[h] \in Nat
        /\ pstate[h].next \in Nat
        /\ walk[h].rows \in Seq(Nat)
    BY CallType, SizeType DEF NextPage, On, WalkTypeOK, Walks
  <1>2. /\ n \in Nat
        /\ o <= size[h] => o + n <= size[h]
        /\ o <= size[h] /\ n # PageSize => o + n = size[h]
    BY <1>1, PageLengthBounds
  <1>3. /\ Advance(h, n)
        /\ StoreOrDrop(h, n)
        /\ Deliver(h, o, pstate[h].next)
        /\ Becomes(c, Idle)
        /\ size' = size
    BY DEF NextPage
  <1>4. /\ Len(walk[h].rows \o Page(h, o)) = Len(walk[h].rows) + n
        /\ Counts(walk[h].rows, o) => Counts(walk[h].rows \o Page(h, o), o + n)
        /\ Ordered(walk[h].rows, o) => Ordered(walk[h].rows \o Page(h, o), o + n)
    BY <1>1, PageAppended
  <1>5. PageLength(h, 0)' = PageLength(h, 0)
    BY <1>3 DEF PageLength
  <1> HIDE DEF o, n
  <1>6. pstate'[h].next = pstate[h].next + n /\ pstate'[h].total = pstate[h].total + n
    BY <1>2, <1>3, AdvanceType
  <1>7. Issued(h)
    BY <1>1 DEF HandleOK, InFlight
  <1>8. Sequential(h) => /\ o = pstate[h].next
                         /\ \A d \in Clients : ~On(d, h)'
    <2>1. Sequential(h) => o = pstate[h].next /\ \A d \in Clients : On(d, h) => d = c
      BY <1>1 DEF HandleOK, SoleFetch, o
    <2> QED BY <1>3, <2>1, CallStates, OnAfter
  <1>9. CASE Reply(h, o, pstate[h].next)
    <2>1. /\ walk'[h].rows = walk[h].rows \o Page(h, o)
          /\ walk'[h].told = Told(n)
          /\ walk'[h].offsetRight = (walk[h].offsetRight
                                     /\ (PageLength(h, o) > 0 => pstate[h].next = o))
          /\ walk'[h].overlapped = walk[h].overlapped
          /\ walk'[h].lost = walk[h].lost
      BY <1>1, <1>9, ReplyWalk DEF n
    <2>2. Issued(h)'
      BY <2>1 DEF Issued, Told
    <2>3. /\ Sequential(h)' => Sequential(h)
          /\ Undisturbed(h)' => Undisturbed(h) /\ Sequential(h)
      BY <2>1 DEF Sequential, Undisturbed
    <2>4. ASSUME Sequential(h)'
          PROVE  /\ SoleFetch(h)' /\ ~InFlight(h)'
                 /\ pstate'[h].next = pstate'[h].total
                 /\ pstate'[h].next <= size'[h]
                 /\ walk'[h].offsetRight
      <3>1. /\ o = pstate[h].next
            /\ pstate[h].next = pstate[h].total
            /\ pstate[h].next <= size[h]
            /\ walk[h].offsetRight
        BY <1>8, <2>3, <2>4 DEF HandleOK
      <3>2. SoleFetch(h)' /\ ~InFlight(h)'
        BY <1>8, <2>3, <2>4 DEF SoleFetch, InFlight
      <3>3. walk'[h].offsetRight
        BY <2>1, <3>1
      <3> QED BY <1>2, <1>3, <1>6, <3>1, <3>2, <3>3
    <2>5. Sequential(h)' => Ordered(walk[h].rows, pstate[h].next)'
      <3>1. Sequential(h)' => Ordered(walk[h].rows, o) /\ o = pstate[h].next
        BY <1>8, <2>3 DEF HandleOK
      <3> QED BY <1>4, <1>6, <2>1, <3>1 DEF Ordered
    <2>6. Undisturbed(h)' => Counts(walk[h].rows, pstate[h].next)'
      <3>1. Undisturbed(h)' => Counts(walk[h].rows, o) /\ o = pstate[h].next
        BY <1>8, <2>3 DEF HandleOK
      <3> QED BY <1>4, <1>6, <2>1, <3>1 DEF Counts
    <2>7. Undisturbed(h)' /\ walk'[h].told = "exhausted" => pstate'[h].next = size'[h]
      <3>1. walk'[h].told = "exhausted" => n # PageSize
        BY <2>1 DEF Told
      <3>2. Undisturbed(h)' => o = pstate[h].next /\ o <= size[h]
        BY <1>8, <2>3 DEF HandleOK
      <3> QED BY <1>2, <1>3, <1>6, <3>1, <3>2
    <2>8. walk'[h].told = "exhausted" => h \notin DOMAIN entries' /\ h \notin pagination'
      <3>1. walk'[h].told = "exhausted" => n # PageSize
        BY <2>1 DEF Told
      <3> QED BY <1>3, <3>1 DEF StoreOrDrop, Without, Restrict
    <2> QED BY <2>2, <2>4, <2>5, <2>6, <2>7, <2>8 DEF HandleOK, Ended
  <1>10. CASE walk' = [walk EXCEPT ![h].lost = TRUE]
    <2>1. /\ walk'[h].rows = walk[h].rows
          /\ walk'[h].told = walk[h].told
          /\ walk'[h].offsetRight = walk[h].offsetRight
          /\ walk'[h].overlapped = walk[h].overlapped
          /\ walk'[h].lost
      BY <1>10, LostWalk
    <2>2. Issued(h)' /\ ~Undisturbed(h)'
      BY <1>7, <2>1 DEF Issued, Undisturbed
    <2>3. Sequential(h)' => Sequential(h)
      BY <2>1 DEF Sequential
    <2>4. ASSUME Sequential(h)'
          PROVE  /\ SoleFetch(h)' /\ ~InFlight(h)'
                 /\ pstate'[h].next = pstate'[h].total
                 /\ pstate'[h].next <= size'[h]
                 /\ walk'[h].offsetRight
      <3>1. /\ o = pstate[h].next
            /\ pstate[h].next = pstate[h].total
            /\ pstate[h].next <= size[h]
            /\ walk[h].offsetRight
        BY <1>8, <2>3, <2>4 DEF HandleOK
      <3>2. SoleFetch(h)' /\ ~InFlight(h)'
        BY <1>8, <2>3, <2>4 DEF SoleFetch, InFlight
      <3> QED BY <1>2, <1>3, <1>6, <2>1, <3>1, <3>2
    <2>5. Sequential(h)' => Ordered(walk[h].rows, pstate[h].next)'
      <3>1. Sequential(h)' => Ordered(walk[h].rows, pstate[h].next)
        BY <2>3 DEF HandleOK
      <3>2. \A i \in 1 .. Len(walk[h].rows) : walk[h].rows[i] \in Nat
        BY <1>1, ElementOfSeq
      <3>3. /\ pstate[h].next \in Nat /\ pstate'[h].next \in Nat
            /\ pstate[h].next <= pstate'[h].next
        BY <1>1, <1>2, <1>6
      <3>4. walk[h].rows' = walk[h].rows
        BY <2>1
      <3>5. Ordered(walk[h].rows, pstate[h].next) => Ordered(walk[h].rows, pstate'[h].next)
        BY <3>2, <3>3 DEF Ordered
      <3>6. Ordered(walk[h].rows, pstate[h].next)' = Ordered(walk[h].rows, pstate'[h].next)
        BY <3>4 DEF Ordered
      <3> QED BY <3>1, <3>5, <3>6
    <2>6. ~(Sequential(h)' /\ Ended(h)')
      <3>1. Ended(h)' = Ended(h)
        BY <1>5, <2>1 DEF Ended
      <3>2. InFlight(h)
        BY <1>1 DEF InFlight
      <3> QED BY <2>3, <3>1, <3>2 DEF HandleOK
    <2> QED BY <2>2, <2>4, <2>5, <2>6 DEF HandleOK
  <1> QED BY <1>3, <1>9, <1>10 DEF Deliver

WalkInv == CacheInv /\ WalkTypeOK /\ \A h \in Handles : HandleOK(h)

LEMMA WalkInvInit == Init => WalkInv
  <1> SUFFICES ASSUME Init PROVE WalkInv
    OBVIOUS
  <1>1. CacheInv /\ WalkTypeOK
    BY WalkInit, TypeParts
  <1>2. ASSUME NEW h \in Handles PROVE HandleOK(h)
    <2>1. pstate[h] = Unborn /\ walk[h] = NotWalked /\ ~InFlight(h) /\ SoleFetch(h)
      BY DEF Init, InFlight, SoleFetch, On, Idle
    <2>2. size[h] \in Nat
      BY <1>1, SizeType
    <2>3. Counts(<< >>, 0) /\ Ordered(<< >>, 0)
      BY EmptySeq DEF Counts, Ordered
    <2>4. /\ pstate[h].next = 0 /\ pstate[h].total = 0
          /\ walk[h].rows = << >> /\ walk[h].told = "nothing" /\ walk[h].offsetRight
      BY <2>1 DEF Unborn, NotWalked
    <2>5. pstate[h].next = pstate[h].total /\ pstate[h].next <= size[h]
      BY <2>2, <2>4
    <2> QED BY <2>1, <2>3, <2>4, <2>5 DEF HandleOK, Ended
  <1> QED BY <1>1, <1>2 DEF WalkInv

\* A client's step keeps every walk: its own by the lemmas above, the others because
\* it leaves them alone.
LEMMA ClientWalk ==
    ASSUME WalkInv, NEW c \in Clients, NEW h \in Handles,
           \/ StartWalk(c) \/ NextPage(c) \/ Abort(c)
           \/ \E g \in Handles : FirstPage(c, g) \/ Fetch(c, g) \/ FetchUnknown(c, g)
    PROVE  HandleOK(h)'
  <1>1. CacheInv /\ WalkTypeOK /\ HandleOK(h)
    BY DEF WalkInv
  <1>2. CASE StartWalk(c) \/ Abort(c)
    <2>1. \A d \in Clients : On(d, h)' => On(d, h) /\ call'[d].offset = call[d].offset
      BY <1>1, <1>2, CallStates, OnAfter DEF StartWalk, Abort
    <2> QED BY <1>1, <1>2, <2>1, OtherStep DEF StartWalk, Abort
  <1>3. ASSUME NEW g \in Handles, FirstPage(c, g) PROVE HandleOK(h)'
    <2>1. CASE g = h
      BY <1>1, <1>3, <2>1, FirstPageOK
    <2>2. CASE g # h
      <3>1. \A d \in Clients : On(d, h)' => On(d, h) /\ call'[d].offset = call[d].offset
        BY <1>1, <1>3, CallStates, OnAfter DEF FirstPage
      <3>2. /\ h \in DOMAIN entries' => h \in DOMAIN entries
            /\ h \in pagination' => h \in pagination
        BY <1>3, <2>2, StoreDomain DEF FirstPage
      <3>3. walk'[h] = walk[h] /\ size' = size
        BY <1>1, <1>3, <2>2, ReplyWalk DEF FirstPage
      <3>4. pstate'[h] = pstate[h]
        BY <1>1, <1>3, <2>2 DEF FirstPage, WalkTypeOK
      <3> QED BY <1>1, <3>1, <3>2, <3>3, <3>4, OtherStep
    <2> QED BY <2>1, <2>2
  <1>4. ASSUME NEW g \in Handles, Fetch(c, g) PROVE HandleOK(h)'
    <2>1. CASE g = h
      BY <1>1, <1>4, <2>1, FetchOK
    <2>2. CASE g # h
      <3>1. pstate[g].next \in Nat /\ InFlight(g) \in BOOLEAN
        BY <1>1 DEF WalkTypeOK, InFlight
      <3>2. ~On(c, h)' /\ \A d \in Clients : d # c => On(d, h)' = On(d, h) /\ call'[d] = call[d]
        BY <1>1, <1>4, <2>2, <3>1, CallStates, BecomesType, OnAfter DEF Fetch, On, Fetching
      <3>3. /\ h \in DOMAIN entries' => h \in DOMAIN entries
            /\ h \in pagination' => h \in pagination
        BY <1>4, GetDomain DEF Fetch
      <3>4. walk'[h] = walk[h] /\ pstate' = pstate /\ size' = size
        BY <1>1, <1>4, <2>2, <3>1, FetchWalk DEF Fetch
      <3> QED BY <1>1, <3>2, <3>3, <3>4, OtherStep
    <2> QED BY <2>1, <2>2
  <1>5. ASSUME NEW g \in Handles, FetchUnknown(c, g) PROVE HandleOK(h)'
    <2>1. /\ h \in DOMAIN entries' => h \in DOMAIN entries
          /\ h \in pagination' => h \in pagination
      BY <1>5, GetDomain DEF FetchUnknown
    <2> QED BY <1>1, <1>5, <2>1, OtherStep DEF FetchUnknown, walkVars, On
  <1>6. CASE NextPage(c)
    <2> DEFINE g == call[c].handle
    <2>1. g \in Handles /\ call[c].offset \in Nat
      BY <1>1, <1>6, CallType DEF NextPage
    <2>2. CASE g = h
      BY <1>1, <1>6, <2>2, NextPageOK
    <2>3. CASE g # h
      <3> DEFINE n == PageLength(g, call[c].offset)
      <3>1. n \in Nat
        BY <1>1, <2>1, SizeType, PageLengthBounds
      <3>2. /\ Advance(g, n) /\ StoreOrDrop(g, n) /\ Becomes(c, Idle) /\ size' = size
            /\ Deliver(g, call[c].offset, pstate[g].next)
        BY <1>6 DEF NextPage
      <3> HIDE DEF g, n
      <3>3. \A d \in Clients : On(d, h)' => On(d, h) /\ call'[d].offset = call[d].offset
        BY <1>1, <3>2, CallStates, OnAfter
      <3>4. /\ h \in DOMAIN entries' => h \in DOMAIN entries
            /\ h \in pagination' => h \in pagination
        BY <2>1, <2>3, <3>2, StoreDomain
      <3>5. walk'[h] = walk[h]
        BY <1>1, <2>1, <2>3, <3>2, ReplyWalk, LostWalk DEF Deliver
      <3>6. pstate'[h] = pstate[h]
        BY <1>1, <2>1, <2>3, <3>1, <3>2, AdvanceType
      <3> QED BY <1>1, <3>2, <3>3, <3>4, <3>5, <3>6, OtherStep
    <2> QED BY <2>2, <2>3
  <1> QED BY <1>2, <1>3, <1>4, <1>5, <1>6

LEMMA WalkInvNext == WalkInv /\ [Next]_vars => WalkInv'
  <1> SUFFICES ASSUME WalkInv, [Next]_vars PROVE WalkInv'
    OBVIOUS
  <1>1. CacheInv' /\ WalkTypeOK'
    BY TypeStep DEF WalkInv
  <1>2. ASSUME NEW h \in Handles PROVE HandleOK(h)'
    <2>1. ASSUME NEW c \in Clients,
                 \/ StartWalk(c) \/ NextPage(c) \/ Abort(c)
                 \/ \E g \in Handles : FirstPage(c, g) \/ Fetch(c, g) \/ FetchUnknown(c, g)
          PROVE  HandleOK(h)'
      BY <2>1, ClientWalk
    <2>2. ASSUME NEW k \in QueryKeys, NEW v \in Values, OtherQuery(k, v)
          PROVE  HandleOK(h)'
      <3>1. DOMAIN entries' \subseteq DOMAIN entries \union {k} /\ pagination' = pagination
        BY <2>2, PutDomain DEF OtherQuery, Set
      <3>2. h # k
        BY CacheAssumption
      <3> QED BY <2>2, <3>1, <3>2, OtherStep DEF WalkInv, OtherQuery, walkVars, On
    <2>3. CASE Tick
      <3>1. DOMAIN entries' = DOMAIN entries /\ pagination' = pagination
        BY <2>3 DEF Tick, CacheTick
      <3> QED BY <2>3, <3>1, OtherStep DEF WalkInv, Tick, On
    <2>4. CASE UNCHANGED vars
      BY <2>4, OtherStep DEF vars, WalkInv, On
    <2> QED BY <2>1, <2>2, <2>3, <2>4 DEF Next
  <1> QED BY <1>1, <1>2 DEF WalkInv

LEMMA WalkAlways == Spec => []WalkInv
  BY WalkInvInit, WalkInvNext, PTL DEF Spec

\* Whatever comes between its pages, an undisturbed walk has been given the rows
\* before next_offset, in order, each once.
THEOREM Prefix == Spec => []WalkIsPrefix
  <1>1. WalkInv => WalkIsPrefix
    <2> SUFFICES ASSUME WalkInv, NEW h \in Handles, Undisturbed(h)
                 PROVE  walk[h].rows = [i \in 1 .. pstate[h].next |-> i]
      BY DEF WalkIsPrefix
    <2> DEFINE rows == walk[h].rows
    <2>1. Counts(rows, pstate[h].next)
      BY DEF WalkInv, HandleOK
    <2>2. rows \in Seq(Nat)
      BY DEF WalkInv, WalkTypeOK, Walks
    <2> HIDE DEF rows
    <2>3. rows = [i \in 1 .. Len(rows) |-> rows[i]]
      BY <2>2, LenProperties
    <2>4. rows = [i \in 1 .. pstate[h].next |-> i]
      BY <2>1, <2>3 DEF Counts
    <2> QED BY <2>4 DEF rows
  <1> QED BY WalkAlways, <1>1, PTL

\* Even when replies are lost, a sequential walk never repeats a row or goes back.
THEOREM InOrder == Spec => []WalkInOrder
  <1>1. WalkInv => WalkInOrder
    <2> SUFFICES ASSUME WalkInv, NEW h \in Handles, Sequential(h)
                 PROVE  \A i, j \in DOMAIN walk[h].rows :
                           i < j => walk[h].rows[i] < walk[h].rows[j]
      BY DEF WalkInOrder
    <2>1. Ordered(walk[h].rows, pstate[h].next)
      BY DEF WalkInv, HandleOK
    <2>2. walk[h].rows \in Seq(Nat)
      BY DEF WalkInv, WalkTypeOK, Walks
    <2>3. DOMAIN walk[h].rows = 1 .. Len(walk[h].rows)
      BY <2>2, LenProperties
    <2> QED BY <2>1, <2>3 DEF Ordered
  <1> QED BY WalkAlways, <1>1, PTL

\* An undisturbed walk that is told there is no more has seen the full result.
THEOREM Complete == Spec => []WalkComplete
  <1>1. WalkInv => WalkComplete
    BY DEF WalkInv, HandleOK, WalkComplete, Counts, Undisturbed
  <1> QED BY WalkAlways, <1>1, PTL

\* In a sequential walk page_offset, read after the await, is that of its page.
THEOREM OffsetRight == Spec => []PageOffsetRight
  <1>1. WalkInv => PageOffsetRight
    BY DEF WalkInv, HandleOK, PageOffsetRight
  <1> QED BY WalkAlways, <1>1, PTL

\* A sequential walk that met its end in a fetch leaves nothing in the cache.
THEOREM Dropped == Spec => []FetchedOutIsDropped
  <1>1. WalkInv => FetchedOutIsDropped
    BY DEF WalkInv, HandleOK, FetchedOutIsDropped, Ended
  <1> QED BY WalkAlways, <1>1, PTL
-------------------------------------------------------------------------------
(* Which handle is lost when *)

\* An entry of a handle belongs to a walk, and while it is alive its age is the time
\* its walk has been idle.
AgeIsIdle(h) ==
    h \in DOMAIN entries =>
        /\ Issued(h)
        /\ Live(h) => idle[h] + entries[h].life = PaginationTtl

KeptInv == WalkInv /\ \A h \in Handles : AgeIsIdle(h)

LEMMA LifeType ==
    ASSUME CacheInv, NEW h \in DOMAIN entries
    PROVE  entries[h] \in Entries /\ entries[h].life \in Lives /\ entries[h].life \in Int
  BY CacheAssumption DEF CacheInv, CacheTypeOK, Entries, Lives

\* The ways a handle may go, as HandleKept lists them.
MayGo(h) ==
    \/ h \notin pagination' /\ (walk'[h].told = "exhausted" \/ walk'[h].lost)
    \/ idle[h] = PaginationTtl
    \/ Cardinality(DOMAIN entries) = MaxEntries

\* What a step owes h: its place in the cache, and the account of its age.
Served(h) == (Live(h) /\ ~Live(h)' => MayGo(h)) /\ AgeIsIdle(h)' /\ Spared(h)

\* Other entries pass through the insertion of k untouched, or are dropped for it.
PassesPut(h) ==
    \/ h \in DOMAIN entries' /\ h \in DOMAIN entries /\ entries'[h] = entries[h]
    \/ h \notin DOMAIN entries' /\ h \notin DOMAIN entries
    \/ DroppedForRoom(entries', h)

LEMMA PassingPut ==
    ASSUME CacheInv, NEW k \in CacheKeys, NEW e \in Entries, entries' \in PutOutcomes(k, e),
           NEW h \in Handles, h # k
    PROVE  PassesPut(h)
  BY PutSpares, PutDomain DEF PassesPut

LEMMA PassingStore ==
    ASSUME CacheInv, NEW g \in Handles, NEW n, StorePagination(g) \/ StoreOrDrop(g, n),
           NEW h \in Handles, h # g
    PROVE  PassesPut(h)
  <1>1. g \in CacheKeys /\ Entry(NoValue, PaginationTtl) \in Entries
    BY EntryType DEF CacheKeys
  <1>2. CASE StorePagination(g)
    BY <1>1, <1>2, PassingPut DEF StorePagination
  <1>3. ASSUME NEW f \in PutOutcomes(g, Entry(NoValue, PaginationTtl)),
               entries' = Without(f, g)
        PROVE  PassesPut(h)
    <2>1. /\ DOMAIN entries' = DOMAIN f \ {g}
          /\ \A i \in DOMAIN entries' : entries'[i] = f[i]
      BY <1>3 DEF Without, Restrict
    <2>2. DOMAIN f \subseteq DOMAIN entries \union {g}
      BY <1>3, StoreOutcome
    <2>3. h \in DOMAIN entries => \/ h \in DOMAIN f /\ f[h] = entries[h]
                                  \/ DroppedForRoom(f, h)
      BY <1>1, <1>3, PutSpares
    <2>4. CASE DroppedForRoom(f, h)
      BY <2>1, <2>4 DEF DroppedForRoom, PassesPut
    <2>5. CASE h \in DOMAIN entries /\ h \in DOMAIN f /\ f[h] = entries[h]
      BY <2>1, <2>5 DEF PassesPut
    <2>6. CASE h \notin DOMAIN entries
      BY <2>1, <2>2, <2>6 DEF PassesPut
    <2> QED BY <2>3, <2>4, <2>5, <2>6
  <1> QED BY <1>2, <1>3 DEF StoreOrDrop

\* A step that at most makes room at h's cost, and leaves its walk and its idle time.
LEMMA PassingServed ==
    ASSUME NEW h \in Handles, AgeIsIdle(h), PassesPut(h), idle'[h] = idle[h],
           Issued(h) => Issued(h)'
    PROVE  Served(h)
  <1>1. Live(h) /\ ~Live(h)' => MayGo(h)
    BY DEF PassesPut, DroppedForRoom, Live, MayGo
  <1>2. AgeIsIdle(h)'
    BY DEF PassesPut, DroppedForRoom, AgeIsIdle, Live
  <1>3. Spared(h)
    BY DEF PassesPut, DroppedForRoom, Spared, Live
  <1> QED BY <1>1, <1>2, <1>3 DEF Served

\* A step of get_pagination, or one that leaves the cache alone.
LEMMA GetServed ==
    ASSUME NEW h \in Handles, AgeIsIdle(h), idle'[h] = idle[h], Issued(h) => Issued(h)',
           entries' = entries \/ \E g \in Handles : GetPagination(g)
    PROVE  Served(h)
  <1>1. Live(h) => h \in DOMAIN entries' /\ entries'[h] = entries[h]
    BY GetIsSparing DEF Live
  <1>2. h \in DOMAIN entries' => h \in DOMAIN entries /\ entries'[h] = entries[h]
    BY DEF GetPagination, cacheVars, Without, Restrict
  <1> QED BY <1>1, <1>2 DEF Served, Live, AgeIsIdle, Spared

\* Storing h itself: it is there again with its full life, or there was no room for it
\* and it was not there before.
LEMMA StoreServed ==
    ASSUME CacheInv, NEW h \in Handles, StorePagination(h), idle'[h] = 0, Issued(h)'
    PROVE  Served(h)
  <1>1. h \in CacheKeys /\ Entry(NoValue, PaginationTtl) \in Entries
    BY EntryType DEF CacheKeys
  <1>2. h \in DOMAIN entries' => entries'[h].life = PaginationTtl
    BY <1>1, EntryInserted DEF StorePagination, Entry
  <1>3. h \in DOMAIN entries => h \in DOMAIN entries'
    BY <1>1, PutSpares DEF StorePagination
  <1> QED BY <1>2, <1>3, CacheAssumption DEF Served, Live, AgeIsIdle, Spared

\* The end of a page keeps the account of its own handle.
LEMMA NextPageServed ==
    ASSUME WalkInv, NEW c \in Clients, NextPage(c), NEW h \in Handles, h = call[c].handle
    PROVE  Served(h)
  <1> DEFINE o == call[c].offset
             n == PageLength(h, o)
  <1>1. CacheInv /\ WalkTypeOK /\ HandleOK(h)
    BY DEF WalkInv
  <1>2. o \in Nat /\ On(c, h)
    BY <1>1, CallType DEF NextPage, On
  <1>3. /\ StoreOrDrop(h, n)
        /\ Deliver(h, o, pstate[h].next)
        /\ idle' = [idle EXCEPT ![h] = 0]
    BY DEF NextPage
  <1>4. walk'[h].told = Told(n) \/ (walk'[h].told = walk[h].told /\ walk'[h].lost)
    BY <1>1, <1>2, <1>3, ReplyWalk, LostWalk DEF Deliver
  <1>5. idle'[h] = 0
    BY <1>1, <1>3 DEF WalkTypeOK
  <1> HIDE DEF o, n
  <1>6. Issued(h)'
    BY <1>1, <1>2, <1>4 DEF HandleOK, InFlight, Issued, Told
  <1>7. CASE StorePagination(h)
    BY <1>1, <1>5, <1>6, <1>7, StoreServed
  <1>8. CASE n # PageSize /\ pagination' = pagination \ {h}
             /\ \E f \in PutOutcomes(h, Entry(NoValue, PaginationTtl)) : entries' = Without(f, h)
    <2>1. h \notin DOMAIN entries' /\ h \notin pagination'
      BY <1>8 DEF Without, Restrict
    <2>2. walk'[h].told = "exhausted" \/ walk'[h].lost
      BY <1>4, <1>8 DEF Told
    <2> QED BY <2>1, <2>2 DEF Served, MayGo, AgeIsIdle, Spared
  <1> QED BY <1>3, <1>7, <1>8 DEF StoreOrDrop

LEMMA ClientServed ==
    ASSUME KeptInv, NEW c \in Clients, NEW h \in Handles,
           \/ StartWalk(c) \/ NextPage(c) \/ Abort(c)
           \/ \E g \in Handles : FirstPage(c, g) \/ Fetch(c, g) \/ FetchUnknown(c, g)
    PROVE  Served(h)
  <1>1. WalkInv /\ CacheInv /\ WalkTypeOK /\ AgeIsIdle(h)
    BY DEF KeptInv, WalkInv
  <1>2. CASE StartWalk(c) \/ Abort(c)
    BY <1>1, <1>2, GetServed DEF StartWalk, Abort, Issued
  <1>3. ASSUME NEW g \in Handles, FirstPage(c, g) PROVE Served(h)
    <2>1. StorePagination(g) /\ idle' = [idle EXCEPT ![g] = 0]
      BY <1>3 DEF FirstPage
    <2>2. walk'[g].told = Told(PageLength(g, 0)) /\ (h # g => walk'[h] = walk[h])
      BY <1>1, <1>3, ReplyWalk DEF FirstPage
    <2>3. CASE g = h
      <3>1. idle'[h] = 0 /\ Issued(h)'
        BY <1>1, <2>1, <2>2, <2>3 DEF WalkTypeOK, Issued, Told
      <3> QED BY <1>1, <2>1, <2>3, <3>1, StoreServed
    <2>4. CASE g # h
      <3>1. idle'[h] = idle[h] /\ (Issued(h) => Issued(h)')
        BY <1>1, <2>1, <2>2, <2>4 DEF WalkTypeOK, Issued
      <3>2. PassesPut(h)
        BY <1>1, <2>1, <2>4, PassingStore
      <3> QED BY <1>1, <3>1, <3>2, PassingServed
    <2> QED BY <2>3, <2>4
  <1>4. ASSUME NEW g \in Handles, Fetch(c, g) PROVE Served(h)
    <2>1. GetPagination(g) /\ idle' = idle
          /\ walk' = [walk EXCEPT ![g].overlapped = @ \/ InFlight(g)]
      BY <1>4 DEF Fetch
    <2>2. walk'[h].told = walk[h].told
      BY <1>1, <2>1, FetchWalk DEF InFlight
    <2> QED BY <1>1, <2>1, <2>2, GetServed DEF Issued
  <1>5. ASSUME NEW g \in Handles, FetchUnknown(c, g) PROVE Served(h)
    BY <1>1, <1>5, GetServed DEF FetchUnknown, walkVars, Issued
  <1>6. CASE NextPage(c)
    <2> DEFINE g == call[c].handle
    <2>1. g \in Handles /\ call[c].offset \in Nat
      BY <1>1, <1>6, CallType DEF NextPage
    <2>2. CASE g = h
      BY <1>1, <1>6, <2>2, NextPageServed
    <2>3. CASE g # h
      <3> DEFINE n == PageLength(g, call[c].offset)
      <3>1. /\ StoreOrDrop(g, n)
            /\ Deliver(g, call[c].offset, pstate[g].next)
            /\ idle' = [idle EXCEPT ![g] = 0]
        BY <1>6 DEF NextPage
      <3> HIDE DEF g, n
      <3>2. PassesPut(h)
        BY <1>1, <2>1, <2>3, <3>1, PassingStore
      <3>3. walk'[h] = walk[h]
        BY <1>1, <2>1, <2>3, <3>1, ReplyWalk, LostWalk DEF Deliver
      <3>4. idle'[h] = idle[h]
        BY <1>1, <2>3, <3>1 DEF WalkTypeOK
      <3> QED BY <1>1, <3>2, <3>3, <3>4, PassingServed DEF Issued
    <2> QED BY <2>2, <2>3
  <1> QED BY <1>2, <1>3, <1>4, <1>5, <1>6

\* A tick takes from the life of a live entry what it adds to the idle time.
LEMMA TickServed ==
    ASSUME KeptInv, Tick, NEW h \in Handles
    PROVE  Served(h)
  <1>1. CacheInv /\ WalkTypeOK /\ AgeIsIdle(h)
    BY DEF KeptInv, WalkInv
  <1>2. /\ DOMAIN entries' = DOMAIN entries
        /\ Issued(h)' = Issued(h)
        /\ idle'[h] = IF Issued(h) /\ idle[h] < PaginationTtl THEN idle[h] + 1 ELSE idle[h]
    BY DEF Tick, CacheTick, Issued
  <1>3. idle[h] \in 0 .. PaginationTtl /\ PaginationTtl \in Nat
    BY <1>1, CacheAssumption DEF WalkTypeOK
  <1>4. ASSUME h \in DOMAIN entries
        PROVE  /\ entries[h].life \in Int
               /\ entries'[h].life = IF entries[h].life >= 0 THEN entries[h].life - 1
                                     ELSE entries[h].life
    <2>1. entries[h] \in Entries /\ entries[h].life \in Int
      BY <1>1, <1>4, LifeType
    <2>2. entries'[h] = Age(entries[h])
      BY <1>4 DEF Tick, CacheTick
    <2>3. Age(entries[h]).life = IF entries[h].life >= 0 THEN entries[h].life - 1
                                 ELSE entries[h].life
      BY <2>1 DEF Age, Entries
    <2> QED BY <2>1, <2>2, <2>3
  <1>5. Live(h) /\ ~Live(h)' => idle[h] = PaginationTtl
    BY <1>1, <1>2, <1>3, <1>4 DEF Live, AgeIsIdle
  <1>6. AgeIsIdle(h)'
    BY <1>1, <1>2, <1>3, <1>4 DEF Live, AgeIsIdle
  <1> QED BY <1>2, <1>5, <1>6 DEF Served, MayGo, Spared, Live

LEMMA StepServed ==
    ASSUME KeptInv, [Next]_vars, NEW h \in Handles
    PROVE  Served(h)
  <1>1. ASSUME NEW c \in Clients,
               \/ StartWalk(c) \/ NextPage(c) \/ Abort(c)
               \/ \E g \in Handles : FirstPage(c, g) \/ Fetch(c, g) \/ FetchUnknown(c, g)
        PROVE  Served(h)
    BY <1>1, ClientServed
  <1>2. ASSUME NEW k \in QueryKeys, NEW v \in Values, OtherQuery(k, v) PROVE Served(h)
    <2>1. k \in CacheKeys /\ k # h /\ Entry(v, DefaultTtl) \in Entries
      BY CacheAssumption, EntryType DEF CacheKeys
    <2>2. entries' \in PutOutcomes(k, Entry(v, DefaultTtl))
      BY <1>2 DEF OtherQuery, Set
    <2>3. PassesPut(h)
      BY <2>1, <2>2, PassingPut DEF KeptInv, WalkInv
    <2> QED BY <1>2, <2>3, PassingServed DEF KeptInv, OtherQuery, walkVars, Issued
  <1>3. CASE Tick
    BY <1>3, TickServed
  <1>4. CASE UNCHANGED vars
    BY <1>4, GetServed DEF vars, KeptInv, Issued
  <1> QED BY <1>1, <1>2, <1>3, <1>4 DEF Next

LEMMA KeptAlways == Spec => []KeptInv
  <1>1. Init => KeptInv
    <2>1. Init => \A h \in Handles : AgeIsIdle(h)
      BY DEF Init, CacheInit, AgeIsIdle
    <2> QED BY <2>1, WalkInvInit DEF KeptInv
  <1>2. KeptInv /\ [Next]_vars => KeptInv'
    BY StepServed, WalkInvNext DEF KeptInv, Served
  <1> QED BY <1>1, <1>2, PTL DEF Spec

\* A live handle is lost only when its walk has ended, when it has been idle for the
\* life of a handle, or when the cache was full.
THEOREM Kept == Spec => HandleKept
  <1>1. KeptInv /\ [Next]_vars
           => [\A h \in Handles :
                  Live(h) /\ ~Live(h)'
                    => \/ h \notin pagination' /\ (walk'[h].told = "exhausted" \/ walk'[h].lost)
                       \/ idle[h] = PaginationTtl
                       \/ Cardinality(DOMAIN entries) = MaxEntries]_vars
    BY StepServed DEF Served, MayGo
  <1> QED BY KeptAlways, <1>1, PTL DEF Spec, HandleKept

\* What pushes a live handle out would itself not have expired sooner.
THEOREM Spares == Spec => SetSparesHandles
  <1>1. KeptInv /\ [Next]_vars
           => [\A h \in Handles :
                  (Live(h) /\ h \notin DOMAIN entries' /\ h \in pagination')
                     => \A k \in DOMAIN entries' : entries'[k].life >= entries[h].life]_cacheVars
    BY StepServed DEF Served, Spared
  <1> QED BY KeptAlways, <1>1, PTL DEF Spec, SetSparesHandles
===============================================================================
