---------------------------- MODULE PaginatedQuery ----------------------------
(***************************************************************************)
(* execute_query_paginated_impl and fetch_next_page_impl of tools/query.py *)
(* over ResultCache: clients walk a query's result page by page.           *)
(*                                                                         *)
(* A tool call is two steps: what runs before `await execute_readonly` and *)
(* what runs after it; anything may happen in between. The PaginationState *)
(* is one mutable object per handle, shared by _pagination, the cache      *)
(* entry and every fetch in flight: pstate[h] is that object.              *)
(*                                                                         *)
(* The result of h's query is the rows 1 .. size[h] in a fixed order: the  *)
(* model assumes the data and the backend's order do not change during a   *)
(* walk (LIMIT/OFFSET without ORDER BY promises neither).                  *)
(***************************************************************************)
EXTENDS ResultCache, Sequences

CONSTANTS
    Clients,        \* concurrent tool calls
    Sizes,          \* numbers of rows a result may have
    PageSize        \* page_size

ASSUME PagingAssumption ==
    /\ Sizes \subseteq Nat
    /\ PageSize \in Nat \ {0}

VARIABLES
    pstate,         \* pstate[h]: next_offset and total_seen of h's PaginationState
    size,           \* size[h]: rows of the result h walks
    call,           \* call[c]: the tool call c is in, and what it remembers
    walk,           \* walk[h]: what the clients of h have been told and have done
    idle            \* idle[h]: time since h's latest page, capped

walkVars == <<pstate, size, call, walk, idle>>
vars == <<entries, pagination, pstate, size, call, walk, idle>>

Idle == [tool |-> "none"]
First == [tool |-> "execute_query_paginated"]
Fetching(h, o) == [tool |-> "fetch_next_page", handle |-> h, offset |-> o]

Unborn == [next |-> 0, total |-> 0]                    \* a handle not yet issued

\* rows: those delivered; told: the latest has_more; offsetRight: every page_offset
\* so far was that of its page; overlapped: two calls fetched at the same time;
\* lost: the reply of a fetch was lost on its way.
NotWalked == [rows |-> << >>, told |-> "nothing", offsetRight |-> TRUE,
              overlapped |-> FALSE, lost |-> FALSE]

Calls == {Idle, First} \union [tool : {"fetch_next_page"}, handle : Handles, offset : Nat]

Walks == [rows : Seq(Nat), told : {"nothing", "more", "exhausted"}, offsetRight : BOOLEAN,
          overlapped : BOOLEAN, lost : BOOLEAN]

TypeOK ==
    /\ CacheTypeOK
    /\ pstate \in [Handles -> [next : Nat, total : Nat]]
    /\ size \in [Handles -> Sizes]
    /\ call \in [Clients -> Calls]
    /\ walk \in [Handles -> Walks]
    /\ idle \in [Handles -> 0 .. PaginationTtl]

-------------------------------------------------------------------------------
\* The backend's answer to "LIMIT page_size OFFSET o": rows o+1, o+2, ...
PageLength(h, o) ==
    IF o >= size[h] THEN 0 ELSE IF size[h] - o < PageSize THEN size[h] - o ELSE PageSize

Page(h, o) == [i \in 1 .. PageLength(h, o) |-> o + i]

Init ==
    /\ CacheInit
    /\ pstate = [h \in Handles |-> Unborn]
    /\ size \in [Handles -> Sizes]
    /\ call = [c \in Clients |-> Idle]
    /\ walk = [h \in Handles |-> NotWalked]
    /\ idle = [h \in Handles |-> 0]

Issued(h) == walk[h].told # "nothing"

Becomes(c, s) == call' = [call EXCEPT ![c] = s]

\* execute_query_paginated up to its await.
StartWalk(c) ==
    /\ call[c] = Idle
    /\ Becomes(c, First)
    /\ UNCHANGED <<entries, pagination, pstate, size, walk, idle>>

ToldEarly(n) == IF n > PageSize THEN "more" ELSE "exhausted"   \* mutant: > for =

\* has_more
Told(n) == IF n = PageSize THEN "more" ELSE "exhausted"

\* The reply of a call on h: the page at offset `o`, said to begin at offset `said`.
Reply(h, o, said) ==
    walk' = [walk EXCEPT
        ![h].rows        = @ \o Page(h, o),
        ![h].told        = Told(PageLength(h, o)),
        ![h].offsetRight = @ /\ (PageLength(h, o) > 0 => said = o)]

\* execute_query_paginated after its await: a new handle, stored whatever the
\* length of the first page.
FirstPage(c, h) ==
    /\ call[c] = First
    /\ ~Issued(h)
    /\ pstate' = [pstate EXCEPT ![h] = [next |-> PageLength(h, 0), total |-> PageLength(h, 0)]]
    /\ StorePagination(h)
    /\ Reply(h, 0, 0)
    /\ idle' = [idle EXCEPT ![h] = 0]
    /\ Becomes(c, Idle)
    /\ UNCHANGED size

On(c, h) == call[c].tool = "fetch_next_page" /\ call[c].handle = h
InFlight(h) == \E c \in Clients : On(c, h)

\* fetch_next_page up to its await: the offset sent is read here.
Fetch(c, h) ==
    /\ call[c] = Idle
    /\ Issued(h)
    /\ Live(h)
    /\ GetPagination(h)
    /\ Becomes(c, Fetching(h, pstate[h].next))
    /\ walk' = [walk EXCEPT ![h].overlapped = @ \/ InFlight(h)]
    /\ UNCHANGED <<pstate, size, idle>>

\* fetch_next_page: "not found or expired" (404).
FetchUnknown(c, h) ==
    /\ call[c] = Idle
    /\ Issued(h)
    /\ ~Live(h)
    /\ GetPagination(h)
    /\ UNCHANGED walkVars

AdvanceByPage(h, n) ==                     \* mutant: advances by page_size, counts rows
    pstate' = [pstate EXCEPT ![h] = [next |-> @.next + PageSize, total |-> @.total + n]]

AdvanceCountOnly(h, n) ==                  \* mutant: next_offset is not advanced
    pstate' = [pstate EXCEPT ![h].total = @ + n]

\* next_offset += rows, total_seen += rows on the shared object.
Advance(h, n) ==
    pstate' = [pstate EXCEPT ![h] = [next |-> @.next + n, total |-> @.total + n]]

DropHalf(h, n) ==                          \* mutant: drop_pagination forgets the entry
    \/ n = PageSize /\ StorePagination(h)
    \/ /\ n # PageSize
       /\ entries' \in PutOutcomes(h, Entry(NoValue, PaginationTtl))
       /\ pagination' = pagination \ {h}

\* store_pagination, which may evict another entry, then drop_pagination when the
\* page was short.
StoreOrDrop(h, n) ==
    \/ n = PageSize /\ StorePagination(h)
    \/ /\ n # PageSize
       /\ \E f \in PutOutcomes(h, Entry(NoValue, PaginationTtl)) : entries' = Without(f, h)
       /\ pagination' = pagination \ {h}

\* The reply arrives, or is lost on its way to the client.
Deliver(h, o, said) ==
    \/ Reply(h, o, said)
    \/ walk' = [walk EXCEPT ![h].lost = TRUE]

NextPageReadingLate(c) ==                  \* mutant: page_offset read after the advance
    /\ call[c].tool = "fetch_next_page"
    /\ LET h == call[c].handle
           n == PageLength(h, call[c].offset)
       IN  /\ Advance(h, n)
           /\ StoreOrDrop(h, n)
           /\ Deliver(h, call[c].offset, pstate'[h].next)
           /\ idle' = [idle EXCEPT ![h] = 0]
    /\ Becomes(c, Idle)
    /\ UNCHANGED size

\* fetch_next_page after its await. The offset it reports is read from the shared
\* object now; the rows belong to the offset it sent.
NextPage(c) ==
    /\ call[c].tool = "fetch_next_page"
    /\ LET h == call[c].handle
           n == PageLength(h, call[c].offset)
       IN  /\ Advance(h, n)
           /\ StoreOrDrop(h, n)
           /\ Deliver(h, call[c].offset, pstate[h].next)
           /\ idle' = [idle EXCEPT ![h] = 0]
    /\ Becomes(c, Idle)
    /\ UNCHANGED size

\* The query fails, or the call is cancelled while it awaits: nothing is stored.
Abort(c) ==
    /\ call[c] # Idle
    /\ Becomes(c, Idle)
    /\ UNCHANGED <<entries, pagination, pstate, size, walk, idle>>

\* Cached read-only queries of other tools compete for room.
OtherQuery(k, v) == Set(k, v) /\ UNCHANGED walkVars

Tick ==
    /\ CacheTick
    /\ idle' = [h \in Handles |->
                   IF Issued(h) /\ idle[h] < PaginationTtl THEN idle[h] + 1 ELSE idle[h]]
    /\ UNCHANGED <<pstate, size, call, walk>>

Next ==
    \/ \E c \in Clients :
          \/ StartWalk(c) \/ NextPage(c) \/ Abort(c)
          \/ \E h \in Handles : FirstPage(c, h) \/ Fetch(c, h) \/ FetchUnknown(c, h)
    \/ \E k \in QueryKeys, v \in Values : OtherQuery(k, v)
    \/ Tick

Spec == Init /\ [][Next]_vars

-------------------------------------------------------------------------------
(* Properties *)

\* A walk whose clients never fetch at the same time, and one that lost no reply.
Sequential(h) == ~walk[h].overlapped
Undisturbed(h) == Sequential(h) /\ ~walk[h].lost

\* Whatever failures, cancellations, evictions and expiries come between its pages,
\* an undisturbed walk has been given exactly the rows before next_offset, in order,
\* each once.
WalkIsPrefix ==
    \A h \in Handles :
        Undisturbed(h) => walk[h].rows = [i \in 1 .. pstate[h].next |-> i]

\* Even when replies are lost, a sequential walk never repeats a row and never goes
\* back: a lost reply costs its page, and the call after it moves on.
WalkInOrder ==
    \A h \in Handles :
        Sequential(h) => \A i, j \in DOMAIN walk[h].rows :
                            i < j => walk[h].rows[i] < walk[h].rows[j]

\* A walk that is told there is no more has seen the full result, and total_seen
\* counts it.
WalkComplete ==
    \A h \in Handles :
        Undisturbed(h) /\ walk[h].told = "exhausted"
            => Len(walk[h].rows) = size[h] /\ pstate[h].total = size[h]

\* page_offset, which is read after the await, is still the offset of the page it
\* comes with.
PageOffsetRight == \A h \in Handles : Sequential(h) => walk[h].offsetRight

\* query.py:251: "When exhausted, drop the handle so the cache doesn't accumulate
\* dead state". A sequential walk that met its end in a fetch leaves nothing behind;
\* one that ended with its very first page does, its handle is stored regardless.
FetchedOutIsDropped ==
    \A h \in Handles :
        Sequential(h) /\ walk[h].told = "exhausted" /\ Len(walk[h].rows) > PageLength(h, 0)
            => h \notin DOMAIN entries /\ h \notin pagination

\* docs/tool-reference.md:78-79: "The handle expires after 30 minutes of inactivity."
\* A live handle is lost only when its walk has ended, when it has been idle for that
\* long, or when the cache was full and made room, even if what the room was made for
\* is dropped at once.
HandleKept ==
    [][\A h \in Handles :
          Live(h) /\ ~Live(h)'
            => \/ h \notin pagination' /\ (walk'[h].told = "exhausted" \/ walk'[h].lost)
               \/ idle[h] = PaginationTtl
               \/ Cardinality(DOMAIN entries) = MaxEntries]_vars
===============================================================================
