------------------------------ MODULE ClientPool ------------------------------
(***************************************************************************)
(* ClientPool of pool.py and the lifespans that start it and shut it down: *)
(* server.py's, which the MCP library enters once for every session, and   *)
(* those of the GUI and of the command line, which have a pool to          *)
(* themselves.                                                             *)
(*                                                                         *)
(* A lifespan suspends at each ping of startup and at each close of        *)
(* shutdown; anything may happen in between. The client a lifespan made    *)
(* for its i-th cluster is <<s, i>>, its Capella client <<s, 0>>. _clients *)
(* is an insertion-ordered dict: a sequence of items, one for each name.   *)
(***************************************************************************)
EXTENDS Integers, Sequences

CONSTANTS
    Lifespans,      \* entered at most once each
    Clusters,       \* names of cfg.clusters, in order
    HasCapella      \* cfg.capella_api_key is set

ASSUME PoolAssumption ==
    /\ Clusters \in Seq({Clusters[i] : i \in DOMAIN Clusters})
    /\ Clusters # << >>            \* with no cluster there is nothing to share
    /\ HasCapella \in BOOLEAN

VARIABLES
    names,          \* _names
    clients,        \* _clients: [name, client] items in order of insertion
    capella,        \* _capella
    open,           \* clients made and not closed
    at,             \* at[s]: where lifespan s is
    quiet,          \* quiet[s]: no other lifespan shut the pool down while s was in
    serial          \* lifespans have come one after another, none cancelled or broken off

held == <<names, clients, capella>>
poolVars == <<held, open, at, quiet, serial>>

Names == {Clusters[i] : i \in DOMAIN Clusters}
Objects == Lifespans \X (0 .. Len(Clusters))
NoClient == << >>

Out == [step |-> "out"]
Up == [step |-> "up"]
Done == [step |-> "done"]
Cancelled == [step |-> "cancelled"]
Broken == [step |-> "broken"]
Pinging(i) == [step |-> "pinging", cluster |-> i]
Closing(p, n, c) == [step |-> "closing", pos |-> p, size |-> n, client |-> c]
ClosingCapella(c) == [step |-> "closing_capella", client |-> c]

Places ==
    {Out, Up, Done, Cancelled, Broken}
    \union [step : {"pinging"}, cluster : DOMAIN Clusters]
    \union [step : {"closing"}, pos : Nat \ {0}, size : Nat, client : Objects]
    \union [step : {"closing_capella"}, client : Objects]

Inside(s) == at[s].step \in {"pinging", "up", "closing", "closing_capella"}
ShuttingDown(s) == at[s].step \in {"closing", "closing_capella"}

PoolTypeOK ==
    /\ names \in Seq(Names)
    /\ clients \in Seq([name : Names, client : Objects])
    /\ capella \in Objects \union {NoClient}
    /\ open \subseteq Objects
    /\ at \in [Lifespans -> Places]
    /\ quiet \in [Lifespans -> BOOLEAN]
    /\ serial \in BOOLEAN

-------------------------------------------------------------------------------
PoolInit ==
    /\ names = << >>
    /\ clients = << >>
    /\ capella = NoClient
    /\ open = {}
    /\ at = [s \in Lifespans |-> Out]
    /\ quiet = [s \in Lifespans |-> FALSE]
    /\ serial = TRUE

Moves(s, to) == at' = [at EXCEPT ![s] = to]

\* _clients[n] = c: in place, or at the end.
Stored(n, c) ==
    LET item == [name |-> n, client |-> c]
    IN  IF \E i \in DOMAIN clients : clients[i].name = n
        THEN [i \in DOMAIN clients |-> IF clients[i].name = n THEN item ELSE clients[i]]
        ELSE Append(clients, item)

\* startup begins: the first cluster's client is made and pinged.
Enter(s) ==
    /\ at[s] = Out
    /\ open' = open \union {<<s, 1>>}
    /\ Moves(s, Pinging(1))
    /\ quiet' = [quiet EXCEPT ![s] = \A t \in Lifespans : ~ShuttingDown(t)]
    /\ serial' = (serial /\ \A t \in Lifespans : ~Inside(t))
    /\ UNCHANGED held

NextClusterOffByOne(s, i) ==               \* mutant: one cluster too many
    \/ /\ i <= Len(Clusters)
       /\ open' = open \union {<<s, i + 1>>}
       /\ Moves(s, Pinging(i + 1))
       /\ UNCHANGED capella

\* What startup does once a ping has come back: on to the next cluster, or to Capella,
\* whose client replaces the one there may be.
NextCluster(s, i) ==
    \/ /\ i < Len(Clusters)
       /\ open' = open \union {<<s, i + 1>>}
       /\ Moves(s, Pinging(i + 1))
       /\ UNCHANGED capella
    \/ /\ i = Len(Clusters)
       /\ open' = IF HasCapella THEN open \union {<<s, 0>>} ELSE open
       /\ capella' = IF HasCapella THEN <<s, 0>> ELSE capella
       /\ Moves(s, Up)

PingedKeepingOld(s) ==                     \* mutant: setdefault for assignment
    /\ at[s].step = "pinging"
    /\ LET i == at[s].cluster
       IN  /\ clients' = IF \E j \in DOMAIN clients : clients[j].name = Clusters[i]
                         THEN clients ELSE Stored(Clusters[i], <<s, i>>)
           /\ names' = Append(names, Clusters[i])
           /\ NextCluster(s, i)
    /\ UNCHANGED <<quiet, serial>>

\* The ping's result is logged, the client kept either way.
Pinged(s) ==
    /\ at[s].step = "pinging"
    /\ LET i == at[s].cluster
       IN  /\ clients' = Stored(Clusters[i], <<s, i>>)
           /\ names' = Append(names, Clusters[i])
           /\ NextCluster(s, i)
    /\ UNCHANGED <<quiet, serial>>

\* The task is cancelled during a ping: the lifespan's try block was not reached.
CancelStartup(s) ==
    /\ at[s].step = "pinging"
    /\ Moves(s, Cancelled)
    /\ serial' = FALSE
    /\ UNCHANGED <<names, clients, capella, open, quiet>>

\* httpx refuses the settings of the next client: startup raises, and the lifespan's try
\* block was not reached.
StartupRaises(s) ==
    /\ \/ at[s] = Out /\ UNCHANGED <<names, clients>>
       \/ /\ at[s].step = "pinging"
          /\ at[s].cluster < Len(Clusters) \/ HasCapella
          /\ clients' = Stored(Clusters[at[s].cluster], <<s, at[s].cluster>>)
          /\ names' = Append(names, Clusters[at[s].cluster])
    /\ Moves(s, Broken)
    /\ serial' = FALSE
    /\ UNCHANGED <<capella, open, quiet>>

ClearedHalf == clients' = << >> /\ UNCHANGED names      \* mutant: _names.clear() missing

Cleared == clients' = << >> /\ names' = << >>

\* shutdown after its loop: both collections are cleared, then Capella's client, if
\* there is one, is closed.
AfterLoop(s) ==
    /\ Cleared
    /\ Moves(s, IF capella # NoClient THEN ClosingCapella(capella) ELSE Done)

\* The next item of the loop over _clients, which raises RuntimeError when their
\* number has changed since the loop began.
LoopFrom(s, p, n) ==
    \/ /\ Len(clients) # n
       /\ Moves(s, Broken)
       /\ UNCHANGED <<names, clients>>
    \/ /\ Len(clients) = n /\ p <= n
       /\ Moves(s, Closing(p, n, clients[p].client))
       /\ UNCHANGED <<names, clients>>
    \/ /\ Len(clients) = n /\ p > n
       /\ AfterLoop(s)

\* The session ends: shutdown begins.
Shutdown(s) ==
    /\ at[s] = Up
    /\ LoopFrom(s, 1, Len(clients))
    /\ quiet' = [t \in Lifespans |-> quiet[t] /\ t = s]
    /\ UNCHANGED <<capella, open, serial>>

\* close() has returned or failed: the client is unusable either way.
ClientClosed(s) ==
    /\ at[s].step = "closing"
    /\ open' = open \ {at[s].client}
    /\ LoopFrom(s, at[s].pos + 1, at[s].size)
    /\ UNCHANGED <<capella, quiet, serial>>

CapellaKept(s) ==                          \* mutant: _capella = None missing
    /\ at[s].step = "closing_capella"
    /\ open' = open \ {at[s].client}
    /\ Moves(s, Done)
    /\ UNCHANGED <<names, clients, capella, quiet, serial>>

\* _capella = None, whatever it has become while its client was being closed.
CapellaClosed(s) ==
    /\ at[s].step = "closing_capella"
    /\ open' = open \ {at[s].client}
    /\ capella' = NoClient
    /\ Moves(s, Done)
    /\ UNCHANGED <<names, clients, quiet, serial>>

\* The task is cancelled during a close: the rest of shutdown is skipped.
CancelShutdown(s) ==
    /\ ShuttingDown(s)
    /\ open' = open \ {at[s].client}
    /\ Moves(s, Cancelled)
    /\ serial' = FALSE
    /\ UNCHANGED <<names, clients, capella, quiet>>

PoolNext ==
    \E s \in Lifespans :
        \/ Enter(s) \/ Pinged(s) \/ CancelStartup(s) \/ StartupRaises(s)
        \/ Shutdown(s) \/ ClientClosed(s) \/ CapellaClosed(s) \/ CancelShutdown(s)

PoolSpec == PoolInit /\ [][PoolNext]_poolVars

-------------------------------------------------------------------------------
(* Properties *)

\* Whoever may be starting, leaving or cancelled: the names offered are those of the
\* clients held, each held once, so that default() and the listing of clusters never
\* name a cluster get() does not find.
NamesAgree ==
    /\ {names[i] : i \in DOMAIN names} = {clients[i].name : i \in DOMAIN clients}
    /\ \A i, j \in DOMAIN clients : clients[i].name = clients[j].name => i = j

\* get(n) returns a client that works.
Reachable(n) == \E i \in DOMAIN clients : clients[i].name = n /\ clients[i].client \in open

Served(s) ==
    /\ \A n \in Names : Reachable(n)
    /\ HasCapella => capella \in open

\* Sessions that join, or are cancelled or fail while they start, do not harm those that
\* are in: their clients replace the others' by clients as good. Only a shutdown does.
ServedWhileQuiet == \A s \in Lifespans : at[s] = Up /\ quiet[s] => Served(s)

\* The names of the clusters are distinct, as validate_config requires of every
\* configuration but that of an offline tool call.
DistinctNames == \A i, j \in DOMAIN Clusters : Clusters[i] = Clusters[j] => i = j

\* While sessions come one after another, each finds the first configured cluster as
\* its default, and leaves a pool as new with every client closed.
CleanBetween ==
    serial =>
        /\ \A s \in Lifespans : at[s] = Up => names[1] = Clusters[1]
        /\ (\A s \in Lifespans : ~Inside(s)) =>
              names = << >> /\ clients = << >> /\ capella = NoClient /\ open = {}

\* pool.py:7: "The pool is created in the lifespan of the application", so that a
\* lifespan has its clients from startup to shutdown. server.py:77 makes one pool for
\* all lifespans: a session that ends closes the clients of the sessions that go on.
SessionsServed == \A s \in Lifespans : at[s] = Up => Served(s)
===============================================================================
