--------------------------- MODULE Lifecycle_proofs ---------------------------
(***************************************************************************)
(* Proofs about what starts and stops: ClientPool, the pool that sessions  *)
(* enter and leave, and ServerProcess, the process up to its exit code.    *)
(*                                                                         *)
(* Of the pool, for any set of lifespans and any list of clusters: its     *)
(* types, that names and clients agree, that only a shutdown takes clients *)
(* away from a session, and that sessions which take turns leave nothing   *)
(* behind. Of the process: its types, what an exit code tells, that no     *)
(* pool is left open, and why a server is stopped, whatever the            *)
(* configuration and however the two servers fail, end and are cancelled.  *)
(***************************************************************************)
EXTENDS ClientPool, ServerProcess, TLAPS

-------------------------------------------------------------------------------
(* The pool: types and names *)

Item == [name : Names, client : Objects]

\* At least one cluster is configured, and every position of Clusters names one.
LEMMA ClustersType ==
    /\ Len(Clusters) \in Nat \ {0}
    /\ DOMAIN Clusters = 1 .. Len(Clusters)
    /\ \A i \in DOMAIN Clusters : Clusters[i] \in Names
  BY PoolAssumption DEF Names

\* The clients a lifespan makes.
LEMMA ObjectType ==
    \A s \in Lifespans, i \in 0 .. Len(Clusters) : <<s, i>> \in Objects
  BY DEF Objects

Entry(n, c) == [name |-> n, client |-> c]

\* dict is what the dictionary becomes when c is assigned to n: its other items keep
\* their places, and a name that is new comes last.
Assigned(dict, n, c) ==
    /\ dict \in Seq(Item)
    /\ \E i \in DOMAIN dict : dict[i] = Entry(n, c)
    /\ \A i \in DOMAIN clients :
          /\ i \in DOMAIN dict
          /\ dict[i] = IF clients[i].name = n THEN Entry(n, c) ELSE clients[i]
    /\ \A i \in DOMAIN dict :
          i \notin DOMAIN clients =>
             /\ i = Len(clients) + 1
             /\ dict[i] = Entry(n, c)
             /\ \A j \in DOMAIN clients : clients[j].name # n
    /\ (\A i \in DOMAIN clients : clients[i].name # n) => dict = Append(clients, Entry(n, c))

\* Stored is that assignment.
LEMMA StoredAssigns ==
    ASSUME clients \in Seq(Item), NEW n \in Names, NEW c \in Objects
    PROVE  Assigned(Stored(n, c), n, c)
  <1>1. Entry(n, c) \in Item
    BY DEF Item, Entry
  <1>2. CASE \E i \in DOMAIN clients : clients[i].name = n
    <2>1. Stored(n, c) = [i \in DOMAIN clients |->
                             IF clients[i].name = n THEN Entry(n, c) ELSE clients[i]]
      BY <1>2 DEF Stored, Entry
    <2>2. \A i \in DOMAIN clients : clients[i] \in Item
      OBVIOUS
    <2>3. Stored(n, c) \in [1 .. Len(clients) -> Item]
      BY <1>1, <2>1, <2>2
    <2>4. Stored(n, c) \in Seq(Item)
      BY <2>3
    <2> QED BY <1>2, <2>1, <2>4 DEF Assigned
  <1>3. CASE ~ \E i \in DOMAIN clients : clients[i].name = n
    <2>1. Stored(n, c) = Append(clients, Entry(n, c))
      BY <1>3 DEF Stored, Entry
    <2> QED BY <1>1, <1>3, <2>1 DEF Assigned
  <1> QED BY <1>2, <1>3

\* The types, step by step.
LEMMA PoolTypeInit == PoolInit => PoolTypeOK
  BY ClustersType DEF PoolInit, PoolTypeOK, Places, Out

\* Where the loop of shutdown goes and what it leaves.
LEMMA LoopTypes ==
    ASSUME PoolTypeOK, NEW s \in Lifespans, NEW p \in Nat \ {0}, NEW n \in Nat, LoopFrom(s, p, n)
    PROVE  /\ at' \in [Lifespans -> Places]
           /\ names' \in Seq(Names)
           /\ clients' \in Seq(Item)
  <1>1. CASE Moves(s, Broken) /\ UNCHANGED <<names, clients>>
    BY <1>1 DEF PoolTypeOK, Moves, Places, Item
  <1>2. CASE /\ Len(clients) = n /\ p <= n /\ Moves(s, Closing(p, n, clients[p].client))
             /\ UNCHANGED <<names, clients>>
    <2>1. clients \in Seq(Item) /\ p \in 1 .. Len(clients)
      BY <1>2 DEF PoolTypeOK, Item
    <2>2. clients[p] \in Item
      BY <2>1
    <2>3. Closing(p, n, clients[p].client) \in Places
      BY <2>2 DEF Places, Closing, Item
    <2> QED BY <1>2, <2>3 DEF PoolTypeOK, Moves, Item
  <1>3. CASE AfterLoop(s)
    <2>1. (IF capella # NoClient THEN ClosingCapella(capella) ELSE Done) \in Places
      BY DEF PoolTypeOK, Places, ClosingCapella
    <2>2. at' = [at EXCEPT ![s] = IF capella # NoClient THEN ClosingCapella(capella) ELSE Done]
      BY <1>3 DEF AfterLoop, Moves
    <2>3. at' \in [Lifespans -> Places]
      BY <2>1, <2>2 DEF PoolTypeOK
    <2> QED BY <1>3, <2>3 DEF AfterLoop, Cleared
  <1> QED BY <1>1, <1>2, <1>3 DEF LoopFrom

\* What a ping that came back does to the two collections.
LEMMA PingedStores ==
    ASSUME PoolTypeOK, NEW s \in Lifespans, Pinged(s)
    PROVE  LET i == at[s].cluster
           IN  /\ at[s].step = "pinging"
               /\ i \in DOMAIN Clusters
               /\ Clusters[i] \in Names
               /\ <<s, i>> \in Objects
               /\ Assigned(clients', Clusters[i], <<s, i>>)
               /\ names' = Append(names, Clusters[i])
               /\ NextCluster(s, i)
               /\ UNCHANGED <<quiet, serial>>
  <1> DEFINE i == at[s].cluster
  <1>1. i \in DOMAIN Clusters /\ at[s].step = "pinging"
    BY DEF Pinged, PoolTypeOK, Places, Out, Up, Done, Cancelled, Broken
  <1>2. <<s, i>> \in Objects /\ Clusters[i] \in Names
    BY <1>1, ClustersType, ObjectType
  <1>3. /\ clients' = Stored(Clusters[i], <<s, i>>)
        /\ names' = Append(names, Clusters[i])
        /\ NextCluster(s, i) /\ UNCHANGED <<quiet, serial>>
    BY DEF Pinged
  <1>4. clients \in Seq(Item)
    BY DEF PoolTypeOK, Item
  <1> HIDE DEF i
  <1>5. Assigned(clients', Clusters[i], <<s, i>>)
    BY <1>2, <1>3, <1>4, StoredAssigns
  <1> QED BY <1>1, <1>2, <1>3, <1>5 DEF i

\* A startup that raises has kept the client it had pinged, or had none yet.
LEMMA RaisedStores ==
    ASSUME PoolTypeOK, NEW s \in Lifespans, StartupRaises(s)
    PROVE  /\ at' = [at EXCEPT ![s] = Broken]
           /\ serial' = FALSE /\ UNCHANGED <<capella, open, quiet>>
           /\ \/ UNCHANGED <<names, clients>>
              \/ \E i \in DOMAIN Clusters :
                    /\ at[s].step = "pinging" /\ at[s].cluster = i
                    /\ Clusters[i] \in Names /\ <<s, i>> \in Objects
                    /\ Assigned(clients', Clusters[i], <<s, i>>)
                    /\ names' = Append(names, Clusters[i])
  <1>1. CASE at[s] = Out /\ UNCHANGED <<names, clients>>
    BY <1>1 DEF StartupRaises, Moves
  <1>2. CASE /\ at[s].step = "pinging"
             /\ clients' = Stored(Clusters[at[s].cluster], <<s, at[s].cluster>>)
             /\ names' = Append(names, Clusters[at[s].cluster])
    <2> DEFINE i == at[s].cluster
    <2>1. i \in DOMAIN Clusters
      BY <1>2 DEF PoolTypeOK, Places, Out, Up, Done, Cancelled, Broken
    <2>2. <<s, i>> \in Objects /\ Clusters[i] \in Names
      BY <2>1, ClustersType, ObjectType
    <2>3. clients \in Seq(Item)
      BY DEF PoolTypeOK, Item
    <2>4. clients' = Stored(Clusters[i], <<s, i>>) /\ names' = Append(names, Clusters[i])
      BY <1>2
    <2> HIDE DEF i
    <2>5. Assigned(clients', Clusters[i], <<s, i>>)
      BY <2>2, <2>3, <2>4, StoredAssigns
    <2> QED BY <1>2, <2>1, <2>2, <2>4, <2>5 DEF StartupRaises, Moves, i
  <1> QED BY <1>1, <1>2 DEF StartupRaises

LEMMA RaisedTypes ==
    ASSUME PoolTypeOK, NEW s \in Lifespans, StartupRaises(s)
    PROVE  PoolTypeOK'
  <1>1. names' \in Seq(Names) /\ clients' \in Seq([name : Names, client : Objects])
    <2>1. CASE UNCHANGED <<names, clients>>
      BY <2>1 DEF PoolTypeOK
    <2>2. ASSUME NEW n \in Names, NEW c, Assigned(clients', n, c), names' = Append(names, n)
          PROVE  names' \in Seq(Names) /\ clients' \in Seq([name : Names, client : Objects])
      <3>1. names' \in Seq(Names)
        BY <2>2 DEF PoolTypeOK
      <3>2. clients' \in Seq([name : Names, client : Objects])
        BY <2>2 DEF Assigned, Item
      <3> QED BY <3>1, <3>2
    <2> QED BY <2>1, <2>2, RaisedStores
  <1>2. Broken \in Places
    BY DEF Places
  <1> QED BY <1>1, <1>2, RaisedStores DEF PoolTypeOK

LEMMA PingedTypes ==
    ASSUME PoolTypeOK, NEW s \in Lifespans, Pinged(s)
    PROVE  PoolTypeOK'
  <1> DEFINE i == at[s].cluster
  <1>1. /\ i \in DOMAIN Clusters /\ <<s, i>> \in Objects /\ Clusters[i] \in Names
        /\ NextCluster(s, i) /\ UNCHANGED <<quiet, serial>>
        /\ Assigned(clients', Clusters[i], <<s, i>>) /\ names' = Append(names, Clusters[i])
    BY PingedStores
  <1> HIDE DEF i
  <1>2. names' \in Seq(Names)
    BY <1>1 DEF PoolTypeOK
  <1>3. clients' \in Seq([name : Names, client : Objects])
    BY <1>1 DEF Assigned, Item
  <1>5. CASE /\ i < Len(Clusters) /\ open' = open \union {<<s, i + 1>>}
             /\ Moves(s, Pinging(i + 1)) /\ UNCHANGED capella
    <2>1. i + 1 \in DOMAIN Clusters
      BY <1>1, <1>5, ClustersType
    <2>2. <<s, i + 1>> \in Objects /\ Pinging(i + 1) \in Places
      BY <2>1, ClustersType, ObjectType DEF Pinging, Places
    <2> QED BY <1>1, <1>2, <1>3, <1>5, <2>2 DEF PoolTypeOK, Moves
  <1>6. CASE /\ open' = IF HasCapella THEN open \union {<<s, 0>>} ELSE open
             /\ capella' = IF HasCapella THEN <<s, 0>> ELSE capella
             /\ Moves(s, Up)
    <2>1. Up \in Places /\ <<s, 0>> \in Objects
      BY ClustersType, ObjectType DEF Places
    <2> QED BY <1>1, <1>2, <1>3, <1>6, <2>1 DEF PoolTypeOK, Moves
  <1> QED BY <1>1, <1>5, <1>6 DEF NextCluster

LEMMA OtherTypes ==
    ASSUME PoolTypeOK, NEW s \in Lifespans,
           Enter(s) \/ CancelStartup(s) \/ Shutdown(s) \/ ClientClosed(s) \/ CapellaClosed(s)
           \/ CancelShutdown(s)
    PROVE  PoolTypeOK'
  <1>1. CASE Enter(s)
    <2>1. <<s, 1>> \in Objects /\ Pinging(1) \in Places
      BY ClustersType, ObjectType DEF Pinging, Places
    <2> QED BY <1>1, <2>1 DEF Enter, PoolTypeOK, Moves, held
  <1>2. CASE CancelStartup(s) \/ CancelShutdown(s) \/ CapellaClosed(s)
    <2>1. Done \in Places /\ Cancelled \in Places
      BY DEF Places
    <2> QED BY <1>2, <2>1 DEF CancelStartup, CancelShutdown, CapellaClosed, PoolTypeOK, Moves
  <1>3. CASE Shutdown(s)
    <2>1. Len(clients) \in Nat
      BY DEF PoolTypeOK
    <2>2. LoopFrom(s, 1, Len(clients)) /\ 1 \in Nat \ {0}
      BY <1>3 DEF Shutdown
    <2>3. at' \in [Lifespans -> Places] /\ names' \in Seq(Names) /\ clients' \in Seq(Item)
      BY <2>1, <2>2, LoopTypes
    <2>4. quiet' \in [Lifespans -> BOOLEAN]
      BY <1>3 DEF Shutdown
    <2> QED BY <1>3, <2>3, <2>4 DEF Shutdown, PoolTypeOK, Item
  <1>4. CASE ClientClosed(s)
    <2>1. at[s].pos + 1 \in Nat \ {0} /\ at[s].size \in Nat
      BY <1>4 DEF ClientClosed, PoolTypeOK, Places, Out, Up, Done, Cancelled, Broken
    <2> QED BY <1>4, <2>1, LoopTypes DEF ClientClosed, PoolTypeOK, Item
  <1> QED BY <1>1, <1>2, <1>3, <1>4

LEMMA PoolTypeNext == PoolTypeOK /\ [PoolNext]_poolVars => PoolTypeOK'
  <1>1. CASE UNCHANGED poolVars
    BY <1>1 DEF poolVars, held, PoolTypeOK
  <1> QED BY <1>1, PingedTypes, RaisedTypes, OtherTypes DEF PoolNext

\* What _names, _clients, _capella and each lifespan's place can be: a loop of shutdown
\* that goes on has an item of _clients to go on with.
THEOREM PoolTypes == PoolSpec => []PoolTypeOK
  BY PoolTypeInit, PoolTypeNext, PTL DEF PoolSpec

-------------------------------------------------------------------------------
\* The names and the clients are changed together, by every step.
LEMMA NamesInit == PoolInit => NamesAgree
  BY DEF PoolInit, NamesAgree

LEMMA NamesLoop ==
    ASSUME PoolTypeOK, NamesAgree, NEW s, NEW p, NEW n, LoopFrom(s, p, n)
    PROVE  NamesAgree'
  <1>1. CASE UNCHANGED <<names, clients>>
    BY <1>1 DEF NamesAgree
  <1>2. CASE Cleared
    <2>1. names' = << >> /\ clients' = << >>
      BY <1>2 DEF Cleared
    <2>2. DOMAIN names' = {} /\ DOMAIN clients' = {}
      BY <2>1
    <2> QED BY <2>2 DEF NamesAgree
  <1> QED BY <1>1, <1>2 DEF LoopFrom, AfterLoop

LEMMA NamesStored ==
    ASSUME PoolTypeOK, NamesAgree, NEW n \in Names, NEW c,
           Assigned(clients', n, c), names' = Append(names, n)
    PROVE  NamesAgree'
  <1>1. Assigned(clients', n, c) /\ names' = Append(names, n)
    OBVIOUS
  <1>2. /\ names \in Seq(Names) /\ clients \in Seq(Item)
        /\ DOMAIN clients = 1 .. Len(clients) /\ Len(clients) \in Nat
    BY DEF PoolTypeOK, Item
  <1>3. {names'[j] : j \in DOMAIN names'} = {names[j] : j \in DOMAIN names} \union {n}
    <2>1. /\ DOMAIN names' = 1 .. Len(names) + 1
          /\ DOMAIN names = 1 .. Len(names) /\ Len(names) \in Nat
      BY <1>1, <1>2
    <2>2. \A j \in DOMAIN names : names'[j] = names[j]
      BY <1>1, <1>2
    <2>3. names'[Len(names) + 1] = n
      BY <1>1, <1>2
    <2> QED BY <2>1, <2>2, <2>3
  <1>4. \A j \in DOMAIN clients : j \in DOMAIN clients' /\ clients'[j].name = clients[j].name
    BY <1>1 DEF Assigned, Entry
  <1>5. \E j \in DOMAIN clients' : clients'[j].name = n
    BY <1>1 DEF Assigned, Entry
  <1>6. \A j \in DOMAIN clients' :
           j \notin DOMAIN clients =>
              /\ j = Len(clients) + 1
              /\ clients'[j].name = n
              /\ \A k \in DOMAIN clients : clients[k].name # n
    BY <1>1 DEF Assigned, Entry
  <1>7. {clients'[j].name : j \in DOMAIN clients'}
           = {clients[j].name : j \in DOMAIN clients} \union {n}
    BY <1>4, <1>5, <1>6
  <1>8. \A j, k \in DOMAIN clients' : clients'[j].name = clients'[k].name => j = k
    BY <1>4, <1>6 DEF NamesAgree
  <1> QED BY <1>3, <1>7, <1>8 DEF NamesAgree

LEMMA NamesNext == PoolTypeOK /\ NamesAgree /\ [PoolNext]_poolVars => NamesAgree'
  <1> SUFFICES ASSUME PoolTypeOK, NamesAgree, [PoolNext]_poolVars PROVE NamesAgree'
    OBVIOUS
  <1>1. ASSUME NEW s \in Lifespans,
               Enter(s) \/ CancelStartup(s) \/ CapellaClosed(s) \/ CancelShutdown(s)
        PROVE  NamesAgree'
    BY <1>1 DEF Enter, CancelStartup, CapellaClosed, CancelShutdown, NamesAgree, held
  <1>2. ASSUME NEW s \in Lifespans, Shutdown(s) \/ ClientClosed(s) PROVE NamesAgree'
    BY <1>2, NamesLoop DEF Shutdown, ClientClosed
  <1>3. CASE UNCHANGED poolVars
    BY <1>3 DEF poolVars, held, NamesAgree
  <1>4. ASSUME NEW s \in Lifespans, Pinged(s) PROVE NamesAgree'
    BY <1>4, PingedStores, NamesStored
  <1>5. ASSUME NEW s \in Lifespans, StartupRaises(s) PROVE NamesAgree'
    <2>1. CASE UNCHANGED <<names, clients>>
      BY <2>1 DEF NamesAgree
    <2> QED BY <1>5, <2>1, RaisedStores, NamesStored
  <1> QED BY <1>1, <1>2, <1>3, <1>4, <1>5 DEF PoolNext

\* default() and the listing of clusters never name a cluster get() does not find,
\* whoever starts, leaves or is cancelled.
THEOREM NamesAlwaysAgree == PoolSpec => []NamesAgree
  BY PoolTypes, NamesInit, NamesNext, PTL DEF PoolSpec

-------------------------------------------------------------------------------
(* What a quiet lifespan is served *)

\* Whoever made o has got beyond it: o is never again the client being pinged.
Past(o) ==
    /\ at[o[1]].step # "out"
    /\ at[o[1]].step = "pinging" => o[2] \in 1 .. at[o[1]].cluster - 1

KeptPast ==
    /\ \A i \in DOMAIN clients : Past(clients[i].client)
    /\ capella # NoClient => Past(capella)
    /\ \A t \in Lifespans : ShuttingDown(t) => Past(at[t].client)

FreshPing == \A s \in Lifespans : at[s].step = "pinging" => <<s, at[s].cluster>> \in open

Using(s) == at[s].step \in {"pinging", "up"}

QuietAlone ==
    \A s, t \in Lifespans : quiet[s] /\ Using(s) => ~ShuttingDown(t)

ServedSoFar(s) ==
    /\ \A j \in DOMAIN Clusters :
          (at[s].step = "pinging" => j < at[s].cluster) => Reachable(Clusters[j])
    /\ at[s].step = "up" /\ HasCapella => capella \in open

QuietServed == \A s \in Lifespans : quiet[s] /\ Using(s) => ServedSoFar(s)

QuietInv == PoolTypeOK /\ KeptPast /\ FreshPing /\ QuietAlone /\ QuietServed

\* What the places of a lifespan carry.
LEMMA PlaceFields ==
    ASSUME PoolTypeOK, NEW s \in Lifespans
    PROVE  /\ at[s].step = "pinging" => at[s].cluster \in DOMAIN Clusters
           /\ ShuttingDown(s) => at[s].client \in Objects
           /\ at[s].step = "closing" => at[s].pos \in Nat \ {0} /\ at[s].size \in Nat
           /\ at[s].step = "up" <=> at[s] = Up
           /\ at[s].step = "out" <=> at[s] = Out
  BY DEF PoolTypeOK, Places, Out, Up, Done, Cancelled, Broken, ShuttingDown

\* What is past stays past.
LEMMA PastKept ==
    ASSUME PoolTypeOK, NEW s \in Lifespans, NEW to, at' = [at EXCEPT ![s] = to],
           to.step # "out",
           to.step = "pinging" => \/ at[s].step = "out"
                                  \/ at[s].step = "pinging" /\ to.cluster = at[s].cluster + 1,
           NEW o \in Objects, Past(o)
    PROVE  Past(o)'
  <1>1. o[1] \in Lifespans /\ o[2] \in Int
    BY ClustersType DEF Objects
  <1>2. at'[s] = to /\ \A t \in Lifespans \ {s} : at'[t] = at[t]
    BY DEF PoolTypeOK
  <1>3. CASE o[1] = s
    <2>1. at[s].step = "pinging" => at[s].cluster \in Int
      BY PlaceFields, ClustersType
    <2> QED BY <1>1, <1>2, <1>3, <2>1 DEF Past
  <1>4. CASE o[1] # s
    BY <1>1, <1>2, <1>4 DEF Past
  <1> QED BY <1>3, <1>4

\* A client that is replaced is replaced by one that is open.
LEMMA ReachableKept ==
    ASSUME NEW n, Reachable(n), open \subseteq open',
           \/ clients' = clients
           \/ \E m, c : Assigned(clients', m, c) /\ c \in open'
    PROVE  Reachable(n)'
  <1>1. CASE clients' = clients
    BY <1>1 DEF Reachable
  <1>2. ASSUME NEW m, NEW c, Assigned(clients', m, c), c \in open' PROVE Reachable(n)'
    BY <1>2 DEF Reachable, Assigned, Entry
  <1> QED BY <1>1, <1>2

\* At the start nobody uses the pool.
LEMMA QuietInit == PoolInit => QuietInv
  <1> SUFFICES ASSUME PoolInit PROVE QuietInv
    OBVIOUS
  <1>1. PoolTypeOK
    BY PoolTypeInit
  <1>2. \A s \in Lifespans : at[s].step = "out"
    BY DEF PoolInit, Out
  <1>3. clients = << >> /\ capella = NoClient
    BY DEF PoolInit
  <1> QED BY <1>1, <1>2, <1>3
          DEF QuietInv, KeptPast, FreshPing, QuietAlone, QuietServed, Using, ShuttingDown

\* What the pool holds are clients some lifespan made.
LEMMA HeldTypes ==
    ASSUME PoolTypeOK
    PROVE  /\ \A i \in DOMAIN clients : clients[i].client \in Objects
           /\ capella # NoClient => capella \in Objects
  <1>1. clients \in Seq(Item)
    BY DEF PoolTypeOK, Item
  <1>2. \A i \in DOMAIN clients : clients[i] \in Item
    BY <1>1
  <1> QED BY <1>2 DEF PoolTypeOK, Item

\* A lifespan moves to `to`, and what comes to be held is past.
LEMMA KeptPastKept ==
    ASSUME PoolTypeOK, KeptPast,
           NEW s \in Lifespans, NEW to, at' = [at EXCEPT ![s] = to],
           to.step # "out",
           to.step = "pinging" => \/ at[s].step = "out"
                                  \/ at[s].step = "pinging" /\ to.cluster = at[s].cluster + 1,
           to.step \in {"closing", "closing_capella"} => to.client \in Objects /\ Past(to.client),
           \/ clients' \in {clients, << >>}
           \/ \E n, c : Assigned(clients', n, c) /\ Past(c)',
           \/ capella' \in {capella, NoClient}
           \/ \E c : capella' = c /\ Past(c)'
    PROVE  KeptPast'
  <1> HIDE DEF Past
  <1>1. \A o \in Objects : Past(o) => Past(o)'
    BY PastKept
  <1>2. \A i \in DOMAIN clients' : Past(clients[i].client)'
    <2>1. \A i \in DOMAIN clients : clients[i].client \in Objects /\ Past(clients[i].client)
      BY HeldTypes DEF KeptPast
    <2>2. \A i \in DOMAIN clients : \A o \in Objects : o = clients[i].client => Past(o)'
      BY <1>1, <2>1
    <2>3. CASE clients' = clients
      BY <2>1, <2>2, <2>3
    <2>4. CASE clients' = << >>
      BY <2>4
    <2>5. ASSUME NEW n, NEW c, Assigned(clients', n, c), Past(c)'
          PROVE  \A i \in DOMAIN clients' : Past(clients[i].client)'
      <3> SUFFICES ASSUME NEW i \in DOMAIN clients', NEW o, o = clients'[i].client
                   PROVE  Past(o)'
        OBVIOUS
      <3>1. o = c \/ (i \in DOMAIN clients /\ o = clients[i].client)
        BY <2>5 DEF Assigned, Entry
      <3> QED BY <2>1, <2>2, <2>5, <3>1
    <2> QED BY <2>3, <2>4, <2>5
  <1>3. capella' # NoClient => Past(capella)'
    <2> SUFFICES ASSUME NEW o, o = capella', o # NoClient PROVE Past(o)'
      OBVIOUS
    <2> QED BY <1>1, HeldTypes DEF KeptPast
  <1>4. ASSUME NEW t \in Lifespans, ShuttingDown(t)' PROVE Past(at[t].client)'
    <2> SUFFICES ASSUME NEW o, o = at'[t].client PROVE Past(o)'
      OBVIOUS
    <2>1. at'[t] = IF t = s THEN to ELSE at[t]
      BY DEF PoolTypeOK
    <2>2. CASE t = s
      BY <1>1, <1>4, <2>1, <2>2 DEF ShuttingDown
    <2>3. CASE t # s
      BY <1>1, <1>4, <2>1, <2>3, PlaceFields DEF ShuttingDown, KeptPast
    <2> QED BY <2>2, <2>3
  <1> QED BY <1>2, <1>3, <1>4 DEF KeptPast

\* A lifespan that begins.
LEMMA QuietEnter ==
    ASSUME QuietInv, PoolTypeOK', NEW s \in Lifespans, Enter(s)
    PROVE  QuietInv'
  <1>1. /\ at' = [at EXCEPT ![s] = Pinging(1)] /\ at[s].step = "out"
        /\ Pinging(1).step = "pinging" /\ Pinging(1).cluster = 1
    BY DEF Enter, Moves, Out, Pinging
  <1>2. /\ clients' = clients /\ capella' = capella
        /\ open' = open \union {<<s, 1>>}
        /\ quiet' = [quiet EXCEPT ![s] = \A t \in Lifespans : ~ShuttingDown(t)]
    BY DEF Enter, held
  <1>3. at'[s] = Pinging(1) /\ \A t \in Lifespans \ {s} : at'[t] = at[t]
    BY <1>1 DEF QuietInv, PoolTypeOK
  <1>4. /\ \A t \in Lifespans \ {s} : quiet'[t] = quiet[t]
        /\ quiet'[s] => \A t \in Lifespans : ~ShuttingDown(t)
    BY <1>2 DEF QuietInv, PoolTypeOK
  <1>5. KeptPast'
    BY <1>1, <1>2, KeptPastKept DEF QuietInv
  <1>6. FreshPing'
    BY <1>1, <1>2, <1>3 DEF QuietInv, FreshPing
  <1>7. QuietAlone'
    BY <1>1, <1>3, <1>4 DEF QuietInv, QuietAlone, Using, ShuttingDown
  <1>8. \A n : Reachable(n) => Reachable(n)'
    BY <1>2, ReachableKept
  <1>9. QuietServed'
    <2> SUFFICES ASSUME NEW t \in Lifespans, quiet'[t], Using(t)' PROVE ServedSoFar(t)'
      BY DEF QuietServed
    <2>1. CASE t = s
      BY <1>1, <1>3, <2>1, ClustersType DEF ServedSoFar
    <2>2. CASE t # s
      <3>1. ServedSoFar(t)
        BY <1>3, <1>4, <2>2 DEF QuietInv, QuietServed, Using
      <3> QED BY <1>2, <1>3, <1>8, <2>2, <3>1 DEF ServedSoFar
    <2> QED BY <2>1, <2>2
  <1> QED BY <1>5, <1>6, <1>7, <1>9 DEF QuietInv

\* A client that is kept is open, and what was open stays so.
LEMMA QuietPinged ==
    ASSUME QuietInv, PoolTypeOK', NEW s \in Lifespans, Pinged(s)
    PROVE  QuietInv'
  <1>0. PICK i \in DOMAIN Clusters : at[s].cluster = i
    BY PingedStores DEF QuietInv
  <1> DEFINE n == Clusters[i]
  <1> DEFINE c == <<s, i>>
  <1>1. /\ at[s].step = "pinging" /\ n \in Names /\ c \in Objects
        /\ Assigned(clients', n, c) /\ NextCluster(s, i) /\ quiet' = quiet
    BY <1>0, PingedStores DEF QuietInv
  <1>2. c \in open
    BY <1>0, <1>1 DEF QuietInv, FreshPing
  <1>3. PICK to :
           /\ at' = [at EXCEPT ![s] = to]
           /\ open \subseteq open'
           /\ \/ /\ to = Pinging(i + 1) /\ i < Len(Clusters)
                 /\ capella' = capella /\ <<s, i + 1>> \in open'
              \/ /\ to = Up /\ i = Len(Clusters)
                 /\ capella' = IF HasCapella THEN <<s, 0>> ELSE capella
                 /\ HasCapella => <<s, 0>> \in open'
    BY <1>1 DEF NextCluster, Moves
  <1>4. /\ to.step \in {"pinging", "up"}
        /\ to.step = "pinging" => to = Pinging(i + 1) /\ to.cluster = i + 1 /\ i < Len(Clusters)
                                  /\ capella' = capella /\ <<s, i + 1>> \in open'
        /\ to.step = "up" => i = Len(Clusters) /\ capella' = (IF HasCapella THEN <<s, 0>> ELSE capella)
                             /\ (HasCapella => <<s, 0>> \in open')
    BY <1>3 DEF Pinging, Up
  <1> HIDE DEF n
  <1>5. at'[s] = to /\ \A t \in Lifespans \ {s} : at'[t] = at[t]
    BY <1>3 DEF QuietInv, PoolTypeOK
  <1>6. i \in 1 .. Len(Clusters) /\ Len(Clusters) \in Nat
    BY ClustersType
  <1>7. Past(c)'
    BY <1>4, <1>5, <1>6 DEF Past
  <1>8. capella' = capella \/ \E d : capella' = d /\ Past(d)'
    <2>1. to.step = "up" => Past(<<s, 0>>)'
      BY <1>5 DEF Past
    <2> QED BY <1>4, <2>1
  <1>9. KeptPast'
    <2>1. to.step # "out" /\ to.step \notin {"closing", "closing_capella"}
      BY <1>4
    <2>2. to.step = "pinging" => to.cluster = at[s].cluster + 1
      BY <1>0, <1>4
    <2>3. \E m, d : Assigned(clients', m, d) /\ Past(d)'
      BY <1>1, <1>7
    <2> HIDE DEF c, Past
    <2> QED BY <1>1, <1>3, <1>8, <2>1, <2>2, <2>3, KeptPastKept DEF QuietInv
  <1>10. FreshPing'
    BY <1>3, <1>4, <1>5 DEF QuietInv, FreshPing
  <1>11. QuietAlone'
    BY <1>1, <1>4, <1>5 DEF QuietInv, QuietAlone, Using, ShuttingDown
  <1>12. \A m : Reachable(m) => Reachable(m)'
    BY <1>1, <1>2, <1>3, ReachableKept
  <1>13. Reachable(n)'
    <2>1. \E j \in DOMAIN clients' : clients'[j] = Entry(n, c)
      BY <1>1 DEF Assigned
    <2> QED BY <1>2, <1>3, <2>1 DEF Reachable, Entry
  <1>14. QuietServed'
    <2> SUFFICES ASSUME NEW t \in Lifespans, quiet'[t], Using(t)' PROVE ServedSoFar(t)'
      BY DEF QuietServed
    <2>1. Using(t) /\ quiet[t] /\ ServedSoFar(t)
      BY <1>1, <1>5 DEF QuietInv, QuietServed, Using
    <2>2. CASE t = s
      <3>1. \A j \in DOMAIN Clusters : j < i => Reachable(Clusters[j])'
        BY <1>0, <1>1, <1>12, <2>1, <2>2 DEF ServedSoFar
      <3>2. \A j \in DOMAIN Clusters : j <= i => Reachable(Clusters[j])'
        BY <1>6, <1>13, <3>1, ClustersType DEF n
      <3>3. \A j \in DOMAIN Clusters : (to.step = "pinging" => j < to.cluster) => j <= i
        BY <1>4, <1>6, ClustersType
      <3>4. to.step = "up" /\ HasCapella => capella' \in open'
        BY <1>4
      <3> QED BY <1>5, <2>2, <3>2, <3>3, <3>4 DEF ServedSoFar
    <2>3. CASE t # s
      <3>1. \A j \in DOMAIN Clusters :
               (at'[t].step = "pinging" => j < at'[t].cluster) => Reachable(Clusters[j])'
        BY <1>5, <1>12, <2>1, <2>3 DEF ServedSoFar
      <3>2. at'[t].step = "up" /\ HasCapella => capella' \in open'
        BY <1>3, <1>4, <1>5, <2>1, <2>3 DEF ServedSoFar
      <3> QED BY <3>1, <3>2 DEF ServedSoFar
    <2> QED BY <2>2, <2>3
  <1> QED BY <1>9, <1>10, <1>11, <1>14 DEF QuietInv

\* A startup that is cancelled or raises takes nothing away.
LEMMA QuietStartupEnds ==
    ASSUME QuietInv, PoolTypeOK', NEW s \in Lifespans, CancelStartup(s) \/ StartupRaises(s)
    PROVE  QuietInv'
  <1>1. PICK to \in {Cancelled, Broken} : at' = [at EXCEPT ![s] = to]
    BY RaisedStores DEF CancelStartup, Moves, QuietInv
  <1>2. to.step \in {"cancelled", "broken"}
    BY DEF Cancelled, Broken
  <1>3. at'[s] = to /\ \A t \in Lifespans \ {s} : at'[t] = at[t]
    BY <1>1 DEF QuietInv, PoolTypeOK
  <1>4. capella' = capella /\ open' = open /\ quiet' = quiet
    BY RaisedStores DEF CancelStartup, QuietInv
  <1>5. \/ clients' = clients
        \/ \E n, c : Assigned(clients', n, c) /\ c \in open /\ Past(c)'
    <2>1. CASE CancelStartup(s)
      BY <2>1 DEF CancelStartup
    <2>2. CASE StartupRaises(s)
      <3>1. ASSUME NEW i \in DOMAIN Clusters, at[s].step = "pinging", at[s].cluster = i
            PROVE  <<s, i>> \in open
        BY <3>1 DEF QuietInv, FreshPing
      <3>2. \A i : Past(<<s, i>>)'
        BY <1>2, <1>3 DEF Past
      <3> QED BY <2>2, <3>1, <3>2, RaisedStores DEF QuietInv
    <2> QED BY <2>1, <2>2
  <1>6. KeptPast'
    <2> HIDE DEF Past
    <2> QED BY <1>1, <1>2, <1>4, <1>5, KeptPastKept DEF QuietInv
  <1>7. FreshPing' /\ QuietAlone'
    BY <1>2, <1>3, <1>4 DEF QuietInv, FreshPing, QuietAlone, Using, ShuttingDown
  <1>8. QuietServed'
    <2> SUFFICES ASSUME NEW t \in Lifespans, quiet'[t], Using(t)' PROVE ServedSoFar(t)'
      BY DEF QuietServed
    <2>1. t # s
      BY <1>2, <1>3 DEF Using
    <2>2. ServedSoFar(t)
      BY <1>3, <1>4, <2>1 DEF QuietInv, QuietServed, Using
    <2>3. \A m : Reachable(m) => Reachable(m)'
      BY <1>4, <1>5, ReachableKept
    <2> QED BY <1>3, <1>4, <2>1, <2>2, <2>3 DEF ServedSoFar
  <1> QED BY <1>6, <1>7, <1>8 DEF QuietInv

\* Where the loop of shutdown takes s.
LEMMA LoopPlace ==
    ASSUME PoolTypeOK, KeptPast, NEW s \in Lifespans, NEW p \in Nat \ {0}, NEW n \in Nat,
           LoopFrom(s, p, n)
    PROVE  \E to :
              /\ at' = [at EXCEPT ![s] = to]
              /\ to.step \in {"closing", "closing_capella", "done", "broken"}
              /\ to.step \in {"closing", "closing_capella"}
                    => to.client \in Objects /\ Past(to.client)
              /\ clients' \in {clients, << >>}
  <1>1. CASE Moves(s, Broken) /\ UNCHANGED <<names, clients>>
    <2>1. at' = [at EXCEPT ![s] = Broken] /\ clients' = clients
      BY <1>1 DEF Moves
    <2>2. Broken.step = "broken"
      BY DEF Broken
    <2>3. /\ Broken.step \in {"closing", "closing_capella", "done", "broken"}
          /\ Broken.step \in {"closing", "closing_capella"}
                => Broken.client \in Objects /\ Past(Broken.client)
          /\ clients' \in {clients, << >>}
      BY <2>1, <2>2
    <2> WITNESS Broken
    <2> QED BY <2>1, <2>3
  <1>2. CASE /\ Len(clients) = n /\ p <= n /\ Moves(s, Closing(p, n, clients[p].client))
             /\ UNCHANGED <<names, clients>>
    <2>1. p \in DOMAIN clients
      BY <1>2 DEF PoolTypeOK
    <2>2. clients[p].client \in Objects /\ Past(clients[p].client)
      BY <2>1, HeldTypes DEF KeptPast
    <2> QED BY <1>2, <2>2 DEF Moves, Closing
  <1>3. CASE AfterLoop(s)
    <2>1. clients' = << >>
      BY <1>3 DEF AfterLoop, Cleared
    <2>2. at' = [at EXCEPT ![s] = IF capella # NoClient THEN ClosingCapella(capella) ELSE Done]
      BY <1>3 DEF AfterLoop, Moves
    <2>3. CASE capella # NoClient
      <3>1. capella \in Objects /\ Past(capella)
        BY <2>3, HeldTypes DEF KeptPast
      <3>2. /\ ClosingCapella(capella).step = "closing_capella"
            /\ ClosingCapella(capella).client = capella
        BY DEF ClosingCapella
      <3> WITNESS ClosingCapella(capella)
      <3> QED BY <2>1, <2>2, <2>3, <3>1, <3>2
    <2>4. CASE capella = NoClient
      <3>1. Done.step = "done"
        BY DEF Done
      <3> WITNESS Done
      <3> QED BY <2>1, <2>2, <2>4, <3>1
    <2> QED BY <2>3, <2>4
  <1> QED BY <1>1, <1>2, <1>3 DEF LoopFrom

\* A step of a shutdown: nobody who is using the pool is quiet any more.
LEMMA QuietShuttingDown ==
    ASSUME QuietInv, PoolTypeOK', NEW s \in Lifespans,
           NEW to, at' = [at EXCEPT ![s] = to],
           to.step \in {"closing", "closing_capella", "done", "broken", "cancelled"},
           to.step \in {"closing", "closing_capella"} => to.client \in Objects /\ Past(to.client),
           clients' \in {clients, << >>}, capella' \in {capella, NoClient},
           \/ open' = open
           \/ ShuttingDown(s) /\ open' = open \ {at[s].client},
           \A t \in Lifespans \ {s} : quiet'[t] => quiet[t] /\ ShuttingDown(s)
    PROVE  QuietInv'
  <1>1. at'[s] = to /\ \A t \in Lifespans \ {s} : at'[t] = at[t]
    BY DEF QuietInv, PoolTypeOK
  <1>2. KeptPast'
    <2> HIDE DEF Past
    <2> QED BY KeptPastKept DEF QuietInv
  <1>3. FreshPing'
    <2> SUFFICES ASSUME NEW t \in Lifespans, at'[t].step = "pinging"
                 PROVE  <<t, at'[t].cluster>> \in open'
      BY DEF FreshPing
    <2>1. t # s /\ at'[t] = at[t]
      BY <1>1
    <2>2. <<t, at[t].cluster>> \in open
      BY <2>1 DEF QuietInv, FreshPing
    <2>3. ShuttingDown(s) => <<t, at[t].cluster>> # at[s].client
      <3> SUFFICES ASSUME ShuttingDown(s), <<t, at[t].cluster>> = at[s].client PROVE FALSE
        OBVIOUS
      <3>1. Past(<<t, at[t].cluster>>)
        BY DEF QuietInv, KeptPast
      <3>2. at[t].cluster \in Int
        BY <2>1, PlaceFields, ClustersType DEF QuietInv
      <3> QED BY <2>1, <3>1, <3>2 DEF Past
    <2> QED BY <2>1, <2>2, <2>3
  <1>4. \A t \in Lifespans : quiet'[t] => ~Using(t)'
    BY <1>1 DEF QuietInv, QuietAlone, Using
  <1>5. QuietAlone' /\ QuietServed'
    BY <1>4 DEF QuietAlone, QuietServed
  <1> QED BY <1>2, <1>3, <1>5 DEF QuietInv

\* Each step of shutdown is of that kind.
LEMMA QuietShutdown ==
    ASSUME QuietInv, PoolTypeOK', NEW s \in Lifespans,
           Shutdown(s) \/ ClientClosed(s) \/ CapellaClosed(s) \/ CancelShutdown(s)
    PROVE  QuietInv'
  <1> USE DEF QuietInv
  <1>1. CASE Shutdown(s)
    <2>1. Len(clients) \in Nat /\ 1 \in Nat \ {0}
      BY DEF PoolTypeOK
    <2>2. /\ LoopFrom(s, 1, Len(clients)) /\ capella' = capella /\ open' = open
          /\ \A t \in Lifespans : quiet'[t] => quiet[t] /\ t = s
      BY <1>1 DEF Shutdown
    <2> QED BY <2>1, <2>2, LoopPlace, QuietShuttingDown
  <1>2. CASE ClientClosed(s)
    <2>1. ShuttingDown(s) /\ at[s].pos + 1 \in Nat \ {0} /\ at[s].size \in Nat
      BY <1>2, PlaceFields DEF ClientClosed, ShuttingDown
    <2>2. /\ LoopFrom(s, at[s].pos + 1, at[s].size) /\ capella' = capella /\ quiet' = quiet
          /\ open' = open \ {at[s].client}
      BY <1>2 DEF ClientClosed
    <2> QED BY <2>1, <2>2, LoopPlace, QuietShuttingDown
  <1>3. CASE CapellaClosed(s) \/ CancelShutdown(s)
    <2>1. ShuttingDown(s) /\ open' = open \ {at[s].client} /\ clients' = clients /\ quiet' = quiet
      BY <1>3 DEF CapellaClosed, CancelShutdown, ShuttingDown
    <2>2. at' = [at EXCEPT ![s] = Done] \/ at' = [at EXCEPT ![s] = Cancelled]
      BY <1>3 DEF CapellaClosed, CancelShutdown, Moves
    <2>3. capella' \in {capella, NoClient}
      BY <1>3 DEF CapellaClosed, CancelShutdown
    <2>4. Done.step = "done" /\ Cancelled.step = "cancelled"
      BY DEF Done, Cancelled
    <2> QED BY <2>1, <2>2, <2>3, <2>4, QuietShuttingDown
  <1> QED BY <1>1, <1>2, <1>3

LEMMA QuietNext == QuietInv /\ [PoolNext]_poolVars => QuietInv'
  <1> SUFFICES ASSUME QuietInv, [PoolNext]_poolVars PROVE QuietInv'
    OBVIOUS
  <1>1. PoolTypeOK'
    BY PoolTypeNext DEF QuietInv
  <1>2. CASE UNCHANGED poolVars
    BY <1>1, <1>2 DEF poolVars, held, QuietInv, KeptPast, Past, FreshPing, QuietAlone, QuietServed,
                      ServedSoFar, Reachable, Using, ShuttingDown
  <1> QED BY <1>1, <1>2, QuietEnter, QuietPinged, QuietStartupEnds, QuietShutdown DEF PoolNext

\* However many sessions join, or are cancelled or fail while they start, a session finds
\* a working client for every cluster, and for Capella, until another one shuts the pool down.
THEOREM ServedTillShutdown == PoolSpec => []ServedWhileQuiet
  <1>1. QuietInv => ServedWhileQuiet
    <2> SUFFICES ASSUME QuietInv, NEW s \in Lifespans, at[s] = Up, quiet[s] PROVE Served(s)
      BY DEF ServedWhileQuiet
    <2>1. at[s].step = "up"
      BY DEF Up
    <2>2. ServedSoFar(s)
      BY <2>1 DEF QuietInv, QuietServed, Using
    <2> QED BY <2>1, <2>2 DEF ServedSoFar, Served, Names
  <1> QED BY <1>1, QuietInit, QuietNext, PTL DEF PoolSpec

-------------------------------------------------------------------------------
(* Lifespans that come one after another *)

Alone == \A s, t \in Lifespans : Inside(s) /\ Inside(t) => s = t

AsNew == names = << >> /\ clients = << >> /\ capella = NoClient /\ open = {}

\* The pool holds the clients of the first k clusters, all made by s.
HoldsFirst(s, k) ==
    /\ Len(names) = k /\ Len(clients) = k
    /\ \A j \in 1 .. k : names[j] = Clusters[j] /\ clients[j] = Entry(Clusters[j], <<s, j>>)

\* The clients s made for the clusters from i to j.
Made(s, i, j) == {<<s, k>> : k \in i .. j}

\* Everything s started is there, the clients before p closed.
HoldsAll(s, p) ==
    /\ HoldsFirst(s, Len(Clusters))
    /\ capella = IF HasCapella THEN <<s, 0>> ELSE NoClient
    /\ open = Made(s, p, Len(Clusters)) \union (IF HasCapella THEN {<<s, 0>>} ELSE {})

InTurn(s) ==
    /\ at[s].step = "pinging" =>
          /\ HoldsFirst(s, at[s].cluster - 1)
          /\ capella = NoClient
          /\ open = Made(s, 1, at[s].cluster)
    /\ at[s].step = "up" => HoldsAll(s, 1)
    /\ at[s].step = "closing" =>
          /\ at[s].size = Len(Clusters) /\ at[s].pos \in 1 .. Len(Clusters)
          /\ at[s].client = <<s, at[s].pos>>
          /\ HoldsAll(s, at[s].pos)
    /\ at[s].step = "closing_capella" =>
          /\ names = << >> /\ clients = << >>
          /\ at[s].client = <<s, 0>> /\ open = {<<s, 0>>}

TurnsTaken ==
    serial =>
       /\ Alone
       /\ (\A s \in Lifespans : ~Inside(s)) => AsNew
       /\ \A s \in Lifespans : InTurn(s)

TurnInv == PoolTypeOK /\ TurnsTaken

\* The pool of a process that has just begun.
LEMMA TurnInit == PoolInit => TurnInv
  <1> SUFFICES ASSUME PoolInit PROVE TurnInv
    OBVIOUS
  <1>1. \A s \in Lifespans : at[s].step = "out"
    BY DEF PoolInit, Out
  <1>2. \A s \in Lifespans : ~Inside(s)
    BY <1>1 DEF Inside
  <1>3. AsNew
    BY DEF PoolInit, AsNew
  <1> QED BY <1>1, <1>2, <1>3, PoolTypeInit DEF TurnInv, TurnsTaken, Alone, InTurn

\* While lifespans take turns, only the one inside matters: it is enough to look at where
\* it has got to.
LEMMA TurnGoesOn ==
    ASSUME TurnInv, NEW s \in Lifespans, NEW to, at' = [at EXCEPT ![s] = to],
           serial, \A t \in Lifespans \ {s} : ~Inside(t),
           to.step # "out",
           IF to.step \in {"pinging", "up", "closing", "closing_capella"}
           THEN InTurn(s)' ELSE AsNew'
    PROVE  TurnsTaken'
  <1>1. at'[s] = to /\ \A t \in Lifespans \ {s} : at'[t] = at[t]
    BY DEF TurnInv, PoolTypeOK
  <1>2. \A t \in Lifespans \ {s} : ~Inside(t)'
    BY <1>1 DEF Inside
  <1>3. \A t \in Lifespans : InTurn(t)'
    <2>1. \A t \in Lifespans \ {s} : InTurn(t)'
      BY <1>2 DEF Inside, InTurn
    <2>2. InTurn(s)'
      <3>1. CASE to.step \in {"pinging", "up", "closing", "closing_capella"}
        BY <3>1
      <3>2. CASE to.step \notin {"pinging", "up", "closing", "closing_capella"}
        BY <1>1, <3>2 DEF InTurn
      <3> QED BY <3>1, <3>2
    <2> QED BY <2>1, <2>2
  <1>4. Alone'
    BY <1>2 DEF Alone
  <1>5. (\A t \in Lifespans : ~Inside(t)') => AsNew'
    BY <1>1 DEF Inside
  <1> QED BY <1>3, <1>4, <1>5 DEF TurnsTaken

\* s is inside, so nobody else is.
LEMMA TurnOf ==
    ASSUME TurnInv, serial, NEW s \in Lifespans, Inside(s)
    PROVE  InTurn(s) /\ \A t \in Lifespans \ {s} : ~Inside(t)
  BY DEF TurnInv, TurnsTaken, Alone

\* A lifespan enters an empty pool.
LEMMA TurnEnter ==
    ASSUME TurnInv, NEW s \in Lifespans, Enter(s), serial'
    PROVE  TurnsTaken'
  <1>1. /\ at' = [at EXCEPT ![s] = Pinging(1)] /\ UNCHANGED held
        /\ open' = open \union {<<s, 1>>}
        /\ serial /\ \A t \in Lifespans : ~Inside(t)
    BY DEF Enter, Moves
  <1>2. AsNew
    BY <1>1 DEF TurnInv, TurnsTaken
  <1>3. Pinging(1).step = "pinging" /\ Pinging(1).cluster = 1
    BY DEF Pinging
  <1>4. at'[s] = Pinging(1)
    BY <1>1 DEF TurnInv, PoolTypeOK
  <1>5. open' = Made(s, 1, 1)
    BY <1>1, <1>2 DEF AsNew, Made
  <1>6. HoldsFirst(s, 0)' /\ capella' = NoClient
    BY <1>1, <1>2 DEF AsNew, HoldsFirst, held
  <1>7. InTurn(s)'
    BY <1>3, <1>4, <1>5, <1>6 DEF InTurn
  <1> QED BY <1>1, <1>3, <1>7, TurnGoesOn

\* Each name is new, so each client comes last.
LEMMA TurnPinged ==
    ASSUME DistinctNames, TurnInv, PoolTypeOK', NEW s \in Lifespans, Pinged(s), serial'
    PROVE  TurnsTaken'
  <1>0. PICK i \in DOMAIN Clusters : at[s].cluster = i
    BY PingedStores DEF TurnInv
  <1>1. /\ at[s].step = "pinging" /\ Clusters[i] \in Names /\ <<s, i>> \in Objects
        /\ Assigned(clients', Clusters[i], <<s, i>>) /\ names' = Append(names, Clusters[i])
        /\ NextCluster(s, i) /\ serial
    BY <1>0, PingedStores DEF TurnInv
  <1>2. InTurn(s) /\ \A t \in Lifespans \ {s} : ~Inside(t)
    BY <1>1, TurnOf DEF Inside
  <1>3. HoldsFirst(s, i - 1) /\ capella = NoClient /\ open = Made(s, 1, i)
    BY <1>0, <1>1, <1>2 DEF InTurn
  <1>4. i \in 1 .. Len(Clusters) /\ Len(Clusters) \in Nat /\ DOMAIN Clusters = 1 .. Len(Clusters)
    BY ClustersType
  <1>5. names \in Seq(Names) /\ clients \in Seq(Item)
    BY DEF TurnInv, PoolTypeOK, Item
  <1>6. \A j \in DOMAIN clients : clients[j].name # Clusters[i]
    <2>1. DOMAIN clients = 1 .. i - 1
      BY <1>3, <1>5 DEF HoldsFirst
    <2>2. \A j \in 1 .. i - 1 : clients[j].name = Clusters[j]
      BY <1>3 DEF HoldsFirst, Entry
    <2> QED BY <1>4, <2>1, <2>2 DEF DistinctNames
  <1>7. clients' = Append(clients, Entry(Clusters[i], <<s, i>>))
    BY <1>1, <1>6 DEF Assigned
  <1>8. HoldsFirst(s, i)'
    <2>1. Len(names) = i - 1 /\ Len(clients) = i - 1
      BY <1>3 DEF HoldsFirst
    <2>2. Entry(Clusters[i], <<s, i>>) \in Item
      BY <1>1 DEF Entry, Item
    <2>3. Len(names') = i /\ names'[i] = Clusters[i] /\ \A j \in 1 .. i - 1 : names'[j] = names[j]
      BY <1>1, <1>4, <1>5, <2>1
    <2>4. /\ Len(clients') = i /\ clients'[i] = Entry(Clusters[i], <<s, i>>)
          /\ \A j \in 1 .. i - 1 : clients'[j] = clients[j]
      BY <1>4, <1>5, <1>7, <2>1, <2>2
    <2>5. \A j \in 1 .. i : j = i \/ j \in 1 .. i - 1
      BY <1>4
    <2> QED BY <1>3, <2>3, <2>4, <2>5 DEF HoldsFirst
  <1>9. CASE /\ i < Len(Clusters) /\ open' = open \union {<<s, i + 1>>}
             /\ Moves(s, Pinging(i + 1)) /\ UNCHANGED capella
    <2>1. Pinging(i + 1).step = "pinging" /\ Pinging(i + 1).cluster = i + 1
      BY DEF Pinging
    <2>2. at' = [at EXCEPT ![s] = Pinging(i + 1)]
      BY <1>9 DEF Moves
    <2>3. at'[s] = Pinging(i + 1)
      BY <2>2 DEF TurnInv, PoolTypeOK
    <2>4. open' = Made(s, 1, i + 1)
      <3>1. 1 .. i + 1 = (1 .. i) \union {i + 1}
        BY <1>4
      <3> QED BY <1>3, <1>9, <3>1 DEF Made
    <2>5. HoldsFirst(s, (i + 1) - 1)'
      BY <1>4, <1>8
    <2>6. InTurn(s)'
      BY <1>3, <1>9, <2>1, <2>3, <2>4, <2>5 DEF InTurn
    <2> QED BY <1>1, <1>2, <2>1, <2>2, <2>6, TurnGoesOn
  <1>10. CASE /\ i = Len(Clusters)
              /\ open' = IF HasCapella THEN open \union {<<s, 0>>} ELSE open
              /\ capella' = IF HasCapella THEN <<s, 0>> ELSE capella
              /\ Moves(s, Up)
    <2>1. Up.step = "up"
      BY DEF Up
    <2>2. at' = [at EXCEPT ![s] = Up]
      BY <1>10 DEF Moves
    <2>3. at'[s] = Up
      BY <2>2 DEF TurnInv, PoolTypeOK
    <2>4. HoldsAll(s, 1)'
      BY <1>3, <1>8, <1>10 DEF HoldsAll
    <2>5. InTurn(s)'
      BY <2>1, <2>3, <2>4 DEF InTurn
    <2> QED BY <1>1, <1>2, <2>1, <2>2, <2>5, TurnGoesOn
  <1> QED BY <1>1, <1>9, <1>10 DEF NextCluster

\* The loop over _clients finds them all, for nobody else adds one.
LEMMA TurnLoop ==
    ASSUME TurnInv, serial, NEW s \in Lifespans, Inside(s), NEW p \in 1 .. Len(Clusters) + 1,
           HoldsFirst(s, Len(Clusters)),
           capella = IF HasCapella THEN <<s, 0>> ELSE NoClient,
           capella' = capella,
           open' = Made(s, p, Len(Clusters)) \union (IF HasCapella THEN {<<s, 0>>} ELSE {}),
           LoopFrom(s, p, Len(Clusters))
    PROVE  TurnsTaken'
  <1> DEFINE N == Len(Clusters)
  <1>1. Len(clients) = N /\ N \in Nat
    BY ClustersType DEF HoldsFirst
  <1>2. \A t \in Lifespans \ {s} : ~Inside(t)
    BY TurnOf
  <1> HIDE DEF N
  <1>3. CASE p <= N /\ Moves(s, Closing(p, N, clients[p].client)) /\ UNCHANGED <<names, clients>>
    <2>6. p \in 1 .. N
      BY <1>1, <1>3 DEF N
    <2>1. clients[p].client = <<s, p>>
      <3>1. clients[p] = Entry(Clusters[p], <<s, p>>)
        BY <2>6 DEF HoldsFirst, N
      <3>2. Entry(Clusters[p], <<s, p>>).client = <<s, p>>
        BY DEF Entry
      <3> QED BY <3>1, <3>2
    <2> DEFINE to == Closing(p, N, <<s, p>>)
    <2>2. to.step = "closing" /\ to.pos = p /\ to.size = N /\ to.client = <<s, p>>
      BY DEF Closing
    <2>3. at' = [at EXCEPT ![s] = to]
      BY <1>3, <2>1 DEF Moves
    <2> HIDE DEF to
    <2>4. at'[s] = to
      BY <2>3 DEF TurnInv, PoolTypeOK
    <2>5. HoldsAll(s, p)'
      BY <1>3 DEF HoldsAll, HoldsFirst
    <2>7. InTurn(s)'
      BY <2>2, <2>4, <2>5, <2>6 DEF InTurn, N
    <2> QED BY <1>2, <2>2, <2>3, <2>7, TurnGoesOn
  <1>4. CASE p > N /\ AfterLoop(s)
    <2>1. Made(s, p, N) = {}
      BY <1>1, <1>4 DEF Made
    <2>2. names' = << >> /\ clients' = << >>
      BY <1>4 DEF AfterLoop, Cleared
    <2>3. CASE HasCapella
      <3> DEFINE to == ClosingCapella(<<s, 0>>)
      <3>1. capella = <<s, 0>> /\ open' = {<<s, 0>>}
        BY <2>1, <2>3 DEF N
      <3>2. capella # NoClient
        BY <3>1 DEF NoClient
      <3>3. at' = [at EXCEPT ![s] = to]
        BY <1>4, <3>1, <3>2 DEF AfterLoop, Moves
      <3>4. to.step = "closing_capella" /\ to.client = <<s, 0>>
        BY DEF ClosingCapella
      <3> HIDE DEF to
      <3>5. at'[s] = to
        BY <3>3 DEF TurnInv, PoolTypeOK
      <3>6. InTurn(s)'
        BY <2>2, <3>1, <3>4, <3>5 DEF InTurn
      <3> QED BY <1>2, <3>3, <3>4, <3>6, TurnGoesOn
    <2>4. CASE ~HasCapella
      <3>1. capella' = NoClient /\ open' = {}
        BY <2>1, <2>4 DEF N
      <3>2. at' = [at EXCEPT ![s] = Done]
        BY <1>4, <3>1 DEF AfterLoop, Moves
      <3>3. Done.step = "done"
        BY DEF Done
      <3>4. AsNew'
        BY <2>2, <3>1 DEF AsNew
      <3> QED BY <1>2, <3>2, <3>3, <3>4, TurnGoesOn
    <2> QED BY <2>3, <2>4
  <1> QED BY <1>1, <1>3, <1>4 DEF LoopFrom, N

LEMMA TurnShutdown ==
    ASSUME TurnInv, NEW s \in Lifespans, Shutdown(s), serial'
    PROVE  TurnsTaken'
  <1>1. /\ at[s].step = "up" /\ LoopFrom(s, 1, Len(clients))
        /\ capella' = capella /\ open' = open /\ serial
    BY DEF Shutdown, Up
  <1>2. Inside(s) /\ HoldsAll(s, 1)
    BY <1>1, TurnOf DEF Inside, InTurn
  <1>3. Len(clients) = Len(Clusters) /\ 1 \in 1 .. Len(Clusters) + 1
    BY <1>2, ClustersType DEF HoldsAll, HoldsFirst
  <1> QED BY <1>1, <1>2, <1>3, TurnLoop DEF HoldsAll

LEMMA TurnClientClosed ==
    ASSUME TurnInv, NEW s \in Lifespans, ClientClosed(s), serial'
    PROVE  TurnsTaken'
  <1>0. at[s].step = "closing" /\ Inside(s) /\ serial /\ capella' = capella
    BY DEF ClientClosed, Inside
  <1>1. /\ at[s].size = Len(Clusters) /\ at[s].pos \in 1 .. Len(Clusters)
        /\ at[s].client = <<s, at[s].pos>>
        /\ HoldsAll(s, at[s].pos)
    BY <1>0, TurnOf DEF InTurn
  <1>2. PICK p \in 1 .. Len(Clusters) : at[s].pos = p
    BY <1>1
  <1>3. LoopFrom(s, p + 1, Len(Clusters)) /\ open' = open \ {<<s, p>>}
    BY <1>1, <1>2 DEF ClientClosed
  <1>4. p + 1 \in 1 .. Len(Clusters) + 1
    BY <1>2, ClustersType
  <1>5. open' = Made(s, p + 1, Len(Clusters)) \union (IF HasCapella THEN {<<s, 0>>} ELSE {})
    <2>1. /\ p .. Len(Clusters) = {p} \union (p + 1 .. Len(Clusters))
          /\ p \notin p + 1 .. Len(Clusters)
      BY <1>2, ClustersType
    <2>2. Made(s, p, Len(Clusters)) \ {<<s, p>>} = Made(s, p + 1, Len(Clusters))
      BY <2>1 DEF Made
    <2>3. <<s, p>> # <<s, 0>>
      BY <1>2, ClustersType
    <2>4. open = Made(s, p, Len(Clusters)) \union (IF HasCapella THEN {<<s, 0>>} ELSE {})
      BY <1>1, <1>2 DEF HoldsAll
    <2> QED BY <1>3, <2>2, <2>3, <2>4
  <1> QED BY <1>0, <1>1, <1>3, <1>4, <1>5, TurnLoop DEF HoldsAll

LEMMA TurnCapellaClosed ==
    ASSUME TurnInv, NEW s \in Lifespans, CapellaClosed(s), serial'
    PROVE  TurnsTaken'
  <1>1. /\ at[s].step = "closing_capella" /\ Inside(s) /\ serial
        /\ at' = [at EXCEPT ![s] = Done] /\ Done.step = "done"
        /\ open' = open \ {at[s].client} /\ capella' = NoClient /\ UNCHANGED <<names, clients>>
    BY DEF CapellaClosed, Inside, Moves, Done
  <1>2. InTurn(s) /\ \A t \in Lifespans \ {s} : ~Inside(t)
    BY <1>1, TurnOf
  <1>3. AsNew'
    BY <1>1, <1>2 DEF InTurn, AsNew
  <1> QED BY <1>1, <1>2, <1>3, TurnGoesOn

LEMMA TurnNext == DistinctNames /\ TurnInv /\ [PoolNext]_poolVars => TurnInv'
  <1> SUFFICES ASSUME DistinctNames, TurnInv, [PoolNext]_poolVars PROVE TurnInv'
    OBVIOUS
  <1>1. PoolTypeOK'
    BY PoolTypeNext DEF TurnInv
  <1>2. CASE UNCHANGED poolVars
    BY <1>1, <1>2 DEF poolVars, held, TurnInv, TurnsTaken, Alone, AsNew, InTurn, Inside, HoldsAll,
                      HoldsFirst
  <1>3. ASSUME NEW s \in Lifespans, CancelStartup(s) \/ StartupRaises(s) \/ CancelShutdown(s)
        PROVE  TurnsTaken'
    BY <1>3 DEF CancelStartup, StartupRaises, CancelShutdown, TurnsTaken
  <1>4. CASE ~serial'
    BY <1>1, <1>4 DEF TurnInv, TurnsTaken
  <1>5. CASE serial' /\ PoolNext
    BY <1>1, <1>3, <1>5, TurnEnter, TurnPinged, TurnShutdown, TurnClientClosed, TurnCapellaClosed
       DEF PoolNext, TurnInv
  <1> QED BY <1>2, <1>4, <1>5

\* While sessions come one after another and none is cancelled, each finds the first
\* configured cluster as its default and leaves the pool as new, every client closed. With
\* two clusters of one name the client of the first is lost: hence DistinctNames.
THEOREM CleanBetweenTurns == ASSUME DistinctNames PROVE PoolSpec => []CleanBetween
  <1>1. TurnInv => CleanBetween
    <2> SUFFICES ASSUME TurnInv, serial PROVE CleanBetween
      BY DEF CleanBetween
    <2>1. ASSUME NEW s \in Lifespans, at[s] = Up PROVE names[1] = Clusters[1]
      <3>1. at[s].step = "up" /\ Inside(s)
        BY <2>1 DEF Up, Inside
      <3>2. HoldsFirst(s, Len(Clusters))
        BY <3>1, TurnOf DEF InTurn, HoldsAll
      <3>3. 1 \in 1 .. Len(Clusters)
        BY ClustersType
      <3> QED BY <3>2, <3>3 DEF HoldsFirst
    <2>2. (\A s \in Lifespans : ~Inside(s)) => AsNew
      BY DEF TurnInv, TurnsTaken
    <2> QED BY <2>1, <2>2 DEF CleanBetween, AsNew
  <1>2. TurnInv /\ [PoolNext]_poolVars => TurnInv'
    BY TurnNext
  <1> QED BY <1>1, <1>2, TurnInit, PTL DEF PoolSpec

-------------------------------------------------------------------------------
(* The process: the inductive invariant, what each phase implies. *)

\* Which command is in which phase, and whether its servers exist.
PhaseInv ==
    /\ phase \in {"pinging", "calling", "closing"} => cmd = "call_offline"
    /\ phase = "remote" => cmd = "call_remote"
    /\ phase \in {"serving", "leaving"} => cmd \in {"server", "gui_only"}
    /\ phase \notin {"serving", "leaving", "exited"} => \A t \in Servers : task[t] = "none"
    /\ cmd \notin {"server", "gui_only"} => \A t \in Servers : task[t] = "none"
    /\ phase = "exited" => AllEnded

\* The GUI's pool is up exactly while its server is, and was made from clusters whose
\* names validate_config has compared.
GuiPoolInv ==
    /\ pool["gui"] = "opening" <=> task["gui"] = "starting"
    /\ pool["gui"] = "open" <=> task["gui"] \in {"serving", "closing"}
    /\ pool["gui"] # "leaking"
    /\ phase \in {"serving", "leaving"} => env.clusters = "distinct"

\* The command line's pool follows its phases.
CliPoolInv ==
    /\ phase \in {"begun", "remote", "serving", "leaving"} => pool["cli"] = "none"
    /\ phase = "pinging" => pool["cli"] = "opening"
    /\ phase = "exited" => pool["cli"] \in {"none", "shut", "abandoned", "leaking"}
    /\ pool["cli"] = "leaking" => env.clusters = "duplicate"

\* The code that is already known while the pool is being closed.
CodeInv ==
    /\ phase \in {"begun", "pinging", "calling", "remote"} => tool = "unsent"
    /\ phase = "closing" => /\ code = 2 => tool = "unsent"
                            /\ code = 0 => tool = "done"
                            /\ code = 1 => tool = "failed"

\* Nobody leaves before there is a reason to, and no reason ever goes away.
LeaveInv ==
    phase = "leaving" => Raised \/ AllEnded \/ \E t \in Servers : task[t] = "exits"

IInv ==
    TypeOK /\ PhaseInv /\ GuiPoolInv /\ CliPoolInv /\ CodeInv /\ LeaveInv /\ ExitTellsOutcome

USE DEF Servers

LEMMA InitInv == Init => IInv
  <1> SUFFICES ASSUME Init PROVE IInv
    OBVIOUS
  <1> USE DEF Init
  <1>1. TypeOK
    <2>1. /\ task \in [Servers -> TaskStates]
          /\ pool \in [{"gui", "cli"} -> PoolStates]
      BY DEF TaskStates, PoolStates
    <2>2. code \in Codes /\ phase \in Phases
      BY DEF Phases, Codes
    <2>3. asked \in BOOLEAN
      OBVIOUS
    <2>4. tool \in {"unsent", "done", "failed"}
      OBVIOUS
    <2> QED BY <2>1, <2>2, <2>3, <2>4 DEF TypeOK
  <1>2. PhaseInv /\ GuiPoolInv /\ CliPoolInv
    BY DEF PhaseInv, GuiPoolInv, CliPoolInv
  <1>3. CodeInv /\ LeaveInv /\ ExitTellsOutcome
    BY DEF CodeInv, LeaveInv, ExitTellsOutcome
  <1> QED BY <1>1, <1>2, <1>3 DEF IInv

\* A configuration that passes names every cluster once.
LEMMA ValidNames == Valid => env.clusters = "distinct"
  BY DEF Valid, Errors, ClusterErrors

\* The command line's own steps.
LEMMA CommandInv ==
    ASSUME IInv,
           StartTools \/ OpenPool \/ Resolve \/ ToolEnds \/ ClosePool \/ Interrupt
           \/ RemoteFails \/ RemoteAnswers
    PROVE  IInv'
  <1> USE DEF IInv, TypeOK, Phases, PoolStates, PhaseInv, GuiPoolInv, CliPoolInv, CodeInv,
              LeaveInv, ExitTellsOutcome, AllEnded, Raised, Running, Exit, PrintAndExit, Pool,
              Codes, Interrupted, Unflushed
  <1>1. CASE StartTools
    BY <1>1 DEF StartTools
  <1>2. CASE OpenPool
    BY <1>2 DEF OpenPool
  <1>3. CASE Resolve
    BY <1>3 DEF Resolve
  <1>4. CASE ToolEnds
    BY <1>4 DEF ToolEnds, ExitCode
  <1>5. CASE ClosePool
    BY <1>5 DEF ClosePool, ShutState
  <1>6. CASE Interrupt
    BY <1>6 DEF Interrupt
  <1>7. CASE RemoteFails
    BY <1>7 DEF RemoteFails
  <1>8. CASE RemoteAnswers
    BY <1>8 DEF RemoteAnswers
  <1> QED BY <1>1, <1>2, <1>3, <1>4, <1>5, <1>6, <1>7, <1>8

\* main refuses, ends, or begins its servers.
LEMMA StartInv == ASSUME IInv, StartServers PROVE IInv'
  <1> USE DEF StartServers, Refuse, Exit
  <1>1. /\ cmd \in {"server", "gui_only", "check", "check_gui_only"}
        /\ \A t \in Servers : task[t] = "none"
        /\ pool["cli"] = "none" /\ tool = "unsent"
        /\ UNCHANGED <<cmd, env, pool, tool, asked>>
    BY DEF IInv, PhaseInv, CliPoolInv, CodeInv
  <1>2. \/ phase' = "exited" /\ task' = task
        \/ /\ phase' = "serving" /\ Valid
           /\ cmd \in {"server", "gui_only"}
           /\ task' = [t \in Servers |->
                         IF \/ t = "mcp" /\ cmd = "server"
                            \/ t = "gui" /\ (cmd = "gui_only" \/ env.gui)
                         THEN "begun" ELSE "none"]
    OBVIOUS
  <1>3. code' \in Codes
    BY DEF IInv, TypeOK, Codes
  <1>4. task' \in [Servers -> {"none", "begun"}]
    BY <1>1, <1>2 DEF IInv, TypeOK
  <1>5. TypeOK'
    BY <1>1, <1>2, <1>3, <1>4 DEF IInv, TypeOK, Phases, TaskStates
  <1>6. PhaseInv'
    BY <1>1, <1>2 DEF PhaseInv, AllEnded, Running
  <1>7. GuiPoolInv'
    BY <1>1, <1>2, <1>4, ValidNames DEF IInv, GuiPoolInv
  <1>8. CliPoolInv' /\ CodeInv' /\ LeaveInv' /\ ExitTellsOutcome'
    BY <1>1, <1>2 DEF IInv, CliPoolInv, CodeInv, LeaveInv, ExitTellsOutcome
  <1> QED BY <1>5, <1>6, <1>7, <1>8 DEF IInv

\* The steps of the two servers.
LEMMA ServerInv ==
    ASSUME IInv, NEW t \in Servers,
           Build(t) \/ Started(t) \/ Stops(t) \/ Fails(t) \/ Closed(t) \/ Cancel(t)
    PROVE  IInv'
  <1> USE DEF IInv, TypeOK, Phases, TaskStates, PoolStates, PhaseInv, GuiPoolInv, CliPoolInv,
              CodeInv, LeaveInv, ExitTellsOutcome, AllEnded, Raised, Running, Pool, GuiPool, Goes,
              Codes
  <1>1. CASE Build(t)
    BY <1>1 DEF Build
  <1>2. CASE Started(t)
    BY <1>2 DEF Started, ShutState
  <1>3. CASE Stops(t)
    BY <1>3 DEF Stops
  <1>4. CASE Fails(t)
    BY <1>4 DEF Fails, ShutState
  <1>5. CASE Closed(t)
    BY <1>5 DEF Closed, ShutState
  <1>6. CASE Cancel(t)
    BY <1>6 DEF Cancel
  <1> QED BY <1>1, <1>2, <1>3, <1>4, <1>5, <1>6

\* The steps of the process.
LEMMA ProcessInv ==
    ASSUME IInv, Signal \/ Wait \/ Leave \/ UNCHANGED vars
    PROVE  IInv'
  <1> USE DEF IInv, TypeOK, Phases, PhaseInv, GuiPoolInv, CliPoolInv, CodeInv, LeaveInv,
              ExitTellsOutcome, AllEnded, Raised, Running, Codes, Interrupted, Unflushed
  <1>1. CASE Signal
    BY <1>1 DEF Signal
  <1>2. CASE Wait
    BY <1>2 DEF Wait
  <1>3. CASE Leave
    BY <1>3 DEF Leave
  <1>4. CASE UNCHANGED vars
    BY <1>4 DEF vars
  <1> QED BY <1>1, <1>2, <1>3, <1>4

LEMMA NextInv == IInv /\ [Next]_vars => IInv'
  BY StartInv, CommandInv, ServerInv, ProcessInv DEF Next, WindUp

LEMMA SpecInv == Spec => []IInv
  BY InitInv, NextInv, PTL DEF Spec

-------------------------------------------------------------------------------
(* Theorems *)

\* Every variable keeps its type.
THEOREM TypeCorrect == Spec => []TypeOK
  <1>1. IInv => TypeOK
    BY DEF IInv
  <1> QED BY SpecInv, <1>1, PTL

\* What an exit code of the command line tells of the tool is so.
THEOREM ExitCodes == Spec => []ExitTellsOutcome
  <1>1. IInv => ExitTellsOutcome
    BY DEF IInv
  <1> QED BY SpecInv, <1>1, PTL

\* No process ends with a pool of the GUI that is up or has lost a client, and the
\* command line loses clients only to a name that is configured twice.
THEOREM Pools == Spec => []PoolsShut
  <1>1. IInv => PoolsShut
    <2> SUFFICES ASSUME IInv, phase = "exited" PROVE PoolsShut
      BY DEF PoolsShut
    <2>1. task["gui"] \notin {"starting", "serving", "closing"}
      BY DEF IInv, PhaseInv, AllEnded, Running
    <2>2. pool["gui"] \in {"none", "shut", "abandoned"}
      BY <2>1 DEF IInv, TypeOK, PoolStates, GuiPoolInv
    <2> QED BY <2>2 DEF IInv, CliPoolInv, PoolsShut
  <1> QED BY SpecInv, <1>1, PTL

\* A server that is up is stopped on a signal, after an exception of either server, or
\* when uvicorn gives up, and for no other reason.
THEOREM Reasons == Spec => StopsForAReason
  <1>1. ASSUME IInv, [Next]_vars,
               NEW t \in Servers, task[t] = "serving", task'[t] = "closing"
        PROVE  asked \/ Raised \/ \E u \in Servers : task[u] = "exits"
    <2>1. task \in [Servers -> TaskStates] /\ ~AllEnded
      BY <1>1 DEF IInv, TypeOK, AllEnded, Running
    <2>2. ASSUME NEW u \in Servers, Build(u) \/ Started(u) \/ Fails(u) \/ Closed(u)
          PROVE  FALSE
      BY <1>1, <2>1, <2>2 DEF Build, Started, Fails, Closed, Goes
    <2>3. ASSUME NEW u \in Servers, Stops(u) PROVE asked
      BY <2>3 DEF Stops
    <2>4. ASSUME NEW u \in Servers, Cancel(u)
          PROVE  Raised \/ \E v \in Servers : task[v] = "exits"
      BY <1>1, <2>1, <2>4 DEF Cancel, IInv, LeaveInv
    <2>5. ASSUME StartServers \/ StartTools \/ OpenPool \/ Resolve \/ ToolEnds \/ ClosePool
                 \/ Interrupt \/ RemoteFails \/ RemoteAnswers \/ Signal \/ Wait \/ Leave
                 \/ UNCHANGED vars
          PROVE  FALSE
      <3>1. StartServers => phase = "begun" /\ \A u \in Servers : task[u] = "none"
        BY <1>1 DEF StartServers, IInv, PhaseInv
      <3> QED BY <1>1, <2>5, <3>1
              DEF StartTools, OpenPool, Resolve, ToolEnds, ClosePool, Interrupt, RemoteFails,
                  RemoteAnswers, Signal, Wait, Leave, vars
    <2> QED BY <1>1, <2>2, <2>3, <2>4, <2>5 DEF Next, WindUp
  <1>2. IInv /\ [Next]_vars
           => [\A t \in Servers :
                  task[t] = "serving" /\ task'[t] = "closing"
                      => asked \/ Raised \/ \E u \in Servers : task[u] = "exits"]_vars
    BY <1>1
  <1> QED BY SpecInv, <1>2, PTL DEF Spec, StopsForAReason
===============================================================================
