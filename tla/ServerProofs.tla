---------------------------- MODULE ServerProofs ----------------------------
(* Proofs about Server, for every set of hosts and ports and               *)
(* configurations of any length.                                           *)
EXTENDS Server, FiniteSetTheorems, SequenceTheorems, WellFoundedInduction, TLAPS

HostTable == UNION {[S -> Int] : S \in SUBSET Host}
Entry == [port : Port, host_config_table : HostTable, sockfd : Int, block : Int]
Socket == [port : Port, listening : BOOLEAN]

Types ==
    /\ config \in Seq(Id)
    /\ i \in Nat \ {0}
    /\ port_table \in Seq(Entry)
    /\ IsFiniteSet(DOMAIN sockets)
    /\ sockets \in [DOMAIN sockets -> Socket]
    /\ code \in Int

(* Before the loops over the configuration, between them and the sockets,  *)
(* and after: what is there and what is not yet.                           *)
Stages ==
    /\ pc \in {"options", "create"} =>
         heap = {} /\ unnoticed = {} /\ code = 0
    /\ pc \in {"options", "create", "ids"} => DOMAIN sockets = {}
    /\ pc \in {"options", "create"} => port_table = <<>> /\ i = 1
    /\ pc = "ids" => i <= Len(config) + 1 /\ unnoticed \subseteq 1..i - 1
    /\ pc = "sockets" => i <= Len(port_table) + 1

(* The ids that the loops have been at. *)
Seen == IF pc \in {"options", "create", "ids"} THEN 1..i - 1 ELSE 1..Len(config)

(* A port has one entry ... *)
PortsOnce ==
    \A d, e \in 1..Len(port_table) :
      port_table[d].port = port_table[e].port => d = e

(* ... and its host table has for each host the last id seen so far.       *)
Gives(hosts, host, n) == host \in DOMAIN hosts /\ hosts[host] = n
Serves(host, port, n) ==
    \E e \in 1..Len(port_table) :
      /\ port_table[e].port = port
      /\ Gives(port_table[e].host_config_table, host, n)
LastSeen(host, port, n) == n \in Latest(Ids(host, port) \cap Seen)
ServedSoFar ==
    pc # "exited" => \A host \in Host, port \in Port :
                       \A n : Serves(host, port, n) <=> LastSeen(host, port, n)

(* How many entries have their socket. *)
Bound == IF pc = "sockets" THEN i - 1 ELSE Len(port_table)
SocketsSoFar ==
    pc \in {"sockets", "listen", "free"} =>
      /\ DOMAIN sockets = {port_table[e].sockfd : e \in 1..Bound}
      /\ Cardinality(DOMAIN sockets) = Bound
      /\ \A e \in 1..Bound : sockets[port_table[e].sockfd].port = port_table[e].port

(* Whatever is allocated can be reached from somewhere, or went unnoticed. *)
Unnoticed == UNION {EntryBlocks(n) : n \in unnoticed}
HeapReachable ==
    /\ pc # "exited" => heap \subseteq Base \cup EntriesFreed \cup Unnoticed
    /\ pc = "exited" /\ code = 0 => heap \subseteq Unnoticed

IInv == Types /\ Stages /\ PortsOnce /\ ServedSoFar /\ SocketsSoFar /\ HeapReachable

-----------------------------------------------------------------------------
(* Helpers *)

(* The least number principle. *)
LEMMA LeastNat ==
    ASSUME NEW T, T \subseteq Nat, T # {}
    PROVE  \E n \in T : \A m \in T : n <= m
<1> DEFINE R == OpToRel(<, Nat)
<1>1. IsWellFoundedOn(R, Nat)
  BY NatLessThanWellFounded
<1>2. \A m, n \in Nat : m < n => <<m, n>> \in R
  BY DEF OpToRel
<1> HIDE DEF R
<1>3. PICK n \in T : \A m \in T : ~(<<m, n>> \in R)
  BY <1>1, WFMin
<1>4. \A m \in T : ~(m < n) /\ m \in Nat /\ n \in Nat
  BY <1>2, <1>3
<1>5. \A m \in T : n <= m
  BY <1>4
<1> QED BY <1>5

(* The kernel always has a descriptor left. *)
LEMMA FreeFdIsFree ==
    ASSUME IsFiniteSet(DOMAIN sockets)
    PROVE  FreeFd \in Nat /\ FreeFd \notin DOMAIN sockets
<1> DEFINE c == Cardinality(DOMAIN sockets)
           T == {s \in 3..3 + c : s \notin DOMAIN sockets}
<1>1. c \in Nat
  BY FS_CardinalityType
<1>2. T # {}
  <2> SUFFICES ASSUME T = {} PROVE FALSE
    OBVIOUS
  <2>1. 3..3 + c \in SUBSET DOMAIN sockets
    OBVIOUS
  <2>2. Cardinality(3..3 + c) <= c
    BY <2>1, FS_Subset
  <2>3. Cardinality(3..3 + c) = c + 1
    BY <1>1, FS_Interval
  <2> QED BY <1>1, <2>2, <2>3
<1>3. T \subseteq Nat
  BY <1>1
<1>4. PICK n \in T : \A m \in T : n <= m
  <2> HIDE DEF T
  <2> QED BY <1>2, <1>3, LeastNat
<1>5. \A t \in 3..n - 1 : t \in DOMAIN sockets
  <2> SUFFICES ASSUME NEW t \in 3..n - 1, t \notin DOMAIN sockets
               PROVE  FALSE
    OBVIOUS
  <2>1. n \in 3..3 + c
    OBVIOUS
  <2>2. t \in 3..3 + c /\ ~(n <= t)
    BY <1>1, <2>1
  <2> QED BY <1>4, <2>2
<1>6. \E s \in 3..3 + c : /\ s \notin DOMAIN sockets
                          /\ \A t \in 3..s - 1 : t \in DOMAIN sockets
  BY <1>5
<1>7. FreeFd \in 3..3 + c /\ FreeFd \notin DOMAIN sockets
  BY <1>6 DEF FreeFd
<1> QED BY <1>1, <1>7

LEMMA SetHostFacts ==
    ASSUME NEW hosts, hosts \in HostTable, NEW id \in Id, i \in Nat \ {0}
    PROVE  /\ SetHost(hosts, id) \in HostTable
           /\ DOMAIN SetHost(hosts, id) = DOMAIN hosts \cup {id.host}
           /\ SetHost(hosts, id)[id.host] = i
           /\ \A h \in DOMAIN hosts \ {id.host} : SetHost(hosts, id)[h] = hosts[h]
<1>1. PICK S \in SUBSET Host : hosts \in [S -> Int]
  BY DEF HostTable
<1>2. id.host \in Host
  BY DEF Id
<1>3. SetHost(hosts, id) \in [S \cup {id.host} -> Int]
  BY <1>1, <1>2 DEF SetHost
<1>4. S \cup {id.host} \in SUBSET Host
  BY <1>2
<1> QED BY <1>1, <1>3, <1>4 DEF SetHost, HostTable

(* Both kinds of result of a set on a host table. *)
LEMMA AfterSetFacts ==
    ASSUME NEW hosts, hosts \in HostTable, NEW id \in Id, i \in Nat \ {0},
           NEW done \in BOOLEAN
    PROVE  /\ AfterSet(hosts, id, done) \in HostTable
           /\ \A h, n : Gives(AfterSet(hosts, id, done), h, n) <=>
                          IF done /\ h = id.host THEN n = i ELSE Gives(hosts, h, n)
<1>1. CASE done
  <2>1. AfterSet(hosts, id, done) = SetHost(hosts, id)
    BY <1>1 DEF AfterSet
  <2> DEFINE new == SetHost(hosts, id)
  <2>2. /\ new \in HostTable /\ DOMAIN new = DOMAIN hosts \cup {id.host}
        /\ new[id.host] = i
        /\ \A h \in DOMAIN hosts \ {id.host} : new[h] = hosts[h]
    BY SetHostFacts
  <2> HIDE DEF new
  <2>3. AfterSet(hosts, id, done) = new
    BY <2>1 DEF new
  <2> QED BY <1>1, <2>2, <2>3 DEF Gives
<1>2. CASE ~done
  <2>1. AfterSet(hosts, id, done) = hosts
    BY <1>2 DEF AfterSet
  <2> QED BY <1>2, <2>1
<1> QED BY <1>1, <1>2

LEMMA EmptyHostTable == <<>> \in HostTable /\ DOMAIN <<>> = {}
<1>1. <<>> \in [{} -> Int]
  OBVIOUS
<1> QED BY <1>1 DEF HostTable

LEMMA EntryFacts ==
    ASSUME Types, NEW e \in 1..Len(port_table)
    PROVE  /\ port_table[e] \in Entry
           /\ port_table[e].host_config_table \in HostTable
           /\ port_table[e].port \in Port
<1>1. port_table[e] \in Entry
  BY DEF Types
<1> QED BY <1>1 DEF Entry

(* Nothing about the hosts changes. *)
SameHosts ==
    /\ Len(port_table') = Len(port_table)
    /\ \A e \in 1..Len(port_table) :
         /\ port_table'[e].port = port_table[e].port
         /\ port_table'[e].host_config_table = port_table[e].host_config_table

LEMMA HostsKept ==
    ASSUME PortsOnce, ServedSoFar, SameHosts, UNCHANGED <<config, unnoticed>>,
           pc # "exited", Seen' = Seen
    PROVE  PortsOnce' /\ ServedSoFar'
<1>1. PortsOnce'
  BY DEF PortsOnce, SameHosts
<1>2. ASSUME NEW host \in Host, NEW port \in Port, NEW n
      PROVE  Serves(host, port, n)' <=> LastSeen(host, port, n)'
  <2>1. Serves(host, port, n)' <=> Serves(host, port, n)
    BY DEF Serves, SameHosts
  <2>2. LastSeen(host, port, n)' <=> LastSeen(host, port, n)
    BY DEF LastSeen, Latest, Ids
  <2>3. Serves(host, port, n) <=> LastSeen(host, port, n)
    BY DEF ServedSoFar
  <2> QED BY <2>1, <2>2, <2>3
<1> QED BY <1>1, <1>2 DEF ServedSoFar

LEMMA LatestOfMore ==
    ASSUME NEW k \in Nat, NEW X, X \subseteq 1..k - 1, NEW n
    PROVE  n \in Latest(X \cup {k}) <=> n = k
<1>1. \A m \in X : m \in Int /\ m <= k /\ ~(k <= m)
  OBVIOUS
<1>2. k \in Latest(X \cup {k})
  BY <1>1 DEF Latest
<1>3. ASSUME n \in Latest(X \cup {k}) PROVE n = k
  BY <1>1, <1>3 DEF Latest
<1> QED BY <1>2, <1>3

(* What the loops know of the configuration after one more id. *)
LEMMA OneMoreId ==
    ASSUME Types, Stages, pc = "ids", pc' = "ids", i <= Len(config), i' = i + 1,
           config' = config, NEW done \in BOOLEAN, Noted(done),
           NEW host \in Host, NEW port \in Port, NEW n
    PROVE  LastSeen(host, port, n)' <=>
             IF done /\ config[i] = [host |-> host, port |-> port]
             THEN n = i ELSE LastSeen(host, port, n)
<1> DEFINE X == Ids(host, port) \cap Seen
           Y == (Ids(host, port) \cap Seen)'
<1>1. /\ Seen = 1..i - 1 /\ Seen' = 1..i /\ i \in 1..Len(config) /\ i \in Nat
      /\ DOMAIN config = 1..Len(config) /\ unnoticed \subseteq 1..i - 1
      /\ Len(config) \in Nat
  BY DEF Seen, Types, Stages
<1>2. X \subseteq 1..i - 1
  BY <1>1
<1>3. CASE done /\ config[i] = [host |-> host, port |-> port]
  <2>1. Y = X \cup {i}
    BY <1>1, <1>3 DEF Ids, Noted
  <2>2. n \in Latest(X \cup {i}) <=> n = i
    BY <1>1, <1>2, LatestOfMore
  <2> QED BY <1>3, <2>1, <2>2 DEF LastSeen, Latest
<1>4. CASE ~(done /\ config[i] = [host |-> host, port |-> port])
  <2>1. Y = X
    BY <1>1, <1>4 DEF Ids, Noted
  <2> QED BY <1>4, <2>1 DEF LastSeen, Latest
<1> QED BY <1>3, <1>4

LEMMA InitInv == Init => IInv
<1> SUFFICES ASSUME Init PROVE IInv
  OBVIOUS
<1>1. /\ pc = "options" /\ i = 1 /\ port_table = <<>> /\ heap = {}
      /\ DOMAIN sockets = {} /\ sockets \in [{} -> Socket]
      /\ code = 0 /\ unnoticed = {}
  BY DEF Init
<1>2. config \in Seq(Id)
  BY MaxIdsAssumption DEF Init, SeqOf
<1>3. Types
  BY <1>1, <1>2, FS_EmptySet DEF Types
<1>4. Stages /\ PortsOnce /\ SocketsSoFar /\ HeapReachable
  BY <1>1 DEF Stages, PortsOnce, SocketsSoFar, HeapReachable
<1>5. ServedSoFar
  BY <1>1 DEF ServedSoFar, Serves, LastSeen, Latest, Seen
<1> QED BY <1>3, <1>4, <1>5 DEF IInv

-----------------------------------------------------------------------------
(* The steps before and after the loops over the configuration. *)

(* A step that leaves everything but pc, code and the heap alone. *)
LEMMA ExitKeeps ==
    ASSUME IInv, pc' = "exited", i' = 1, code' \in Int,
           UNCHANGED <<config, port_table>>,
           Types => Types',
           code' = 0 => heap' \subseteq Unnoticed'
    PROVE  IInv'
<1>1. Types'
  BY DEF IInv
<1>2. PortsOnce'
  BY DEF IInv, PortsOnce
<1>3. Stages' /\ ServedSoFar' /\ SocketsSoFar'
  BY DEF Stages, ServedSoFar, SocketsSoFar
<1>4. HeapReachable'
  BY DEF HeapReachable
<1> QED BY <1>1, <1>2, <1>3, <1>4 DEF IInv

LEMMA OptionsKeep == IInv /\ main_options => IInv'
<1> SUFFICES ASSUME IInv, main_options PROVE IInv'
  OBVIOUS
<1>1. /\ pc = "options" /\ heap = {}
      /\ UNCHANGED <<config, port_table, sockets, heap, unnoticed>>
  BY DEF main_options, IInv, Stages
<1>2. CASE \E c \in 0..1 : Exit(c)
  <2>1. pc' = "exited" /\ i' = 1 /\ code' \in Int
    BY <1>2 DEF Exit, Goto
  <2>2. Types => Types'
    BY <1>1, <2>1 DEF Types
  <2> QED BY <1>1, <2>1, <2>2, ExitKeeps
<1>3. CASE Goto("create", 1) /\ UNCHANGED code
  <2>1. pc' = "create" /\ i' = 1 /\ code' = code /\ i = 1 /\ port_table = <<>>
    BY <1>1, <1>3 DEF Goto, IInv, Stages
  <2>2. Types' /\ Stages'
    BY <1>1, <2>1 DEF IInv, Types, Stages
  <2>3. PortsOnce' /\ ServedSoFar'
    <3>1. Seen' = Seen /\ SameHosts
      BY <1>1, <2>1 DEF Seen, SameHosts
    <3> QED BY <1>1, <3>1, HostsKept DEF IInv
  <2>4. SocketsSoFar' /\ HeapReachable'
    BY <1>1, <2>1 DEF SocketsSoFar, HeapReachable
  <2> QED BY <2>2, <2>3, <2>4 DEF IInv
<1> QED BY <1>2, <1>3 DEF main_options

LEMMA CreateKeeps == IInv /\ fh_server_create => IInv'
<1> SUFFICES ASSUME IInv, fh_server_create PROVE IInv'
  OBVIOUS
<1>1. /\ pc = "create" /\ heap = {} /\ unnoticed = {} /\ code = 0
      /\ UNCHANGED <<config, port_table, sockets, unnoticed>>
      /\ i = 1 /\ port_table = <<>> /\ DOMAIN sockets = {}
  BY DEF fh_server_create, IInv, Stages
<1>2. CASE Goto("ids", 1) /\ heap' = heap \cup Base /\ UNCHANGED code
  <2>1. pc' = "ids" /\ i' = 1 /\ code' = code /\ heap' = Base
    BY <1>1, <1>2 DEF Goto
  <2>2. Types' /\ Stages'
    BY <1>1, <2>1 DEF IInv, Types, Stages
  <2>3. PortsOnce' /\ ServedSoFar'
    <3>1. Seen' = Seen /\ SameHosts
      BY <1>1, <2>1 DEF Seen, SameHosts
    <3> QED BY <1>1, <3>1, HostsKept DEF IInv
  <2>4. SocketsSoFar' /\ HeapReachable'
    BY <1>1, <2>1 DEF SocketsSoFar, HeapReachable
  <2> QED BY <2>2, <2>3, <2>4 DEF IInv
<1>3. CASE Exit(1) /\ UNCHANGED heap
  <2>1. pc' = "exited" /\ i' = 1 /\ code' = 1
    BY <1>3 DEF Exit, Goto
  <2>2. Types => Types'
    BY <1>1, <2>1 DEF Types
  <2> QED BY <1>1, <2>1, <2>2, ExitKeeps
<1> QED BY <1>2, <1>3 DEF fh_server_create

LEMMA FailureKeeps ==
    ASSUME IInv, CreateFails, UNCHANGED <<config, port_table, sockets>>
    PROVE  IInv'
<1>1. pc' = "exited" /\ i' = 1 /\ code' = 1
  BY DEF CreateFails, Exit, Goto
<1>2. Types => Types'
  BY <1>1 DEF Types
<1> QED BY <1>1, <1>2, ExitKeeps

LEMMA IdsDoneKeeps == IInv /\ ids_done => IInv'
<1> SUFFICES ASSUME IInv, ids_done PROVE IInv'
  OBVIOUS
<1>1. /\ pc = "ids" /\ pc' = "sockets" /\ i > Len(config) /\ i' = 1
      /\ UNCHANGED <<config, port_table, sockets, heap, code, unnoticed>>
  BY DEF ids_done, Goto
<1>2. i = Len(config) + 1 /\ Len(config) \in Nat /\ DOMAIN sockets = {}
  BY <1>1 DEF IInv, Stages, Types
<1>3. Types' /\ Stages'
  BY <1>1 DEF IInv, Types, Stages
<1>4. PortsOnce' /\ ServedSoFar'
  <2>1. Seen' = Seen /\ SameHosts
    BY <1>1, <1>2 DEF Seen, SameHosts
  <2> QED BY <1>1, <2>1, HostsKept DEF IInv
<1>5. SocketsSoFar'
  <2>1. Bound' = 0
    BY <1>1 DEF Bound
  <2> QED BY <1>1, <1>2, <2>1, FS_EmptySet DEF SocketsSoFar
<1>6. HeapReachable'
  BY <1>1 DEF IInv, HeapReachable, EntriesFreed, Unnoticed
<1> QED BY <1>3, <1>4, <1>5, <1>6 DEF IInv

-----------------------------------------------------------------------------
(* One id. *)

(* Entries are freed by their blocks alone. *)
LEMMA SameBlocks ==
    ASSUME port_table \in Seq(Entry), port_table' \in Seq(Entry),
           Len(port_table') = Len(port_table),
           \A e \in 1..Len(port_table) : port_table'[e].block = port_table[e].block
    PROVE  EntriesFreed \subseteq EntriesFreed'
<1> SUFFICES ASSUME NEW b \in EntriesFreed PROVE b \in EntriesFreed'
  OBVIOUS
<1>1. PICK e \in 1..Len(port_table) : b \in EntryBlocks(port_table[e].block)
  BY DEF EntriesFreed, Range
<1>2. port_table'[e] \in Range(port_table') /\ b \in EntryBlocks(port_table'[e].block)
  BY <1>1 DEF Range
<1> QED BY <1>2 DEF EntriesFreed

(* What all kinds of result of an id have in common. *)
IdStep(done) ==
    /\ pc = "ids" /\ pc' = "ids" /\ i <= Len(config) /\ i' = i + 1
    /\ UNCHANGED <<config, sockets, code>>
    /\ Noted(done)

LEMMA IdKeeps ==
    ASSUME IInv, NEW done \in BOOLEAN, IdStep(done),
           port_table' \in Seq(Entry), PortsOnce',
           \A host \in Host, port \in Port : \A n :
             Serves(host, port, n)' <=>
               IF done /\ config[i] = [host |-> host, port |-> port]
               THEN n = i ELSE Serves(host, port, n),
           heap' \subseteq Base \cup EntriesFreed' \cup Unnoticed'
    PROVE  IInv'
<1>1. /\ pc = "ids" /\ pc' = "ids" /\ i \in Nat \ {0} /\ Len(config) \in Nat
      /\ i <= Len(config) /\ i' = i + 1
      /\ unnoticed \subseteq 1..i - 1
      /\ UNCHANGED <<config, sockets, code>> /\ Noted(done)
      /\ Types /\ Stages /\ ServedSoFar
  BY DEF IInv, IdStep, Types, Stages
<1>2. unnoticed' \subseteq 1..i
  <2>1. unnoticed' \subseteq unnoticed \cup {i}
    BY <1>1 DEF Noted
  <2>2. (1..i - 1) \cup {i} \subseteq 1..i
    BY <1>1
  <2> QED BY <1>1, <2>1, <2>2
<1>3. Types'
  BY <1>1 DEF Types
<1>4. Stages'
  BY <1>1, <1>2 DEF Stages
<1>5. ServedSoFar'
  <2>1. ASSUME NEW host \in Host, NEW port \in Port, NEW n
        PROVE  Serves(host, port, n)' <=> LastSeen(host, port, n)'
    <3>1. LastSeen(host, port, n)' <=>
             IF done /\ config[i] = [host |-> host, port |-> port]
             THEN n = i ELSE LastSeen(host, port, n)
      BY <1>1, OneMoreId
    <3>2. Serves(host, port, n) <=> LastSeen(host, port, n)
      BY <1>1 DEF ServedSoFar
    <3> QED BY <3>1, <3>2
  <2> QED BY <2>1 DEF ServedSoFar
<1>6. SocketsSoFar' /\ HeapReachable'
  BY <1>1 DEF SocketsSoFar, HeapReachable
<1> QED BY <1>3, <1>4, <1>5, <1>6 DEF IInv

(* The id makes a new entry. *)
LEMMA NewEntryKeeps ==
    ASSUME IInv, NEW done \in BOOLEAN, IdStep(done),
           EntryOf(config[i].port) = {},
           heap' = heap \cup EntryBlocks(i),
           port_table' = Append(port_table,
                                NewEntry(config[i].port, AfterSet(<<>>, config[i], done)))
    PROVE  IInv'
<1> DEFINE id == config[i]
           new == NewEntry(id.port, AfterSet(<<>>, id, done))
           len == Len(port_table)
<1>1. /\ i \in Nat \ {0} /\ id \in Id /\ port_table \in Seq(Entry) /\ len \in Nat
      /\ pc = "ids"
  BY DEF IInv, Types, IdStep
<1>2. id.port \in Port /\ id.host \in Host /\ id = [host |-> id.host, port |-> id.port]
  BY <1>1 DEF Id
<1>3. /\ AfterSet(<<>>, id, done) \in HostTable
      /\ \A h, n : Gives(AfterSet(<<>>, id, done), h, n)
                   <=> done /\ h = id.host /\ n = i
  <2>1. /\ AfterSet(<<>>, id, done) \in HostTable
        /\ \A h, n : Gives(AfterSet(<<>>, id, done), h, n) <=>
                       IF done /\ h = id.host THEN n = i ELSE Gives(<<>>, h, n)
    <3> HIDE DEF id
    <3> QED BY <1>1, AfterSetFacts, EmptyHostTable
  <2>2. \A h, n : ~Gives(<<>>, h, n)
    BY EmptyHostTable DEF Gives
  <2> QED BY <2>1, <2>2
<1>4. /\ new \in Entry /\ new.port = id.port /\ new.block = i
      /\ new.host_config_table = AfterSet(<<>>, id, done)
  BY <1>1, <1>2, <1>3 DEF NewEntry, Entry
<1> HIDE DEF id, new
<1>5. /\ port_table' \in Seq(Entry) /\ Len(port_table') = len + 1
      /\ \A e \in 1..len : port_table'[e] = port_table[e]
      /\ port_table'[len + 1] = new
  BY <1>1, <1>4 DEF new, id
<1>6. \A e \in 1..len : port_table[e].port # id.port
  BY <1>1 DEF EntryOf, id
<1>7. PortsOnce'
  BY <1>1, <1>4, <1>5, <1>6 DEF IInv, PortsOnce
<1>8. ASSUME NEW host \in Host, NEW port \in Port, NEW n
      PROVE  Serves(host, port, n)' <=>
               IF done /\ id = [host |-> host, port |-> port]
               THEN n = i ELSE Serves(host, port, n)
  <2>1. Serves(host, port, n)' <=>
          \/ Serves(host, port, n)
          \/ new.port = port /\ Gives(new.host_config_table, host, n)
    <3>1. 1..len + 1 = 1..len \cup {len + 1}
      BY <1>1
    <3> QED BY <1>1, <1>5, <3>1 DEF Serves
  <2>2. port = id.port => ~Serves(host, port, n)
    BY <1>6 DEF Serves
  <2>3. Gives(new.host_config_table, host, n) <=> done /\ host = id.host /\ n = i
    BY <1>3, <1>4
  <2>4. id = [host |-> host, port |-> port] <=> host = id.host /\ port = id.port
    BY <1>2
  <2> QED BY <1>4, <2>1, <2>2, <2>3, <2>4
<1>9. heap' \subseteq Base \cup EntriesFreed' \cup Unnoticed'
  <2>1. heap \subseteq Base \cup EntriesFreed \cup Unnoticed
    BY <1>1 DEF IInv, HeapReachable
  <2>2. EntriesFreed \subseteq EntriesFreed'
    <3>1. \A e \in Range(port_table) : e \in Range(port_table')
      BY <1>1, <1>5 DEF Range
    <3> QED BY <3>1 DEF EntriesFreed
  <2>3. EntryBlocks(i) \subseteq EntriesFreed'
    <3>1. new \in Range(port_table')
      BY <1>1, <1>5 DEF Range
    <3> QED BY <1>4, <3>1 DEF EntriesFreed
  <2>4. Unnoticed \subseteq Unnoticed'
    BY DEF Unnoticed, IdStep, Noted
  <2> QED BY <2>1, <2>2, <2>3, <2>4
<1> QED BY <1>5, <1>7, <1>8, <1>9, IdKeeps DEF id

(* The id makes an entry that goes into no table. *)
LEMMA LostEntryKeeps ==
    ASSUME IInv, IdStep(FALSE), heap' = heap \cup EntryBlocks(i),
           UNCHANGED port_table
    PROVE  IInv'
<1>1. port_table' \in Seq(Entry) /\ PortsOnce' /\ pc = "ids"
  BY DEF IInv, Types, PortsOnce, IdStep
<1>2. \A host, port, n : Serves(host, port, n)' <=> Serves(host, port, n)
  BY DEF Serves
<1>3. heap' \subseteq Base \cup EntriesFreed' \cup Unnoticed'
  <2>1. heap \subseteq Base \cup EntriesFreed \cup Unnoticed
    BY <1>1 DEF IInv, HeapReachable
  <2>2. Unnoticed' = Unnoticed \cup EntryBlocks(i) /\ EntriesFreed' = EntriesFreed
    BY DEF Unnoticed, IdStep, Noted, EntriesFreed
  <2> QED BY <2>1, <2>2
<1> QED BY <1>1, <1>2, <1>3, IdKeeps

(* The port has an entry, whose host table gets the id. *)
LEMMA KnownPortKeeps ==
    ASSUME IInv, NEW done \in BOOLEAN, IdStep(done), UNCHANGED heap,
           NEW e \in EntryOf(config[i].port),
           port_table' = [port_table EXCEPT
                            ![e].host_config_table = AfterSet(@, config[i], done)]
    PROVE  IInv'
<1> DEFINE id == config[i]
           old == port_table[e].host_config_table
           hosts == AfterSet(old, id, done)
<1>1. /\ i \in Nat \ {0} /\ id \in Id /\ port_table \in Seq(Entry)
      /\ pc = "ids" /\ Types
  BY DEF IInv, Types, IdStep
<1>2. id.port \in Port /\ id.host \in Host /\ id = [host |-> id.host, port |-> id.port]
  BY <1>1 DEF Id
<1>3. e \in 1..Len(port_table) /\ port_table[e].port = id.port
  BY <1>1 DEF EntryOf
<1>4. old \in HostTable /\ port_table[e] \in Entry
  BY <1>1, <1>3, EntryFacts
<1>5. /\ hosts \in HostTable
      /\ \A h, n : Gives(hosts, h, n) <=>
                     IF done /\ h = id.host THEN n = i ELSE Gives(old, h, n)
  <2> HIDE DEF old, id
  <2> QED BY <1>1, <1>4, AfterSetFacts
<1> HIDE DEF hosts, id
<1>6. port_table' = [port_table EXCEPT ![e] = [port_table[e] EXCEPT
                                                 !.host_config_table = hosts]]
  BY DEF hosts, id
<1>7. /\ [port_table[e] EXCEPT !.host_config_table = hosts] \in Entry
      /\ [port_table[e] EXCEPT !.host_config_table = hosts].port = id.port
      /\ [port_table[e] EXCEPT !.host_config_table = hosts].block = port_table[e].block
      /\ [port_table[e] EXCEPT !.host_config_table = hosts].host_config_table = hosts
  BY <1>3, <1>4, <1>5 DEF Entry
<1>8. /\ port_table' \in Seq(Entry) /\ Len(port_table') = Len(port_table)
      /\ \A d \in 1..Len(port_table) :
           /\ port_table'[d].port = port_table[d].port
           /\ port_table'[d].block = port_table[d].block
           /\ port_table'[d].host_config_table =
                IF d = e THEN hosts ELSE port_table[d].host_config_table
  <2> DEFINE new == [port_table[e] EXCEPT !.host_config_table = hosts]
  <2>1. new \in Entry /\ port_table' = [port_table EXCEPT ![e] = new]
    BY <1>6, <1>7
  <2>2. /\ new.port = port_table[e].port /\ new.block = port_table[e].block
        /\ new.host_config_table = hosts
    BY <1>3, <1>7
  <2> HIDE DEF new
  <2>3. /\ port_table' \in Seq(Entry) /\ Len(port_table') = Len(port_table)
        /\ \A d \in 1..Len(port_table) :
             port_table'[d] = IF d = e THEN new ELSE port_table[d]
    BY <1>1, <1>3, <2>1
  <2> HIDE DEF hosts
  <2>4. ASSUME NEW d \in 1..Len(port_table)
        PROVE  /\ port_table'[d].port = port_table[d].port
               /\ port_table'[d].block = port_table[d].block
               /\ port_table'[d].host_config_table =
                    IF d = e THEN hosts ELSE port_table[d].host_config_table
    <3>1. CASE d = e
      <4>1. port_table'[e] = new
        BY <2>3, <3>1
      <4>2. /\ port_table'[e].port = port_table[e].port
            /\ port_table'[e].block = port_table[e].block
            /\ port_table'[e].host_config_table = hosts
        BY <2>2, <4>1
      <4> QED BY <3>1, <4>2
    <3>2. CASE d # e
      <4>1. port_table'[d] = port_table[d]
        BY <2>3, <3>2
      <4> QED BY <3>2, <4>1
    <3> QED BY <3>1, <3>2
  <2> QED BY <2>3, <2>4
<1>9. PortsOnce'
  BY <1>8 DEF IInv, PortsOnce
<1>10. ASSUME NEW host \in Host, NEW port \in Port, NEW n
       PROVE  Serves(host, port, n)' <=>
                IF done /\ id = [host |-> host, port |-> port]
                THEN n = i ELSE Serves(host, port, n)
  <2>1. id = [host |-> host, port |-> port] <=> host = id.host /\ port = id.port
    BY <1>2
  <2>2. CASE port = id.port
    <3>1. \A d \in 1..Len(port_table) : port_table[d].port = port <=> d = e
      BY <1>3, <2>2 DEF IInv, PortsOnce
    <3>2. Serves(host, port, n) <=> Gives(old, host, n)
      BY <1>3, <3>1 DEF Serves
    <3>3. Serves(host, port, n)' <=> Gives(hosts, host, n)
      BY <1>3, <1>8, <3>1 DEF Serves
    <3> QED BY <1>5, <2>1, <2>2, <3>2, <3>3
  <2>3. CASE port # id.port
    <3>1. Serves(host, port, n)' <=> Serves(host, port, n)
      BY <1>3, <1>8, <2>3 DEF Serves
    <3> QED BY <2>1, <2>3, <3>1
  <2> QED BY <2>2, <2>3
<1>11. heap' \subseteq Base \cup EntriesFreed' \cup Unnoticed'
  <2>1. heap \subseteq Base \cup EntriesFreed \cup Unnoticed
    BY <1>1 DEF IInv, HeapReachable
  <2>2. EntriesFreed \subseteq EntriesFreed'
    BY <1>1, <1>8, SameBlocks
  <2>3. Unnoticed \subseteq Unnoticed'
    BY DEF Unnoticed, IdStep, Noted
  <2> QED BY <2>1, <2>2, <2>3
<1> QED BY <1>8, <1>9, <1>10, <1>11, IdKeeps DEF id

LEMMA ProcessIdKeeps == IInv /\ process_id => IInv'
<1> SUFFICES ASSUME IInv, process_id PROVE IInv'
  OBVIOUS
<1>1. /\ pc = "ids" /\ i <= Len(config)
      /\ UNCHANGED <<config, sockets>>
  BY DEF process_id
<1>2. ASSUME i' = i + 1, UNCHANGED <<pc, code>>, NewPort(config[i])
      PROVE  IInv'
  <2>1. ASSUME NEW done \in BOOLEAN, Noted(done) PROVE IdStep(done)
    BY <1>1, <1>2, <2>1 DEF IdStep
  <2>2. EntryOf(config[i].port) = {} /\ heap' = heap \cup EntryBlocks(i)
    BY <1>2 DEF NewPort
  <2>3. ASSUME NEW done \in BOOLEAN, Noted(done),
               port_table' = Append(port_table,
                 NewEntry(config[i].port, AfterSet(<<>>, config[i], done)))
        PROVE  IInv'
    BY <2>1, <2>2, <2>3, NewEntryKeeps
  <2>4. CASE Noted(FALSE) /\ UNCHANGED port_table
    BY <2>1, <2>2, <2>4, LostEntryKeeps
  <2> QED BY <1>2, <2>3, <2>4 DEF NewPort
<1>3. ASSUME i' = i + 1, UNCHANGED <<pc, code>>, KnownPort(config[i])
      PROVE  IInv'
  <2>1. PICK e \in EntryOf(config[i].port), done \in BOOLEAN :
          /\ Noted(done)
          /\ port_table' = [port_table EXCEPT
                              ![e].host_config_table = AfterSet(@, config[i], done)]
          /\ UNCHANGED heap
    BY <1>3 DEF KnownPort
  <2>2. IdStep(done)
    BY <1>1, <1>3, <2>1 DEF IdStep
  <2> QED BY <2>1, <2>2, KnownPortKeeps
<1>4. CASE CreateFails /\ UNCHANGED <<port_table, unnoticed>>
  BY <1>1, <1>4, FailureKeeps
<1> QED BY <1>2, <1>3, <1>4 DEF process_id

-----------------------------------------------------------------------------
(* Sockets, and the rest of the run. *)

LEMMA SocketKeeps == IInv /\ create_socket => IInv'
<1> SUFFICES ASSUME IInv, create_socket PROVE IInv'
  OBVIOUS
<1>1. /\ pc = "sockets" /\ i <= Len(port_table) /\ i \in Nat \ {0}
      /\ UNCHANGED <<config, unnoticed>>
      /\ Types /\ Stages /\ Len(port_table) \in Nat /\ i \in 1..Len(port_table)
      /\ port_table \in Seq(Entry)
  BY DEF create_socket, IInv, Types
<1>2. ASSUME SocketBound(port_table[i].port), NextSocket(FreeFd)
      PROVE  IInv'
  <2> DEFINE fd == FreeFd
             entry == [port_table[i] EXCEPT !.sockfd = fd]
  <2>1. fd \in Nat /\ fd \notin DOMAIN sockets
    BY <1>1, FreeFdIsFree DEF Types
  <2>2. /\ port_table[i] \in Entry /\ port_table[i].port \in Port
    BY <1>1, EntryFacts
  <2>3. /\ i' = i + 1 /\ pc' = "sockets" /\ UNCHANGED <<heap, code>>
        /\ port_table' = [port_table EXCEPT ![i] = entry]
        /\ DOMAIN sockets' = DOMAIN sockets \cup {fd}
        /\ sockets'[fd] = [port |-> port_table[i].port, listening |-> FALSE]
        /\ \A s \in DOMAIN sockets : sockets'[s] = sockets[s]
        /\ sockets' \in [DOMAIN sockets' -> Socket]
    <3>1. [port |-> port_table[i].port, listening |-> FALSE] \in Socket
      BY <2>2 DEF Socket
    <3>2. sockets \in [DOMAIN sockets -> Socket]
      BY <1>1 DEF Types
    <3> QED BY <1>1, <1>2, <2>1, <3>1, <3>2 DEF SocketBound, NextSocket
  <2>4. /\ entry \in Entry /\ entry.sockfd = fd /\ entry.port = port_table[i].port
        /\ entry.block = port_table[i].block
        /\ entry.host_config_table = port_table[i].host_config_table
    BY <2>1, <2>2 DEF Entry
  <2> HIDE DEF fd, entry
  <2>5. /\ port_table' \in Seq(Entry) /\ Len(port_table') = Len(port_table)
        /\ port_table'[i] = entry
        /\ \A e \in 1..Len(port_table) : e # i => port_table'[e] = port_table[e]
    BY <1>1, <2>3, <2>4
  <2>6. SameHosts
    <3>1. ASSUME NEW e \in 1..Len(port_table)
          PROVE  /\ port_table'[e].port = port_table[e].port
                 /\ port_table'[e].host_config_table = port_table[e].host_config_table
                 /\ port_table'[e].block = port_table[e].block
      <4>1. CASE e = i
        BY <2>4, <2>5, <4>1
      <4>2. CASE e # i
        BY <2>5, <4>2
      <4> QED BY <4>1, <4>2
    <3> QED BY <2>5, <3>1 DEF SameHosts
  <2>7. PortsOnce' /\ ServedSoFar'
    <3>1. Seen' = Seen
      BY <1>1, <2>3 DEF Seen
    <3> QED BY <1>1, <2>6, <3>1, HostsKept DEF IInv
  <2>8. Types'
    <3>1. IsFiniteSet(DOMAIN sockets')
      BY <1>1, <2>3, FS_AddElement, SMTT(30) DEF Types
    <3> QED BY <1>1, <2>3, <2>5, <3>1 DEF Types
  <2>9. Stages'
    BY <1>1, <2>3, <2>5 DEF Stages
  <2>10. SocketsSoFar'
    <3>1. /\ DOMAIN sockets = {port_table[e].sockfd : e \in 1..i - 1}
          /\ Cardinality(DOMAIN sockets) = i - 1
          /\ \A e \in 1..i - 1 :
               sockets[port_table[e].sockfd].port = port_table[e].port
      BY <1>1 DEF IInv, SocketsSoFar, Bound
    <3>2. Bound' = i /\ 1..i = (1..i - 1) \cup {i}
      BY <1>1, <2>3 DEF Bound
    <3>3. \A e \in 1..i - 1 : port_table'[e] = port_table[e]
      BY <1>1, <2>5
    <3>4. DOMAIN sockets' = {port_table'[e].sockfd : e \in 1..i}
      BY <2>3, <2>4, <2>5, <3>1, <3>2, <3>3
    <3>5. Cardinality(DOMAIN sockets') = i
      <4>1. IsFiniteSet(DOMAIN sockets)
        BY <1>1 DEF Types
      <4>2. Cardinality(DOMAIN sockets \cup {fd}) = Cardinality(DOMAIN sockets) + 1
        BY <2>1, <4>1, FS_AddElement
      <4> QED BY <1>1, <2>3, <3>1, <4>2
    <3>6. ASSUME NEW e \in 1..i
          PROVE  sockets'[port_table'[e].sockfd].port = port_table'[e].port
      <4>1. CASE e = i
        BY <2>3, <2>4, <2>5, <4>1
      <4>2. CASE e \in 1..i - 1
        <5>1. port_table[e].sockfd \in DOMAIN sockets
          BY <3>1, <4>2
        <5> QED BY <2>3, <3>1, <3>3, <4>2, <5>1
      <4> QED BY <3>2, <4>1, <4>2
    <3> QED BY <3>2, <3>4, <3>5, <3>6 DEF SocketsSoFar
  <2>11. HeapReachable'
    <3>1. \A e \in 1..Len(port_table) : port_table'[e].block = port_table[e].block
      BY <2>4, <2>5
    <3>2. EntriesFreed \subseteq EntriesFreed'
      BY <1>1, <2>5, <3>1, SameBlocks
    <3>3. heap \subseteq Base \cup EntriesFreed \cup Unnoticed
      BY <1>1 DEF IInv, HeapReachable
    <3>4. Unnoticed' = Unnoticed
      BY <1>1 DEF Unnoticed
    <3> QED BY <2>3, <3>2, <3>3, <3>4 DEF HeapReachable
  <2> QED BY <2>7, <2>8, <2>9, <2>10, <2>11 DEF IInv
<1>3. CASE CreateFails /\ UNCHANGED <<sockets, port_table>>
  BY <1>1, <1>3, FailureKeeps
<1> QED BY <1>2, <1>3 DEF create_socket

LEMMA CreatedKeeps == IInv /\ created => IInv'
<1> SUFFICES ASSUME IInv, created PROVE IInv'
  OBVIOUS
<1>1. /\ pc = "sockets" /\ i > Len(port_table) /\ pc' = "listen" /\ i' = 1
      /\ UNCHANGED <<config, port_table, sockets, heap, code, unnoticed>>
  BY DEF created, Goto
<1>2. i - 1 = Len(port_table) /\ Len(port_table) \in Nat
  BY <1>1 DEF IInv, Stages, Types
<1>3. Types' /\ Stages'
  BY <1>1 DEF IInv, Types, Stages
<1>4. PortsOnce' /\ ServedSoFar'
  <2>1. Seen' = Seen /\ SameHosts
    BY <1>1 DEF Seen, SameHosts
  <2> QED BY <1>1, <2>1, HostsKept DEF IInv
<1>5. SocketsSoFar'
  <2>1. Bound' = Bound
    BY <1>1, <1>2 DEF Bound
  <2> QED BY <1>1, <2>1 DEF IInv, SocketsSoFar
<1>6. HeapReachable'
  BY <1>1 DEF IInv, HeapReachable, EntriesFreed, Unnoticed
<1> QED BY <1>3, <1>4, <1>5, <1>6 DEF IInv

LEMMA ListenKeeps == IInv /\ fh_server_listen => IInv'
<1> SUFFICES ASSUME IInv, fh_server_listen PROVE IInv'
  OBVIOUS
<1>1. /\ pc = "listen" /\ pc' \in {"listen", "free"}
      /\ UNCHANGED <<config, port_table, heap, code, unnoticed>>
      /\ i \in Nat \ {0} /\ i' \in Nat \ {0}
      /\ Types /\ SocketsSoFar /\ Bound = Len(port_table) /\ Bound' = Bound
  BY DEF fh_server_listen, Goto, IInv, Types, Bound
<1>2. /\ DOMAIN sockets' = DOMAIN sockets
      /\ sockets' \in [DOMAIN sockets -> Socket]
      /\ \A s \in DOMAIN sockets : sockets'[s].port = sockets[s].port
  <2>1. sockets \in [DOMAIN sockets -> Socket]
    BY <1>1 DEF Types
  <2>2. CASE UNCHANGED sockets
    BY <2>1, <2>2
  <2>3. ASSUME sockets' = [sockets EXCEPT ![port_table[i].sockfd].listening = TRUE]
        PROVE  /\ DOMAIN sockets' = DOMAIN sockets
               /\ sockets' \in [DOMAIN sockets -> Socket]
               /\ \A s \in DOMAIN sockets : sockets'[s].port = sockets[s].port
    BY <2>1, <2>3 DEF Socket
  <2> QED BY <2>2, <2>3 DEF fh_server_listen
<1>3. Types'
  BY <1>1, <1>2 DEF Types
<1>4. Stages'
  BY <1>1 DEF Stages
<1>5. PortsOnce' /\ ServedSoFar'
  <2>1. Seen' = Seen /\ SameHosts
    BY <1>1 DEF Seen, SameHosts
  <2> QED BY <1>1, <2>1, HostsKept DEF IInv
<1>6. SocketsSoFar'
  <2>1. /\ DOMAIN sockets = {port_table[e].sockfd : e \in 1..Bound}
        /\ Cardinality(DOMAIN sockets) = Bound
        /\ \A e \in 1..Bound : sockets[port_table[e].sockfd].port = port_table[e].port
    BY <1>1 DEF SocketsSoFar
  <2> QED BY <1>1, <1>2, <2>1, ZenonT(30) DEF SocketsSoFar
<1>7. HeapReachable'
  BY <1>1 DEF IInv, HeapReachable, EntriesFreed, Unnoticed
<1> QED BY <1>3, <1>4, <1>5, <1>6, <1>7 DEF IInv

LEMMA FreeKeeps == IInv /\ fh_server_free => IInv'
<1> SUFFICES ASSUME IInv, fh_server_free PROVE IInv'
  OBVIOUS
<1>1. /\ pc = "free" /\ pc' = "exited" /\ i' = 1 /\ code' = 0
      /\ heap' = heap \ (Base \cup EntriesFreed)
      /\ UNCHANGED <<config, port_table, sockets, unnoticed>>
  BY DEF fh_server_free, Exit, Goto
<1>2. heap \subseteq Base \cup EntriesFreed \cup Unnoticed
  BY <1>1 DEF IInv, HeapReachable
<1>3. heap' \subseteq Unnoticed'
  BY <1>1, <1>2 DEF Unnoticed
<1>4. Types => Types'
  BY <1>1 DEF Types
<1> QED BY <1>1, <1>3, <1>4, ExitKeeps

LEMMA StutterKeeps == IInv /\ UNCHANGED vars => IInv'
BY SMTT(30) DEF vars, IInv, Types, Stages, Seen, PortsOnce, ServedSoFar, Serves, Gives,
       LastSeen, Latest, Ids, Bound, SocketsSoFar, HeapReachable, EntriesFreed,
       Unnoticed

(* The inductive invariant holds, whatever the configuration and whatever  *)
(* fails.                                                                  *)
THEOREM Invariance == Spec => []IInv
<1>1. IInv /\ [Next]_vars => IInv'
  BY OptionsKeep, CreateKeeps, ProcessIdKeeps, IdsDoneKeeps, SocketKeeps,
     CreatedKeeps, ListenKeeps, FreeKeeps, StutterKeeps DEF Next
<1> QED BY InitInv, <1>1, PTL DEF Spec

-----------------------------------------------------------------------------
(* When the server listens, the host table of each port has, for each host *)
(* that the configuration names there, the last id that does.              *)
THEOREM ConfigurationServed == Spec => []ServedAsConfigured
<1>1. IInv => ServedAsConfigured
  <2> SUFFICES ASSUME IInv, pc = "listen", NEW host \in Host, NEW port \in Port
               PROVE  Latest(Ids(host, port)) =
                        {e.host_config_table[host] : e \in {x \in Range(port_table) :
                              x.port = port /\ host \in DOMAIN x.host_config_table}}
    BY DEF ServedAsConfigured
  <2>1. Ids(host, port) \cap Seen = Ids(host, port)
    BY DEF Ids, Seen, IInv, Types
  <2>2. \A n : Serves(host, port, n) <=> n \in Latest(Ids(host, port))
    BY <2>1 DEF IInv, ServedSoFar, LastSeen
  <2>3. Range(port_table) = {port_table[e] : e \in 1..Len(port_table)}
    <3>1. DOMAIN port_table = 1..Len(port_table)
      BY DEF IInv, Types
    <3> QED BY <3>1 DEF Range
  <2> QED BY <2>2, <2>3 DEF Serves, Gives
<1> QED BY Invariance, <1>1, PTL

(* No socket is listened on that is not an entry's own and bound to its    *)
(* port: the descriptors that the kernel hands out are different, and the  *)
(* loop over the table reaches every entry or fails.                       *)
THEOREM EachPortHasSocket == Spec => []SocketForEachPort
<1>1. IInv => SocketForEachPort
  <2> SUFFICES ASSUME IInv, pc \in {"listen", "free"}
               PROVE  /\ DOMAIN sockets = {e.sockfd : e \in Range(port_table)}
                      /\ Cardinality(DOMAIN sockets) = Len(port_table)
                      /\ \A e \in Range(port_table) : sockets[e.sockfd].port = e.port
    BY DEF SocketForEachPort
  <2>1. Range(port_table) = {port_table[e] : e \in 1..Len(port_table)}
    <3>1. DOMAIN port_table = 1..Len(port_table)
      BY DEF IInv, Types
    <3> QED BY <3>1 DEF Range
  <2>2. /\ DOMAIN sockets = {port_table[e].sockfd : e \in 1..Len(port_table)}
        /\ Cardinality(DOMAIN sockets) = Len(port_table)
        /\ \A e \in 1..Len(port_table) :
             sockets[port_table[e].sockfd].port = port_table[e].port
    BY DEF IInv, SocketsSoFar, Bound
  <2> QED BY <2>1, <2>2, ZenonT(30)
<1> QED BY Invariance, <1>1, PTL

(* With status 0 nothing stays allocated but the entries of ports that no  *)
(* table took.                                                             *)
THEOREM MemoryReturned == Spec => []HeapReturned
<1>1. IInv => HeapReturned
  BY DEF IInv, HeapReachable, HeapReturned, Unnoticed
<1> QED BY Invariance, <1>1, PTL
=============================================================================
