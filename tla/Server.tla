------------------------------- MODULE Server -------------------------------
(***************************************************************************)
(* The server core (src/core/server.c) as the program runs it              *)
(* (src/progs/freehttpd.c): build a table of ports from the configuration, *)
(* open a socket for each, listen on them, free the server and exit.       *)
(*                                                                         *)
(* The two kinds of hash table are what Dict promises of them: the port    *)
(* table is a sequence in the order of insertion, a host table a function. *)
(* A configuration is the sequence of the ids of its vhosts; the vhost of  *)
(* an id is written as the position of the id.                             *)
(***************************************************************************)
EXTENDS Integers, Sequences, FiniteSets, SequencesExt

CONSTANTS
    Host, Port,
    MaxIds           \* bounds the length of a configuration

ASSUME MaxIdsAssumption == MaxIds \in Nat

VARIABLES
    config,          \* [host, port] of every id
    pc,              \* where main is
    i,               \* the iteration that a loop is at
    port_table,      \* the struct fh_port_table_entry of each port
    sockets,         \* [open descriptors -> port and whether it is listened on]
    heap,            \* blocks that are allocated
    code,            \* the exit status
    unnoticed        \* ghost: ids for which a set failed, and nobody looked

vars == <<config, pc, i, port_table, sockets, heap, code, unnoticed>>

Id == [host : Host, port : Port]

Init ==
    /\ config \in SeqOf(Id, MaxIds)
    /\ pc = "options" /\ i = 1
    /\ port_table = <<>>
    /\ sockets = [s \in {} |-> 0]
    /\ heap = {}
    /\ code = 0 /\ unnoticed = {}

Goto(where, n) == pc' = where /\ i' = n
Exit(c) == Goto("exited", 1) /\ code' = c

(* getopt: --help and --version exit, and so does what is not an option.   *)
main_options ==
    /\ pc = "options"
    /\ \/ \E c \in 0..1 : Exit(c)
       \/ Goto("create", 1) /\ UNCHANGED code
    /\ UNCHANGED <<config, port_table, sockets, heap, unnoticed>>

-----------------------------------------------------------------------------
(* fh_server_create *)

(* The server and its port table. *)
Base == {<<"server", 0>>, <<"port_table", 0>>}

fh_server_create ==
    /\ pc = "create"
    /\ \/ Goto("ids", 1) /\ heap' = heap \cup Base /\ UNCHANGED code
       \/ Exit(1) /\ UNCHANGED heap       \* out of memory
    /\ UNCHANGED <<config, port_table, sockets, unnoticed>>

(* fh_server_process_config failed, and so do fh_server_create and main:   *)
(* the entries, and the sockets opened so far, are left behind.            *)
CreateFails == heap' = heap \ Base /\ Exit(1)

(* Mutant: the vhost that claims a name first keeps it. *)
SetHost_KeepsFirst(hosts, id) ==
    [h \in DOMAIN hosts \cup {id.host} |-> IF h \in DOMAIN hosts THEN hosts[h] ELSE i]

SetHost(hosts, id) ==
    [h \in DOMAIN hosts \cup {id.host} |-> IF h = id.host THEN i ELSE hosts[h]]

(* str_htable_set may fail; its result is not looked at. *)
AfterSet(hosts, id, done) == IF done THEN SetHost(hosts, id) ELSE hosts
Noted(done) == unnoticed' = IF done THEN unnoticed ELSE unnoticed \cup {i}

EntryOf(port) == {e \in DOMAIN port_table : port_table[e].port = port}
EntryBlocks(n) == {<<"entry", n>>, <<"host_config_table", n>>}
NewEntry(port, hosts) ==
    [port |-> port, host_config_table |-> hosts, sockfd |-> 0, block |-> i]

(* The id of a port that is not in the table yet.  When int_htable_set     *)
(* fails, the entry is in no table.                                        *)
NewPort(id) ==
    /\ EntryOf(id.port) = {}
    /\ heap' = heap \cup EntryBlocks(i)
    /\ \/ \E done \in BOOLEAN :
            /\ Noted(done)
            /\ port_table' = Append(port_table,
                                    NewEntry(id.port, AfterSet(<<>>, id, done)))
       \/ Noted(FALSE) /\ UNCHANGED port_table

KnownPort(id) ==
    \E e \in EntryOf(id.port), done \in BOOLEAN :
      /\ Noted(done)
      /\ port_table' = [port_table EXCEPT
                          ![e].host_config_table = AfterSet(@, id, done)]
      /\ UNCHANGED heap

(* One iteration of the loops over vhosts and their ids. *)
process_id ==
    /\ pc = "ids" /\ i <= Len(config)
    /\ \/ /\ NewPort(config[i]) \/ KnownPort(config[i])
          /\ i' = i + 1
          /\ UNCHANGED <<pc, code>>
       \/ /\ EntryOf(config[i].port) = {}
          /\ CreateFails                  \* out of memory
          /\ UNCHANGED <<port_table, unnoticed>>
    /\ UNCHANGED <<config, sockets>>

ids_done ==
    /\ pc = "ids" /\ i > Len(config)
    /\ Goto("sockets", 1)
    /\ UNCHANGED <<config, port_table, sockets, heap, code, unnoticed>>

(* The descriptor the kernel hands out: the lowest one after stdio. *)
FreeFd == CHOOSE s \in 3..3 + Cardinality(DOMAIN sockets) :
            /\ s \notin DOMAIN sockets
            /\ \A t \in 3..s - 1 : t \in DOMAIN sockets

(* fh_server_create_socket, when socket, setsockopt, fcntl and bind work.  *)
SocketBound(port) ==
    sockets' = [s \in DOMAIN sockets \cup {FreeFd} |->
                  IF s = FreeFd THEN [port |-> port, listening |-> FALSE]
                  ELSE sockets[s]]

NextSocket(fd) ==
    /\ port_table' = [port_table EXCEPT ![i].sockfd = fd]
    /\ i' = i + 1
    /\ UNCHANGED <<pc, heap, code>>

(* Mutant: the loop goes on when a socket cannot be created. *)
create_socket_Unchecked ==
    /\ pc = "sockets" /\ i <= Len(port_table)
    /\ \/ SocketBound(port_table[i].port) /\ NextSocket(FreeFd)
       \/ UNCHANGED sockets /\ NextSocket(-1)
    /\ UNCHANGED <<config, unnoticed>>

(* One iteration of the loop over the port table.  A socket that cannot be *)
(* set up is closed; none may be had in the first place.                   *)
create_socket ==
    /\ pc = "sockets" /\ i <= Len(port_table)
    /\ \/ SocketBound(port_table[i].port) /\ NextSocket(FreeFd)
       \/ CreateFails /\ UNCHANGED <<sockets, port_table>>
    /\ UNCHANGED <<config, unnoticed>>

created ==
    /\ pc = "sockets" /\ i > Len(port_table)
    /\ Goto("listen", 1)
    /\ UNCHANGED <<config, port_table, sockets, heap, code, unnoticed>>

-----------------------------------------------------------------------------
(* One iteration of the loop in fh_server_listen, or its end.  main does   *)
(* not look at the result.                                                 *)
fh_server_listen ==
    /\ pc = "listen"
    /\ \/ /\ i <= Len(port_table)
          /\ sockets' = [sockets EXCEPT ![port_table[i].sockfd].listening = TRUE]
          /\ i' = i + 1 /\ UNCHANGED pc
       \/ Goto("free", 1) /\ UNCHANGED sockets
    /\ UNCHANGED <<config, port_table, heap, code, unnoticed>>

(* Mutant: the entries' host tables are not freed with them. *)
EntriesFreed_Shallow == {<<"entry", e.block>> : e \in Range(port_table)}

(* fh_server_port_table_entry_cleanup, for every entry. *)
EntriesFreed == UNION {EntryBlocks(e.block) : e \in Range(port_table)}

(* Closes no socket; main returns 0. *)
fh_server_free ==
    /\ pc = "free"
    /\ heap' = heap \ (Base \cup EntriesFreed)
    /\ Exit(0)
    /\ UNCHANGED <<config, port_table, sockets, unnoticed>>

Next ==
    \/ main_options
    \/ fh_server_create \/ process_id \/ ids_done \/ create_socket \/ created
    \/ fh_server_listen
    \/ fh_server_free

Spec == Init /\ [][Next]_vars

-----------------------------------------------------------------------------
(* Properties *)

(* The vhosts that the configuration gives host on port, the last one last *)
(* - but for the sets that failed.                                         *)
Ids(host, port) ==
    {n \in DOMAIN config \ unnoticed : config[n] = [host |-> host, port |-> port]}
Latest(ids) == {n \in ids : \A m \in ids : m <= n}

(* Once the server is created, each host of each port is looked up as the  *)
(* configuration says (server.c:25 and 33), the later of two ids that      *)
(* claim it winning, and no other name or port is found.  A set that fails *)
(* unnoticed costs the server its own id and nothing else.                 *)
ServedAsConfigured ==
    pc = "listen" =>
      \A host \in Host, port \in Port :
        Latest(Ids(host, port)) =
          {e.host_config_table[host] : e \in {x \in Range(port_table) :
                x.port = port /\ host \in DOMAIN x.host_config_table}}

(* fh_server_listen is only reached with a socket for each port: the       *)
(* entries' own, different ones, bound to their ports; the 0 that an entry *)
(* starts with is never used as a descriptor.                              *)
SocketForEachPort ==
    pc \in {"listen", "free"} =>
      /\ DOMAIN sockets = {e.sockfd : e \in Range(port_table)}
      /\ Cardinality(DOMAIN sockets) = Len(port_table)
      /\ \A e \in Range(port_table) : sockets[e.sockfd].port = e.port

(* A run that ends with status 0 has given back everything it allocated,   *)
(* whether or not fh_server_listen worked, except for the entries of ports *)
(* that could not be put in the table.                                     *)
HeapReturned ==
    pc = "exited" /\ code = 0 => heap \subseteq UNION {EntryBlocks(n) : n \in unnoticed}
=============================================================================
