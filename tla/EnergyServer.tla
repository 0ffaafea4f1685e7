---------------------------- MODULE EnergyServer ----------------------------
(***************************************************************************)
(* One process of TP2-2024/cod/server.c: the server of the power station   *)
(* (SE) or of the street lighting (SCII), by the value of server_type. It  *)
(* is one thread around select(): it copies active_fd_set, waits, and      *)
(* serves the ready descriptors of the copy in ascending order before it   *)
(* waits again. The clients are the environment: they connect, send the    *)
(* requests of the protocol, read, and go away whenever they like.         *)
(***************************************************************************)
EXTENDS EnergyProtocol, FiniteSets, Tcp

CONSTANTS
  Client,        \* the client processes; each connects at most once
  MAX_CLIENTS,
  HISTORY_SIZE,
  server_type,   \* "SE" (1 in the code) or "SCII" (2)
  MaxFd,         \* the largest descriptor the process may open
  Levels,        \* the production or consumption values that occur
  Requests,      \* the requests without arguments that clients send
  MaxPending,    \* bound: the messages of a connection not read yet, when
                 \* its client sends one more
  Resets         \* whether a client may close a connection with unread bytes

\* The descriptor of the listening socket; 0, 1 and 2 are the standard streams.
server_socket == 3

ASSUME ServerAssumption ==
  /\ MAX_CLIENTS \in Nat \ {0}
  /\ HISTORY_SIZE \in Nat \ {0}
  /\ server_type \in {"SE", "SCII"}
  /\ MaxFd \in Nat
  /\ Levels \subseteq (IF server_type = "SE" THEN 20 .. 50 ELSE 0 .. 100)
  /\ Requests \subseteq RequestTypes
  /\ MaxPending \in Nat
  /\ Resets \in BOOLEAN
  /\ IsFiniteSet(Client)

Slot == 0 .. MAX_CLIENTS - 1

\* The descriptors accept() can return.
Fd == server_socket + 1 .. MaxFd

VARIABLES
  clients,         \* the table of clients: socket, id and active of each slot
  next_client_id,
  num_clients,
  active_fd_set,
  read_fd_set,     \* what is left to serve of the copy select() returned
  latest,          \* the value at index - 1 of the history this server uses
  history_index,   \* energy_production_index or consumption_index
  fds,             \* kernel: the open descriptors, and whose connection each is
  backlog,         \* kernel: the connections accept() has not returned yet
  conn,            \* kernel: the connection of each client with this server
  told,            \* history: the id that RES_ADD told each client
  running          \* FALSE once SIGPIPE has killed the process

registry == <<clients, next_client_id, num_clients, active_fd_set, told>>
history  == <<latest, history_index>>
sockets  == <<fds, backlog>>
vars     == <<registry, read_fd_set, history, sockets, conn, running>>

-----------------------------------------------------------------------------
(* main(): the first value of the history, the empty table, the listener. *)

Init ==
  /\ clients = [j \in Slot |-> [socket |-> -1, id |-> NoId, active |-> FALSE]]
  /\ next_client_id = 1
  /\ num_clients = 0
  /\ active_fd_set = {server_socket}
  /\ read_fd_set = {}
  /\ latest \in Levels
  /\ history_index = 1
  /\ fds = [i \in {} |-> i]
  /\ backlog = <<>>
  /\ conn = [p \in Client |-> Idle]
  /\ told = [p \in Client |-> NoId]
  /\ running = TRUE

-----------------------------------------------------------------------------
(* Helpers of the handlers. *)

IsFirst(i, S) == i \in S /\ \A k \in S : i <= k

\* Slot j is the first that is not active.
FreeSlot_Any(j) == ~clients[j].active
FreeSlot(j) == IsFirst(j, {s \in Slot : ~clients[s].active})

\* Slot j is the first that holds socket i, active or not.
SocketSlot_FirstActive(j, i) == IsFirst(j, {s \in Slot : clients[s].active})
SocketSlot(j, i) == IsFirst(j, {s \in Slot : clients[s].socket = i})

\* Slot j is the first active one with identifier id.
Entry_ByPosition(j, id) == j = id /\ clients[j].active
Entry(j, id) == IsFirst(j, {s \in Slot : clients[s].id = id /\ clients[s].active})

AtLimit_OneTooEarly == num_clients >= MAX_CLIENTS - 1
AtLimit == num_clients >= MAX_CLIENTS

\* The connection behind descriptor i.
Link(i) == conn[fds[i]]

Ready(i) == IF i = server_socket THEN backlog # <<>> ELSE Readable(Link(i), "server")

\* The for loop over the descriptors has come to i; the step takes i out.
Serving(i) ==
  /\ running
  /\ IsFirst(i, read_fd_set)
  /\ read_fd_set' = read_fd_set \ {i}

\* close() of descriptor i, with c the connection behind it.
CloseFd(i, c) ==
  /\ conn' \in {[conn EXCEPT ![fds[i]] = d] : d \in Closings(c, "server")}
  /\ fds' = [k \in DOMAIN fds \ {i} |-> fds[k]]

\* send() of message m to client p, on the connection c, or the signal nobody
\* handles: the process ends and the kernel closes its sockets.
Send(p, c, m) ==
  \/ /\ conn' \in {[conn EXCEPT ![p] = d] : d \in Sent(c, "server", m)}
     /\ UNCHANGED running
  \/ /\ RaisesSigPipe(c, "server")
     /\ running' = FALSE
     /\ \E how \in [Client -> {"rst", "finrst"}] :
          conn' = [q \in Client |->
                     IF conn[q] = Idle THEN Idle
                     ELSE Closed(IF q = p THEN c ELSE conn[q], "server", how[q])]

\* handle_client() has received a message of type t on descriptor i, with
\* whatever had arrived behind it, and answers m.
Answer(i, t, m) ==
  /\ Serving(i)
  /\ i # server_socket
  /\ HasData(Link(i), "server")
  /\ Incoming(Link(i), "server").type = t
  /\ \E c \in Received(Link(i), "server") : Send(fds[i], c, m)
  /\ UNCHANGED sockets

\* add_energy_production() or add_consumption(). Nothing checks the index: from
\* HISTORY_SIZE on the write lands on other variables, the two indexes among
\* them, so that the value read back later is any of those stored.
AddValue_Forgotten(v) == UNCHANGED history
AddValue(v) ==
  IF history_index < HISTORY_SIZE
    THEN latest' = v /\ history_index' = history_index + 1
    ELSE latest' \in Levels /\ history_index' \in 1 .. HISTORY_SIZE + 1

-----------------------------------------------------------------------------
(* The loop of main(). *)

\* select() returns when at least one descriptor is ready; of several that will
\* be, those whose bytes have already arrived.
Select_AllDescriptors ==
  /\ running
  /\ read_fd_set = {}
  /\ read_fd_set' = active_fd_set
  /\ \E i \in active_fd_set : Ready(i)
  /\ UNCHANGED <<registry, history, sockets, conn, running>>
Select ==
  /\ running
  /\ read_fd_set = {}
  /\ read_fd_set' \in SUBSET {i \in active_fd_set : Ready(i)} \ {{}}
  /\ UNCHANGED <<registry, history, sockets, conn, running>>

\* accept() fails: the process has no descriptor left. The loop goes on.
AcceptFails_Unchecked ==
  /\ Serving(server_socket)
  /\ Fd \subseteq DOMAIN fds
  /\ active_fd_set' = active_fd_set \union {-1}
  /\ UNCHANGED <<clients, next_client_id, num_clients, told, history, sockets, conn, running>>
AcceptFails ==
  /\ Serving(server_socket)
  /\ Fd \subseteq DOMAIN fds
  /\ UNCHANGED <<registry, history, sockets, conn, running>>

\* The limit is reached: ERROR(01) and close().
Refuse_NotAccepted ==
  /\ Serving(server_socket)
  /\ ~(Fd \subseteq DOMAIN fds)
  /\ AtLimit
  /\ UNCHANGED <<registry, history, sockets, conn, running>>
Refuse ==
  /\ Serving(server_socket)
  /\ ~(Fd \subseteq DOMAIN fds)
  /\ AtLimit
  /\ \E c \in Sent(conn[Head(backlog)], "server", Msg("ERROR(01)", <<>>)) :
       conn' \in {[conn EXCEPT ![Head(backlog)] = d] : d \in Closings(c, "server")}
  /\ backlog' = Tail(backlog)
  /\ UNCHANGED <<registry, history, fds, running>>

\* The new connection takes the lowest free descriptor and the first slot that
\* is not active, if there is one, and is told its identifier in any case.
Admit ==
  /\ Serving(server_socket)
  /\ ~AtLimit
  /\ \E i \in Fd :
       /\ IsFirst(i, Fd \ DOMAIN fds)
       /\ fds' = [k \in DOMAIN fds \union {i} |->
                    IF k = i THEN Head(backlog) ELSE fds[k]]
       /\ active_fd_set' = active_fd_set \union {i}
       /\ \/ \E j \in Slot :
               /\ FreeSlot(j)
               /\ clients' = [clients EXCEPT ![j] =
                    [socket |-> i, id |-> next_client_id, active |-> TRUE]]
          \/ /\ \A j \in Slot : clients[j].active
             /\ UNCHANGED clients
  /\ num_clients' = num_clients + 1
  /\ next_client_id' = next_client_id + 1
  /\ told' = [told EXCEPT ![Head(backlog)] = next_client_id]
  /\ backlog' = Tail(backlog)
  /\ conn' \in {[conn EXCEPT ![Head(backlog)] = d] :
                  d \in Sent(conn[Head(backlog)], "server",
                             Msg("RES_ADD", <<next_client_id>>))}
  /\ UNCHANGED <<history, running>>

-----------------------------------------------------------------------------
(* handle_client(). *)

\* The end of handle_client() for a connection that is gone.
DropConnection_Uncounted(i) ==
  /\ CloseFd(i, Link(i))
  /\ active_fd_set' = active_fd_set \ {i}
  /\ UNCHANGED <<num_clients, next_client_id, told, history, backlog, running>>
DropConnection(i) ==
  /\ CloseFd(i, Link(i))
  /\ active_fd_set' = active_fd_set \ {i}
  /\ num_clients' = num_clients - 1
  /\ UNCHANGED <<next_client_id, told, history, backlog, running>>

\* recv() returned 0: the first slot that holds this socket, active or not,
\* becomes free.
Disconnect_Ignored ==
  \E i \in Fd :
    /\ Serving(i)
    /\ AtEof(Link(i), "server")
    /\ UNCHANGED <<registry, history, sockets, conn, running>>
Disconnect ==
  \E i \in Fd :
    /\ Serving(i)
    /\ AtEof(Link(i), "server")
    /\ \/ \E j \in Slot :
            /\ SocketSlot(j, i)
            /\ clients' = [clients EXCEPT ![j].active = FALSE]
       \/ /\ \A j \in Slot : clients[j].socket # i
          /\ UNCHANGED clients
    /\ DropConnection(i)

\* recv() returned -1: the slot stays as it is.
ReceiveError_NoReturn ==
  \E i \in Fd :
    /\ Serving(i)
    /\ AtReset(Link(i), "server")
    /\ Send(fds[i], ErrorReturned(Link(i), "server"), Msg("OTHER", <<>>))
    /\ UNCHANGED <<registry, history, sockets>>
ReceiveError ==
  \E i \in Fd :
    /\ Serving(i)
    /\ AtReset(Link(i), "server")
    /\ UNCHANGED clients
    /\ DropConnection(i)

\* The identifier is in the table: its slot becomes free and its socket leaves
\* active_fd_set, but is not closed.
Remove ==
  \E i \in Fd : \E j \in Slot :
    /\ Answer(i, "REQ_REM", Msg("OK(01)", <<>>))
    /\ Entry(j, Incoming(Link(i), "server").args[1])
    /\ active_fd_set' = active_fd_set \ {clients[j].socket}
    /\ clients' = [clients EXCEPT ![j].active = FALSE]
    /\ num_clients' = num_clients - 1
    /\ UNCHANGED <<next_client_id, told, history>>

RemoveUnknown ==
  \E i \in Fd :
    /\ Answer(i, "REQ_REM", Msg("ERROR(02)", <<>>))
    /\ \A j \in Slot : ~Entry(j, Incoming(Link(i), "server").args[1])
    /\ UNCHANGED <<registry, history>>

\* REQ_INFOSE at SE, REQ_INFOSCII at SCII.
Info ==
  \E i \in Fd :
    /\ \/ server_type = "SE" /\ Answer(i, "REQ_INFOSE", Msg("RES_INFOSE", <<latest>>))
       \/ server_type = "SCII" /\ Answer(i, "REQ_INFOSCII", Msg("RES_INFOSCII", <<latest>>))
    /\ UNCHANGED <<registry, history>>

\* The answer for production v.
RES_STATUS(v) ==
  Msg(CASE v >= 41 -> "RES_STATUS(alta)"
        [] v \in 31 .. 40 -> "RES_STATUS(moderada)"
        [] OTHER -> "RES_STATUS(baixa)", <<>>)

\* The state is that of the last value; a new one is generated for the next.
Status_NothingGenerated ==
  \E i \in Fd :
    /\ server_type = "SE"
    /\ Answer(i, "REQ_STATUS", RES_STATUS(latest))
    /\ UNCHANGED <<registry, history>>
Status ==
  \E i \in Fd :
    /\ server_type = "SE"
    /\ Answer(i, "REQ_STATUS", RES_STATUS(latest))
    /\ \E v \in Levels : AddValue(v)
    /\ UNCHANGED registry

\* handle_req_up(): rand() % (100 - old_value + 1) + old_value.
Up ==
  \E i \in Fd : \E v \in (latest .. 100) \intersect Levels :
    /\ server_type = "SCII"
    /\ Answer(i, "REQ_UP", Msg("RES_UP", <<latest, v>>))
    /\ AddValue(v)
    /\ UNCHANGED registry

\* handle_req_none().
None ==
  \E i \in Fd :
    /\ server_type = "SCII"
    /\ Answer(i, "REQ_NONE", Msg("RES_NONE", <<latest>>))
    /\ UNCHANGED <<registry, history>>

\* handle_req_down(): old_value - rand() % (old_value + 1).
Down ==
  \E i \in Fd : \E v \in (0 .. latest) \intersect Levels :
    /\ server_type = "SCII"
    /\ Answer(i, "REQ_DOWN", Msg("RES_DOWN", <<latest, v>>))
    /\ AddValue(v)
    /\ UNCHANGED registry

\* The requests with a branch of their own in the switch of this server.
Known == IF server_type = "SE" THEN {"REQ_INFOSE", "REQ_STATUS", "REQ_REM"}
         ELSE {"REQ_INFOSCII", "REQ_UP", "REQ_NONE", "REQ_DOWN", "REQ_REM"}

\* Anything else is sent back as it came: the message stands for all the bytes
\* recv() returned, which no client tells apart from their beginning.
Echo ==
  \E i \in Fd :
    /\ i \in read_fd_set /\ HasData(Link(i), "server")
    /\ Incoming(Link(i), "server").type \notin Known
    /\ Answer(i, Incoming(Link(i), "server").type, Incoming(Link(i), "server"))
    /\ UNCHANGED <<registry, history>>

ServerStep ==
  \/ Select \/ AcceptFails \/ Refuse \/ Admit
  \/ Disconnect \/ ReceiveError
  \/ Remove \/ RemoveUnknown \/ Info \/ Status \/ Up \/ None \/ Down \/ Echo

-----------------------------------------------------------------------------
(* The clients, as far as this server can tell them apart: what client.c   *)
(* may do on this connection, and any order it may do it in.               *)

\* connect() succeeds as soon as the kernel has put the connection in the queue.
PeerConnect(p) ==
  /\ running
  /\ conn[p] = Idle
  /\ conn' = [conn EXCEPT ![p] = Established]
  /\ backlog' = Append(backlog, p)
  /\ UNCHANGED <<registry, read_fd_set, history, fds, running>>

\* What a client that keeps to the protocol may send: a client names in REQ_REM
\* no identifier but the one it was told.
Allowed(p) ==
  {Msg(t, <<>>) : t \in Requests} \union
  (IF told[p] = NoId THEN {} ELSE {REQ_REM(told[p])})

\* send() of any message at the client, when it does not raise SIGPIPE.
PeerSends(p, m) ==
  /\ IsOpen(conn[p], "client")
  /\ conn' \in {[conn EXCEPT ![p] = c] : c \in Sent(conn[p], "client", m)}
  /\ UNCHANGED <<registry, read_fd_set, history, sockets, running>>

\* The messages p may send now.
MaySend(p) ==
  {m \in Allowed(p) :
     Len(conn[p]["client"].data) + Len(conn[p]["server"].data) < MaxPending}

PeerSend(p) == \E m \in MaySend(p) : PeerSends(p, m)

\* The connections recv() at the client may leave: data, end-of-file, or error.
PeerReads(c) ==
  IF HasData(c, "client") THEN Received(c, "client")
  ELSE IF AtReset(c, "client") THEN {ErrorReturned(c, "client")} ELSE {c}

PeerReceive(p) ==
  /\ IsOpen(conn[p], "client")
  /\ Readable(conn[p], "client")
  /\ conn' \in {[conn EXCEPT ![p] = c] : c \in PeerReads(conn[p])}
  /\ UNCHANGED <<registry, read_fd_set, history, sockets, running>>

\* close() of the client's socket when c is what it has left of the connection.
PeerCloses(p, c) ==
  /\ IsOpen(conn[p], "client")
  /\ Resets \/ ~HasData(c, "client")
  /\ conn' \in {[conn EXCEPT ![p] = d] : d \in Closings(c, "client")}
  /\ UNCHANGED <<registry, read_fd_set, history, sockets, running>>

\* The client closes the socket, perhaps after a last recv(), or ends.
PeerClose(p) == \E c \in {conn[p]} \union PeerReads(conn[p]) : PeerCloses(p, c)

\* It closes the socket or ends at once after a send(): SIGPIPE at the other server.
PeerSendsLast(p) ==
  \E m \in MaySend(p) : \E c \in Sent(conn[p], "client", m) : PeerCloses(p, c)

PeerStep ==
  \E p \in Client :
    \/ PeerConnect(p)
    \/ PeerSend(p)
    \/ PeerReceive(p)
    \/ PeerClose(p)
    \/ PeerSendsLast(p)

Next == ServerStep \/ PeerStep

Spec == Init /\ [][Next]_vars

\* The process takes a step whenever it can, and the bytes of a connection
\* arrive: a descriptor that is ready again and again is returned by select().
ServerFairness ==
  /\ WF_vars(ServerStep)
  /\ \A i \in Fd \union {server_socket} : SF_vars(Select /\ i \in read_fd_set')

LiveSpec == Spec /\ ServerFairness

-----------------------------------------------------------------------------
(* Properties. *)

\* Types. The table, the descriptors and the connections have the shape that
\* server.c and the kernel give them.
TypeOK ==
  /\ clients \in [Slot -> [socket : Fd \union {-1}, id : Nat \union {NoId},
                          active : BOOLEAN]]
  /\ next_client_id \in Nat
  /\ num_clients \in Int
  /\ active_fd_set \subseteq Fd \union {server_socket}
  /\ read_fd_set \subseteq Fd \union {server_socket}
  /\ latest \in Levels
  /\ history_index \in 1 .. HISTORY_SIZE + 1
  /\ DOMAIN fds \subseteq Fd
  /\ fds \in [DOMAIN fds -> Client]
  /\ backlog \in Seq(Client)
  /\ conn \in [Client -> Connections(Messages)]
  /\ told \in [Client -> Nat \union {NoId}]
  /\ running \in BOOLEAN

\* The descriptors of clients that the loop watches.
Watched == active_fd_set \ {server_socket}

\* num_clients, moved by one in four places, is the number of connections the
\* loop watches, and never passes MAX_CLIENTS: no departure is counted twice or
\* not at all, whether it is a removal, an end-of-file or a reset.
CountMatchesWatched ==
  /\ num_clients = Cardinality(Watched)
  /\ num_clients <= MAX_CLIENTS

\* The copy of active_fd_set that the loop goes through is not refreshed while
\* the handlers change active_fd_set and close descriptors; still every
\* descriptor left in it is watched, open and ready, so that no recv() or
\* accept() of the only thread blocks and none reads another client's bytes.
SnapshotStaysValid ==
  running => \A i \in read_fd_set :
               /\ i \in active_fd_set
               /\ i = server_socket \/ i \in DOMAIN fds
               /\ Ready(i)

\* No recv() has failed with ECONNRESET so far: no client that was admitted has reset
\* its connection and had it closed.
NoResetYet ==
  \A p \in Client : told[p] # NoId /\ conn[p]["client"].end = "rst" => IsOpen(conn[p], "server")

\* Until a recv() fails, the table is the set of watched connections: the first slot
\* with a watched socket is active and holds the identifier its client was told,
\* although the slots of clients gone keep their old socket numbers and the kernel
\* gives these numbers out again; and no other slot is active. (From then on the
\* slot of the client that failed stays active: ReceiveError.)
TableMatchesWatched ==
  NoResetYet =>
    /\ \A i \in Watched : \E j \in Slot :
         SocketSlot(j, i) /\ clients[j].active /\ clients[j].id = told[fds[i]]
    /\ \A j \in Slot : clients[j].active =>
         clients[j].socket \in Watched /\ SocketSlot(j, clients[j].socket)

\* The client has a slot of its own.
Registered(p) ==
  \E j \in Slot : clients[j].active /\ clients[j].id = told[p] /\ told[p] # NoId

\* A step takes a client out of the table only when that client asked for it or
\* has closed its connection: no departure frees the slot of somebody else.
OnlyOwnDeparture ==
  [][\A p \in Client :
       Registered(p) /\ ~Registered(p)' =>
         \/ ~IsOpen(conn[p], "client")
         \/ /\ HasData(conn[p], "server")
            /\ Incoming(conn[p], "server") = REQ_REM(told[p])]_vars

\* What assignment p. 5 promises of an admitted client: it is told an identifier
\* that the table holds, as long as the server watches its connection.
AdmittedIsRegistered == \A i \in Watched : Registered(fds[i])

\* The values that message m reports: before and after, the same but for UP/DOWN.
Before(m) == m.args[1]
After(m) == m.args[Len(m.args)]

\* The places of the sequence s of messages that report values.
Reports(s) ==
  {k \in 1 .. Len(s) : s[k].type \in {"RES_INFOSCII", "RES_UP", "RES_NONE", "RES_DOWN"}}

\* The report of message m is within 0..100, and goes the way the request asked.
SoundReport(m) ==
  /\ After(m) \in 0 .. 100
  /\ m.type = "RES_UP" => Before(m) <= After(m)
  /\ m.type = "RES_DOWN" => Before(m) >= After(m)

\* The reports in s, in their order, tell one history that ends at v.
OneHistory(s, v) ==
  \A k \in Reports(s) :
    LET later == {j \in Reports(s) : j > k}
    IN  /\ later = {} => After(s[k]) = v
        /\ \A j \in later : IsFirst(j, later) => After(s[k]) = Before(s[j])

\* The server has told nobody but p an identifier.
Alone(p) == \A q \in Client \ {p} : told[q] = NoId

\* The reports that a client has still to read are within 0..100, no RES_UP falls and
\* no RES_DOWN rises, whoever else sends requests in between, a full history included.
EveryReportIsSound ==
  \A p \in Client : \A k \in Reports(conn[p]["server"].data) :
    SoundReport(conn[p]["server"].data[k])

\* The reports are sound, and those to the only client there has been tell one
\* continuous history: each starts from the value where the one before it ended, and
\* the last ends at the value the server holds, the `old_value` of the next. (Of a
\* history that is not full: what add_consumption() writes past the end breaks it.)
ReportsTellOneHistory ==
  /\ EveryReportIsSound
  /\ \A p \in Client : Alone(p) => OneHistory(conn[p]["server"].data, latest)

\* Removed connections whose descriptors nobody closed have left accept() none.
LeakedAll ==
  /\ Fd \subseteq DOMAIN fds
  /\ ~(DOMAIN fds \subseteq active_fd_set)

\* Every connection is answered: a client in the queue of accept() is in the end
\* admitted or refused, however busy the others keep the loop, unless accept() fails
\* from then on, for ever: REQ_REM does not close the descriptor of the client it
\* removes, so the removed connections can use up every descriptor there is.
EveryConnectionAnswered ==
  \A p \in Client :
    (\E k \in 1 .. Len(backlog) : backlog[k] = p) ~>
      (~running \/ (\A k \in 1 .. Len(backlog) : backlog[k] # p) \/ []LeakedAll)

\* Every departure is noticed: the loop stops watching the connection of a client
\* that has closed it, and its place is free for another.
EveryDepartureNoticed ==
  \A p \in Client :
    (\E i \in Watched : fds[i] = p /\ ~IsOpen(conn[p], "client")) ~>
      (~running \/ \A i \in Watched : fds[i] # p)

\* The table as the abstract registry: the entries of the active slots, each with
\* the client behind its socket.
Abstract == INSTANCE Registry WITH
  Limit   <- MAX_CLIENTS,
  waiting <- {backlog[k] : k \in 1 .. Len(backlog)},
  members <- {[client |-> fds[clients[j].socket], id |-> clients[j].id] :
                j \in {s \in Slot : clients[s].active}},
  issued  <- 1 .. next_client_id - 1

\* One process of server.c keeps the promise that Registry states until a recv()
\* fails: it gives every client an identifier of its own and a place in the table,
\* and turns one away only when the table itself is full, not just num_clients.
KeepsRegistry ==
  /\ Abstract!RInit
  /\ [][NoResetYet' => [Abstract!RNext]_(Abstract!rvars)]_vars
=============================================================================
