---------------------------- MODULE EnergySystem ----------------------------
(***************************************************************************)
(* TP2-2024 as a whole: the two server processes, each an instance of      *)
(* EnergyServer, and the processes of TP2-2024/cod/client.c, each with one *)
(* connection to either server. A client is one thread around select(): it *)
(* waits for the keyboard and the two sockets, and goes through what is    *)
(* ready in this order: keyboard, SE, SCII.                                *)
(***************************************************************************)
EXTENDS EnergyProtocol, FiniteSets, Tcp

CONSTANTS
  Client, MAX_CLIENTS, HISTORY_SIZE, MaxFd,
  Production,   \* the production values that occur, within 20 .. 50
  Consumption,  \* the consumption values that occur, within 0 .. 100
  Commands,     \* the commands users type
  MaxCommands,  \* bound: how many commands the users type, all together
  Patient       \* bound: whether users wait for the replies before they type again

KnownCommands == {"kill", "display info se", "display info scii", "query condition",
                  "invalid", "end of input"}

ASSUME SystemAssumption ==
  /\ MAX_CLIENTS \in Nat \ {0}
  /\ HISTORY_SIZE \in Nat \ {0}
  /\ MaxFd \in Nat
  /\ Production \subseteq 20 .. 50
  /\ Consumption \subseteq 0 .. 100
  /\ IsFiniteSet(Client)
  /\ Commands \subseteq KnownCommands
  /\ MaxCommands \in Nat
  /\ Patient \in BOOLEAN

VARIABLES
  se_clients, se_next_client_id, se_num_clients, se_active_fd_set, se_read_fd_set,
  se_latest, se_history_index, se_fds, se_backlog, se_conn, se_told, se_running,
  scii_clients, scii_next_client_id, scii_num_clients, scii_active_fd_set,
  scii_read_fd_set, scii_latest, scii_history_index, scii_fds, scii_backlog,
  scii_conn, scii_told, scii_running,
  status,         \* where each client process is, or how it ended
  se_client_id,
  scii_client_id,
  read_fds,       \* what is left to go through of the set select() returned
  typed,          \* how many commands the users have typed
  killed          \* history: the clients whose user has typed kill

SE == INSTANCE EnergyServer WITH
  server_type <- "SE", Levels <- Production, Resets <- TRUE,
  Requests <- {"REQ_INFOSE", "REQ_STATUS"}, MaxPending <- 2 * MaxCommands + 2,
  clients <- se_clients, next_client_id <- se_next_client_id,
  num_clients <- se_num_clients, active_fd_set <- se_active_fd_set,
  read_fd_set <- se_read_fd_set, latest <- se_latest,
  history_index <- se_history_index, fds <- se_fds, backlog <- se_backlog,
  conn <- se_conn, told <- se_told, running <- se_running

SCII == INSTANCE EnergyServer WITH
  server_type <- "SCII", Levels <- Consumption, Resets <- TRUE,
  Requests <- {"REQ_INFOSCII", "REQ_UP", "REQ_NONE", "REQ_DOWN"},
  MaxPending <- 2 * MaxCommands + 2,
  clients <- scii_clients, next_client_id <- scii_next_client_id,
  num_clients <- scii_num_clients, active_fd_set <- scii_active_fd_set,
  read_fd_set <- scii_read_fd_set, latest <- scii_latest,
  history_index <- scii_history_index, fds <- scii_fds, backlog <- scii_backlog,
  conn <- scii_conn, told <- scii_told, running <- scii_running

se_vars ==
  <<se_clients, se_next_client_id, se_num_clients, se_active_fd_set, se_read_fd_set,
    se_latest, se_history_index, se_fds, se_backlog, se_conn, se_told, se_running>>
scii_vars ==
  <<scii_clients, scii_next_client_id, scii_num_clients, scii_active_fd_set, scii_read_fd_set,
    scii_latest, scii_history_index, scii_fds, scii_backlog, scii_conn, scii_told, scii_running>>
client_vars == <<status, se_client_id, scii_client_id, read_fds, typed, killed>>
svars == <<se_vars, scii_vars, client_vars>>

Exits == {"success", "refused", "eof", "ebadf", "no server", "sigpipe"}

Init ==
  /\ SE!Init
  /\ SCII!Init
  /\ status = [p \in Client |-> "start"]
  /\ se_client_id = [p \in Client |-> NoId]
  /\ scii_client_id = [p \in Client |-> NoId]
  /\ read_fds = [p \in Client |-> {}]
  /\ typed = 0
  /\ killed = {}

-----------------------------------------------------------------------------
(* Helpers of the client. *)

SEOpen(p) == IsOpen(se_conn[p], "client")
SCIIOpen(p) == IsOpen(scii_conn[p], "client")

\* The process ends as `how` says; the kernel closes the sockets that are open,
\* with se and scii what it has left of the two connections.
Exit(p, how, se, scii) ==
  /\ status' = [status EXCEPT ![p] = how]
  /\ IF SEOpen(p) THEN SE!PeerCloses(p, se) ELSE UNCHANGED se_vars
  /\ IF SCIIOpen(p) THEN SCII!PeerCloses(p, scii) ELSE UNCHANGED scii_vars

\* send() to one server, with se and scii what the process has read of the two
\* connections in the same handler; SIGPIPE ends the process.
SendSE(p, m) ==
  \/ SE!PeerSends(p, m) /\ UNCHANGED <<scii_vars, status>>
  \/ RaisesSigPipe(se_conn[p], "client") /\ Exit(p, "sigpipe", se_conn[p], scii_conn[p])

SendSCII(p, m) ==
  \/ SCII!PeerSends(p, m) /\ UNCHANGED <<se_vars, status>>
  \/ RaisesSigPipe(scii_conn[p], "client") /\ Exit(p, "sigpipe", se_conn[p], scii_conn[p])

\* The for-all-descriptors part of the loop has come to source f.
GoesThrough(p, f) ==
  /\ status[p] = "running"
  /\ f \in read_fds[p]
  /\ f = "se" => "stdin" \notin read_fds[p]
  /\ f = "scii" => read_fds[p] = {"scii"}
  /\ read_fds' = [read_fds EXCEPT ![p] = @ \ {f}]

-----------------------------------------------------------------------------
(* main(): connect to SE, then to SCII. *)

ConnectSE(p) ==
  /\ status[p] = "start"
  /\ \/ /\ SE!PeerConnect(p)
        /\ status' = [status EXCEPT ![p] = "connected to SE"]
     \/ /\ ~se_running
        /\ status' = [status EXCEPT ![p] = "no server"]
        /\ UNCHANGED se_vars
  /\ UNCHANGED <<scii_vars, se_client_id, scii_client_id, read_fds, typed, killed>>

ConnectSCII(p) ==
  /\ status[p] = "connected to SE"
  /\ \/ /\ SCII!PeerConnect(p)
        /\ status' = [status EXCEPT ![p] = "running"]
        /\ UNCHANGED se_vars
     \/ /\ ~scii_running
        /\ Exit(p, "no server", se_conn[p], scii_conn[p])
  /\ UNCHANGED <<se_client_id, scii_client_id, read_fds, typed, killed>>

-----------------------------------------------------------------------------
(* communicate_with_servers(): select(). *)

\* Nothing is under way between the client and a server, and the client knows both
\* its identifiers: what a user sees who waits for every reply.
Quiet(p) ==
  /\ se_client_id[p] # NoId /\ scii_client_id[p] # NoId
  /\ \A e \in Ends : se_conn[p][e].data = <<>> /\ scii_conn[p][e].data = <<>>

Types(p) == typed < MaxCommands /\ (Patient => Quiet(p))

ReadySources(p) ==
  {f \in {"stdin", "se", "scii"} :
     \/ f = "stdin" /\ Types(p)
     \/ f = "se" /\ Readable(se_conn[p], "client")
     \/ f = "scii" /\ Readable(scii_conn[p], "client")}

Selects(p) ==
  /\ status[p] = "running" /\ read_fds[p] = {}
  /\ SEOpen(p) /\ SCIIOpen(p)
  /\ \E R \in SUBSET ReadySources(p) \ {{}} :
       /\ read_fds' = [read_fds EXCEPT ![p] = R]
       /\ typed' = IF "stdin" \in R THEN typed + 1 ELSE typed
  /\ UNCHANGED <<se_vars, scii_vars, status, se_client_id, scii_client_id, killed>>

\* One of the two sockets in the set is closed: EBADF, exit(EXIT_FAILURE).
SelectFails(p) ==
  /\ status[p] = "running" /\ read_fds[p] = {}
  /\ ~(SEOpen(p) /\ SCIIOpen(p))
  /\ Exit(p, "ebadf", se_conn[p], scii_conn[p])
  /\ UNCHANGED <<se_client_id, scii_client_id, read_fds, typed, killed>>

-----------------------------------------------------------------------------
(* The keyboard. *)

\* A command is read; what it does to the connections and the status is `effect`.
Command(p, name) ==
  /\ name \in Commands
  /\ GoesThrough(p, "stdin")
  /\ UNCHANGED <<se_client_id, scii_client_id, typed>>

EndOfInput(p) ==
  /\ Command(p, "end of input")
  /\ Exit(p, "eof", se_conn[p], scii_conn[p])
  /\ UNCHANGED killed

\* The two requests of kill.
RemovalAtSE_OtherId(p) == REQ_REM(scii_client_id[p])
RemovalAtSE(p) == REQ_REM(se_client_id[p])

RemovalAtSCII(p) == REQ_REM(scii_client_id[p])

\* kill: REQ_REM to each server whose identifier is known, SE first.
Kill(p) ==
  /\ Command(p, "kill")
  /\ killed' = killed \union {p}
  /\ LET toSE == se_client_id[p] # NoId
         toSCII == scii_client_id[p] # NoId
     IN  \/ ~toSE /\ ~toSCII /\ UNCHANGED <<se_vars, scii_vars, status>>
         \/ toSE /\ ~toSCII /\ SendSE(p, RemovalAtSE(p))
         \/ toSCII /\ ~toSE /\ SendSCII(p, RemovalAtSCII(p))
         \/ /\ toSE /\ toSCII
            /\ \/ /\ SE!PeerSends(p, RemovalAtSE(p))
                  /\ SCII!PeerSends(p, RemovalAtSCII(p))
                  /\ UNCHANGED status
               \/ /\ RaisesSigPipe(se_conn[p], "client")
                  /\ Exit(p, "sigpipe", se_conn[p], scii_conn[p])
               \/ /\ RaisesSigPipe(scii_conn[p], "client")
                  /\ status' = [status EXCEPT ![p] = "sigpipe"]
                  /\ \E c \in Sent(se_conn[p], "client", RemovalAtSE(p)) :
                       SE!PeerCloses(p, c)
                  /\ SCII!PeerCloses(p, scii_conn[p])

DisplayInfoSE(p) ==
  /\ Command(p, "display info se")
  /\ SendSE(p, Msg("REQ_INFOSE", <<>>))
  /\ UNCHANGED killed

DisplayInfoSCII(p) ==
  /\ Command(p, "display info scii")
  /\ SendSCII(p, Msg("REQ_INFOSCII", <<>>))
  /\ UNCHANGED killed

QueryCondition(p) ==
  /\ Command(p, "query condition")
  /\ SendSE(p, Msg("REQ_STATUS", <<>>))
  /\ UNCHANGED killed

InvalidCommand(p) ==
  /\ Command(p, "invalid")
  /\ UNCHANGED <<se_vars, scii_vars, status, killed>>

-----------------------------------------------------------------------------
(* Messages from SE. Only the beginning of the bytes that recv() returns is  *)
(* looked at: the messages behind the first are lost.                        *)

FromSE(p, types) ==
  /\ GoesThrough(p, "se")
  /\ HasData(se_conn[p], "client")
  /\ Incoming(se_conn[p], "client").type \in types
  /\ UNCHANGED <<typed, killed>>

AdmittedBySE(p) ==
  /\ FromSE(p, {"RES_ADD"})
  /\ se_client_id' = [se_client_id EXCEPT ![p] = Incoming(se_conn[p], "client").args[1]]
  /\ SE!PeerReceive(p)
  /\ UNCHANGED <<scii_vars, status, scii_client_id>>

RefusedBySE_GoesOn(p) ==
  /\ FromSE(p, {"ERROR(01)"})
  /\ SE!PeerReceive(p)
  /\ UNCHANGED <<scii_vars, status, se_client_id, scii_client_id>>
RefusedBySE(p) ==
  /\ FromSE(p, {"ERROR(01)"})
  /\ \E c \in Received(se_conn[p], "client") : Exit(p, "refused", c, scii_conn[p])
  /\ UNCHANGED <<se_client_id, scii_client_id>>

\* OK(01): the socket is closed; the process ends if the other is done with too.
RemovedBySE_Hurried(p) ==
  /\ FromSE(p, {"OK(01)"})
  /\ \E c \in Received(se_conn[p], "client") : Exit(p, "success", c, scii_conn[p])
  /\ UNCHANGED <<se_client_id, scii_client_id>>
RemovedBySE(p) ==
  /\ FromSE(p, {"OK(01)"})
  /\ se_client_id' = [se_client_id EXCEPT ![p] = NoId]
  /\ \E c \in Received(se_conn[p], "client") :
       IF scii_client_id[p] = NoId
         THEN Exit(p, "success", c, scii_conn[p])
         ELSE SE!PeerCloses(p, c) /\ UNCHANGED <<scii_vars, status>>
  /\ UNCHANGED scii_client_id

\* handle_res_status(): the request that the state of the production calls for.
Advice(type) ==
  CASE type = "RES_STATUS(alta)" -> Msg("REQ_UP", <<>>)
    [] type = "RES_STATUS(moderada)" -> Msg("REQ_NONE", <<>>)
    [] type = "RES_STATUS(baixa)" -> Msg("REQ_DOWN", <<>>)

StatusFromSE(p) ==
  /\ FromSE(p, StatusTypes)
  /\ \/ /\ SE!PeerReceive(p)
        /\ SCII!PeerSends(p, Advice(Incoming(se_conn[p], "client").type))
        /\ UNCHANGED status
     \/ /\ RaisesSigPipe(scii_conn[p], "client")
        /\ \E c \in Received(se_conn[p], "client") : Exit(p, "sigpipe", c, scii_conn[p])
  /\ UNCHANGED <<se_client_id, scii_client_id>>

\* Messages that are only printed, and those nobody looks at.
OtherFromSE(p) ==
  /\ FromSE(p, RequestTypes \union {"REQ_REM", "ERROR(02)", "RES_INFOSE"})
  /\ SE!PeerReceive(p)
  /\ UNCHANGED <<scii_vars, status, se_client_id, scii_client_id>>

\* End-of-file and errors are ignored.
NothingFromSE(p) ==
  /\ GoesThrough(p, "se")
  /\ ~HasData(se_conn[p], "client")
  /\ SE!PeerReceive(p)
  /\ UNCHANGED <<scii_vars, status, se_client_id, scii_client_id, typed, killed>>

-----------------------------------------------------------------------------
(* Messages from SCII. *)

FromSCII(p, types) ==
  /\ GoesThrough(p, "scii")
  /\ HasData(scii_conn[p], "client")
  /\ Incoming(scii_conn[p], "client").type \in types
  /\ UNCHANGED <<typed, killed>>

AdmittedBySCII_OtherVariable(p) ==
  /\ FromSCII(p, {"RES_ADD"})
  /\ se_client_id' =
       [se_client_id EXCEPT ![p] = Incoming(scii_conn[p], "client").args[1]]
  /\ SCII!PeerReceive(p)
  /\ UNCHANGED <<se_vars, status, scii_client_id>>
AdmittedBySCII(p) ==
  /\ FromSCII(p, {"RES_ADD"})
  /\ scii_client_id' =
       [scii_client_id EXCEPT ![p] = Incoming(scii_conn[p], "client").args[1]]
  /\ SCII!PeerReceive(p)
  /\ UNCHANGED <<se_vars, status, se_client_id>>

RefusedBySCII(p) ==
  /\ FromSCII(p, {"ERROR(01)"})
  /\ \E c \in Received(scii_conn[p], "client") : Exit(p, "refused", se_conn[p], c)
  /\ UNCHANGED <<se_client_id, scii_client_id>>

RemovedBySCII_OtherSocket(p) ==
  /\ FromSCII(p, {"OK(01)"})
  /\ scii_client_id' = [scii_client_id EXCEPT ![p] = NoId]
  /\ \E c \in Received(scii_conn[p], "client") :
       IF se_client_id[p] = NoId
         THEN Exit(p, "success", se_conn[p], c)
         ELSE /\ SE!PeerCloses(p, se_conn[p])
              /\ scii_conn' = [scii_conn EXCEPT ![p] = c]
              /\ UNCHANGED <<scii_clients, scii_next_client_id, scii_num_clients,
                             scii_active_fd_set, scii_read_fd_set, scii_latest,
                             scii_history_index, scii_fds, scii_backlog, scii_told,
                             scii_running, status>>
  /\ UNCHANGED se_client_id
RemovedBySCII(p) ==
  /\ FromSCII(p, {"OK(01)"})
  /\ scii_client_id' = [scii_client_id EXCEPT ![p] = NoId]
  /\ \E c \in Received(scii_conn[p], "client") :
       IF se_client_id[p] = NoId
         THEN Exit(p, "success", se_conn[p], c)
         ELSE SCII!PeerCloses(p, c) /\ UNCHANGED <<se_vars, status>>
  /\ UNCHANGED se_client_id

OtherFromSCII(p) ==
  /\ FromSCII(p, RequestTypes \union
                   {"REQ_REM", "ERROR(02)", "RES_INFOSCII", "RES_UP", "RES_NONE", "RES_DOWN"})
  /\ SCII!PeerReceive(p)
  /\ UNCHANGED <<se_vars, status, se_client_id, scii_client_id>>

NothingFromSCII(p) ==
  /\ GoesThrough(p, "scii")
  /\ ~HasData(scii_conn[p], "client")
  /\ SCII!PeerReceive(p)
  /\ UNCHANGED <<se_vars, status, se_client_id, scii_client_id, typed, killed>>

-----------------------------------------------------------------------------

\* The steps of the process that do not wait for anybody.
ClientStep(p) ==
  \/ ConnectSE(p) \/ ConnectSCII(p) \/ SelectFails(p)
  \/ EndOfInput(p) \/ Kill(p) \/ DisplayInfoSE(p) \/ DisplayInfoSCII(p)
  \/ QueryCondition(p) \/ InvalidCommand(p)
  \/ AdmittedBySE(p) \/ RefusedBySE(p) \/ RemovedBySE(p) \/ StatusFromSE(p)
  \/ OtherFromSE(p) \/ NothingFromSE(p)
  \/ AdmittedBySCII(p) \/ RefusedBySCII(p) \/ RemovedBySCII(p)
  \/ OtherFromSCII(p) \/ NothingFromSCII(p)

Next ==
  \/ SE!ServerStep /\ UNCHANGED <<scii_vars, client_vars>>
  \/ SCII!ServerStep /\ UNCHANGED <<se_vars, client_vars>>
  \/ \E p \in Client : Selects(p) \/ ClientStep(p)

Spec == Init /\ [][Next]_svars

\* Each process takes a step whenever it can, and what has been sent arrives. No
\* user has to type anything.
Fairness ==
  /\ WF_svars(SE!ServerStep /\ UNCHANGED <<scii_vars, client_vars>>)
  /\ WF_svars(SCII!ServerStep /\ UNCHANGED <<se_vars, client_vars>>)
  /\ \A i \in 3 .. MaxFd :
       /\ SF_svars(SE!Select /\ i \in se_read_fd_set' /\ UNCHANGED <<scii_vars, client_vars>>)
       /\ SF_svars(SCII!Select /\ i \in scii_read_fd_set' /\ UNCHANGED <<se_vars, client_vars>>)
  /\ \A p \in Client :
       /\ WF_svars(ClientStep(p))
       /\ \A f \in {"se", "scii"} : SF_svars(Selects(p) /\ f \in read_fds'[p])

LiveSpec == Spec /\ Fairness

-----------------------------------------------------------------------------
(* Properties. *)

\* The clients are an environment the servers were verified in: every step of the
\* system is a step of EnergyServer at SE and at SCII, or leaves it alone. In
\* particular a client removes nobody but itself.
ServersKeepSpec == SE!Spec /\ SCII!Spec

\* A client that has ended with EXIT_SUCCESS is not left in the tables of both
\* servers, and in neither if it had read that server's RES_ADD: the server whose OK(01)
\* ended it has removed it, and so has the other. (A kill between the two RES_ADD asks
\* one server only; the other may go on listing the client, which closed the connection
\* with the RES_ADD unread or before it was sent, so that bytes met a closed socket.)
SuccessMeansRemoved ==
  \A p \in Client : status[p] = "success" =>
    /\ ~SE!Registered(p) \/ ~SCII!Registered(p)
    /\ se_conn[p]["client"].end = "fin" => ~SE!Registered(p)
    /\ scii_conn[p]["client"].end = "fin" => ~SCII!Registered(p)

\* Assignment p. 8: kill ends the connection of the client, and the servers go on.
ServersSurvive == se_running /\ scii_running

\* Client p has ended, and answers on the connection c came too late for it.
GoneUnanswered(p, c) == status[p] \in Exits /\ c["client"].end \in {"finrst", "broken"}

\* A server dies of SIGPIPE only after answers to a client that has ended: never of a
\* client that runs, not even of one that has closed the socket already because that
\* server's OK(01) came before the other's, whatever else it had sent.
ServersDieOfTheGone ==
  /\ ~se_running => \E p \in Client : GoneUnanswered(p, se_conn[p])
  /\ ~scii_running => \E p \in Client : GoneUnanswered(p, scii_conn[p])

\* What SCII tells of its consumption, as the clients of the system make it change.
ReportsTellOneHistory == SCII!ReportsTellOneHistory

\* SCII raises or lowers the consumption at most once for each time that SE gave the
\* state of the production: each of the two adds a value to a history, and the indexes
\* count them as long as neither history is full. (Which state a request follows, and
\* that no other client has asked in between, is not compared.)
EveryActionHasItsStatus == scii_history_index <= se_history_index

\* A client that one server has refused gives up its place at the other: the server
\* that did admit it stops watching its connection.
RefusedLeavesBoth ==
  \A p \in Client :
    /\ (se_conn[p]["server"].end = "fin" /\ se_told[p] = NoId) ~>
         (~scii_running \/ \A i \in SCII!Watched : scii_fds[i] # p)
    /\ (scii_conn[p]["server"].end = "fin" /\ scii_told[p] = NoId) ~>
         (~se_running \/ \A i \in SE!Watched : se_fds[i] # p)

\* After kill the client ends, be it because select() fails on the first socket it has
\* closed. True of users who wait for every reply before they type (Patient); a kill
\* typed between the two RES_ADD, behind another request, may be lost.
KillEndsClient == \A p \in Client : p \in killed ~> status[p] \in Exits

\* Every client ends up with an identifier from both servers, or has ended: refused, or
\* by its user. No connection is forgotten and nobody waits for an answer that the order
\* of the other clients keeps away.
EveryClientSettles ==
  \A p \in Client : status[p] = "start" ~>
    status[p] \in Exits \/ (se_client_id[p] # NoId /\ scii_client_id[p] # NoId)
=============================================================================
